--------------------------- MODULE ServerPoolProofs ---------------------------
(***************************************************************************)
(* The engine servers of a process, for any number of servers and engines. *)
(*                                                                         *)
(* A running server has one holder: the idle list, an engine or the        *)
(* operation under way.  What the holder may assume of the server (its own *)
(* router in it, or none and no answer owed) follows from how it got it.   *)
(***************************************************************************)
EXTENDS ServerPool, TLAPS

SeqInv == \A i, k \in 1..Len(idle) : idle[i] = idle[k] => i = k

HolderInv ==
    /\ \A e, f \in Engine : conn[e] # NoServer /\ conn[e] = conn[f] => e = f
    /\ \A e \in Engine : conn[e] # NoServer => conn[e] \notin Idle /\ conn[e] # task.srv
    /\ task.srv \notin Idle
    /\ \A e \in dropped : conn[e] # NoServer

TaskInv ==
    /\ task.srv # NoServer <=> task.op \in {"construct", "weigh"}
    /\ task.op \in {"collect", "probe", "construct"} => task.eng \in Engine /\ conn[task.eng] = NoServer
    /\ task.op = "check" => task.eng \in Engine \ dropped /\ conn[task.eng] # NoServer

(* A cut construction leaves a router in a server that is behind.          *)
RouterInv ==
    /\ \A e \in Engine : conn[e] # NoServer /\ Up(conn[e]) => router[conn[e]] = e
    /\ \A s \in Idle : Up(s) /\ ~behind[s] => router[s] = NoEngine
    /\ task.op = "construct" /\ Up(task.srv) => router[task.srv] = NoEngine /\ ~behind[task.srv]
    /\ task.op = "weigh" /\ Up(task.srv) => router[task.srv] = NoEngine

(* The operation under way is the only user of a server, unless a scope    *)
(* has left several engines alive.  Outside of the scope these still keep  *)
(* others from being made; while one is weighed, another may be parked.    *)
LimitInv ==
    /\ scope = "never" =>
         /\ Len(idle) <= maxIdle /\ (task.op = "weigh" => Len(idle) < maxIdle)
         /\ \A e, f \in Engine : conn[e] # NoServer /\ conn[f] # NoServer => e = f
         /\ task.op = "weigh" => \A e \in Engine : conn[e] = NoServer
    /\ Len(idle) <= maxIdle + 1 /\ (task.op = "weigh" => Len(idle) <= maxIdle)
    /\ scope # "in" /\ task.op \in {"probe", "construct"} => \A e \in Engine : conn[e] = NoServer

OrphanInv == \A s \in Server : Up(s) => s \in Idle \/ s = task.srv \/ \E e \in Engine : conn[e] = s

IInv == TypeOK /\ SeqInv /\ HolderInv /\ TaskInv /\ RouterInv /\ LimitInv /\ OrphanInv

-----------------------------------------------------------------------------
(* The idle list: a server is parked at its end, taken from it, or cut off *)
(* with the surplus.                                                       *)
LEMMA NoIdle ==
    ASSUME TypeOK
    PROVE  Idle \subseteq Server /\ NoServer \notin Idle
BY PoolAssumption DEF TypeOK, Idle

LEMMA Parked ==
    ASSUME IInv, NEW s \in Server, s \notin Idle, idle' = Append(idle, s)
    PROVE  idle' \in Seq(Server) /\ Len(idle') = Len(idle) + 1 /\ SeqInv' /\ Idle' = Idle \cup {s}
<1>1. idle \in Seq(Server) /\ SeqInv /\ \A i \in 1..Len(idle) : idle[i] # s
  BY DEF IInv, TypeOK, Idle
<1>2. idle' \in Seq(Server) /\ Len(idle') = Len(idle) + 1
  BY <1>1
<1>3. idle'[Len(idle) + 1] = s /\ \A i \in 1..Len(idle) : idle'[i] = idle[i]
  BY <1>1
<1>4. SeqInv'
  BY <1>1, <1>2, <1>3 DEF SeqInv
<1>5. Idle' = Idle \cup {s}
  BY <1>1, <1>2, <1>3 DEF Idle
<1> QED BY <1>2, <1>4, <1>5

LEMMA CutOff ==
    ASSUME IInv, NEW n \in 0..Len(idle), idle' = SubSeq(idle, 1, n)
    PROVE  /\ idle' \in Seq(Server) /\ Len(idle') = n /\ SeqInv'
           /\ Idle' = Idle \ {idle[i] : i \in 1..Len(idle) \ 1..n}
<1>1. idle \in Seq(Server) /\ SeqInv
  BY DEF IInv, TypeOK
<1>2. idle' \in Seq(Server) /\ Len(idle') = n /\ \A i \in 1..n : idle'[i] = idle[i]
  BY <1>1
<1>3. SeqInv'
  BY <1>1, <1>2 DEF SeqInv
<1>4. Idle' = Idle \ {idle[i] : i \in 1..Len(idle) \ 1..n}
  BY <1>1, <1>2 DEF Idle, SeqInv
<1> QED BY <1>2, <1>3, <1>4

LEMMA Taken ==
    ASSUME IInv, idle # <<>>, idle' = Unparked
    PROVE  /\ idle' \in Seq(Server) /\ Len(idle') = Len(idle) - 1 /\ SeqInv'
           /\ idle[Len(idle)] \in Server /\ idle[Len(idle)] \in Idle
           /\ Idle' = Idle \ {idle[Len(idle)]}
<1> DEFINE n == Len(idle) - 1
<1>1. idle \in Seq(Server)
  BY DEF IInv, TypeOK
<1>2. Len(idle) \in Nat \ {0}
  BY <1>1
<1>3. n \in 0..Len(idle) /\ 1..Len(idle) \ 1..n = {Len(idle)} /\ idle' = SubSeq(idle, 1, n)
  BY <1>2 DEF Unparked
<1>4. idle[Len(idle)] \in Server /\ idle[Len(idle)] \in Idle
  BY <1>1, <1>2 DEF Idle
<1> HIDE DEF n
<1>5. /\ idle' \in Seq(Server) /\ Len(idle') = n /\ SeqInv'
      /\ Idle' = Idle \ {idle[i] : i \in 1..Len(idle) \ 1..n}
  BY <1>3, CutOff
<1>6. {idle[i] : i \in 1..Len(idle) \ 1..n} = {idle[Len(idle)]}
  BY <1>3
<1> QED BY <1>4, <1>5, <1>6 DEF n

-----------------------------------------------------------------------------
(* The operations.                                                         *)
LEMMA OpenStep ==
    ASSUME IInv, NEW e \in Engine, Open(e)
    PROVE  IInv'
<1>1. idle' = idle /\ Idle' = Idle /\ SeqInv' /\ NoServer \notin Idle
  BY PoolAssumption, NoIdle DEF IInv, Open, Ready, Idle, SeqInv
<1>2. TypeOK'
  BY <1>1, PoolAssumption DEF IInv, TypeOK, Off, Open, Ready
<1>3. HolderInv'
  BY <1>1, PoolAssumption DEF IInv, TypeOK, HolderInv, TaskInv, Open, Ready
<1>4. TaskInv'
  BY <1>1, PoolAssumption DEF IInv, TypeOK, TaskInv, HolderInv, Open, Ready
<1>5. RouterInv'
  BY <1>1, PoolAssumption DEF IInv, TypeOK, RouterInv, HolderInv, TaskInv, Up, Off, Open, Ready
<1>6. LimitInv'
  BY <1>1, PoolAssumption DEF IInv, TypeOK, LimitInv, TaskInv, Open, Ready
<1>7. OrphanInv'
  BY <1>1, PoolAssumption DEF IInv, TypeOK, OrphanInv, TaskInv, Up, Off, Open, Ready
<1> QED BY <1>1, <1>2, <1>3, <1>4, <1>5, <1>6, <1>7 DEF IInv

LEMMA AdmitStep ==
    ASSUME IInv, Admit
    PROVE  IInv'
<1>1. idle' = idle /\ Idle' = Idle /\ SeqInv' /\ NoServer \notin Idle
  BY PoolAssumption, NoIdle DEF IInv, Admit, Ready, Reclaimed, Idle, SeqInv
<1>2. TypeOK'
  BY <1>1, PoolAssumption DEF IInv, TypeOK, Off, Admit, Ready, Reclaimed
<1>3. HolderInv'
  BY <1>1, PoolAssumption DEF IInv, TypeOK, HolderInv, TaskInv, Admit, Ready, Reclaimed
<1>4. TaskInv'
  BY <1>1, PoolAssumption DEF IInv, TypeOK, TaskInv, HolderInv, Admit, Ready, Reclaimed
<1>5. RouterInv'
  BY <1>1, PoolAssumption DEF IInv, TypeOK, RouterInv, HolderInv, TaskInv, Up, Off, Admit, Ready, Reclaimed
<1>6. LimitInv'
  BY <1>1, PoolAssumption DEF IInv, TypeOK, LimitInv, TaskInv, Admit, Ready, Reclaimed
<1>7. OrphanInv'
  BY <1>1, PoolAssumption DEF IInv, TypeOK, OrphanInv, TaskInv, Up, Off, Admit, Ready, Reclaimed
<1> QED BY <1>1, <1>2, <1>3, <1>4, <1>5, <1>6, <1>7 DEF IInv

LEMMA SpawnStep ==
    ASSUME IInv, Spawn
    PROVE  IInv'
<1>1. idle' = idle /\ Idle' = Idle /\ SeqInv' /\ NoServer \notin Idle
  BY PoolAssumption, NoIdle DEF IInv, Spawn, Idle, SeqInv
<1>2. TypeOK'
  <2>1. proc' \in [Server -> {"up", "off"}] /\ router' \in [Server -> Engine \cup {NoEngine}]
    BY DEF IInv, TypeOK, Spawn
  <2>2. behind' \in [Server -> BOOLEAN] /\ fat' \in [Server -> BOOLEAN]
    BY DEF IInv, TypeOK, Spawn
  <2> QED BY <1>1, <2>1, <2>2 DEF IInv, TypeOK, Spawn
<1>3. HolderInv'
  <2>1. PICK s \in Server \ Referenced : task'.srv = s
    BY DEF Spawn, IInv, TypeOK
  <2>2. s \notin Idle /\ \A e \in Engine : conn[e] # s
    BY <2>1 DEF Referenced
  <2>3. conn' = conn /\ dropped' = dropped
    BY DEF Spawn
  <2> QED BY <1>1, <2>1, <2>2, <2>3 DEF IInv, HolderInv
<1>4. TaskInv'
  BY <1>1, PoolAssumption DEF IInv, TypeOK, TaskInv, HolderInv, Spawn
<1>5. RouterInv'
  <2>1. PICK s \in Server \ Referenced :
          /\ proc' = [proc EXCEPT ![s] = "up"] /\ router' = [router EXCEPT ![s] = NoEngine]
          /\ behind' = [behind EXCEPT ![s] = FALSE]
          /\ task' = [task EXCEPT !.op = "construct", !.srv = s]
    BY DEF Spawn
  <2>2. s \in Server /\ s \notin Idle /\ \A e \in Engine : conn[e] # s
    BY <2>1 DEF Referenced
  <2>3. \A t \in Server : t # s => proc'[t] = proc[t] /\ router'[t] = router[t] /\ (behind'[t] <=> behind[t])
    BY <2>1 DEF IInv, TypeOK
  <2>4. router'[s] = NoEngine /\ ~behind'[s] /\ task'.op = "construct" /\ task'.srv = s
    BY <2>1, <2>2 DEF IInv, TypeOK
  <2>5. conn' = conn
    BY DEF Spawn
  <2>6. Idle \subseteq Server /\ \A e \in Engine : conn[e] # NoServer => conn[e] \in Server
    BY NoIdle DEF IInv, TypeOK
  <2> QED BY <1>1, <2>2, <2>3, <2>4, <2>5, <2>6 DEF IInv, RouterInv, Up
<1>6. LimitInv'
  BY <1>1, PoolAssumption DEF IInv, TypeOK, LimitInv, TaskInv, Spawn
<1>7. OrphanInv'
  BY <1>1, PoolAssumption DEF IInv, TypeOK, OrphanInv, TaskInv, Up, Off, Spawn
<1> QED BY <1>1, <1>2, <1>3, <1>4, <1>5, <1>6, <1>7 DEF IInv

LEMMA SpawnFailsStep ==
    ASSUME IInv, SpawnFails
    PROVE  IInv'
<1>1. idle' = idle /\ Idle' = Idle /\ SeqInv' /\ NoServer \notin Idle
  BY PoolAssumption, NoIdle DEF IInv, SpawnFails, Ready, Idle, SeqInv
<1>2. TypeOK'
  BY <1>1, PoolAssumption DEF IInv, TypeOK, Off, SpawnFails, Ready
<1>3. HolderInv'
  BY <1>1, PoolAssumption DEF IInv, TypeOK, HolderInv, TaskInv, SpawnFails, Ready
<1>4. TaskInv'
  BY <1>1, PoolAssumption DEF IInv, TypeOK, TaskInv, HolderInv, SpawnFails, Ready
<1>5. RouterInv'
  BY <1>1, PoolAssumption DEF IInv, TypeOK, RouterInv, HolderInv, TaskInv, Up, Off, SpawnFails, Ready
<1>6. LimitInv'
  BY <1>1, PoolAssumption DEF IInv, TypeOK, LimitInv, TaskInv, SpawnFails, Ready
<1>7. OrphanInv'
  BY <1>1, PoolAssumption DEF IInv, TypeOK, OrphanInv, TaskInv, Up, Off, SpawnFails, Ready
<1> QED BY <1>1, <1>2, <1>3, <1>4, <1>5, <1>6, <1>7 DEF IInv

LEMMA ConstructStep ==
    ASSUME IInv, Construct
    PROVE  IInv'
<1>1. idle' = idle /\ Idle' = Idle /\ SeqInv' /\ NoServer \notin Idle
  BY PoolAssumption, NoIdle DEF IInv, Construct, Idle, SeqInv
<1>2. TypeOK'
  BY <1>1, PoolAssumption DEF IInv, TypeOK, Off, Construct
<1>3. HolderInv'
  BY <1>1, PoolAssumption DEF IInv, TypeOK, HolderInv, TaskInv, Construct
<1>4. TaskInv'
  BY <1>1, PoolAssumption DEF IInv, TypeOK, TaskInv, HolderInv, Construct
<1>5. RouterInv'
  BY <1>1, PoolAssumption DEF IInv, TypeOK, RouterInv, HolderInv, TaskInv, Up, Off, Construct
<1>6. LimitInv'
  BY <1>1, PoolAssumption DEF IInv, TypeOK, LimitInv, TaskInv, Construct
<1>7. OrphanInv'
  BY <1>1, PoolAssumption DEF IInv, TypeOK, OrphanInv, TaskInv, Up, Off, Construct
<1> QED BY <1>1, <1>2, <1>3, <1>4, <1>5, <1>6, <1>7 DEF IInv

LEMMA ConstructCrashesStep ==
    ASSUME IInv, ConstructCrashes
    PROVE  IInv'
<1>1. idle' = idle /\ Idle' = Idle /\ SeqInv' /\ NoServer \notin Idle
  BY PoolAssumption, NoIdle DEF IInv, ConstructCrashes, Ready, Idle, SeqInv
<1>2. TypeOK'
  BY <1>1, PoolAssumption DEF IInv, TypeOK, Off, ConstructCrashes, Ready
<1>3. HolderInv'
  BY <1>1, PoolAssumption DEF IInv, TypeOK, HolderInv, TaskInv, ConstructCrashes, Ready
<1>4. TaskInv'
  BY <1>1, PoolAssumption DEF IInv, TypeOK, TaskInv, HolderInv, ConstructCrashes, Ready
<1>5. RouterInv'
  BY <1>1, PoolAssumption DEF IInv, TypeOK, RouterInv, HolderInv, TaskInv, Up, Off, ConstructCrashes, Ready
<1>6. LimitInv'
  BY <1>1, PoolAssumption DEF IInv, TypeOK, LimitInv, TaskInv, ConstructCrashes, Ready
<1>7. OrphanInv'
  BY <1>1, PoolAssumption DEF IInv, TypeOK, OrphanInv, TaskInv, Up, Off, ConstructCrashes, Ready
<1> QED BY <1>1, <1>2, <1>3, <1>4, <1>5, <1>6, <1>7 DEF IInv

LEMMA InitDoneStep ==
    ASSUME IInv, InitDone
    PROVE  IInv'
<1>1. idle' = idle /\ Idle' = Idle /\ SeqInv' /\ NoServer \notin Idle
  BY PoolAssumption, NoIdle DEF IInv, InitDone, Ready, Idle, SeqInv
<1>2. TypeOK'
  BY <1>1, PoolAssumption DEF IInv, TypeOK, Off, InitDone, Ready
<1>3. HolderInv'
  BY <1>1, PoolAssumption DEF IInv, TypeOK, HolderInv, TaskInv, InitDone, Ready
<1>4. TaskInv'
  BY <1>1, PoolAssumption DEF IInv, TypeOK, TaskInv, HolderInv, InitDone, Ready
<1>5. RouterInv'
  BY <1>1, PoolAssumption DEF IInv, TypeOK, RouterInv, HolderInv, TaskInv, Up, Off, InitDone, Ready
<1>6. LimitInv'
  BY <1>1, PoolAssumption DEF IInv, TypeOK, LimitInv, TaskInv, InitDone, Ready
<1>7. OrphanInv'
  BY <1>1, PoolAssumption DEF IInv, TypeOK, OrphanInv, TaskInv, Up, Off, InitDone, Ready
<1> QED BY <1>1, <1>2, <1>3, <1>4, <1>5, <1>6, <1>7 DEF IInv

LEMMA InitRaisesStep ==
    ASSUME IInv, InitRaises
    PROVE  IInv'
<1>1. idle' = idle /\ Idle' = Idle /\ SeqInv' /\ NoServer \notin Idle
  BY PoolAssumption, NoIdle DEF IInv, InitRaises, Ready, Idle, SeqInv
<1>2. TypeOK'
  <2>1. behind' \in [Server -> BOOLEAN]
    BY DEF IInv, TypeOK, TaskInv, InitRaises
  <2> QED BY <1>1, <2>1 DEF IInv, TypeOK, TaskInv, InitRaises, Ready
<1>3. HolderInv'
  BY <1>1, PoolAssumption DEF IInv, TypeOK, HolderInv, TaskInv, InitRaises, Ready
<1>4. TaskInv'
  BY <1>1, PoolAssumption DEF IInv, TypeOK, TaskInv, HolderInv, InitRaises, Ready
<1>5. RouterInv'
  <2>1. conn[task.eng] \in Server /\ conn[task.eng] \notin Idle /\ task'.op = "ready"
    BY DEF IInv, TypeOK, TaskInv, HolderInv, InitRaises, Ready
  <2>2. \A s \in Idle : ~behind'[s] => ~behind[s]
    BY <2>1, NoIdle DEF IInv, TypeOK, InitRaises
  <2>3. conn' = conn /\ proc' = proc /\ router' = router
    BY DEF InitRaises
  <2> QED BY <1>1, <2>1, <2>2, <2>3 DEF IInv, RouterInv, Up
<1>6. LimitInv'
  BY <1>1, PoolAssumption DEF IInv, TypeOK, LimitInv, TaskInv, InitRaises, Ready
<1>7. OrphanInv'
  BY <1>1, PoolAssumption DEF IInv, TypeOK, OrphanInv, TaskInv, Up, Off, InitRaises, Ready
<1> QED BY <1>1, <1>2, <1>3, <1>4, <1>5, <1>6, <1>7 DEF IInv

LEMMA DropStep ==
    ASSUME IInv, NEW e \in Engine, Drop(e)
    PROVE  IInv'
<1>1. idle' = idle /\ Idle' = Idle /\ SeqInv' /\ NoServer \notin Idle
  BY PoolAssumption, NoIdle DEF IInv, Drop, Ready, Idle, SeqInv
<1>2. TypeOK'
  BY <1>1, PoolAssumption DEF IInv, TypeOK, Off, Drop, Ready
<1>3. HolderInv'
  BY <1>1, PoolAssumption DEF IInv, TypeOK, HolderInv, TaskInv, Drop, Ready
<1>4. TaskInv'
  BY <1>1, PoolAssumption DEF IInv, TypeOK, TaskInv, HolderInv, Drop, Ready
<1>5. RouterInv'
  BY <1>1, PoolAssumption DEF IInv, TypeOK, RouterInv, HolderInv, TaskInv, Up, Off, Drop, Ready
<1>6. LimitInv'
  BY <1>1, PoolAssumption DEF IInv, TypeOK, LimitInv, TaskInv, Drop, Ready
<1>7. OrphanInv'
  BY <1>1, PoolAssumption DEF IInv, TypeOK, OrphanInv, TaskInv, Up, Off, Drop, Ready
<1> QED BY <1>1, <1>2, <1>3, <1>4, <1>5, <1>6, <1>7 DEF IInv

LEMMA UseCutStep ==
    ASSUME IInv, NEW e \in Engine, UseCut(e)
    PROVE  IInv'
<1>1. idle' = idle /\ Idle' = Idle /\ SeqInv' /\ NoServer \notin Idle
  BY PoolAssumption, NoIdle DEF IInv, UseCut, Idle, SeqInv
<1>2. TypeOK'
  BY <1>1, PoolAssumption DEF IInv, TypeOK, Off, UseCut
<1>3. HolderInv'
  BY <1>1, PoolAssumption DEF IInv, TypeOK, HolderInv, TaskInv, UseCut
<1>4. TaskInv'
  BY <1>1, PoolAssumption DEF IInv, TypeOK, TaskInv, HolderInv, UseCut
<1>5. RouterInv'
  BY <1>1, PoolAssumption DEF IInv, TypeOK, RouterInv, HolderInv, TaskInv, Up, Off, UseCut
<1>6. LimitInv'
  BY <1>1, PoolAssumption DEF IInv, TypeOK, LimitInv, TaskInv, UseCut
<1>7. OrphanInv'
  BY <1>1, PoolAssumption DEF IInv, TypeOK, OrphanInv, TaskInv, Up, Off, UseCut
<1> QED BY <1>1, <1>2, <1>3, <1>4, <1>5, <1>6, <1>7 DEF IInv

LEMMA GrowStep ==
    ASSUME IInv, NEW e \in Engine, Grow(e)
    PROVE  IInv'
<1>1. idle' = idle /\ Idle' = Idle /\ SeqInv' /\ NoServer \notin Idle
  BY PoolAssumption, NoIdle DEF IInv, Grow, Idle, SeqInv
<1>2. TypeOK'
  BY <1>1, PoolAssumption DEF IInv, TypeOK, Off, Grow
<1>3. HolderInv'
  BY <1>1, PoolAssumption DEF IInv, TypeOK, HolderInv, TaskInv, Grow
<1>4. TaskInv'
  BY <1>1, PoolAssumption DEF IInv, TypeOK, TaskInv, HolderInv, Grow
<1>5. RouterInv'
  BY <1>1, PoolAssumption DEF IInv, TypeOK, RouterInv, HolderInv, TaskInv, Up, Off, Grow
<1>6. LimitInv'
  BY <1>1, PoolAssumption DEF IInv, TypeOK, LimitInv, TaskInv, Grow
<1>7. OrphanInv'
  BY <1>1, PoolAssumption DEF IInv, TypeOK, OrphanInv, TaskInv, Up, Off, Grow
<1> QED BY <1>1, <1>2, <1>3, <1>4, <1>5, <1>6, <1>7 DEF IInv

LEMMA CrashStep ==
    ASSUME IInv, NEW s \in Server, Crash(s)
    PROVE  IInv'
<1>1. idle' = idle /\ Idle' = Idle /\ SeqInv' /\ NoServer \notin Idle
  BY PoolAssumption, NoIdle DEF IInv, Crash, Idle, SeqInv
<1>2. TypeOK'
  BY <1>1, PoolAssumption DEF IInv, TypeOK, Off, Crash
<1>3. HolderInv'
  BY <1>1, PoolAssumption DEF IInv, TypeOK, HolderInv, TaskInv, Crash
<1>4. TaskInv'
  BY <1>1, PoolAssumption DEF IInv, TypeOK, TaskInv, HolderInv, Crash
<1>5. RouterInv'
  BY <1>1, PoolAssumption DEF IInv, TypeOK, RouterInv, HolderInv, TaskInv, Up, Off, Crash
<1>6. LimitInv'
  BY <1>1, PoolAssumption DEF IInv, TypeOK, LimitInv, TaskInv, Crash
<1>7. OrphanInv'
  BY <1>1, PoolAssumption DEF IInv, TypeOK, OrphanInv, TaskInv, Up, Off, Crash
<1> QED BY <1>1, <1>2, <1>3, <1>4, <1>5, <1>6, <1>7 DEF IInv

(* The last parked server is taken: reused, or killed.                     *)
LEMMA TakenStep ==
    ASSUME IInv, task.op = "probe", idle # <<>>, idle' = Unparked, NEW s, s = idle[Len(idle)],
           \/ Answers(s) /\ task' = [task EXCEPT !.op = "construct", !.srv = s] /\ UNCHANGED proc
           \/ proc' = Off(s) /\ task' \in {task, Ready},
           UNCHANGED <<router, behind, fat, maxIdle, conn, dropped, scope>>
    PROVE  IInv'
<1>1. /\ idle' \in Seq(Server) /\ Len(idle') = Len(idle) - 1 /\ SeqInv'
      /\ s \in Server /\ s \in Idle /\ Idle' = Idle \ {s}
  BY Taken
<1>2. /\ NoServer \notin Idle /\ Len(idle) \in Nat /\ task.srv = NoServer
      /\ \A e \in Engine : conn[e] # s
  BY <1>1, NoIdle DEF IInv, TypeOK, HolderInv, TaskInv
<1>3. CASE /\ Up(s) /\ ~behind[s] /\ UNCHANGED proc
           /\ task' = [task EXCEPT !.op = "construct", !.srv = s]
  <2>1. task' = [op |-> "construct", eng |-> task.eng, srv |-> s] /\ task.eng \in Engine
        /\ conn[task.eng] = NoServer
    BY <1>3 DEF IInv, TypeOK, TaskInv
  <2>2. ~behind[s] /\ router[s] = NoEngine
    BY <1>1, <1>3 DEF IInv, RouterInv
  <2>3. TypeOK'
    BY <1>1, <1>2, <1>3, <2>1, <2>2, PoolAssumption DEF IInv, TypeOK, Off, Ready
  <2>4. HolderInv'
    BY <1>1, <1>2, <1>3, <2>1, <2>2, PoolAssumption DEF IInv, TypeOK, HolderInv, TaskInv, Ready
  <2>5. TaskInv'
    BY <1>1, <1>2, <1>3, <2>1, <2>2, PoolAssumption DEF IInv, TypeOK, TaskInv, HolderInv, Ready
  <2>6. RouterInv'
    BY <1>1, <1>2, <1>3, <2>1, <2>2, PoolAssumption DEF IInv, TypeOK, RouterInv, HolderInv, TaskInv, Up, Off, Ready
  <2>7. LimitInv'
    BY <1>1, <1>2, <1>3, <2>1, <2>2, PoolAssumption DEF IInv, TypeOK, LimitInv, TaskInv, Ready
  <2>8. OrphanInv'
    BY <1>1, <1>2, <1>3, <2>1, <2>2, PoolAssumption DEF IInv, TypeOK, OrphanInv, TaskInv, Up, Off, Ready
  <2> QED BY <1>1, <2>3, <2>4, <2>5, <2>6, <2>7, <2>8 DEF IInv
<1>4. CASE proc' = Off(s) /\ task' \in {task, Ready}
  <2>1. TypeOK'
    BY <1>1, <1>2, <1>4, PoolAssumption DEF IInv, TypeOK, Off, Ready
  <2>2. HolderInv'
    BY <1>1, <1>2, <1>4, PoolAssumption DEF IInv, TypeOK, HolderInv, TaskInv, Ready
  <2>3. TaskInv'
    BY <1>1, <1>2, <1>4, PoolAssumption DEF IInv, TypeOK, TaskInv, HolderInv, Ready
  <2>4. RouterInv'
    BY <1>1, <1>2, <1>4, PoolAssumption DEF IInv, TypeOK, RouterInv, HolderInv, TaskInv, Up, Off, Ready
  <2>5. LimitInv'
    BY <1>1, <1>2, <1>4, PoolAssumption DEF IInv, TypeOK, LimitInv, TaskInv, Ready
  <2>6. OrphanInv'
    BY <1>1, <1>2, <1>4, PoolAssumption DEF IInv, TypeOK, OrphanInv, TaskInv, Up, Off, Ready
  <2> QED BY <1>1, <2>1, <2>2, <2>3, <2>4, <2>5, <2>6 DEF IInv
<1> QED BY <1>3, <1>4 DEF Answers

(* The server of a construction that did not succeed is parked or killed.  *)
LEMMA ShelvedStep ==
    ASSUME IInv, task.op = "construct", NEW s, s = task.srv, Up(s), Shelve(s), task' = Ready,
           fat' \in [Server -> BOOLEAN],
           \/ UNCHANGED <<router, behind>>
           \/ router' = [router EXCEPT ![s] = task.eng] /\ behind' = [behind EXCEPT ![s] = TRUE],
           UNCHANGED <<maxIdle, conn, dropped, scope>>
    PROVE  IInv'
<1>1. /\ s \in Server /\ s \notin Idle /\ NoServer \notin Idle /\ Idle \subseteq Server /\ Len(idle) \in Nat
      /\ task.eng \in Engine /\ \A e \in Engine : conn[e] # s
      /\ router[s] = NoEngine
  BY NoIdle, PoolAssumption DEF IInv, TypeOK, HolderInv, TaskInv, RouterInv
<1>2. behind' \in [Server -> BOOLEAN] /\ router' \in [Server -> Engine \cup {NoEngine}]
  BY <1>1 DEF IInv, TypeOK
<1>3. \A t \in Server : t # s => router'[t] = router[t] /\ (behind'[t] <=> behind[t])
  BY <1>1 DEF IInv, TypeOK
<1>4. behind'[s] \/ router'[s] = NoEngine
  BY <1>1 DEF IInv, TypeOK
<1>5. CASE HasRoom
  <2>1. idle' = Append(idle, s) /\ UNCHANGED proc /\ Len(idle) < maxIdle
    BY <1>5 DEF Shelve, HasRoom
  <2>2. idle' \in Seq(Server) /\ Len(idle') = Len(idle) + 1 /\ SeqInv' /\ Idle' = Idle \cup {s}
    BY <1>1, <2>1, Parked
  <2>3. TypeOK'
    BY <1>1, <1>2, <1>3, <1>4, <2>1, <2>2, PoolAssumption DEF IInv, TypeOK, Off, Ready
  <2>4. HolderInv'
    BY <1>1, <1>2, <1>3, <1>4, <2>1, <2>2, PoolAssumption DEF IInv, TypeOK, HolderInv, TaskInv, Ready
  <2>5. TaskInv'
    BY <1>1, <1>2, <1>3, <1>4, <2>1, <2>2, PoolAssumption DEF IInv, TypeOK, TaskInv, HolderInv, Ready
  <2>6. RouterInv'
    BY <1>1, <1>2, <1>3, <1>4, <2>1, <2>2, PoolAssumption DEF IInv, TypeOK, RouterInv, HolderInv, TaskInv, Up, Off, Ready
  <2>7. LimitInv'
    BY <1>1, <1>2, <1>3, <1>4, <2>1, <2>2, PoolAssumption DEF IInv, TypeOK, LimitInv, TaskInv, Ready
  <2>8. OrphanInv'
    BY <1>1, <1>2, <1>3, <1>4, <2>1, <2>2, PoolAssumption DEF IInv, TypeOK, OrphanInv, TaskInv, Up, Off, Ready
  <2> QED BY <2>2, <2>3, <2>4, <2>5, <2>6, <2>7, <2>8 DEF IInv
<1>6. CASE ~HasRoom
  <2>1. idle' = idle /\ proc' = Off(s)
    BY <1>6 DEF Shelve
  <2>2. Idle' = Idle /\ SeqInv'
    BY <2>1 DEF IInv, Idle, SeqInv
  <2>3. TypeOK'
    BY <1>1, <1>2, <1>3, <1>4, <2>1, <2>2, PoolAssumption DEF IInv, TypeOK, Off, Ready
  <2>4. HolderInv'
    BY <1>1, <1>2, <1>3, <1>4, <2>1, <2>2, PoolAssumption DEF IInv, TypeOK, HolderInv, TaskInv, Ready
  <2>5. TaskInv'
    BY <1>1, <1>2, <1>3, <1>4, <2>1, <2>2, PoolAssumption DEF IInv, TypeOK, TaskInv, HolderInv, Ready
  <2>6. RouterInv'
    BY <1>1, <1>2, <1>3, <1>4, <2>1, <2>2, PoolAssumption DEF IInv, TypeOK, RouterInv, HolderInv, TaskInv, Up, Off, Ready
  <2>7. LimitInv'
    BY <1>1, <1>2, <1>3, <1>4, <2>1, <2>2, PoolAssumption DEF IInv, TypeOK, LimitInv, TaskInv, Ready
  <2>8. OrphanInv'
    BY <1>1, <1>2, <1>3, <1>4, <2>1, <2>2, PoolAssumption DEF IInv, TypeOK, OrphanInv, TaskInv, Up, Off, Ready
  <2> QED BY <2>2, <2>3, <2>4, <2>5, <2>6, <2>7, <2>8 DEF IInv
<1> QED BY <1>5, <1>6

(* An engine lets go of its server: killed, or to be weighed.              *)
LEMMA ReleaseStep ==
    ASSUME IInv, NEW e \in Engine, e \notin dropped, conn[e] # NoServer, Release(e),
           task = Ready \/ (task.op = "check" /\ task.eng = e)
    PROVE  IInv'
<1> DEFINE s == conn[e]
<1>1. idle' = idle /\ Idle' = Idle /\ SeqInv' /\ NoServer \notin Idle /\ Idle \subseteq Server
  <2>1. idle' = idle /\ Idle' = Idle /\ SeqInv'
    BY DEF Release, IInv, Idle, SeqInv
  <2> QED BY <2>1, NoIdle DEF IInv
<1>2. s \in Server /\ s # NoServer /\ s \notin Idle /\ Len(idle) \in Nat /\ task.srv = NoServer
  BY DEF IInv, TypeOK, HolderInv, TaskInv, Ready
<1>3. conn' = [conn EXCEPT ![e] = NoServer] /\ UNCHANGED <<behind, fat, idle, maxIdle, dropped, scope>>
  BY DEF Release, Detached
<1>4. conn[e] = s /\ conn'[e] = NoServer /\ \A f \in Engine : f # e => conn'[f] = conn[f] /\ conn[f] # s
  BY <1>2, <1>3 DEF IInv, TypeOK, HolderInv
<1> HIDE DEF s
<1>5. CASE proc' = Off(s) /\ task' = Ready /\ UNCHANGED router
  <2>1. TypeOK'
    BY <1>1, <1>2, <1>3, <1>4, <1>5, PoolAssumption DEF IInv, TypeOK, Off, Ready
  <2>2. HolderInv'
    BY <1>1, <1>2, <1>3, <1>4, <1>5, PoolAssumption DEF IInv, TypeOK, HolderInv, TaskInv, Ready
  <2>3. TaskInv'
    BY <1>1, <1>2, <1>3, <1>4, <1>5, PoolAssumption DEF IInv, TypeOK, TaskInv, HolderInv, Ready
  <2>4. RouterInv'
    BY <1>1, <1>2, <1>3, <1>4, <1>5, PoolAssumption DEF IInv, TypeOK, RouterInv, HolderInv, TaskInv, Up, Off, Ready
  <2>5. LimitInv'
    BY <1>1, <1>2, <1>3, <1>4, <1>5, PoolAssumption DEF IInv, TypeOK, LimitInv, TaskInv, Ready
  <2>6. OrphanInv'
    BY <1>1, <1>2, <1>3, <1>4, <1>5, PoolAssumption DEF IInv, TypeOK, OrphanInv, TaskInv, Up, Off, Ready
  <2> QED BY <1>1, <2>1, <2>2, <2>3, <2>4, <2>5, <2>6 DEF IInv
<1>6. CASE /\ HasRoom /\ UNCHANGED proc
           /\ router' = [router EXCEPT ![s] = NoEngine]
           /\ task' = [op |-> "weigh", eng |-> NoEngine, srv |-> s]
  <2>1. TypeOK'
    BY <1>1, <1>2, <1>3, <1>4, <1>6, PoolAssumption DEF IInv, TypeOK, Off, HasRoom
  <2>2. HolderInv'
    BY <1>1, <1>2, <1>3, <1>4, <1>6, PoolAssumption DEF IInv, TypeOK, HolderInv, TaskInv, HasRoom
  <2>3. TaskInv'
    BY <1>1, <1>2, <1>3, <1>4, <1>6, PoolAssumption DEF IInv, TypeOK, TaskInv, HolderInv, HasRoom
  <2>4. RouterInv'
    BY <1>1, <1>2, <1>3, <1>4, <1>6, PoolAssumption DEF IInv, TypeOK, RouterInv, HolderInv, TaskInv, Up, Off, HasRoom
  <2>5. LimitInv'
    BY <1>1, <1>2, <1>3, <1>4, <1>6, PoolAssumption DEF IInv, TypeOK, LimitInv, TaskInv, HasRoom
  <2>6. OrphanInv'
    BY <1>1, <1>2, <1>3, <1>4, <1>6, PoolAssumption DEF IInv, TypeOK, OrphanInv, TaskInv, Up, Off, HasRoom
  <2> QED BY <1>1, <2>1, <2>2, <2>3, <2>4, <2>5, <2>6 DEF IInv
<1> QED BY <1>5, <1>6 DEF Release, s

LEMMA WeighStep ==
    ASSUME IInv, Weigh
    PROVE  IInv'
<1> DEFINE s == task.srv
<1>1. /\ s \in Server /\ s # NoServer /\ s \notin Idle /\ NoServer \notin Idle /\ Idle \subseteq Server
      /\ Len(idle) \in Nat /\ (Up(s) => router[s] = NoEngine) /\ \A e \in Engine : conn[e] # s
  BY NoIdle, PoolAssumption DEF Weigh, IInv, TypeOK, HolderInv, TaskInv, RouterInv
<1>2. task.op = "weigh" /\ task' = Ready /\ UNCHANGED <<router, behind, fat, maxIdle, conn, dropped, scope>>
  BY DEF Weigh
<1> HIDE DEF s
<1>3. CASE idle' = Append(idle, s) /\ UNCHANGED proc
  <2>1. idle' \in Seq(Server) /\ Len(idle') = Len(idle) + 1 /\ SeqInv' /\ Idle' = Idle \cup {s}
    BY <1>1, <1>3, Parked
  <2>2. TypeOK'
    BY <1>1, <1>2, <1>3, <2>1, PoolAssumption DEF IInv, TypeOK, Off, Ready, s
  <2>3. HolderInv'
    BY <1>1, <1>2, <1>3, <2>1, PoolAssumption DEF IInv, TypeOK, HolderInv, TaskInv, Ready, s
  <2>4. TaskInv'
    BY <1>1, <1>2, <1>3, <2>1, PoolAssumption DEF IInv, TypeOK, TaskInv, HolderInv, Ready, s
  <2>5. RouterInv'
    BY <1>1, <1>2, <1>3, <2>1, PoolAssumption DEF IInv, TypeOK, RouterInv, HolderInv, TaskInv, Up, Off, Ready, s
  <2>6. LimitInv'
    BY <1>1, <1>2, <1>3, <2>1, PoolAssumption DEF IInv, TypeOK, LimitInv, TaskInv, Ready, s
  <2>7. OrphanInv'
    BY <1>1, <1>2, <1>3, <2>1, PoolAssumption DEF IInv, TypeOK, OrphanInv, TaskInv, Up, Off, Ready, s
  <2> QED BY <2>1, <2>2, <2>3, <2>4, <2>5, <2>6, <2>7 DEF IInv
<1>4. CASE proc' = Off(s) /\ UNCHANGED idle
  <2>1. Idle' = Idle /\ SeqInv'
    BY <1>4 DEF IInv, Idle, SeqInv
  <2>2. TypeOK'
    BY <1>1, <1>2, <1>4, <2>1, PoolAssumption DEF IInv, TypeOK, Off, Ready, s
  <2>3. HolderInv'
    BY <1>1, <1>2, <1>4, <2>1, PoolAssumption DEF IInv, TypeOK, HolderInv, TaskInv, Ready, s
  <2>4. TaskInv'
    BY <1>1, <1>2, <1>4, <2>1, PoolAssumption DEF IInv, TypeOK, TaskInv, HolderInv, Ready, s
  <2>5. RouterInv'
    BY <1>1, <1>2, <1>4, <2>1, PoolAssumption DEF IInv, TypeOK, RouterInv, HolderInv, TaskInv, Up, Off, Ready, s
  <2>6. LimitInv'
    BY <1>1, <1>2, <1>4, <2>1, PoolAssumption DEF IInv, TypeOK, LimitInv, TaskInv, Ready, s
  <2>7. OrphanInv'
    BY <1>1, <1>2, <1>4, <2>1, PoolAssumption DEF IInv, TypeOK, OrphanInv, TaskInv, Up, Off, Ready, s
  <2> QED BY <2>1, <2>2, <2>3, <2>4, <2>5, <2>6, <2>7 DEF IInv
<1> QED BY <1>3, <1>4 DEF Weigh, s

(* The collector closes an engine in the middle of another operation.      *)
LEMMA FinalizeStep ==
    ASSUME IInv, NEW e \in Engine, Finalize(e)
    PROVE  IInv'
<1> DEFINE s == conn[e]
<1>1. e \in dropped /\ dropped' = dropped \ {e} /\ UNCHANGED <<behind, fat, maxIdle, task, scope>>
  BY DEF Finalize
<1>2. /\ s \in Server /\ s # NoServer /\ s \notin Idle /\ s # task.srv /\ Len(idle) \in Nat
      /\ NoServer \notin Idle /\ Idle \subseteq Server /\ ~(task.op = "check" /\ task.eng = e)
      /\ ~(task.op \in {"collect", "probe", "construct"} /\ task.eng = e)
  BY <1>1, NoIdle DEF IInv, TypeOK, HolderInv, TaskInv
<1>3. conn' = [conn EXCEPT ![e] = NoServer]
  BY DEF Finalize, Detached
<1>4. conn'[e] = NoServer /\ \A f \in Engine : f # e => conn'[f] = conn[f] /\ conn[f] # s
  BY <1>2, <1>3 DEF IInv, TypeOK, HolderInv
<1> HIDE DEF s
<1>5. CASE proc' = Off(s) /\ UNCHANGED <<router, idle>>
  <2>1. Idle' = Idle /\ SeqInv'
    BY <1>5 DEF IInv, Idle, SeqInv
  <2>2. TypeOK'
    BY <1>1, <1>2, <1>3, <1>4, <1>5, <2>1, PoolAssumption DEF IInv, TypeOK, Off, s
  <2>3. HolderInv'
    BY <1>1, <1>2, <1>3, <1>4, <1>5, <2>1, PoolAssumption DEF IInv, TypeOK, HolderInv, TaskInv, s
  <2>4. TaskInv'
    BY <1>1, <1>2, <1>3, <1>4, <1>5, <2>1, PoolAssumption DEF IInv, TypeOK, TaskInv, HolderInv, s
  <2>5. RouterInv'
    BY <1>1, <1>2, <1>3, <1>4, <1>5, <2>1, PoolAssumption DEF IInv, TypeOK, RouterInv, HolderInv, TaskInv, Up, Off, s
  <2>6. LimitInv'
    BY <1>1, <1>2, <1>3, <1>4, <1>5, <2>1, PoolAssumption DEF IInv, TypeOK, LimitInv, TaskInv, s
  <2>7. OrphanInv'
    BY <1>1, <1>2, <1>3, <1>4, <1>5, <2>1, PoolAssumption DEF IInv, TypeOK, OrphanInv, TaskInv, Up, Off, s
  <2> QED BY <2>1, <2>2, <2>3, <2>4, <2>5, <2>6, <2>7 DEF IInv
<1>6. CASE /\ HasRoom /\ router' = [router EXCEPT ![s] = NoEngine]
           /\ idle' = Append(idle, s) /\ UNCHANGED proc
  <2>1. idle' \in Seq(Server) /\ Len(idle') = Len(idle) + 1 /\ SeqInv' /\ Idle' = Idle \cup {s}
    BY <1>2, <1>6, Parked
  <2>2. TypeOK'
    BY <1>1, <1>2, <1>3, <1>4, <1>6, <2>1, PoolAssumption DEF IInv, TypeOK, Off, HasRoom, s
  <2>3. HolderInv'
    BY <1>1, <1>2, <1>3, <1>4, <1>6, <2>1, PoolAssumption DEF IInv, TypeOK, HolderInv, TaskInv, HasRoom, s
  <2>4. TaskInv'
    BY <1>1, <1>2, <1>3, <1>4, <1>6, <2>1, PoolAssumption DEF IInv, TypeOK, TaskInv, HolderInv, HasRoom, s
  <2>5. RouterInv'
    BY <1>1, <1>2, <1>3, <1>4, <1>6, <2>1, PoolAssumption DEF IInv, TypeOK, RouterInv, HolderInv, TaskInv, Up, Off, HasRoom, s
  <2>6. LimitInv'
    BY <1>1, <1>2, <1>3, <1>4, <1>6, <2>1, PoolAssumption DEF IInv, TypeOK, LimitInv, TaskInv, HasRoom, s
  <2>7. OrphanInv'
    BY <1>1, <1>2, <1>3, <1>4, <1>6, <2>1, PoolAssumption DEF IInv, TypeOK, OrphanInv, TaskInv, Up, Off, HasRoom, s
  <2> QED BY <2>1, <2>2, <2>3, <2>4, <2>5, <2>6, <2>7 DEF IInv
<1> QED BY <1>5, <1>6 DEF Finalize, s

LEMMA SetReuseStep ==
    ASSUME IInv, NEW n \in Limits, SetReuse(n)
    PROVE  IInv'
<1> DEFINE kept == IF Len(idle) > Clamped(n) THEN Clamped(n) ELSE Len(idle)
           surplus == {idle[i] : i \in 1..Len(idle) \ 1..kept}
<1>1. /\ task = Ready /\ maxIdle' = Clamped(n) /\ idle' = SubSeq(idle, 1, kept)
      /\ proc' = [s \in Server |-> IF s \in surplus THEN "off" ELSE proc[s]]
      /\ UNCHANGED <<router, behind, fat, conn, dropped, task, scope>>
  BY DEF SetReuse
<1>2. Clamped(n) \in Nat /\ kept \in 0..Len(idle) /\ kept <= Clamped(n)
  BY PoolAssumption DEF IInv, TypeOK, Clamped
<1>3. surplus \subseteq Idle
  BY DEF Idle
<1> HIDE DEF kept, surplus
<1>4. idle' \in Seq(Server) /\ Len(idle') = kept /\ SeqInv' /\ Idle' = Idle \ surplus
  BY <1>1, <1>2, CutOff DEF surplus
<1>5. NoServer \notin Idle /\ Idle \subseteq Server
  BY NoIdle DEF IInv
<1>6. TypeOK'
  BY <1>1, <1>2, <1>3, <1>4, <1>5, PoolAssumption DEF IInv, TypeOK, Off, Ready
<1>7. HolderInv'
  BY <1>1, <1>2, <1>3, <1>4, <1>5, PoolAssumption DEF IInv, TypeOK, HolderInv, TaskInv, Ready
<1>8. TaskInv'
  BY <1>1, <1>2, <1>3, <1>4, <1>5, PoolAssumption DEF IInv, TypeOK, TaskInv, HolderInv, Ready
<1>9. RouterInv'
  BY <1>1, <1>2, <1>3, <1>4, <1>5, PoolAssumption DEF IInv, TypeOK, RouterInv, HolderInv, TaskInv, Up, Off, Ready
<1>10. LimitInv'
  BY <1>1, <1>2, <1>3, <1>4, <1>5, PoolAssumption DEF IInv, TypeOK, LimitInv, TaskInv, Ready
<1>11. OrphanInv'
  BY <1>1, <1>2, <1>3, <1>4, <1>5, PoolAssumption DEF IInv, TypeOK, OrphanInv, TaskInv, Up, Off, Ready
<1> QED BY <1>4, <1>6, <1>7, <1>8, <1>9, <1>10, <1>11 DEF IInv

(* A scope is entered and left between two operations.                     *)
LEMMA ScopeStep ==
    ASSUME IInv, EnterScope \/ LeaveScope
    PROVE  IInv'
<1>1. /\ task = Ready /\ scope' \in {"in", "out"}
      /\ UNCHANGED <<proc, router, behind, fat, idle, maxIdle, conn, dropped, task>>
  BY DEF EnterScope, LeaveScope
<1>2. Idle' = Idle /\ SeqInv'
  BY <1>1 DEF IInv, Idle, SeqInv
<1>3. TypeOK'
  BY <1>1 DEF IInv, TypeOK
<1>4. HolderInv' /\ TaskInv' /\ RouterInv' /\ OrphanInv'
  BY <1>1, <1>2 DEF IInv, HolderInv, TaskInv, RouterInv, OrphanInv, Up
<1>5. LimitInv'
  BY <1>1 DEF IInv, LimitInv, Ready
<1> QED BY <1>2, <1>3, <1>4, <1>5 DEF IInv

LEMMA ProbeSteps ==
    ASSUME IInv, Probe \/ ProbeCut
    PROVE  IInv'
BY TakenStep DEF Probe, ProbeCut

LEMMA ShelveSteps ==
    ASSUME IInv, ConstructRefused \/ ConstructCut
    PROVE  IInv'
<1>1. fat' \in [Server -> BOOLEAN] /\ fat \in [Server -> BOOLEAN]
  BY DEF IInv, TypeOK, ConstructRefused, ConstructCut
<1> QED BY <1>1, ShelvedStep DEF ConstructRefused, ConstructCut

LEMMA ReleaseSteps ==
    ASSUME IInv, (\E e \in Engine : Close(e)) \/ ContractRefused
    PROVE  IInv'
<1>1. ASSUME NEW e \in Engine, Close(e)
      PROVE  IInv'
  BY <1>1, ReleaseStep DEF Close
<1>2. CASE ContractRefused
  <2>1. task.eng \in Engine /\ task.eng \notin dropped /\ conn[task.eng] # NoServer
    BY <1>2 DEF ContractRefused, IInv, TaskInv
  <2> QED BY <1>2, <2>1, ReleaseStep DEF ContractRefused
<1> QED BY <1>1, <1>2

LEMMA InitInv ==
    ASSUME Init
    PROVE  IInv
<1>1. Idle = {} /\ Len(idle) = 0
  BY DEF Init, Idle
<1>2. TypeOK
  BY PoolAssumption DEF Init, TypeOK, Ready
<1>3. SeqInv /\ HolderInv /\ TaskInv
  BY <1>1 DEF Init, SeqInv, HolderInv, TaskInv, Ready
<1>4. RouterInv /\ LimitInv /\ OrphanInv
  BY <1>1 DEF Init, RouterInv, LimitInv, OrphanInv, Ready, Up
<1> QED BY <1>2, <1>3, <1>4 DEF IInv

LEMMA NextInv ==
    ASSUME IInv, [Next]_vars
    PROVE  IInv'
<1>1. CASE Advance
  BY <1>1, AdmitStep, ProbeSteps, SpawnStep, SpawnFailsStep, ConstructStep, ConstructCrashesStep,
     ShelveSteps, InitDoneStep, ReleaseSteps, InitRaisesStep, WeighStep DEF Advance
<1>2. CASE UNCHANGED vars
  <2>1. Idle' = Idle
    BY <1>2 DEF vars, Idle
  <2> QED BY <1>2, <2>1 DEF vars, IInv, TypeOK, SeqInv, HolderInv, TaskInv, RouterInv, LimitInv, OrphanInv, Up
<1> QED BY <1>1, <1>2, OpenStep, ReleaseSteps, DropStep, FinalizeStep, UseCutStep, GrowStep,
           SetReuseStep, CrashStep, ScopeStep DEF Next

LEMMA InvImplies ==
    ASSUME IInv
    PROVE  ReusedIsClean /\ OwnRouter /\ IdleWithinLimit /\ NoOrphan
<1>1. ReusedIsClean /\ OwnRouter
  BY DEF IInv, RouterInv, HolderInv, ReusedIsClean, OwnRouter
<1>2. IdleWithinLimit
  BY DEF IInv, TypeOK, LimitInv, IdleWithinLimit
<1>3. NoOrphan
  BY DEF IInv, OrphanInv, NoOrphan, Referenced
<1> QED BY <1>1, <1>2, <1>3

-----------------------------------------------------------------------------
(* An engine only ever talks to the server that holds its own router, and  *)
(* no server is parked while an engine uses it (acquire_router, release).  *)
THEOREM OwnRouterTheorem == Spec => []OwnRouter
<1>1. Init => IInv
  BY InitInv
<1>2. IInv /\ [Next]_vars => IInv'
  BY NextInv
<1>3. IInv => OwnRouter
  BY InvImplies
<1> QED BY <1>1, <1>2, <1>3, PTL DEF Spec

(* A board is only loaded by a server without a router that owes no answer *)
(* (alive, acquire_router).                                                *)
THEOREM CleanTheorem == Spec => []ReusedIsClean
<1>1. Init => IInv
  BY InitInv
<1>2. IInv /\ [Next]_vars => IInv'
  BY NextInv
<1>3. IInv => ReusedIsClean
  BY InvImplies
<1> QED BY <1>1, <1>2, <1>3, PTL DEF Spec

(* Every running server is parked, in use or being set up (acquire_router, *)
(* release, set_server_reuse).                                             *)
THEOREM OrphanTheorem == Spec => []NoOrphan
<1>1. Init => IInv
  BY InitInv
<1>2. IInv /\ [Next]_vars => IInv'
  BY NextInv
<1>3. IInv => NoOrphan
  BY InvImplies
<1> QED BY <1>1, <1>2, <1>3, PTL DEF Spec

(* Only a construction gives an engine a router.                           *)
LEMMA GetsRouter ==
    ASSUME IInv, [Next]_vars, NEW e \in Engine, conn'[e] # conn[e], conn'[e] # NoServer
    PROVE  Construct /\ e = task.eng
<1>1. conn \in [Engine -> Server \cup {NoServer}] /\ conn' # conn
  BY DEF IInv, TypeOK
<1>2. ASSUME NEW f \in Engine, conn' = Detached(f)
      PROVE  FALSE
  BY <1>1, <1>2 DEF Detached
<1>3. ~\E f \in Engine : Close(f) \/ Finalize(f)
  BY <1>2 DEF Close, Finalize, Release
<1>4. ~ContractRefused
  BY <1>2 DEF ContractRefused, Release, IInv, TaskInv
<1>5. Construct
  BY <1>1, <1>3, <1>4 DEF Next, Advance, vars, Open, Drop, UseCut, Grow, SetReuse, Crash, EnterScope, LeaveScope,
     Admit, Probe, ProbeCut, Spawn, SpawnFails, ConstructCrashes, ConstructRefused, ConstructCut,
     InitDone, InitRaises, Weigh
<1> QED BY <1>1, <1>5 DEF Construct

(* Outside a coexistence scope no engine gets a router while another one   *)
(* has one (_assert_no_live_router).                                       *)
THEOREM LiveRouterTheorem == Spec => OneLiveRouter
<1> DEFINE A == scope # "in" => \A e \in Engine : conn'[e] # conn[e] /\ conn'[e] # NoServer =>
                                  \A f \in Engine \ {e} : conn'[f] = NoServer
<1>1. Init => IInv
  BY InitInv
<1>2. IInv /\ [Next]_vars => IInv'
  BY NextInv
<1>3. IInv /\ [Next]_vars => [A]_vars
  <2>1. SUFFICES ASSUME IInv, [Next]_vars, scope # "in", NEW e \in Engine,
                        conn'[e] # conn[e], conn'[e] # NoServer, NEW f \in Engine \ {e}
                 PROVE  conn'[f] = NoServer
    OBVIOUS
  <2>2. Construct /\ e = task.eng
    BY <2>1, GetsRouter
  <2>3. conn[f] = NoServer
    BY <2>1, <2>2 DEF Construct, IInv, LimitInv
  <2> QED BY <2>2, <2>3 DEF Construct, IInv, TypeOK
<1>4. [][A]_vars => OneLiveRouter
  BY DEF OneLiveRouter
<1> HIDE DEF A
<1> QED BY <1>1, <1>2, <1>3, <1>4, PTL DEF Spec

(* No more servers are parked than set_server_reuse() allows, and one more *)
(* at most once the program has been in a scope (release).                 *)
THEOREM LimitTheorem == Spec => []IdleWithinLimit
<1>1. Init => IInv
  BY InitInv
<1>2. IInv /\ [Next]_vars => IInv'
  BY NextInv
<1>3. IInv => IdleWithinLimit
  BY InvImplies
<1> QED BY <1>1, <1>2, <1>3, PTL DEF Spec
=============================================================================
