----------------------------- MODULE ServerPool -----------------------------
(***************************************************************************)
(* The engine servers of one client process: pcb_world/engine/             *)
(* router_client.py (acquire_router, RouterProxy.release, _ServerConn) and *)
(* the life of a KiCadEngine around it (kicad_engine.py: the one-live-     *)
(* router guard, __init__, close, __del__).                                *)
(*                                                                         *)
(* The client is one thread, so its operations do not overlap; what        *)
(* overlaps with them is a server that dies at any moment, an interrupt    *)
(* that cuts a request between its send and its receive, and the garbage   *)
(* collector, which may finalize an engine dropped without close() between *)
(* two steps of another operation.                                         *)
(***************************************************************************)
EXTENDS Integers, Sequences

CONSTANTS
    Server, NoServer,  \* identities of server processes, reused after death
    Engine, NoEngine,  \* KiCadEngine objects of the client process
    Limits,            \* the arguments set_server_reuse() is called with
    Budget,            \* KICAD_ENGINE_MAX_RSS_MB > 0
    Interrupts         \* a KeyboardInterrupt may cut a request

ASSUME PoolAssumption ==
    /\ NoServer \notin Server /\ NoEngine \notin Engine
    /\ Limits \subseteq Int
    /\ {Budget, Interrupts} \subseteq BOOLEAN

VARIABLES
    proc,     \* proc[s]: "up" or "off"; the socket is closed with the process
    router,   \* router[s]: the engine whose router lives in the server
    behind,   \* behind[s]: the answer of a cut request waits unread
    fat,      \* fat[s]: the resident set exceeds the budget
    idle,     \* _IDLE_SERVERS, popped from its end
    maxIdle,  \* _MAX_IDLE
    conn,     \* conn[e]: the server of engine e (its _r), NoServer without one
    dropped,  \* engines the program no longer references, not yet finalized
    scope,    \* allow_router_coexistence(): "in" it (_COEXISTENCE_DEPTH > 0), "out"
              \* of it again, or "never" entered so far
    task      \* what the client thread is doing: op, and its engine and server

vars == <<proc, router, behind, fat, idle, maxIdle, conn, dropped, scope, task>>

Ready == [op |-> "ready", eng |-> NoEngine, srv |-> NoServer]

Up(s) == proc[s] = "up"

Off(s) == [proc EXCEPT ![s] = "off"]

Idle == {idle[i] : i \in 1..Len(idle)}

Referenced == Idle \cup {conn[e] : e \in Engine} \cup {task.srv}

HasRoom_OffByOne == Len(idle) <= maxIdle

HasRoom == Len(idle) < maxIdle

-----------------------------------------------------------------------------
Init ==
    /\ proc = [s \in Server |-> "off"] /\ router = [s \in Server |-> NoEngine]
    /\ behind = [s \in Server |-> FALSE] /\ fat = [s \in Server |-> FALSE]
    /\ idle = <<>> /\ maxIdle = 2
    /\ conn = [e \in Engine |-> NoServer] /\ dropped = {}
    /\ scope = "never" /\ task = Ready

(* KiCadEngine(): outside a coexistence scope the guard comes first.       *)
Open(e) ==
    /\ task = Ready /\ conn[e] = NoServer
    /\ task' = [op |-> IF scope = "in" THEN "probe" ELSE "collect", eng |-> e, srv |-> NoServer]
    /\ UNCHANGED <<proc, router, behind, fat, idle, maxIdle, conn, dropped, scope>>

Reclaimed_Skipped == TRUE

\* gc.collect() has run: it finalized every engine that was dropped.
Reclaimed == dropped = {}

(* _assert_no_live_router(): an engine still referenced and holding a      *)
(* router makes the construction raise.                                    *)
Admit ==
    /\ task.op = "collect" /\ Reclaimed
    /\ task' = IF \A e \in Engine \ dropped : conn[e] = NoServer
               THEN [task EXCEPT !.op = "probe"] ELSE Ready
    /\ UNCHANGED <<proc, router, behind, fat, idle, maxIdle, conn, dropped, scope>>

Answers_Anything(s) == Up(s)

\* alive(): the process runs and the answer that is read is the pong.
Answers(s) == Up(s) /\ ~behind[s]

Unparked == SubSeq(idle, 1, Len(idle) - 1)

(* acquire_router(): the last parked server that answers is reused, one    *)
(* that does not is killed and the next one is tried.                      *)
Probe ==
    /\ task.op = "probe" /\ idle # <<>>
    /\ LET s == idle[Len(idle)] IN
         /\ idle' = Unparked
         /\ IF Answers(s)
            THEN task' = [task EXCEPT !.op = "construct", !.srv = s] /\ UNCHANGED proc
            ELSE proc' = Off(s) /\ UNCHANGED task
    /\ UNCHANGED <<router, behind, fat, maxIdle, conn, dropped, scope>>

\* alive() lets an interrupt through; the unreferenced socket is closed.
ProbeCut ==
    /\ Interrupts /\ task.op = "probe" /\ idle # <<>>
    /\ idle' = Unparked /\ proc' = Off(idle[Len(idle)])
    /\ task' = Ready
    /\ UNCHANGED <<router, behind, fat, maxIdle, conn, dropped, scope>>

\* _ServerConn(): a new process, connected and through its handshake.
Spawn ==
    /\ task.op = "probe" /\ idle = <<>>
    /\ \E s \in Server \ Referenced :
         /\ ~Up(s)
         /\ proc' = [proc EXCEPT ![s] = "up"]
         /\ router' = [router EXCEPT ![s] = NoEngine]
         /\ behind' = [behind EXCEPT ![s] = FALSE]
         /\ fat' = [fat EXCEPT ![s] = FALSE]
         /\ task' = [task EXCEPT !.op = "construct", !.srv = s]
    /\ UNCHANGED <<idle, maxIdle, conn, dropped, scope>>

\* No script, stale build, death or silence within the startup deadline.
SpawnFails ==
    /\ task.op = "probe" /\ idle = <<>>
    /\ task' = Ready
    /\ UNCHANGED <<proc, router, behind, fat, idle, maxIdle, conn, dropped, scope>>

(* The construct request, answered: the engine object owns the connection  *)
(* and is registered before anything else of __init__ may fail.            *)
Construct ==
    /\ task.op = "construct" /\ Up(task.srv)
    /\ router' = [router EXCEPT ![task.srv] = task.eng]
    /\ conn' = [conn EXCEPT ![task.eng] = task.srv]
    /\ task' = [task EXCEPT !.op = "check", !.srv = NoServer]
    /\ UNCHANGED <<proc, behind, fat, idle, maxIdle, dropped, scope>>

\* EngineServerCrashed: the connection is already killed.
ConstructCrashes ==
    /\ task.op = "construct" /\ ~Up(task.srv)
    /\ task' = Ready
    /\ UNCHANGED <<proc, router, behind, fat, idle, maxIdle, conn, dropped, scope>>

Shelve_NoKill(s) ==
    /\ idle' = IF HasRoom THEN Append(idle, s) ELSE idle
    /\ UNCHANGED proc

\* The server survived a construction that did not: park it if there is room.
Shelve(s) ==
    IF HasRoom THEN idle' = Append(idle, s) /\ UNCHANGED proc
    ELSE proc' = Off(s) /\ UNCHANGED idle

\* The server answers with an error (a bad board path); loading may grow it.
ConstructRefused ==
    /\ task.op = "construct" /\ Up(task.srv)
    /\ Shelve(task.srv)
    /\ fat' \in {fat, [fat EXCEPT ![task.srv] = TRUE]}
    /\ task' = Ready
    /\ UNCHANGED <<router, behind, maxIdle, conn, dropped, scope>>

\* Cut before the answer is read: the server builds the router all the same.
ConstructCut ==
    /\ Interrupts /\ task.op = "construct" /\ Up(task.srv)
    /\ Shelve(task.srv)
    /\ router' = [router EXCEPT ![task.srv] = task.eng]
    /\ behind' = [behind EXCEPT ![task.srv] = TRUE]
    /\ task' = Ready
    /\ UNCHANGED <<fat, maxIdle, conn, dropped, scope>>

-----------------------------------------------------------------------------
Detached_Kept(e) == conn

\* release() clears the proxy's connection before anything can fail.
Detached(e) == [conn EXCEPT ![e] = NoServer]

(* close() and RouterProxy.release() up to the room check: close_router is *)
(* refused by a dead server, an answer that is not its own may be an error *)
(* and an interrupt drops the connection: all end the server.              *)
Release(e) ==
    LET s == conn[e] IN
    /\ conn' = Detached(e)
    /\ \/ /\ ~Up(s) \/ behind[s] \/ ~HasRoom \/ Interrupts
          /\ proc' = Off(s) /\ task' = Ready
          /\ UNCHANGED router
       \/ /\ Up(s) /\ HasRoom
          /\ router' = [router EXCEPT ![s] = NoEngine]
          /\ task' = [op |-> "weigh", eng |-> NoEngine, srv |-> s]
          /\ UNCHANGED proc
    /\ UNCHANGED <<behind, fat, idle, maxIdle, dropped, scope>>

Close(e) ==
    /\ task = Ready /\ e \notin dropped /\ conn[e] # NoServer
    /\ Release(e)

\* The end of release(): the budget decides between parking and recycling.
Weigh ==
    /\ task.op = "weigh"
    /\ IF Budget /\ fat[task.srv] /\ Up(task.srv)
       THEN proc' = Off(task.srv) /\ UNCHANGED idle
       ELSE idle' = Append(idle, task.srv) /\ UNCHANGED proc
    /\ task' = Ready
    /\ UNCHANGED <<router, behind, fat, maxIdle, conn, dropped, scope>>

\* The post-load contract checks pass and the engine is returned.
InitDone ==
    /\ task.op = "check" /\ Up(conn[task.eng])
    /\ task' = Ready
    /\ UNCHANGED <<proc, router, behind, fat, idle, maxIdle, conn, dropped, scope>>

\* A refused board is closed before __init__ raises.
ContractRefused ==
    /\ task.op = "check"
    /\ Release(task.eng)

(* Any other failure of __init__ (a crash, an outline rewrite, an          *)
(* interrupt) leaves the half-built engine to the collector.               *)
InitRaises ==
    /\ task.op = "check"
    /\ dropped' = dropped \cup {task.eng}
    /\ task' = Ready
    /\ \/ UNCHANGED behind
       \/ Interrupts /\ behind' = [behind EXCEPT ![conn[task.eng]] = TRUE]
    /\ UNCHANGED <<proc, router, fat, idle, maxIdle, conn, scope>>

-----------------------------------------------------------------------------
\* The last reference to an engine goes away without close().
Drop(e) ==
    /\ task = Ready /\ e \notin dropped /\ conn[e] # NoServer
    /\ dropped' = dropped \cup {e}
    /\ UNCHANGED <<proc, router, behind, fat, idle, maxIdle, conn, task, scope>>

(* __del__: the collector runs between any two steps of the client and     *)
(* closes the engine as a whole.                                           *)
Finalize(e) ==
    LET s == conn[e]
        parks == Up(s) /\ HasRoom /\ ~(Budget /\ fat[s])
    IN
    /\ e \in dropped
    /\ dropped' = dropped \ {e} /\ conn' = Detached(e)
    /\ \/ /\ ~parks \/ behind[s]
          /\ proc' = Off(s)
          /\ UNCHANGED <<router, idle>>
       \/ /\ parks
          /\ router' = [router EXCEPT ![s] = NoEngine]
          /\ idle' = Append(idle, s)
          /\ UNCHANGED proc
    /\ UNCHANGED <<behind, fat, maxIdle, task, scope>>

Clamped(n) == IF n < 0 THEN 0 ELSE n

\* set_server_reuse(): the surplus is killed at once, from the end.
SetReuse(n) ==
    LET kept == IF Len(idle) > Clamped(n) THEN Clamped(n) ELSE Len(idle) IN
    /\ task = Ready
    /\ maxIdle' = Clamped(n)
    /\ idle' = SubSeq(idle, 1, kept)
    /\ proc' = [s \in Server |-> IF s \in {idle[i] : i \in 1..Len(idle) \ 1..kept}
                                 THEN "off" ELSE proc[s]]
    /\ UNCHANGED <<router, behind, fat, conn, dropped, task, scope>>

\* A call of the engine is interrupted: its answer stays in the socket.
UseCut(e) ==
    /\ Interrupts /\ task = Ready /\ e \notin dropped /\ conn[e] # NoServer
    /\ behind' = [behind EXCEPT ![conn[e]] = TRUE]
    /\ UNCHANGED <<proc, router, fat, idle, maxIdle, conn, dropped, task, scope>>

(* allow_router_coexistence(): entered and left between two operations;    *)
(* the engines made inside outlive it.                                     *)
EnterScope ==
    /\ task = Ready /\ scope' = "in"
    /\ UNCHANGED <<proc, router, behind, fat, idle, maxIdle, conn, dropped, task>>

LeaveScope ==
    /\ task = Ready /\ scope = "in" /\ scope' = "out"
    /\ UNCHANGED <<proc, router, behind, fat, idle, maxIdle, conn, dropped, task>>

\* Routing grows the server.
Grow(e) ==
    /\ task = Ready /\ e \notin dropped /\ conn[e] # NoServer /\ Up(conn[e])
    /\ fat' = [fat EXCEPT ![conn[e]] = TRUE]
    /\ UNCHANGED <<proc, router, behind, idle, maxIdle, conn, dropped, task, scope>>

\* A fatal signal in the C++ engine, or a parked process killed from outside.
Crash(s) ==
    /\ Up(s)
    /\ proc' = Off(s)
    /\ UNCHANGED <<router, behind, fat, idle, maxIdle, conn, dropped, task, scope>>

-----------------------------------------------------------------------------
\* The steps of an operation under way: the client thread always takes them.
Advance ==
    \/ Admit \/ Probe \/ ProbeCut \/ Spawn \/ SpawnFails
    \/ Construct \/ ConstructCrashes \/ ConstructRefused \/ ConstructCut
    \/ InitDone \/ ContractRefused \/ InitRaises \/ Weigh

Next ==
    \/ \E e \in Engine : \/ Open(e) \/ Close(e) \/ Drop(e) \/ Finalize(e)
                         \/ UseCut(e) \/ Grow(e)
    \/ \E n \in Limits : SetReuse(n)
    \/ \E s \in Server : Crash(s)
    \/ EnterScope \/ LeaveScope \/ Advance

Spec == Init /\ [][Next]_vars

-----------------------------------------------------------------------------
(* Properties.                                                             *)

(* Every variable of the pool keeps its type.                              *)
TypeOK ==
    /\ proc \in [Server -> {"up", "off"}]
    /\ router \in [Server -> Engine \cup {NoEngine}]
    /\ behind \in [Server -> BOOLEAN] /\ fat \in [Server -> BOOLEAN]
    /\ idle \in Seq(Server) /\ maxIdle \in Nat
    /\ conn \in [Engine -> Server \cup {NoServer}]
    /\ dropped \subseteq Engine /\ scope \in {"never", "in", "out"}
    /\ task \in [op : {"ready", "collect", "probe", "construct", "check", "weigh"},
                 eng : Engine \cup {NoEngine}, srv : Server \cup {NoServer}]

(* A board is only ever loaded by a server that has no router and owes no  *)
(* answer: a server parked after a cut construction, or behind on its      *)
(* answers, never reaches the next engine (the ping of alive() sees it).   *)
ReusedIsClean ==
    task.op = "construct" /\ Up(task.srv) =>
        router[task.srv] = NoEngine /\ ~behind[task.srv]

(* An engine talks to the server that holds its own router and to no       *)
(* other: no server is parked while an engine uses it or handed out twice, *)
(* whatever close(), __del__ and a failed construction leave behind.       *)
OwnRouter ==
    \A e \in Engine : conn[e] # NoServer =>
        /\ Up(conn[e]) => router[conn[e]] = e
        /\ conn[e] \notin Idle

(* set_server_reuse(): no more servers are parked than the limit, between  *)
(* any two steps of a client that has not been in a coexistence scope.     *)
(* With several engines alive a finalizer may park its server between the  *)
(* room check and the append of a release(): one too many, and never two.  *)
IdleWithinLimit == Len(idle) <= maxIdle + (IF scope = "never" THEN 0 ELSE 1)

(* The one-live-router contract of kicad_engine.py: outside a coexistence  *)
(* scope no engine gets a router while another has one, be it left over    *)
(* from a scope, dropped without close() or half-built.                    *)
OneLiveRouter ==
    [][scope # "in" => \A e \in Engine : conn'[e] # conn[e] /\ conn'[e] # NoServer =>
                          \A f \in Engine \ {e} : conn'[f] = NoServer]_vars

(* No server process outlives its last use: each one running is parked, in *)
(* use or being set up, so every one is found by the pool or by a close.   *)
NoOrphan == \A s \in Server : Up(s) => s \in Referenced
=============================================================================
