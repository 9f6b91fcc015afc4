-------------------------- MODULE SubprocVecProofs --------------------------
(***************************************************************************)
(* The pool of environment processes, for any number of environments and   *)
(* boards, wherever the workers die.                                       *)
(*                                                                         *)
(* A call owes the answers of the workers it has sent to and not heard of. *)
(* A pipe holds at most one message, and only of such a worker; what it    *)
(* holds is a command of the call or the answer to it, and says the state  *)
(* the worker is in.  A worker that was respawned inside of a step owes    *)
(* nothing, and its first observation is kept for the client.              *)
(***************************************************************************)
EXTENDS SubprocVec, FiniteSetTheorems, TLAPS

Fields  == {"kind", "phase", "who", "todo", "dead"}
Phases  == {"send", "recv", "recover", "raised"}
Closing == op.kind = "close"

(* The shapes of the state; what is in the fields is said below.           *)
IsWorker(w) == DOMAIN w = {"up", "board", "seq", "env", "at"}
IsSlot(s)   == DOMAIN s = {"board", "seq", "obs", "crashed"}

TypeOK ==
    /\ DOMAIN worker = Env /\ DOMAIN slot = Env /\ DOMAIN inbox = Env /\ DOMAIN outbox = Env
    /\ DOMAIN view = Env /\ asked \in [Env -> Boards]
    /\ \A i \in Env : IsWorker(worker[i]) /\ IsSlot(slot[i])
    /\ DOMAIN op = Fields /\ op.who \subseteq Env
    /\ ~Closing => op.todo \subseteq op.who /\ op.dead \subseteq op.who
    /\ op.phase \in Phases => op.kind # "none"
    /\ op.kind = "step" => op.dead = {}
    /\ Closing => op.phase \notin {"idle", "raised", "recover"}
    /\ op.phase \notin Phases /\ ~Closing => op.phase = "idle" /\ op.kind = "none" /\ op.dead = {}

(* The workers the call has sent to and not heard of.                      *)
Owed ==
    CASE op.phase = "send"   -> op.who \ op.todo
      [] op.phase = "recv"   -> op.todo
      [] op.phase = "raised" -> op.who
      [] OTHER               -> {}

Empty(i)   == inbox[i] = <<>> /\ outbox[i] = <<>>
Waiting(i) == outbox[i] = <<>> /\ \E m : inbox[i] = <<m>> /\ m.cmd = op.kind
Replied(i) == inbox[i] = <<>> /\ \E a : outbox[i] = <<a>> /\ a.kind \in {"obs", "error"}

PipesOf(i) ==
    /\ Empty(i) \/ (i \in Owed /\ (Waiting(i) \/ Replied(i)))
    /\ ~worker[i].up => inbox[i] = <<>>
    /\ slot[i].crashed => op.kind = "step" /\ i \in Owed /\ Empty(i)
    /\ op.kind = "reload" /\ op.phase \in {"send", "recv"} /\ i \in op.dead => ~worker[i].up /\ Empty(i)
    /\ op.kind = "query" /\ op.phase = "raised" /\ op.who = {i} => Empty(i)

OnBoard(i) == worker[i].up /\ worker[i].board # NoBoard => worker[i].board = asked[i]

BoardOf(i) ==
    /\ ~(op.kind = "reload" /\ op.phase = "send" /\ i \in op.todo) => Home(i) = asked[i]
    /\ \/ OnBoard(i)
       \/ op.kind = "reload" /\ i \in Owed
       \/ op.kind = "reload" /\ op.phase = "send" /\ i \in op.who
    /\ op.kind = "reload" /\ inbox[i] # <<>> => Head(inbox[i]).board = asked[i]
    /\ op.kind = "reload" /\ outbox[i] # <<>> /\ Head(outbox[i]).kind # "error" => OnBoard(i)

Sees(o, i) == worker[i].up => o.env = worker[i].env /\ o.at = worker[i].at

ViewOf(i) ==
    /\ op.kind = "reload" /\ i \in op.who => view[i] = NoView
    /\ \/ view[i] = NoView \/ Sees(view[i], i)
       \/ op.kind \in {"step", "reset"} /\ i \in Owed \cup op.dead
    /\ slot[i].crashed => Sees(slot[i].obs, i)
    /\ outbox[i] # <<>> /\ Head(outbox[i]).kind # "error" => Sees(Head(outbox[i]).obs, i)

InvOf(i) == PipesOf(i) /\ BoardOf(i) /\ ViewOf(i)

IInv == TypeOK /\ (~Closing => \A i \in Env : InvOf(i))

Same(i) == /\ worker'[i] = worker[i] /\ slot'[i] = slot[i] /\ view'[i] = view[i] /\ asked'[i] = asked[i]
           /\ inbox'[i] = inbox[i] /\ outbox'[i] = outbox[i]

-----------------------------------------------------------------------------
(* The call in progress.                                                   *)
LEMMA IdleIs ==
    /\ DOMAIN Idle = Fields /\ Idle.kind = "none" /\ Idle.phase = "idle"
    /\ Idle.who = {} /\ Idle.todo = {} /\ Idle.dead = {}
BY DEF Idle, Fields

LEMMA SentIs ==
    ASSUME TypeOK, ~Closing, op.phase = "send", NEW i \in op.todo, NEW dead \in SUBSET op.who,
           op' = [Sent(i) EXCEPT !.dead = dead]
    PROVE  /\ DOMAIN op' = Fields /\ op'.kind = op.kind /\ op'.who = op.who /\ op'.dead = dead
           /\ \/ op'.phase = "send" /\ op'.todo = op.todo \ {i}
              \/ op'.phase = "recv" /\ op'.todo = op.who /\ op.todo = {i}
           /\ op'.todo \subseteq op'.who /\ Owed' = Owed \cup {i} /\ op.kind # "none" /\ i \notin Owed
<1>1. CASE op.todo = {i}
  <2>1. Sent(i) = [op EXCEPT !.phase = "recv", !.todo = op.who]
    BY <1>1 DEF Sent
  <2>2. /\ DOMAIN op' = Fields /\ op'.kind = op.kind /\ op'.who = op.who /\ op'.dead = dead
        /\ op'.phase = "recv" /\ op'.todo = op.who
    BY <2>1 DEF TypeOK, Fields
  <2> QED BY <1>1, <2>2 DEF Owed, TypeOK, Phases
<1>2. CASE op.todo # {i}
  <2>1. Sent(i) = [op EXCEPT !.todo = op.todo \ {i}]
    BY <1>2 DEF Sent
  <2>2. /\ DOMAIN op' = Fields /\ op'.kind = op.kind /\ op'.who = op.who /\ op'.dead = dead
        /\ op'.phase = "send" /\ op'.todo = op.todo \ {i}
    BY <2>1 DEF TypeOK, Fields
  <2> QED BY <1>2, <2>2 DEF Owed, TypeOK, Phases
<1> QED BY <1>1, <1>2

(* The answer of a worker has been read: the call goes on, or returns.     *)
Heard(i) ==
    \/ op.todo = {i} /\ op.dead = {} /\ op' = Idle
    \/ /\ op.todo # {i} /\ DOMAIN op' = Fields /\ op'.kind = op.kind /\ op'.who = op.who
       /\ op'.phase = "recv" /\ op'.todo = op.todo \ {i} /\ op'.dead \in {op.dead, op.dead \cup {i}}
    \/ /\ op.kind = "reload" /\ op.todo = {i} /\ DOMAIN op' = Fields /\ op'.kind = "reload"
       /\ op'.who = op.who /\ op'.phase = "recover" /\ op'.todo = op'.dead
       /\ op'.dead \in {op.dead, op.dead \cup {i}}

LEMMA ReceivedIs ==
    ASSUME TypeOK, NEW i, op' = Received(i), op.phase = "recv", op.todo = {i} => op.dead = {}
    PROVE  Heard(i)
<1>1. CASE op.todo = {i}
  BY <1>1 DEF Received, Heard
<1>2. CASE op.todo # {i}
  <2>1. op' = [op EXCEPT !.todo = op.todo \ {i}]
    BY <1>2 DEF Received
  <2> QED BY <1>2, <2>1 DEF TypeOK, Fields, Heard
<1> QED BY <1>1, <1>2

LEMMA RaisedIs ==
    ASSUME TypeOK, ~Closing, op.phase \in Phases, op' = [op EXCEPT !.phase = "raised"]
    PROVE  /\ DOMAIN op' = Fields /\ op'.kind = op.kind /\ op'.who = op.who /\ op'.dead = op.dead
           /\ op'.phase = "raised" /\ op'.todo = op.todo /\ Owed' = op.who /\ Owed \subseteq op.who
BY DEF TypeOK, Fields, Owed, Phases

-----------------------------------------------------------------------------
(* What a step leaves alone keeps the invariant.                           *)
LEMMA RestSent ==
    ASSUME TypeOK, ~Closing, op.phase = "send", NEW i \in op.todo, NEW dead \in SUBSET op.who,
           op' = [Sent(i) EXCEPT !.dead = dead], dead \subseteq op.dead \cup {i}, op.dead \subseteq dead,
           NEW j \in Env, j # i, InvOf(j), Same(j)
    PROVE  InvOf(j)'
<1>1. /\ op'.kind = op.kind /\ op'.who = op.who /\ op'.dead = dead
      /\ \/ op'.phase = "send" /\ op'.todo = op.todo \ {i}
         \/ op'.phase = "recv" /\ op'.todo = op.who /\ op.todo = {i}
      /\ Owed' = Owed \cup {i} /\ op.todo \subseteq op.who
  BY SentIs DEF TypeOK
<1>2. op.phase = "send" => Owed = op.who \ op.todo
  BY DEF Owed
<1>3. PipesOf(j)'
  BY <1>1 DEF InvOf, PipesOf, Same, Empty, Waiting, Replied
<1>4. BoardOf(j)'
  BY <1>1, <1>2 DEF InvOf, BoardOf, Same, OnBoard, Home
<1>5. ViewOf(j)'
  BY <1>1 DEF InvOf, ViewOf, Same, Sees
<1> QED BY <1>3, <1>4, <1>5 DEF InvOf

LEMMA RestHeard ==
    ASSUME TypeOK, ~Closing, op.phase = "recv", NEW i \in op.todo, Heard(i),
           NEW j \in Env, j # i, InvOf(j), Same(j)
    PROVE  InvOf(j)'
<1>1. Owed = op.todo
  BY DEF Owed
<1>2. CASE op' = Idle /\ op.todo = {i} /\ op.dead = {}
  <2>1. /\ j \notin Owed /\ Empty(j) /\ Owed' = {}
        /\ op'.kind = "none" /\ op'.who = {} /\ op'.dead = {} /\ op'.phase = "idle"
    BY <1>1, <1>2, IdleIs DEF InvOf, PipesOf, Owed
  <2>2. PipesOf(j)'
    BY <1>1, <2>1 DEF InvOf, PipesOf, Same, Empty
  <2>3. BoardOf(j)'
    BY <1>1, <2>1 DEF InvOf, BoardOf, Same, OnBoard, Home
  <2>4. ViewOf(j)'
    BY <1>1, <1>2, <2>1 DEF InvOf, PipesOf, ViewOf, Same, Sees, Empty
  <2> QED BY <2>2, <2>3, <2>4 DEF InvOf
<1>3. CASE /\ op'.kind = op.kind /\ op'.who = op.who /\ op'.dead \in {op.dead, op.dead \cup {i}}
           /\ op'.phase = "recv" /\ op'.todo = op.todo \ {i}
  <2> Owed' = Owed \ {i}
    BY <1>1, <1>3 DEF Owed
  <2>1. PipesOf(j)'
    BY <1>1, <1>3 DEF InvOf, PipesOf, Same, Empty, Waiting, Replied
  <2>2. BoardOf(j)'
    BY <1>1, <1>3 DEF InvOf, BoardOf, Same, OnBoard, Home
  <2>3. ViewOf(j)'
    BY <1>1, <1>3 DEF InvOf, ViewOf, Same, Sees
  <2> QED BY <2>1, <2>2, <2>3 DEF InvOf
<1>4. CASE /\ op.kind = "reload" /\ op.todo = {i} /\ op'.kind = "reload"
           /\ op'.who = op.who /\ op'.phase = "recover"
  <2>1. j \notin Owed /\ Empty(j) /\ Owed' = {}
    BY <1>1, <1>4 DEF InvOf, PipesOf, Owed
  <2>2. PipesOf(j)'
    BY <1>1, <1>4, <2>1 DEF InvOf, PipesOf, Same, Empty
  <2>3. BoardOf(j)'
    BY <1>1, <1>4, <2>1 DEF InvOf, BoardOf, Same, OnBoard, Home
  <2>4. ViewOf(j)'
    BY <1>1, <1>4, <2>1 DEF InvOf, PipesOf, ViewOf, Same, Sees, Empty
  <2> QED BY <2>2, <2>3, <2>4 DEF InvOf
<1> QED BY <1>2, <1>3, <1>4 DEF Heard

LEMMA RestRaised ==
    ASSUME TypeOK, ~Closing, op.phase \in Phases, op' = [op EXCEPT !.phase = "raised"],
           op.kind = "reload" => op.phase # "send",
           NEW j \in Env, InvOf(j), Same(j), op.kind = "query" /\ op.who = {j} => Empty(j)
    PROVE  InvOf(j)'
<1>1. /\ op'.kind = op.kind /\ op'.who = op.who /\ op'.dead = op.dead
      /\ op'.phase = "raised" /\ op'.todo = op.todo /\ Owed' = op.who /\ Owed \subseteq op.who
  BY RaisedIs
<1>2. PipesOf(j)'
  BY <1>1 DEF InvOf, PipesOf, Same, Empty, Waiting, Replied
<1>3. BoardOf(j)'
  BY <1>1 DEF InvOf, BoardOf, Same, OnBoard, Home
<1>4. ViewOf(j)'
  BY <1>1 DEF InvOf, ViewOf, Same, Sees
<1> QED BY <1>2, <1>3, <1>4 DEF InvOf

(* Between two calls nothing is owed.                                      *)
LEMMA BetweenCalls ==
    ASSUME IInv, op.phase = "idle" \/ op = Idle, ~Closing, NEW i \in Env
    PROVE  /\ Empty(i) /\ ~slot[i].crashed /\ Home(i) = asked[i] /\ OnBoard(i)
           /\ view[i] = NoView \/ Sees(view[i], i)
           /\ ~worker[i].up => inbox[i] = <<>>
<1>1. op.phase = "idle" /\ op.kind = "none" /\ op.dead = {} /\ i \notin Owed
  BY IdleIs DEF IInv, TypeOK, Phases, Owed
<1>2. InvOf(i)
  BY DEF IInv
<1> QED BY <1>1, <1>2 DEF InvOf, PipesOf, BoardOf, ViewOf

(* Of the environment i the step changes, and of the others.               *)
LEMMA OneByOne ==
    ASSUME TypeOK', NEW i \in Env, InvOf(i)', \A j \in Env : j # i => InvOf(j)'
    PROVE  IInv'
BY DEF IInv

-----------------------------------------------------------------------------
(* The client.                                                             *)
LEMMA BeginStep ==
    ASSUME IInv, op = Idle, NEW who \in SUBSET Env, NEW kind \in {"step", "reset", "query"},
           Begin(kind, who), UNCHANGED <<worker, pipes, slot, view, asked>>
    PROVE  IInv'
<1>1. /\ DOMAIN op' = Fields /\ op'.kind = kind /\ op'.phase = "send" /\ op'.who = who
      /\ op'.todo = who /\ op'.dead = {} /\ Owed' = {}
  BY DEF Begin, Fields, Owed
<1>2. ~Closing
  BY IdleIs DEF Closing
<1>3. TypeOK'
  BY <1>1 DEF IInv, TypeOK, pipes, Phases, Closing
<1>4. ASSUME NEW j \in Env
      PROVE  InvOf(j)'
  <2>1. /\ Empty(j) /\ ~slot[j].crashed /\ Home(j) = asked[j] /\ OnBoard(j)
        /\ view[j] = NoView \/ Sees(view[j], j)
        /\ ~worker[j].up => inbox[j] = <<>>
    BY <1>2, BetweenCalls
  <2>2. PipesOf(j)'
    BY <1>1, <2>1 DEF PipesOf, Empty, pipes
  <2>3. BoardOf(j)'
    BY <1>1, <2>1 DEF BoardOf, OnBoard, Home
  <2>4. ViewOf(j)'
    BY <1>1, <2>1 DEF ViewOf, Sees, Empty, pipes
  <2> QED BY <2>2, <2>3, <2>4 DEF InvOf
<1> QED BY <1>3, <1>4 DEF IInv

LEMMA ReloadStep ==
    ASSUME IInv, NEW who \in SUBSET Env, NEW boards \in [who -> Boards], Reload(boards)
    PROVE  IInv'
<1>1. /\ DOMAIN op' = Fields /\ op'.kind = "reload" /\ op'.phase = "send" /\ op'.who = DOMAIN boards
      /\ op'.todo = DOMAIN boards /\ op'.dead = {} /\ Owed' = {} /\ op = Idle
      /\ UNCHANGED <<worker, inbox, outbox, slot>>
  BY DEF Reload, Begin, Fields, Owed, pipes
<1>2. ~Closing
  BY <1>1, IdleIs DEF Closing
<1>3. /\ DOMAIN view' = Env /\ asked' \in [Env -> Boards]
      /\ \A j \in Env : /\ j \in DOMAIN boards => view'[j] = NoView
                        /\ j \notin DOMAIN boards => view'[j] = view[j] /\ asked'[j] = asked[j]
  BY DEF Reload, IInv, TypeOK
<1>4. TypeOK'
  BY <1>1, <1>3 DEF IInv, TypeOK, Phases, Closing
<1>5. ASSUME NEW j \in Env
      PROVE  InvOf(j)'
  <2>1. /\ Empty(j) /\ ~slot[j].crashed /\ Home(j) = asked[j] /\ OnBoard(j)
        /\ view[j] = NoView \/ Sees(view[j], j)
        /\ ~worker[j].up => inbox[j] = <<>>
    BY <1>1, <1>2, BetweenCalls
  <2>2. PipesOf(j)'
    BY <1>1, <2>1 DEF PipesOf, Empty
  <2>3. BoardOf(j)'
    BY <1>1, <1>3, <2>1 DEF BoardOf, OnBoard, Home, Empty
  <2>4. ViewOf(j)'
    BY <1>1, <1>3, <2>1 DEF ViewOf, Sees, Empty
  <2> QED BY <2>2, <2>3, <2>4 DEF InvOf
<1> QED BY <1>4, <1>5 DEF IInv

(* A worker that is built again is on the board of its slot.               *)
LEMMA SpawnedIs ==
    ASSUME NEW i, NEW at
    PROVE  /\ IsWorker(Spawned(i, at)) /\ Spawned(i, at).up /\ Spawned(i, at).board = Home(i)
           /\ Spawned(i, at).env = worker[i].env + 1 /\ Spawned(i, at).at = at
BY DEF Spawned, IsWorker

LEMMA RebuildStep ==
    ASSUME IInv, NEW who \in SUBSET Env, Rebuild(who)
    PROVE  IInv'
<1>1. /\ op' = Idle /\ asked' = asked /\ (op = Idle \/ (op.phase = "raised" /\ who = Env))
      /\ DOMAIN worker' = Env /\ DOMAIN slot' = Env /\ DOMAIN view' = Env
      /\ DOMAIN inbox' = Env /\ DOMAIN outbox' = Env
  <2>1. op = Idle \/ (op.phase = "raised" /\ who = Env)
    BY Zenon DEF Rebuild
  <2>2. op' = Idle /\ asked' = asked
    BY DEF Rebuild
  <2>3. DOMAIN worker' = Env /\ DOMAIN slot' = Env /\ DOMAIN view' = Env
    BY DEF Rebuild
  <2>4. DOMAIN inbox' = Env /\ DOMAIN outbox' = Env
    BY DEF Rebuild, FreshPipes
  <2> QED BY <2>1, <2>2, <2>3, <2>4
<1>2. /\ DOMAIN op' = Fields /\ op'.kind = "none" /\ op'.phase = "idle" /\ op'.who = {} /\ op'.todo = {}
      /\ op'.dead = {} /\ Owed' = {} /\ ~Closing
  <2>1. ~Closing
    BY <1>1, IdleIs DEF Closing, IInv, TypeOK
  <2> QED BY <1>1, <2>1, IdleIs DEF Owed
<1>3. ASSUME NEW j \in Env, j \notin who
      PROVE  Same(j)
  BY <1>3 DEF Rebuild, FreshPipes, Same
<1>4. ASSUME NEW j \in who
      PROVE  /\ worker'[j] = Spawned(j, 0) /\ view'[j] = NoView
             /\ inbox'[j] = <<>> /\ outbox'[j] = <<>>
  BY DEF Rebuild, FreshPipes
<1>5. ASSUME NEW j \in who
      PROVE  slot'[j] = Renewed(j)
  BY DEF Rebuild
<1>6. ASSUME NEW j \in who
      PROVE  /\ IsSlot(slot'[j]) /\ slot'[j].board = slot[j].board /\ ~slot'[j].crashed
             /\ IsWorker(worker'[j]) /\ worker'[j].up /\ worker'[j].board = Home(j)
  <2>1. IsSlot(slot[j])
    BY DEF IInv, TypeOK
  <2>2. IsSlot(slot'[j]) /\ slot'[j].board = slot[j].board /\ ~slot'[j].crashed
    BY <1>5, <2>1 DEF IsSlot, Renewed
  <2>3. IsWorker(worker'[j]) /\ worker'[j].up /\ worker'[j].board = Home(j)
    BY <1>4, SpawnedIs
  <2> QED BY <2>2, <2>3
<1>7. TypeOK'
  <2>1. \A j \in Env : IsWorker(worker[j]) /\ IsSlot(slot[j])
    BY DEF IInv, TypeOK
  <2>2. \A j \in Env : IsWorker(worker'[j]) /\ IsSlot(slot'[j])
    <3> SUFFICES ASSUME NEW j \in Env
                 PROVE  IsWorker(worker'[j]) /\ IsSlot(slot'[j])
      OBVIOUS
    <3>1. CASE j \in who
      BY <1>6, <3>1
    <3>2. CASE j \notin who
      <4>1. worker'[j] = worker[j] /\ slot'[j] = slot[j]
        BY <1>3, <3>2 DEF Same
      <4> QED BY <2>1, <4>1
    <3> QED BY <3>1, <3>2
  <2>3. op'.who \subseteq Env /\ ~Closing' /\ asked' \in [Env -> Boards]
    BY <1>1, <1>2 DEF Closing, IInv, TypeOK
  <2> QED BY <1>1, <1>2, <2>2, <2>3 DEF TypeOK, Phases, IsWorker, IsSlot
<1>8. ASSUME NEW j \in who
      PROVE  InvOf(j)'
  <2>1. Home(j) = asked[j]
    BY <1>1, <1>2, IdleIs DEF IInv, InvOf, BoardOf
  <2>2. worker'[j].up /\ worker'[j].board = Home(j) /\ Home(j)' = Home(j)
    BY <1>6 DEF Home
  <2>3. PipesOf(j)'
    BY <1>2, <1>4, <1>6, <2>2 DEF PipesOf, Empty
  <2>4. BoardOf(j)'
    BY <1>1, <1>2, <2>1, <2>2 DEF BoardOf, OnBoard
  <2>5. ViewOf(j)'
    BY <1>2, <1>4, <1>6 DEF ViewOf
  <2> QED BY <2>3, <2>4, <2>5 DEF InvOf
<1>9. ASSUME NEW j \in Env, j \notin who
      PROVE  InvOf(j)'
  <2>1. Same(j) /\ op = Idle
    BY <1>1, <1>3, <1>9
  <2>2. /\ Empty(j) /\ ~slot[j].crashed /\ Home(j) = asked[j] /\ OnBoard(j)
        /\ view[j] = NoView \/ Sees(view[j], j)
        /\ ~worker[j].up => inbox[j] = <<>>
    BY <1>2, <2>1, BetweenCalls
  <2>3. PipesOf(j)' /\ BoardOf(j)' /\ ViewOf(j)'
    BY <1>2, <2>1, <2>2 DEF Same, PipesOf, BoardOf, ViewOf, Empty, OnBoard, Home, Sees
  <2> QED BY <2>3 DEF InvOf
<1> QED BY <1>7, <1>8, <1>9 DEF IInv

LEMMA GiveUpStep ==
    ASSUME IInv, GiveUp
    PROVE  IInv'
<1>1. /\ op' = Idle /\ op.phase = "raised" /\ op.kind = "query" /\ Cardinality(op.who) = 1
      /\ UNCHANGED <<worker, slot, inbox, outbox, asked>>
      /\ DOMAIN view' = Env /\ \A j \in Env : view'[j] = IF j \in op.who THEN NoView ELSE view[j]
  BY DEF GiveUp, pipes
<1>2. PICK i \in Env : op.who = {i}
  <2>1. IsFiniteSet(1..Envs)
    BY FS_Interval, VecAssumption
  <2>2. op.who \subseteq Env /\ IsFiniteSet(op.who)
    BY <2>1, FS_Subset DEF IInv, TypeOK, Env
  <2>3. PICK i : op.who = {i}
    BY <1>1, <2>2, FS_Singleton
  <2> QED BY <2>2, <2>3
<1>3. /\ DOMAIN op' = Fields /\ op'.kind = "none" /\ op'.phase = "idle" /\ op'.who = {} /\ op'.todo = {}
      /\ op'.dead = {} /\ Owed' = {} /\ Owed = op.who /\ ~Closing
  BY <1>1, IdleIs DEF Owed, Closing
<1>4. TypeOK'
  BY <1>1, <1>3 DEF IInv, TypeOK, Phases, Closing
<1>5. ASSUME NEW j \in Env
      PROVE  InvOf(j)'
  <2>1. InvOf(j)
    BY <1>3 DEF IInv
  <2>2. Empty(j) /\ ~slot[j].crashed /\ (j # i => view[j] = NoView \/ Sees(view[j], j))
    BY <1>1, <1>2, <1>3, <2>1 DEF InvOf, PipesOf, ViewOf
  <2>3. PipesOf(j)' /\ BoardOf(j)' /\ ViewOf(j)'
    BY <1>1, <1>2, <1>3, <2>1, <2>2 DEF InvOf, PipesOf, BoardOf, ViewOf, Empty, OnBoard, Home, Sees
  <2> QED BY <2>3 DEF InvOf
<1> QED BY <1>4, <1>5 DEF IInv

-----------------------------------------------------------------------------
(* A dead worker inside of a call.                                         *)
LEMMA RecoverIs ==
    ASSUME TypeOK, NEW i \in Env, NEW crashed, Recover(i, crashed)
    PROVE  /\ DOMAIN worker' = Env /\ DOMAIN slot' = Env /\ DOMAIN inbox' = Env /\ DOMAIN outbox' = Env
           /\ \A j \in Env : j # i => /\ worker'[j] = worker[j] /\ slot'[j] = slot[j]
                                    /\ inbox'[j] = inbox[j] /\ outbox'[j] = outbox[j]
           /\ IsWorker(worker'[i]) /\ worker'[i].up /\ worker'[i].board = Home(i)
           /\ IsSlot(slot'[i]) /\ slot'[i].board = slot[i].board /\ slot'[i].crashed = crashed
           /\ slot'[i].obs.env = worker'[i].env /\ slot'[i].obs.at = worker'[i].at
           /\ Home(i)' = Home(i) /\ inbox'[i] = <<>> /\ outbox'[i] = <<>>
<1>1. /\ DOMAIN worker' = Env /\ worker'[i] = Spawned(i, 1)
      /\ \A j \in Env : j # i => worker'[j] = worker[j]
  BY DEF Recover, TypeOK
<1>2. /\ DOMAIN slot' = Env /\ \A j \in Env : j # i => slot'[j] = slot[j]
      /\ slot'[i] = [slot[i] EXCEPT !.seq = Advanced(@), !.obs = Cached(i), !.crashed = crashed]
  BY DEF Recover, TypeOK
<1>3. IsSlot(slot[i])
  BY DEF TypeOK
<1>4. /\ IsSlot(slot'[i]) /\ slot'[i].board = slot[i].board /\ slot'[i].crashed = crashed
      /\ slot'[i].obs = Cached(i)
  BY <1>2, <1>3 DEF IsSlot
<1>5. /\ DOMAIN inbox' = Env /\ DOMAIN outbox' = Env /\ inbox'[i] = <<>> /\ outbox'[i] = <<>>
      /\ \A j \in Env : j # i => inbox'[j] = inbox[j] /\ outbox'[j] = outbox[j]
  BY DEF Recover, FreshPipes
<1>6. /\ IsWorker(worker'[i]) /\ worker'[i].up /\ worker'[i].board = Home(i)
      /\ worker'[i].env = worker[i].env + 1 /\ worker'[i].at = 1
  BY <1>1, SpawnedIs
<1>7. slot'[i].obs.env = worker'[i].env /\ slot'[i].obs.at = worker'[i].at
  BY <1>4, <1>6 DEF Cached
<1>8. Home(i)' = Home(i)
  BY <1>4 DEF Home
<1> QED BY <1>1, <1>2, <1>4, <1>5, <1>6, <1>7, <1>8

(* ... is built again, with its view told or to be told.                   *)
LEMMA RecoveredInv ==
    ASSUME TypeOK, ~Closing, NEW i \in Env, InvOf(i), asked' = asked,
           NEW crashed, Recover(i, crashed), ~(op.kind = "reload" /\ op.phase = "send"),
           op'.kind = "reload" => op'.phase # "send" /\ i \notin op'.dead,
           op'.kind = "reload" /\ i \in op'.who => view'[i] = NoView,
           \/ view'[i] = NoView
           \/ view'[i].env = slot'[i].obs.env /\ view'[i].at = slot'[i].obs.at
           \/ op'.kind = "step" /\ i \in Owed',
           crashed => op'.kind = "step" /\ i \in Owed'
    PROVE  InvOf(i)'
<1>1. Home(i) = asked[i]
  BY DEF InvOf, BoardOf
<1>2. /\ worker'[i].up /\ worker'[i].board = Home(i) /\ slot'[i].crashed = crashed
      /\ slot'[i].obs.env = worker'[i].env /\ slot'[i].obs.at = worker'[i].at
      /\ Home(i)' = Home(i) /\ inbox'[i] = <<>> /\ outbox'[i] = <<>>
  BY RecoverIs
<1>3. PipesOf(i)'
  BY <1>2 DEF PipesOf, Empty
<1>4. BoardOf(i)'
  BY <1>1, <1>2 DEF BoardOf, OnBoard
<1>5. ViewOf(i)'
  BY <1>2 DEF ViewOf, Sees
<1> QED BY <1>3, <1>4, <1>5 DEF InvOf

LEMMA RecoverFailsStep ==
    ASSUME IInv, ~Closing, NEW i \in Env, i \in op.who, RecoverFails(i), ~slot[i].crashed,
           op.phase \in Phases, op.kind \in {"step", "reload"}, op.kind = "reload" => op.phase # "send"
    PROVE  IInv'
<1>1. /\ DOMAIN op' = Fields /\ op'.kind = op.kind /\ op'.who = op.who /\ op'.dead = op.dead
      /\ op'.phase = "raised" /\ op'.todo = op.todo /\ Owed' = op.who /\ op' = [op EXCEPT !.phase = "raised"]
  BY RaisedIs DEF RecoverFails, IInv
<1>2. view' = view /\ asked' = asked
  BY DEF RecoverFails
<1>3. /\ DOMAIN inbox' = Env /\ DOMAIN outbox' = Env /\ inbox'[i] = <<>> /\ outbox'[i] = <<>>
      /\ \A j \in Env : j # i => inbox'[j] = inbox[j] /\ outbox'[j] = outbox[j]
  BY DEF RecoverFails, FreshPipes
<1>4. /\ DOMAIN slot' = Env /\ \A j \in Env : j # i => slot'[j] = slot[j]
      /\ IsSlot(slot'[i]) /\ slot'[i].board = slot[i].board /\ slot'[i].crashed = slot[i].crashed
  <2>1. slot' = [slot EXCEPT ![i].seq = Advanced(@)]
    BY DEF RecoverFails
  <2> QED BY <2>1 DEF IInv, TypeOK, IsSlot
<1>5. /\ DOMAIN worker' = Env /\ \A j \in Env : j # i => worker'[j] = worker[j]
      /\ IsWorker(worker'[i]) /\ OnBoard(i)'
  <2>1. Home(i) = asked[i]
    BY DEF IInv, InvOf, BoardOf
  <2>2. CASE worker' = [worker EXCEPT ![i].up = FALSE]
    <3>1. /\ DOMAIN worker' = Env /\ \A j \in Env : j # i => worker'[j] = worker[j]
          /\ worker'[i] = [worker[i] EXCEPT !.up = FALSE]
      BY <2>2 DEF IInv, TypeOK
    <3>2. DOMAIN worker'[i] = DOMAIN worker[i] /\ ~worker'[i].up
      BY <3>1 DEF IInv, TypeOK, IsWorker
    <3> QED BY <3>1, <3>2 DEF IInv, TypeOK, IsWorker, OnBoard
  <2>3. CASE worker' = [worker EXCEPT ![i] = Spawned(i, 0)]
    <3>1. /\ DOMAIN worker' = Env /\ \A j \in Env : j # i => worker'[j] = worker[j]
          /\ worker'[i] = Spawned(i, 0)
      BY <2>3 DEF IInv, TypeOK
    <3> QED BY <1>2, <2>1, <3>1, SpawnedIs DEF OnBoard
  <2> QED BY <2>2, <2>3 DEF RecoverFails
<1>6. TypeOK'
  <2>1. \A j \in Env : IsWorker(worker'[j]) /\ IsSlot(slot'[j])
    BY <1>4, <1>5 DEF IInv, TypeOK
  <2> QED BY <1>1, <1>2, <1>3, <1>4, <1>5, <2>1 DEF IInv, TypeOK, Phases, Closing, IsWorker, IsSlot
<1>7. InvOf(i)'
  <2>1. Home(i)' = asked[i]
    BY <1>4 DEF Home, IInv, InvOf, BoardOf
  <2>2. op.kind = "reload" => view[i] = NoView
    BY DEF IInv, InvOf, ViewOf
  <2>3. PipesOf(i)'
    BY <1>1, <1>3, <1>4 DEF PipesOf, Empty
  <2>4. BoardOf(i)'
    BY <1>1, <1>2, <1>3, <1>5, <2>1 DEF BoardOf
  <2>5. ViewOf(i)'
    BY <1>1, <1>2, <1>3, <1>4, <2>2 DEF ViewOf
  <2> QED BY <2>3, <2>4, <2>5 DEF InvOf
<1>8. ASSUME NEW j \in Env, j # i
      PROVE  InvOf(j)'
  <2>1. Same(j) /\ InvOf(j)
    BY <1>2, <1>3, <1>4, <1>5, <1>8 DEF Same, IInv
  <2> QED BY <1>1, <2>1, RestRaised DEF IInv
<1> QED BY <1>6, <1>7, <1>8, OneByOne

-----------------------------------------------------------------------------
(* The parent sends.                                                       *)
LEMMA SentPlain ==
    ASSUME TypeOK, NEW i
    PROVE  Sent(i).dead = op.dead /\ Sent(i) = [Sent(i) EXCEPT !.dead = op.dead]
<1>1. CASE op.todo = {i}
  <2>1. Sent(i) = [op EXCEPT !.phase = "recv", !.todo = op.who]
    BY <1>1 DEF Sent
  <2>2. Sent(i).dead = op.dead
    BY <2>1 DEF TypeOK, Fields
  <2> QED BY <2>1, <2>2
<1>2. CASE op.todo # {i}
  <2>1. Sent(i) = [op EXCEPT !.todo = op.todo \ {i}]
    BY <1>2 DEF Sent
  <2>2. Sent(i).dead = op.dead
    BY <2>1 DEF TypeOK, Fields
  <2> QED BY <2>1, <2>2
<1> QED BY <1>1, <1>2

(* A command goes to a worker that owes nothing.                           *)
LEMMA PushIs ==
    ASSUME TypeOK, NEW i \in Env, Empty(i), NEW m, Push(i, m)
    PROVE  /\ DOMAIN inbox' = Env /\ inbox'[i] = <<m>>
           /\ \A j \in Env : j # i => inbox'[j] = inbox[j]
BY DEF TypeOK, Push, Empty

LEMMA TypeSent ==
    ASSUME TypeOK, ~Closing, op.phase = "send", NEW i \in op.todo, NEW dead \in SUBSET op.who,
           op' = [Sent(i) EXCEPT !.dead = dead], op.kind = "step" => dead = {},
           DOMAIN worker' = Env, DOMAIN slot' = Env, DOMAIN inbox' = Env, DOMAIN outbox' = Env,
           UNCHANGED <<view, asked>>,
           \A j \in Env : IsWorker(worker'[j]) /\ IsSlot(slot'[j])
    PROVE  TypeOK'
<1>1. /\ DOMAIN op' = Fields /\ op'.kind = op.kind /\ op'.who = op.who /\ op'.dead = dead
      /\ op'.phase \in {"send", "recv"} /\ op'.todo \subseteq op'.who /\ op.kind # "none"
  BY SentIs
<1> QED BY <1>1 DEF TypeOK, Phases, Closing, IsWorker, IsSlot

LEMMA SendStepInv ==
    ASSUME IInv, NEW i \in Env, SendStep(i)
    PROVE  IInv'
<1>1. /\ op.kind = "step" /\ op.phase = "send" /\ i \in op.todo /\ ~Closing
      /\ i \in op.who /\ op.dead = {} /\ op.dead \in SUBSET op.who
  BY DEF SendStep, At, Closing, IInv, TypeOK
<1>2. i \notin Owed /\ Empty(i) /\ ~slot[i].crashed /\ InvOf(i)
  BY <1>1 DEF Owed, IInv, InvOf, PipesOf
<1>3. CASE /\ op' = Sent(i) /\ UNCHANGED <<view, asked>>
           /\ \/ /\ worker[i].up /\ UNCHANGED <<worker, outbox, slot>>
                 /\ \E m : m.cmd = "step" /\ Push(i, m)
              \/ Recover(i, TRUE)
  <2>1. op' = [Sent(i) EXCEPT !.dead = op.dead]
    BY <1>3, SentPlain DEF IInv
  <2>2. /\ op'.kind = "step" /\ op'.dead = op.dead /\ op'.who = op.who /\ i \in Owed' /\ op'.phase \in {"send", "recv"}
    BY <1>1, <2>1, SentIs DEF IInv
  <2>3. CASE worker[i].up /\ UNCHANGED <<worker, outbox, slot>> /\ \E m : m.cmd = "step" /\ Push(i, m)
    <3>1. PICK m : m.cmd = "step" /\ Push(i, m)
      BY <2>3
    <3>2. DOMAIN inbox' = Env /\ inbox'[i] = <<m>> /\ \A j \in Env : j # i => inbox'[j] = inbox[j]
      BY <1>2, <3>1, PushIs DEF IInv
    <3>3. TypeOK'
      BY <1>1, <1>3, <2>1, <2>3, <3>2, TypeSent DEF IInv, TypeOK
    <3>4. PipesOf(i)' /\ BoardOf(i)' /\ ViewOf(i)'
      <4>1. PipesOf(i)'
        BY <1>1, <1>2, <2>2, <2>3, <3>1, <3>2 DEF InvOf, PipesOf, Empty, Waiting
      <4>2. BoardOf(i)'
        BY <1>1, <1>2, <1>3, <2>2, <2>3 DEF InvOf, BoardOf, OnBoard, Home
      <4>3. ViewOf(i)'
        BY <1>1, <1>2, <1>3, <2>2, <2>3 DEF InvOf, ViewOf, Empty
      <4> QED BY <4>1, <4>2, <4>3
    <3>5. ASSUME NEW j \in Env, j # i
          PROVE  InvOf(j)'
      <4>1. Same(j) /\ InvOf(j)
        BY <1>1, <1>3, <2>3, <3>2, <3>5 DEF Same, IInv
      <4> QED BY <1>1, <2>1, <3>5, <4>1, RestSent DEF IInv
    <3> QED BY <3>3, <3>4, <3>5, OneByOne DEF InvOf
  <2>4. CASE Recover(i, TRUE)
    <3> DEFINE crashed == TRUE
    <3> HIDE DEF crashed
    <3>0. Recover(i, crashed)
      BY <2>4 DEF crashed
    <3>1. /\ DOMAIN worker' = Env /\ DOMAIN slot' = Env /\ DOMAIN inbox' = Env /\ DOMAIN outbox' = Env
          /\ \A j \in Env : j # i => /\ worker'[j] = worker[j] /\ slot'[j] = slot[j]
                                   /\ inbox'[j] = inbox[j] /\ outbox'[j] = outbox[j]
          /\ IsWorker(worker'[i]) /\ IsSlot(slot'[i])
      BY <3>0, RecoverIs DEF IInv
    <3>2. TypeOK'
      <4>1. \A j \in Env : IsWorker(worker'[j]) /\ IsSlot(slot'[j])
        BY <3>1 DEF IInv, TypeOK
      <4> QED BY <1>1, <1>3, <2>1, <3>1, <4>1, TypeSent DEF IInv
    <3>3. InvOf(i)'
      BY <1>1, <1>2, <1>3, <2>2, <3>0, RecoveredInv DEF IInv
    <3>4. ASSUME NEW j \in Env, j # i
          PROVE  InvOf(j)'
      <4>1. Same(j) /\ InvOf(j)
        BY <1>1, <1>3, <3>1, <3>4 DEF Same, IInv
      <4> QED BY <1>1, <2>1, <3>4, <4>1, RestSent DEF IInv
    <3> QED BY <3>2, <3>3, <3>4, OneByOne
  <2> QED BY <1>3, <2>3, <2>4
<1>4. CASE RecoverFails(i)
  BY <1>1, <1>2, <1>4, RecoverFailsStep DEF Phases
<1>5. \/ /\ worker[i].up /\ Push(i, [cmd |-> "step", board |-> NoBoard, seq |-> 0])
         /\ op' = Sent(i) /\ UNCHANGED <<worker, outbox, slot, view, asked>>
      \/ Recover(i, TRUE) /\ op' = Sent(i) /\ UNCHANGED <<view, asked>>
      \/ RecoverFails(i)
  BY DEF SendStep
<1> QED BY <1>3, <1>4, <1>5

LEMMA SendInv ==
    ASSUME IInv, NEW i \in Env, Send(i)
    PROVE  IInv'
<1>1. /\ op.kind \in {"reset", "query"} /\ op.phase = "send" /\ i \in op.todo /\ ~Closing
      /\ i \in op.who /\ op.todo \subseteq op.who /\ op.dead \in SUBSET op.who
      /\ UNCHANGED <<worker, outbox, slot, view, asked>>
  BY DEF Send, At, Closing, IInv, TypeOK
<1>2. i \notin Owed /\ Empty(i) /\ ~slot[i].crashed /\ InvOf(i)
  BY <1>1 DEF Owed, IInv, InvOf, PipesOf
<1>3. CASE op' = Sent(i) /\ worker[i].up /\ \E m : m.cmd = op.kind /\ Push(i, m)
  <2>1. op' = [Sent(i) EXCEPT !.dead = op.dead]
    BY <1>3, SentPlain DEF IInv
  <2>2. /\ op'.kind = op.kind /\ op'.dead = op.dead /\ op'.who = op.who /\ i \in Owed' /\ op'.phase \in {"send", "recv"}
    BY <1>1, <2>1, SentIs DEF IInv
  <2>3. PICK m : m.cmd = op.kind /\ Push(i, m)
    BY <1>3
  <2>4. DOMAIN inbox' = Env /\ inbox'[i] = <<m>> /\ \A j \in Env : j # i => inbox'[j] = inbox[j]
    BY <1>2, <2>3, PushIs DEF IInv
  <2>5. TypeOK'
    BY <1>1, <2>1, <2>4, TypeSent DEF IInv, TypeOK
  <2>6. PipesOf(i)' /\ BoardOf(i)' /\ ViewOf(i)'
    <3>1. PipesOf(i)'
      BY <1>1, <1>2, <1>3, <2>2, <2>3, <2>4 DEF InvOf, PipesOf, Empty, Waiting
    <3>2. BoardOf(i)'
      BY <1>1, <1>2, <2>2 DEF InvOf, BoardOf, OnBoard, Home
    <3>3. ViewOf(i)'
      BY <1>1, <1>2, <2>2 DEF InvOf, ViewOf, Empty, Sees
    <3> QED BY <3>1, <3>2, <3>3
  <2>7. ASSUME NEW j \in Env, j # i
        PROVE  InvOf(j)'
    <3>1. Same(j) /\ InvOf(j)
      BY <1>1, <2>4, <2>7 DEF Same, IInv
    <3> QED BY <1>1, <2>1, <2>7, <3>1, RestSent DEF IInv
  <2> QED BY <2>5, <2>6, <2>7, OneByOne DEF InvOf
<1>4. CASE op' = [op EXCEPT !.phase = "raised"] /\ UNCHANGED inbox
  <2>1. /\ DOMAIN op' = Fields /\ op'.kind = op.kind /\ op'.who = op.who /\ op'.dead = op.dead
        /\ op'.phase = "raised" /\ op'.todo = op.todo
    BY <1>1, <1>4, RaisedIs DEF IInv, Phases
  <2>2. TypeOK'
    BY <1>1, <1>4, <2>1 DEF IInv, TypeOK, Phases, Closing, IsWorker, IsSlot
  <2>3. ASSUME NEW j \in Env
        PROVE  InvOf(j)'
    <3>1. Same(j) /\ InvOf(j) /\ (op.who = {j} => j = i)
      BY <1>1, <1>4 DEF Same, IInv
    <3> QED BY <1>1, <1>2, <1>4, <3>1, RestRaised DEF IInv, Phases
  <2> QED BY <2>2, <2>3 DEF IInv
<1> QED BY <1>3, <1>4 DEF Send

LEMMA SendReloadInv ==
    ASSUME IInv, NEW i \in Env, SendReload(i)
    PROVE  IInv'
<1>1. /\ op.kind = "reload" /\ op.phase = "send" /\ i \in op.todo /\ ~Closing
      /\ i \in op.who /\ op.todo \subseteq op.who /\ op.dead \in SUBSET op.who
      /\ UNCHANGED <<worker, outbox, view, asked>>
  BY DEF SendReload, At, Closing, IInv, TypeOK
<1>2. i \notin Owed /\ Empty(i) /\ ~slot[i].crashed /\ InvOf(i) /\ view[i] = NoView
  BY <1>1 DEF Owed, IInv, InvOf, PipesOf, ViewOf
<1>3. /\ DOMAIN slot' = Env /\ \A j \in Env : j # i => slot'[j] = slot[j]
      /\ IsSlot(slot'[i]) /\ slot'[i].board = asked[i] /\ slot'[i].crashed = slot[i].crashed
  <2>1. slot' = [slot EXCEPT ![i].board = Remembered(i), ![i].seq = Advanced(@)]
    BY DEF SendReload
  <2> QED BY <2>1 DEF IInv, TypeOK, IsSlot, Remembered
<1>4. Home(i)' = asked[i]
  <2>1. asked[i] # NoBoard
    BY VecAssumption DEF IInv, TypeOK
  <2> QED BY <1>3, <2>1 DEF Home
<1>5. ASSUME NEW dead \in SUBSET op.who, op' = [Sent(i) EXCEPT !.dead = dead],
             dead \in {op.dead, op.dead \cup {i}}, DOMAIN inbox' = Env,
             \A j \in Env : j # i => inbox'[j] = inbox[j],
             \/ /\ dead = op.dead /\ worker[i].up
                /\ \E m : inbox'[i] = <<m>> /\ m.cmd = "reload" /\ m.board = asked[i]
             \/ ~worker[i].up /\ inbox'[i] = inbox[i]
      PROVE  IInv'
  <2>1. /\ op'.kind = op.kind /\ op'.dead = dead /\ op'.who = op.who /\ i \in Owed' /\ op'.phase \in {"send", "recv"}
        /\ (op'.phase = "send" => i \notin op'.todo)
    BY <1>1, <1>5, SentIs DEF IInv
  <2>2. TypeOK'
    <3>1. \A j \in Env : IsWorker(worker'[j]) /\ IsSlot(slot'[j])
      BY <1>1, <1>3 DEF IInv, TypeOK
    <3> QED BY <1>1, <1>3, <1>5, <3>1, TypeSent DEF IInv, TypeOK
  <2>3. PipesOf(i)'
    BY <1>1, <1>2, <1>3, <1>5, <2>1 DEF InvOf, PipesOf, Empty, Waiting
  <2>4. BoardOf(i)'
    BY <1>1, <1>2, <1>4, <1>5, <2>1 DEF BoardOf, Empty
  <2>5. ViewOf(i)'
    BY <1>1, <1>2, <1>3, <2>1 DEF InvOf, ViewOf, Empty
  <2>6. ASSUME NEW j \in Env, j # i
        PROVE  InvOf(j)'
    <3>1. Same(j) /\ InvOf(j)
      BY <1>1, <1>3, <1>5, <2>6 DEF Same, IInv
    <3> QED BY <1>1, <1>5, <2>6, <3>1, RestSent DEF IInv
  <2> QED BY <2>2, <2>3, <2>4, <2>5, <2>6, OneByOne DEF InvOf
<1>6. CASE worker[i].up
  <2>1. PICK m : m.cmd = "reload" /\ m.board = asked[i] /\ Push(i, m) /\ op' = Sent(i)
    BY <1>6 DEF SendReload
  <2>2. DOMAIN inbox' = Env /\ inbox'[i] = <<m>> /\ \A j \in Env : j # i => inbox'[j] = inbox[j]
    BY <1>2, <2>1, PushIs DEF IInv
  <2>3. op' = [Sent(i) EXCEPT !.dead = op.dead]
    BY <2>1, SentPlain DEF IInv
  <2> QED BY <1>1, <1>5, <1>6, <2>1, <2>2, <2>3
<1>7. CASE ~worker[i].up
  <2>1. op' = [Sent(i) EXCEPT !.dead = @ \cup {i}] /\ UNCHANGED inbox
    BY <1>7 DEF SendReload
  <2>2. op' = [Sent(i) EXCEPT !.dead = op.dead \cup {i}]
    BY <2>1, SentPlain DEF IInv
  <2>3. op.dead \cup {i} \in SUBSET op.who
    BY <1>1
  <2> QED BY <1>5, <1>7, <2>1, <2>2, <2>3 DEF IInv, TypeOK
<1> QED BY <1>6, <1>7

-----------------------------------------------------------------------------
(* The parent receives.                                                    *)
LEMMA TypeHeard ==
    ASSUME TypeOK, ~Closing, op.phase = "recv", NEW i \in op.todo, Heard(i),
           op'.kind = "step" => op'.dead = {},
           DOMAIN worker' = Env, DOMAIN slot' = Env, DOMAIN inbox' = Env, DOMAIN outbox' = Env,
           DOMAIN view' = Env, asked' = asked,
           \A j \in Env : IsWorker(worker'[j]) /\ IsSlot(slot'[j])
    PROVE  TypeOK'
<1>1. i \in op.who /\ i \in Env /\ op.kind # "none" /\ op.todo \subseteq op.who /\ op.dead \subseteq op.who
  BY DEF TypeOK, Phases
<1>2. CASE op' = Idle
  BY <1>2, IdleIs DEF TypeOK, Phases, Closing, IsWorker, IsSlot
<1>3. CASE /\ DOMAIN op' = Fields /\ op'.kind = op.kind /\ op'.who = op.who
           /\ op'.phase \in {"recv", "recover"} /\ op'.todo \in {op.todo \ {i}, op'.dead}
           /\ op'.dead \in {op.dead, op.dead \cup {i}}
  BY <1>1, <1>3 DEF TypeOK, Phases, Closing, IsWorker, IsSlot
<1> QED BY <1>2, <1>3 DEF Heard

LEMMA HeardInv ==
    ASSUME NEW i \in Env, op.phase = "recv", i \in op.todo, Heard(i), Empty(i)', ~slot'[i].crashed,
           Home(i)' = asked'[i], OnBoard(i)', op.kind = "reload" => view'[i] = NoView,
           \/ view'[i] = NoView \/ Sees(view[i], i)'
           \/ op'.kind \in {"step", "reset"} /\ i \in op'.dead,
           op'.kind = "reload" /\ i \in op'.dead => ~worker'[i].up
    PROVE  InvOf(i)'
<1>1. \/ op'.kind = "none" /\ op'.who = {} /\ op'.dead = {} /\ op'.phase = "idle"
      \/ op'.kind = op.kind /\ op'.phase = "recv"
      \/ op'.kind = op.kind /\ op'.phase = "recover"
  BY IdleIs DEF Heard
<1>2. PipesOf(i)'
  BY <1>1 DEF PipesOf, Empty
<1>3. BoardOf(i)'
  BY <1>1 DEF BoardOf, Empty
<1>4. ViewOf(i)'
  BY <1>1 DEF ViewOf, Empty
<1> QED BY <1>2, <1>3, <1>4 DEF InvOf

(* The answer of a worker is the only message in its pipes.                *)
LEMMA ReplyIs ==
    ASSUME IInv, ~Closing, NEW i \in Env, Answered(i), outbox' = [outbox EXCEPT ![i] = Tail(@)]
    PROVE  /\ DOMAIN outbox' = Env /\ outbox'[i] = <<>> /\ inbox[i] = <<>> /\ ~slot[i].crashed
           /\ \A j \in Env : j # i => outbox'[j] = outbox[j]
           /\ Head(outbox[i]).kind \in {"obs", "error"}
           /\ Head(outbox[i]).kind # "error" => Sees(Head(outbox[i]).obs, i)
<1>1. InvOf(i)
  BY DEF IInv
<1>2. inbox[i] = <<>> /\ \E a : outbox[i] = <<a>> /\ a.kind \in {"obs", "error"}
  BY <1>1 DEF InvOf, PipesOf, Empty, Waiting, Replied, Answered
<1>3. PICK a : outbox[i] = <<a>> /\ a.kind \in {"obs", "error"}
  BY <1>2
<1>4. Head(outbox[i]) = a /\ Tail(outbox[i]) = <<>> /\ outbox[i] # <<>>
  BY <1>3
<1>5. DOMAIN outbox' = Env /\ outbox'[i] = Tail(outbox[i]) /\ \A j \in Env : j # i => outbox'[j] = outbox[j]
  BY DEF IInv, TypeOK
<1> QED BY <1>1, <1>2, <1>3, <1>4, <1>5 DEF InvOf, PipesOf, Empty, ViewOf

(* What a dead worker answered has been read.                              *)
LEMMA LostIs ==
    ASSUME IInv, ~Closing, NEW i \in Env, Lost(i)
    PROVE  Empty(i) /\ ~worker[i].up
BY DEF IInv, InvOf, PipesOf, Lost, Empty

LEMMA RecvStepInv ==
    ASSUME IInv, NEW i \in Env, RecvStep(i)
    PROVE  IInv'
<1>1. /\ op.kind = "step" /\ op.phase = "recv" /\ i \in op.todo /\ ~Closing
      /\ i \in op.who /\ op.dead = {} /\ i \in Owed
  BY DEF RecvStep, At, Closing, IInv, TypeOK, Owed
<1>2. InvOf(i) /\ Home(i) = asked[i] /\ OnBoard(i)
  BY <1>1 DEF IInv, InvOf, BoardOf
<1>3. ASSUME op' = Received(i), asked' = asked,
             DOMAIN worker' = Env, DOMAIN slot' = Env, DOMAIN inbox' = Env, DOMAIN outbox' = Env,
             DOMAIN view' = Env, IsWorker(worker'[i]), IsSlot(slot'[i]), InvOf(i)',
             \A j \in Env : j # i => Same(j)
      PROVE  IInv'
  <2>1. Heard(i)
    BY <1>1, <1>3, ReceivedIs DEF IInv
  <2>2. op'.kind = "step" => op'.dead = {}
    <3>1. CASE op.todo = {i}
      BY <1>3, <3>1, IdleIs DEF Received
    <3>2. CASE op.todo # {i}
      <4>1. op' = [op EXCEPT !.todo = op.todo \ {i}]
        BY <1>3, <3>2 DEF Received
      <4> QED BY <1>1, <4>1
    <3> QED BY <3>1, <3>2
  <2>3. TypeOK'
    <3>1. \A j \in Env : IsWorker(worker'[j]) /\ IsSlot(slot'[j])
      BY <1>3 DEF IInv, TypeOK, Same
    <3> QED BY <1>1, <1>3, <2>1, <2>2, <3>1, TypeHeard DEF IInv
  <2>4. ASSUME NEW j \in Env, j # i
        PROVE  InvOf(j)'
    BY <1>1, <1>3, <2>1, <2>4, RestHeard DEF IInv
  <2> QED BY <1>3, <2>3, <2>4, OneByOne
<1>4. Heard(i) \/ op' # Received(i)
  BY <1>1, ReceivedIs DEF IInv
<1>5. CASE /\ slot[i].crashed /\ slot' = [slot EXCEPT ![i].crashed = FALSE]
           /\ view' = [view EXCEPT ![i] = Crashed(slot[i].obs)]
           /\ op' = Received(i) /\ UNCHANGED <<worker, pipes, asked>>
  <2>0. UNCHANGED <<worker, inbox, outbox, asked>> /\ op' = Received(i)
    BY <1>5 DEF pipes
  <2>1. /\ DOMAIN slot' = Env /\ \A j \in Env : j # i => slot'[j] = slot[j]
        /\ slot'[i] = [slot[i] EXCEPT !.crashed = FALSE]
    BY <1>5 DEF IInv, TypeOK
  <2>2. DOMAIN slot'[i] = DOMAIN slot[i] /\ ~slot'[i].crashed /\ slot'[i].board = slot[i].board
    BY <2>1 DEF IInv, TypeOK, IsSlot
  <2>3. DOMAIN view' = Env /\ view'[i] = Crashed(slot[i].obs) /\ \A j \in Env : j # i => view'[j] = view[j]
    BY <1>5 DEF IInv, TypeOK
  <2>4. view'[i].env = slot[i].obs.env /\ view'[i].at = slot[i].obs.at
    BY <2>3 DEF Crashed
  <2>5. Empty(i) /\ Sees(slot[i].obs, i)
    BY <1>2, <1>5 DEF InvOf, PipesOf, ViewOf
  <2>6. Empty(i)' /\ Sees(view[i], i)' /\ Home(i)' = asked'[i] /\ OnBoard(i)'
    BY <1>2, <2>0, <2>2, <2>4, <2>5 DEF Empty, Sees, Home, OnBoard
  <2>7. InvOf(i)'
    <3>1. op'.kind # "reload" /\ Heard(i)
      BY <1>1, <1>4, <2>0, IdleIs DEF Heard
    <3> QED BY <1>1, <2>2, <2>6, <3>1, HeardInv
  <2>8. \A j \in Env : j # i => Same(j)
    BY <2>0, <2>1, <2>3 DEF Same
  <2> QED BY <1>3, <2>0, <2>1, <2>2, <2>3, <2>7, <2>8 DEF IInv, TypeOK, IsSlot
<1>6. CASE /\ Answered(i) /\ Head(outbox[i]).kind # "error" /\ outbox' = [outbox EXCEPT ![i] = Tail(@)]
           /\ slot' = [slot EXCEPT ![i].obs = Head(outbox[i]).obs]
           /\ view' = [view EXCEPT ![i] = [env |-> Head(outbox[i]).obs.env,
                                           at |-> Head(outbox[i]).obs.at, over |-> FALSE]]
           /\ op' = Received(i) /\ UNCHANGED <<worker, inbox, asked>>
  <2>1. /\ DOMAIN outbox' = Env /\ outbox'[i] = <<>> /\ inbox[i] = <<>> /\ ~slot[i].crashed
        /\ \A j \in Env : j # i => outbox'[j] = outbox[j]
        /\ Sees(Head(outbox[i]).obs, i)
    BY <1>1, <1>6, ReplyIs
  <2>2. /\ DOMAIN slot' = Env /\ \A j \in Env : j # i => slot'[j] = slot[j]
        /\ IsSlot(slot'[i]) /\ slot'[i].board = slot[i].board /\ slot'[i].crashed = slot[i].crashed
    BY <1>6 DEF IInv, TypeOK, IsSlot
  <2>3. /\ DOMAIN view' = Env /\ \A j \in Env : j # i => view'[j] = view[j]
        /\ view'[i].env = Head(outbox[i]).obs.env /\ view'[i].at = Head(outbox[i]).obs.at
    BY <1>6 DEF IInv, TypeOK
  <2>4. Empty(i)' /\ Sees(view[i], i)' /\ Home(i)' = asked'[i] /\ OnBoard(i)'
    BY <1>2, <1>6, <2>1, <2>2, <2>3 DEF Empty, Sees, Home, OnBoard
  <2>5. InvOf(i)'
    <3>1. op'.kind # "reload" /\ Heard(i)
      BY <1>1, <1>4, <1>6, IdleIs DEF Heard
    <3> QED BY <1>1, <2>1, <2>2, <2>4, <3>1, HeardInv
  <2>6. \A j \in Env : j # i => Same(j)
    BY <1>6, <2>1, <2>2, <2>3 DEF Same
  <2> QED BY <1>3, <1>6, <2>1, <2>2, <2>3, <2>5, <2>6 DEF IInv, TypeOK
<1>7. CASE /\ ~slot[i].crashed /\ Recover(i, FALSE) /\ view' = [view EXCEPT ![i] = Crashed(slot'[i].obs)]
           /\ op' = Received(i) /\ asked' = asked
  <2> DEFINE crashed == FALSE
  <2>0. ~crashed
    BY DEF crashed
  <2> HIDE DEF crashed
  <2>1. Recover(i, crashed)
    BY <1>7 DEF crashed
  <2>2. /\ DOMAIN worker' = Env /\ DOMAIN slot' = Env /\ DOMAIN inbox' = Env /\ DOMAIN outbox' = Env
        /\ \A j \in Env : j # i => /\ worker'[j] = worker[j] /\ slot'[j] = slot[j]
                                 /\ inbox'[j] = inbox[j] /\ outbox'[j] = outbox[j]
        /\ IsWorker(worker'[i]) /\ IsSlot(slot'[i])
    BY <2>1, RecoverIs DEF IInv
  <2>3. DOMAIN view' = Env /\ view'[i] = Crashed(slot'[i].obs) /\ \A j \in Env : j # i => view'[j] = view[j]
    BY <1>7 DEF IInv, TypeOK
  <2>4. view'[i].env = slot'[i].obs.env /\ view'[i].at = slot'[i].obs.at
    BY <2>3 DEF Crashed
  <2>5. op'.kind # "reload"
    BY <1>1, <1>4, <1>7, IdleIs DEF Heard
  <2>6. InvOf(i)'
    BY <1>1, <1>2, <1>7, <2>0, <2>1, <2>4, <2>5, RecoveredInv DEF IInv
  <2>7. \A j \in Env : j # i => Same(j)
    BY <1>7, <2>2, <2>3 DEF Same
  <2> QED BY <1>3, <1>7, <2>2, <2>3, <2>6, <2>7
<1>8. CASE ~slot[i].crashed /\ RecoverFails(i)
  BY <1>1, <1>8, RecoverFailsStep DEF Phases
<1> QED BY <1>5, <1>6, <1>7, <1>8 DEF RecvStep, Raised

LEMMA RecvInv ==
    ASSUME IInv, NEW i \in Env, Recv(i)
    PROVE  IInv'
<1>1. /\ op.kind \in {"reset", "query"} /\ op.phase = "recv" /\ i \in op.todo /\ ~Closing
      /\ i \in op.who /\ op.todo \subseteq op.who /\ op.dead \subseteq op.who /\ i \in Owed
      /\ UNCHANGED <<worker, inbox, slot, asked>>
  BY DEF Recv, At, Closing, IInv, TypeOK, Owed
<1>2. InvOf(i) /\ Home(i) = asked[i] /\ OnBoard(i) /\ ~slot[i].crashed
  BY <1>1 DEF IInv, InvOf, BoardOf, PipesOf
<1>3. ASSUME op' = [op EXCEPT !.phase = "raised"], DOMAIN outbox' = Env, DOMAIN view' = Env, InvOf(i)',
             \A j \in Env : j # i => outbox'[j] = outbox[j] /\ view'[j] = view[j]
      PROVE  IInv'
  <2>1. /\ DOMAIN op' = Fields /\ op'.kind = op.kind /\ op'.who = op.who /\ op'.dead = op.dead
        /\ op'.phase = "raised" /\ op'.todo = op.todo
    BY <1>1, <1>3, RaisedIs DEF IInv, Phases
  <2>2. TypeOK'
    BY <1>1, <1>3, <2>1 DEF IInv, TypeOK, Phases, Closing, IsWorker, IsSlot
  <2>3. ASSUME NEW j \in Env, j # i
        PROVE  InvOf(j)'
    <3>1. Same(j) /\ InvOf(j) /\ op.who # {j}
      BY <1>1, <1>3, <2>3 DEF Same, IInv
    <3> QED BY <1>1, <1>3, <3>1, RestRaised DEF IInv, Phases
  <2> QED BY <1>3, <2>2, <2>3, OneByOne
<1>4. CASE Lost(i) /\ op' = [op EXCEPT !.phase = "raised"] /\ UNCHANGED <<view, outbox>>
  <2>1. Empty(i)
    BY <1>1, <1>4, LostIs
  <2>2. Same(i)
    BY <1>1, <1>4 DEF Same
  <2>3. InvOf(i)'
    BY <1>1, <1>2, <1>4, <2>1, <2>2, RestRaised DEF IInv, Phases
  <2> QED BY <1>3, <1>4, <2>3 DEF IInv, TypeOK
<1>5. CASE /\ Answered(i) /\ outbox' = [outbox EXCEPT ![i] = Tail(@)]
           /\ LET a == Head(outbox[i])
                  bad == IF a.kind = "error" THEN op.dead \cup {i} ELSE op.dead
              IN  /\ op' = IF bad # {} /\ (op.kind = "query" \/ op.todo = {i})
                           THEN [op EXCEPT !.phase = "raised"]
                           ELSE [Received(i) EXCEPT !.dead = bad]
                  /\ view' = IF op.kind = "reset" /\ a.kind = "obs"
                             THEN [view EXCEPT ![i] = [env |-> a.obs.env, at |-> a.obs.at,
                                                       over |-> FALSE]]
                             ELSE view
  <2> DEFINE a == Head(outbox[i])
             bad == IF a.kind = "error" THEN op.dead \cup {i} ELSE op.dead
  <2>1. /\ DOMAIN outbox' = Env /\ outbox'[i] = <<>> /\ inbox[i] = <<>>
        /\ \A j \in Env : j # i => outbox'[j] = outbox[j]
        /\ a.kind \in {"obs", "error"} /\ (a.kind # "error" => Sees(a.obs, i))
    BY <1>1, <1>5, ReplyIs
  <2>2. /\ DOMAIN view' = Env /\ \A j \in Env : j # i => view'[j] = view[j]
        /\ op.kind = "reset" /\ a.kind = "obs" => view'[i].env = a.obs.env /\ view'[i].at = a.obs.at
        /\ ~(op.kind = "reset" /\ a.kind = "obs") => view'[i] = view[i]
    BY <1>5 DEF IInv, TypeOK
  <2>3. /\ Empty(i)' /\ Home(i)' = asked'[i] /\ OnBoard(i)' /\ ~slot'[i].crashed
        /\ op.kind = "reset" /\ a.kind = "obs" => Sees(view[i], i)'
        /\ op.kind = "query" => view'[i] = NoView \/ Sees(view[i], i)'
    <3>1. Empty(i)' /\ Home(i)' = asked'[i] /\ OnBoard(i)' /\ ~slot'[i].crashed
      BY <1>1, <1>2, <2>1 DEF Empty, Home, OnBoard
    <3>2. op.kind = "reset" /\ a.kind = "obs" => Sees(view[i], i)'
      BY <1>1, <2>1, <2>2 DEF Sees
    <3>3. op.kind = "query" => view'[i] = NoView \/ Sees(view[i], i)'
      BY <1>1, <1>2, <2>2 DEF Sees, InvOf, ViewOf
    <3> QED BY <3>1, <3>2, <3>3
  <2>4. CASE op' = [op EXCEPT !.phase = "raised"]
    <3>1. /\ op'.kind = op.kind /\ op'.who = op.who /\ op'.phase = "raised" /\ Owed' = op.who
      BY <1>1, <2>4, RaisedIs DEF IInv, Phases
    <3>2. PipesOf(i)' /\ BoardOf(i)' /\ ViewOf(i)'
      BY <1>1, <2>3, <3>1 DEF PipesOf, BoardOf, ViewOf, Empty
    <3> QED BY <1>3, <2>1, <2>2, <2>4, <3>2 DEF InvOf
  <2>5. CASE /\ ~(bad # {} /\ (op.kind = "query" \/ op.todo = {i}))
             /\ op' = [Received(i) EXCEPT !.dead = bad]
    <3>1. Heard(i) /\ op'.dead = bad
      <4>1. CASE op.todo = {i}
        <5>1. bad = {} /\ op.dead = {} /\ Received(i) = Idle
          BY <2>5, <4>1 DEF Received
        <5>2. op' = Idle
          BY <2>5, <5>1, IdleIs DEF Idle
        <5> QED BY <4>1, <5>1, <5>2, IdleIs DEF Heard
      <4>2. CASE op.todo # {i}
        <5>1. op' = [[op EXCEPT !.todo = op.todo \ {i}] EXCEPT !.dead = bad]
          BY <2>5, <4>2 DEF Received
        <5>2. /\ DOMAIN op' = Fields /\ op'.kind = op.kind /\ op'.who = op.who
              /\ op'.phase = "recv" /\ op'.todo = op.todo \ {i} /\ op'.dead = bad
          BY <1>1, <5>1 DEF IInv, TypeOK, Fields
        <5> QED BY <4>2, <5>2 DEF Heard
      <4> QED BY <4>1, <4>2
    <3>2. op'.kind \in {op.kind, "none"} /\ (op'.kind = "none" => bad = {})
      <4> HIDE DEF bad
      <4> QED BY <1>1, <3>1, IdleIs DEF Heard
    <3>3. TypeOK'
      BY <1>1, <2>1, <2>2, <3>1, <3>2, TypeHeard DEF IInv, TypeOK
    <3>4. InvOf(i)'
      <4>1. \/ view'[i] = NoView \/ Sees(view[i], i)'
            \/ op'.kind \in {"step", "reset"} /\ i \in op'.dead
        BY <1>1, <2>1, <2>3, <3>1, <3>2
      <4> QED BY <1>1, <2>3, <3>1, <3>2, <4>1, HeardInv
    <3>5. ASSUME NEW j \in Env, j # i
          PROVE  InvOf(j)'
      <4>1. Same(j) /\ InvOf(j)
        BY <1>1, <2>1, <2>2, <3>5 DEF Same, IInv
      <4> QED BY <1>1, <3>1, <3>5, <4>1, RestHeard DEF IInv
    <3> QED BY <3>3, <3>4, <3>5, OneByOne
  <2> QED BY <1>5, <2>4, <2>5
<1> QED BY <1>4, <1>5 DEF Recv

(* The call, with the deaths that were noticed so far.                     *)
Marked(o, dead) ==
    /\ DOMAIN o = Fields /\ o.kind = op.kind /\ o.phase = "recv" /\ o.who = op.who
    /\ o.todo = op.todo /\ o.dead = dead

LEMMA AfterReloadIs ==
    ASSUME TypeOK, op.kind = "reload", op.phase = "recv", NEW i \in op.todo, NEW o,
           NEW dead \in {op.dead, op.dead \cup {i}}, Marked(o, dead), op' = AfterReload(o, i)
    PROVE  Heard(i) /\ (op' = Idle \/ op'.dead = dead)
<1>1. /\ DOMAIN o = Fields /\ o.kind = op.kind /\ o.phase = "recv" /\ o.who = op.who
      /\ o.todo = op.todo /\ o.dead = dead
  BY DEF Marked
<1>2. CASE op.todo # {i}
  <2>1. op' = [o EXCEPT !.todo = op.todo \ {i}]
    BY <1>1, <1>2 DEF AfterReload
  <2> QED BY <1>1, <1>2, <2>1 DEF Heard, Fields
<1>3. CASE op.todo = {i} /\ dead = {}
  <2>1. op' = Idle /\ op.dead = {}
    BY <1>1, <1>3 DEF AfterReload
  <2> QED BY <1>3, <2>1 DEF Heard
<1>4. CASE op.todo = {i} /\ dead # {}
  <2>1. op' = [o EXCEPT !.phase = "recover", !.todo = dead]
    BY <1>1, <1>4 DEF AfterReload
  <2> QED BY <1>1, <1>4, <2>1 DEF Heard, Fields
<1> QED BY <1>2, <1>3, <1>4

LEMMA RecvReloadInv ==
    ASSUME IInv, NEW i \in Env, RecvReload(i)
    PROVE  IInv'
<1>1. /\ op.kind = "reload" /\ op.phase = "recv" /\ i \in op.todo /\ ~Closing
      /\ i \in op.who /\ op.dead \subseteq op.who /\ i \in Owed
      /\ UNCHANGED <<worker, inbox, slot, view, asked>>
  BY DEF RecvReload, At, Closing, IInv, TypeOK, Owed
<1>2. InvOf(i) /\ Home(i) = asked[i] /\ view[i] = NoView /\ ~slot[i].crashed
  BY <1>1 DEF IInv, InvOf, BoardOf, ViewOf, PipesOf
<1>3. ASSUME NEW dead \in {op.dead, op.dead \cup {i}}, NEW o, Marked(o, dead), op' = AfterReload(o, i),
             Empty(i)', OnBoard(i), i \in dead => ~worker[i].up, DOMAIN outbox' = Env,
             \A j \in Env : j # i => outbox'[j] = outbox[j]
      PROVE  IInv'
  <2>1. Heard(i) /\ (op' = Idle \/ op'.dead = dead)
    BY <1>1, <1>3, AfterReloadIs DEF IInv
  <2>2. op'.kind # "step" /\ (op'.kind = "reload" => op'.dead = dead)
    BY <1>1, <2>1, IdleIs DEF Heard
  <2>3. TypeOK'
    BY <1>1, <1>3, <2>1, <2>2, TypeHeard DEF IInv, TypeOK
  <2>4. Home(i)' = asked'[i] /\ OnBoard(i)'
    BY <1>1, <1>2, <1>3 DEF Home, OnBoard
  <2>5. InvOf(i)'
    BY <1>1, <1>2, <1>3, <2>1, <2>2, <2>4, HeardInv
  <2>6. ASSUME NEW j \in Env, j # i
        PROVE  InvOf(j)'
    <3>1. Same(j) /\ InvOf(j)
      BY <1>1, <1>3, <2>6 DEF Same, IInv
    <3> QED BY <1>1, <2>1, <2>6, <3>1, RestHeard DEF IInv
  <2> QED BY <2>3, <2>5, <2>6, OneByOne
<1>4. Marked(op, op.dead) /\ Marked([op EXCEPT !.dead = @ \cup {i}], op.dead \cup {i})
  BY <1>1 DEF IInv, TypeOK, Fields, Marked
<1>5. CASE i \in op.dead /\ op' = AfterReload(op, i) /\ UNCHANGED outbox
  <2>1. ~worker[i].up /\ Empty(i)
    BY <1>1, <1>2, <1>5 DEF InvOf, PipesOf
  <2>2. Empty(i)' /\ OnBoard(i)
    BY <1>1, <1>5, <2>1 DEF Empty, OnBoard
  <2> QED BY <1>3, <1>4, <1>5, <2>1, <2>2 DEF IInv, TypeOK
<1>6. CASE Lost(i) /\ op' = AfterReload([op EXCEPT !.dead = @ \cup {i}], i) /\ UNCHANGED outbox
  <2>1. ~worker[i].up /\ Empty(i)
    BY <1>1, <1>6, LostIs
  <2>2. Empty(i)' /\ OnBoard(i)
    BY <1>1, <1>6, <2>1 DEF Empty, OnBoard
  <2> QED BY <1>3, <1>4, <1>6, <2>1, <2>2 DEF IInv, TypeOK
<1>7. CASE /\ i \notin op.dead /\ Answered(i) /\ outbox' = [outbox EXCEPT ![i] = Tail(@)]
           /\ op' = IF Head(outbox[i]).kind = "error" THEN [op EXCEPT !.phase = "raised"]
                    ELSE AfterReload(op, i)
  <2>1. /\ DOMAIN outbox' = Env /\ outbox'[i] = <<>> /\ inbox[i] = <<>>
        /\ \A j \in Env : j # i => outbox'[j] = outbox[j]
    BY <1>1, <1>7, ReplyIs
  <2>2. Empty(i)'
    BY <1>1, <2>1 DEF Empty
  <2>3. CASE Head(outbox[i]).kind = "error"
    <3>1. op' = [op EXCEPT !.phase = "raised"]
      BY <1>7, <2>3
    <3>2. /\ DOMAIN op' = Fields /\ op'.kind = op.kind /\ op'.who = op.who /\ op'.dead = op.dead
          /\ op'.phase = "raised" /\ op'.todo = op.todo /\ Owed' = op.who
      BY <1>1, <3>1, RaisedIs DEF IInv, Phases
    <3>3. TypeOK'
      BY <1>1, <2>1, <3>2 DEF IInv, TypeOK, Phases, Closing, IsWorker, IsSlot
    <3>4. Home(i)' = asked'[i]
      BY <1>1, <1>2 DEF Home
    <3>5. PipesOf(i)' /\ BoardOf(i)' /\ ViewOf(i)'
      BY <1>1, <1>2, <2>2, <3>2, <3>4 DEF PipesOf, BoardOf, ViewOf, Empty
    <3>6. ASSUME NEW j \in Env, j # i
          PROVE  InvOf(j)'
      <4>1. Same(j) /\ InvOf(j)
        BY <1>1, <2>1, <3>6 DEF Same, IInv
      <4> QED BY <1>1, <3>1, <4>1, RestRaised DEF IInv, Phases
    <3> QED BY <3>3, <3>5, <3>6, OneByOne DEF InvOf
  <2>4. CASE Head(outbox[i]).kind # "error"
    <3>1. op' = AfterReload(op, i)
      BY <1>7, <2>4
    <3>2. OnBoard(i)
      BY <1>1, <1>2, <1>7, <2>4 DEF InvOf, BoardOf, Answered
    <3> QED BY <1>3, <1>4, <1>7, <2>1, <2>2, <3>1, <3>2
  <2> QED BY <2>3, <2>4
<1> QED BY <1>5, <1>6, <1>7 DEF RecvReload

LEMMA RecoverReloadInv ==
    ASSUME IInv, NEW i \in Env, RecoverReload(i)
    PROVE  IInv'
<1>1. /\ op.kind = "reload" /\ op.phase = "recover" /\ i \in op.todo /\ ~Closing
      /\ i \in op.who /\ op.todo \subseteq op.who /\ op.dead \subseteq op.who /\ Owed = {}
  BY DEF RecoverReload, Closing, IInv, TypeOK, Owed
<1>2. InvOf(i) /\ view[i] = NoView /\ ~slot[i].crashed
  BY <1>1 DEF IInv, InvOf, ViewOf, PipesOf
<1>3. CASE Recover(i, slot[i].crashed) /\ op' = Received(i) /\ UNCHANGED <<pending, view, asked>>
  <2> DEFINE crashed == slot[i].crashed
  <2>0. ~crashed
    BY <1>2
  <2> HIDE DEF crashed
  <2>1. Recover(i, crashed)
    BY <1>3 DEF crashed
  <2>2. /\ DOMAIN worker' = Env /\ DOMAIN slot' = Env /\ DOMAIN inbox' = Env /\ DOMAIN outbox' = Env
        /\ \A j \in Env : j # i => /\ worker'[j] = worker[j] /\ slot'[j] = slot[j]
                                 /\ inbox'[j] = inbox[j] /\ outbox'[j] = outbox[j]
        /\ IsWorker(worker'[i]) /\ IsSlot(slot'[i])
    BY <2>1, RecoverIs DEF IInv
  <2>3. /\ Owed' = {}
        /\ \/ op' = Idle
           \/ /\ DOMAIN op' = Fields /\ op'.kind = "reload" /\ op'.phase = "recover"
              /\ op'.who = op.who /\ op'.dead = op.dead /\ op'.todo = op.todo \ {i}
    <3>1. CASE op.todo = {i}
      BY <1>3, <3>1, IdleIs DEF Received, Owed
    <3>2. CASE op.todo # {i}
      <4>1. op' = [op EXCEPT !.todo = op.todo \ {i}]
        BY <1>3, <3>2 DEF Received
      <4> QED BY <1>1, <4>1 DEF IInv, TypeOK, Fields, Owed
    <3> QED BY <3>1, <3>2
  <2>4. TypeOK'
    <3>1. \A j \in Env : IsWorker(worker'[j]) /\ IsSlot(slot'[j])
      BY <2>2 DEF IInv, TypeOK
    <3>2. op'.kind \in {"none", "reload"} /\ op'.who \subseteq Env
      BY <1>1, <2>3, IdleIs DEF IInv, TypeOK
    <3> QED BY <1>1, <1>3, <2>2, <2>3, <3>1, <3>2, IdleIs DEF IInv, TypeOK, Phases, Closing, IsWorker, IsSlot
  <2>5. op'.kind \in {"none", "reload"} /\ op'.phase \in {"idle", "recover"} /\ op'.who \in {{}, op.who}
    BY <2>3, IdleIs
  <2>6. InvOf(i)'
    <3>1. Home(i) = asked[i]
      BY <1>1, <1>2 DEF InvOf, BoardOf
    <3>2. /\ worker'[i].up /\ worker'[i].board = Home(i) /\ ~slot'[i].crashed
          /\ Home(i)' = Home(i) /\ inbox'[i] = <<>> /\ outbox'[i] = <<>>
      BY <2>0, <2>1, RecoverIs DEF IInv
    <3>3. PipesOf(i)' /\ BoardOf(i)' /\ ViewOf(i)'
      BY <1>2, <1>3, <2>5, <3>1, <3>2 DEF PipesOf, BoardOf, ViewOf, Empty, OnBoard
    <3> QED BY <3>3 DEF InvOf
  <2>7. ASSUME NEW j \in Env, j # i
        PROVE  InvOf(j)'
    <3>1. Same(j) /\ InvOf(j) /\ Empty(j) /\ ~slot[j].crashed
      BY <1>1, <1>3, <2>2, <2>7 DEF Same, IInv, InvOf, PipesOf
    <3>2. PipesOf(j)'
      BY <1>1, <2>5, <3>1 DEF InvOf, PipesOf, Same, Empty
    <3>3. BoardOf(j)'
      BY <1>1, <2>5, <3>1 DEF InvOf, BoardOf, Same, Empty, OnBoard, Home
    <3>4. ViewOf(j)'
      BY <1>1, <2>5, <3>1 DEF InvOf, ViewOf, Same, Empty, Sees
    <3> QED BY <3>2, <3>3, <3>4 DEF InvOf
  <2> QED BY <2>4, <2>6, <2>7, OneByOne
<1>4. CASE RecoverFails(i)
  BY <1>1, <1>2, <1>4, RecoverFailsStep DEF Phases
<1> QED BY <1>3, <1>4 DEF RecoverReload

-----------------------------------------------------------------------------
(* close(): nothing more is promised.                                      *)
LEMMA ClosingInv ==
    ASSUME IInv, DOMAIN op' = Fields, op'.kind = "close", op'.who \subseteq Env,
           op'.phase \notin {"idle", "raised", "recover"},
           DOMAIN worker' = Env, DOMAIN inbox' = Env, DOMAIN outbox' = Env, UNCHANGED <<slot, view, asked>>,
           \A j \in Env : IsWorker(worker'[j])
    PROVE  IInv'
BY DEF IInv, TypeOK, Closing, IsWorker, IsSlot

LEMMA CloseInv ==
    ASSUME IInv, Close \/ \E i \in Env : Drain(i) \/ SendClose(i) \/ Join(i)
    PROVE  IInv'
<1>1. CASE Close
  <2>1. /\ DOMAIN op' = Fields /\ op'.kind = "close" /\ op'.who \subseteq Env /\ op'.phase \in {"send", "drain"}
        /\ UNCHANGED <<worker, inbox, outbox, slot, view, asked>>
    BY <1>1 DEF Close, Fields, pipes
  <2> QED BY <2>1, ClosingInv DEF IInv, TypeOK
<1>2. ASSUME NEW i \in Env, Drain(i)
      PROVE  IInv'
  <2>1. op.kind = "close" /\ op.phase = "drain" /\ UNCHANGED <<worker, inbox, slot, view, asked>>
    BY <1>2 DEF Drain, At
  <2>2. DOMAIN outbox' = Env
    BY <1>2 DEF Drain, IInv, TypeOK
  <2>3. \/ op' = [op EXCEPT !.phase = "send", !.todo = Env]
        \/ op' = [op EXCEPT !.todo = @ \ {i}]
        \/ op' = [op EXCEPT !.phase = "failed"]
    BY <1>2 DEF Drain
  <2>4. DOMAIN op' = Fields /\ op'.kind = "close" /\ op'.who \subseteq Env /\ op'.phase \in {"send", "drain", "failed"}
    BY <2>1, <2>3 DEF IInv, TypeOK, Fields, Closing
  <2> QED BY <2>1, <2>2, <2>4, ClosingInv DEF IInv, TypeOK
<1>3. ASSUME NEW i \in Env, SendClose(i)
      PROVE  IInv'
  <2>1. op.kind = "close" /\ op.phase = "send" /\ UNCHANGED <<worker, outbox, slot, view, asked>>
    BY <1>3 DEF SendClose, At
  <2>2. DOMAIN inbox' = Env
    BY <1>3 DEF SendClose, Push, IInv, TypeOK
  <2>3. \/ op' = [op EXCEPT !.phase = "recv", !.todo = op.who]
        \/ op' = [op EXCEPT !.todo = @ \ {i}]
        \/ op' = [op EXCEPT !.phase = "failed"]
    BY <1>3 DEF SendClose, Sent
  <2>4. DOMAIN op' = Fields /\ op'.kind = "close" /\ op'.who \subseteq Env /\ op'.phase \in {"send", "recv", "failed"}
    BY <2>1, <2>3 DEF IInv, TypeOK, Fields, Closing
  <2> QED BY <2>1, <2>2, <2>4, ClosingInv DEF IInv, TypeOK
<1>4. ASSUME NEW i \in Env, Join(i)
      PROVE  IInv'
  <2>1. op.kind = "close" /\ op.phase = "recv" /\ UNCHANGED <<inbox, outbox, slot, view, asked>>
    BY <1>4 DEF Join, At, pipes
  <2>2. DOMAIN worker' = Env /\ \A j \in Env : DOMAIN worker'[j] = DOMAIN worker[j]
    BY <1>4 DEF Join, IInv, TypeOK
  <2>3. \/ op' = [op EXCEPT !.phase = "closed"]
        \/ op' = [op EXCEPT !.todo = @ \ {i}]
    BY <1>4 DEF Join
  <2>4. DOMAIN op' = Fields /\ op'.kind = "close" /\ op'.who \subseteq Env /\ op'.phase \in {"closed", "recv"}
    BY <2>1, <2>3 DEF IInv, TypeOK, Fields, Closing
  <2> QED BY <2>1, <2>2, <2>4, ClosingInv DEF IInv, TypeOK, IsWorker
<1> QED BY <1>1, <1>2, <1>3, <1>4

-----------------------------------------------------------------------------
(* The workers.                                                            *)
LEMMA RestStill ==
    ASSUME NEW j \in Env, InvOf(j), Same(j), op' = op
    PROVE  InvOf(j)'
<1>1. PipesOf(j)'
  BY DEF InvOf, PipesOf, Same, Empty, Waiting, Replied, Owed
<1>2. BoardOf(j)'
  BY DEF InvOf, BoardOf, Same, OnBoard, Home, Owed
<1>3. ViewOf(j)'
  BY DEF InvOf, ViewOf, Same, Sees, Owed
<1> QED BY <1>1, <1>2, <1>3 DEF InvOf

(* A worker takes the command of the call and answers it.                  *)
LEMMA AnswerInv ==
    ASSUME IInv, NEW i \in Env, Works(i), NEW w, NEW a, IsWorker(w), w.up, a.kind \in {"obs", "error"},
           DOMAIN worker' = Env, worker'[i] = w, \A j \in Env : j # i => worker'[j] = worker[j],
           outbox' = [outbox EXCEPT ![i] = Append(@, a)],
           \/ w.env = worker[i].env /\ w.at = worker[i].at
           \/ Head(inbox[i]).cmd \in {"step", "reset", "reload"},
           \/ w.board \in {worker[i].board, NoBoard}
           \/ Head(inbox[i]).cmd = "reload" /\ w.board = Head(inbox[i]).board,
           a.kind # "error" => /\ a.obs.env = w.env /\ a.obs.at = w.at
                               /\ Head(inbox[i]).cmd = "reload" => w.board = Head(inbox[i]).board
    PROVE  IInv'
<1>1. /\ inbox[i] # <<>> /\ worker[i].up /\ UNCHANGED <<slot, view, asked, op>>
      /\ inbox' = [inbox EXCEPT ![i] = Tail(@)] /\ Head(inbox[i]).cmd # "close"
  BY DEF Works
<1>2. /\ DOMAIN inbox' = Env /\ DOMAIN outbox' = Env /\ DOMAIN worker' = Env
      /\ inbox'[i] = Tail(inbox[i]) /\ outbox'[i] = Append(outbox[i], a) /\ worker'[i] = w
      /\ \A j \in Env : j # i => inbox'[j] = inbox[j] /\ outbox'[j] = outbox[j] /\ worker'[j] = worker[j]
  BY <1>1 DEF IInv, TypeOK
<1>3. TypeOK'
  <2>1. \A j \in Env : IsWorker(worker'[j]) /\ IsSlot(slot'[j])
    BY <1>1, <1>2 DEF IInv, TypeOK
  <2> QED BY <1>1, <1>2, <2>1 DEF IInv, TypeOK, Closing, IsWorker, IsSlot
<1>4. ASSUME ~Closing
      PROVE  InvOf(i)'
  <2>1. InvOf(i)
    BY <1>4 DEF IInv
  <2>2. i \in Owed /\ outbox[i] = <<>> /\ ~slot[i].crashed /\ \E m : inbox[i] = <<m>> /\ m.cmd = op.kind
    BY <1>1, <2>1 DEF InvOf, PipesOf, Empty, Waiting, Replied
  <2>3. PICK m : inbox[i] = <<m>> /\ m.cmd = op.kind
    BY <2>2
  <2>4. Head(inbox[i]) = m /\ inbox'[i] = <<>> /\ outbox'[i] = <<a>> /\ Head(outbox'[i]) = a
    BY <1>2, <2>2, <2>3
  <2>5. i \in Owed'
    BY <1>1, <2>2 DEF Owed
  <2>6. PipesOf(i)'
    BY <1>1, <1>2, <2>1, <2>2, <2>4, <2>5 DEF InvOf, PipesOf, Empty, Replied
  <2>7. BoardOf(i)'
    <3>1. Home(i)' = Home(i)
      BY <1>1 DEF Home
    <3>2. OnBoard(i)' \/ op.kind = "reload"
      BY <1>1, <1>2, <2>1, <2>2, <2>3, <2>4 DEF InvOf, BoardOf, OnBoard
    <3>3. op.kind = "reload" /\ a.kind # "error" => OnBoard(i)'
      BY <1>1, <1>2, <2>1, <2>3, <2>4 DEF InvOf, BoardOf, OnBoard
    <3> QED BY <1>1, <2>1, <2>4, <2>5, <3>1, <3>2, <3>3 DEF InvOf, BoardOf
  <2>8. ViewOf(i)'
    <3>1. op.kind = "reload" => view[i] = NoView
      BY <1>4, <2>1, <2>2 DEF InvOf, ViewOf, Owed, IInv, TypeOK, Phases
    <3>2. view'[i] = NoView \/ Sees(view[i], i)' \/ (op.kind \in {"step", "reset"} /\ i \in Owed')
      BY <1>1, <1>2, <2>1, <2>3, <2>4, <2>5, <3>1 DEF InvOf, ViewOf, Sees
    <3>3. a.kind # "error" => Sees(Head(outbox[i]).obs, i)'
      BY <1>2, <2>4 DEF Sees
    <3> QED BY <1>1, <2>1, <2>2, <2>4, <3>2, <3>3 DEF InvOf, ViewOf
  <2> QED BY <2>6, <2>7, <2>8 DEF InvOf
<1>5. ASSUME NEW j \in Env, j # i, ~Closing
      PROVE  InvOf(j)'
  <2>1. Same(j) /\ InvOf(j)
    BY <1>1, <1>2, <1>5 DEF Same, IInv
  <2> QED BY <1>1, <2>1, RestStill
<1> QED BY <1>1, <1>3, <1>4, <1>5 DEF IInv, Closing

LEMMA WorkerInv ==
    ASSUME IInv, NEW i \in Env, Worker(i)
    PROVE  IInv'
<1>1. CASE Serve(i)
  <2> DEFINE m == Head(inbox[i])
             w == Changed(i, m)
             a == [kind |-> "obs", obs |-> [env |-> worker'[i].env, at |-> worker'[i].at]]
  <2>1. /\ worker[i].up /\ IsWorker(worker[i]) /\ DOMAIN worker = Env /\ Works(i)
        /\ worker' = [worker EXCEPT ![i] = w] /\ outbox' = [outbox EXCEPT ![i] = Append(@, a)]
    BY <1>1 DEF Serve, Works, IInv, TypeOK
  <2>2. worker'[i] = w /\ DOMAIN worker' = Env /\ \A j \in Env : j # i => worker'[j] = worker[j]
    <3> HIDE DEF w
    <3> QED BY <2>1
  <2>3. /\ IsWorker(w) /\ w.up
        /\ \/ w.env = worker[i].env /\ w.at = worker[i].at
           \/ m.cmd \in {"step", "reset", "reload"}
        /\ m.cmd = "reload" => w.board = m.board
        /\ m.cmd # "reload" => w.board = worker[i].board
    <3>1. CASE m.cmd \in {"step", "reset"}
      <4>1. w = [worker[i] EXCEPT !.at = @ + 1]
        BY <3>1 DEF Changed
      <4> QED BY <2>1, <3>1, <4>1 DEF IsWorker
    <3>2. CASE m.cmd = "reload"
      <4>1. w = [up |-> TRUE, board |-> m.board, seq |-> m.seq, env |-> worker[i].env + 1, at |-> 0]
        BY <3>2 DEF Changed
      <4> QED BY <3>2, <4>1 DEF IsWorker
    <3>3. CASE m.cmd \notin {"step", "reset", "reload"}
      <4>1. w = worker[i]
        BY <3>3 DEF Changed
      <4> QED BY <2>1, <3>3, <4>1
    <3> QED BY <3>1, <3>2, <3>3
  <2>4. a.kind = "obs" /\ a.obs.env = w.env /\ a.obs.at = w.at
    BY <2>2
  <2> HIDE DEF a, w
  <2> QED BY <2>1, <2>2, <2>3, <2>4, AnswerInv
<1>2. CASE ServeFails(i)
  <2> DEFINE m == Head(inbox[i])
             w == IF m.cmd = "reload" THEN [worker[i] EXCEPT !.board = NoBoard] ELSE worker[i]
             a == [kind |-> "error", obs |-> NoObs]
  <2>1. /\ worker[i].up /\ IsWorker(worker[i]) /\ Works(i) /\ outbox' = [outbox EXCEPT ![i] = Append(@, a)]
    BY <1>2 DEF ServeFails, Works, IInv, TypeOK
  <2>2. worker'[i] = w /\ DOMAIN worker' = Env /\ \A j \in Env : j # i => worker'[j] = worker[j]
    BY <1>2 DEF ServeFails, IInv, TypeOK
  <2>3. IsWorker(w) /\ w.up /\ w.env = worker[i].env /\ w.at = worker[i].at /\ w.board \in {worker[i].board, NoBoard}
    BY <2>1 DEF IsWorker
  <2>4. a.kind = "error"
    OBVIOUS
  <2> HIDE DEF a, w
  <2> QED BY <2>1, <2>2, <2>3, <2>4, AnswerInv
<1>3. ASSUME worker' = [worker EXCEPT ![i].up = FALSE], inbox' = [inbox EXCEPT ![i] = <<>>],
             UNCHANGED <<outbox, slot, pending, view, asked, op>>
      PROVE  IInv'
  <2>1. /\ DOMAIN worker' = Env /\ \A j \in Env : j # i => worker'[j] = worker[j]
        /\ worker'[i] = [worker[i] EXCEPT !.up = FALSE]
    BY <1>3 DEF IInv, TypeOK
  <2>2. IsWorker(worker'[i]) /\ ~worker'[i].up
    BY <2>1 DEF IInv, TypeOK, IsWorker
  <2>3. DOMAIN inbox' = Env /\ inbox'[i] = <<>> /\ \A j \in Env : j # i => inbox'[j] = inbox[j]
    BY <1>3 DEF IInv, TypeOK
  <2>4. TypeOK'
    <3>1. \A j \in Env : IsWorker(worker'[j]) /\ IsSlot(slot'[j])
      BY <1>3, <2>1, <2>2 DEF IInv, TypeOK
    <3>2. UNCHANGED <<outbox, slot, view, asked, op>>
      BY <1>3
    <3> QED BY <2>1, <2>3, <3>1, <3>2 DEF IInv, TypeOK, Closing, IsWorker, IsSlot
  <2>5. ASSUME ~Closing
        PROVE  InvOf(i)'
    <3>1. InvOf(i) /\ UNCHANGED <<outbox, slot, view, asked, op>>
      BY <1>3, <2>5 DEF IInv
    <3>2. Owed' = Owed /\ Home(i)' = Home(i)
      BY <3>1 DEF Owed, Home
    <3>3. PipesOf(i)'
      BY <2>2, <2>3, <3>1, <3>2 DEF InvOf, PipesOf, Empty, Waiting, Replied
    <3>4. BoardOf(i)'
      BY <2>2, <2>3, <3>1, <3>2 DEF InvOf, BoardOf, OnBoard
    <3>5. ViewOf(i)'
      BY <2>2, <2>3, <3>1, <3>2 DEF InvOf, ViewOf, Sees
    <3> QED BY <3>3, <3>4, <3>5 DEF InvOf
  <2>6. ASSUME NEW j \in Env, j # i, ~Closing
        PROVE  InvOf(j)'
    <3>1. Same(j) /\ InvOf(j) /\ op' = op
      BY <1>3, <2>1, <2>3, <2>6 DEF Same, IInv
    <3> QED BY <3>1, RestStill
  <2>7. Closing' = Closing
    BY <1>3 DEF Closing
  <2> QED BY <2>4, <2>5, <2>6, <2>7 DEF IInv
<1>4. CASE ServeClose(i) \/ Die(i)
  BY <1>3, <1>4 DEF ServeClose, Die
<1> QED BY <1>1, <1>2, <1>4 DEF Worker

-----------------------------------------------------------------------------
(* The pool.                                                               *)
LEMMA InitInv == Init => IInv
<1> SUFFICES ASSUME Init PROVE IInv
  OBVIOUS
<1>1. op.kind = "none" /\ op.phase = "idle" /\ DOMAIN op = Fields /\ op.who = {} /\ op.todo = {} /\ op.dead = {}
  BY IdleIs DEF Init
<1>2. /\ DOMAIN worker = Env /\ DOMAIN slot = Env /\ DOMAIN inbox = Env /\ DOMAIN outbox = Env
      /\ DOMAIN view = Env /\ asked \in [Env -> Boards]
  BY VecAssumption DEF Init
<1>3. ASSUME NEW i \in Env
      PROVE  /\ IsWorker(worker[i]) /\ worker[i].board = FirstBoard /\ worker[i].up
             /\ IsSlot(slot[i]) /\ slot[i].board = NoBoard /\ ~slot[i].crashed
             /\ inbox[i] = <<>> /\ outbox[i] = <<>> /\ view[i] = NoView /\ asked[i] = FirstBoard
  <2>1. IsWorker(worker[i]) /\ worker[i].board = FirstBoard /\ worker[i].up
    BY DEF Init, IsWorker
  <2>2. slot[i] = [board |-> NoBoard, seq |-> 0, obs |-> NoObs, crashed |-> FALSE]
    BY DEF Init
  <2>3. IsSlot(slot[i]) /\ slot[i].board = NoBoard /\ ~slot[i].crashed
    BY <2>2 DEF IsSlot
  <2>4. inbox[i] = <<>> /\ outbox[i] = <<>> /\ view[i] = NoView /\ asked[i] = FirstBoard
    BY DEF Init
  <2> QED BY <2>1, <2>3, <2>4
<1>4. TypeOK
  BY <1>1, <1>2, <1>3 DEF TypeOK, Phases, Closing
<1>5. ASSUME NEW i \in Env
      PROVE  InvOf(i)
  BY <1>1, <1>3 DEF InvOf, PipesOf, BoardOf, ViewOf, Empty, Home, OnBoard
<1> QED BY <1>4, <1>5 DEF IInv

LEMMA StutterInv == IInv /\ UNCHANGED vars => IInv'
<1> SUFFICES ASSUME IInv, UNCHANGED vars PROVE IInv'
  OBVIOUS
<1>1. UNCHANGED <<worker, inbox, outbox, slot, pending, view, asked, op>>
  BY DEF vars, pipes
<1>2. TypeOK' /\ Closing' = Closing
  BY <1>1 DEF IInv, TypeOK, Closing, IsWorker, IsSlot
<1>3. ASSUME NEW j \in Env, ~Closing
      PROVE  InvOf(j)'
  <2>1. Same(j) /\ InvOf(j)
    BY <1>1, <1>3 DEF Same, IInv
  <2> QED BY <1>1, <2>1, RestStill
<1> QED BY <1>2, <1>3 DEF IInv

LEMMA NextInv == IInv /\ [Next]_vars => IInv'
<1> SUFFICES ASSUME IInv, Next \/ UNCHANGED vars PROVE IInv'
  OBVIOUS
<1>1. ASSUME NEW who \in SUBSET Env, StepAsync(who) \/ Reset(who) \/ Query(who)
      PROVE  IInv'
  <2>1. op = Idle /\ UNCHANGED <<worker, pipes, slot, view, asked>>
    BY <1>1 DEF StepAsync, Reset, Query
  <2>2. PICK kind \in {"step", "reset", "query"} : Begin(kind, who)
    BY <1>1 DEF StepAsync, Reset, Query
  <2> QED BY <2>1, <2>2, BeginStep
<1>2. ASSUME NEW boards \in [Env -> Boards], Reload(boards)
      PROVE  IInv'
  BY <1>2, ReloadStep
<1>3. ASSUME NEW i \in Env, NEW b \in Boards, Reload([j \in {i} |-> b])
      PROVE  IInv'
  <2> DEFINE boards == [j \in {i} |-> b]
  <2>1. boards \in [{i} -> Boards] /\ {i} \in SUBSET Env /\ Reload(boards)
    BY <1>3
  <2> HIDE DEF boards
  <2> QED BY <2>1, ReloadStep
<1>4. CASE Client
  BY <1>1, <1>2, <1>3, <1>4, RebuildStep, GiveUpStep, CloseInv DEF Client
<1>5. CASE Parent
  BY <1>5, SendStepInv, SendInv, SendReloadInv, RecvStepInv, RecvInv, RecvReloadInv, RecoverReloadInv,
     CloseInv DEF Parent
<1> QED BY <1>4, <1>5, WorkerInv, StutterInv DEF Next

LEMMA IInvAlways == Spec => []IInv
BY InitInv, NextInv, PTL DEF Spec

LEMMA IdleInv == IInv => PipesDrained /\ ViewIsCurrent /\ BoardIsRequested
<1> SUFFICES ASSUME IInv, op = Idle, NEW i \in Env
             PROVE  /\ inbox[i] = <<>> /\ outbox[i] = <<>>
                    /\ worker[i].up /\ view[i] # NoView => [env |-> view[i].env, at |-> view[i].at] = ObsOf(i)
                    /\ worker[i].up /\ worker[i].board # NoBoard => worker[i].board = asked[i]
  BY DEF PipesDrained, ViewIsCurrent, BoardIsRequested
<1>1. ~Closing
  BY IdleIs DEF Closing
<1>2. Empty(i) /\ OnBoard(i) /\ (view[i] = NoView \/ Sees(view[i], i))
  BY <1>1, BetweenCalls
<1> QED BY <1>2 DEF Empty, OnBoard, Sees, ObsOf

(* Whatever died, failed or was respawned during the calls before, no      *)
(* answer of theirs is left for the next call to read as its own.          *)
THEOREM PipesTheorem == Spec => []PipesDrained
BY IInvAlways, IdleInv, PTL

(* Between calls the observation the client holds of a live worker is of   *)
(* the state its environment is in, so that the next action is taken on    *)
(* what was seen.                                                          *)
THEOREM ViewTheorem == Spec => []ViewIsCurrent
BY IInvAlways, IdleInv, PTL

(* Between calls a live worker is on the board its client asked for last,  *)
(* even if it died while the boards were being swapped.                    *)
THEOREM BoardTheorem == Spec => []BoardIsRequested
BY IInvAlways, IdleInv, PTL

-----------------------------------------------------------------------------
(***************************************************************************)
(* What a client is told of a new environment.  A worker is replaced only  *)
(* by a call that does not show it the new environment (a reload, a        *)
(* rebuild), raises, or keeps its first observation for the answer.        *)
(***************************************************************************)

EnvOf(i) ==
    /\ outbox[i] # <<>> /\ Head(outbox[i]).kind # "error" =>
         Head(outbox[i]).obs.env = worker[i].env
    /\ slot[i].crashed => slot[i].obs.env = worker[i].env
    /\ \/ view[i] = NoView \/ view[i].env = worker[i].env
       \/ slot[i].crashed
       \/ op.kind = "step" /\ op.phase = "raised"

EnvInv == ~Closing => \A i \in Env : EnvOf(i)

\* What is told of environment i in this step, and what holds of it after.
Told(i) ==
    /\ ~Closing' => EnvOf(i)'
    /\ view[i] # NoView /\ view'[i].env \notin {view[i].env, NoView.env} => view'[i].over

(* What a step leaves alone.                                               *)
LEMMA ToldSame ==
    ASSUME NEW i, ~Closing => EnvOf(i), Closing => Closing',
           worker'[i].env = worker[i].env, slot'[i].crashed = slot[i].crashed,
           slot'[i].obs = slot[i].obs, outbox'[i] \in {outbox[i], <<>>},
           view'[i] \in {view[i], NoView},
           op.kind = "step" /\ op.phase = "raised" => Closing' \/ view'[i] = NoView
    PROVE  Told(i)
BY DEF Told, EnvOf

(* A worker that is respawned in a call.                                   *)
LEMMA ToldRecovered ==
    ASSUME TypeOK, NEW i \in Env, NEW crashed, Recover(i, crashed),
           \/ crashed /\ view'[i] = view[i]
           \/ view'[i] = NoView
           \/ view'[i] = Crashed(slot'[i].obs)
    PROVE  Told(i)
<1>1. /\ slot'[i].crashed = crashed /\ slot'[i].obs.env = worker'[i].env /\ outbox'[i] = <<>>
  BY RecoverIs
<1>2. Crashed(slot'[i].obs).env = slot'[i].obs.env /\ Crashed(slot'[i].obs).over
  BY DEF Crashed
<1> QED BY <1>1, <1>2 DEF Told, EnvOf

(* ... or that the call fails to respawn.                                  *)
LEMMA ToldUnrecovered ==
    ASSUME TypeOK, NEW i \in Env, RecoverFails(i), ~slot[i].crashed,
           op.kind = "step" \/ view[i] = NoView
    PROVE  Told(i)
<1>1. /\ view' = view /\ op'.phase = "raised" /\ op'.kind = op.kind
  BY DEF RecoverFails, TypeOK, Fields
<1>2. outbox'[i] = <<>>
  BY DEF RecoverFails, FreshPipes
<1>3. ~slot'[i].crashed
  BY DEF RecoverFails, TypeOK, IsSlot
<1> QED BY <1>1, <1>2, <1>3 DEF Told, EnvOf

(* The other workers, when one is respawned.                               *)
LEMMA OthersUnrecovered ==
    ASSUME TypeOK, NEW i \in Env, RecoverFails(i)
    PROVE  \A j \in Env : j # i => /\ worker'[j] = worker[j] /\ slot'[j] = slot[j]
                                 /\ inbox'[j] = inbox[j] /\ outbox'[j] = outbox[j]
BY DEF RecoverFails, FreshPipes, TypeOK

(* The client.                                                             *)
LEMMA ToldClient ==
    ASSUME IInv, EnvInv, Client, NEW j \in Env
    PROVE  Told(j)
<1>0. ~Closing => EnvOf(j)
  BY DEF EnvInv
<1>1. ASSUME NEW who \in SUBSET Env, StepAsync(who) \/ Reset(who) \/ Query(who)
      PROVE  Told(j)
  <2>1. op = Idle /\ UNCHANGED <<worker, pipes, slot, view>>
    BY <1>1 DEF StepAsync, Reset, Query
  <2> QED BY <1>0, <2>1, IdleIs, ToldSame DEF pipes, Closing
<1>2. ASSUME NEW who \in SUBSET Env, NEW boards \in [who -> Boards], Reload(boards)
      PROVE  Told(j)
  <2>1. op = Idle /\ UNCHANGED <<worker, pipes, slot>> /\ view'[j] \in {view[j], NoView}
    BY <1>2 DEF Reload
  <2> QED BY <1>0, <2>1, IdleIs, ToldSame DEF pipes, Closing
<1>3. ASSUME NEW who \in SUBSET Env, Rebuild(who)
      PROVE  Told(j)
  <2>1. op = Idle \/ (op.phase = "raised" /\ who = Env)
    BY <1>3 DEF Rebuild
  <2>2. CASE j \in who
    <3>1. view'[j] = NoView /\ outbox'[j] = <<>> /\ slot'[j] = Renewed(j)
      BY <1>3, <2>2 DEF Rebuild, FreshPipes
    <3>2. ~Renewed(j).crashed
      BY DEF Renewed, IInv, TypeOK, IsSlot
    <3> QED BY <3>1, <3>2 DEF Told, EnvOf
  <2>3. CASE j \notin who
    <3>1. op = Idle
      BY <2>1, <2>3
    <3>2. /\ worker'[j] = worker[j] /\ slot'[j] = slot[j] /\ view'[j] = view[j]
          /\ outbox'[j] = outbox[j]
      BY <1>3, <2>3 DEF Rebuild, FreshPipes
    <3> QED BY <1>0, <3>1, <3>2, IdleIs, ToldSame DEF Closing
  <2> QED BY <2>2, <2>3
<1>4. CASE GiveUp
  <2>1. /\ op.kind = "query" /\ UNCHANGED <<worker, pipes, slot>> /\ view'[j] \in {view[j], NoView}
    BY <1>4 DEF GiveUp
  <2> QED BY <1>0, <2>1, ToldSame DEF pipes, Closing
<1>5. CASE Close
  <2>1. op'.kind = "close" /\ UNCHANGED <<worker, pipes, slot, view>>
    BY <1>5 DEF Close
  <2> QED BY <1>0, <2>1, ToldSame DEF pipes, Closing
<1>6. ASSUME NEW b \in Boards, NEW i \in Env, Reload([k \in {i} |-> b])
      PROVE  Told(j)
  <2> DEFINE boards == [k \in {i} |-> b]
  <2>1. boards \in [{i} -> Boards] /\ {i} \in SUBSET Env /\ Reload(boards)
    BY <1>6
  <2> HIDE DEF boards
  <2> QED BY <1>2, <2>1
<1>7. ASSUME NEW boards \in [Env -> Boards], Reload(boards)
      PROVE  Told(j)
  BY <1>2, <1>7
<1> QED BY <1>1, <1>3, <1>4, <1>5, <1>6, <1>7 DEF Client

(* A step.                                                                 *)
LEMMA ToldSendStep ==
    ASSUME IInv, EnvInv, NEW i \in Env, SendStep(i), NEW j \in Env
    PROVE  Told(j)
<1>1. /\ op.kind = "step" /\ op.phase = "send" /\ i \in op.todo /\ ~Closing
      /\ view' = view /\ TypeOK
  BY DEF SendStep, At, Closing, IInv, RecoverFails
<1>2. EnvOf(j) /\ EnvOf(i) /\ ~slot[i].crashed
  BY <1>1 DEF EnvInv, IInv, InvOf, PipesOf, Owed
<1>3. CASE UNCHANGED <<worker, outbox, slot>>
  BY <1>1, <1>2, <1>3, ToldSame
<1>4. CASE Recover(i, TRUE)
  <2>1. CASE j = i
    BY <1>1, <1>4, <2>1, ToldRecovered
  <2>2. CASE j # i
    <3>1. worker'[j] = worker[j] /\ slot'[j] = slot[j] /\ outbox'[j] = outbox[j]
      BY <1>1, <1>4, <2>2, RecoverIs
    <3> QED BY <1>1, <1>2, <3>1, ToldSame
  <2> QED BY <2>1, <2>2
<1>5. CASE RecoverFails(i)
  <2>1. CASE j = i
    BY <1>1, <1>2, <1>5, <2>1, ToldUnrecovered
  <2>2. CASE j # i
    <3>1. worker'[j] = worker[j] /\ slot'[j] = slot[j] /\ outbox'[j] = outbox[j]
      BY <1>1, <1>5, <2>2, OthersUnrecovered
    <3> QED BY <1>1, <1>2, <3>1, ToldSame
  <2> QED BY <2>1, <2>2
<1> QED BY <1>3, <1>4, <1>5 DEF SendStep

LEMMA ToldRecvStep ==
    ASSUME IInv, EnvInv, NEW i \in Env, RecvStep(i), NEW j \in Env
    PROVE  Told(j)
<1>1. /\ op.kind = "step" /\ op.phase = "recv" /\ i \in op.todo /\ ~Closing /\ TypeOK
  BY DEF RecvStep, At, Closing, IInv
<1>2. EnvOf(j) /\ EnvOf(i) /\ IsSlot(slot[i])
  BY <1>1 DEF EnvInv, TypeOK
<1>3. ASSUME j # i, worker'[j] = worker[j], slot'[j] = slot[j], outbox'[j] = outbox[j],
             view'[j] = view[j]
      PROVE  Told(j)
  BY <1>1, <1>2, <1>3, ToldSame
<1>4. CASE /\ slot[i].crashed /\ slot' = [slot EXCEPT ![i].crashed = FALSE]
           /\ view' = [view EXCEPT ![i] = Crashed(slot[i].obs)]
           /\ UNCHANGED <<worker, outbox>>
  <2>1. CASE j = i
    <3>1. /\ ~slot'[i].crashed /\ view'[i] = Crashed(slot[i].obs)
          /\ worker'[i] = worker[i] /\ outbox'[i] = outbox[i]
      BY <1>1, <1>2, <1>4 DEF TypeOK, IsSlot
    <3>2. view'[i].env = worker[i].env /\ view'[i].over
      BY <1>2, <1>4, <3>1 DEF Crashed, EnvOf
    <3> QED BY <1>2, <2>1, <3>1, <3>2 DEF Told, EnvOf
  <2>2. CASE j # i
    BY <1>1, <1>3, <1>4, <2>2 DEF TypeOK
  <2> QED BY <2>1, <2>2
<1>5. CASE /\ ~slot[i].crashed /\ Answered(i) /\ ~Raised(Head(outbox[i]))
           /\ outbox' = [outbox EXCEPT ![i] = Tail(@)]
           /\ slot' = [slot EXCEPT ![i].obs = Head(outbox[i]).obs]
           /\ view' = [view EXCEPT ![i] = [env |-> Head(outbox[i]).obs.env,
                                           at |-> Head(outbox[i]).obs.at, over |-> FALSE]]
           /\ UNCHANGED worker
  <2>1. CASE j = i
    <3>1. /\ ~slot'[i].crashed /\ view'[i].env = Head(outbox[i]).obs.env
          /\ worker'[i] = worker[i] /\ outbox'[i] = <<>>
      BY <1>1, <1>2, <1>5, ReplyIs DEF TypeOK, IsSlot
    <3>2. Head(outbox[i]).obs.env = worker[i].env
      BY <1>2, <1>5 DEF EnvOf, Answered, Raised
    <3>3. view[i] = NoView \/ view[i].env = worker[i].env
      BY <1>1, <1>2, <1>5 DEF EnvOf
    <3> QED BY <2>1, <3>1, <3>2, <3>3 DEF Told, EnvOf
  <2>2. CASE j # i
    BY <1>1, <1>3, <1>5, <2>2 DEF TypeOK
  <2> QED BY <2>1, <2>2
<1>6. CASE Recover(i, FALSE) /\ view' = [view EXCEPT ![i] = Crashed(slot'[i].obs)]
  <2>1. CASE j = i
    BY <1>1, <1>6, <2>1, ToldRecovered DEF TypeOK
  <2>2. CASE j # i
    <3>1. worker'[j] = worker[j] /\ slot'[j] = slot[j] /\ outbox'[j] = outbox[j]
      BY <1>1, <1>6, <2>2, RecoverIs
    <3>2. view'[j] = view[j]
      BY <1>1, <1>6, <2>2 DEF TypeOK
    <3> QED BY <1>3, <2>2, <3>1, <3>2
  <2> QED BY <2>1, <2>2
<1>7. CASE RecoverFails(i) /\ ~slot[i].crashed
  <2>1. CASE j = i
    BY <1>1, <1>7, <2>1, ToldUnrecovered
  <2>2. CASE j # i
    <3>1. view' = view
      BY <1>7 DEF RecoverFails
    <3> QED BY <1>1, <1>3, <1>7, <2>2, <3>1, OthersUnrecovered
  <2> QED BY <2>1, <2>2
<1> QED BY <1>4, <1>5, <1>6, <1>7 DEF RecvStep, pipes

(* A reset, which replaces no worker, or a query.                          *)
LEMMA ToldCall ==
    ASSUME IInv, EnvInv, NEW i \in Env, Send(i) \/ Recv(i), NEW j \in Env
    PROVE  Told(j)
<1>1. /\ op.kind \in {"reset", "query"} /\ ~Closing /\ TypeOK /\ UNCHANGED <<worker, slot>>
  BY DEF Send, Recv, At, Closing, IInv
<1>2. EnvOf(j) /\ EnvOf(i) /\ ~slot[i].crashed
  BY <1>1 DEF EnvInv, IInv, InvOf, PipesOf
<1>3. CASE view'[j] = view[j] /\ outbox'[j] \in {outbox[j], <<>>}
  BY <1>1, <1>2, <1>3, ToldSame
<1>4. CASE /\ j = i /\ Answered(i) /\ outbox'[i] = <<>> /\ Head(outbox[i]).kind = "obs"
           /\ view'[i] = [env |-> Head(outbox[i]).obs.env, at |-> Head(outbox[i]).obs.at,
                          over |-> FALSE]
  <2>1. view'[i].env = worker[i].env
    BY <1>2, <1>4 DEF EnvOf, Answered
  <2>2. view[i] = NoView \/ view[i].env = worker[i].env
    BY <1>1, <1>2 DEF EnvOf
  <2>3. EnvOf(i)'
    BY <1>1, <1>2, <1>4, <2>1 DEF EnvOf
  <2>4. view[i] # NoView => view'[i].env = view[i].env
    BY <2>1, <2>2
  <2> QED BY <1>4, <2>3, <2>4 DEF Told
<1>5. CASE Send(i)
  BY <1>3, <1>5 DEF Send
<1>6. CASE Lost(i) /\ UNCHANGED <<view, outbox>>
  BY <1>3, <1>6
<1>7. CASE Answered(i) /\ Recv(i)
  <2>1. /\ DOMAIN outbox = Env /\ DOMAIN view = Env /\ outbox' = [outbox EXCEPT ![i] = Tail(@)]
    BY <1>1, <1>7 DEF Recv, TypeOK, Lost, Answered
  <2>2. outbox'[i] = <<>> /\ \A k \in Env : k # i => outbox'[k] = outbox[k]
    BY <1>1, <1>7, <2>1, ReplyIs
  <2>3. \/ view' = view
        \/ /\ Head(outbox[i]).kind = "obs"
           /\ view' = [view EXCEPT ![i] = [env |-> Head(outbox[i]).obs.env,
                                           at |-> Head(outbox[i]).obs.at, over |-> FALSE]]
    BY <1>7 DEF Recv, Lost, Answered
  <2> QED BY <1>3, <1>4, <1>7, <2>1, <2>2, <2>3
<1> QED BY <1>5, <1>6, <1>7 DEF Recv

(* A reload shows the client nothing until the next reset.                 *)
LEMMA ToldReload ==
    ASSUME IInv, EnvInv, NEW i \in Env, SendReload(i) \/ RecvReload(i) \/ RecoverReload(i),
           NEW j \in Env
    PROVE  Told(j)
<1>1. /\ op.kind = "reload" /\ ~Closing /\ TypeOK /\ i \in op.who /\ view' = view
  BY DEF SendReload, RecvReload, RecoverReload, At, Closing, IInv, TypeOK, RecoverFails
<1>2. EnvOf(j) /\ ~slot[i].crashed /\ view[i] = NoView
  BY <1>1 DEF EnvInv, IInv, InvOf, PipesOf, ViewOf
<1>3. ASSUME worker'[j] = worker[j], slot'[j].obs = slot[j].obs,
             slot'[j].crashed = slot[j].crashed, outbox'[j] \in {outbox[j], <<>>}
      PROVE  Told(j)
  BY <1>1, <1>2, <1>3, ToldSame
<1>4. CASE SendReload(i)
  <2>1. slot'[j].obs = slot[j].obs /\ slot'[j].crashed = slot[j].crashed
    BY <1>1, <1>4 DEF SendReload, TypeOK, IsSlot
  <2> QED BY <1>3, <1>4, <2>1 DEF SendReload
<1>5. CASE RecvReload(i)
  <2>1. outbox'[j] \in {outbox[j], <<>>}
    <3>1. CASE UNCHANGED outbox
      BY <3>1
    <3>2. CASE Answered(i) /\ outbox' = [outbox EXCEPT ![i] = Tail(@)]
      BY <1>1, <3>2, ReplyIs
    <3> QED BY <1>5, <3>1, <3>2 DEF RecvReload
  <2> QED BY <1>3, <1>5, <2>1 DEF RecvReload
<1>6. CASE RecoverReload(i) /\ Recover(i, slot[i].crashed)
  <2>1. CASE j = i
    BY <1>1, <1>2, <1>6, <2>1, ToldRecovered
  <2>2. CASE j # i
    BY <1>1, <1>3, <1>6, <2>2, RecoverIs
  <2> QED BY <2>1, <2>2
<1>7. CASE RecoverReload(i) /\ RecoverFails(i)
  <2>1. CASE j = i
    BY <1>1, <1>2, <1>7, <2>1, ToldUnrecovered
  <2>2. CASE j # i
    BY <1>1, <1>3, <1>7, <2>2, OthersUnrecovered
  <2> QED BY <2>1, <2>2
<1> QED BY <1>4, <1>5, <1>6, <1>7 DEF RecoverReload

(* A worker builds a new environment only for a reload.                    *)
LEMMA ToldWorker ==
    ASSUME IInv, EnvInv, NEW i \in Env, Worker(i), NEW j \in Env
    PROVE  Told(j)
<1>1. /\ UNCHANGED <<slot, view, op>> /\ TypeOK
      /\ \A k \in Env : k # i => worker'[k] = worker[k] /\ outbox'[k] = outbox[k]
  BY DEF Worker, Serve, ServeFails, ServeClose, Die, Works, IInv, TypeOK
<1>2. CASE Closing
  BY <1>1, <1>2 DEF Told, Closing
<1>3. CASE ~Closing /\ j # i
  <2>1. EnvOf(j)
    BY <1>3 DEF EnvInv
  <2> QED BY <1>1, <1>3, <2>1 DEF Told, EnvOf, Closing
<1>4. CASE ~Closing /\ j = i /\ (ServeClose(i) \/ Die(i))
  <2>1. worker'[i].env = worker[i].env /\ outbox' = outbox /\ EnvOf(i)
    BY <1>1, <1>4 DEF ServeClose, Die, EnvInv, TypeOK, IsWorker
  <2> QED BY <1>1, <1>4, <2>1 DEF Told, EnvOf, Closing
<1>5. CASE ~Closing /\ j = i /\ (Serve(i) \/ ServeFails(i))
  <2>1. Works(i) /\ inbox[i] # <<>> /\ EnvOf(i) /\ InvOf(i)
    BY <1>5 DEF Serve, ServeFails, Works, EnvInv, IInv
  <2>2. /\ outbox[i] = <<>> /\ i \in Owed /\ ~slot[i].crashed
        /\ \E m : inbox[i] = <<m>> /\ m.cmd = op.kind
    BY <2>1 DEF InvOf, PipesOf, Empty, Waiting, Replied
  <2>3. Head(inbox[i]).cmd = op.kind
    BY <2>2
  <2>4. op.kind = "reload" => view[i] = NoView
    BY <1>1, <1>5, <2>1, <2>2 DEF InvOf, ViewOf, Owed, TypeOK, Phases
  <2>5. worker'[i].env = worker[i].env \/ op.kind = "reload"
    <3>1. CASE ServeFails(i)
      BY <1>1, <3>1 DEF ServeFails, TypeOK, IsWorker
    <3>2. CASE Serve(i)
      <4>1. worker'[i] = Changed(i, Head(inbox[i]))
        BY <1>1, <3>2 DEF Serve, TypeOK
      <4>2. CASE Head(inbox[i]).cmd \in {"step", "reset"}
        BY <1>1, <4>1, <4>2 DEF Changed, TypeOK, IsWorker
      <4>3. CASE Head(inbox[i]).cmd \notin {"step", "reset", "reload"}
        BY <1>1, <4>1, <4>3 DEF Changed, TypeOK, IsWorker
      <4> QED BY <2>3, <4>2, <4>3
    <3> QED BY <1>5, <3>1, <3>2
  <2>6. \E a : /\ outbox'[i] = <<a>>
               /\ a.kind # "error" => a.obs.env = worker'[i].env
    <3>1. CASE Serve(i)
      BY <1>1, <2>2, <3>1 DEF Serve, TypeOK
    <3>2. CASE ServeFails(i)
      BY <1>1, <2>2, <3>2 DEF ServeFails, TypeOK
    <3> QED BY <1>5, <3>1, <3>2
  <2>7. EnvOf(i)'
    BY <1>1, <2>1, <2>2, <2>4, <2>5, <2>6 DEF EnvOf
  <2> QED BY <1>1, <1>5, <2>7 DEF Told
<1> QED BY <1>2, <1>3, <1>4, <1>5 DEF Worker

LEMMA ToldNext == IInv /\ EnvInv /\ [Next]_vars => \A i \in Env : Told(i)
<1> SUFFICES ASSUME IInv, EnvInv, Next \/ UNCHANGED vars, NEW j \in Env PROVE Told(j)
  OBVIOUS
<1>1. CASE UNCHANGED vars
  BY <1>1 DEF vars, pipes, Told, EnvInv, EnvOf, Closing
<1>2. ASSUME NEW i \in Env, Drain(i) \/ SendClose(i) \/ Join(i)
      PROVE  Told(j)
  <2>1. op.kind = "close" /\ view' = view
    BY <1>2 DEF Drain, SendClose, Join, At
  <2>2. op'.kind = "close"
    BY <1>2, <2>1 DEF Drain, SendClose, Join, Sent, IInv, TypeOK, Fields
  <2> QED BY <2>1, <2>2 DEF Told, Closing
<1>3. CASE Parent
  BY <1>2, <1>3, ToldSendStep, ToldRecvStep, ToldCall, ToldReload DEF Parent
<1> QED BY <1>1, <1>3, ToldClient, ToldWorker DEF Next

(* A client that is shown another environment than before is told that the *)
(* episode has ended, wherever the worker died.                            *)
THEOREM UnbrokenTheorem == Spec => EpisodeUnbroken
<1>1. Init => EnvInv
  BY DEF Init, EnvInv, EnvOf
<1>2. IInv /\ EnvInv /\ [Next]_vars => EnvInv'
  BY ToldNext DEF EnvInv, Told
<1>3. IInv /\ EnvInv /\ [Next]_vars =>
        [\A i \in Env :
           view[i] # NoView /\ view'[i].env \notin {view[i].env, NoView.env} => view'[i].over]_vars
  BY ToldNext DEF Told
<1> QED BY <1>1, <1>2, <1>3, IInvAlways, PTL DEF Spec, EpisodeUnbroken

-----------------------------------------------------------------------------
(***************************************************************************)
(* Seed offsets.  The one a slot remembers is at least that of its worker, *)
(* and a reload on its way to a worker carries a later one.                *)
(***************************************************************************)

Msg == [cmd : {"step", "reset", "query", "reload", "close"}, board : Boards \cup {NoBoard},
        seq : Nat]

Later(m, i) == worker[i].seq < m.seq /\ m.seq <= slot[i].seq

SeqOf(i) ==
    /\ worker[i].seq \in Nat /\ slot[i].seq \in Nat /\ worker[i].seq <= slot[i].seq
    /\ inbox[i] \in Seq(Msg)
    /\ \A k \in 1..Len(inbox[i]) : inbox[i][k].cmd = "reload" => k = 1 /\ Later(inbox[i][k], i)

SeqInv == \A i \in Env : SeqOf(i)

\* What holds of the seeds of slot i after a step, and what the step may do.
Grows(i) ==
    /\ SeqOf(i)'
    /\ slot[i].board # NoBoard /\ worker'[i].env # worker[i].env => worker'[i].seq > worker[i].seq

LEMMA GrowsSame ==
    ASSUME NEW i, SeqOf(i), worker'[i].seq = worker[i].seq, worker'[i].env = worker[i].env,
           slot'[i].seq = slot[i].seq, inbox'[i] \in {inbox[i], <<>>}
    PROVE  Grows(i)
<1>1. CASE inbox'[i] = inbox[i]
  BY <1>1 DEF SeqOf, Later, Grows
<1>2. CASE inbox'[i] = <<>>
  BY <1>2 DEF SeqOf, Grows
<1> QED BY <1>1, <1>2

(* A worker that is built again advances its slot.                         *)
LEMMA GrowsSpawned ==
    ASSUME Advance, NEW i, SeqOf(i), NEW at, worker'[i] = Spawned(i, at),
           slot'[i].seq = Advanced(slot[i].seq), inbox'[i] = <<>>
    PROVE  Grows(i)
<1>1. /\ worker'[i].seq = IF slot[i].board = NoBoard THEN 0 ELSE slot[i].seq + 1
      /\ slot'[i].seq = slot[i].seq + 1
  BY DEF Spawned, Seed, Advanced
<1>2. worker[i].seq \in Nat /\ slot[i].seq \in Nat /\ worker[i].seq <= slot[i].seq
  BY DEF SeqOf
<1>3. SeqOf(i)'
  BY <1>1, <1>2 DEF SeqOf
<1> QED BY <1>1, <1>2, <1>3 DEF Grows

LEMMA GrowsRecovered ==
    ASSUME Advance, TypeOK, NEW i \in Env, SeqOf(i),
           (\E crashed : Recover(i, crashed)) \/ RecoverFails(i)
    PROVE  Grows(i)
<1>1. /\ slot'[i].seq = Advanced(slot[i].seq) /\ inbox'[i] = <<>>
  BY DEF Recover, RecoverFails, FreshPipes, TypeOK, IsSlot
<1>2. \/ \E at : worker'[i] = Spawned(i, at)
      \/ worker'[i].seq = worker[i].seq /\ worker'[i].env = worker[i].env
  BY DEF Recover, RecoverFails, TypeOK, IsWorker
<1>3. CASE worker'[i].seq = worker[i].seq /\ worker'[i].env = worker[i].env
  BY <1>1, <1>3 DEF SeqOf, Grows, Advanced
<1> QED BY <1>1, <1>2, <1>3, GrowsSpawned

(* A command other than a reload.                                          *)
LEMMA GrowsPushed ==
    ASSUME TypeOK, NEW i \in Env, SeqOf(i), NEW m \in Msg, m.cmd # "reload", Push(i, m),
           UNCHANGED <<worker, slot>>
    PROVE  Grows(i)
<1>1. inbox'[i] = Append(inbox[i], m)
  BY DEF Push, TypeOK
<1>2. inbox[i] \in Seq(Msg)
  BY DEF SeqOf
<1>3. /\ inbox'[i] \in Seq(Msg) /\ Len(inbox'[i]) = Len(inbox[i]) + 1
      /\ \A k \in 1..Len(inbox'[i]) : inbox'[i][k] = IF k <= Len(inbox[i]) THEN inbox[i][k] ELSE m
  BY <1>1, <1>2
<1>4. \A k \in 1..Len(inbox'[i]) : k <= Len(inbox[i]) => k \in 1..Len(inbox[i])
  BY <1>2, <1>3
<1> QED BY <1>3, <1>4 DEF SeqOf, Later, Grows

(* A reload goes to a worker that owes nothing.                            *)
LEMMA GrowsReload ==
    ASSUME Advance, IInv, NEW i \in Env, SeqOf(i), SendReload(i)
    PROVE  Grows(i)
<1>1. /\ op.kind = "reload" /\ op.phase = "send" /\ i \in op.todo /\ TypeOK /\ worker' = worker
      /\ ~Closing /\ asked[i] \in Boards
  BY DEF SendReload, At, Closing, IInv, TypeOK
<1>2. Empty(i)
  BY <1>1 DEF IInv, InvOf, PipesOf, Owed
<1>3. /\ slot'[i].seq = slot[i].seq + 1
      /\ worker[i].seq \in Nat /\ slot[i].seq \in Nat /\ worker[i].seq <= slot[i].seq
  BY <1>1 DEF SendReload, TypeOK, IsSlot, Advanced, SeqOf
<1> DEFINE m == [cmd |-> "reload", board |-> asked[i], seq |-> slot'[i].seq]
<1>4. m \in Msg /\ m.seq = slot[i].seq + 1
  BY <1>1, <1>3 DEF Msg
<1>5. CASE inbox'[i] = <<>>
  BY <1>1, <1>3, <1>5 DEF SeqOf, Grows
<1>6. CASE inbox'[i] = <<m>>
  <2>1. PICK x \in Msg : inbox'[i] = <<x>> /\ x.seq = slot[i].seq + 1
    BY <1>4, <1>6
  <2>2. /\ <<x>> \in Seq(Msg) /\ Len(<<x>>) = 1 /\ <<x>>[1] = x
        /\ \A k \in 1..Len(<<x>>) : k = 1
    OBVIOUS
  <2>3. worker'[i].seq < x.seq /\ x.seq <= slot'[i].seq
    BY <1>1, <1>3, <2>1
  <2>4. SeqOf(i)'
    BY <1>1, <1>3, <2>1, <2>2, <2>3 DEF SeqOf, Later
  <2> QED BY <1>1, <2>4 DEF Grows
<1> QED BY <1>1, <1>2, <1>5, <1>6, PushIs DEF SendReload, Empty

(* A worker that takes a command.                                          *)
LEMMA GrowsServed ==
    ASSUME IInv, NEW i \in Env, SeqOf(i), Serve(i) \/ ServeFails(i)
    PROVE  Grows(i)
<1> DEFINE m == Head(inbox[i])
<1>1. /\ TypeOK /\ slot' = slot /\ inbox[i] # <<>> /\ inbox'[i] = Tail(inbox[i])
  BY DEF Serve, ServeFails, Works, IInv, TypeOK
<1>2. /\ inbox[i] \in Seq(Msg) /\ m = inbox[i][1] /\ 1 \in 1..Len(inbox[i]) /\ m \in Msg
  BY <1>1 DEF SeqOf
<1>3. /\ Tail(inbox[i]) \in Seq(Msg) /\ Len(Tail(inbox[i])) = Len(inbox[i]) - 1
      /\ \A k \in 1..Len(Tail(inbox[i])) : /\ Tail(inbox[i])[k] = inbox[i][k + 1]
                                           /\ k + 1 \in 1..Len(inbox[i]) /\ k + 1 # 1
  BY <1>1, <1>2
<1>4. \A k \in 1..Len(inbox'[i]) : inbox'[i][k].cmd # "reload"
  BY <1>1, <1>3 DEF SeqOf
<1>5. \/ worker'[i].seq = worker[i].seq /\ worker'[i].env = worker[i].env
      \/ m.cmd = "reload" /\ worker'[i].seq = m.seq
      \/ m.cmd = "reload" /\ worker'[i].seq = worker[i].seq /\ worker'[i].env = worker[i].env
  <2>1. CASE ServeFails(i)
    BY <1>1, <2>1 DEF ServeFails, TypeOK, IsWorker
  <2>2. CASE Serve(i)
    <3>1. worker'[i] = Changed(i, m)
      BY <1>1, <2>2 DEF Serve, TypeOK
    <3>2. CASE m.cmd \in {"step", "reset"}
      BY <1>1, <3>1, <3>2 DEF Changed, TypeOK, IsWorker
    <3>3. CASE m.cmd = "reload"
      BY <3>1, <3>3 DEF Changed
    <3>4. CASE m.cmd \notin {"step", "reset", "reload"}
      BY <3>1, <3>4 DEF Changed
    <3> QED BY <3>2, <3>3, <3>4
  <2> QED BY <2>1, <2>2
<1>6. m.cmd = "reload" => worker[i].seq < m.seq /\ m.seq <= slot[i].seq /\ m.seq \in Nat
  BY <1>2 DEF SeqOf, Later, Msg
<1>7. /\ worker'[i].seq \in Nat /\ worker'[i].seq <= slot'[i].seq
      /\ worker'[i].env # worker[i].env => worker'[i].seq > worker[i].seq
  BY <1>1, <1>5, <1>6 DEF SeqOf
<1>8. slot'[i].seq \in Nat /\ inbox'[i] \in Seq(Msg)
  BY <1>1, <1>3 DEF SeqOf
<1> QED BY <1>4, <1>7, <1>8 DEF SeqOf, Grows

(* Where slot j keeps its seed, and its worker the environment.            *)
Kept(j) ==
    /\ worker'[j].seq = worker[j].seq /\ worker'[j].env = worker[j].env
    /\ slot'[j].seq = slot[j].seq /\ inbox'[j] \in {inbox[j], <<>>}

LEMMA GrowsClient ==
    ASSUME Advance, IInv, Client, NEW j \in Env, SeqOf(j)
    PROVE  Grows(j)
<1>1. CASE UNCHANGED <<worker, slot, inbox>>
  BY <1>1, GrowsSame
<1>2. ASSUME NEW who \in SUBSET Env, Rebuild(who)
      PROVE  Grows(j)
  <2>1. CASE j \in who
    <3>1. worker'[j] = Spawned(j, 0) /\ inbox'[j] = <<>> /\ slot'[j] = Renewed(j)
      BY <1>2, <2>1 DEF Rebuild, FreshPipes
    <3>2. Renewed(j).seq = Advanced(slot[j].seq)
      BY DEF Renewed, IInv, TypeOK, IsSlot
    <3> QED BY <3>1, <3>2, GrowsSpawned
  <2>2. CASE j \notin who
    <3>1. worker'[j] = worker[j] /\ inbox'[j] = inbox[j] /\ slot'[j] = slot[j]
      BY <1>2, <2>2 DEF Rebuild, FreshPipes
    <3> QED BY <3>1, GrowsSame
  <2> QED BY <2>1, <2>2
<1> QED BY <1>1, <1>2 DEF Client, StepAsync, Reset, Query, Reload, GiveUp, Close, pipes

LEMMA GrowsParent ==
    ASSUME Advance, IInv, Parent, NEW j \in Env, SeqOf(j)
    PROVE  Grows(j)
<1>0. TypeOK /\ DOMAIN worker = Env /\ DOMAIN slot = Env /\ IsSlot(slot[j]) /\ IsWorker(worker[j])
  BY DEF IInv, TypeOK
<1>1. ASSUME NEW i \in Env, (\E crashed : Recover(i, crashed)) \/ RecoverFails(i)
      PROVE  Grows(j)
  <2>1. CASE j = i
    BY <1>0, <1>1, <2>1, GrowsRecovered
  <2>2. CASE j # i
    <3>1. worker'[j] = worker[j] /\ inbox'[j] = inbox[j] /\ slot'[j] = slot[j]
      BY <1>0, <1>1, <2>2, RecoverIs, OthersUnrecovered
    <3> QED BY <3>1, GrowsSame
  <2> QED BY <2>1, <2>2
<1>2. ASSUME NEW i \in Env, NEW m \in Msg, m.cmd # "reload", Push(i, m), UNCHANGED <<worker, slot>>
      PROVE  Grows(j)
  <2>1. CASE j = i
    BY <1>0, <1>2, <2>1, GrowsPushed
  <2>2. CASE j # i
    <3>1. inbox'[j] = inbox[j]
      BY <1>2, <2>2 DEF Push, IInv, TypeOK
    <3> QED BY <1>2, <3>1, GrowsSame
  <2> QED BY <2>1, <2>2
<1>3. CASE Kept(j)
  BY <1>3, GrowsSame DEF Kept
<1>4. ASSUME NEW i \in Env, SendStep(i)
      PROVE  Grows(j)
  <2>1. [cmd |-> "step", board |-> NoBoard, seq |-> 0] \in Msg
    BY DEF Msg
  <2> QED BY <1>1, <1>2, <1>4, <2>1 DEF SendStep
<1>5. ASSUME NEW i \in Env, Send(i)
      PROVE  Grows(j)
  <2>1. [cmd |-> op.kind, board |-> NoBoard, seq |-> 0] \in Msg /\ op.kind # "reload"
    BY <1>5 DEF Msg, Send, At
  <2> QED BY <1>2, <1>3, <1>5, <2>1 DEF Send, Kept
<1>6. ASSUME NEW i \in Env, SendReload(i)
      PROVE  Grows(j)
  <2>1. CASE j = i
    BY <1>6, <2>1, GrowsReload
  <2>2. CASE j # i
    <3>1. worker' = worker /\ slot'[j] = slot[j] /\ inbox'[j] = inbox[j]
      BY <1>6, <2>2 DEF SendReload, Push, IInv, TypeOK
    <3> QED BY <3>1, GrowsSame
  <2> QED BY <2>1, <2>2
<1>7. ASSUME NEW i \in Env, RecvStep(i)
      PROVE  Grows(j)
  <2>1. CASE /\ UNCHANGED <<worker, inbox>>
             /\ \/ slot' = [slot EXCEPT ![i].crashed = FALSE]
                \/ slot' = [slot EXCEPT ![i].obs = Head(outbox[i]).obs]
    <3>1. slot'[j].seq = slot[j].seq
      BY <1>0, <2>1 DEF IsSlot
    <3> QED BY <1>3, <2>1, <3>1 DEF Kept
  <2> QED BY <1>1, <1>7, <2>1 DEF RecvStep, pipes
<1>8. ASSUME NEW i \in Env, Recv(i) \/ RecvReload(i) \/ Drain(i)
      PROVE  Grows(j)
  BY <1>3, <1>8 DEF Recv, RecvReload, Drain, Kept
<1>9. ASSUME NEW i \in Env, RecoverReload(i)
      PROVE  Grows(j)
  BY <1>1, <1>9 DEF RecoverReload
<1>10. ASSUME NEW i \in Env, SendClose(i)
       PROVE  Grows(j)
  <2>1. [cmd |-> "close", board |-> NoBoard, seq |-> 0] \in Msg
    BY DEF Msg
  <2> QED BY <1>2, <1>3, <1>10, <2>1 DEF SendClose, Kept
<1>11. ASSUME NEW i \in Env, Join(i)
       PROVE  Grows(j)
  <2>1. worker'[j].seq = worker[j].seq /\ worker'[j].env = worker[j].env
    BY <1>0, <1>11 DEF Join, IsWorker
  <2> QED BY <1>3, <1>11, <2>1 DEF Join, Kept, pipes
<1> QED BY <1>4, <1>5, <1>6, <1>7, <1>8, <1>9, <1>10, <1>11 DEF Parent

LEMMA GrowsWorker ==
    ASSUME IInv, NEW i \in Env, Worker(i), NEW j \in Env, SeqOf(j)
    PROVE  Grows(j)
<1>1. CASE j # i
  <2>1. worker'[j] = worker[j] /\ slot' = slot /\ inbox'[j] = inbox[j]
    BY <1>1 DEF Worker, Serve, ServeFails, ServeClose, Die, Works, IInv, TypeOK
  <2> QED BY <2>1, GrowsSame
<1>2. CASE j = i /\ (ServeClose(i) \/ Die(i))
  <2>1. /\ worker'[i].seq = worker[i].seq /\ worker'[i].env = worker[i].env
        /\ slot' = slot /\ inbox'[i] = <<>>
    BY <1>2 DEF ServeClose, Die, IInv, TypeOK, IsWorker
  <2> QED BY <1>2, <2>1, GrowsSame
<1> QED BY <1>1, <1>2, GrowsServed DEF Worker

(* advance_rng_on_reload: once the boards of a slot have been reloaded,    *)
(* every environment that is built there has a later seed offset than the  *)
(* one before it, by whatever mixture of reloads, respawns and rebuilds.   *)
THEOREM ResumesTheorem ==
    ASSUME Advance
    PROVE  Spec => ResumesOnceReloaded
<1>1. Init => SeqInv
  BY DEF Init, SeqInv, SeqOf
<1>2. ASSUME IInv, SeqInv, [Next]_vars PROVE \A i \in Env : Grows(i)
  <2>1. CASE UNCHANGED vars
    BY <1>2, <2>1, GrowsSame DEF vars, pipes, SeqInv
  <2> QED BY <1>2, <2>1, GrowsClient, GrowsParent, GrowsWorker DEF Next, SeqInv
<1>3. IInv /\ SeqInv /\ [Next]_vars => SeqInv'
  BY <1>2 DEF SeqInv, Grows
<1>4. IInv /\ SeqInv /\ [Next]_vars =>
        [\A i \in Env : slot[i].board # NoBoard /\ worker'[i].env # worker[i].env =>
           worker'[i].seq > worker[i].seq]_vars
  BY <1>2 DEF Grows
<1> QED BY <1>1, <1>3, <1>4, IInvAlways, PTL DEF Spec, ResumesOnceReloaded
=============================================================================
