----------------------------- MODULE SubprocVec -----------------------------
(***************************************************************************)
(* SubprocDecoderVecEnv (pcb_world/vec/backends/subproc.py): a client      *)
(* steps, resets, queries and reloads environments that live in worker     *)
(* processes.  Each worker reads commands from a pipe and answers them in  *)
(* order; it may die at any time.  A dead worker is respawned within a     *)
(* step or a reload and makes every other call raise.  The parent visits   *)
(* the workers of a call in index order.                                   *)
(***************************************************************************)
EXTENDS Integers, Sequences, FiniteSetsExt

CONSTANTS
    Envs,         \* the number of environments
    Boards,       \* board paths
    FirstBoard,   \* the board env_fns build on
    NoBoard,      \* None
    Advance,      \* advance_rng_on_reload
    MaxBuilt,     \* bound: environments built, all slots together; the call or
                  \* deaths that reach it may build a few more
    MaxAt         \* bound: steps and resets of one environment

ASSUME VecAssumption ==
    /\ Envs \in Nat \ {0} /\ FirstBoard \in Boards /\ NoBoard \notin Boards
    /\ Advance \in BOOLEAN
    /\ MaxBuilt \in Nat \ {0} /\ MaxAt \in Nat \ {0}

Env == 1..Envs
NoObs  == [env |-> 0, at |-> 0]
NoView == [env |-> 0, at |-> 0, over |-> FALSE]

VARIABLES
    worker,   \* the process: up, its env's board, seed offset, number and state
    inbox,    \* commands in the pipe to the worker
    outbox,   \* answers in the pipe to the parent
    slot,     \* the parent's _last_boards, _rng_reload_seq, _last_obs, _send_crashed
    pending,  \* _pending_indices, {} for None
    view,     \* the observation the client holds, and whether it ended the episode
    asked,    \* the board the client asked for last
    op        \* the call in progress

pipes == <<inbox, outbox>>
vars == <<worker, pipes, slot, pending, view, asked, op>>

Idle == [kind |-> "none", phase |-> "idle", who |-> {}, todo |-> {}, dead |-> {}]

\* The environments built so far.
Built == MapThenSumSet(LAMBDA i : worker[i].env, Env)

ObsOf(i) == [env |-> worker[i].env, at |-> worker[i].at]

Init ==
    /\ worker = [i \in Env |-> [up |-> TRUE, board |-> FirstBoard, seq |-> 0,
                                env |-> 1, at |-> 0]]
    /\ inbox = [i \in Env |-> <<>>] /\ outbox = [i \in Env |-> <<>>]
    /\ slot = [i \in Env |-> [board |-> NoBoard, seq |-> 0, obs |-> NoObs,
                              crashed |-> FALSE]]
    /\ pending = {} /\ view = [i \in Env |-> NoView]
    /\ asked = [i \in Env |-> FirstBoard] /\ op = Idle

-----------------------------------------------------------------------------
(* Respawning a worker.                                                    *)

Advanced_Never(q) == q

Advanced(q) == IF Advance THEN q + 1 ELSE q

\* _spawn_worker: the board and the seed offset a new process builds on.
Home(i) == IF slot[i].board = NoBoard THEN FirstBoard ELSE slot[i].board

Seed(i) == IF slot[i].board = NoBoard THEN 0 ELSE Advanced(slot[i].seq)

Spawned(i, at) ==
    [up |-> TRUE, board |-> Home(i), seq |-> Seed(i),
     env |-> worker[i].env + 1, at |-> at]

FreshPipes_Kept(who) == UNCHANGED pipes

FreshPipes(who) ==
    /\ inbox' = [i \in Env |-> IF i \in who THEN <<>> ELSE inbox[i]]
    /\ outbox' = [i \in Env |-> IF i \in who THEN <<>> ELSE outbox[i]]

Cached_Old(i) == slot[i].obs

\* The observation of the reset that follows a respawn is cached.
Cached(i) == [env |-> worker[i].env + 1, at |-> 1]

(* _recover_worker: respawn the worker, reset it and cache the result.     *)
Recover(i, crashed) ==
    /\ worker' = [worker EXCEPT ![i] = Spawned(i, 1)]
    /\ slot' = [slot EXCEPT ![i].seq = Advanced(@), ![i].obs = Cached(i),
                            ![i].crashed = crashed]
    /\ FreshPipes({i})

(* ... or the new process dies or its reset fails, and the call raises.    *)
RecoverFails(i) ==
    /\ \/ worker' = [worker EXCEPT ![i].up = FALSE]
       \/ worker' = [worker EXCEPT ![i] = Spawned(i, 0)]
    /\ slot' = [slot EXCEPT ![i].seq = Advanced(@)]
    /\ FreshPipes({i})
    /\ op' = [op EXCEPT !.phase = "raised"]
    /\ UNCHANGED <<pending, view, asked>>

-----------------------------------------------------------------------------
(* The calls of the client.                                                *)

Begin(kind, who) ==
    op' = [kind |-> kind, phase |-> "send", who |-> who, todo |-> who, dead |-> {}]

\* Live episodes are stepped, one environment or several.
StepAsync(who) ==
    /\ op = Idle /\ who # {}
    /\ \A i \in who : view[i] # NoView /\ ~view[i].over /\ worker[i].at < MaxAt
    /\ Begin("step", who)
    /\ UNCHANGED <<worker, pipes, slot, pending, view, asked>>

Reset(who) ==
    /\ op = Idle /\ who # {}
    /\ \A i \in who : worker[i].at < MaxAt
    /\ Begin("reset", who)
    /\ UNCHANGED <<worker, pipes, slot, pending, view, asked>>

\* Masks, env_method and get_attr: nothing in the environment changes.
Query(who) ==
    /\ op = Idle /\ who # {} /\ \A i \in who : view[i] # NoView
    /\ Begin("query", who)
    /\ UNCHANGED <<worker, pipes, slot, pending, view, asked>>

\* reload_boards, reload_board and reload_board_slot.
Reload(boards) ==
    /\ op = Idle /\ Built < MaxBuilt
    /\ asked' = [i \in Env |-> IF i \in DOMAIN boards THEN boards[i] ELSE asked[i]]
    /\ view' = [i \in Env |-> IF i \in DOMAIN boards THEN NoView ELSE view[i]]
    /\ Begin("reload", DOMAIN boards)
    /\ UNCHANGED <<worker, pipes, slot, pending>>

\* The slot of an environment that is built again.
Renewed(i) == [slot[i] EXCEPT !.seq = Advanced(@), !.obs = NoObs, !.crashed = FALSE]

(* rebuild(): respawn, and leave the reset to the caller.  A new process   *)
(* that dies is found out by the next call.                                *)
Rebuild(who) ==
    /\ op = Idle \/ (op.phase = "raised" /\ who = Env)
    /\ who # {} /\ Built < MaxBuilt
    /\ worker' = [i \in Env |-> IF i \in who THEN Spawned(i, 0) ELSE worker[i]]
    /\ slot' = [i \in Env |-> IF i \in who THEN Renewed(i) ELSE slot[i]]
    /\ FreshPipes(who)
    /\ view' = [i \in Env |-> IF i \in who THEN NoView ELSE view[i]]
    /\ op' = Idle
    /\ UNCHANGED <<pending, asked>>

\* The evaluation gives a slot up when a query of it alone fails.
GiveUp ==
    /\ op.phase = "raised" /\ op.kind = "query" /\ Cardinality(op.who) = 1
    /\ view' = [i \in Env |-> IF i \in op.who THEN NoView ELSE view[i]]
    /\ op' = Idle
    /\ UNCHANGED <<worker, pipes, slot, pending, asked>>

-----------------------------------------------------------------------------
(* The parent sends to each worker of the call, then reads each answer.    *)

At(kinds, phase, i) ==
    /\ op.kind \in kinds /\ op.phase = phase
    /\ i \in op.todo /\ \A j \in op.todo : i <= j

Sent(i) ==
    IF op.todo = {i} THEN [op EXCEPT !.phase = "recv", !.todo = op.who]
    ELSE [op EXCEPT !.todo = @ \ {i}]

Push(i, m) == inbox' = [inbox EXCEPT ![i] = Append(@, m)]

\* step_async sets _pending_indices when every worker has been served.
PendingAfter(i) == IF op.todo = {i} THEN op.who ELSE pending

\* _safe_send
SendStep(i) ==
    /\ At({"step"}, "send", i)
    /\ \/ /\ worker[i].up
          /\ Push(i, [cmd |-> "step", board |-> NoBoard, seq |-> 0])
          /\ op' = Sent(i) /\ pending' = PendingAfter(i)
          /\ UNCHANGED <<worker, outbox, slot, view, asked>>
       \/ /\ ~worker[i].up /\ Recover(i, TRUE)
          /\ op' = Sent(i) /\ pending' = PendingAfter(i)
          /\ UNCHANGED <<view, asked>>
       \/ ~worker[i].up /\ RecoverFails(i)

Send(i) ==
    /\ At({"reset", "query"}, "send", i)
    /\ IF worker[i].up
       THEN /\ Push(i, [cmd |-> op.kind, board |-> NoBoard, seq |-> 0])
            /\ op' = Sent(i)
       ELSE op' = [op EXCEPT !.phase = "raised"] /\ UNCHANGED inbox
    /\ UNCHANGED <<worker, outbox, slot, pending, view, asked>>

Remembered_IfUp(i) == IF worker[i].up THEN asked[i] ELSE slot[i].board

\* _last_boards is set before the send, so that a respawn uses the new board.
Remembered(i) == asked[i]

\* _reload_indices, its first loop
SendReload(i) ==
    /\ At({"reload"}, "send", i)
    /\ slot' = [slot EXCEPT ![i].board = Remembered(i), ![i].seq = Advanced(@)]
    /\ IF worker[i].up
       THEN /\ Push(i, [cmd |-> "reload", board |-> asked[i], seq |-> slot'[i].seq])
            /\ op' = Sent(i)
       ELSE /\ op' = [Sent(i) EXCEPT !.dead = @ \cup {i}]
            /\ UNCHANGED inbox
    /\ UNCHANGED <<worker, outbox, pending, view, asked>>

Answered(i) == outbox[i] # <<>>

Lost_Never(i) == FALSE

\* End of the stream: what a dead worker answered before is read first.
Lost(i) == outbox[i] = <<>> /\ ~worker[i].up

Received(i) == IF op.todo = {i} THEN Idle ELSE [op EXCEPT !.todo = @ \ {i}]

Unset(i) == IF op.todo = {i} THEN {} ELSE pending

Crashed_Silent(obs) == [env |-> obs.env, at |-> obs.at, over |-> FALSE]

\* The reset observation of the new environment, as the last of an episode.
Crashed(obs) == [env |-> obs.env, at |-> obs.at, over |-> TRUE]

\* An answer "__error__" counts as a death of the worker.
Raised(a) == a.kind = "error"

\* _safe_recv_step
RecvStep(i) ==
    /\ At({"step"}, "recv", i)
    /\ \/ /\ slot[i].crashed
          /\ slot' = [slot EXCEPT ![i].crashed = FALSE]
          /\ view' = [view EXCEPT ![i] = Crashed(slot[i].obs)]
          /\ op' = Received(i) /\ pending' = Unset(i)
          /\ UNCHANGED <<worker, pipes, asked>>
       \/ /\ ~slot[i].crashed /\ Answered(i) /\ ~Raised(Head(outbox[i]))
          /\ outbox' = [outbox EXCEPT ![i] = Tail(@)]
          /\ slot' = [slot EXCEPT ![i].obs = Head(outbox[i]).obs]
          /\ view' = [view EXCEPT ![i] = [env |-> Head(outbox[i]).obs.env,
                                          at |-> Head(outbox[i]).obs.at, over |-> FALSE]]
          /\ op' = Received(i) /\ pending' = Unset(i)
          /\ UNCHANGED <<worker, inbox, asked>>
       \/ /\ ~slot[i].crashed
          /\ Lost(i) \/ (Answered(i) /\ Raised(Head(outbox[i])))
          /\ \/ /\ Recover(i, FALSE)
                /\ view' = [view EXCEPT ![i] = Crashed(slot'[i].obs)]
                /\ op' = Received(i) /\ pending' = Unset(i)
                /\ UNCHANGED asked
             \/ RecoverFails(i)

(* A failed reset raises when every answer has been read; a failed query   *)
(* and a lost worker raise at once.                                        *)
Recv(i) ==
    /\ At({"reset", "query"}, "recv", i)
    /\ \/ /\ Lost(i)
          /\ op' = [op EXCEPT !.phase = "raised"]
          /\ UNCHANGED <<view, outbox>>
       \/ /\ Answered(i)
          /\ outbox' = [outbox EXCEPT ![i] = Tail(@)]
          /\ LET a == Head(outbox[i])
                 bad == IF a.kind = "error" THEN op.dead \cup {i} ELSE op.dead
             IN  /\ op' = IF bad # {} /\ (op.kind = "query" \/ op.todo = {i})
                          THEN [op EXCEPT !.phase = "raised"]
                          ELSE [Received(i) EXCEPT !.dead = bad]
                 /\ view' = IF op.kind = "reset" /\ a.kind = "obs"
                            THEN [view EXCEPT ![i] = [env |-> a.obs.env, at |-> a.obs.at,
                                                      over |-> FALSE]]
                            ELSE view
    /\ UNCHANGED <<worker, inbox, slot, pending, asked>>

AfterReload(o, i) ==
    IF o.todo # {i} THEN [o EXCEPT !.todo = @ \ {i}]
    ELSE IF o.dead = {} THEN Idle
    ELSE [o EXCEPT !.phase = "recover", !.todo = o.dead]

\* _reload_indices, its second loop
RecvReload(i) ==
    /\ At({"reload"}, "recv", i)
    /\ \/ /\ i \in op.dead
          /\ op' = AfterReload(op, i) /\ UNCHANGED outbox
       \/ /\ i \notin op.dead /\ Lost(i)
          /\ op' = AfterReload([op EXCEPT !.dead = @ \cup {i}], i) /\ UNCHANGED outbox
       \/ /\ i \notin op.dead /\ Answered(i)
          /\ outbox' = [outbox EXCEPT ![i] = Tail(@)]
          /\ op' = IF Head(outbox[i]).kind = "error" THEN [op EXCEPT !.phase = "raised"]
                   ELSE AfterReload(op, i)
    /\ UNCHANGED <<worker, inbox, slot, pending, view, asked>>

\* _reload_indices, its third loop, in the order the deaths were noticed
RecoverReload(i) ==
    /\ op.kind = "reload" /\ op.phase = "recover" /\ i \in op.todo
    /\ \/ Recover(i, slot[i].crashed) /\ op' = Received(i) /\ UNCHANGED <<pending, view, asked>>
       \/ RecoverFails(i)

-----------------------------------------------------------------------------
(* close()                                                                 *)

\* Between two calls, after an exception, or between step_async and step_wait.
Close ==
    /\ \/ op.phase \in {"idle", "raised"}
       \/ op.kind = "step" /\ op.phase = "recv" /\ op.todo = op.who
    /\ op' = [kind |-> "close", phase |-> IF pending = {} THEN "send" ELSE "drain",
              who |-> Env, todo |-> IF pending = {} THEN Env ELSE pending, dead |-> {}]
    /\ UNCHANGED <<worker, pipes, slot, pending, view, asked>>

\* The answers of a step in flight are read first.
Drain(i) ==
    /\ At({"close"}, "drain", i)
    /\ \/ /\ Answered(i)
          /\ outbox' = [outbox EXCEPT ![i] = Tail(@)]
          /\ op' = IF op.todo = {i} THEN [op EXCEPT !.phase = "send", !.todo = Env]
                   ELSE [op EXCEPT !.todo = @ \ {i}]
          /\ pending' = Unset(i)
       \/ /\ Lost(i)
          /\ op' = [op EXCEPT !.phase = "failed"] /\ UNCHANGED <<outbox, pending>>
    /\ UNCHANGED <<worker, inbox, slot, view, asked>>

SendClose(i) ==
    /\ At({"close"}, "send", i)
    /\ IF worker[i].up
       THEN Push(i, [cmd |-> "close", board |-> NoBoard, seq |-> 0]) /\ op' = Sent(i)
       ELSE op' = [op EXCEPT !.phase = "failed"] /\ UNCHANGED inbox
    /\ UNCHANGED <<worker, outbox, slot, pending, view, asked>>

\* A worker that does not end within ten seconds is terminated.
Join(i) ==
    /\ At({"close"}, "recv", i)
    /\ worker' = [worker EXCEPT ![i].up = FALSE]
    /\ op' = IF op.todo = {i} THEN [op EXCEPT !.phase = "closed"]
             ELSE [op EXCEPT !.todo = @ \ {i}]
    /\ UNCHANGED <<pipes, slot, pending, view, asked>>

-----------------------------------------------------------------------------
(* _decoder_worker: one command.                                           *)

Changed(i, m) ==
    CASE m.cmd \in {"step", "reset"} -> [worker[i] EXCEPT !.at = @ + 1]
      [] m.cmd = "reload" -> [up |-> TRUE, board |-> m.board, seq |-> m.seq,
                              env |-> worker[i].env + 1, at |-> 0]
      [] OTHER -> worker[i]

Works(i) ==
    /\ worker[i].up /\ inbox[i] # <<>> /\ Head(inbox[i]).cmd # "close"
    /\ inbox' = [inbox EXCEPT ![i] = Tail(@)]
    /\ UNCHANGED <<slot, pending, view, asked, op>>

Serve(i) ==
    /\ Works(i)
    /\ worker[i].board # NoBoard
    /\ worker' = [worker EXCEPT ![i] = Changed(i, Head(inbox[i]))]
    /\ outbox' = [outbox EXCEPT ![i] =
         Append(@, [kind |-> "obs", obs |-> [env |-> worker'[i].env, at |-> worker'[i].at]])]

(* An exception is answered.  After a failed reload there is no            *)
(* environment, and every command fails.                                   *)
ServeFails(i) ==
    /\ Works(i)
    /\ Built < MaxBuilt
    /\ worker' = IF Head(inbox[i]).cmd = "reload" THEN [worker EXCEPT ![i].board = NoBoard]
                 ELSE worker
    /\ outbox' = [outbox EXCEPT ![i] = Append(@, [kind |-> "error", obs |-> NoObs])]

ServeClose(i) ==
    /\ worker[i].up /\ inbox[i] # <<>> /\ Head(inbox[i]).cmd = "close"
    /\ worker' = [worker EXCEPT ![i].up = FALSE]
    /\ inbox' = [inbox EXCEPT ![i] = <<>>]
    /\ UNCHANGED <<outbox, slot, pending, view, asked, op>>

\* EngineServerCrashed is re-raised; a signal may end the process as well.
Die(i) ==
    /\ worker[i].up /\ Built < MaxBuilt
    /\ op.phase # "closed"
    /\ worker' = [worker EXCEPT ![i].up = FALSE]
    /\ inbox' = [inbox EXCEPT ![i] = <<>>]
    /\ UNCHANGED <<outbox, slot, pending, view, asked, op>>

-----------------------------------------------------------------------------
Client ==
    \/ \E who \in SUBSET Env : StepAsync(who) \/ Reset(who) \/ Query(who) \/ Rebuild(who)
    \/ \E boards \in [Env -> Boards] : Reload(boards)
    \/ \E i \in Env, b \in Boards : Reload([j \in {i} |-> b])
    \/ GiveUp \/ Close

Parent ==
    \E i \in Env :
      \/ SendStep(i) \/ Send(i) \/ SendReload(i)
      \/ RecvStep(i) \/ Recv(i) \/ RecvReload(i) \/ RecoverReload(i)
      \/ Drain(i) \/ SendClose(i) \/ Join(i)

Worker(i) == Serve(i) \/ ServeFails(i) \/ ServeClose(i) \/ Die(i)

Next == Client \/ Parent \/ \E i \in Env : Worker(i)

Spec == Init /\ [][Next]_vars

\* The processes run: as long as the parent or a worker has a step to take,
\* one of them takes one.
FairSpec == Spec /\ WF_vars(Parent \/ \E i \in Env : Worker(i))

-----------------------------------------------------------------------------
(* Properties.                                                             *)

(* No answer is left over: when the client may call, every answer of the   *)
(* calls before has been read, so the next one read is that of the next    *)
(* call -- after any mixture of deaths, errors and respawns.               *)
PipesDrained ==
    op = Idle => \A i \in Env : inbox[i] = <<>> /\ outbox[i] = <<>>

(* Between calls, the observation the client holds of a live worker is     *)
(* that of the state the worker's environment is in.                       *)
ViewIsCurrent ==
    op = Idle =>
      \A i \in Env : worker[i].up /\ view[i] # NoView =>
        [env |-> view[i].env, at |-> view[i].at] = ObsOf(i)

(* Between calls a live worker is on the board the client asked for last,  *)
(* even if it died while the boards were being swapped.                    *)
BoardIsRequested ==
    op = Idle =>
      \A i \in Env : worker[i].up /\ worker[i].board # NoBoard => worker[i].board = asked[i]

(* The client is told: if what it sees is another environment than before, *)
(* the step ended the episode.                                             *)
EpisodeUnbroken ==
    [][\A i \in Env :
         view[i] # NoView /\ view'[i].env \notin {view[i].env, NoView.env} => view'[i].over]_vars

(* advance_rng_on_reload: once the boards of a slot have been reloaded, an *)
(* environment is never built on a seed offset one of its slot has used.   *)
ResumesOnceReloaded ==
    [][\A i \in Env : slot[i].board # NoBoard /\ worker'[i].env # worker[i].env =>
         worker'[i].seq > worker[i].seq]_vars

(* Every call on the pool returns or raises, close() apart.                *)
CallsEnd == (op.phase \in {"send", "recv", "recover"}) ~> (op.phase \notin {"send", "recv", "recover"})
=============================================================================
