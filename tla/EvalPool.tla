------------------------------ MODULE EvalPool ------------------------------
(***************************************************************************)
(* SubprocEvalPool (pcb_world/vec/subproc_pool.py): evaluate_many() hands  *)
(* the jobs of a list to worker processes over pipes and collects one      *)
(* result for each.  The workers run, die and answer while the parent is   *)
(* anywhere in its loop.                                                   *)
(***************************************************************************)
EXTENDS Integers, FiniteSets

CONSTANTS
    Jobs,       \* the number of jobs
    Workers,    \* n_workers
    IdleDeaths  \* a worker may also die while it has no job

ASSUME EvalAssumption ==
    Jobs \in Nat \ {0} /\ Workers \in Nat \ {0} /\ IdleDeaths \in BOOLEAN

Job  == 1..Jobs
Slot == 1..Workers
None == 0

VARIABLES
    next,      \* next_job
    inFlight,  \* in_flight[slot]: a job or None
    result,    \* results[job]: the job it is the answer of, and its kind
    reported,  \* how many times on_result was called for the job
    worker,    \* worker[slot]: "up" or "dead"
    inbox,     \* the job in the pipe to the worker, or being evaluated by it
    outbox,    \* the answer in the pipe to the parent
    ready,     \* ready_slots still to be handled in this round of the loop
    primed,    \* slots the priming loop has passed
    phase      \* "prime", "drain", "returned"

parent == <<next, inFlight, result, reported, ready, primed, phase>>
vars == <<parent, worker, inbox, outbox>>

NoAnswer == [of |-> None, kind |-> "none"]

\* What evaluate_many() itself answers for a job whose worker is gone.
Failed(j, kind) == [of |-> j, kind |-> kind]

Kind == {"none", "metrics", "error", "send_failed", "recv_failed"}

\* A respawned worker may be gone again before it is used.
Fresh == IF IdleDeaths THEN {"up", "dead"} ELSE {"up"}

-----------------------------------------------------------------------------
Init ==
    /\ next = 1 /\ inFlight = [s \in Slot |-> None]
    /\ result = [j \in Job |-> NoAnswer] /\ reported = [j \in Job |-> 0]
    /\ worker = [s \in Slot |-> "up"]
    /\ inbox = [s \in Slot |-> None] /\ outbox = [s \in Slot |-> NoAnswer]
    /\ ready = {} /\ primed = 0 /\ phase = "prime"

Exhausted == next > Jobs

\* The job whose send failed is not tried again.
Skipped(n) == n + 1

(* _dispatch(slot), the worker being in state w and res, rep the results   *)
(* and reports so far: a dead pipe costs the job and respawns the worker.  *)
Dispatch(s, w, res, rep) ==
    \/ /\ Exhausted
       /\ inFlight' = [inFlight EXCEPT ![s] = None]
       /\ worker' = [worker EXCEPT ![s] = w]
       /\ result' = res /\ reported' = rep
       /\ UNCHANGED <<next, inbox>>
    \/ /\ ~Exhausted /\ w = "up"
       /\ inFlight' = [inFlight EXCEPT ![s] = next]
       /\ inbox' = [inbox EXCEPT ![s] = next]
       /\ worker' = [worker EXCEPT ![s] = w]
       /\ next' = next + 1
       /\ result' = res /\ reported' = rep
    \/ /\ ~Exhausted /\ w = "dead"
       /\ inFlight' = [inFlight EXCEPT ![s] = None]
       /\ \E f \in Fresh : worker' = [worker EXCEPT ![s] = f]
       /\ result' = [res EXCEPT ![next] = Failed(next, "send_failed")]
       /\ reported' = [rep EXCEPT ![next] = @ + 1]
       /\ next' = Skipped(next)
       /\ UNCHANGED inbox

\* One job for each worker to begin with.
Prime ==
    /\ phase = "prime" /\ primed < Workers /\ primed < Jobs
    /\ Dispatch(primed + 1, worker[primed + 1], result, reported)
    /\ primed' = primed + 1
    /\ UNCHANGED <<outbox, ready, phase>>

Primed ==
    /\ phase = "prime" /\ (primed = Workers \/ primed = Jobs)
    /\ phase' = "drain"
    /\ UNCHANGED <<next, inFlight, result, reported, ready, primed, worker, inbox, outbox>>

Readable_Answers(s) == outbox[s] # NoAnswer

\* connection.wait() reports an answer and the end of the stream alike.
Readable(s) == outbox[s] # NoAnswer \/ worker[s] = "dead"

Wait ==
    /\ phase = "drain" /\ ready = {}
    /\ ready' = {s \in Slot : inFlight[s] # None /\ Readable(s)}
    /\ ready' # {}
    /\ UNCHANGED <<next, inFlight, result, reported, primed, phase, worker, inbox, outbox>>

JobOf_Latest(s) == next - 1

JobOf(s) == inFlight[s]

Refills_OnSuccess(s) == outbox[s] # NoAnswer

\* The slot gets its next job whether its worker answered or was respawned.
Refills(s) == TRUE

(* One ready slot: read the answer, or take the death of the worker for an *)
(* error and respawn it; record the result and dispatch the next job.      *)
Collect(s) ==
    LET j == JobOf(s)
        answered == outbox[s] # NoAnswer
        res == [result EXCEPT ![j] = IF answered THEN outbox[s] ELSE Failed(j, "recv_failed")]
        rep == [reported EXCEPT ![j] = @ + 1]
    IN
    /\ phase = "drain" /\ s \in ready
    /\ ready' = ready \ {s}
    /\ outbox' = [outbox EXCEPT ![s] = NoAnswer]
    /\ \E w \in IF answered THEN {worker[s]} ELSE Fresh :
         IF Refills(s) THEN Dispatch(s, w, res, rep)
         ELSE /\ inFlight' = [inFlight EXCEPT ![s] = None]
              /\ worker' = [worker EXCEPT ![s] = w]
              /\ result' = res /\ reported' = rep
              /\ UNCHANGED <<next, inbox>>
    /\ UNCHANGED <<primed, phase>>

\* Nothing is in flight any more: evaluate_many() checks and returns.
Return ==
    /\ phase = "drain" /\ ready = {} /\ \A s \in Slot : inFlight[s] = None
    /\ phase' = "returned"
    /\ UNCHANGED <<next, inFlight, result, reported, ready, primed, worker, inbox, outbox>>

-----------------------------------------------------------------------------
\* evaluate_one() returns metrics or raises: either way an answer is sent.
Evaluate(s) ==
    /\ worker[s] = "up" /\ inbox[s] # None
    /\ \E kind \in {"metrics", "error"} :
         outbox' = [outbox EXCEPT ![s] = [of |-> inbox[s], kind |-> kind]]
    /\ inbox' = [inbox EXCEPT ![s] = None]
    /\ UNCHANGED <<parent, worker>>

\* A crash of the engine server is re-raised; a worker may be killed as well.
Die(s) ==
    /\ worker[s] = "up" /\ (IdleDeaths \/ inbox[s] # None)
    /\ worker' = [worker EXCEPT ![s] = "dead"]
    /\ inbox' = [inbox EXCEPT ![s] = None]
    /\ UNCHANGED <<parent, outbox>>

-----------------------------------------------------------------------------
Parent == Prime \/ Primed \/ Wait \/ Return \/ \E s \in Slot : Collect(s)

Next == Parent \/ \E s \in Slot : Evaluate(s) \/ Die(s)

Spec == Init /\ [][Next]_vars

\* The parent loops, and a worker that has a job ends it in some way.
FairSpec == Spec /\ WF_vars(Parent) /\ \A s \in Slot : WF_vars(Evaluate(s) \/ Die(s))

-----------------------------------------------------------------------------
(* Properties.                                                             *)

(* Every variable of the pool keeps its type.                              *)
TypeOK ==
    /\ next \in 1..Jobs + 1 /\ primed \in 0..Workers
    /\ inFlight \in [Slot -> Job \cup {None}] /\ inbox \in [Slot -> Job \cup {None}]
    /\ result \in [Job -> [of : Job \cup {None}, kind : Kind]]
    /\ outbox \in [Slot -> [of : Job \cup {None}, kind : Kind]]
    /\ reported \in [Job -> Nat]
    /\ worker \in [Slot -> {"up", "dead"}] /\ ready \subseteq Slot
    /\ phase \in {"prime", "drain", "returned"}

(* Results come in input order: the result of a job is the answer of that  *)
(* job, after any number of deaths, respawns and answers out of order.     *)
ResultIsItsOwn == \A j \in Job : result[j].of \in {None, j}

(* on_result is called once for each job, when its result is known.        *)
ReportedOnce ==
    \A j \in Job : reported[j] = IF result[j] = NoAnswer THEN 0 ELSE 1

(* The assertion that ends evaluate_many(): when no slot is busy any more, *)
(* every job has a result.                                                 *)
AllAnswered == phase = "returned" => \A j \in Job : result[j] # NoAnswer

(* The same, as long as no send of the call has failed: a worker that dies *)
(* over a job never costs another job.                                     *)
AnsweredUnlessSendFailed ==
    phase = "returned" => \/ \A j \in Job : result[j] # NoAnswer
                          \/ \E j \in Job : result[j].kind = "send_failed"

(* No answer comes late: every answer in a pipe is that of the job its     *)
(* slot waits for, so a respawned worker never inherits one.               *)
NoLateAnswer ==
    \A s \in Slot : outbox[s] # NoAnswer => inFlight[s] = outbox[s].of

(* evaluate_many() returns, whatever the workers do.                       *)
Returns == <>(phase = "returned")
=============================================================================
