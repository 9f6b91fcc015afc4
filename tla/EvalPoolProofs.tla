--------------------------- MODULE EvalPoolProofs ---------------------------
(***************************************************************************)
(* What evaluate_many() promises, for any number of jobs and workers.      *)
(*                                                                         *)
(* Everything in a pipe belongs to the job its slot waits for, a job in    *)
(* flight has no result yet and is in flight once, and every job that was  *)
(* dispatched is in flight or has its result.                              *)
(***************************************************************************)
EXTENDS EvalPool, TLAPS

Answer == [of : Job \cup {None}, kind : Kind]

PipeInv ==
    /\ \A s \in Slot :
         /\ outbox[s] # NoAnswer => inFlight[s] = outbox[s].of /\ outbox[s].of # None
         /\ outbox[s].kind # "send_failed"
         /\ inbox[s] # None => inFlight[s] = inbox[s] /\ outbox[s] = NoAnswer /\ worker[s] = "up"
         /\ s \in ready => inFlight[s] # None /\ Readable(s)
         /\ inFlight[s] # None => s <= primed
    /\ phase = "prime" => ready = {}

(* The jobs, with the results and reports res and rep and the slots in     *)
(* slots.                                                                  *)
Books(slots, res, rep) ==
    /\ \A t \in slots : inFlight[t] # None => inFlight[t] < next /\ res[inFlight[t]] = NoAnswer
    /\ \A t, u \in slots : inFlight[t] = inFlight[u] /\ inFlight[t] # None => t = u
    /\ \A j \in Job : j < next => res[j] # NoAnswer \/ \E t \in slots : inFlight[t] = j
    /\ \A j \in Job : j >= next => res[j] = NoAnswer
    /\ \A j \in Job : res[j] # NoAnswer => res[j].of = j
    /\ \A j \in Job : rep[j] = IF res[j] = NoAnswer THEN 0 ELSE 1

JobInv == Books(Slot, result, reported)

SendFailed == \E j \in Job : result[j].kind = "send_failed"

BusyInv ==
    /\ Exhausted \/ SendFailed \/ \A s \in Slot : s <= primed => inFlight[s] # None
    /\ phase # "prime" => primed > 0
    /\ phase = "returned" => \A s \in Slot : inFlight[s] = None

IInv == TypeOK /\ PipeInv /\ JobInv /\ BusyInv

-----------------------------------------------------------------------------
(* _dispatch() keeps the books when the slot it fills has nothing in       *)
(* flight any more and the results given to it are in order.               *)
LEMMA DispatchBooks ==
    ASSUME TypeOK, NEW s \in Slot, NEW w \in {"up", "dead"},
           NEW res \in [Job -> Answer], NEW rep \in [Job -> Nat],
           Books(Slot \ {s}, res, rep), Dispatch(s, w, res, rep)
    PROVE  /\ JobInv'
           /\ next' \in 1..Jobs + 1 /\ next' >= next
           /\ inFlight' \in [Slot -> Job \cup {None}] /\ inbox' \in [Slot -> Job \cup {None}]
           /\ result' \in [Job -> Answer] /\ reported' \in [Job -> Nat]
           /\ worker' \in [Slot -> {"up", "dead"}]
           /\ \A t \in Slot : t # s => inFlight'[t] = inFlight[t] /\ inbox'[t] = inbox[t] /\ worker'[t] = worker[t]
           /\ inbox'[s] # inbox[s] => inbox'[s] = inFlight'[s] /\ worker'[s] = "up"
           /\ inFlight'[s] \in {None, inbox'[s]}
           /\ inFlight'[s] # None \/ Exhausted' \/ SendFailed'
           /\ Exhausted => Exhausted'
           /\ (\E j \in Job : res[j].kind = "send_failed") => SendFailed'
<1> USE EvalAssumption
<1>1. CASE Exhausted /\ inFlight' = [inFlight EXCEPT ![s] = None]
           /\ worker' = [worker EXCEPT ![s] = w] /\ result' = res /\ reported' = rep
           /\ UNCHANGED <<next, inbox>>
  BY <1>1 DEF TypeOK, JobInv, Books, Exhausted, SendFailed, Job, Slot, None
<1>2. CASE ~Exhausted /\ w = "up" /\ inFlight' = [inFlight EXCEPT ![s] = next]
           /\ inbox' = [inbox EXCEPT ![s] = next] /\ worker' = [worker EXCEPT ![s] = w]
           /\ next' = next + 1 /\ result' = res /\ reported' = rep
  <2>1. next \in Job /\ next' \in 1..Jobs + 1 /\ next' = next + 1
    BY <1>2 DEF TypeOK, Exhausted, Job
  <2>2. /\ inFlight' \in [Slot -> Job \cup {None}] /\ inbox' \in [Slot -> Job \cup {None}]
        /\ result' \in [Job -> Answer] /\ reported' \in [Job -> Nat]
        /\ worker' \in [Slot -> {"up", "dead"}]
    BY <1>2, <2>1 DEF TypeOK
  <2>3. inFlight'[s] = next /\ inbox'[s] = next /\ worker'[s] = "up" /\ next # None
    BY <1>2, <2>1 DEF TypeOK, Job, None
  <2>4. \A t \in Slot : t # s => inFlight'[t] = inFlight[t] /\ inbox'[t] = inbox[t] /\ worker'[t] = worker[t]
    BY <1>2 DEF TypeOK
  <2>5. JobInv'
    <3>1. \A t \in Slot : inFlight'[t] # None =>
            inFlight'[t] < next' /\ result'[inFlight'[t]] = NoAnswer
      BY <1>2, <2>1, <2>3, <2>4 DEF TypeOK, Books, Job, None
    <3>2. \A t, v \in Slot : inFlight'[t] = inFlight'[v] /\ inFlight'[t] # None => t = v
      BY <2>1, <2>3, <2>4 DEF TypeOK, Books, Job, None
    <3>3. \A j \in Job : j < next' => result'[j] # NoAnswer \/ \E t \in Slot : inFlight'[t] = j
      <4>1. \A j \in Job : j < next' => j < next \/ j = next
        BY <2>1 DEF Job
      <4> QED BY <1>2, <2>3, <2>4, <4>1 DEF Books
    <3>4. \A j \in Job : j >= next' => result'[j] = NoAnswer
      BY <1>2, <2>1 DEF Books, Job
    <3>5. /\ \A j \in Job : result'[j] # NoAnswer => result'[j].of = j
          /\ \A j \in Job : reported'[j] = IF result'[j] = NoAnswer THEN 0 ELSE 1
      BY <1>2 DEF Books
    <3> QED BY <3>1, <3>2, <3>3, <3>4, <3>5 DEF JobInv, Books
  <2> QED BY <1>2, <2>1, <2>2, <2>3, <2>4, <2>5 DEF TypeOK, Exhausted, SendFailed
<1>3. CASE ~Exhausted /\ w = "dead" /\ inFlight' = [inFlight EXCEPT ![s] = None]
           /\ (\E f \in Fresh : worker' = [worker EXCEPT ![s] = f])
           /\ result' = [res EXCEPT ![next] = Failed(next, "send_failed")]
           /\ reported' = [rep EXCEPT ![next] = @ + 1]
           /\ next' = Skipped(next) /\ UNCHANGED inbox
  <2>1. next \in Job /\ next' \in 1..Jobs + 1 /\ next' = next + 1 /\ next # None
    BY <1>3 DEF TypeOK, Exhausted, Job, Skipped, None
  <2>2. Failed(next, "send_failed") \in Answer /\ Failed(next, "send_failed") # NoAnswer
        /\ Failed(next, "send_failed").of = next /\ Failed(next, "send_failed").kind = "send_failed"
    BY <2>1 DEF Failed, Answer, Kind, NoAnswer
  <2>3. /\ inFlight' \in [Slot -> Job \cup {None}] /\ inbox' \in [Slot -> Job \cup {None}]
        /\ result' \in [Job -> Answer] /\ reported' \in [Job -> Nat]
        /\ worker' \in [Slot -> {"up", "dead"}]
    BY <1>3, <2>1, <2>2 DEF TypeOK, Fresh
  <2>4. /\ result'[next] = Failed(next, "send_failed") /\ reported'[next] = rep[next] + 1
        /\ \A j \in Job : j # next => result'[j] = res[j] /\ reported'[j] = rep[j]
        /\ inFlight'[s] = None
    BY <1>3, <2>1 DEF TypeOK
  <2>5. \A t \in Slot : t # s => inFlight'[t] = inFlight[t] /\ inbox'[t] = inbox[t] /\ worker'[t] = worker[t]
    BY <1>3 DEF TypeOK
  <2>6. JobInv'
    BY <1>3, <2>1, <2>2, <2>4, <2>5 DEF TypeOK, JobInv, Books, Job, None
  <2>7. SendFailed'
    BY <2>1, <2>2, <2>4 DEF SendFailed
  <2> QED BY <1>3, <2>1, <2>3, <2>4, <2>5, <2>6, <2>7 DEF TypeOK, Exhausted
<1> QED BY <1>1, <1>2, <1>3 DEF Dispatch

(* The pipes and the slots, after a dispatch to a slot whose pipes are     *)
(* empty.                                                                  *)
LEMMA DispatchPipes ==
    ASSUME IInv, NEW s \in Slot, NEW w \in {"up", "dead"},
           NEW res \in [Job -> Answer], NEW rep \in [Job -> Nat],
           Books(Slot \ {s}, res, rep), Dispatch(s, w, res, rep),
           inbox[s] = None, outbox'[s] = NoAnswer, \A t \in Slot : t # s => outbox'[t] = outbox[t],
           s \notin ready', ready' \subseteq ready, phase' = phase,
           primed' \in {primed, primed + 1}, primed' \in 0..Workers, s <= primed'
    PROVE  /\ \A t \in Slot :
                /\ outbox'[t] # NoAnswer => inFlight'[t] = outbox'[t].of /\ outbox'[t].of # None
                /\ outbox'[t].kind # "send_failed"
                /\ inbox'[t] # None => inFlight'[t] = inbox'[t] /\ outbox'[t] = NoAnswer /\ worker'[t] = "up"
                /\ t \in ready' => inFlight'[t] # None /\ Readable(t)'
                /\ inFlight'[t] # None => t <= primed'
           /\ phase' = "prime" => ready' = {}
<1> USE DispatchBooks DEF IInv
<1>1. primed <= primed' /\ primed \in Int /\ primed' \in Int
  BY EvalAssumption DEF TypeOK
<1>2. NoAnswer.kind # "send_failed"
  BY DEF NoAnswer
<1>3. ASSUME NEW t \in Slot, t = s
      PROVE  /\ outbox'[t] = NoAnswer /\ outbox'[t].kind # "send_failed"
             /\ inbox'[t] # None => inFlight'[t] = inbox'[t] /\ worker'[t] = "up"
             /\ t \notin ready' /\ t <= primed'
  BY <1>2, <1>3
<1>4. ASSUME NEW t \in Slot, t # s
      PROVE  /\ outbox'[t] = outbox[t] /\ inFlight'[t] = inFlight[t]
             /\ inbox'[t] = inbox[t] /\ worker'[t] = worker[t]
  BY <1>4
<1>5. ASSUME NEW t \in Slot, t # s
      PROVE  /\ outbox'[t] # NoAnswer => inFlight'[t] = outbox'[t].of /\ outbox'[t].of # None
             /\ outbox'[t].kind # "send_failed"
             /\ inbox'[t] # None => inFlight'[t] = inbox'[t] /\ outbox'[t] = NoAnswer /\ worker'[t] = "up"
             /\ t \in ready' => inFlight'[t] # None /\ Readable(t)'
             /\ inFlight'[t] # None => t <= primed'
  BY <1>1, <1>4, <1>5 DEF PipeInv, Readable, Slot
<1>6. phase' = "prime" => ready' = {}
  BY DEF PipeInv
<1> QED BY <1>3, <1>5, <1>6

(* A slot goes on: the books, the pipes and the slots stay in order.       *)
LEMMA DispatchStep ==
    ASSUME IInv, NEW s \in Slot, NEW w \in {"up", "dead"},
           NEW res \in [Job -> Answer], NEW rep \in [Job -> Nat],
           Books(Slot \ {s}, res, rep), Dispatch(s, w, res, rep),
           SendFailed => \E j \in Job : res[j].kind = "send_failed",
           inbox[s] = None, outbox'[s] = NoAnswer, \A t \in Slot : t # s => outbox'[t] = outbox[t],
           outbox' \in [Slot -> Answer],
           s \notin ready', ready' \subseteq ready, phase' = phase, phase # "returned",
           primed' \in {primed, primed + 1}, primed' \in 0..Workers, s <= primed',
           \A t \in Slot : t # s /\ t <= primed' => t <= primed
    PROVE  IInv'
<1>1. TypeOK'
  BY DispatchBooks DEF IInv, TypeOK, Answer
<1>2. PipeInv'
  BY DispatchPipes DEF PipeInv
<1>3. JobInv'
  BY DispatchBooks DEF IInv
<1>4. BusyInv'
  <2>1. /\ inFlight'[s] # None \/ Exhausted' \/ SendFailed'
        /\ Exhausted => Exhausted'
        /\ SendFailed => SendFailed'
        /\ \A t \in Slot : t # s => inFlight'[t] = inFlight[t]
    BY DispatchBooks DEF IInv
  <2>2. Exhausted' \/ SendFailed' \/ \A t \in Slot : t <= primed' => inFlight'[t] # None
    BY <2>1 DEF IInv, BusyInv
  <2>3. primed' > 0
    BY DEF Slot
  <2> QED BY <2>2, <2>3 DEF BusyInv
<1> QED BY <1>1, <1>2, <1>3, <1>4 DEF IInv

-----------------------------------------------------------------------------
LEMMA PrimeStep ==
    ASSUME IInv, Prime
    PROVE  IInv'
<1> DEFINE s == primed + 1
<1>1. s \in Slot /\ s # primed /\ ~(s <= primed)
  BY EvalAssumption DEF IInv, TypeOK, Prime, Slot
<1>2. /\ phase = "prime" /\ phase' = phase /\ ready = {} /\ ready' = ready /\ outbox' = outbox
      /\ primed' = s /\ Dispatch(s, worker[s], result, reported)
  BY DEF IInv, PipeInv, Prime
<1>3. inFlight[s] = None /\ inbox[s] = None /\ outbox[s] = NoAnswer
  BY <1>1 DEF IInv, PipeInv
<1>4. result \in [Job -> Answer] /\ reported \in [Job -> Nat] /\ worker[s] \in {"up", "dead"}
      /\ outbox \in [Slot -> Answer]
  BY <1>1 DEF IInv, TypeOK, Answer
<1>5. Books(Slot \ {s}, result, reported)
  <2>1. \A j \in Job : j # None
    BY DEF Job, None
  <2> QED BY <1>3, <2>1 DEF IInv, JobInv, Books
<1>6. \A t \in Slot : t # s /\ t <= s => t <= primed
  BY DEF IInv, TypeOK, Slot
<1>7. primed' \in 0..Workers /\ s <= primed'
  BY <1>1, <1>2 DEF IInv, TypeOK, Slot
<1> HIDE DEF s
<1>8. primed' \in {primed, primed + 1}
  BY DEF Prime
<1> QED BY <1>1, <1>2, <1>3, <1>4, <1>5, <1>6, <1>7, <1>8, DispatchStep DEF SendFailed

LEMMA CollectStep ==
    ASSUME IInv, NEW s \in Slot, Collect(s)
    PROVE  IInv'
<1> DEFINE j == inFlight[s]
           answered == outbox[s] # NoAnswer
           answer == IF answered THEN outbox[s] ELSE Failed(j, "recv_failed")
           res == [result EXCEPT ![j] = answer]
           rep == [reported EXCEPT ![j] = @ + 1]
<1>1. /\ phase = "drain" /\ phase' = phase /\ primed' = primed /\ s \in ready
      /\ ready' = ready \ {s} /\ outbox' = [outbox EXCEPT ![s] = NoAnswer]
      /\ \E w \in IF answered THEN {worker[s]} ELSE Fresh : Dispatch(s, w, res, rep)
  BY DEF Collect, JobOf, Refills
<1>2. j \in Job /\ j # None /\ s <= primed /\ primed \in 0..Workers
  BY <1>1 DEF IInv, TypeOK, PipeInv
<1>3. inbox[s] = None
  BY <1>1 DEF IInv, PipeInv, Readable
<1>4. answer \in Answer /\ answer.of = j /\ answer # NoAnswer
  <2>1. CASE answered
    BY <2>1 DEF IInv, TypeOK, PipeInv, Answer
  <2>2. CASE ~answered
    BY <1>2, <2>2 DEF Answer, Kind, Failed, NoAnswer
  <2> QED BY <2>1, <2>2
<1> HIDE DEF answer, answered
<1>5. res \in [Job -> Answer] /\ rep \in [Job -> Nat]
  BY <1>2, <1>4 DEF IInv, TypeOK, Answer
<1>6. /\ res[j] = answer /\ rep[j] = reported[j] + 1
      /\ \A k \in Job : k # j => res[k] = result[k] /\ rep[k] = reported[k]
  BY <1>2 DEF IInv, TypeOK
<1>7. j < next /\ result[j] = NoAnswer /\ next \in Int
  BY <1>2 DEF IInv, JobInv, Books, TypeOK
<1> HIDE DEF res, rep
<1>8. Books(Slot \ {s}, res, rep)
  <2>1. \A t \in Slot \ {s} : inFlight[t] # None => inFlight[t] < next /\ res[inFlight[t]] = NoAnswer
    BY <1>2, <1>6 DEF IInv, TypeOK, JobInv, Books
  <2>2. \A t, u \in Slot \ {s} : inFlight[t] = inFlight[u] /\ inFlight[t] # None => t = u
    BY DEF IInv, JobInv, Books
  <2>3. \A k \in Job : k < next => res[k] # NoAnswer \/ \E t \in Slot \ {s} : inFlight[t] = k
    BY <1>2, <1>4, <1>6 DEF IInv, JobInv, Books
  <2>4. \A k \in Job : k >= next => res[k] = NoAnswer
    BY <1>2, <1>6, <1>7 DEF IInv, JobInv, Books, Job
  <2>5. \A k \in Job : res[k] # NoAnswer => res[k].of = k
    BY <1>4, <1>6 DEF IInv, JobInv, Books
  <2>6. reported[j] = 0
    BY <1>2, <1>7 DEF IInv, JobInv, Books
  <2>7. \A k \in Job : rep[k] = IF res[k] = NoAnswer THEN 0 ELSE 1
    BY <1>4, <1>6, <2>6 DEF IInv, JobInv, Books
  <2> QED BY <2>1, <2>2, <2>3, <2>4, <2>5, <2>7 DEF Books
<1>9. SendFailed => \E k \in Job : res[k].kind = "send_failed"
  BY <1>6, <1>7 DEF SendFailed, NoAnswer
<1>10. PICK w \in {"up", "dead"} : Dispatch(s, w, res, rep)
  BY <1>1 DEF IInv, TypeOK, Fresh
<1>11. /\ outbox'[s] = NoAnswer /\ \A t \in Slot : t # s => outbox'[t] = outbox[t]
       /\ outbox' \in [Slot -> Answer]
  BY <1>1 DEF IInv, TypeOK, Answer, NoAnswer, Kind
<1>12. /\ s \notin ready' /\ ready' \subseteq ready /\ phase' = phase /\ phase # "returned"
       /\ primed' = primed
  BY <1>1
<1> QED BY <1>2, <1>3, <1>5, <1>8, <1>9, <1>10, <1>11, <1>12, DispatchStep

(* The other steps of the parent.                                          *)
LEMMA ParentStep ==
    ASSUME IInv, Primed \/ Wait \/ Return
    PROVE  IInv'
<1>1. CASE Primed
  <2>1. primed > 0
    BY <1>1, EvalAssumption DEF Primed
  <2> QED BY <1>1, <2>1 DEF IInv, TypeOK, PipeInv, JobInv, Books, BusyInv, SendFailed, Exhausted, Readable, Primed
<1>2. CASE Wait
  BY <1>2 DEF IInv, TypeOK, PipeInv, JobInv, Books, BusyInv, SendFailed, Exhausted, Readable, Wait
<1>3. CASE Return
  BY <1>3 DEF IInv, TypeOK, PipeInv, JobInv, Books, BusyInv, SendFailed, Exhausted, Readable, Return
<1> QED BY <1>1, <1>2, <1>3

(* A worker answers, or dies: what it had in its inbox was in flight.      *)
LEMMA WorkerStep ==
    ASSUME IInv, NEW s \in Slot, Evaluate(s) \/ Die(s)
    PROVE  IInv'
<1>1. CASE Evaluate(s)
  <2>1. PICK kind \in {"metrics", "error"} :
          outbox' = [outbox EXCEPT ![s] = [of |-> inbox[s], kind |-> kind]]
    BY <1>1 DEF Evaluate
  <2>2. inbox[s] \in Job /\ inbox[s] # None /\ inbox[s] = inFlight[s]
    BY <1>1 DEF Evaluate, IInv, TypeOK, PipeInv
  <2> DEFINE answer == [of |-> inbox[s], kind |-> kind]
  <2>3. answer \in Answer /\ answer.of = inFlight[s] /\ answer.kind # "send_failed" /\ answer # NoAnswer
    BY <2>2 DEF Answer, Kind, NoAnswer
  <2> HIDE DEF answer
  <2>4. outbox'[s] = answer /\ \A t \in Slot : t # s => outbox'[t] = outbox[t]
    BY <2>1 DEF IInv, TypeOK, answer
  <2>5. outbox' \in [Slot -> Answer]
    BY <2>1, <2>3 DEF IInv, TypeOK, Answer, answer
  <2>6. inbox'[s] = None /\ inbox' \in [Slot -> Job \cup {None}] /\ \A t \in Slot : t # s => inbox'[t] = inbox[t]
    BY <1>1 DEF IInv, TypeOK, Evaluate
  <2>7. UNCHANGED <<parent, worker>>
    BY <1>1 DEF Evaluate
  <2>8. TypeOK'
    BY <2>5, <2>6, <2>7 DEF IInv, TypeOK, parent, Answer
  <2>9. PipeInv'
    BY <2>2, <2>3, <2>4, <2>6, <2>7 DEF IInv, PipeInv, parent, Readable
  <2>10. JobInv' /\ BusyInv'
    BY <2>7 DEF IInv, JobInv, Books, BusyInv, SendFailed, Exhausted, parent
  <2> QED BY <2>8, <2>9, <2>10 DEF IInv
<1>2. CASE Die(s)
  <2>1. UNCHANGED <<parent, outbox>>
    BY <1>2 DEF Die
  <2>2. /\ inbox'[s] = None /\ inbox' \in [Slot -> Job \cup {None}] /\ worker' \in [Slot -> {"up", "dead"}]
        /\ worker'[s] = "dead"
        /\ \A t \in Slot : t # s => inbox'[t] = inbox[t] /\ worker'[t] = worker[t]
    BY <1>2 DEF IInv, TypeOK, Die
  <2>3. TypeOK'
    BY <2>1, <2>2 DEF IInv, TypeOK, parent
  <2>4. PipeInv'
    BY <2>1, <2>2 DEF IInv, PipeInv, parent, Readable
  <2>5. JobInv' /\ BusyInv'
    BY <2>1 DEF IInv, JobInv, Books, BusyInv, SendFailed, Exhausted, parent
  <2> QED BY <2>3, <2>4, <2>5 DEF IInv
<1> QED BY <1>1, <1>2

LEMMA InitInv ==
    ASSUME Init
    PROVE  IInv
<1>1. TypeOK
  BY EvalAssumption DEF Init, TypeOK, NoAnswer, Kind, None, Job
<1>2. PipeInv
  BY DEF Init, PipeInv, NoAnswer
<1>3. JobInv
  BY DEF Init, JobInv, Books, Job
<1>4. BusyInv
  BY DEF Init, BusyInv, Slot
<1> QED BY <1>1, <1>2, <1>3, <1>4 DEF IInv

LEMMA NextInv ==
    ASSUME IInv, [Next]_vars
    PROVE  IInv'
<1>1. CASE UNCHANGED vars
  BY <1>1 DEF vars, parent, IInv, TypeOK, PipeInv, JobInv, Books, BusyInv, SendFailed, Exhausted, Readable
<1> QED BY <1>1, PrimeStep, CollectStep, ParentStep, WorkerStep DEF Next, Parent

(* The books imply what a caller may expect.                               *)
LEMMA InvImplies ==
    ASSUME IInv
    PROVE  ResultIsItsOwn /\ ReportedOnce /\ NoLateAnswer /\ AnsweredUnlessSendFailed
<1>1. ResultIsItsOwn
  BY DEF IInv, JobInv, Books, ResultIsItsOwn, NoAnswer
<1>2. ReportedOnce /\ NoLateAnswer
  BY DEF IInv, JobInv, Books, PipeInv, ReportedOnce, NoLateAnswer
<1>3. AnsweredUnlessSendFailed
  <2>1. SUFFICES ASSUME phase = "returned", ~SendFailed, NEW j \in Job PROVE result[j] # NoAnswer
    BY DEF AnsweredUnlessSendFailed, SendFailed
  <2>2. 1 \in Slot /\ 1 <= primed /\ inFlight[1] = None
    BY <2>1, EvalAssumption DEF IInv, TypeOK, BusyInv, Slot
  <2>3. j < next
    <3>1. Exhausted
      BY <2>1, <2>2 DEF IInv, BusyInv
    <3>2. next \in Int /\ j <= Jobs /\ j \in Int
      BY EvalAssumption DEF IInv, TypeOK, Job
    <3> QED BY <3>1, <3>2, EvalAssumption DEF Exhausted
  <2>4. \A t \in Slot : inFlight[t] # j
    BY <2>1 DEF IInv, BusyInv, Job, None
  <2> QED BY <2>3, <2>4 DEF IInv, JobInv, Books
<1> QED BY <1>1, <1>2, <1>3

(* The result of a job is the answer of that job, after any number of      *)
(* deaths, respawns and answers out of order (evaluate_many).              *)
THEOREM ResultTheorem == Spec => []ResultIsItsOwn
<1>1. Init => IInv
  BY InitInv
<1>2. IInv /\ [Next]_vars => IInv'
  BY NextInv
<1>3. IInv => ResultIsItsOwn
  BY InvImplies
<1> QED BY <1>1, <1>2, <1>3, PTL DEF Spec

(* When evaluate_many() returns, every job has a result, or a send has     *)
(* failed: a worker that dies over a job costs no other job.               *)
THEOREM AnsweredTheorem == Spec => []AnsweredUnlessSendFailed
<1>1. Init => IInv
  BY InitInv
<1>2. IInv /\ [Next]_vars => IInv'
  BY NextInv
<1>3. IInv => AnsweredUnlessSendFailed
  BY InvImplies
<1> QED BY <1>1, <1>2, <1>3, PTL DEF Spec

(* on_result is called once for each job, when its result is known, and no *)
(* answer is ever read for a job it is not of.                             *)
THEOREM ReportTheorem == Spec => [](ReportedOnce /\ NoLateAnswer)
<1>1. Init => IInv
  BY InitInv
<1>2. IInv /\ [Next]_vars => IInv'
  BY NextInv
<1>3. IInv => ReportedOnce /\ NoLateAnswer
  BY InvImplies
<1> QED BY <1>1, <1>2, <1>3, PTL DEF Spec
=============================================================================
