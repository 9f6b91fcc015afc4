------------------------- MODULE UpdateGroupProofs -------------------------
(***************************************************************************)
(* Lockstep of the update group (LockstepTheorem), and the gradient of its *)
(* steps (StepTheorem), for any number of ranks, buffers, chunks that do   *)
(* not fit and workers that die.                                           *)
(*                                                                         *)
(* The ranks of an optimizer step enter it together, with one gradient.    *)
(* From there to the next collective a rank is at most one step ahead of   *)
(* another, and only of one that is about to take the very same step or    *)
(* has left the update for good.                                           *)
(*                                                                         *)
(* Ranks cut one minibatch into shards, and a rank cuts its rows into      *)
(* chunks: no row is in two of them or in none.  While a rank works, its   *)
(* gradient is that of its rows without those still to do; the sum over    *)
(* the ranks is that of the minibatch.  What the folds of the model        *)
(* compute is proved from a least set, or number, without the property.    *)
(***************************************************************************)
EXTENDS UpdateGroup, FiniteSetTheorems, SequenceTheorems, TLAPS

Updating == {"perm", "chunks", "grads", "step", "sums"}
Pcs == Updating \cup {"main", "send", "msg", "destroy", "join", "left"}

UpdType == [frozen : BOOLEAN, perm : Perms \cup {<<>>}, epoch : Nat, start : Nat]

(* The types the argument needs; a policy is a sequence of whatever.       *)
TypeOK ==
    /\ setup \in Setups
    /\ pc \in [Ranks -> Pcs]
    /\ msg \in [kind : {"state", "update", "stop"}, iteration : Nat]
    /\ DOMAIN lr = Ranks /\ DOMAIN grad = Ranks
    /\ upd \in [Ranks -> UpdType]
    /\ DOMAIN steps = Ranks
    /\ \A r \in Ranks : /\ steps[r] = [base |-> steps[r].base, done |-> steps[r].done]
                        /\ \E S : steps[r].done \in Seq(S)

Done(r)  == steps[r].done
Entry(r) == [grad |-> grad[r], lr |-> lr[r]]
Out(r)   == pc[r] = "left" \/ (r = 0 /\ msg.kind = "stop")

(* Where the ranks may be, by what rank 0 does.                            *)
PhaseInv ==
    /\ msg.kind = "stop" => pc[0] \in {"send", "destroy", "join", "left"}
    /\ msg.kind = "state" => pc[0] \in {"send", "main"}
    /\ pc[0] # "msg"
    /\ \A r \in Workers : pc[r] \notin {"main", "send", "join"}
    /\ msg.kind # "stop" /\ pc[0] \in {"main", "send"} =>
         \A r \in Workers : pc[r] \in {"msg", "left"}
    /\ setup.mode # "ddp" => \A r \in Ranks : r = 0

LrInv == \A r, q \in Ranks : pc[r] \in Updating /\ pc[q] \in Updating => lr[r] = lr[q]

(* q has taken a step that r is about to take, or never will.              *)
Behind(r, q) ==
    /\ \E x : Done(q) = Append(Done(r), x)
    /\ pc[r] = "step" => Done(q) = Append(Done(r), Entry(r))
    /\ pc[r] = "step" \/ Out(r)
    /\ pc[q] # "step"

StepInv ==
    \A r, q \in Ranks : pc[r] = "step" =>
        /\ pc[q] = "step" => grad[r] = grad[q] /\ Done(r) = Done(q)
        /\ pc[q] # "step" /\ ~Out(q) => Behind(r, q)

PairInv == \A r, q \in Ranks : Done(r) = Done(q) \/ Behind(r, q) \/ Behind(q, r)

BaseInv ==
    \/ /\ \A r \in Ranks : upd[r].perm = <<>>
       /\ msg.kind = "stop" \/ (msg.kind = "state" /\ pc[0] = "send")
    \/ \A r, q \in Ranks : steps[r].base = steps[q].base

IInv == TypeOK /\ PhaseInv /\ LrInv /\ StepInv /\ PairInv /\ BaseInv

-----------------------------------------------------------------------------
(* A sequence is a prefix of what is appended to it.                       *)
LEMMA AppendPrefix ==
    ASSUME NEW S, NEW s \in Seq(S), NEW x
    PROVE  /\ Append(s, x) \in Seq(S \cup {x})
           /\ IsPrefix(s, s)
           /\ IsPrefix(s, Append(s, x))
           /\ Append(s, x) # s
<1>1. s \in Seq(S \cup {x})
  OBVIOUS
<1>2. Append(s, x) \in Seq(S \cup {x}) /\ Len(Append(s, x)) = Len(s) + 1
  BY <1>1
<1>3. \A i \in 1..Len(s) : Append(s, x)[i] = s[i]
  BY <1>1
<1>4. SubSeq(s, 1, Len(s)) = SubSeq(Append(s, x), 1, Len(s))
  BY <1>1, <1>2, <1>3
<1> QED BY <1>2, <1>4 DEF IsPrefix

(* A rank goes on within its update, on the same permutation.              *)
LEMMA GoesOn ==
    ASSUME NEW r, NEW u \in UpdType, NEW g
    PROVE  /\ GoOn(r, u, g).pc \in {"chunks", "perm", "sums"}
           /\ GoOn(r, u, g).upd \in UpdType
           /\ GoOn(r, u, g).upd.perm = u.perm
BY DEF GoOn, UpdType

(* The trainer is a rank, and the only one unless there is a group.        *)
LEMMA RankZero ==
    ASSUME TypeOK
    PROVE  0 \in Ranks /\ (setup.mode # "ddp" => \A r \in Ranks : r = 0)
BY UpdateAssumption DEF TypeOK, Ranks

-----------------------------------------------------------------------------
(* A step that takes no optimizer step, in which no rank comes to one, and *)
(* which no rank leaves without leaving the update, keeps the lockstep.    *)
LEMMA OtherSteps ==
    ASSUME IInv, setup' = setup, steps' = steps,
           \A r \in Ranks : pc'[r] = "step" =>
               pc[r] = "step" /\ grad'[r] = grad[r] /\ lr'[r] = lr[r],
           \A r \in Ranks : pc[r] = "step" => pc'[r] = "step" \/ Out(r)',
           \A r \in Ranks : Out(r) => Out(r)'
    PROVE  StepInv' /\ PairInv'
<1>1. Ranks' = Ranks
  BY DEF Ranks
<1>2. \A r : Done(r)' = Done(r)
  BY DEF Done
<1>3. \A r \in Ranks : pc'[r] = "step" => Entry(r)' = Entry(r)
  BY DEF Entry
<1>4. ASSUME NEW r \in Ranks, NEW q \in Ranks, Behind(r, q)
      PROVE  Behind(r, q)'
  <2>1. pc'[q] # "step" /\ (pc'[r] = "step" \/ Out(r)')
    BY <1>4 DEF Behind
  <2>2. pc'[r] = "step" => Done(q)' = Append(Done(r)', Entry(r)')
    BY <1>2, <1>3, <1>4 DEF Behind
  <2>3. \E x : Done(q)' = Append(Done(r)', x)
    BY <1>2, <1>4 DEF Behind
  <2> QED BY <2>1, <2>2, <2>3 DEF Behind
<1>5. PairInv'
  BY <1>1, <1>2, <1>4 DEF PairInv, IInv
<1>6. ASSUME NEW r \in Ranks, NEW q \in Ranks, pc'[r] = "step"
      PROVE  /\ pc'[q] = "step" => grad'[r] = grad'[q] /\ Done(r)' = Done(q)'
             /\ pc'[q] # "step" /\ ~Out(q)' => Behind(r, q)'
  BY <1>2, <1>4, <1>6 DEF StepInv, IInv
<1>7. StepInv'
  BY <1>1, <1>6 DEF StepInv
<1> QED BY <1>5, <1>7

(* A rank that is alone is in lockstep.                                    *)
LEMMA Alone ==
    ASSUME setup' = setup, \A r \in Ranks : r = 0
    PROVE  StepInv' /\ PairInv'
<1>1. \A r, q \in Ranks' : r = q
  BY DEF Ranks
<1>2. PairInv'
  BY <1>1 DEF PairInv
<1>3. StepInv'
  BY <1>1 DEF StepInv
<1> QED BY <1>2, <1>3

-----------------------------------------------------------------------------
(* The actions of the trainer alone.                                       *)
LEMMA BeginIterationStep ==
    ASSUME IInv, BeginIteration
    PROVE  IInv'
<1>1. 0 \in Ranks /\ Ranks' = Ranks /\ Workers' = Workers
  BY RankZero DEF IInv, BeginIteration, Ranks, Workers
<1>2. TypeOK'
  <2>1. setup' \in Setups /\ pc' \in [Ranks -> Pcs] /\ DOMAIN lr' = Ranks /\ DOMAIN grad' = Ranks
    BY <1>1 DEF IInv, TypeOK, BeginIteration, Pcs, Updating
  <2>2. msg' \in [kind : {"state", "update", "stop"}, iteration : Nat]
    BY DEF IInv, TypeOK, BeginIteration
  <2>3. \A b \in BOOLEAN : [NoUpd EXCEPT !.frozen = b] \in UpdType
    BY DEF UpdType, NoUpd
  <2>4. (msg.iteration + 1 <= setup.warm) \in BOOLEAN
    OBVIOUS
  <2>5. upd'[0] = [NoUpd EXCEPT !.frozen = msg.iteration + 1 <= setup.warm]
    BY <1>1 DEF IInv, TypeOK, BeginIteration
  <2>6. upd'[0] \in UpdType
    BY <2>3, <2>4, <2>5, Zenon
  <2>7. upd' \in [Ranks -> UpdType]
    BY <1>1, <2>6 DEF IInv, TypeOK, BeginIteration
  <2>8. steps' = steps
    BY DEF BeginIteration
  <2> QED BY <1>1, <2>1, <2>2, <2>7, <2>8 DEF IInv, TypeOK
<1>3. PhaseInv'
  BY <1>1 DEF IInv, TypeOK, PhaseInv, BeginIteration, Workers
<1>4. \A r \in Ranks : r # 0 => pc[r] \in {"msg", "left"} /\ pc'[r] = pc[r]
  BY <1>1 DEF IInv, TypeOK, PhaseInv, BeginIteration, Workers
<1>5. LrInv'
  BY <1>1, <1>4 DEF LrInv, Updating
<1>6. msg.kind # "stop" /\ pc[0] = "main" /\ pc'[0] \in {"send", "perm"}
  BY <1>1 DEF IInv, TypeOK, PhaseInv, BeginIteration
<1>7. \A r \in Ranks : Out(r) => Out(r)'
  BY <1>4, <1>6 DEF Out
<1>8. StepInv' /\ PairInv'
  BY <1>4, <1>6, <1>7, OtherSteps DEF BeginIteration
<1>9. BaseInv'
  BY <1>1, <1>6 DEF IInv, BaseInv, BeginIteration
<1> QED BY <1>2, <1>3, <1>5, <1>8, <1>9 DEF IInv

LEMMA TeardownStep ==
    ASSUME IInv, Teardown
    PROVE  IInv'
<1>1. 0 \in Ranks /\ Ranks' = Ranks /\ Workers' = Workers
  BY RankZero DEF IInv, Teardown, Ranks, Workers
<1>2. pc[0] = "main" /\ pc'[0] \in {"send", "join"} /\ msg'.kind = "stop"
  BY <1>1 DEF IInv, TypeOK, Teardown, TornDown
<1>3. \A r \in Ranks : r # 0 => pc'[r] = pc[r]
  BY DEF IInv, TypeOK, Teardown
<1>4. TypeOK'
  BY <1>1, <1>2, <1>3 DEF IInv, TypeOK, Teardown, TornDown, Pcs, Updating
<1>5. PhaseInv'
  BY <1>1, <1>2, <1>3 DEF IInv, PhaseInv, Workers, Teardown
<1>6. LrInv'
  BY <1>1, <1>2, <1>3 DEF IInv, LrInv, Updating, Teardown
<1>7. StepInv' /\ PairInv'
  BY <1>2, <1>3, OtherSteps DEF Out, Teardown
<1>8. BaseInv'
  BY <1>1, <1>2 DEF IInv, BaseInv, Teardown
<1> QED BY <1>4, <1>5, <1>6, <1>7, <1>8 DEF IInv

LEMMA JoinStep ==
    ASSUME IInv, Join
    PROVE  IInv'
<1>1. 0 \in Ranks /\ Ranks' = Ranks /\ Workers' = Workers
  BY RankZero DEF IInv, Join, Ranks, Workers
<1>2. pc[0] = "join" /\ pc'[0] = "left"
  BY <1>1 DEF IInv, TypeOK, Join
<1>3. \A r \in Ranks : r # 0 => pc'[r] = pc[r]
  BY DEF IInv, TypeOK, Join
<1>4. TypeOK'
  BY <1>1, <1>2, <1>3 DEF IInv, TypeOK, Join, Pcs, Updating
<1>5. PhaseInv'
  BY <1>1, <1>2, <1>3 DEF IInv, PhaseInv, Workers, Join
<1>6. LrInv'
  BY <1>1, <1>2, <1>3 DEF IInv, LrInv, Updating, Join
<1>7. StepInv' /\ PairInv'
  BY <1>2, <1>3, OtherSteps DEF Out, Join
<1>8. BaseInv'
  BY <1>1, <1>2 DEF IInv, BaseInv, Join, PhaseInv
<1> QED BY <1>4, <1>5, <1>6, <1>7, <1>8 DEF IInv

-----------------------------------------------------------------------------
(* The collectives.                                                        *)
LEMMA ReceiveStateStep ==
    ASSUME IInv, ReceiveState
    PROVE  IInv'
<1>1. 0 \in Ranks /\ Ranks' = Ranks /\ Workers' = Workers
  BY RankZero DEF IInv, ReceiveState, Ranks, Workers
<1>2. \A r \in Ranks : pc'[r] = IF r = 0 THEN "main" ELSE "msg"
  BY <1>1 DEF ReceiveState, Blob
<1>3. TypeOK'
  BY <1>1, <1>2 DEF IInv, TypeOK, ReceiveState, Blob, Pcs, Updating
<1>4. PhaseInv'
  BY <1>1, <1>2 DEF IInv, PhaseInv, ReceiveState, Workers
<1>5. LrInv' /\ StepInv'
  BY <1>1, <1>2 DEF LrInv, StepInv, Updating
<1>6. PairInv' /\ BaseInv'
  BY <1>1 DEF PairInv, BaseInv, Done, ReceiveState
<1> QED BY <1>3, <1>4, <1>5, <1>6 DEF IInv

LEMMA ReceiveUpdateStep ==
    ASSUME IInv, ReceiveUpdate
    PROVE  IInv'
<1>1. 0 \in Ranks /\ Ranks' = Ranks /\ Workers' = Workers
  BY RankZero DEF IInv, ReceiveUpdate, Ranks, Workers
<1>2. \A r \in Ranks : pc'[r] = "perm" /\ ~Out(r) /\ pc[r] # "step"
  BY <1>1 DEF ReceiveUpdate, Blob, Everyone, Out
<1>3. TypeOK'
  BY <1>1, <1>2 DEF IInv, TypeOK, ReceiveUpdate, Everyone, Pcs, Updating
<1>4. PhaseInv'
  BY <1>1, <1>2 DEF IInv, PhaseInv, ReceiveUpdate, Workers
<1>5. LrInv'
  BY <1>1 DEF LrInv, ReceiveUpdate, LrOf
<1>6. StepInv' /\ PairInv'
  BY <1>2, OtherSteps DEF ReceiveUpdate
<1>7. BaseInv'
  BY <1>1 DEF IInv, BaseInv, ReceiveUpdate
<1> QED BY <1>3, <1>4, <1>5, <1>6, <1>7 DEF IInv

LEMMA ReceiveStopStep ==
    ASSUME IInv, ReceiveStop
    PROVE  IInv'
<1>1. 0 \in Ranks /\ Ranks' = Ranks /\ Workers' = Workers
  BY RankZero DEF IInv, ReceiveStop, Ranks, Workers
<1>2. \A r \in Ranks : pc'[r] = "destroy" /\ pc[r] \in {"send", "msg"}
  BY <1>1 DEF ReceiveStop, Blob, AfterStop
<1>3. TypeOK'
  BY <1>1, <1>2 DEF IInv, TypeOK, ReceiveStop, Pcs, AfterStop
<1>4. PhaseInv'
  BY <1>1, <1>2 DEF IInv, PhaseInv, ReceiveStop, Workers
<1>5. LrInv'
  BY <1>1, <1>2 DEF LrInv, Updating
<1>6. \A r \in Ranks : Out(r) => Out(r)'
  BY <1>2 DEF Out, ReceiveStop
<1>7. StepInv' /\ PairInv'
  BY <1>2, <1>6, OtherSteps DEF ReceiveStop
<1>8. BaseInv'
  BY <1>1 DEF IInv, BaseInv, ReceiveStop
<1> QED BY <1>3, <1>4, <1>5, <1>7, <1>8 DEF IInv

(* A rank inside an update: rank 0 has not been told to stop, and the      *)
(* weights have been broadcast.                                            *)
LEMMA Within ==
    ASSUME IInv, pc[0] \in Updating
    PROVE  msg.kind = "update" /\ \A r, q \in Ranks : steps[r].base = steps[q].base
BY RankZero DEF IInv, TypeOK, PhaseInv, BaseInv, Updating

LEMMA BroadcastPermStep ==
    ASSUME IInv, BroadcastPerm
    PROVE  IInv'
<1>1. 0 \in Ranks /\ Ranks' = Ranks /\ Workers' = Workers
  BY RankZero DEF IInv, BroadcastPerm, Ranks, Workers
<1>2. \A r \in Ranks : pc[r] = "perm"
  BY DEF BroadcastPerm, Meets
<1>3. msg.kind = "update" /\ msg' = msg /\ steps' = steps /\ setup' = setup /\ lr' = lr
  BY <1>1, <1>2, Within, Zenon DEF BroadcastPerm, Updating
<1>4. PICK perm \in Perms :
         LET next == [r \in Ranks |-> GoOn(r, [upd[r] EXCEPT !.perm = perm, !.start = 0], grad[r])]
         IN /\ pc' = [r \in Ranks |-> next[r].pc] /\ upd' = [r \in Ranks |-> next[r].upd]
            /\ work' = [r \in Ranks |-> next[r].work] /\ grad' = [r \in Ranks |-> next[r].grad]
  BY DEF BroadcastPerm
<1>5. ASSUME NEW r \in Ranks
      PROVE  pc'[r] \in {"chunks", "perm", "sums"} /\ upd'[r] \in UpdType
  <2> DEFINE u == [upd[r] EXCEPT !.perm = perm, !.start = 0]
  <2>1. u \in UpdType
    BY DEF IInv, TypeOK, UpdType
  <2>2. GoOn(r, u, grad[r]).pc \in {"chunks", "perm", "sums"} /\ GoOn(r, u, grad[r]).upd \in UpdType
    BY <2>1, GoesOn
  <2> QED BY <1>4, <2>2
<1>6. DOMAIN pc' = Ranks /\ pc' = [r \in DOMAIN pc' |-> pc'[r]]
      /\ DOMAIN upd' = Ranks /\ upd' = [r \in DOMAIN upd' |-> upd'[r]] /\ DOMAIN grad' = Ranks
  BY <1>4
<1>7. TypeOK'
  BY <1>1, <1>3, <1>5, <1>6 DEF IInv, TypeOK, Pcs, Updating
<1>8. PhaseInv'
  BY <1>1, <1>2, <1>3, <1>5 DEF IInv, PhaseInv, Workers
<1>9. LrInv'
  BY <1>1, <1>2, <1>3 DEF IInv, LrInv, Updating
<1>10. StepInv' /\ PairInv'
  <2>1. \A r \in Ranks : ~Out(r) /\ pc[r] # "step" /\ pc'[r] # "step"
    BY <1>2, <1>3, <1>5 DEF Out
  <2> QED BY <2>1, <1>3, OtherSteps
<1>11. BaseInv'
  BY <1>1, <1>2, <1>3, Within DEF BaseInv, Updating
<1> QED BY <1>7, <1>8, <1>9, <1>10, <1>11, Zenon DEF IInv

(* All ranks come to the optimizer step with one gradient: nobody is       *)
(* behind when they leave the reduction.                                   *)
LEMMA SyncGradsStep ==
    ASSUME IInv, SyncGrads
    PROVE  IInv'
<1>1. 0 \in Ranks /\ Ranks' = Ranks /\ Workers' = Workers
  BY RankZero DEF IInv, SyncGrads, Ranks, Workers
<1>2. \A r \in Ranks : pc[r] = "grads" /\ pc'[r] = "step" /\ grad'[r] = Summed
  BY DEF SyncGrads, Meets, Everyone
<1>3. msg.kind = "update" /\ msg' = msg /\ steps' = steps /\ setup' = setup /\ lr' = lr
  BY <1>1, <1>2, Within DEF SyncGrads, Updating
<1>4. \A r, q \in Ranks : Done(r) = Done(q)
  BY <1>2, <1>3 DEF IInv, PairInv, Behind, Out
<1>5. TypeOK'
  BY <1>1, <1>2, <1>3 DEF IInv, TypeOK, SyncGrads, Everyone, Pcs, Updating
<1>6. PhaseInv'
  BY <1>1, <1>2, <1>3 DEF IInv, PhaseInv, Workers
<1>7. LrInv'
  BY <1>1, <1>2, <1>3 DEF IInv, LrInv, Updating
<1>8. StepInv' /\ PairInv'
  BY <1>1, <1>2, <1>3, <1>4 DEF StepInv, PairInv, Done
<1>9. BaseInv'
  BY <1>1, <1>2, <1>3, Within DEF BaseInv, Updating
<1> QED BY <1>5, <1>6, <1>7, <1>8, <1>9 DEF IInv

LEMMA ReduceSumsStep ==
    ASSUME IInv, ReduceSums
    PROVE  IInv'
<1>1. 0 \in Ranks /\ Ranks' = Ranks /\ Workers' = Workers
  BY RankZero DEF IInv, ReduceSums, Ranks, Workers
<1>2. \A r \in Ranks : pc[r] = "sums" /\ pc'[r] = IF r = 0 THEN "main" ELSE "msg"
  BY DEF ReduceSums, Meets
<1>3. msg.kind = "update" /\ msg' = msg /\ steps' = steps /\ setup' = setup
  BY <1>1, <1>2, Within DEF ReduceSums, Updating
<1>4. TypeOK'
  BY <1>1, <1>2, <1>3 DEF IInv, TypeOK, ReduceSums, Pcs
<1>5. PhaseInv'
  BY <1>1, <1>2, <1>3 DEF IInv, PhaseInv, Workers
<1>6. LrInv'
  BY <1>1, <1>2 DEF LrInv, Updating
<1>7. \A r \in Ranks : ~Out(r)
  BY <1>2, <1>3 DEF Out
<1>8. StepInv' /\ PairInv'
  BY <1>2, <1>3, <1>7, OtherSteps
<1>9. BaseInv'
  BY <1>1, <1>2, <1>3, Within DEF BaseInv, Updating
<1> QED BY <1>4, <1>5, <1>6, <1>8, <1>9 DEF IInv

LEMMA DestroyStep ==
    ASSUME IInv, Destroy
    PROVE  IInv'
<1>1. 0 \in Ranks /\ Ranks' = Ranks /\ Workers' = Workers
  BY RankZero DEF IInv, Destroy, Ranks, Workers
<1>2. \A r \in Ranks : pc[r] \in {"destroy", "left"}
  BY DEF Destroy, Left
<1>3. \A r \in Ranks : pc'[r] = IF r = 0 /\ pc[r] # "left" THEN "join" ELSE "left"
  BY DEF Destroy, Left
<1>4. TypeOK'
  BY <1>1, <1>2 DEF IInv, TypeOK, Destroy, Left, Pcs
<1>5. PhaseInv'
  BY <1>1, <1>2, <1>3 DEF IInv, PhaseInv, Workers, Destroy
<1>6. LrInv'
  BY <1>1, <1>3 DEF LrInv, Updating
<1>7. \A r \in Ranks : Out(r) => Out(r)'
  BY <1>3 DEF Out, Destroy
<1>8. StepInv' /\ PairInv'
  BY <1>2, <1>3, <1>7, OtherSteps DEF Destroy
<1>9. BaseInv'
  BY <1>1, <1>2 DEF IInv, BaseInv, Destroy
<1> QED BY <1>4, <1>5, <1>6, <1>8, <1>9 DEF IInv

-----------------------------------------------------------------------------
(* The actions of one rank.  A chunk only changes the gradient of a rank   *)
(* that is in a minibatch.                                                 *)
LEMMA ChunkStep ==
    ASSUME IInv, NEW r \in Ranks, NEW g, pc[r] = "chunks", grad' = [grad EXCEPT ![r] = g],
           UNCHANGED <<setup, pc, msg, lr, steps, upd>>
    PROVE  IInv'
<1>1. Ranks' = Ranks /\ Workers' = Workers
  BY DEF Ranks, Workers
<1>2. TypeOK'
  BY <1>1 DEF IInv, TypeOK
<1>3. PhaseInv' /\ LrInv' /\ BaseInv'
  BY <1>1 DEF IInv, PhaseInv, LrInv, BaseInv, Updating
<1>4. \A q \in Ranks : pc'[q] = "step" => pc[q] = "step" /\ grad'[q] = grad[q] /\ lr'[q] = lr[q]
  BY DEF IInv, TypeOK
<1>5. \A q \in Ranks : Out(q) => Out(q)'
  BY DEF Out
<1>6. StepInv' /\ PairInv'
  BY <1>4, <1>5, OtherSteps
<1> QED BY <1>2, <1>3, <1>6 DEF IInv

(* A rank that raises, or is killed, is out of the update for good.        *)
LEMMA RaisedStep ==
    ASSUME IInv, NEW r \in Ranks, Raised(r), UNCHANGED <<setup, lr, steps, grad, upd>>
    PROVE  IInv'
<1>1. 0 \in Ranks /\ Ranks' = Ranks /\ Workers' = Workers
  BY RankZero DEF IInv, Ranks, Workers
<1>2. pc'[r] \in {"send", "join", "left"} /\ (r # 0 => pc'[r] = "left")
  BY DEF IInv, TypeOK, Raised, TornDown
<1>3. \A q \in Ranks : q # r => pc'[q] = pc[q]
  BY DEF IInv, TypeOK, Raised
<1>4. IF r = 0 THEN msg'.kind = "stop" /\ pc'[0] \in {"send", "join"} ELSE msg' = msg
  BY DEF IInv, TypeOK, Raised, TornDown
<1>5. TypeOK'
  BY <1>1, <1>2 DEF IInv, TypeOK, Raised, TornDown, Pcs, Updating
<1>6. PhaseInv'
  BY <1>1, <1>2, <1>3, <1>4 DEF IInv, PhaseInv, Workers
<1>7. LrInv'
  BY <1>1, <1>2, <1>3 DEF IInv, LrInv, Updating
<1>8. Out(r)' /\ \A q \in Ranks : Out(q) => Out(q)'
  BY <1>2, <1>3, <1>4 DEF Out
<1>9. StepInv' /\ PairInv'
  BY <1>2, <1>3, <1>8, OtherSteps
<1>10. BaseInv'
  BY <1>1, <1>3, <1>4 DEF IInv, BaseInv
<1> QED BY <1>5, <1>6, <1>7, <1>9, <1>10 DEF IInv

LEMMA ChunksDoneStep ==
    ASSUME IInv, NEW r \in Ranks, ChunksDone(r)
    PROVE  IInv'
<1>1. 0 \in Ranks /\ Ranks' = Ranks /\ Workers' = Workers
  BY RankZero DEF IInv, ChunksDone, Ranks, Workers
<1>2. pc[r] = "chunks" /\ pc'[r] = IF setup.mode = "ddp" THEN "grads" ELSE "step"
  BY DEF IInv, TypeOK, ChunksDone
<1>3. \A q \in Ranks : q # r => pc'[q] = pc[q]
  BY DEF IInv, TypeOK, ChunksDone
<1>4. msg' = msg /\ steps' = steps /\ setup' = setup /\ lr' = lr /\ grad' = grad /\ upd' = upd
  BY DEF ChunksDone
<1>5. TypeOK'
  BY <1>1, <1>4 DEF IInv, TypeOK, ChunksDone, Pcs, Updating
<1>6. PhaseInv'
  BY <1>1, <1>2, <1>3, <1>4 DEF IInv, PhaseInv, Workers
<1>7. LrInv'
  BY <1>1, <1>2, <1>3, <1>4 DEF IInv, LrInv, Updating
<1>8. StepInv' /\ PairInv'
  <2>1. CASE setup.mode = "ddp"
    <3>1. \A q \in Ranks : Out(q) => Out(q)'
      BY <1>2, <1>3, <1>4 DEF Out
    <3> QED BY <1>2, <1>3, <1>4, <2>1, <3>1, OtherSteps
  <2>2. CASE setup.mode # "ddp"
    BY <1>4, <2>2, RankZero, Alone DEF IInv
  <2> QED BY <2>1, <2>2
<1>9. BaseInv'
  BY <1>1, <1>2, <1>3, <1>4 DEF IInv, BaseInv
<1> QED BY <1>5, <1>6, <1>7, <1>8, <1>9 DEF IInv

(* The optimizer step.  Of two ranks that are level, the one that steps    *)
(* gets ahead by what the other is about to apply; one that was behind     *)
(* becomes level.                                                          *)
LEMMA OptimizerStepStep ==
    ASSUME IInv, NEW r \in Ranks, OptimizerStep(r)
    PROVE  IInv'
<1>1. 0 \in Ranks /\ Ranks' = Ranks /\ Workers' = Workers
  BY RankZero DEF IInv, OptimizerStep, Ranks, Workers
<1>2. pc[r] = "step" /\ msg' = msg /\ setup' = setup /\ lr' = lr
  BY DEF OptimizerStep
<1> DEFINE u == [upd[r] EXCEPT !.start = @ + BatchSize]
           next == GoOn(r, u, grad[r])
<1>3. /\ pc' = [pc EXCEPT ![r] = next.pc] /\ upd' = [upd EXCEPT ![r] = next.upd]
      /\ grad' = [grad EXCEPT ![r] = next.grad]
      /\ steps' = [steps EXCEPT ![r].done = Append(@, Entry(r))]
  BY DEF OptimizerStep, Entry
<1>4. u \in UpdType /\ u.perm = upd[r].perm
  <2>1. upd[r] \in UpdType /\ BatchSize \in Nat
    BY UpdateAssumption DEF IInv, TypeOK
  <2>2. upd[r].start + BatchSize \in Nat
    BY <2>1 DEF UpdType
  <2> QED BY <2>1, <2>2 DEF UpdType
<1> HIDE DEF u
<1>5. next.pc \in {"chunks", "perm", "sums"} /\ next.upd \in UpdType /\ next.upd.perm = upd[r].perm
  BY <1>4, GoesOn
<1> HIDE DEF next
<1>6. /\ pc'[r] \in {"chunks", "perm", "sums"} /\ upd'[r] \in UpdType /\ upd'[r].perm = upd[r].perm
      /\ \A q \in Ranks : q # r => pc'[q] = pc[q] /\ upd'[q] = upd[q] /\ grad'[q] = grad[q]
  BY <1>3, <1>5 DEF IInv, TypeOK
<1>7. Done(r)' = Append(Done(r), Entry(r)) /\ \A q \in Ranks : q # r => Done(q)' = Done(q)
  BY <1>3 DEF IInv, TypeOK, Done
<1>8. \A q \in Ranks : steps'[q].base = steps[q].base
  BY <1>3 DEF IInv, TypeOK
<1>9. \A q \in Ranks : q # r => (Out(q)' <=> Out(q)) /\ Entry(q)' = Entry(q)
  BY <1>2, <1>6 DEF Out, Entry
<1>10. ~Out(r)
  BY <1>1, <1>2 DEF IInv, PhaseInv, Out
<1>11. TypeOK'
  <2>1. pc' \in [Ranks -> Pcs] /\ upd' \in [Ranks -> UpdType] /\ DOMAIN grad' = Ranks /\ DOMAIN steps' = Ranks
    BY <1>3, <1>5 DEF IInv, TypeOK, Pcs, Updating
  <2>2. \A q \in Ranks : steps'[q] = [base |-> steps'[q].base, done |-> steps'[q].done]
    BY <1>3 DEF IInv, TypeOK
  <2>3. ASSUME NEW q \in Ranks
        PROVE  \E S : steps'[q].done \in Seq(S)
    <3>1. PICK S : steps[q].done \in Seq(S)
      BY DEF IInv, TypeOK
    <3>2. CASE q = r
      <4>1. Append(Done(r), Entry(r)) \in Seq(S \cup {Entry(r)})
        BY <3>1, <3>2, AppendPrefix DEF Done
      <4> QED BY <1>7, <3>2, <4>1 DEF Done
    <3>3. CASE q # r
      BY <1>7, <3>1, <3>3 DEF Done
    <3> QED BY <3>2, <3>3
  <2> QED BY <1>1, <1>2, <2>1, <2>2, <2>3 DEF IInv, TypeOK
<1>12. PhaseInv'
  BY <1>1, <1>2, <1>6 DEF IInv, PhaseInv, Workers
<1>13. LrInv'
  BY <1>1, <1>2, <1>6 DEF IInv, LrInv, Updating
<1>14. ASSUME NEW q \in Ranks, q # r, Done(q) = Done(r)
       PROVE  Behind(q, r)'
  <2>1. pc[q] = "step" => Entry(q) = Entry(r)
    BY <1>2 DEF IInv, StepInv, LrInv, Updating, Entry
  <2>2. pc[q] = "step" \/ Out(q)
    <3>1. SUFFICES ASSUME ~Out(q), pc[q] # "step" PROVE FALSE
      OBVIOUS
    <3>2. Done(q) = Append(Done(r), Entry(r))
      BY <1>2, <3>1 DEF IInv, StepInv, Behind
    <3>3. PICK S : Done(r) \in Seq(S)
      BY DEF IInv, TypeOK, Done
    <3> QED BY <1>14, <3>2, <3>3, AppendPrefix
  <2>3. Done(r)' = Append(Done(q)', Entry(r)) /\ Entry(q)' = Entry(q) /\ pc'[q] = pc[q]
    BY <1>6, <1>7, <1>9, <1>14
  <2> QED BY <1>6, <1>9, <1>14, <2>1, <2>2, <2>3 DEF Behind
<1>15. ASSUME NEW p \in Ranks, NEW q \in Ranks, p # r, q # r, Behind(p, q)
       PROVE  Behind(p, q)'
  BY <1>6, <1>7, <1>9, <1>15 DEF Behind
<1>16. ASSUME NEW q \in Ranks, q # r
       PROVE  Done(q)' = Done(r)' \/ Behind(q, r)'
  <2>1. CASE Behind(r, q)
    BY <1>2, <1>7, <1>16, <2>1 DEF Behind
  <2>2. ~Behind(q, r)
    BY <1>2 DEF Behind
  <2> QED BY <1>14, <1>16, <2>1, <2>2 DEF IInv, PairInv
<1>17. PairInv'
  <2>1. ASSUME NEW p \in Ranks, NEW q \in Ranks
        PROVE  Done(p)' = Done(q)' \/ Behind(p, q)' \/ Behind(q, p)'
    <3>1. CASE p = r \/ q = r
      BY <1>16, <3>1
    <3>2. CASE p # r /\ q # r
      BY <1>7, <1>15, <3>2 DEF IInv, PairInv
    <3> QED BY <3>1, <3>2
  <2> QED BY <1>1, <2>1 DEF PairInv
<1>18. StepInv'
  <2>1. ASSUME NEW p \in Ranks, NEW q \in Ranks, pc'[p] = "step"
        PROVE  /\ pc'[q] = "step" => grad'[p] = grad'[q] /\ Done(p)' = Done(q)'
               /\ pc'[q] # "step" /\ ~Out(q)' => Behind(p, q)'
    <3>1. p # r /\ pc[p] = "step"
      BY <1>6, <2>1
    <3>2. CASE q = r
      <4>1. Done(p) = Done(r)
        BY <1>2, <3>1 DEF IInv, StepInv
      <4> QED BY <1>6, <1>14, <3>1, <3>2, <4>1
    <3>3. CASE q # r
      BY <1>6, <1>7, <1>9, <1>15, <3>1, <3>3 DEF IInv, StepInv
    <3> QED BY <3>2, <3>3
  <2> QED BY <1>1, <2>1 DEF StepInv
<1>19. BaseInv'
  <2>1. \A q \in Ranks : upd'[q].perm = upd[q].perm
    BY <1>6
  <2>2. pc'[0] = "send" <=> pc[0] = "send"
    BY <1>1, <1>2, <1>6
  <2> QED BY <1>1, <1>2, <1>8, <2>1, <2>2 DEF IInv, BaseInv
<1> QED BY <1>11, <1>12, <1>13, <1>17, <1>18, <1>19 DEF IInv

-----------------------------------------------------------------------------
(* The initial states satisfy the invariant.                               *)
LEMMA InitInv ==
    ASSUME Init
    PROVE  IInv
<1>1. setup \in Setups /\ 0 \in Ranks
  BY UpdateAssumption DEF Init, Ranks
<1>2. \A r \in Ranks : pc[r] = IF r > 0 THEN "msg" ELSE IF setup.mode = "ddp" THEN "send" ELSE "main"
  BY DEF Init
<1>3. \A r \in Ranks : r = 0 \/ r > 0
  BY <1>1, UpdateAssumption DEF Ranks
<1>4. NoUpd \in UpdType
  BY DEF NoUpd, UpdType
<1>5. <<>> \in Seq({})
  OBVIOUS
<1>6. ASSUME NEW r \in Ranks
      PROVE  /\ steps[r] = [base |-> r, done |-> <<>>] /\ steps[r].base = r /\ steps[r].done = <<>>
             /\ upd[r].perm = <<>>
  <2>1. steps[r] = [base |-> r, done |-> <<>>]
    BY DEF Init
  <2>2. \A b, d, s : s = [base |-> b, done |-> d] => s.base = b /\ s.done = d
    OBVIOUS
  <2>3. steps[r].base = r /\ steps[r].done = <<>>
    <3>1. \A e : steps[r] = [base |-> r, done |-> e] => steps[r].base = r /\ steps[r].done = e
      BY <2>2
    <3> QED BY <2>1, <3>1, Zenon
  <2> QED BY <2>1, <2>3 DEF Init, NoUpd
<1>7. setup.mode # "ddp" => \A r \in Ranks : r = 0
  BY <1>1, UpdateAssumption DEF Ranks
<1>8. TypeOK
  <2>1. pc \in [Ranks -> Pcs]
    BY DEF Init, Pcs, Updating
  <2>2. DOMAIN steps = Ranks
    BY DEF Init
  <2>3. \A r \in Ranks : /\ steps[r] = [base |-> steps[r].base, done |-> steps[r].done]
                         /\ \E S : steps[r].done \in Seq(S)
    <3>1. ASSUME NEW r \in Ranks
          PROVE  steps[r] = [base |-> steps[r].base, done |-> steps[r].done] /\ steps[r].done = <<>>
      BY <1>6, Zenon
    <3> QED BY <1>5, <3>1, Zenon
  <2> QED BY <1>1, <1>4, <2>1, <2>2, <2>3 DEF Init, TypeOK
<1>9. PhaseInv
  BY <1>1, <1>2, <1>3, <1>7 DEF Init, PhaseInv, Workers
<1>10. LrInv /\ StepInv /\ PairInv
  <2>1. \A r \in Ranks : pc[r] \notin Updating /\ pc[r] # "step"
    BY <1>2 DEF Updating
  <2>2. \A r \in Ranks : Done(r) = <<>>
    BY <1>6, Zenon DEF Done
  <2> QED BY <2>1, <2>2 DEF LrInv, StepInv, PairInv
<1>11. BaseInv
  BY <1>1, <1>2, <1>6, <1>7 DEF Init, BaseInv
<1> QED BY <1>8, <1>9, <1>10, <1>11 DEF IInv

(* Every step preserves the invariant.                                     *)
LEMMA NextInv ==
    ASSUME IInv, [Next]_vars
    PROVE  IInv'
<1>1. CASE Collective
  BY <1>1, ReceiveStateStep, ReceiveUpdateStep, ReceiveStopStep, BroadcastPermStep,
     SyncGradsStep, ReduceSumsStep, DestroyStep DEF Collective
<1>2. CASE Proceeds
  <2>1. CASE BeginIteration \/ Teardown \/ Join
    BY <2>1, BeginIterationStep, TeardownStep, JoinStep
  <2>2. ASSUME NEW r \in Ranks, ChunkFits(r)
        PROVE  IInv'
    BY <2>2, ChunkStep DEF ChunkFits
  <2> QED BY <1>2, <2>1, <2>2, ChunksDoneStep, OptimizerStepStep DEF Proceeds
<1>3. ASSUME NEW r \in Ranks, CollectiveFails(r)
      PROVE  IInv'
  BY <1>3, RaisedStep DEF CollectiveFails
<1>4. ASSUME NEW r \in Ranks, WorkerKilled(r)
      PROVE  IInv'
  <2>1. Raised(r) /\ UNCHANGED <<setup, lr, steps, grad, upd>>
    <3>1. r # 0
      BY <1>4 DEF WorkerKilled
    <3> QED BY <1>4, <3>1 DEF WorkerKilled, Raised
  <2> QED BY <2>1, RaisedStep
<1>5. ASSUME NEW r \in Ranks, WholeTooLarge(r)
      PROVE  IInv'
  BY <1>5, ChunkStep DEF WholeTooLarge, NoMemory
<1>6. ASSUME NEW r \in Ranks, ChunkTooLarge(r)
      PROVE  IInv'
  <2>1. CASE Raised(r) /\ UNCHANGED <<grad, work>>
    BY <1>6, <2>1, RaisedStep DEF ChunkTooLarge, NoMemory
  <2>2. CASE ~(Raised(r) /\ UNCHANGED <<grad, work>>)
    <3>1. PICK g : grad' = [grad EXCEPT ![r] = g]
      BY <1>6, <2>2 DEF ChunkTooLarge
    <3>2. pc[r] = "chunks" /\ UNCHANGED <<setup, pc, msg, lr, steps, upd>>
      BY <1>6, <2>2 DEF ChunkTooLarge, NoMemory
    <3> QED BY <3>1, <3>2, ChunkStep
  <2> QED BY <2>1, <2>2
<1>7. ASSUME NEW r \in Ranks, PlanTooLarge(r)
      PROVE  IInv'
  <2>1. CASE Raised(r) /\ UNCHANGED <<grad, work>>
    BY <1>7, <2>1, RaisedStep DEF PlanTooLarge, NoMemory
  <2>2. CASE ~(Raised(r) /\ UNCHANGED <<grad, work>>)
    BY <1>7, <2>2, ChunkStep DEF PlanTooLarge, NoMemory
  <2> QED BY <2>1, <2>2
<1>8. CASE UNCHANGED vars
  <2>1. Ranks' = Ranks /\ Workers' = Workers
    BY <1>8 DEF vars, Ranks, Workers
  <2>2. TypeOK' /\ PhaseInv' /\ LrInv' /\ BaseInv'
    BY <1>8, <2>1 DEF vars, IInv, TypeOK, PhaseInv, LrInv, BaseInv
  <2>3. \A r \in Ranks : Out(r) => Out(r)'
    BY <1>8 DEF vars, Out
  <2>4. StepInv' /\ PairInv'
    BY <1>8, <2>3, OtherSteps DEF vars
  <2> QED BY <2>2, <2>4 DEF IInv
<1> QED BY <1>1, <1>2, <1>3, <1>4, <1>5, <1>6, <1>7, <1>8 DEF Next, Fails

(* Of two ranks that are level or one step apart, one is a prefix.         *)
LEMMA InvLockstep ==
    ASSUME IInv
    PROVE  Lockstep
<1> SUFFICES ASSUME NEW r \in Ranks, NEW q \in Ranks, upd[r].perm # <<>>, upd[q].perm # <<>>
             PROVE  /\ steps[r].base = steps[q].base
                    /\ IsPrefix(steps[r].done, steps[q].done) \/ IsPrefix(steps[q].done, steps[r].done)
  BY DEF Lockstep
<1>1. steps[r].base = steps[q].base
  BY DEF IInv, BaseInv
<1>2. ASSUME NEW p \in Ranks
      PROVE  IsPrefix(Done(p), Done(p)) /\ \A x : IsPrefix(Done(p), Append(Done(p), x))
  <2>1. PICK S : Done(p) \in Seq(S)
    BY DEF IInv, TypeOK, Done
  <2> QED BY <2>1, AppendPrefix
<1>3. IsPrefix(Done(r), Done(q)) \/ IsPrefix(Done(q), Done(r))
  BY <1>2 DEF IInv, PairInv, Behind
<1> QED BY <1>1, <1>3 DEF Done

(* The policies of the ranks never diverge: those that have taken part in  *)
(* an update started from the same weights and have taken the same steps,  *)
(* with the same gradients and learning rates, up to those still to be     *)
(* made (DDPUpdateGroup, sync_grads).                                      *)
THEOREM LockstepTheorem == Spec => []Lockstep
<1>1. Init => IInv
  BY InitInv
<1>2. IInv /\ [Next]_vars => IInv'
  BY NextInv
<1>3. IInv => Lockstep
  BY InvLockstep
<1> QED BY <1>1, <1>2, <1>3, PTL DEF Spec

-----------------------------------------------------------------------------
(***************************************************************************)
(* What a fold computes.  A fold is a function that is recursive over the  *)
(* subsets of a finite set, which takes an element out of each: there is   *)
(* one (FoldExists), so the fold satisfies its own equation, and a property *)
(* of it is proved at a least set, or number, that has not got it.         *)
(***************************************************************************)

(* Every set of finite sets has one without a proper subset in it.         *)
LEMMA LeastSet ==
    ASSUME NEW S, IsFiniteSet(S), NEW T, T \subseteq SUBSET S, T # {}
    PROVE  \E t \in T : \A s \in T : s \subseteq t => s = t
<1>1. IsWellFoundedOn(StrictSubsetOrdering(S), SUBSET S)
  BY FS_StrictSubsetOrderingWellFounded, FS_FiniteSubsetsOfFinite, Zenon
<1>2. PICK t \in T : \A s \in T : ~(<<s, t>> \in StrictSubsetOrdering(S))
  BY <1>1, WFMin
<1>3. ASSUME NEW s \in T, s \subseteq t, s # t PROVE FALSE
  <2>1. <<s, t>> \in (SUBSET S) \X (SUBSET S)
    BY <1>3
  <2>2. <<s, t>> \in StrictSubsetOrdering(S)
    BY <1>3, <2>1 DEF StrictSubsetOrdering
  <2> QED BY <1>2, <1>3, <2>2
<1> QED BY <1>3

(* The recursion of a fold over the subsets of t, where c takes an element *)
(* out of each and step folds it in.                                       *)
Unfolds(h, t, base, step, c) ==
    \A s \in SUBSET t : h[s] = IF s = {} THEN base ELSE step[c[s]][h[s \ {c[s]}]]

(* There is one way only to fold the same set.                             *)
LEMMA FoldUnique ==
    ASSUME NEW S, IsFiniteSet(S), NEW base, NEW step,
           NEW c, \A s \in SUBSET S : s # {} => c[s] \in s,
           NEW t \in SUBSET S, NEW u \in SUBSET S, NEW g, NEW h,
           Unfolds(g, t, base, step, c), Unfolds(h, u, base, step, c)
    PROVE  \A s \in SUBSET (t \cap u) : g[s] = h[s]
<1> DEFINE Bad == {s \in SUBSET (t \cap u) : g[s] # h[s]}
<1>1. SUFFICES ASSUME Bad # {} PROVE FALSE
  OBVIOUS
<1>2. Bad \subseteq SUBSET S
  OBVIOUS
<1> HIDE DEF Bad
<1>3. PICK s \in Bad : \A r \in Bad : r \subseteq s => r = s
  BY <1>1, <1>2, LeastSet
<1>4. s \in SUBSET t /\ s \in SUBSET u /\ g[s] # h[s] /\ s \in SUBSET S
  BY <1>2 DEF Bad
<1>5. s # {} /\ c[s] \in s
  BY <1>4 DEF Unfolds
<1>6. g[s \ {c[s]}] = h[s \ {c[s]}]
  BY <1>3, <1>4, <1>5 DEF Bad
<1>7. g[s] = step[c[s]][g[s \ {c[s]}]] /\ h[s] = step[c[s]][h[s \ {c[s]}]]
  BY <1>4, <1>5 DEF Unfolds
<1> QED BY <1>4, <1>6, <1>7

Folds(g, S, base, step, c) ==
    g = [s \in SUBSET S |-> IF s = {} THEN base ELSE step[c[s]][g[s \ {c[s]}]]]

LEMMA FoldExists ==
    ASSUME NEW S, IsFiniteSet(S), NEW base, NEW step,
           NEW c, \A s \in SUBSET S : s # {} => c[s] \in s
    PROVE  \E g : Folds(g, S, base, step, c)
<1> DEFINE Fold(s) == CHOOSE h : Unfolds(h, s, base, step, c)
           Bad == {s \in SUBSET S : ~Unfolds(Fold(s), s, base, step, c)}
           At(t) == [s \in SUBSET t |-> IF s = {} THEN base ELSE step[c[s]][Fold(s \ {c[s]})[s \ {c[s]}]]]
<1>1. ASSUME NEW t \in SUBSET S, \A s \in SUBSET t : s # t => s \notin Bad
      PROVE  Unfolds(At(t), t, base, step, c)
  <2>0. At(t)[{}] = base
    OBVIOUS
  <2>1. SUFFICES ASSUME NEW s \in SUBSET t, s # {}
                 PROVE  At(t)[s] = step[c[s]][At(t)[s \ {c[s]}]]
    <3> HIDE DEF At
    <3> QED BY <2>0 DEF Unfolds
  <2> DEFINE r == s \ {c[s]}
  <2>2. c[s] \in s /\ r \in SUBSET t /\ r # t
    BY <2>1
  <2>3. At(t)[s] = step[c[s]][Fold(r)[r]]
    BY <2>1
  <2>4. Unfolds(Fold(r), r, base, step, c)
    BY <1>1, <2>2
  <2>5. At(t)[r] = Fold(r)[r]
    <3>1. CASE r = {}
      <4>1. Fold(r)[r] = base
        BY <2>4, <3>1 DEF Unfolds
      <4> QED BY <2>2, <3>1, <4>1
    <3>2. CASE r # {}
      <4> DEFINE q == r \ {c[r]}
      <4>1. c[r] \in r /\ q \in SUBSET t /\ q # t
        BY <2>2, <3>2
      <4>2. Fold(r)[r] = step[c[r]][Fold(r)[q]]
        BY <2>4, <3>2 DEF Unfolds
      <4>3. Unfolds(Fold(q), q, base, step, c)
        BY <1>1, <4>1
      <4>4. Fold(r)[q] = Fold(q)[q]
        <5>1. q \in SUBSET (r \cap q) /\ r \in SUBSET S /\ q \in SUBSET S
          BY <2>2
        <5> HIDE DEF q, r, Fold
        <5> QED BY <2>4, <4>3, <5>1, FoldUnique
      <4>5. At(t)[r] = step[c[r]][Fold(q)[q]]
        BY <2>2, <3>2
      <4> HIDE DEF At, Fold, q, r
      <4> QED BY <4>2, <4>4, <4>5
    <3> QED BY <3>1, <3>2
  <2> HIDE DEF At, Fold, r
  <2> QED BY <2>3, <2>5 DEF r
<1>2. \A t \in SUBSET S : (\E h : Unfolds(h, t, base, step, c)) => t \notin Bad
  OBVIOUS
<1>3. Bad = {}
  <2>1. SUFFICES ASSUME Bad # {} PROVE FALSE
    OBVIOUS
  <2>2. Bad \subseteq SUBSET S
    OBVIOUS
  <2> HIDE DEF Bad, At
  <2>3. PICK t \in Bad : \A s \in Bad : s \subseteq t => s = t
    BY <2>1, <2>2, LeastSet
  <2>4. Unfolds(At(t), t, base, step, c)
    BY <1>1, <2>2, <2>3
  <2> QED BY <1>2, <2>2, <2>3, <2>4
<1>4. Unfolds(At(S), S, base, step, c)
  BY <1>1, <1>3
<1>5. At(S) = [s \in SUBSET S |-> IF s = {} THEN base ELSE step[c[s]][At(S)[s \ {c[s]}]]]
  <2>1. \A s \in SUBSET S : At(S)[s] = IF s = {} THEN base ELSE step[c[s]][At(S)[s \ {c[s]}]]
    BY <1>4 DEF Unfolds
  <2>2. At(S) = [s \in SUBSET S |-> At(S)[s]]
    OBVIOUS
  <2>3. DOMAIN At(S) = SUBSET S
    BY Zenon
  <2> HIDE DEF At
  <2> QED BY <2>1, <2>2, <2>3
<1>6. Folds(At(S), S, base, step, c)
  <2> HIDE DEF At
  <2> QED BY <1>5 DEF Folds
<1> HIDE DEF At
<1> QED BY <1>6

LEMMA FoldTyped ==
    ASSUME NEW S, IsFiniteSet(S), NEW V, NEW base \in V,
           NEW step, \A x \in S : step[x] \in [V -> V],
           NEW c, \A s \in SUBSET S : s # {} => c[s] \in s
    PROVE  \E g \in [SUBSET S -> V] : Folds(g, S, base, step, c)
<1>1. PICK g : Folds(g, S, base, step, c)
  BY FoldExists
<1>2. \A s \in SUBSET S : g[s] = IF s = {} THEN base ELSE step[c[s]][g[s \ {c[s]}]]
  <2>1. \A h : g = [s \in SUBSET S |-> IF s = {} THEN base ELSE step[c[s]][h[s \ {c[s]}]]]
          => \A s \in SUBSET S : g[s] = IF s = {} THEN base ELSE step[c[s]][h[s \ {c[s]}]]
    OBVIOUS
  <2> QED BY <1>1, <2>1 DEF Folds
<1> DEFINE Bad == {s \in SUBSET S : g[s] \notin V}
<1>3. Bad = {}
  <2>1. SUFFICES ASSUME Bad # {} PROVE FALSE
    OBVIOUS
  <2>2. PICK s \in Bad : \A r \in Bad : r \subseteq s => r = s
    <3>1. Bad \subseteq SUBSET S
      OBVIOUS
    <3> HIDE DEF Bad
    <3> QED BY <2>1, <3>1, LeastSet
  <2>3. s \in SUBSET S /\ s # {} /\ c[s] \in s /\ g[s] \notin V
    BY <1>2
  <2>4. g[s \ {c[s]}] \in V
    BY <2>2, <2>3
  <2>5. step[c[s]][g[s \ {c[s]}]] \in V
    BY <2>3, <2>4
  <2> QED BY <1>2, <2>3, <2>5
<1>4. g \in [SUBSET S -> V]
  <2>1. DOMAIN g = SUBSET S /\ g = [s \in SUBSET S |-> g[s]]
    BY <1>1 DEF Folds
  <2> QED BY <1>3, <2>1
<1> QED BY <1>1, <1>4

-----------------------------------------------------------------------------
(* Gradients.                                                              *)
Grads == UNION {[P -> [Samples -> Nat]] : P \in SUBSET Params}

LEMMA PlusIn ==
    ASSUME NEW g \in Grads, NEW h \in Grads
    PROVE  Plus(g, h) \in Grads
<1>1. PICK P \in SUBSET Params : g \in [P -> [Samples -> Nat]]
  BY DEF Grads
<1>2. PICK Q \in SUBSET Params : h \in [Q -> [Samples -> Nat]]
  BY DEF Grads
<1>3. \A p \in P \cup Q, x \in Samples : Times(g, p, x) + Times(h, p, x) \in Nat
  BY <1>1, <1>2 DEF Times
<1>4. Plus(g, h) \in [P \cup Q -> [Samples -> Nat]]
  BY <1>1, <1>2, <1>3 DEF Plus
<1> QED BY <1>4 DEF Grads

LEMMA NoGradIn == NoGrad \in Grads
<1>1. NoGrad \in [{} -> [Samples -> Nat]]
  BY DEF NoGrad
<1> QED BY <1>1 DEF Grads

SumOf(f) == FoldFunction(Plus, NoGrad, f)

AddsUp(g, S, f) ==
    /\ g[{}] = NoGrad
    /\ \A s \in SUBSET S : s # {} => \E r \in s : g[s] = Plus(f[r], g[s \ {r}])

(* The sum over the ranks is taken one rank at a time.                     *)
LEMMA FoldSums ==
    ASSUME NEW S, IsFiniteSet(S), NEW f \in [S -> Grads]
    PROVE  \E g : g[S] = SumOf(f) /\ AddsUp(g, S, f)
<1> DEFINE step == [r \in S |-> [v \in Grads |-> Plus(f[r], v)]]
           c == [s \in SUBSET S |-> CHOOSE r \in s : TRUE]
           Sums(h) == [s \in SUBSET S |->
                         IF s = {} THEN NoGrad
                         ELSE Plus(f[CHOOSE r \in s : TRUE], h[s \ {CHOOSE r \in s : TRUE}])]
<1>1. \A s \in SUBSET S : s # {} => c[s] \in s
  OBVIOUS
<1>2. \A r \in S : step[r] \in [Grads -> Grads]
  BY PlusIn
<1>3. PICK g \in [SUBSET S -> Grads] : Folds(g, S, NoGrad, step, c)
  <2> HIDE DEF step, c
  <2> QED BY <1>1, <1>2, NoGradIn, FoldTyped
<1>4. ASSUME NEW s \in SUBSET S, s # {}
      PROVE  step[c[s]][g[s \ {c[s]}]] = Plus(f[CHOOSE r \in s : TRUE], g[s \ {CHOOSE r \in s : TRUE}])
  <2>1. c[s] \in S /\ g[s \ {c[s]}] \in Grads /\ c[s] = CHOOSE r \in s : TRUE
    BY <1>1, <1>4
  <2> HIDE DEF c
  <2> QED BY <2>1
<1>5. g = Sums(g)
  <2> HIDE DEF step, c
  <2> QED BY <1>3, <1>4 DEF Folds
<1> DEFINE iter == CHOOSE h : h = Sums(h)
<1>6. iter = Sums(iter)
  <2> HIDE DEF Sums
  <2> QED BY <1>5
<1>7. SumOf(f) = iter[S]
  BY DEF SumOf, FoldFunction, FoldFunctionOnSet, MapThenFoldSet
<1>8. \A h, k : h = Sums(k) => /\ h[{}] = NoGrad
                               /\ \A s \in SUBSET S : s # {} => \E r \in s : h[s] = Plus(f[r], k[s \ {r}])
  OBVIOUS
<1> HIDE DEF iter, Sums
<1>9. AddsUp(iter, S, f)
  BY <1>6, <1>8 DEF AddsUp
<1> QED BY <1>7, <1>9

(* The gradient of a set of rows, each of them once.                       *)
GradOf(R, frozen, cut) ==
    [p \in UNION {Reaches(x, frozen, cut) : x \in R} |->
        [x \in Samples |-> IF x \in R /\ p \in Reaches(x, frozen, cut) THEN 1 ELSE 0]]

LEMMA BackwardIs ==
    ASSUME NEW rows, NEW frozen, NEW cut
    PROVE  Backward(rows, frozen, cut) = GradOf(ToSet(rows), frozen, cut)
BY DEF Backward, GradOf

LEMMA GradOfNone ==
    ASSUME NEW frozen, NEW cut
    PROVE  GradOf({}, frozen, cut) = NoGrad
BY DEF GradOf, NoGrad

LEMMA GradOfIn ==
    ASSUME NEW R \in SUBSET Samples, NEW frozen, NEW cut
    PROVE  GradOf(R, frozen, cut) \in Grads
<1> DEFINE P == UNION {Reaches(x, frozen, cut) : x \in R}
<1>1. \A x \in Samples : HeadOf[x] \in Params
  BY UpdateAssumption DEF Params, Range
<1>2. "net" \in Params /\ "critic" \in Params
  BY DEF Params
<1>3. P \subseteq Params
  BY <1>1, <1>2 DEF Reaches
<1>4. GradOf(R, frozen, cut) \in [P -> [Samples -> Nat]]
  BY DEF GradOf
<1> QED BY <1>3, <1>4 DEF Grads

LEMMA TimesOf ==
    ASSUME NEW R \in SUBSET Samples, NEW frozen, NEW cut, NEW p, NEW x \in Samples
    PROVE  Times(GradOf(R, frozen, cut), p, x) = IF x \in R /\ p \in Reaches(x, frozen, cut) THEN 1 ELSE 0
BY DEF Times, GradOf

(* Rows that are apart may be added to a gradient one set after another.   *)
LEMMA GradOfUnion ==
    ASSUME NEW A \in SUBSET Samples, NEW B \in SUBSET Samples, A \cap B = {}, NEW frozen, NEW cut
    PROVE  Plus(GradOf(A, frozen, cut), GradOf(B, frozen, cut)) = GradOf(A \cup B, frozen, cut)
<1> DEFINE a == GradOf(A, frozen, cut)
           b == GradOf(B, frozen, cut)
           d == GradOf(A \cup B, frozen, cut)
           P == UNION {Reaches(x, frozen, cut) : x \in A \cup B}
<1>1. DOMAIN a \cup DOMAIN b = P
  BY DEF GradOf
<1>2. d = [p \in P |-> [x \in Samples |-> IF x \in A \cup B /\ p \in Reaches(x, frozen, cut) THEN 1 ELSE 0]]
  BY DEF GradOf
<1>3. \A p \in P, x \in Samples :
         Times(a, p, x) + Times(b, p, x) = IF x \in A \cup B /\ p \in Reaches(x, frozen, cut) THEN 1 ELSE 0
  BY TimesOf
<1>4. Plus(a, b) = [p \in P |-> [x \in Samples |-> Times(a, p, x) + Times(b, p, x)]]
  BY <1>1 DEF Plus
<1> HIDE DEF a, b, d, P
<1> QED BY <1>2, <1>3, <1>4 DEF a, b, d

(* The rows of the ranks, if no two have one in common.                    *)
RowsOf(M, S) == UNION {M[r] : r \in S}

LEMMA SumOfRanks ==
    ASSUME NEW S, IsFiniteSet(S), NEW M \in [S -> SUBSET Samples],
           \A r, q \in S : r # q => M[r] \cap M[q] = {},
           NEW frozen, NEW cut,
           NEW f \in [S -> Grads], \A r \in S : f[r] = GradOf(M[r], frozen, cut)
    PROVE  SumOf(f) = GradOf(RowsOf(M, S), frozen, cut)
<1> DEFINE Rows(s) == RowsOf(M, s)
<1>2. PICK g : g[S] = SumOf(f) /\ AddsUp(g, S, f)
  BY FoldSums
<1>4. Rows({}) = {}
  BY DEF RowsOf
<1>5. ASSUME NEW s \in SUBSET S, NEW r \in s
      PROVE  /\ M[r] \cap Rows(s \ {r}) = {} /\ Rows(s) = M[r] \cup Rows(s \ {r})
             /\ M[r] \in SUBSET Samples /\ Rows(s \ {r}) \in SUBSET Samples
             /\ f[r] = GradOf(M[r], frozen, cut)
  BY DEF RowsOf
<1> DEFINE Bad == {s \in SUBSET S : g[s] # GradOf(Rows(s), frozen, cut)}
<1> HIDE DEF Rows
<1>3. Bad = {}
  <2>1. SUFFICES ASSUME Bad # {} PROVE FALSE
    OBVIOUS
  <2>2. PICK s \in Bad : \A t \in Bad : t \subseteq s => t = s
    <3>1. Bad \subseteq SUBSET S
      OBVIOUS
    <3> HIDE DEF Bad
    <3> QED BY <2>1, <3>1, LeastSet
  <2>3. s # {}
    <3>1. g[{}] = NoGrad
      BY <1>2 DEF AddsUp
    <3>2. GradOf(Rows({}), frozen, cut) = NoGrad
      BY <1>4, GradOfNone
    <3> QED BY <3>1, <3>2
  <2>4. PICK r \in s : g[s] = Plus(f[r], g[s \ {r}])
    BY <1>2, <2>3 DEF AddsUp
  <2>5. g[s \ {r}] = GradOf(Rows(s \ {r}), frozen, cut)
    BY <2>2
  <2>6. s \in SUBSET S
    OBVIOUS
  <2>7. g[s] = Plus(GradOf(M[r], frozen, cut), GradOf(Rows(s \ {r}), frozen, cut))
    BY <1>5, <2>4, <2>5, <2>6
  <2>8. g[s] = GradOf(M[r] \cup Rows(s \ {r}), frozen, cut)
    <3>1. /\ M[r] \in SUBSET Samples /\ Rows(s \ {r}) \in SUBSET Samples
          /\ M[r] \cap Rows(s \ {r}) = {}
      BY <1>5, <2>6
    <3>2. \A A, B \in SUBSET Samples : A \cap B = {} =>
            Plus(GradOf(A, frozen, cut), GradOf(B, frozen, cut)) = GradOf(A \cup B, frozen, cut)
      BY GradOfUnion
    <3> QED BY <2>7, <3>1, <3>2
  <2>9. g[s] = GradOf(Rows(s), frozen, cut)
    BY <1>5, <2>6, <2>8
  <2> QED BY <2>9
<1> QED BY <1>2, <1>3 DEF Rows

-----------------------------------------------------------------------------
(***************************************************************************)
(* Rows.  A minibatch has no row twice, its order of length and the shards *)
(* of the ranks have the rows it has, and so have the chunks of a plan.    *)
(***************************************************************************)
Distinct(s) == \A i, j \in DOMAIN s : s[i] = s[j] => i = j

LEMMA SamplesAre ==
    /\ Len(SeqLen) \in Nat /\ Samples = 1..Len(SeqLen) /\ IsFiniteSet(Samples)
    /\ \A x \in Samples : x \in Nat /\ SeqLen[x] \in Nat
<1>1. Len(SeqLen) \in Nat /\ Samples = 1..Len(SeqLen) /\ \A x \in Samples : x \in Nat /\ SeqLen[x] \in Nat
  BY UpdateAssumption
<1>2. IsFiniteSet(1..Len(SeqLen))
  BY <1>1, FS_Interval
<1> QED BY <1>1, <1>2

(* A permutation of the rows has none of them twice.                       *)
LEMMA PermDistinct ==
    ASSUME NEW p \in Perms
    PROVE  p \in Seq(Samples) /\ Len(p) = Len(SeqLen) /\ Distinct(p)
<1>1. p \in [Samples -> Samples] /\ ToSet(p) = Samples
  BY UpdateAssumption
<1>2. p \in Surjection(Samples, Samples)
  BY <1>1 DEF Surjection, ToSet
<1>3. p \in Injection(Samples, Samples)
  BY <1>2, SamplesAre, FS_Surjection
<1>4. p \in Seq(Samples) /\ Len(p) = Len(SeqLen)
  BY <1>1, SamplesAre
<1> QED BY <1>1, <1>3, <1>4 DEF Injection, IsInjective, Distinct

LEMMA MinibatchRows ==
    ASSUME NEW u, u.perm \in Perms, u.start \in Nat, u.start < Len(u.perm)
    PROVE  Minibatch(u) \in Seq(Samples) /\ Distinct(Minibatch(u))
<1> DEFINE last == u.start + BatchSize
           end  == IF last < Len(u.perm) THEN last ELSE Len(u.perm)
<1>1. u.perm \in Seq(Samples) /\ Distinct(u.perm) /\ BatchSize \in Nat
  BY PermDistinct, UpdateAssumption
<1>2. end \in (u.start + 1)..Len(u.perm) /\ Minibatch(u) = SubSeq(u.perm, u.start + 1, end)
  <2>1. u.start \in Nat /\ BatchSize \in Nat /\ BatchSize > 0 /\ Len(u.perm) \in Nat /\ u.start < Len(u.perm)
    BY <1>1, UpdateAssumption
  <2>2. end \in (u.start + 1)..Len(u.perm)
    BY <2>1
  <2>3. Minibatch(u) = SubSeq(u.perm, u.start + 1, end)
    BY DEF Minibatch
  <2> QED BY <2>2, <2>3
<1> HIDE DEF end
<1>3. /\ Minibatch(u) \in Seq(Samples)
      /\ Len(Minibatch(u)) = end - u.start
      /\ \A k \in 1..(end - u.start) : Minibatch(u)[k] = u.perm[u.start + k]
  <2> DEFINE m == u.start + 1
             b == SubSeq(u.perm, m, end)
  <2>1. m \in Int /\ end \in Int /\ m <= end /\ \A i \in m..end : u.perm[i] \in Samples
    BY <1>1, <1>2
  <2>2. b \in Seq(Samples) /\ Len(b) = end - m + 1 /\ \A k \in 1..(end - m + 1) : b[k] = u.perm[m + k - 1]
    <3> HIDE DEF m
    <3>1. /\ b \in Seq(Samples) /\ Len(b) = IF m <= end THEN end - m + 1 ELSE 0
          /\ \A k \in 1..(end - m + 1) : b[k] = u.perm[m + k - 1]
      BY <2>1, SubSeqProperties
    <3> HIDE DEF b
    <3> QED BY <2>1, <3>1
  <2>3. end - (u.start + 1) + 1 = end - u.start
    <3>1. end \in Int /\ u.start \in Int
      BY <1>1, <1>2
    <3>2. \A i, j \in Int : i - (j + 1) + 1 = i - j
      OBVIOUS
    <3> QED BY <3>1, <3>2
  <2>4. \A k \in 1..(end - u.start) : (u.start + 1) + k - 1 = u.start + k
    BY <1>2
  <2> HIDE DEF end
  <2>5. Minibatch(u) \in Seq(Samples) /\ Len(Minibatch(u)) = end - u.start
    BY <1>2, <2>2, <2>3
  <2>6. \A k \in 1..(end - u.start) : Minibatch(u)[k] = u.perm[u.start + k]
    BY <1>2, <2>2, <2>3, <2>4
  <2> QED BY <2>5, <2>6
<1>4. \A k \in 1..(end - u.start) : u.start + k \in DOMAIN u.perm
  BY <1>1, <1>2
<1>5. DOMAIN Minibatch(u) = 1..(end - u.start)
  BY <1>2, <1>3
<1>6. ASSUME NEW i \in 1..(end - u.start), NEW j \in 1..(end - u.start), Minibatch(u)[i] = Minibatch(u)[j]
      PROVE  i = j
  <2>1. u.perm[u.start + i] = u.perm[u.start + j]
    BY <1>3, <1>6
  <2>2. u.start + i = u.start + j
    BY <1>1, <1>4, <2>1 DEF Distinct
  <2> QED BY <1>2, <2>2
<1> QED BY <1>3, <1>5, <1>6 DEF Distinct

(* Lengths order the rows.                                                 *)
LEMMA ShorterOrders ==
    ASSUME NEW x \in Samples, NEW y \in Samples, NEW z \in Samples
    PROVE  /\ ~Shorter(x, x)
           /\ x = y \/ Shorter(x, y) \/ Shorter(y, x)
           /\ Shorter(x, y) /\ Shorter(y, z) => Shorter(x, z)
BY SamplesAre DEF Shorter

(* What is put in order is what was there: a row goes to the place given by *)
(* the number of rows before it, and no two rows have as many.             *)
LEMMA InOrderRows ==
    ASSUME NEW rows \in Seq(Samples), Distinct(rows)
    PROVE  /\ InOrder(rows) \in Seq(Samples) /\ Distinct(InOrder(rows))
           /\ Len(InOrder(rows)) = Len(rows)
           /\ ToSet(InOrder(rows)) = ToSet(rows)
<1> DEFINE S == ToSet(rows)
           n == Len(rows)
           Before(x) == {y \in S : Shorter(y, x)}
           place == [x \in S |-> Cardinality(Before(x)) + 1]
<1>1. n \in Nat /\ DOMAIN rows = 1..n /\ S \subseteq Samples
  BY DEF ToSet
<1>2. IsFiniteSet(S) /\ Cardinality(S) = n
  <2>1. rows \in Bijection(1..n, S)
    BY <1>1 DEF ToSet, Distinct, Bijection, Injection, Surjection, IsInjective
  <2>2. ExistsBijection(1..n, S)
    BY <2>1 DEF ExistsBijection
  <2>3. IsFiniteSet(S)
    BY <1>1, SamplesAre, FS_Subset
  <2> HIDE DEF S, n
  <2> QED BY <1>1, <2>2, <2>3, FS_CountingElements
<1>3. ASSUME NEW x \in S
      PROVE  /\ IsFiniteSet(Before(x)) /\ Cardinality(Before(x)) \in Nat
             /\ Cardinality(Before(x)) < n
  <2>1. Before(x) \in SUBSET S /\ x \notin Before(x)
    BY <1>1, ShorterOrders
  <2> HIDE DEF Before, S
  <2>2. IsFiniteSet(Before(x)) /\ Cardinality(Before(x)) <= n /\ Cardinality(Before(x)) # n
    BY <1>2, <1>3, <2>1, FS_Subset
  <2>3. Cardinality(Before(x)) \in Nat
    BY <2>2, FS_CardinalityType
  <2> QED BY <1>1, <2>2, <2>3
<1>4. ASSUME NEW x \in S, NEW z \in S, Shorter(x, z)
      PROVE  Cardinality(Before(x)) # Cardinality(Before(z))
  <2>1. Before(x) \in SUBSET Before(z) /\ x \in Before(z) /\ x \notin Before(x)
    BY <1>1, <1>4, ShorterOrders
  <2>2. IsFiniteSet(Before(z))
    BY <1>3
  <2> HIDE DEF Before, S
  <2> QED BY <2>1, <2>2, FS_Subset
<1>5. place \in [S -> 1..n]
  <2> HIDE DEF Before, S
  <2> QED BY <1>1, <1>3
<1>6. \A x, z \in S : place[x] = place[z] => x = z
  <2>1. \A x, z \in S : x # z => Cardinality(Before(x)) # Cardinality(Before(z))
    BY <1>1, <1>4, ShorterOrders
  <2> HIDE DEF Before, S
  <2> QED BY <1>3, <2>1
<1>7. \A k \in 1..n : \E x \in S : place[x] = k
  <2> HIDE DEF place, S, n
  <2>1. place \in Injection(S, 1..n)
    BY <1>5, <1>6 DEF Injection, IsInjective
  <2>2. IsFiniteSet(1..n) /\ Cardinality(1..n) = n
    BY <1>1, FS_Interval
  <2>3. place \in Surjection(S, 1..n)
    BY <1>2, <2>1, <2>2, FS_Injection
  <2> QED BY <2>3 DEF Surjection
<1> DEFINE o == InOrder(rows)
<1>8. DOMAIN o = 1..n /\ \A k \in 1..n : o[k] = CHOOSE x \in S : Cardinality(Before(x)) = k - 1
  BY <1>1 DEF InOrder
<1>9. o = [k \in 1..n |-> CHOOSE x \in S : Cardinality(Before(x)) = k - 1]
  BY <1>1 DEF InOrder
<1>10. \A k \in 1..n : o[k] \in S /\ place[o[k]] = k
  <2>1. ASSUME NEW k \in 1..n
        PROVE  o[k] \in S /\ place[o[k]] = k
    <3>1. \E x \in S : Cardinality(Before(x)) = k - 1
      <4>1. PICK x \in S : place[x] = k
        BY <1>7
      <4>2. Cardinality(Before(x)) + 1 = k /\ Cardinality(Before(x)) \in Nat
        <5> HIDE DEF Before, S
        <5> QED BY <1>3, <4>1
      <4> HIDE DEF Before, S
      <4> QED BY <4>2
    <3> HIDE DEF Before, S, o
    <3>2. o[k] \in S /\ Cardinality(Before(o[k])) = k - 1
      BY <1>8, <3>1
    <3> QED BY <1>3, <3>2
  <2> QED BY <2>1
<1> HIDE DEF o, S, place
<1>11. o \in Seq(Samples) /\ Len(o) = n
  <2>1. o \in [1..n -> Samples]
    <3>1. \A k \in 1..n : o[k] \in Samples
      BY <1>1, <1>10
    <3> DEFINE e == [k \in 1..n |-> CHOOSE x \in S : Cardinality(Before(x)) = k - 1]
    <3>2. o = e
      BY <1>9
    <3>3. (\A k \in 1..n : e[k] \in Samples) => e \in [1..n -> Samples]
      OBVIOUS
    <3> HIDE DEF e
    <3> QED BY <3>1, <3>2, <3>3
  <2> QED BY <1>1, <2>1
<1>12. Distinct(o)
  BY <1>8, <1>10 DEF Distinct
<1>13. ASSUME NEW x \in S PROVE x \in ToSet(o)
  <2>1. place[x] \in 1..n
    BY <1>5
  <2>2. o[place[x]] = x
    BY <1>6, <1>10, <2>1
  <2> QED BY <1>8, <2>1, <2>2 DEF ToSet
<1>14. ToSet(o) = S
  BY <1>8, <1>10, <1>13 DEF ToSet
<1> QED BY <1>11, <1>12, <1>14 DEF o, S

-----------------------------------------------------------------------------
(* Division with a remainder.                                              *)
LEMMA Division ==
    ASSUME NEW a \in Nat, NEW w \in Nat, w > 0
    PROVE  /\ a \div w \in Nat /\ a % w \in 0..(w - 1)
           /\ a = w * (a \div w) + (a % w)
OBVIOUS

LEMMA Multiples ==
    ASSUME NEW w \in Nat, w > 0, NEW j \in Int, NEW k \in Int
    PROVE  /\ j < k => w * j + w <= w * k
           /\ w * j \in Int
<1>1. w * j \in Int /\ w * k \in Int /\ w * (k - j) = w * k - w * j
  OBVIOUS
<1>2. j < k => k - j >= 1
  OBVIOUS
<1>3. k - j >= 1 => w * (k - j) >= w
  OBVIOUS
<1> QED BY <1>1, <1>2, <1>3

(* The shards of the ranks: place k of rank r is place PlaceOf of the rows. *)
PlaceOf(r, k) == r + 1 + (k - 1) * setup.world

LEMMA PlaceIs ==
    ASSUME setup.world \in Nat, NEW r \in Int, NEW k \in Int
    PROVE  /\ setup.world * k \in Int
           /\ PlaceOf(r, k) = r + 1 + setup.world * k - setup.world
<1> DEFINE w == setup.world
<1>1. (k - 1) * w = w * k - w /\ w * k \in Int
  OBVIOUS
<1>2. PlaceOf(r, k) = r + 1 + (k - 1) * w
  BY DEF PlaceOf
<1> HIDE DEF w
<1> QED BY <1>1, <1>2 DEF w

(* Of a rows, rank r has those at r + 1 - w + x that there are, where x is *)
(* a multiple of w, and y the last that is a place of a shard.             *)
LEMMA ShardBound ==
    ASSUME NEW w \in Nat, NEW r \in 0..(w - 1), NEW n \in Nat, NEW rest \in 0..(w - 1),
           NEW m \in Nat, NEW k \in Nat, NEW x \in Int, NEW y \in Int,
           n - r + w - 1 = y + rest,
           m < k => y + w <= x, k < m => x + w <= y, k = m => x = y
    PROVE  k <= m <=> r + 1 + x - w <= n
OBVIOUS

LEMMA ShardPlaces ==
    ASSUME TypeOK, NEW rows \in Seq(Samples), NEW r \in Ranks
    PROVE  /\ Len(Shard(r, rows)) \in Nat
           /\ DOMAIN Shard(r, rows) = 1..Len(Shard(r, rows))
           /\ \A k \in Nat \ {0} : k <= Len(Shard(r, rows)) <=> PlaceOf(r, k) <= Len(rows)
           /\ \A k \in DOMAIN Shard(r, rows) :
                 PlaceOf(r, k) \in DOMAIN rows /\ Shard(r, rows)[k] = rows[PlaceOf(r, k)]
<1> DEFINE w == setup.world
           n == Len(rows)
           a == n - r + w - 1
           m == a \div w
<1>1. w \in Nat /\ w > 0 /\ r \in 0..(w - 1) /\ n \in Nat /\ DOMAIN rows = 1..n
  BY UpdateAssumption DEF TypeOK, Ranks
<1>2. a \in Nat
  BY <1>1
<1>3. m \in Nat /\ a % w \in 0..(w - 1) /\ a = w * m + (a % w)
  <2> HIDE DEF a, w
  <2> QED BY <1>1, <1>2, Division
<1>4. Shard(r, rows) = [k \in 1..m |-> rows[PlaceOf(r, k)]]
  BY DEF Shard, PlaceOf
<1> HIDE DEF m, w
<1>5. Len(Shard(r, rows)) = m /\ DOMAIN Shard(r, rows) = 1..m
  BY <1>3, <1>4
<1>6. ASSUME NEW k \in Nat \ {0}
      PROVE  /\ PlaceOf(r, k) \in Nat \ {0}
             /\ k <= m <=> PlaceOf(r, k) <= n
  <2>1. w * k \in Int /\ w * m \in Int
    BY <1>1, <1>3, Multiples
  <2>2. m < k => w * m + w <= w * k
    BY <1>1, <1>3, Multiples
  <2>3. k < m => w * k + w <= w * m
    BY <1>1, <1>3, Multiples
  <2>4. k = m => w * k = w * m
    OBVIOUS
  <2>5. PlaceOf(r, k) = r + 1 + w * k - w
    BY <1>1, PlaceIs DEF w
  <2>6. w * k >= w
    <3>1. 0 < k => w * 0 + w <= w * k
      BY <1>1, Multiples
    <3> QED BY <1>1, <3>1
  <2>7. k <= m <=> r + 1 + w * k - w <= n
    BY <1>1, <1>3, <2>1, <2>2, <2>3, <2>4, ShardBound
  <2> QED BY <1>1, <2>1, <2>5, <2>6, <2>7
<1>7. \A k \in 1..m : PlaceOf(r, k) \in 1..n
  BY <1>1, <1>3, <1>6
<1>8. \A k \in 1..m : Shard(r, rows)[k] = rows[PlaceOf(r, k)]
  BY <1>4
<1> QED BY <1>1, <1>3, <1>5, <1>6, <1>7, <1>8

ShardOf(rows) == [r \in Ranks |-> ToSet(Shard(r, rows))]

(* The shards have every row of the minibatch, each of them in one shard.  *)
LEMMA ShardRows ==
    ASSUME TypeOK, NEW rows \in Seq(Samples), Distinct(rows)
    PROVE  /\ \A r \in Ranks : Shard(r, rows) \in Seq(Samples) /\ Distinct(Shard(r, rows))
           /\ \A r, q \in Ranks : r # q => ToSet(Shard(r, rows)) \cap ToSet(Shard(q, rows)) = {}
           /\ RowsOf(ShardOf(rows), Ranks) = ToSet(rows)
           /\ ShardOf(rows) \in [Ranks -> SUBSET Samples]
<1> DEFINE w == setup.world
           n == Len(rows)
<1>1. w \in Nat /\ w > 0 /\ Ranks = 0..(w - 1) /\ n \in Nat /\ DOMAIN rows = 1..n
  BY UpdateAssumption DEF TypeOK, Ranks
<1> HIDE DEF w
<1>2. ASSUME NEW r \in Ranks, NEW q \in Ranks, NEW j \in Nat \ {0}, NEW k \in Nat \ {0},
             PlaceOf(r, j) = PlaceOf(q, k)
      PROVE  r = q /\ j = k
  <2>0. r \in Int /\ q \in Int /\ j \in Int /\ k \in Int /\ setup.world \in Nat
    BY <1>1 DEF w
  <2>1. r + w * j = q + w * k
    <3>1. PlaceOf(r, j) = r + 1 + w * j - w /\ PlaceOf(q, k) = q + 1 + w * k - w
          /\ w * j \in Int /\ w * k \in Int
      BY <2>0, PlaceIs DEF w
    <3>2. \A x, y \in Int : r + 1 + x - w = q + 1 + y - w => r + x = q + y
      BY <1>1, <2>0
    <3> QED BY <1>2, <3>1, <3>2
  <2>2. (j < k => w * j + w <= w * k) /\ (k < j => w * k + w <= w * j)
        /\ w * j \in Int /\ w * k \in Int
    BY <1>1, Multiples
  <2>3. ~(j < k) /\ ~(k < j)
    BY <1>1, <2>1, <2>2
  <2>4. j = k
    BY <2>3
  <2> QED BY <1>1, <2>1, <2>4
<1>3. ASSUME NEW r \in Ranks, NEW q \in Ranks,
             NEW j \in DOMAIN Shard(r, rows), NEW k \in DOMAIN Shard(q, rows),
             Shard(r, rows)[j] = Shard(q, rows)[k]
      PROVE  r = q /\ j = k
  <2>1. PlaceOf(r, j) \in DOMAIN rows /\ PlaceOf(q, k) \in DOMAIN rows
        /\ rows[PlaceOf(r, j)] = rows[PlaceOf(q, k)]
    BY <1>3, ShardPlaces
  <2>2. PlaceOf(r, j) = PlaceOf(q, k)
    BY <2>1 DEF Distinct
  <2>3. j \in Nat \ {0} /\ k \in Nat \ {0}
    BY ShardPlaces
  <2> QED BY <1>2, <2>2, <2>3
<1>4. ASSUME NEW r \in Ranks
      PROVE  /\ Shard(r, rows) \in Seq(Samples) /\ Distinct(Shard(r, rows))
             /\ ToSet(Shard(r, rows)) \subseteq ToSet(rows)
  <2>1. Shard(r, rows) = [k \in DOMAIN Shard(r, rows) |-> Shard(r, rows)[k]]
    BY DEF Shard
  <2>2. \A k \in DOMAIN Shard(r, rows) : Shard(r, rows)[k] \in ToSet(rows)
    BY ShardPlaces DEF ToSet
  <2>3. ToSet(rows) \subseteq Samples
    BY DEF ToSet
  <2>4. Shard(r, rows) \in Seq(Samples)
    BY <2>1, <2>2, <2>3, ShardPlaces
  <2>5. Distinct(Shard(r, rows))
    BY <1>3 DEF Distinct
  <2> QED BY <2>2, <2>4, <2>5 DEF ToSet
<1>5. ASSUME NEW r \in Ranks, NEW q \in Ranks, r # q
      PROVE  ToSet(Shard(r, rows)) \cap ToSet(Shard(q, rows)) = {}
  BY <1>3, <1>5 DEF ToSet
<1>6. ASSUME NEW i \in 1..n
      PROVE  \E r \in Ranks : rows[i] \in ToSet(Shard(r, rows))
  <2> DEFINE r == (i - 1) % w
             k == (i - 1) \div w + 1
  <2>1. i - 1 \in Nat
    BY <1>1
  <2>2. r \in 0..(w - 1) /\ k \in Nat \ {0} /\ i - 1 = w * (k - 1) + r
    BY <1>1, <2>1, Division
  <2> HIDE DEF r, k
  <2>3. r \in Ranks
    BY <1>1, <2>2
  <2>4. PlaceOf(r, k) = i
    <3>1. PlaceOf(r, k) = r + 1 + w * k - w /\ w * k \in Int
      BY <1>1, <2>2, PlaceIs DEF w
    <3>2. w * (k - 1) = w * k - w
      BY <1>1, <2>2
    <3> QED BY <1>1, <2>2, <3>1, <3>2
  <2>5. k \in DOMAIN Shard(r, rows) /\ Shard(r, rows)[k] = rows[i]
    BY <1>1, <2>2, <2>3, <2>4, ShardPlaces
  <2> QED BY <2>3, <2>5 DEF ToSet
<1>7. RowsOf(ShardOf(rows), Ranks) = ToSet(rows)
  <2>1. \A r \in Ranks : ShardOf(rows)[r] = ToSet(Shard(r, rows))
    BY DEF ShardOf
  <2>2. \A x \in ToSet(rows) : \E r \in Ranks : x \in ToSet(Shard(r, rows))
    BY <1>1, <1>6 DEF ToSet
  <2> QED BY <1>4, <2>1, <2>2 DEF RowsOf
<1>8. ShardOf(rows) \in [Ranks -> SUBSET Samples]
  <2>1. ToSet(rows) \subseteq Samples
    BY DEF ToSet
  <2> QED BY <1>4, <2>1 DEF ShardOf
<1> QED BY <1>4, <1>5, <1>7, <1>8

-----------------------------------------------------------------------------
(* The chunks have the rows of T, each of them in one place.               *)
Covers(chunks, T) ==
    /\ chunks \in Seq(Seq(Samples)) /\ T \subseteq Samples
    /\ \A k \in DOMAIN chunks : Distinct(chunks[k]) /\ ToSet(chunks[k]) \subseteq T
    /\ \A x \in T : \E k \in DOMAIN chunks : x \in ToSet(chunks[k])
    /\ \A j, k \in DOMAIN chunks : j # k => ToSet(chunks[j]) \cap ToSet(chunks[k]) = {}

LEMMA CoversNone == Covers(<<>>, {})
<1>1. <<>> \in Seq(Seq(Samples)) /\ DOMAIN <<>> = {}
  OBVIOUS
<1> QED BY <1>1 DEF Covers

LEMMA RowsAre ==
    ASSUME NEW rows \in Seq(Samples)
    PROVE  ToSet(rows) \subseteq Samples
BY DEF ToSet

LEMMA CoversOne ==
    ASSUME NEW rows \in Seq(Samples), Distinct(rows)
    PROVE  Covers(<<rows>>, ToSet(rows))
<1>1. <<rows>> \in Seq(Seq(Samples)) /\ DOMAIN <<rows>> = {1} /\ <<rows>>[1] = rows
  OBVIOUS
<1> QED BY <1>1, RowsAre DEF Covers

(* The first chunk is taken off.                                           *)
LEMMA CoversTail ==
    ASSUME NEW chunks, NEW T, Covers(chunks, T), chunks # <<>>
    PROVE  /\ Covers(Tail(chunks), T \ ToSet(chunks[1]))
           /\ chunks[1] \in Seq(Samples) /\ Distinct(chunks[1]) /\ ToSet(chunks[1]) \subseteq T
<1>1. chunks \in Seq(Seq(Samples)) /\ 1 \in DOMAIN chunks /\ Len(chunks) \in Nat
      /\ DOMAIN chunks = 1..Len(chunks)
  BY DEF Covers
<1> DEFINE t == Tail(chunks)
<1>2. t \in Seq(Seq(Samples)) /\ DOMAIN t = 1..(Len(chunks) - 1)
      /\ \A k \in DOMAIN t : t[k] = chunks[k + 1] /\ k + 1 \in DOMAIN chunks /\ k + 1 # 1
  BY <1>1
<1> HIDE DEF t
<1> DEFINE U == T \ ToSet(chunks[1])
<1>3. \A k \in DOMAIN t : Distinct(t[k]) /\ ToSet(t[k]) \subseteq U
  BY <1>1, <1>2 DEF Covers
<1>4. ASSUME NEW x \in U PROVE \E k \in DOMAIN t : x \in ToSet(t[k])
  <2>1. PICK k \in DOMAIN chunks : x \in ToSet(chunks[k])
    BY DEF Covers
  <2>2. k # 1 /\ k - 1 \in DOMAIN t /\ (k - 1) + 1 = k
    BY <1>1, <1>2, <2>1
  <2>3. t[k - 1] = chunks[k]
    BY <1>2, <2>2
  <2> QED BY <2>1, <2>2, <2>3
<1>5. \A j, k \in DOMAIN t : j # k => ToSet(t[j]) \cap ToSet(t[k]) = {}
  <2>1. \A j, k \in DOMAIN t : j # k => j + 1 # k + 1
    BY <1>1, <1>2
  <2> QED BY <1>2, <2>1 DEF Covers
<1>6. Covers(t, U)
  BY <1>2, <1>3, <1>4, <1>5 DEF Covers
<1>7. chunks[1] \in Seq(Samples) /\ Distinct(chunks[1]) /\ ToSet(chunks[1]) \subseteq T
  BY <1>1 DEF Covers
<1> QED BY <1>6, <1>7 DEF t

(* A chunk is put in front of others that have none of its rows.           *)
LEMMA CoversCons ==
    ASSUME NEW chunks, NEW T, Covers(chunks, T),
           NEW chunk \in Seq(Samples), Distinct(chunk), ToSet(chunk) \cap T = {}
    PROVE  Covers(<<chunk>> \o chunks, T \cup ToSet(chunk))
<1> DEFINE c == <<chunk>> \o chunks
           U == T \cup ToSet(chunk)
<1>1. chunks \in Seq(Seq(Samples)) /\ Len(chunks) \in Nat /\ DOMAIN chunks = 1..Len(chunks)
  BY DEF Covers
<1>2. c \in Seq(Seq(Samples)) /\ DOMAIN c = 1..(Len(chunks) + 1) /\ c[1] = chunk
      /\ \A k \in DOMAIN chunks : c[k + 1] = chunks[k] /\ k + 1 \in DOMAIN c
  BY <1>1
<1> HIDE DEF c
<1>3. \A j \in DOMAIN c : j = 1 \/ \E k \in DOMAIN chunks : j = k + 1
  <2>1. \A j \in DOMAIN c : j = 1 \/ (j - 1 \in DOMAIN chunks /\ j = (j - 1) + 1)
    BY <1>1, <1>2
  <2> QED BY <2>1
<1>4. \A j \in DOMAIN c : Distinct(c[j]) /\ ToSet(c[j]) \subseteq U
  <2>1. \A k \in DOMAIN chunks : Distinct(chunks[k]) /\ ToSet(chunks[k]) \subseteq U
    BY DEF Covers
  <2>2. Distinct(chunk) /\ ToSet(chunk) \subseteq U
    OBVIOUS
  <2> HIDE DEF U
  <2> QED BY <1>2, <1>3, <2>1, <2>2
<1>5. \A x \in U : \E k \in DOMAIN c : x \in ToSet(c[k])
  <2>1. 1 \in DOMAIN c
    BY <1>1, <1>2
  <2> QED BY <1>2, <2>1 DEF Covers
<1>6. ASSUME NEW i \in DOMAIN c, NEW j \in DOMAIN c, i # j
      PROVE  ToSet(c[i]) \cap ToSet(c[j]) = {}
  <2>1. \A k \in DOMAIN chunks : ToSet(c[1]) \cap ToSet(c[k + 1]) = {}
    BY <1>2 DEF Covers
  <2>2. \A k, l \in DOMAIN chunks : k + 1 # l + 1 => ToSet(c[k + 1]) \cap ToSet(c[l + 1]) = {}
    BY <1>2 DEF Covers
  <2> QED BY <1>3, <1>6, <2>1, <2>2
<1>7. U \subseteq Samples
  BY RowsAre DEF Covers
<1> QED BY <1>2, <1>4, <1>5, <1>6, <1>7 DEF Covers, c

(* The rows behind the first m.                                            *)
LEMMA RestOf ==
    ASSUME NEW s \in Seq(Samples), NEW m \in Nat, m <= Len(s), NEW b, b = SubSeq(s, m + 1, Len(s))
    PROVE  /\ b \in Seq(Samples) /\ Len(b) = Len(s) - m
           /\ \A k \in 1..(Len(s) - m) : b[k] = s[m + k]
<1>1. PICK p \in Int : p = m + 1
  OBVIOUS
<1>2. PICK n \in Nat : n = Len(s)
  OBVIOUS
<1>3. \A i \in p..n : s[i] \in Samples
  BY <1>1, <1>2
<1>4. b = SubSeq(s, p, n)
  BY <1>1, <1>2
<1>5. /\ b \in Seq(Samples)
      /\ Len(b) = IF p <= n THEN n - p + 1 ELSE 0
      /\ \A k \in 1..(n - p + 1) : b[k] = s[p + k - 1]
  <2>1. p \in Int /\ n \in Int
    OBVIOUS
  <2>2. /\ SubSeq(s, p, n) \in Seq(Samples)
        /\ Len(SubSeq(s, p, n)) = IF p <= n THEN n - p + 1 ELSE 0
        /\ \A k \in 1..(n - p + 1) : SubSeq(s, p, n)[k] = s[p + k - 1]
    BY <1>3, <2>1, SubSeqProperties
  <2> QED BY <1>4, <2>2
<1>6. n - p + 1 = n - m /\ (~(p <= n) => n - m = 0)
  BY <1>1, <1>2
<1>7. \A k \in 1..(n - m) : p + k - 1 = m + k
  BY <1>1, <1>2
<1>8. \A k \in 1..(n - m) : b[k] = s[m + k]
  BY <1>5, <1>6, <1>7
<1> QED BY <1>2, <1>5, <1>6, <1>8

(* A chunk that does not fit is cut in two.                                *)
LEMMA CutInTwo ==
    ASSUME NEW s \in Seq(Samples), Distinct(s), NEW m \in Nat, m <= Len(s)
    PROVE  LET a == SubSeq(s, 1, m)
               b == SubSeq(s, m + 1, Len(s))
           IN  /\ a \in Seq(Samples) /\ b \in Seq(Samples) /\ Distinct(a) /\ Distinct(b)
               /\ ToSet(a) \cap ToSet(b) = {} /\ ToSet(a) \cup ToSet(b) = ToSet(s)
<1> DEFINE n == Len(s)
           a == SubSeq(s, 1, m)
           b == SubSeq(s, m + 1, n)
<1>1. n \in Nat /\ DOMAIN s = 1..n
  OBVIOUS
<1>2. a \in Seq(Samples) /\ DOMAIN a = 1..m /\ \A k \in 1..m : a[k] = s[k]
  BY <1>1
<1>3. b \in Seq(Samples) /\ DOMAIN b = 1..(n - m) /\ \A k \in 1..(n - m) : b[k] = s[m + k]
  <2>1. b \in Seq(Samples) /\ Len(b) = n - m /\ \A k \in 1..(n - m) : b[k] = s[m + k]
    BY RestOf
  <2> HIDE DEF b
  <2> QED BY <1>1, <2>1
<1> HIDE DEF a, b
<1>4. Distinct(a)
  BY <1>1, <1>2 DEF Distinct
<1>5. \A k \in 1..(n - m) : m + k \in 1..n /\ m + k > m
  BY <1>1
<1>6. Distinct(b)
  <2>1. ASSUME NEW j \in 1..(n - m), NEW k \in 1..(n - m), b[j] = b[k] PROVE j = k
    <3>1. s[m + j] = s[m + k]
      BY <1>3, <2>1
    <3>2. m + j = m + k
      BY <1>1, <1>5, <3>1 DEF Distinct
    <3> QED BY <1>1, <3>2
  <2> QED BY <1>3, <2>1 DEF Distinct
<1>7. ToSet(a) \cap ToSet(b) = {}
  <2>1. \A j \in 1..m, k \in 1..(n - m) : a[j] # b[k]
    <3>1. ASSUME NEW j \in 1..m, NEW k \in 1..(n - m), s[j] = s[m + k] PROVE FALSE
      <4>1. j \in 1..n /\ m + k \in 1..n /\ j # m + k
        BY <1>1, <1>5
      <4> QED BY <1>1, <3>1, <4>1 DEF Distinct
    <3> QED BY <1>2, <1>3, <3>1
  <2> QED BY <1>2, <1>3, <2>1 DEF ToSet
<1>8. ToSet(a) \cup ToSet(b) \subseteq ToSet(s)
  <2>1. \A k \in 1..m : a[k] \in ToSet(s)
    BY <1>1, <1>2 DEF ToSet
  <2>2. \A k \in 1..(n - m) : b[k] \in ToSet(s)
    BY <1>1, <1>3, <1>5 DEF ToSet
  <2> QED BY <1>2, <1>3, <2>1, <2>2 DEF ToSet
<1>9. ASSUME NEW i \in 1..n PROVE s[i] \in ToSet(a) \cup ToSet(b)
  <2>1. CASE i <= m
    BY <1>2, <2>1 DEF ToSet
  <2>2. CASE i > m
    <3>1. i - m \in 1..(n - m) /\ m + (i - m) = i
      BY <1>1, <2>2
    <3> QED BY <1>3, <3>1 DEF ToSet
  <2> QED BY <1>1, <2>1, <2>2
<1>10. ToSet(a) \cup ToSet(b) = ToSet(s)
  BY <1>1, <1>8, <1>9 DEF ToSet
<1> QED BY <1>2, <1>3, <1>4, <1>6, <1>7, <1>10 DEF a, b

LEMMA Quarter ==
    ASSUME NEW n \in Nat
    PROVE  n \div 4 \in Nat /\ n \div 4 <= n
OBVIOUS

LEMMA CoversPeel ==
    ASSUME NEW chunks, NEW T, Covers(chunks, T), chunks # <<>>, Len(chunks[1]) > 1
    PROVE  Covers(Peel(chunks[1]) \o Tail(chunks), T)
<1> DEFINE s == chunks[1]
           n == Len(s)
           cut == IF n >= 4 THEN n \div 4 ELSE 1
           a == SubSeq(s, 1, n - cut)
           b == SubSeq(s, n - cut + 1, n)
           t == Tail(chunks)
<1>1. Covers(t, T \ ToSet(s)) /\ s \in Seq(Samples) /\ Distinct(s) /\ ToSet(s) \subseteq T
  BY CoversTail
<1>2. n \in Nat /\ n > 1
  BY <1>1
<1>3. n - cut \in Nat /\ n - cut <= n
  <2>1. n \div 4 \in Nat /\ n \div 4 <= n
    BY <1>2, Quarter
  <2>2. cut \in Nat /\ cut <= n
    <3> HIDE DEF n
    <3> QED BY <1>2, <2>1
  <2> HIDE DEF cut
  <2> QED BY <1>2, <2>2
<1>4. Peel(s) = <<b, a>>
  BY DEF Peel
<1> HIDE DEF cut, s, t
<1>5. /\ a \in Seq(Samples) /\ b \in Seq(Samples) /\ Distinct(a) /\ Distinct(b)
      /\ ToSet(a) \cap ToSet(b) = {} /\ ToSet(a) \cup ToSet(b) = ToSet(s)
  BY <1>1, <1>2, <1>3, CutInTwo
<1> HIDE DEF a, b, n
<1> DEFINE U == T \ ToSet(s)
<1>6. Covers(<<a>> \o t, U \cup ToSet(a))
  <2>1. ToSet(a) \cap U = {} /\ Covers(t, U)
    BY <1>1, <1>5
  <2> HIDE DEF U
  <2> QED BY <1>5, <2>1, CoversCons
<1>7. Covers(<<b>> \o (<<a>> \o t), (U \cup ToSet(a)) \cup ToSet(b))
  <2>1. ToSet(b) \cap (U \cup ToSet(a)) = {}
    BY <1>5
  <2> HIDE DEF U
  <2> QED BY <1>5, <1>6, <2>1, CoversCons
<1>8. <<b>> \o (<<a>> \o t) = <<b, a>> \o t
  <2>1. t \in Seq(Seq(Samples))
    BY <1>1 DEF Covers
  <2>2. \A S : a \in S /\ b \in S /\ t \in Seq(S) => <<b>> \o (<<a>> \o t) = <<b, a>> \o t
    <3>1. ASSUME NEW S, a \in S, b \in S, t \in Seq(S)
          PROVE  <<b>> \o (<<a>> \o t) = <<b, a>> \o t
      <4>1. <<b>> \o (<<a>> \o t) = (<<b>> \o <<a>>) \o t
        BY <3>1, ConcatAssociative
      <4>2. <<b>> \o <<a>> = <<b, a>>
        <5>1. <<b>> \in Seq(S) /\ <<a>> \in Seq(S)
          BY <3>1
        <5>2. /\ <<b>> \o <<a>> \in Seq(S) /\ Len(<<b>> \o <<a>>) = 2
              /\ (<<b>> \o <<a>>)[1] = b /\ (<<b>> \o <<a>>)[2] = a
          BY <5>1, ConcatProperties
        <5>3. ASSUME NEW c \in Seq(S), Len(c) = 2, c[1] = b, c[2] = a
              PROVE  c = <<b, a>>
          <6>1. c = [k \in 1..2 |-> c[k]]
            BY <5>3
          <6>2. <<b, a>> = [k \in 1..2 |-> <<b, a>>[k]]
            OBVIOUS
          <6>3. \A k \in 1..2 : c[k] = <<b, a>>[k]
            BY <5>3
          <6> QED BY <6>1, <6>2, <6>3
        <5> QED BY <5>2, <5>3
      <4> QED BY <4>1, <4>2
    <3> QED BY <3>1
  <2> QED BY <1>5, <2>1, <2>2
<1>9. (U \cup ToSet(a)) \cup ToSet(b) = T
  BY <1>1, <1>5
<1> QED BY <1>4, <1>7, <1>8, <1>9 DEF s, t

-----------------------------------------------------------------------------
(* What plan_chunks() does with the next row.                              *)
Filled(chunks, x, limit) ==
    IF chunks # <<>> /\ (Len(Last(chunks)) + 1) * SeqLen[x] <= limit
    THEN [chunks EXCEPT ![Len(chunks)] = Append(@, x)]
    ELSE Append(chunks, <<x>>)

LEMMA FilledIn ==
    ASSUME NEW chunks \in Seq(Seq(Samples)), NEW x \in Samples, NEW limit
    PROVE  Filled(chunks, x, limit) \in Seq(Seq(Samples))
<1>1. CASE chunks # <<>> /\ (Len(Last(chunks)) + 1) * SeqLen[x] <= limit
  <2>1. Len(chunks) \in DOMAIN chunks
    BY <1>1
  <2>2. Append(chunks[Len(chunks)], x) \in Seq(Samples)
    BY <2>1
  <2>3. [chunks EXCEPT ![Len(chunks)] = Append(@, x)] \in Seq(Seq(Samples))
    BY <2>1, <2>2
  <2> QED BY <1>1, <2>3 DEF Filled
<1>2. CASE ~(chunks # <<>> /\ (Len(Last(chunks)) + 1) * SeqLen[x] <= limit)
  <2>1. Append(chunks, <<x>>) \in Seq(Seq(Samples))
    OBVIOUS
  <2> QED BY <1>2, <2>1 DEF Filled
<1> QED BY <1>1, <1>2

LEMMA AppendRow ==
    ASSUME NEW s \in Seq(Samples), Distinct(s), NEW x \in Samples, x \notin ToSet(s)
    PROVE  Distinct(Append(s, x)) /\ ToSet(Append(s, x)) = ToSet(s) \cup {x}
<1> DEFINE a == Append(s, x)
<1>1. DOMAIN s = 1..Len(s) /\ Len(s) \in Nat /\ DOMAIN a = 1..(Len(s) + 1)
      /\ a[Len(s) + 1] = x /\ \A k \in 1..Len(s) : a[k] = s[k]
  OBVIOUS
<1> HIDE DEF a
<1>2. \A k \in 1..(Len(s) + 1) : k \in 1..Len(s) \/ k = Len(s) + 1
  BY <1>1
<1>3. Distinct(a)
  BY <1>1, <1>2 DEF Distinct, ToSet
<1>4. ToSet(a) = ToSet(s) \cup {x}
  <2>1. \A k \in DOMAIN a : a[k] \in ToSet(s) \cup {x}
    BY <1>1, <1>2 DEF ToSet
  <2>2. \A k \in DOMAIN s : s[k] \in ToSet(a)
    BY <1>1 DEF ToSet
  <2>3. x \in ToSet(a)
    BY <1>1 DEF ToSet
  <2> QED BY <2>1, <2>2, <2>3 DEF ToSet
<1> QED BY <1>3, <1>4 DEF a

LEMMA CoversFilled ==
    ASSUME NEW chunks, NEW T, Covers(chunks, T), NEW x \in Samples, x \notin T, NEW limit
    PROVE  Covers(Filled(chunks, x, limit), T \cup {x})
<1> DEFINE n == Len(chunks)
<1>1. chunks \in Seq(Seq(Samples)) /\ n \in Nat /\ DOMAIN chunks = 1..n /\ T \subseteq Samples
      /\ \A k \in 1..n : chunks[k] \in Seq(Samples) /\ Distinct(chunks[k]) /\ ToSet(chunks[k]) \subseteq T
  BY DEF Covers
<1>2. T \cup {x} \subseteq Samples
  BY <1>1
<1>3. CASE chunks # <<>> /\ (Len(Last(chunks)) + 1) * SeqLen[x] <= limit
  <2> DEFINE c == [chunks EXCEPT ![n] = Append(@, x)]
  <2>1. n \in 1..n
    BY <1>1, <1>3
  <2>2. c[n] = Append(chunks[n], x) /\ DOMAIN c = 1..n /\ \A k \in 1..n : k # n => c[k] = chunks[k]
    BY <1>1, <2>1
  <2>3. Filled(chunks, x, limit) = c
    BY <1>3 DEF Filled
  <2>4. c \in Seq(Seq(Samples))
    <3>1. Filled(chunks, x, limit) \in Seq(Seq(Samples))
      BY <1>1, FilledIn
    <3> HIDE DEF c
    <3> QED BY <2>3, <3>1
  <2> HIDE DEF c, n
  <2>5. Distinct(c[n]) /\ ToSet(c[n]) = ToSet(chunks[n]) \cup {x}
    BY <1>1, <2>1, <2>2, AppendRow
  <2>6. \A k \in 1..n : Distinct(c[k]) /\ ToSet(c[k]) \subseteq T \cup {x}
    BY <1>1, <2>1, <2>2, <2>5
  <2>7. \A y \in T \cup {x} : \E k \in 1..n : y \in ToSet(c[k])
    <3>1. \A y \in T : \E k \in 1..n : y \in ToSet(chunks[k])
      BY <1>1 DEF Covers
    <3>2. \A k \in 1..n : ToSet(chunks[k]) \subseteq ToSet(c[k])
      BY <2>1, <2>2, <2>5
    <3> QED BY <2>1, <2>5, <3>1, <3>2
  <2>8. \A j, k \in 1..n : j # k => ToSet(c[j]) \cap ToSet(c[k]) = {}
    <3>1. \A j, k \in 1..n : j # k => ToSet(chunks[j]) \cap ToSet(chunks[k]) = {}
      BY <1>1 DEF Covers
    <3>2. \A j \in 1..n : x \notin ToSet(chunks[j])
      BY <1>1
    <3>3. \A k \in 1..n : k # n => ToSet(c[k]) = ToSet(chunks[k])
      BY <2>2
    <3>4. \A k \in 1..n : ToSet(c[k]) = ToSet(chunks[k]) \/ (k = n /\ ToSet(c[k]) = ToSet(chunks[k]) \cup {x})
      BY <2>5, <3>3
    <3> QED BY <3>1, <3>2, <3>4
  <2> QED BY <1>2, <2>2, <2>3, <2>4, <2>6, <2>7, <2>8 DEF Covers
<1>4. CASE ~(chunks # <<>> /\ (Len(Last(chunks)) + 1) * SeqLen[x] <= limit)
  <2> DEFINE c == Append(chunks, <<x>>)
  <2>1. DOMAIN c = 1..(n + 1) /\ c[n + 1] = <<x>> /\ \A k \in 1..n : c[k] = chunks[k]
    BY <1>1
  <2>2. Filled(chunks, x, limit) = c
    BY <1>4 DEF Filled
  <2>3. c \in Seq(Seq(Samples))
    <3>1. Filled(chunks, x, limit) \in Seq(Seq(Samples))
      BY <1>1, FilledIn
    <3> HIDE DEF c
    <3> QED BY <2>2, <3>1
  <2>4. Distinct(<<x>>) /\ ToSet(<<x>>) = {x}
    BY DEF Distinct, ToSet
  <2>5. \A k \in 1..(n + 1) : k \in 1..n \/ k = n + 1
    BY <1>1
  <2>6. n + 1 \in 1..(n + 1) /\ \A k \in 1..n : k \in 1..(n + 1)
    BY <1>1
  <2> HIDE DEF c, n
  <2>7. \A k \in 1..(n + 1) : Distinct(c[k]) /\ ToSet(c[k]) \subseteq T \cup {x}
    BY <1>1, <2>1, <2>4, <2>5
  <2>8. \A y \in T \cup {x} : \E k \in 1..(n + 1) : y \in ToSet(c[k])
    <3>1. \A y \in T : \E k \in 1..n : y \in ToSet(chunks[k])
      BY <1>1 DEF Covers
    <3> QED BY <2>1, <2>4, <2>6, <3>1
  <2>9. \A j, k \in 1..(n + 1) : j # k => ToSet(c[j]) \cap ToSet(c[k]) = {}
    <3>1. \A j, k \in 1..n : j # k => ToSet(chunks[j]) \cap ToSet(chunks[k]) = {}
      BY <1>1 DEF Covers
    <3>2. \A j \in 1..n : x \notin ToSet(chunks[j])
      BY <1>1
    <3>4. \A j, k \in 1..n : j # k => ToSet(c[j]) \cap ToSet(c[k]) = {}
      BY <2>1, <3>1
    <3>5. \A j \in 1..n : ToSet(c[j]) \cap ToSet(c[n + 1]) = {}
      BY <2>1, <2>4, <3>2
    <3> QED BY <2>5, <3>4, <3>5
  <2> QED BY <1>2, <2>1, <2>2, <2>3, <2>7, <2>8, <2>9 DEF Covers
<1> QED BY <1>3, <1>4

-----------------------------------------------------------------------------
LEMMA Least ==
    ASSUME NEW S, S \subseteq Nat, S # {}
    PROVE  \E m \in S : \A k \in S : m <= k
<1>1. OpToRel(<, Nat) = {p \in Nat \X Nat : p[1] < p[2]}
  BY Zenon DEF OpToRel
<1>2. IsWellFoundedOn({p \in Nat \X Nat : p[1] < p[2]}, Nat)
  BY <1>1, NatLessThanWellFounded, Zenon
<1>3. PICK m \in S : \A k \in S : ~(<<k, m>> \in {p \in Nat \X Nat : p[1] < p[2]})
  BY <1>2, WFMin
<1>4. ASSUME NEW k \in S PROVE m <= k
  <2>1. <<k, m>> \in Nat \X Nat /\ ~(<<k, m>> \in {p \in Nat \X Nat : p[1] < p[2]})
    BY <1>3
  <2> QED BY <2>1
<1> QED BY <1>4

LEMMA MaxIsIn ==
    ASSUME NEW n \in Nat, NEW s \in SUBSET (1..n), s # {}
    PROVE  Max(s) \in s /\ \A k \in s : Max(s) >= k
<1> DEFINE D == {n - k : k \in s}
<1>1. D \subseteq Nat /\ D # {}
  <2>1. \A k \in s : k \in 1..n
    OBVIOUS
  <2>2. \A k \in 1..n : n - k \in Nat
    OBVIOUS
  <2>3. \A d \in D : d \in Nat
    BY <2>1, <2>2
  <2> QED BY <2>3
<1>2. PICK d \in D : \A e \in D : d <= e
  <2> HIDE DEF D
  <2> QED BY <1>1, Least
<1>3. PICK m \in s : d = n - m
  OBVIOUS
<1>4. \A k \in s : m >= k
  <2>1. \A k \in s : n - m <= n - k /\ k \in 1..n
    BY <1>2, <1>3
  <2> QED BY <2>1
<1> QED BY <1>4, Zenon DEF Max

(* plan_chunks() takes the rows one after another, in order of length.     *)
Plans(g, o, limit) ==
    /\ g[0] = <<>>
    /\ \A k \in 1..Len(o) : g[k] = Filled(g[k - 1], o[k], limit)

LEMMA PlanFold ==
    ASSUME NEW rows, InOrder(rows) \in Seq(Samples), NEW limit
    PROVE  \E g : Plans(g, InOrder(rows), limit) /\ g[Len(InOrder(rows))] = PlanChunks(rows, limit)
<1> DEFINE o == InOrder(rows)
           n == Len(o)
           S == 1..n
           V == Seq(Seq(Samples))
           step == [k \in S |-> [v \in V |-> Filled(v, o[k], limit)]]
           c == [s \in SUBSET S |-> Max(s)]
           Fills(h) == [s \in SUBSET S |-> IF s = {} THEN <<>> ELSE Filled(h[s \ {Max(s)}], o[Max(s)], limit)]
<1>1. n \in Nat /\ DOMAIN o = S /\ \A k \in S : o[k] \in Samples
  OBVIOUS
<1> HIDE DEF o, n
<1>2. IsFiniteSet(S)
  BY <1>1, FS_Interval
<1>3. \A s \in SUBSET S : s # {} => c[s] \in s /\ c[s] = Max(s)
  BY <1>1, MaxIsIn
<1>4. \A k \in S : step[k] \in [V -> V]
  BY <1>1, FilledIn
<1>5. PICK g \in [SUBSET S -> V] : Folds(g, S, <<>>, step, c)
  <2>1. <<>> \in V
    OBVIOUS
  <2> HIDE DEF step, c, V, S
  <2> QED BY <1>2, <1>3, <1>4, <2>1, FoldTyped
<1>6. ASSUME NEW s \in SUBSET S, s # {}
      PROVE  step[c[s]][g[s \ {c[s]}]] = Filled(g[s \ {Max(s)}], o[Max(s)], limit)
  <2>1. c[s] \in S /\ g[s \ {c[s]}] \in V /\ c[s] = Max(s)
    BY <1>3, <1>6
  <2> HIDE DEF c, V, S
  <2> QED BY <2>1
<1>7. g = Fills(g)
  <2> HIDE DEF step, c, S, V
  <2> QED BY <1>5, <1>6 DEF Folds
<1> DEFINE iter == CHOOSE h : h = Fills(h)
<1>8. iter = Fills(iter)
  <2> HIDE DEF Fills
  <2> QED BY <1>7
<1>9. PlanChunks(rows, limit) = iter[S]
  BY <1>1 DEF PlanChunks, FoldLeft, MapThenFoldSet, Filled, o
<1>10. \A h, k : h = Fills(k) => /\ h[{}] = <<>>
                                 /\ \A s \in SUBSET S : s # {} => h[s] = Filled(k[s \ {Max(s)}], o[Max(s)], limit)
  OBVIOUS
<1> HIDE DEF iter, Fills
<1>11. iter[{}] = <<>> /\ \A s \in SUBSET S : s # {} => iter[s] = Filled(iter[s \ {Max(s)}], o[Max(s)], limit)
  BY <1>8, <1>10
<1> DEFINE p == [k \in 0..n |-> iter[1..k]]
<1>12. ASSUME NEW k \in 1..n
       PROVE  p[k] = Filled(p[k - 1], o[k], limit)
  <2>1. 1..k \in SUBSET S /\ 1..k # {} /\ k \in 1..k
    <3>1. k \in Nat /\ 1 <= k /\ k <= n
      BY <1>1
    <3>2. \A i \in 1..k : i \in 1..n
      BY <1>1, <3>1
    <3>3. 1..k # {} /\ k \in 1..k
      BY <3>1
    <3>4. 1..k \in SUBSET (1..n)
      BY <3>2, Zenon
    <3> QED BY <3>3, <3>4
  <2>2. Max(1..k) = k
    <3>1. Max(1..k) \in 1..k /\ Max(1..k) >= k
      <4>1. k \in Nat /\ 1..k \in SUBSET (1..k) /\ 1..k # {}
        BY <2>1
      <4> QED BY <2>1, <4>1, MaxIsIn
    <3> QED BY <3>1
  <2>3. (1..k) \ {k} = 1..(k - 1)
    BY <1>1
  <2>4. iter[1..k] = Filled(iter[1..(k - 1)], o[k], limit)
    BY <1>11, <2>1, <2>2, <2>3
  <2>5. k \in 0..n /\ k - 1 \in 0..n
    BY <1>1
  <2> QED BY <2>4, <2>5
<1>13. p[0] = <<>> /\ p[n] = iter[S]
  <2>1. 1..0 = {} /\ 0 \in 0..n /\ n \in 0..n
    BY <1>1
  <2> QED BY <1>11, <2>1
<1> HIDE DEF p
<1>14. Plans(p, o, limit) /\ p[n] = PlanChunks(rows, limit)
  BY <1>9, <1>12, <1>13 DEF Plans, n
<1> QED BY <1>14 DEF n, o

(* The chunks of a plan have the rows of the minibatch, each once.         *)
LEMMA CoversPlan ==
    ASSUME NEW rows \in Seq(Samples), Distinct(rows), NEW limit
    PROVE  Covers(PlanChunks(rows, limit), ToSet(rows))
<1> DEFINE o == InOrder(rows)
           n == Len(o)
           Seen(k) == {o[i] : i \in 1..k}
<1>1. /\ o \in Seq(Samples) /\ Distinct(o) /\ ToSet(o) = ToSet(rows)
      /\ n \in Nat /\ DOMAIN o = 1..n
  BY InOrderRows
<1>2. PICK g : Plans(g, o, limit) /\ g[n] = PlanChunks(rows, limit)
  BY <1>1, PlanFold
<1> HIDE DEF o, n
<1> DEFINE Bad == {k \in 0..n : ~Covers(g[k], Seen(k))}
<1>3. Bad = {}
  <2>1. SUFFICES ASSUME Bad # {} PROVE FALSE
    OBVIOUS
  <2>2. PICK k \in Bad : \A j \in Bad : k <= j
    <3>1. Bad \subseteq Nat
      BY <1>1
    <3> HIDE DEF Bad
    <3> QED BY <2>1, <3>1, Least
  <2>3. k \in 0..n /\ ~Covers(g[k], Seen(k))
    OBVIOUS
  <2>4. k # 0
    <3>1. Seen(0) = {}
      OBVIOUS
    <3>2. Covers(g[0], Seen(0))
      BY <1>2, <3>1, CoversNone DEF Plans
    <3> QED BY <2>3, <3>2
  <2>5. k \in 1..n /\ k - 1 \in 0..n /\ k - 1 < k
    BY <1>1, <2>3, <2>4
  <2>6. Covers(g[k - 1], Seen(k - 1))
    <3>1. k - 1 \notin Bad
      <4>1. ASSUME k - 1 \in Bad PROVE FALSE
        <5>1. k <= k - 1
          <6> HIDE DEF Bad
          <6> QED BY <2>2, <4>1
        <5> QED BY <2>5, <5>1
      <4> QED BY <4>1
    <3> QED BY <2>5, <3>1
  <2>7. g[k] = Filled(g[k - 1], o[k], limit)
    BY <1>2, <2>5 DEF Plans, n
  <2>8. o[k] \in Samples /\ o[k] \notin Seen(k - 1) /\ Seen(k) = Seen(k - 1) \cup {o[k]}
    <3>1. \A i \in 1..(k - 1) : i \in 1..n /\ i # k
      BY <1>1, <2>5
    <3>2. \A i \in 1..k : i \in 1..(k - 1) \/ i = k
      BY <2>5
    <3>3. \A i \in 1..(k - 1) : i \in 1..k
      BY <2>5
    <3>4. k \in 1..k
      BY <2>5
    <3> QED BY <1>1, <2>5, <3>1, <3>2, <3>3, <3>4 DEF Distinct
  <2>9. Covers(g[k], Seen(k - 1) \cup {o[k]})
    <3> HIDE DEF Seen
    <3> QED BY <2>6, <2>7, <2>8, CoversFilled
  <2> HIDE DEF Seen
  <2> QED BY <2>3, <2>8, <2>9
<1>4. Covers(g[n], Seen(n))
  <2>1. n \in 0..n
    BY <1>1
  <2> HIDE DEF Seen
  <2> QED BY <1>3, <2>1
<1>5. Seen(n) = ToSet(o)
  BY <1>1 DEF ToSet
<1> HIDE DEF Seen
<1> QED BY <1>1, <1>2, <1>4, <1>5

-----------------------------------------------------------------------------
(* A minibatch of a rank, when it has been cut and some of it is done.     *)
Works == [rows : Seq(Samples), plan : Seq(Seq(Samples)), todo : Seq(Seq(Samples)), limit : Nat, torn : BOOLEAN]

(* The rows of a minibatch that a rank works on.                           *)
Mine(r, rows) == IF setup.mode = "ddp" THEN ToSet(Shard(r, rows)) ELSE ToSet(rows)
MyRows(r) == Mine(r, work[r].rows)

(* Of the rows M of a rank those in T are still to do, and the others are  *)
(* in the gradient; a plan of one chunk starts over a gradient that it     *)
(* drops.                                                                  *)
ToDo(M, w, u, g, cut, T) ==
    /\ Covers(w.todo, T)
    /\ Len(w.plan) = 1 /\ w.todo # <<>> => w.todo = w.plan /\ T = M
    /\ \/ w.torn
       \/ Len(w.plan) = 1 /\ w.todo # <<>>
       \/ g = GradOf(M \ T, u.frozen, cut)

InMinibatch(w, u) == u.start < Len(u.perm) /\ w.rows = Minibatch(u)

InChunks(M, w, u, g, cut) ==
    InMinibatch(w, u) /\ \E T \in SUBSET M : ToDo(M, w, u, g, cut, T)

InGrads(M, w, u, g, cut) ==
    InMinibatch(w, u) /\ (w.torn \/ g = GradOf(M, u.frozen, cut))

InStep(w, u, g, cut) == w.torn \/ g = GradOf(ToSet(Minibatch(u)), u.frozen, cut)

WorkType ==
    /\ work \in [Ranks -> Works]
    /\ detach \in [Ranks -> BOOLEAN]
    /\ grad = [r \in Ranks |-> grad[r]]

WorkOf(r) ==
    /\ pc[r] = "chunks" => InChunks(MyRows(r), work[r], upd[r], grad[r], detach[r])
    /\ pc[r] = "grads"  => setup.mode = "ddp" /\ InGrads(MyRows(r), work[r], upd[r], grad[r], detach[r])
    /\ pc[r] = "step"   => InStep(work[r], upd[r], grad[r], detach[r])

WorkInv == \A r \in Ranks : WorkOf(r)

DetachInv == setup.mode = "ddp" => \A r \in Ranks : detach[r] = FALSE

(* The ranks of an update are in one minibatch, or the next to one in which *)
(* others have yet to take the step.                                       *)
NextUpd(u) ==
    LET v == [u EXCEPT !.start = @ + BatchSize]
    IN IF v.start >= Len(v.perm) THEN [v EXCEPT !.epoch = @ + 1] ELSE v

UpdInv ==
    \A r, q \in Ranks : pc[r] \in Updating /\ pc[q] \in Updating =>
        /\ (pc[r] = "step" <=> pc[q] = "step") => upd[r] = upd[q]
        /\ pc[r] = "step" /\ pc[q] # "step" => upd[q] = NextUpd(upd[r])

GInv == WorkType /\ WorkInv /\ DetachInv /\ UpdInv

-----------------------------------------------------------------------------
(* What is done of the rows of a rank, chunk by chunk.                     *)
LEMMA PlusNone ==
    ASSUME NEW R \in SUBSET Samples, NEW frozen, NEW cut
    PROVE  /\ Plus(GradOf(R, frozen, cut), NoGrad) = GradOf(R, frozen, cut)
           /\ Plus(NoGrad, GradOf(R, frozen, cut)) = GradOf(R, frozen, cut)
<1>1. {} \in SUBSET Samples /\ R \cap {} = {} /\ R \cup {} = R /\ {} \cup R = R /\ {} \cap R = {}
  OBVIOUS
<1> QED BY <1>1, GradOfUnion, GradOfNone

(* The rows of the minibatch, and the shard of a rank.                     *)
LEMMA MineRows ==
    ASSUME TypeOK, NEW r \in Ranks, NEW u \in UpdType, NEW w, InMinibatch(w, u)
    PROVE  /\ w.rows \in Seq(Samples) /\ Distinct(w.rows)
           /\ Mine(r, w.rows) \in SUBSET Samples
<1>1. u.perm \in Perms /\ u.start \in Nat
  BY DEF InMinibatch, UpdType
<1>2. w.rows \in Seq(Samples) /\ Distinct(w.rows)
  BY <1>1, MinibatchRows DEF InMinibatch
<1>3. ToSet(w.rows) \in SUBSET Samples
  BY <1>2, RowsAre
<1>4. ToSet(Shard(r, w.rows)) \in SUBSET Samples
  BY <1>2, ShardRows, RowsAre
<1> QED BY <1>2, <1>3, <1>4 DEF Mine

(* A rank that starts its rows, or starts them again.                      *)
LEMMA Fresh ==
    ASSUME NEW M, NEW w, NEW u, NEW g, NEW cut, InMinibatch(w, u), Covers(w.todo, M),
           Len(w.plan) = 1 => w.todo = w.plan,
           (Len(w.plan) = 1 /\ w.todo # <<>>) \/ g = NoGrad
    PROVE  InChunks(M, w, u, g, cut)
<1>1. M \in SUBSET M /\ M \ M = {}
  OBVIOUS
<1>2. ToDo(M, w, u, g, cut, M)
  BY <1>1, GradOfNone DEF ToDo
<1> QED BY <1>1, <1>2 DEF InChunks

(* A rank that has nothing left to do.                                     *)
LEMMA AllDone ==
    ASSUME NEW M, NEW w, NEW u, NEW g, NEW cut, InChunks(M, w, u, g, cut), w.todo = <<>>
    PROVE  InGrads(M, w, u, g, cut)
<1>1. PICK T \in SUBSET M : ToDo(M, w, u, g, cut, T)
  BY DEF InChunks
<1>2. T = {}
  BY <1>1 DEF ToDo, Covers
<1>3. M \ T = M
  BY <1>2
<1> QED BY <1>1, <1>3 DEF ToDo, InChunks, InGrads

LEMMA OneChunk ==
    ASSUME NEW S, NEW s \in Seq(S), Len(s) = 1
    PROVE  s = <<s[1]>> /\ Tail(s) = <<>>
<1>1. s = [k \in 1..1 |-> s[k]]
  OBVIOUS
<1>2. <<s[1]>> = [k \in 1..1 |-> <<s[1]>>[k]]
  OBVIOUS
<1>3. \A k \in 1..1 : s[k] = <<s[1]>>[k]
  OBVIOUS
<1>4. Tail(s) = <<>>
  <2>1. Tail(s) \in Seq(S) /\ Len(Tail(s)) = 0
    OBVIOUS
  <2> QED BY <2>1, EmptySeq
<1> QED BY <1>1, <1>2, <1>3, <1>4

(* The first chunk fits.                                                   *)
Fitted(w) == [w EXCEPT !.todo = Tail(@)]
FittedGrad(w, u, g, cut) == Plus(IF Whole(w) THEN NoGrad ELSE g, Backward(w.todo[1], u.frozen, cut))

LEMMA FitsIn ==
    ASSUME NEW M \in SUBSET Samples, NEW w \in Works, NEW u, NEW g, NEW cut, InChunks(M, w, u, g, cut),
           w.todo # <<>>
    PROVE  Fitted(w) \in Works /\ InChunks(M, Fitted(w), u, FittedGrad(w, u, g, cut), cut)
<1> DEFINE w2 == Fitted(w)
           g2 == FittedGrad(w, u, g, cut)
<1> DEFINE chunk == w.todo[1]
           C == ToSet(chunk)
           back == GradOf(C, u.frozen, cut)
<1>1. PICK T \in SUBSET M : ToDo(M, w, u, g, cut, T)
  BY DEF InChunks
<1>2. /\ Covers(Tail(w.todo), T \ C) /\ chunk \in Seq(Samples) /\ C \subseteq T
  BY <1>1, CoversTail DEF ToDo
<1>3. Tail(w.todo) \in Seq(Seq(Samples))
  BY <1>2 DEF Covers
<1>4. w2 \in Works /\ w2.todo = Tail(w.todo) /\ w2.plan = w.plan /\ w2.rows = w.rows /\ w2.torn = w.torn
  BY <1>3 DEF Works, Fitted
<1>5. g2 = Plus(IF Whole(w) THEN NoGrad ELSE g, back)
  BY BackwardIs DEF FittedGrad
<1> HIDE DEF w2, g2
<1>6. C \in SUBSET Samples
  BY <1>2, RowsAre
<1>7. ToDo(M, w2, u, g2, cut, T \ C)
  <2>1. CASE Len(w.plan) = 1
    <3>1. w.todo = w.plan /\ T = M
      BY <1>1, <2>1 DEF ToDo
    <3>2. w.plan \in Seq(Seq(Samples))
      BY DEF Works
    <3>3. w.plan = <<w.plan[1]>> /\ Tail(w.plan) = <<>>
      BY <2>1, <3>2, OneChunk
    <3>4. Whole(w) /\ Tail(w.todo) = <<>>
      BY <3>1, <3>3 DEF Whole
    <3>5. g2 = back
      BY <1>5, <1>6, <3>4, PlusNone
    <3>6. T \ C = {}
      BY <1>2, <3>4 DEF Covers
    <3>7. M \ (T \ C) = C
      BY <1>2, <3>1, <3>6
    <3> HIDE DEF C, back
    <3> QED BY <1>2, <1>4, <3>4, <3>5, <3>7 DEF ToDo, back
  <2>2. CASE Len(w.plan) # 1
    <3>1. ~Whole(w)
      <4>1. w.plan \in Seq(Seq(Samples)) /\ \A x : Len(<<x>>) = 1
        BY DEF Works
      <4> QED BY <2>2, <4>1 DEF Whole
    <3>2. g2 = Plus(g, back)
      BY <1>5, <3>1
    <3>3. w.torn \/ g = GradOf(M \ T, u.frozen, cut)
      BY <1>1, <2>2 DEF ToDo
    <3>4. M \ T \in SUBSET Samples /\ (M \ T) \cap C = {} /\ (M \ T) \cup C = M \ (T \ C)
      BY <1>2
    <3>5. g = GradOf(M \ T, u.frozen, cut) => g2 = GradOf(M \ (T \ C), u.frozen, cut)
      <4>1. Plus(GradOf(M \ T, u.frozen, cut), back) = GradOf((M \ T) \cup C, u.frozen, cut)
        BY <1>6, <3>4, GradOfUnion
      <4> QED BY <3>2, <3>4, <4>1
    <3> HIDE DEF C, back
    <3> QED BY <1>2, <1>4, <2>2, <3>3, <3>5 DEF ToDo
  <2> QED BY <2>1, <2>2
<1>8. InMinibatch(w2, u)
  BY <1>4 DEF InChunks, InMinibatch
<1>9. T \ C \in SUBSET M
  BY <1>1
<1> QED BY <1>4, <1>7, <1>8, <1>9 DEF InChunks, w2, g2

(* A chunk is peeled: what backward() has left in the gradient is torn.    *)
Torn(w, kept) == [w EXCEPT !.todo = Peel(w.todo[1]) \o Tail(@), !.torn = @ \/ kept # {}]

LEMMA Peeled ==
    ASSUME NEW M \in SUBSET Samples, NEW w \in Works, NEW u, NEW g, NEW cut, InChunks(M, w, u, g, cut),
           w.todo # <<>>, w.plan = <<>>, Len(w.todo[1]) > 1, NEW added, NEW kept
    PROVE  Torn(w, kept) \in Works /\ InChunks(M, Torn(w, kept), u, Plus(g, Restrict(added, kept)), cut)
<1> DEFINE w2 == Torn(w, kept)
           g2 == Plus(g, Restrict(added, kept))
<1> DEFINE todo == Peel(w.todo[1]) \o Tail(w.todo)
<1>1. PICK T \in SUBSET M : ToDo(M, w, u, g, cut, T)
  BY DEF InChunks
<1>2. Covers(todo, T)
  BY <1>1, CoversPeel DEF ToDo
<1>3. todo \in Seq(Seq(Samples))
  BY <1>2 DEF Covers
<1>4. w2 = [w EXCEPT !.todo = todo, !.torn = @ \/ kept # {}]
  BY DEF Torn
<1> HIDE DEF todo, w2
<1>5. /\ w2 \in Works /\ w2.todo = todo /\ w2.plan = <<>> /\ w2.rows = w.rows
      /\ w2.torn = (w.torn \/ kept # {})
  <2>1. (w.torn \/ kept # {}) \in BOOLEAN
    OBVIOUS
  <2> QED BY <1>3, <1>4, <2>1 DEF Works
<1>6. Len(<<>>) # 1
  OBVIOUS
<1>7. ASSUME kept = {}, g = GradOf(M \ T, u.frozen, cut) PROVE g2 = g
  <2>1. Restrict(added, kept) = NoGrad
    BY <1>7 DEF Restrict, NoGrad
  <2>2. M \ T \in SUBSET Samples
    OBVIOUS
  <2> QED BY <1>7, <2>1, <2>2, PlusNone
<1>8. w.torn \/ g = GradOf(M \ T, u.frozen, cut)
  BY <1>1, <1>6 DEF ToDo
<1>9. ToDo(M, w2, u, g2, cut, T)
  BY <1>2, <1>5, <1>6, <1>7, <1>8 DEF ToDo
<1>10. InMinibatch(w2, u)
  BY <1>5 DEF InChunks, InMinibatch
<1> QED BY <1>5, <1>9, <1>10 DEF InChunks, w2

(* The whole minibatch once more, in order of length.                      *)
LEMMA WholeAgain ==
    ASSUME TypeOK, NEW r \in Ranks, NEW w \in Works, NEW u \in UpdType, NEW cut, InMinibatch(w, u),
           setup.mode = "reactive",
           NEW w2, w2 = [w EXCEPT !.plan = <<>>, !.todo = <<InOrder(w.rows)>>]
    PROVE  w2 \in Works /\ InChunks(Mine(r, w2.rows), w2, u, NoGrad, cut)
<1> DEFINE o == InOrder(w.rows)
<1>1. w.rows \in Seq(Samples) /\ Distinct(w.rows)
  BY MineRows
<1>2. o \in Seq(Samples) /\ Distinct(o) /\ ToSet(o) = ToSet(w.rows)
  BY <1>1, InOrderRows
<1> HIDE DEF o
<1>3. Covers(<<o>>, ToSet(w.rows))
  BY <1>2, CoversOne
<1>4. w2 = [w EXCEPT !.plan = <<>>, !.todo = <<o>>]
  BY DEF o
<1>5. <<o>> \in Seq(Seq(Samples)) /\ <<>> \in Seq(Seq(Samples)) /\ Len(<<>>) # 1
  BY <1>2
<1>6. w2 \in Works /\ w2.todo = <<o>> /\ w2.plan = <<>> /\ w2.rows = w.rows
  BY <1>4, <1>5 DEF Works
<1>7. Mine(r, w2.rows) = ToSet(w.rows)
  BY <1>6 DEF Mine
<1>8. InMinibatch(w2, u)
  BY <1>6 DEF InMinibatch
<1> QED BY <1>3, <1>5, <1>6, <1>7, <1>8, Fresh

(* A plan of the whole minibatch.                                          *)
LEMMA PlansAll ==
    ASSUME TypeOK, NEW r \in Ranks, NEW w \in Works, NEW u \in UpdType, NEW g, NEW cut, InMinibatch(w, u),
           setup.mode = "planned", NEW limit \in Nat,
           NEW w2, w2 = Planned(w, limit),
           Len(w2.plan) = 1 \/ g = NoGrad
    PROVE  w2 \in Works /\ InChunks(Mine(r, w2.rows), w2, u, g, cut)
<1> DEFINE p == PlanChunks(w.rows, limit)
<1>1. w.rows \in Seq(Samples) /\ Distinct(w.rows)
  BY MineRows
<1>2. Covers(p, ToSet(w.rows))
  BY <1>1, CoversPlan
<1>3. p \in Seq(Seq(Samples))
  BY <1>2 DEF Covers
<1>4. w2 = [w EXCEPT !.plan = p, !.todo = p, !.limit = limit]
  BY DEF Planned
<1> HIDE DEF p
<1>5. w2 \in Works /\ w2.todo = p /\ w2.plan = p /\ w2.rows = w.rows
  BY <1>3, <1>4 DEF Works
<1>6. Mine(r, w2.rows) = ToSet(w.rows)
  BY <1>5 DEF Mine
<1>7. InMinibatch(w2, u)
  BY <1>5 DEF InMinibatch
<1>8. Len(<<>>) # 1
  OBVIOUS
<1> QED BY <1>2, <1>5, <1>6, <1>7, <1>8, Fresh

(* The head of a minibatch.                                                *)
LEMMA Starts ==
    ASSUME TypeOK, NEW r \in Ranks, NEW u \in UpdType, NEW g, NEW cut
    PROVE  /\ GoOn(r, u, g).work \in Works
           /\ GoOn(r, u, g).pc = "chunks" =>
                InChunks(Mine(r, GoOn(r, u, g).work.rows), GoOn(r, u, g).work, GoOn(r, u, g).upd, GoOn(r, u, g).grad, cut)
<1> DEFINE n == GoOn(r, u, g)
           w == StartsMinibatch(r, u)
           rows == Minibatch(u)
<1>0. <<>> \in Seq(Samples) /\ <<>> \in Seq(Seq(Samples)) /\ 0 \in Nat /\ Len(<<>>) = 0
  OBVIOUS
<1>1. NoWork \in Works
  BY <1>0 DEF NoWork, Works
<1>2. n.work = w
  BY DEF GoOn
<1>3. CASE u.start >= Len(u.perm)
  <2>1. w = NoWork
    BY <1>3 DEF StartsMinibatch
  <2>2. n.pc # "chunks"
    BY <1>3 DEF GoOn
  <2> HIDE DEF n, w
  <2> QED BY <1>1, <1>2, <2>1, <2>2 DEF n
<1>4. CASE ~(u.start >= Len(u.perm))
  <2>1. n.upd = u /\ n.grad = ZeroedAtStart(w, g)
    BY <1>4 DEF GoOn
  <2>2. u.start \in Nat /\ (u.perm = <<>> \/ u.perm \in Perms) /\ \A p \in Perms : Len(p) \in Nat
    BY SamplesAre, PermDistinct DEF UpdType
  <2>3. u.start < Len(u.perm)
    BY <1>0, <1>4, <2>2
  <2> DEFINE v == [NoWork EXCEPT !.rows = rows]
  <2>4. v.rows = rows /\ InMinibatch(v, u)
    BY <2>3 DEF NoWork, InMinibatch
  <2>5. rows \in Seq(Samples) /\ Distinct(rows)
    BY <2>4, MineRows
  <2>6. v \in Works
    BY <1>1, <2>5 DEF Works
  <2>7. /\ setup.mode = "planned" => w = Planned(v, Capacity)
        /\ setup.mode = "reactive" => w = [v EXCEPT !.plan = <<rows>>, !.todo = <<rows>>]
        /\ setup.mode = "ddp" => w = [v EXCEPT !.todo = IF Shard(r, rows) = <<>> THEN <<>> ELSE <<InOrder(Shard(r, rows))>>]
    BY <1>4 DEF StartsMinibatch
  <2>8. setup.mode \in {"reactive", "planned", "ddp"} /\ Capacity \in Nat
    BY UpdateAssumption DEF TypeOK
  <2> HIDE DEF n, w, rows
  <2>9. Len(w.plan) = 1 \/ n.grad = NoGrad
    BY <2>1 DEF ZeroedAtStart
  <2>10. CASE setup.mode = "planned"
    <3> HIDE DEF v
    <3>1. w = Planned(v, Capacity) /\ Capacity \in Nat
      BY <2>7, <2>8, <2>10
    <3>3. w \in Works /\ InChunks(Mine(r, w.rows), w, u, n.grad, cut)
      BY <2>4, <2>6, <2>9, <2>10, <3>1, PlansAll
    <3> QED BY <1>2, <2>1, <3>3 DEF n
  <2>11. CASE setup.mode = "reactive"
    <3>1. w = [v EXCEPT !.plan = <<rows>>, !.todo = <<rows>>]
      BY <2>7, <2>11
    <3>2. <<rows>> \in Seq(Seq(Samples)) /\ Len(<<rows>>) = 1 /\ <<rows>> # <<>>
      BY <2>5
    <3> HIDE DEF v
    <3>3. w \in Works /\ w.todo = <<rows>> /\ w.plan = <<rows>> /\ w.rows = rows
      BY <2>4, <2>6, <3>1, <3>2 DEF Works
    <3>4. Covers(<<rows>>, ToSet(rows)) /\ Mine(r, w.rows) = ToSet(rows)
      BY <2>5, <2>11, <3>3, CoversOne DEF Mine
    <3>5. InMinibatch(w, u)
      BY <2>4, <3>3 DEF InMinibatch
    <3> QED BY <1>2, <2>1, <3>2, <3>3, <3>4, <3>5, Fresh DEF n
  <2>12. CASE setup.mode = "ddp"
    <3> DEFINE s == Shard(r, rows)
               o == InOrder(s)
               todo == IF s = <<>> THEN <<>> ELSE <<o>>
    <3>1. w = [v EXCEPT !.todo = todo]
      BY <2>7, <2>12
    <3>2. s \in Seq(Samples) /\ Distinct(s)
      BY <2>5, ShardRows
    <3> HIDE DEF s
    <3>3. o \in Seq(Samples) /\ Distinct(o) /\ ToSet(o) = ToSet(s)
      BY <3>2, InOrderRows
    <3> HIDE DEF o
    <3>4. Covers(todo, ToSet(s))
      <4>1. s = <<>> => ToSet(s) = {}
        BY DEF ToSet
      <4>2. Covers(<<o>>, ToSet(s))
        BY <3>3, CoversOne
      <4> QED BY <4>1, <4>2, CoversNone
    <3> HIDE DEF todo
    <3>5. todo \in Seq(Seq(Samples))
      BY <3>4 DEF Covers
    <3>6. v.plan = <<>>
      BY DEF NoWork
    <3> HIDE DEF v
    <3>7. w \in Works /\ w.todo = todo /\ w.plan = <<>> /\ w.rows = rows
      BY <2>4, <2>6, <3>1, <3>5, <3>6 DEF Works
    <3>8. Mine(r, w.rows) = ToSet(s)
      BY <2>12, <3>7 DEF Mine, s
    <3>9. InMinibatch(w, u)
      BY <2>4, <3>7 DEF InMinibatch
    <3>10. n.grad = NoGrad /\ Len(w.plan) # 1
      BY <1>0, <2>9, <3>7
    <3> QED BY <1>2, <2>1, <3>4, <3>7, <3>8, <3>9, <3>10, Fresh DEF n
  <2> QED BY <2>8, <2>10, <2>11, <2>12
<1> QED BY <1>3, <1>4

-----------------------------------------------------------------------------
(* A group has no critic warm-up: with one, its workers do not detach what *)
(* the trainer detaches (the run UpdateWarmup).                            *)
NoWarmup == \A s \in Setups : s.mode = "ddp" => s.warm = 0

LEMMA TrainerRank ==
    ASSUME IInv
    PROVE  TypeOK /\ 0 \in Ranks /\ (setup.mode # "ddp" => \A r \in Ranks : r = 0)
BY RankZero DEF IInv

LEMMA MineSame ==
    ASSUME setup' = setup, NEW r
    PROVE  MyRows(r)' = Mine(r, work'[r].rows)
BY DEF MyRows, Mine, Shard

(* What a rank is at is not changed.                                       *)
LEMMA Elsewhere ==
    ASSUME NEW q, WorkOf(q), setup' = setup, pc'[q] \in {"chunks", "grads", "step"} => pc'[q] = pc[q],
           work'[q] = work[q], upd'[q] = upd[q], grad'[q] = grad[q], detach'[q] = detach[q]
    PROVE  WorkOf(q)'
<1>1. MyRows(q)' = Mine(q, work[q].rows) /\ MyRows(q) = Mine(q, work[q].rows)
  BY MineSame DEF MyRows
<1> QED BY <1>1 DEF WorkOf

LEMMA UpdSame ==
    ASSUME UpdInv, setup' = setup, upd' = upd,
           \A r \in Ranks : pc'[r] \in Updating => pc[r] \in Updating /\ (pc'[r] = "step" <=> pc[r] = "step")
    PROVE  UpdInv'
<1>1. Ranks' = Ranks
  BY DEF Ranks
<1> QED BY <1>1 DEF UpdInv

(* No rank comes to an update or goes on in one.                           *)
LEMMA Idle ==
    ASSUME GInv, UNCHANGED <<setup, work, upd, grad, detach>>,
           \A r \in Ranks : pc'[r] \in Updating => pc'[r] = pc[r]
    PROVE  GInv'
<1>1. Ranks' = Ranks
  BY DEF Ranks
<1>2. WorkType' /\ DetachInv'
  BY <1>1 DEF GInv, WorkType, DetachInv
<1>3. UpdInv'
  BY UpdSame DEF GInv
<1>4. ASSUME NEW r \in Ranks PROVE WorkOf(r)'
  BY Elsewhere DEF GInv, WorkInv, Updating
<1>5. WorkInv'
  BY <1>1, <1>4 DEF WorkInv
<1> QED BY <1>2, <1>3, <1>5 DEF GInv

LEMMA RaisedIdle ==
    ASSUME GInv, TypeOK, NEW r \in Ranks, Raised(r), UNCHANGED <<setup, work, upd, grad, detach>>
    PROVE  GInv'
<1>1. \A q \in Ranks : pc'[q] \in {"send", "join", "left"} \/ pc'[q] = pc[q]
  BY DEF TypeOK, Raised, TornDown
<1> QED BY <1>1, Idle DEF Updating

(* A rank goes on in its minibatch.                                        *)
LEMMA InOneRank ==
    ASSUME GInv, TypeOK, NEW r \in Ranks, pc[r] = "chunks", NEW w2 \in Works, NEW g2,
           work' = [work EXCEPT ![r] = w2], grad' = [grad EXCEPT ![r] = g2],
           UNCHANGED <<setup, pc, upd, detach>>,
           InChunks(Mine(r, w2.rows), w2, upd[r], g2, detach[r])
    PROVE  GInv'
<1>1. Ranks' = Ranks
  BY DEF Ranks
<1>2. work'[r] = w2 /\ grad'[r] = g2 /\ \A q \in Ranks : q # r => work'[q] = work[q] /\ grad'[q] = grad[q]
  BY DEF GInv, WorkType, TypeOK
<1>3. WorkType'
  <2>1. work' \in [Ranks -> Works] /\ detach' \in [Ranks -> BOOLEAN]
    BY DEF GInv, WorkType
  <2>2. grad' = [q \in Ranks |-> grad'[q]]
    BY DEF TypeOK
  <2> QED BY <1>1, <2>1, <2>2 DEF WorkType
<1>4. DetachInv' /\ UpdInv'
  BY <1>1, UpdSame DEF GInv, DetachInv
<1>5. WorkOf(r)'
  <2>1. MyRows(r)' = Mine(r, w2.rows)
    BY <1>2, MineSame
  <2> QED BY <1>2, <2>1 DEF WorkOf
<1>6. ASSUME NEW q \in Ranks, q # r PROVE WorkOf(q)'
  BY <1>2, <1>6, Elsewhere DEF GInv, WorkInv
<1>7. WorkInv'
  BY <1>1, <1>5, <1>6 DEF WorkInv
<1> QED BY <1>3, <1>4, <1>7 DEF GInv

(* What is known of a rank in its minibatch.                               *)
LEMMA AtChunks ==
    ASSUME GInv, TypeOK, NEW r \in Ranks, pc[r] = "chunks"
    PROVE  /\ work[r] \in Works /\ upd[r] \in UpdType /\ InMinibatch(work[r], upd[r])
           /\ MyRows(r) = Mine(r, work[r].rows) /\ MyRows(r) \in SUBSET Samples
           /\ InChunks(MyRows(r), work[r], upd[r], grad[r], detach[r])
<1>1. InChunks(MyRows(r), work[r], upd[r], grad[r], detach[r])
  BY DEF GInv, WorkInv, WorkOf
<1>2. work[r] \in Works /\ upd[r] \in UpdType
  BY DEF GInv, WorkType, TypeOK
<1>3. InMinibatch(work[r], upd[r])
  BY <1>1 DEF InChunks
<1>4. MyRows(r) = Mine(r, work[r].rows)
  BY DEF MyRows
<1> QED BY <1>1, <1>2, <1>3, <1>4, MineRows

LEMMA ChunkFitsG ==
    ASSUME GInv, TypeOK, NEW r \in Ranks, ChunkFits(r)
    PROVE  GInv'
<1> DEFINE w2 == Fitted(work[r])
           g2 == FittedGrad(work[r], upd[r], grad[r], detach[r])
<1>1. pc[r] = "chunks" /\ work[r].todo # <<>> /\ UNCHANGED <<setup, pc, upd, detach>>
  BY DEF ChunkFits
<1>2. work' = [work EXCEPT ![r] = w2] /\ grad' = [grad EXCEPT ![r] = g2]
  BY DEF ChunkFits, BackwardOf, Fitted, FittedGrad
<1>3. w2 \in Works /\ InChunks(MyRows(r), w2, upd[r], g2, detach[r])
  BY <1>1, AtChunks, FitsIn
<1>4. w2.rows = work[r].rows
  BY <1>1, AtChunks DEF Works, Fitted
<1>5. MyRows(r) = Mine(r, w2.rows)
  BY <1>4 DEF MyRows
<1> HIDE DEF w2, g2
<1> QED BY <1>1, <1>2, <1>3, <1>5, InOneRank

LEMMA WholeTooLargeG ==
    ASSUME GInv, TypeOK, NEW r \in Ranks, WholeTooLarge(r)
    PROVE  GInv'
<1> DEFINE w2 == [work[r] EXCEPT !.plan = <<>>, !.todo = <<InOrder(work[r].rows)>>]
<1>1. pc[r] = "chunks" /\ setup.mode = "reactive" /\ UNCHANGED <<setup, pc, upd, detach>>
  BY DEF WholeTooLarge, NoMemory
<1>2. work' = [work EXCEPT ![r] = w2] /\ grad' = [grad EXCEPT ![r] = NoGrad]
  BY DEF WholeTooLarge, Recovered
<1>3. w2 \in Works /\ InChunks(Mine(r, w2.rows), w2, upd[r], NoGrad, detach[r])
  BY <1>1, AtChunks, WholeAgain
<1> HIDE DEF w2
<1> QED BY <1>1, <1>2, <1>3, InOneRank

LEMMA PlanTooLargeG ==
    ASSUME GInv, TypeOK, NEW r \in Ranks, PlanTooLarge(r)
    PROVE  GInv'
<1> DEFINE limit == work[r].limit \div 2
           w2 == Planned(work[r], limit)
<1>1. pc[r] = "chunks" /\ setup.mode = "planned" /\ UNCHANGED <<setup, upd, detach>>
  BY DEF PlanTooLarge, NoMemory
<1>2. CASE Raised(r) /\ UNCHANGED <<grad, work>>
  BY <1>1, <1>2, RaisedIdle
<1>3. CASE ~(Raised(r) /\ UNCHANGED <<grad, work>>)
  <2>1. work' = [work EXCEPT ![r] = w2] /\ grad' = [grad EXCEPT ![r] = NoGrad] /\ pc' = pc
    BY <1>3 DEF PlanTooLarge, Recovered
  <2>2. limit \in Nat
    <3>1. work[r].limit \in Nat
      BY <1>1, AtChunks DEF Works
    <3> QED BY <3>1
  <2> HIDE DEF limit
  <2>3. w2 \in Works /\ InChunks(Mine(r, w2.rows), w2, upd[r], NoGrad, detach[r])
    BY <1>1, <2>2, AtChunks, PlansAll
  <2> HIDE DEF w2
  <2> QED BY <1>1, <2>1, <2>3, InOneRank
<1> QED BY <1>2, <1>3

LEMMA ChunkTooLargeG ==
    ASSUME GInv, TypeOK, NEW r \in Ranks, ChunkTooLarge(r)
    PROVE  GInv'
<1> DEFINE chunk == work[r].todo[1]
           added == BackwardOf(r, chunk)
<1>1. /\ pc[r] = "chunks" /\ work[r].plan = <<>> /\ work[r].todo # <<>>
      /\ UNCHANGED <<setup, upd, detach>>
  BY DEF ChunkTooLarge, NoMemory
<1>2. CASE Raised(r) /\ UNCHANGED <<grad, work>>
  BY <1>1, <1>2, RaisedIdle
<1>3. CASE ~(Raised(r) /\ UNCHANGED <<grad, work>>)
  <2>1. Len(chunk) > 1 /\ pc' = pc
    BY <1>3 DEF ChunkTooLarge
  <2>2. PICK kept \in SUBSET DOMAIN added :
          /\ grad' = [grad EXCEPT ![r] = Plus(@, Restrict(added, kept))]
          /\ work' = [work EXCEPT ![r].todo = Peel(chunk) \o Tail(@),
                                  ![r].torn = @ \/ kept # {}]
    BY <1>3 DEF ChunkTooLarge
  <2> DEFINE w2 == Torn(work[r], kept)
             g2 == Plus(grad[r], Restrict(added, kept))
  <2>3. work' = [work EXCEPT ![r] = w2] /\ grad' = [grad EXCEPT ![r] = g2]
    <3> HIDE DEF added
    <3> QED BY <2>2 DEF GInv, WorkType, Torn
  <2>4. w2 \in Works /\ InChunks(MyRows(r), w2, upd[r], g2, detach[r])
    <3> HIDE DEF added
    <3> QED BY <1>1, <2>1, AtChunks, Peeled
  <2>5. w2.rows = work[r].rows
    <3> HIDE DEF chunk
    <3> QED BY <1>1, AtChunks DEF Works, Torn
  <2> HIDE DEF w2, g2
  <2>6. MyRows(r) = Mine(r, w2.rows)
    BY <2>5 DEF MyRows
  <2> QED BY <1>1, <2>1, <2>3, <2>4, <2>6, InOneRank
<1> QED BY <1>2, <1>3

LEMMA ChunksDoneG ==
    ASSUME GInv, IInv, NEW r \in Ranks, ChunksDone(r)
    PROVE  GInv'
<1>0. TypeOK
  BY TrainerRank
<1>1. /\ pc[r] = "chunks" /\ work[r].todo = <<>>
      /\ UNCHANGED <<setup, detach, grad, upd, work>>
      /\ pc' = [pc EXCEPT ![r] = IF setup.mode = "ddp" THEN "grads" ELSE "step"]
  BY DEF ChunksDone
<1>2. Ranks' = Ranks /\ pc'[r] = IF setup.mode = "ddp" THEN "grads" ELSE "step"
  BY <1>0, <1>1 DEF Ranks, TypeOK
<1>3. \A q \in Ranks : q # r => pc'[q] = pc[q]
  BY <1>0, <1>1 DEF TypeOK
<1>4. WorkType' /\ DetachInv'
  BY <1>1, <1>2 DEF GInv, WorkType, DetachInv
<1>5. UpdInv'
  <2>1. CASE setup.mode = "ddp"
    BY <1>1, <1>2, <1>3, <2>1, UpdSame DEF GInv, Updating
  <2>2. CASE setup.mode # "ddp"
    <3>1. \A p, q \in Ranks' : p = q
      BY <1>2, <2>2, TrainerRank
    <3> QED BY <3>1 DEF UpdInv
  <2> QED BY <2>1, <2>2
<1>6. InGrads(MyRows(r), work[r], upd[r], grad[r], detach[r])
  BY <1>0, <1>1, AtChunks, AllDone
<1>7. MyRows(r)' = MyRows(r)
  BY <1>1, MineSame DEF MyRows
<1>8. setup.mode # "ddp" => InStep(work[r], upd[r], grad[r], detach[r])
  <2>1. setup.mode # "ddp" => MyRows(r) = ToSet(Minibatch(upd[r]))
    BY <1>6 DEF InGrads, InMinibatch, MyRows, Mine
  <2> QED BY <1>6, <2>1 DEF InGrads, InStep
<1>9. WorkOf(r)'
  BY <1>1, <1>2, <1>6, <1>7, <1>8 DEF WorkOf
<1>10. ASSUME NEW q \in Ranks, q # r PROVE WorkOf(q)'
  BY <1>1, <1>3, <1>10, Elsewhere DEF GInv, WorkInv
<1>11. WorkInv'
  BY <1>2, <1>9, <1>10 DEF WorkInv
<1> QED BY <1>4, <1>5, <1>11 DEF GInv

-----------------------------------------------------------------------------
LEMMA InitG ==
    ASSUME Init
    PROVE  GInv
<1>1. \A r \in Ranks : pc[r] \notin Updating
  BY DEF Init, Updating
<1>2. <<>> \in Seq(Samples) /\ <<>> \in Seq(Seq(Samples))
  OBVIOUS
<1>3. NoWork \in Works
  BY <1>2 DEF NoWork, Works
<1>4. WorkType
  BY <1>3 DEF Init, WorkType
<1>5. WorkInv /\ UpdInv
  BY <1>1 DEF WorkInv, WorkOf, UpdInv, Updating
<1>6. DetachInv
  BY DEF Init, DetachInv
<1> QED BY <1>4, <1>5, <1>6 DEF GInv

LEMMA BeginIterationG ==
    ASSUME NoWarmup, IInv, GInv, BeginIteration
    PROVE  GInv'
<1>1. TypeOK /\ 0 \in Ranks /\ Ranks' = Ranks
  BY TrainerRank DEF BeginIteration, Ranks
<1>2. \A r \in Ranks : r # 0 => pc[r] \in {"msg", "left"} /\ pc'[r] = pc[r]
  BY <1>1 DEF IInv, TypeOK, PhaseInv, BeginIteration, Workers
<1>3. pc'[0] \in {"send", "perm"} /\ work' = work /\ grad' = grad /\ setup' = setup
  BY <1>1 DEF TypeOK, BeginIteration
<1>4. (msg.iteration + 1 <= setup.warm) \in BOOLEAN
  OBVIOUS
<1>5. detach' = [detach EXCEPT ![0] = msg.iteration + 1 <= setup.warm]
  BY DEF BeginIteration
<1>6. WorkType'
  BY <1>1, <1>3, <1>4, <1>5 DEF GInv, WorkType
<1>7. DetachInv'
  <2>1. SUFFICES ASSUME setup.mode = "ddp" PROVE \A r \in Ranks : detach'[r] = FALSE
    BY <1>1, <1>3 DEF DetachInv
  <2>2. setup.warm = 0 /\ msg.iteration \in Nat
    BY <1>1, <2>1 DEF NoWarmup, TypeOK
  <2>3. (msg.iteration + 1 <= setup.warm) = FALSE
    BY <2>2
  <2> QED BY <1>5, <2>1, <2>3 DEF GInv, DetachInv, WorkType
<1>8. UpdInv'
  BY <1>1, <1>2, <1>3 DEF UpdInv, Updating
<1>9. WorkInv'
  BY <1>1, <1>2, <1>3 DEF WorkInv, WorkOf
<1> QED BY <1>6, <1>7, <1>8, <1>9 DEF GInv

LEMMA ReceiveUpdateG ==
    ASSUME GInv, ReceiveUpdate
    PROVE  GInv'
<1>1. Ranks' = Ranks /\ UNCHANGED <<setup, detach, grad, work>>
  BY DEF ReceiveUpdate, Ranks
<1>2. \A r \in Ranks : pc'[r] = "perm" /\ upd'[r] = upd[0]
  BY DEF ReceiveUpdate, Everyone
<1>3. WorkType' /\ DetachInv'
  BY <1>1 DEF GInv, WorkType, DetachInv
<1>4. UpdInv' /\ WorkInv'
  BY <1>1, <1>2 DEF UpdInv, WorkInv, WorkOf
<1> QED BY <1>3, <1>4 DEF GInv

(* What a rank goes on with depends on its update alone.                   *)
LEMMA GoesOnSame ==
    ASSUME NEW r, NEW u, NEW g
    PROVE  /\ GoOn(r, u, g).upd = IF u.start >= Len(u.perm) THEN [u EXCEPT !.epoch = @ + 1] ELSE u
           /\ GoOn(r, u, g).pc \in {"chunks", "perm", "sums"}
BY DEF GoOn

LEMMA BroadcastPermG ==
    ASSUME IInv, GInv, BroadcastPerm
    PROVE  GInv'
<1>1. TypeOK /\ Ranks' = Ranks
  BY TrainerRank DEF BroadcastPerm, Ranks
<1>2. setup' = setup /\ detach' = detach /\ \A r \in Ranks : pc[r] = "perm"
  BY Zenon DEF BroadcastPerm, Meets
<1>3. PICK perm \in Perms :
         LET next == [r \in Ranks |-> GoOn(r, [upd[r] EXCEPT !.perm = perm, !.start = 0], grad[r])]
         IN /\ pc' = [r \in Ranks |-> next[r].pc] /\ upd' = [r \in Ranks |-> next[r].upd]
            /\ work' = [r \in Ranks |-> next[r].work] /\ grad' = [r \in Ranks |-> next[r].grad]
  BY DEF BroadcastPerm
<1> DEFINE U(r) == [upd[r] EXCEPT !.perm = perm, !.start = 0]
           n(r) == GoOn(r, U(r), grad[r])
<1>4. \A r \in Ranks : pc'[r] = n(r).pc /\ upd'[r] = n(r).upd /\ work'[r] = n(r).work /\ grad'[r] = n(r).grad
  BY <1>3
<1>5. work' = [r \in Ranks |-> work'[r]] /\ grad' = [r \in Ranks |-> grad'[r]]
  BY <1>3
<1>6. \A r \in Ranks : U(r) \in UpdType
  <2>1. \A v \in UpdType : [v EXCEPT !.perm = perm, !.start = 0] \in UpdType
    BY DEF UpdType
  <2>2. \A r \in Ranks : upd[r] \in UpdType
    BY <1>1 DEF TypeOK
  <2> QED BY <2>1, <2>2
<1>7. \A r, q \in Ranks : U(r) = U(q)
  BY <1>2 DEF GInv, UpdInv, Updating
<1> HIDE DEF U
<1>8. ASSUME NEW r \in Ranks
      PROVE  /\ n(r).work \in Works
             /\ n(r).pc = "chunks" => InChunks(Mine(r, n(r).work.rows), n(r).work, n(r).upd, n(r).grad, detach[r])
             /\ n(r).pc \in {"chunks", "perm", "sums"}
             /\ n(r).upd = IF U(r).start >= Len(U(r).perm) THEN [U(r) EXCEPT !.epoch = @ + 1] ELSE U(r)
  BY <1>1, <1>6, Starts, GoesOnSame
<1> HIDE DEF n
<1>9. WorkType'
  BY <1>1, <1>2, <1>4, <1>5, <1>8 DEF GInv, WorkType
<1>10. DetachInv'
  BY <1>1, <1>2 DEF GInv, DetachInv
<1>11. UpdInv'
  <2>1. \A r, q \in Ranks : upd'[r] = upd'[q]
    <3>1. \A r \in Ranks : upd'[r] = IF U(r).start >= Len(U(r).perm) THEN [U(r) EXCEPT !.epoch = @ + 1] ELSE U(r)
      BY <1>4, <1>8
    <3>2. ASSUME NEW r \in Ranks, NEW q \in Ranks PROVE upd'[r] = upd'[q]
      <4>1. U(r) = U(q)
        BY <1>7
      <4> QED BY <3>1, <4>1
    <3> QED BY <3>2
  <2>2. \A r \in Ranks : pc'[r] # "step"
    BY <1>4, <1>8
  <2> QED BY <1>1, <2>1, <2>2 DEF UpdInv
<1>12. ASSUME NEW r \in Ranks PROVE WorkOf(r)'
  <2>1. MyRows(r)' = Mine(r, n(r).work.rows)
    BY <1>2, <1>4, MineSame
  <2>2. pc'[r] # "grads" /\ pc'[r] # "step"
    BY <1>4, <1>8
  <2> QED BY <1>2, <1>4, <1>8, <2>1, <2>2 DEF WorkOf
<1>13. WorkInv'
  BY <1>1, <1>12 DEF WorkInv
<1> QED BY <1>9, <1>10, <1>11, <1>13, Zenon DEF GInv

(* The sum over the ranks is the gradient of the minibatch.                *)
LEMMA SummedIs ==
    ASSUME IInv, GInv, NEW r \in Ranks, \A q \in Ranks : pc[q] = "grads",
           \A q \in Ranks : ~work[q].torn
    PROVE  Summed = GradOf(ToSet(Minibatch(upd[r])), upd[r].frozen, detach[r])
<1> DEFINE rows == Minibatch(upd[r])
           f == upd[r].frozen
           cut == detach[r]
<1>1. TypeOK
  BY TrainerRank
<1>2. \A q \in Ranks : upd[q] = upd[r]
  BY DEF GInv, UpdInv, Updating
<1>3. ASSUME NEW q \in Ranks
      PROVE  /\ setup.mode = "ddp" /\ InMinibatch(work[q], upd[q])
             /\ grad[q] = GradOf(MyRows(q), upd[q].frozen, detach[q])
  BY <1>3 DEF GInv, WorkInv, WorkOf, InGrads
<1>4. \A q \in Ranks : work[q].rows = rows /\ detach[q] = detach[r]
  BY <1>2, <1>3 DEF InMinibatch, GInv, DetachInv
<1>5. rows \in Seq(Samples) /\ Distinct(rows)
  <2>1. upd[r] \in UpdType
    BY <1>1 DEF TypeOK
  <2> QED BY <1>1, <1>3, <1>4, <2>1, MineRows
<1> HIDE DEF rows, f, cut
<1>6. /\ \A q, p \in Ranks : q # p => ShardOf(rows)[q] \cap ShardOf(rows)[p] = {}
      /\ RowsOf(ShardOf(rows), Ranks) = ToSet(rows)
      /\ ShardOf(rows) \in [Ranks -> SUBSET Samples]
  BY <1>1, <1>5, ShardRows DEF ShardOf
<1>7. \A q \in Ranks : grad[q] = GradOf(ShardOf(rows)[q], f, cut)
  <2>1. \A q \in Ranks : MyRows(q) = ShardOf(rows)[q]
    BY <1>3, <1>4 DEF MyRows, Mine, ShardOf
  <2> QED BY <1>2, <1>3, <1>4, <2>1 DEF f, cut
<1>8. grad \in [Ranks -> Grads]
  <2>1. \A q \in Ranks : grad[q] \in Grads
    BY <1>6, <1>7, GradOfIn
  <2>2. grad = [q \in Ranks |-> grad[q]]
    BY DEF GInv, WorkType
  <2> QED BY <2>1, <2>2
<1>9. IsFiniteSet(Ranks)
  <2>1. setup.world \in Nat
    BY <1>1, UpdateAssumption DEF TypeOK
  <2> QED BY <2>1, FS_Interval DEF Ranks
<1>10. SumOf(grad) = GradOf(RowsOf(ShardOf(rows), Ranks), f, cut)
  <2>1. PICK M : M = ShardOf(rows)
    OBVIOUS
  <2>2. /\ M \in [Ranks -> SUBSET Samples] /\ \A q, p \in Ranks : q # p => M[q] \cap M[p] = {}
        /\ \A q \in Ranks : grad[q] = GradOf(M[q], f, cut)
    BY <1>6, <1>7, <2>1
  <2>3. SumOf(grad) = GradOf(RowsOf(M, Ranks), f, cut)
    BY <1>8, <1>9, <2>2, SumOfRanks
  <2> QED BY <2>1, <2>3
<1> QED BY <1>4, <1>6, <1>10 DEF Summed, SumOf, rows, f, cut

LEMMA SyncGradsG ==
    ASSUME IInv, GInv, SyncGrads
    PROVE  GInv'
<1> DEFINE torn == \E q \in Ranks : work[q].torn
<1>1. /\ Ranks' = Ranks /\ setup' = setup /\ detach' = detach /\ upd' = upd
      /\ \A r \in Ranks : pc[r] = "grads" /\ pc'[r] = "step" /\ grad'[r] = Summed
      /\ grad' = [r \in Ranks |-> grad'[r]]
      /\ work' = [r \in Ranks |-> [work[r] EXCEPT !.torn = torn]]
  BY DEF SyncGrads, Ranks, Meets, Everyone
<1>2. torn \in BOOLEAN
  OBVIOUS
<1> HIDE DEF torn
<1>3. \A r \in Ranks : work'[r] \in Works /\ work'[r].torn = torn
  BY <1>1, <1>2 DEF GInv, WorkType, Works
<1>4. work' \in [Ranks -> Works]
  BY <1>1, <1>3
<1>5. WorkType' /\ DetachInv'
  BY <1>1, <1>4 DEF GInv, WorkType, DetachInv
<1>6. UpdInv'
  BY <1>1 DEF GInv, UpdInv, Updating
<1>7. ASSUME NEW r \in Ranks PROVE WorkOf(r)'
  <2>1. torn \/ Summed = GradOf(ToSet(Minibatch(upd[r])), upd[r].frozen, detach[r])
    BY <1>1, SummedIs DEF torn
  <2>2. InStep(work'[r], upd[r], grad'[r], detach[r])
    BY <1>1, <1>3, <2>1 DEF InStep
  <2> QED BY <1>1, <2>2 DEF WorkOf
<1>8. WorkInv'
  BY <1>1, <1>7 DEF WorkInv
<1> QED BY <1>5, <1>6, <1>8 DEF GInv

LEMMA OptimizerStepG ==
    ASSUME IInv, GInv, NEW r \in Ranks, OptimizerStep(r)
    PROVE  GInv'
<1> DEFINE u == [upd[r] EXCEPT !.start = @ + BatchSize]
           n == GoOn(r, u, grad[r])
<1>1. TypeOK /\ Ranks' = Ranks /\ setup' = setup /\ detach' = detach /\ pc[r] = "step"
  BY TrainerRank DEF OptimizerStep, Ranks
<1>2. /\ pc' = [pc EXCEPT ![r] = n.pc] /\ upd' = [upd EXCEPT ![r] = n.upd]
      /\ work' = [work EXCEPT ![r] = n.work] /\ grad' = [grad EXCEPT ![r] = n.grad]
  BY DEF OptimizerStep
<1>3. u \in UpdType
  <2>1. upd[r] \in UpdType /\ BatchSize \in Nat
    BY <1>1, UpdateAssumption DEF TypeOK
  <2>2. upd[r].start + BatchSize \in Nat
    BY <2>1 DEF UpdType
  <2> QED BY <2>1, <2>2 DEF UpdType
<1>4. n.upd = NextUpd(upd[r])
  <2>1. NextUpd(upd[r]) = IF u.start >= Len(u.perm) THEN [u EXCEPT !.epoch = @ + 1] ELSE u
    BY DEF NextUpd
  <2> HIDE DEF u
  <2> QED BY <2>1, GoesOnSame
<1> HIDE DEF u
<1>5. /\ n.work \in Works /\ n.pc \in {"chunks", "perm", "sums"}
      /\ n.pc = "chunks" => InChunks(Mine(r, n.work.rows), n.work, n.upd, n.grad, detach[r])
  BY <1>1, <1>3, Starts, GoesOnSame
<1> HIDE DEF n
<1>6. /\ pc'[r] = n.pc /\ upd'[r] = n.upd /\ work'[r] = n.work /\ grad'[r] = n.grad
      /\ \A q \in Ranks : q # r => pc'[q] = pc[q] /\ upd'[q] = upd[q] /\ work'[q] = work[q] /\ grad'[q] = grad[q]
  BY <1>1, <1>2 DEF TypeOK, GInv, WorkType
<1>7. WorkType'
  <2>1. work' \in [Ranks -> Works]
    BY <1>2, <1>5 DEF GInv, WorkType
  <2>2. grad' = [q \in Ranks |-> grad'[q]]
    BY <1>1, <1>2 DEF TypeOK
  <2> QED BY <1>1, <2>1, <2>2 DEF GInv, WorkType
<1>8. DetachInv'
  BY <1>1 DEF GInv, DetachInv
<1>9. UpdInv'
  <2>1. ASSUME NEW q \in Ranks, q # r, pc[q] \in Updating
        PROVE  IF pc[q] = "step" THEN upd'[r] = NextUpd(upd[q]) ELSE upd[q] = upd'[r]
    BY <1>1, <1>4, <1>6, <2>1 DEF GInv, UpdInv, Updating
  <2>2. ASSUME NEW p \in Ranks, NEW q \in Ranks, pc'[p] \in Updating, pc'[q] \in Updating
        PROVE  /\ (pc'[p] = "step" <=> pc'[q] = "step") => upd'[p] = upd'[q]
               /\ pc'[p] = "step" /\ pc'[q] # "step" => upd'[q] = NextUpd(upd'[p])
    <3>1. CASE p = r
      BY <1>5, <1>6, <2>1, <2>2, <3>1
    <3>2. CASE q = r
      BY <1>5, <1>6, <2>1, <2>2, <3>2
    <3>3. CASE p # r /\ q # r
      BY <1>6, <2>2, <3>3 DEF GInv, UpdInv
    <3> QED BY <3>1, <3>2, <3>3
  <2> QED BY <1>1, <2>2 DEF UpdInv
<1>10. WorkOf(r)'
  <2>1. MyRows(r)' = Mine(r, n.work.rows)
    BY <1>1, <1>6, MineSame
  <2> QED BY <1>1, <1>5, <1>6, <2>1 DEF WorkOf
<1>11. ASSUME NEW q \in Ranks, q # r PROVE WorkOf(q)'
  BY <1>1, <1>6, <1>11, Elsewhere DEF GInv, WorkInv
<1>12. WorkInv'
  BY <1>1, <1>10, <1>11 DEF WorkInv
<1> QED BY <1>7, <1>8, <1>9, <1>12 DEF GInv

(* The steps in which no rank goes on in an update.                        *)
LEMMA OthersG ==
    ASSUME GInv, TypeOK,
           \/ ReceiveState \/ ReceiveStop \/ ReduceSums \/ Destroy \/ Teardown \/ Join \/ UNCHANGED vars
           \/ \E r \in Ranks : CollectiveFails(r) \/ WorkerKilled(r)
    PROVE  GInv'
<1>1. CASE ReceiveState
  <2>1. \A r \in Ranks : pc'[r] \notin Updating
    BY <1>1 DEF ReceiveState, TypeOK, Blob, Updating
  <2> QED BY <1>1, <2>1, Idle DEF ReceiveState
<1>2. CASE ReceiveStop
  <2>1. \A r \in Ranks : pc'[r] \notin Updating
    BY <1>2 DEF ReceiveStop, AfterStop, Updating
  <2> QED BY <1>2, <2>1, Idle DEF ReceiveStop
<1>3. CASE ReduceSums
  <2>1. \A r \in Ranks : pc'[r] \notin Updating
    BY <1>3 DEF ReduceSums, Updating
  <2> QED BY <1>3, <2>1, Idle DEF ReduceSums
<1>4. CASE Destroy
  <2>1. \A r \in Ranks : pc'[r] \notin Updating
    BY <1>4 DEF Destroy, Updating
  <2> QED BY <1>4, <2>1, Idle DEF Destroy
<1>5. CASE Teardown
  <2>1. \A r \in Ranks : pc'[r] \in Updating => pc'[r] = pc[r]
    BY <1>5 DEF Teardown, TornDown, TypeOK, Updating
  <2> QED BY <1>5, <2>1, Idle DEF Teardown
<1>6. CASE Join
  <2>1. \A r \in Ranks : pc'[r] \in Updating => pc'[r] = pc[r]
    BY <1>6 DEF Join, TypeOK, Updating
  <2> QED BY <1>6, <2>1, Idle DEF Join
<1>7. CASE UNCHANGED vars
  BY <1>7, Idle DEF vars
<1>8. ASSUME NEW r \in Ranks, CollectiveFails(r) PROVE GInv'
  BY <1>8, RaisedIdle DEF CollectiveFails
<1>9. ASSUME NEW r \in Ranks, WorkerKilled(r) PROVE GInv'
  <2>1. \A q \in Ranks : pc'[q] \in Updating => pc'[q] = pc[q]
    BY <1>9 DEF WorkerKilled, TypeOK, Updating
  <2> QED BY <1>9, <2>1, Idle DEF WorkerKilled
<1> QED BY <1>1, <1>2, <1>3, <1>4, <1>5, <1>6, <1>7, <1>8, <1>9

LEMMA NextG ==
    ASSUME NoWarmup, IInv, GInv, [Next]_vars
    PROVE  GInv'
<1>1. TypeOK
  BY TrainerRank
<1>2. CASE Collective
  BY <1>1, <1>2, ReceiveUpdateG, BroadcastPermG, SyncGradsG, OthersG DEF Collective
<1>3. CASE Proceeds
  <2>1. CASE BeginIteration \/ Teardown \/ Join
    BY <1>1, <2>1, BeginIterationG, OthersG
  <2> QED BY <1>1, <1>3, <2>1, ChunkFitsG, ChunksDoneG, OptimizerStepG DEF Proceeds
<1>4. ASSUME NEW r \in Ranks, CollectiveFails(r) \/ Fails(r)
      PROVE  GInv'
  BY <1>1, <1>4, WholeTooLargeG, ChunkTooLargeG, PlanTooLargeG, OthersG DEF Fails
<1>5. CASE UNCHANGED vars
  BY <1>1, <1>5, OthersG
<1> QED BY <1>2, <1>3, <1>4, <1>5 DEF Next

(* No other step than its own adds to the policy of a rank that is about   *)
(* to take one.                                                            *)
LEMMA StepsOwn ==
    ASSUME IInv, [Next]_vars, NEW r \in Ranks, Steps(r)
    PROVE  OptimizerStep(r)
<1>1. TypeOK /\ pc[r] = "step" /\ steps'[r] # steps[r]
  BY TrainerRank DEF Steps
<1>2. ~ReceiveState
  BY <1>1 DEF ReceiveState, Blob
<1>3. ~UNCHANGED steps
  BY <1>1
<1>4. ~Collective
  BY <1>2, <1>3 DEF Collective, ReceiveUpdate, ReceiveStop, BroadcastPerm, SyncGrads, ReduceSums, Destroy
<1>5. ~\E q \in Ranks : CollectiveFails(q) \/ Fails(q)
  BY <1>3 DEF CollectiveFails, Fails, WholeTooLarge, ChunkTooLarge, PlanTooLarge, WorkerKilled, NoMemory
<1>6. ~(BeginIteration \/ Teardown \/ Join) /\ \A q \in Ranks : ~ChunkFits(q) /\ ~ChunksDone(q)
  BY <1>3 DEF BeginIteration, Teardown, Join, ChunkFits, ChunksDone
<1>7. ASSUME NEW q \in Ranks, OptimizerStep(q), q # r PROVE FALSE
  BY <1>1, <1>7 DEF OptimizerStep, TypeOK
<1>8. Next
  BY <1>3 DEF vars
<1> QED BY <1>4, <1>5, <1>6, <1>7, <1>8 DEF Next, Proceeds

LEMMA StepApplies ==
    ASSUME IInv, GInv, [Next]_vars, NEW r \in Ranks, Steps(r), ~work[r].torn
    PROVE  Last(steps'[r].done).grad = Backward(Minibatch(upd[r]), upd[r].frozen, detach[0])
<1>1. TypeOK /\ 0 \in Ranks /\ OptimizerStep(r) /\ pc[r] = "step"
  BY TrainerRank, StepsOwn DEF Steps
<1>2. Done(r)' = Append(Done(r), Entry(r))
  BY <1>1 DEF OptimizerStep, TypeOK, Done, Entry
<1>3. Last(Done(r)') = Entry(r)
  <2>1. PICK S : Done(r) \in Seq(S)
    BY <1>1 DEF TypeOK, Done
  <2>2. Append(Done(r), Entry(r)) \in Seq(S \cup {Entry(r)})
    BY <2>1, AppendPrefix
  <2>3. Append(Done(r), Entry(r))[Len(Append(Done(r), Entry(r)))] = Entry(r)
    BY <2>1
  <2> QED BY <1>2, <2>3 DEF Last
<1>4. grad[r] = GradOf(ToSet(Minibatch(upd[r])), upd[r].frozen, detach[r])
  BY <1>1 DEF GInv, WorkInv, WorkOf, InStep
<1>5. detach[r] = detach[0]
  BY <1>1, TrainerRank DEF GInv, DetachInv
<1> QED BY <1>3, <1>4, <1>5, BackwardIs DEF Done, Entry

(* Whatever is cut, peeled, planned or spread over ranks, an optimizer     *)
(* step applies the gradient of its whole minibatch: every row once, and   *)
(* None for the parameters that no row uses (policy_update_loop,           *)
(* _accumulate_chunk, DDPCtx.sync_grads).                                  *)
THEOREM StepTheorem ==
    ASSUME NoWarmup
    PROVE  Spec => StepIsTheMinibatch
<1> DEFINE A == \A r \in Ranks : Steps(r) /\ ~work[r].torn =>
                  Last(steps'[r].done).grad = Backward(Minibatch(upd[r]), upd[r].frozen, detach[0])
           I == IInv /\ GInv
<1>1. Init => I
  BY InitInv, InitG
<1>2. I /\ [Next]_vars => I'
  BY NextInv, NextG
<1>3. I /\ [Next]_vars => [A]_vars
  BY StepApplies
<1>4. [][A]_vars => StepIsTheMinibatch
  BY DEF StepIsTheMinibatch
<1> HIDE DEF A, I
<1> QED BY <1>1, <1>2, <1>3, <1>4, PTL DEF Spec
=============================================================================
