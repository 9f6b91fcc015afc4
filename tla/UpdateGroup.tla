---------------------------- MODULE UpdateGroup ----------------------------
(***************************************************************************)
(* The policy update of the RL trainer and the processes it is spread over *)
(* (methods/rl_agent/algorithms/_common.py, training/ddp.py and the        *)
(* iteration of training/loop.py).  Rank 0 is the trainer; every other     *)
(* rank is a worker that waits for a buffer, updates on its share of every *)
(* minibatch and waits again.  Ranks meet in collectives only, and a chunk *)
(* of a minibatch may not fit in memory.                                   *)
(*                                                                         *)
(* A gradient says how often every sample of the buffer has been added to  *)
(* every parameter; a parameter out of its domain has grad None.           *)
(***************************************************************************)
EXTENDS Integers, Sequences, SequencesExt, Functions

CONSTANTS
    Samples,    \* the rows of a buffer, 1..N
    SeqLen,     \* the sequence length of a row
    HeadOf,     \* the action head that a row trains
    BatchSize, NEpochs, NIterations,
    Capacity,   \* what the memory model allows a chunk to take
    Setups,     \* [world, mode, warm]: --update-gpus, which of the steps
                \* runs, and --critic-warmup-iters
    Perms,      \* bound: the permutations drawn
    MaxOoms,    \* bound: chunks that do not fit
    MaxDeaths   \* bound: workers that are killed

ASSUME UpdateAssumption ==
    /\ SeqLen \in Seq(Nat) /\ Samples = DOMAIN SeqLen /\ DOMAIN HeadOf = Samples
    /\ Capacity \in Nat /\ BatchSize \in Nat \ {0} /\ NEpochs \in Nat /\ NIterations \in Nat
    /\ \A s \in Setups : /\ s.world \in Nat \ {0} /\ s.mode \in {"reactive", "planned", "ddp"}
                         /\ s.world > 1 <=> s.mode = "ddp"
    /\ \A p \in Perms : p \in [Samples -> Samples] /\ ToSet(p) = Samples

Params == {"net", "critic"} \cup Range(HeadOf)

VARIABLES
    setup,   \* of this run
    pc,      \* of every rank
    msg,     \* what rank 0 broadcasts next, and its iteration
    detach,  \* policy.detach_critic of every rank
    lr,      \* of every rank's optimizer
    steps,   \* the optimizer steps in every rank's policy, after its base
    grad,    \* p.grad of every rank
    upd,     \* the update a rank is in
    work,    \* the minibatch a rank is in; torn: a failed backward() has left
             \* a part of a gradient (watched by the properties only)
    ooms, deaths

vars == <<setup, pc, msg, detach, lr, steps, grad, upd, work, ooms, deaths>>

Ranks   == 0..setup.world - 1
Workers == Ranks \ {0}

NoGrad == [p \in {} |-> 0]
NoWork == [rows |-> <<>>, plan |-> <<>>, todo |-> <<>>, limit |-> 0, torn |-> FALSE]
NoUpd  == [frozen |-> FALSE, perm |-> <<>>, epoch |-> 0, start |-> 0]

\* The trainer's policy may be a resumed one; a worker builds its own.
Init ==
    /\ setup \in Setups
    /\ pc = [r \in Ranks |-> IF r > 0 THEN "msg" ELSE IF setup.mode = "ddp" THEN "send" ELSE "main"]
    /\ msg = [kind |-> "state", iteration |-> 0]
    /\ detach = [r \in Ranks |-> FALSE] /\ lr = [r \in Ranks |-> 0]
    /\ steps = [r \in Ranks |-> [base |-> r, done |-> <<>>]]
    /\ grad = [r \in Ranks |-> NoGrad]
    /\ upd = [r \in Ranks |-> NoUpd] /\ work = [r \in Ranks |-> NoWork]
    /\ ooms = 0 /\ deaths = 0

-----------------------------------------------------------------------------
(* Gradients.                                                              *)

\* The parameters that the loss of a row reaches.
Reaches(x, frozen, cut) ==
    {"critic"} \cup (IF cut THEN {} ELSE {"net"}) \cup (IF frozen THEN {} ELSE {"net", HeadOf[x]})

Times(g, p, x) == IF p \in DOMAIN g THEN g[p][x] ELSE 0

Plus(g, h) == [p \in DOMAIN g \cup DOMAIN h |-> [x \in Samples |-> Times(g, p, x) + Times(h, p, x)]]

\* backward() of the loss of some rows.
Backward(rows, frozen, cut) ==
    [p \in UNION {Reaches(x, frozen, cut) : x \in ToSet(rows)} |->
        [x \in Samples |-> IF x \in ToSet(rows) /\ p \in Reaches(x, frozen, cut) THEN 1 ELSE 0]]

BackwardOf(r, rows) == Backward(rows, upd[r].frozen, detach[r])

Summed_Zeros == [p \in Params |-> [x \in Samples |-> Times(FoldFunction(Plus, NoGrad, grad), p, x)]]

\* sync_grads(): None where no rank has used the parameter.
Summed == FoldFunction(Plus, NoGrad, grad)

-----------------------------------------------------------------------------
(* Minibatches and their chunks.                                           *)

Shorter(x, y) == SeqLen[x] < SeqLen[y] \/ (SeqLen[x] = SeqLen[y] /\ x < y)

\* By sequence length; no row is there twice.
InOrder(rows) ==
    [k \in DOMAIN rows |-> CHOOSE x \in ToSet(rows) : Cardinality({y \in ToSet(rows) : Shorter(y, x)}) = k - 1]

Minibatch(u) ==
    LET last == u.start + BatchSize
    IN SubSeq(u.perm, u.start + 1, IF last < Len(u.perm) THEN last ELSE Len(u.perm))

\* shard_positions(): every world-th row.
Shard(r, rows) ==
    [k \in 1..((Len(rows) - r + setup.world - 1) \div setup.world) |-> rows[r + 1 + (k - 1) * setup.world]]

\* plan_chunks(): by length, a chunk while its prediction stays in the limit.
PlanChunks(rows, limit) ==
    LET Fill(chunks, x) ==
            IF chunks # <<>> /\ (Len(Last(chunks)) + 1) * SeqLen[x] <= limit
            THEN [chunks EXCEPT ![Len(chunks)] = Append(@, x)]
            ELSE Append(chunks, <<x>>)
    IN FoldLeft(Fill, <<>>, InOrder(rows))

Planned(w, limit) ==
    LET plan == PlanChunks(w.rows, limit)
    IN [w EXCEPT !.plan = plan, !.todo = plan, !.limit = limit]

Peel_Dropped(chunk) ==
    LET cut == IF Len(chunk) >= 4 THEN Len(chunk) \div 4 ELSE 1
    IN <<SubSeq(chunk, Len(chunk) - cut + 1, Len(chunk))>>

\* _peel_accumulate(): the longest quarter first, then the rest.
Peel(chunk) ==
    LET cut == IF Len(chunk) >= 4 THEN Len(chunk) \div 4 ELSE 1
    IN <<SubSeq(chunk, Len(chunk) - cut + 1, Len(chunk)), SubSeq(chunk, 1, Len(chunk) - cut)>>

\* _fixed_batch_step(): the whole minibatch in one forward, zero_grad after it.
Whole(w) == w.plan = <<w.todo[1]>>

-----------------------------------------------------------------------------
(* Collectives: a rank that waits in one leaves it with all the others.    *)

Blob  == [r \in Ranks |-> IF r = 0 THEN "send" ELSE "msg"]
Meets(op) == \A r \in Ranks : pc[r] = op

Everyone(op) == [r \in Ranks |-> op]

\* train_iteration() up to the broadcast, and the end of fit().
BeginIteration ==
    /\ pc[0] = "main" /\ msg.iteration < NIterations
    /\ LET i == msg.iteration + 1
       IN /\ msg' = [kind |-> "update", iteration |-> i]
          /\ detach' = [detach EXCEPT ![0] = i <= setup.warm]
          /\ lr' = [lr EXCEPT ![0] = i]
          /\ upd' = [upd EXCEPT ![0] = [NoUpd EXCEPT !.frozen = i <= setup.warm]]
    /\ pc' = [pc EXCEPT ![0] = IF setup.mode = "ddp" THEN "send" ELSE "perm"]
    /\ UNCHANGED <<setup, steps, grad, work, ooms, deaths>>

\* teardown() tells the workers to stop, after a failure as well; the end of the
\* process waits for its children when that cannot be done.
TornDown(kind) == IF setup.mode = "ddp" /\ kind = "update" THEN "send" ELSE "join"

Teardown ==
    /\ pc[0] = "main" /\ msg.iteration = NIterations
    /\ pc' = [pc EXCEPT ![0] = TornDown("update")]
    /\ msg' = [msg EXCEPT !.kind = "stop"]
    /\ UNCHANGED <<setup, detach, lr, steps, grad, upd, work, ooms, deaths>>

ReceiveState ==
    /\ pc = Blob /\ msg.kind = "state"
    /\ pc' = [pc EXCEPT ![0] = "main"]
    /\ steps' = [r \in Ranks |-> steps[0]]
    /\ lr' = [r \in Ranks |-> lr[0]]
    /\ UNCHANGED <<setup, msg, detach, grad, upd, work, ooms, deaths>>

LrOf_Kept(r) == lr[r]

\* The learning rate a rank takes from the broadcast.
LrOf(r) == lr[0]

ReceiveUpdate ==
    /\ pc = Blob /\ msg.kind = "update"
    /\ pc' = Everyone("perm")
    /\ lr' = [r \in Ranks |-> LrOf(r)]
    /\ upd' = [r \in Ranks |-> upd[0]]
    /\ UNCHANGED <<setup, msg, detach, steps, grad, work, ooms, deaths>>

AfterStop_Join == "join"

\* shutdown(): destroy_process_group() before join().
AfterStop == "destroy"

ReceiveStop ==
    /\ pc = Blob /\ msg.kind = "stop"
    /\ pc' = [r \in Ranks |-> IF r = 0 THEN AfterStop ELSE "destroy"]
    /\ UNCHANGED <<setup, msg, detach, lr, steps, grad, upd, work, ooms, deaths>>

\* A rank starts the minibatch at upd.start, or leaves the loop over them.
StartsMinibatch(r, u) ==
    LET rows == Minibatch(u)
        w    == [NoWork EXCEPT !.rows = rows]
        mine == Shard(r, rows)
    IN IF u.start >= Len(u.perm) THEN NoWork
       ELSE CASE setup.mode = "planned"  -> Planned(w, Capacity)
              [] setup.mode = "reactive" -> [w EXCEPT !.plan = <<rows>>, !.todo = <<rows>>]
              [] OTHER                   -> [w EXCEPT !.todo = IF mine = <<>> THEN <<>> ELSE <<InOrder(mine)>>]

\* A step of one forward keeps the old gradients until it has run.
ZeroedAtStart(w, g) == IF Len(w.plan) = 1 THEN g ELSE NoGrad

\* A rank goes on after an epoch's permutation or an optimizer step.
GoOn(r, u, g) ==
    LET over == u.start >= Len(u.perm)
        w    == StartsMinibatch(r, u)
    IN [upd |-> IF over THEN [u EXCEPT !.epoch = @ + 1] ELSE u,
        work |-> w,
        grad |-> IF over THEN g ELSE ZeroedAtStart(w, g),
        pc |-> IF ~over THEN "chunks" ELSE IF u.epoch + 1 < NEpochs THEN "perm" ELSE "sums"]

\* broadcast_perm() at the head of an epoch.
BroadcastPerm ==
    /\ Meets("perm")
    /\ \E perm \in Perms :
         LET next == [r \in Ranks |-> GoOn(r, [upd[r] EXCEPT !.perm = perm, !.start = 0], grad[r])]
         IN /\ pc' = [r \in Ranks |-> next[r].pc] /\ upd' = [r \in Ranks |-> next[r].upd]
            /\ work' = [r \in Ranks |-> next[r].work] /\ grad' = [r \in Ranks |-> next[r].grad]
    /\ UNCHANGED <<setup, msg, detach, lr, steps, ooms, deaths>>

SyncGrads ==
    /\ Meets("grads")
    /\ grad' = Everyone(Summed)
    /\ work' = [r \in Ranks |-> [work[r] EXCEPT !.torn = \E q \in Ranks : work[q].torn]]
    /\ pc' = Everyone("step")
    /\ UNCHANGED <<setup, msg, detach, lr, steps, upd, ooms, deaths>>

ReduceSums ==
    /\ Meets("sums")
    /\ pc' = [r \in Ranks |-> IF r = 0 THEN "main" ELSE "msg"]
    /\ UNCHANGED <<setup, msg, detach, lr, steps, grad, upd, work, ooms, deaths>>

Left(r) == pc[r] = "left"

\* destroy_process_group() of a rank that is gone waits for nobody.
Destroy ==
    /\ \E r \in Ranks : pc[r] = "destroy"
    /\ \A r \in Ranks : pc[r] = "destroy" \/ Left(r)
    /\ pc' = [r \in Ranks |-> IF r = 0 /\ ~Left(r) THEN "join" ELSE "left"]
    /\ UNCHANGED <<setup, msg, detach, lr, steps, grad, upd, work, ooms, deaths>>

Join ==
    /\ pc[0] = "join" /\ \A r \in Workers : Left(r)
    /\ pc' = [pc EXCEPT ![0] = "left"]
    /\ UNCHANGED <<setup, msg, detach, lr, steps, grad, upd, work, ooms, deaths>>

-----------------------------------------------------------------------------
(* A minibatch, chunk by chunk.                                            *)

ChunkFits(r) ==
    /\ pc[r] = "chunks" /\ work[r].todo # <<>>
    /\ LET w == work[r]
       IN grad' = [grad EXCEPT ![r] = Plus(IF Whole(w) THEN NoGrad ELSE @, BackwardOf(r, w.todo[1]))]
    /\ work' = [work EXCEPT ![r].todo = Tail(@)]
    /\ UNCHANGED <<setup, pc, msg, detach, lr, steps, upd, ooms, deaths>>

NoMemory(r) ==
    /\ pc[r] = "chunks" /\ work[r].todo # <<>>
    /\ ooms < MaxOoms /\ ooms' = ooms + 1
    /\ UNCHANGED <<setup, detach, lr, steps, upd, deaths>>

\* An exception ends a worker, and takes the trainer to its teardown.
Raised(r) ==
    /\ pc' = [pc EXCEPT ![r] = IF r = 0 THEN TornDown(msg.kind) ELSE "left"]
    /\ msg' = IF r = 0 THEN [msg EXCEPT !.kind = "stop"] ELSE msg

Recovered_Kept(r) == grad[r]

\* zero_grad() drops what the failed step has left.
Recovered(r) == NoGrad

\* _reactive_peel_step(): the whole minibatch again, in order of length.
WholeTooLarge(r) ==
    /\ NoMemory(r) /\ setup.mode = "reactive" /\ work[r].plan # <<>>
    /\ grad' = [grad EXCEPT ![r] = Recovered(r)]
    /\ work' = [work EXCEPT ![r].plan = <<>>, ![r].todo = <<InOrder(work[r].rows)>>]
    /\ UNCHANGED <<pc, msg>>

\* _peel_accumulate(): if backward() has failed, the parameters it had reached
\* keep what it added to them.
ChunkTooLarge(r) ==
    /\ NoMemory(r) /\ work[r].plan = <<>>
    /\ LET chunk == work[r].todo[1]
           added == BackwardOf(r, chunk)
       IN IF Len(chunk) > 1
          THEN /\ \E kept \in SUBSET DOMAIN added :
                    /\ grad' = [grad EXCEPT ![r] = Plus(@, Restrict(added, kept))]
                    /\ work' = [work EXCEPT ![r].todo = Peel(chunk) \o Tail(@),
                                            ![r].torn = @ \/ kept # {}]
               /\ UNCHANGED <<pc, msg>>
          ELSE Raised(r) /\ UNCHANGED <<grad, work>>

\* _planned_minibatch_step(): from scratch, on half the budget.
PlanTooLarge(r) ==
    /\ NoMemory(r) /\ setup.mode = "planned"
    /\ LET w == work[r]
       IN IF \E k \in DOMAIN w.plan : Len(w.plan[k]) > 1
          THEN /\ work' = [work EXCEPT ![r] = Planned(w, w.limit \div 2)]
               /\ grad' = [grad EXCEPT ![r] = Recovered(r)]
               /\ UNCHANGED <<pc, msg>>
          ELSE Raised(r) /\ UNCHANGED <<grad, work>>

\* A rank that is alone syncs with nobody.
ChunksDone(r) ==
    /\ pc[r] = "chunks" /\ work[r].todo = <<>>
    /\ pc' = [pc EXCEPT ![r] = IF setup.mode = "ddp" THEN "grads" ELSE "step"]
    /\ UNCHANGED <<setup, msg, detach, lr, steps, grad, upd, work, ooms, deaths>>

\* optimizer.step(), and the head of the next minibatch.
OptimizerStep(r) ==
    /\ pc[r] = "step"
    /\ steps' = [steps EXCEPT ![r].done = Append(@, [grad |-> grad[r], lr |-> lr[r]])]
    /\ LET next == GoOn(r, [upd[r] EXCEPT !.start = @ + BatchSize], grad[r])
       IN /\ pc' = [pc EXCEPT ![r] = next.pc] /\ upd' = [upd EXCEPT ![r] = next.upd]
          /\ work' = [work EXCEPT ![r] = next.work] /\ grad' = [grad EXCEPT ![r] = next.grad]
    /\ UNCHANGED <<setup, msg, detach, lr, ooms, deaths>>

-----------------------------------------------------------------------------
(* Failures.                                                               *)

WorkerKilled(r) ==
    /\ r > 0 /\ pc[r] \notin {"destroy", "left"}
    /\ deaths < MaxDeaths /\ deaths' = deaths + 1
    /\ pc' = [pc EXCEPT ![r] = "left"]
    /\ UNCHANGED <<setup, msg, detach, lr, steps, grad, upd, work, ooms>>

Computes(r) == pc[r] \in {"main", "chunks", "step"}
Waits(r)    == pc[r] \in {"send", "msg", "perm", "grads", "sums"}

\* A collective that can no longer take place: a peer is gone, or none of them
\* moves until DDP_TIMEOUT.
CollectiveFails(r) ==
    /\ setup.mode = "ddp" /\ Waits(r)
    /\ \/ \E q \in Ranks : Left(q)
       \/ /\ \A q \in Ranks : ~Computes(q)
          /\ pc # Blob /\ \A op \in {"perm", "grads", "sums"} : ~Meets(op)
    /\ Raised(r)
    /\ UNCHANGED <<setup, detach, lr, steps, grad, upd, work, ooms, deaths>>

-----------------------------------------------------------------------------
AllRanks == UNION {0..s.world - 1 : s \in Setups}

Collective ==
    \/ ReceiveState \/ ReceiveUpdate \/ ReceiveStop
    \/ BroadcastPerm \/ SyncGrads \/ ReduceSums \/ Destroy

Proceeds ==
    \/ BeginIteration \/ Teardown \/ Join
    \/ \E r \in AllRanks : r \in Ranks /\ (ChunkFits(r) \/ ChunksDone(r) \/ OptimizerStep(r))

Fails(r) == WholeTooLarge(r) \/ ChunkTooLarge(r) \/ PlanTooLarge(r) \/ WorkerKilled(r)

Next ==
    \/ Collective
    \/ Proceeds
    \/ \E r \in AllRanks : r \in Ranks /\ (CollectiveFails(r) \/ Fails(r))

Spec == Init /\ [][Next]_vars

\* Ranks run on, collectives are carried out, and one that cannot be times out.
FairSpec ==
    /\ Spec
    /\ WF_vars(Collective) /\ WF_vars(Proceeds)
    /\ WF_vars(\E r \in AllRanks : r \in Ranks /\ CollectiveFails(r))
-----------------------------------------------------------------------------
(* Properties.                                                             *)

Steps(r) == pc[r] = "step" /\ steps'[r] # steps[r]

\* Whatever is cut, peeled, planned or spread over ranks, an optimizer step
\* applies the gradient of its whole minibatch: every row once, and None for
\* the parameters no row uses (policy_update_loop; _accumulate_chunk;
\* DDPCtx.sync_grads).  The exception is a backward() that runs out of memory
\* in a peeled chunk, which the module's own comment leaves out.
StepIsTheMinibatch ==
    [][\A r \in Ranks : Steps(r) /\ ~work[r].torn =>
         Last(steps'[r].done).grad = Backward(Minibatch(upd[r]), upd[r].frozen, detach[0])]_vars

\* The policies of the ranks that have taken part in an update started from the
\* same weights and are the same steps on, up to the ones still to be made
\* (DDPUpdateGroup.broadcast_state, dispatch_update; _worker_body).
Lockstep ==
    \A r, q \in Ranks : upd[r].perm # <<>> /\ upd[q].perm # <<>> =>
        /\ steps[r].base = steps[q].base
        /\ IsPrefix(steps[r].done, steps[q].done) \/ IsPrefix(steps[q].done, steps[r].done)

\* However a run ends, and whoever dies in it, all of its processes end
\* (DDPUpdateGroup.shutdown, DDP_TIMEOUT).
AllLeave == <>(\A r \in Ranks : Left(r))

\* The steps of a critic warm-up move the critic head alone (train_iteration;
\* the help of --critic-warmup-iters).
WarmupIsCriticOnly ==
    [][\A r \in Ranks : Steps(r) /\ upd[r].frozen =>
         DOMAIN Last(steps'[r].done).grad \subseteq {"critic"}]_vars
=============================================================================
