------------------------------ MODULE TrainRun ------------------------------
(***************************************************************************)
(* A training run (methods/rl_agent/training/loop.py) and the watcher that *)
(* validates its checkpoints (async_val.py).  They share one directory and *)
(* nothing else.  The trainer trains, saves, reads the results and keeps   *)
(* the best checkpoint; it may raise, be killed, and be resumed from any   *)
(* checkpoint, in the same directory or a new one.  The watcher evaluates  *)
(* the checkpoints of the cadence and may die between any two steps.       *)
(*                                                                         *)
(* The weights of a policy are the history of its training: one record per *)
(* iteration with the boards it got, whether the actor was frozen, the     *)
(* learning rate and the explained variance that came out.                 *)
(***************************************************************************)
EXTENDS BoardScheduler, FiniteSetsExt

CONSTANTS
    Picks,        \* --n-envs
    WarmIters,    \* --critic-warmup-iters
    Streak,       \* --critic-warmup-ev-streak
    LrWarmup,     \* --warmup-iters
    Scores,       \* the finite scores of a validation
    Runs,         \* --async-val, --boards-order, --iterations, --save-freq,
                  \* --eval-every of the runs, whether --critic-warmup-min-ev
                  \* opens the gate, and --critic-warmup-max-iters
    MaxIterations,\* bound: the longest of them
    ResumeFrom,   \* the kinds of checkpoint passed to --resume
    MaxStarts     \* bound: starts of the trainer and deaths of the watcher,
                  \* together

ASSUME TrainAssumption ==
    /\ MaxIterations \in Nat /\ Picks \in Nat \ {0}
    /\ Runs \subseteq [async_val : BOOLEAN, boards_order : Modes, iterations : 0..MaxIterations,
                      save_freq : Nat \ {0}, eval_every : Nat \ {0},
                      gate : BOOLEAN, cap : Nat]
    /\ \A r \in Runs : r.async_val => r.eval_every % r.save_freq = 0   \* _setup_evaluator()
    /\ WarmIters \in Nat
    /\ Streak \in Nat \ {0} /\ LrWarmup \in Nat
    /\ Scores \subseteq Nat \ {0}
    /\ ResumeFrom \subseteq {"last", "iter", "best", "final"}
    /\ MaxStarts \in Nat

Iteration == 0..MaxIterations
NoScore == 0                         \* None, nan, or minus infinity

VARIABLES
    args,      \* the arguments of the run
    ckpts,     \* policy_iter_<N>.pt
    last, best, final,   \* policy_last.pt, policy_best.pt, policy_final.pt
    results,   \* async_val/results: absent, .tmp, .json or .json.done
    trainDone, \* async_val/train_done
    trainer,   \* the memory of the trainer process
    watcher,   \* the memory of the watcher process
    log,       \* the scores the writer got, by iteration
    starts     \* MaxStarts bounds it

dir  == <<ckpts, last, best, final, results, trainDone>>
vars == <<args, dir, trainer, watcher, log, starts>>

FreshGate == [evs |-> <<>>, passed |-> FALSE, end |-> 0]

NoCkpt == [iteration |-> -1, policy |-> <<>>, sched |-> FreshScheduler,
           gate |-> FreshGate, score |-> NoScore]

NoResult == [state |-> "absent", score |-> NoScore, policy |-> <<>>]
NoLog    == [n \in Iteration |-> -1]

Down == [pc |-> "down", iteration |-> 0, policy |-> <<>>, sched |-> FreshScheduler,
         gate |-> FreshGate, lr |-> 0, best |-> NoScore, queue |-> {},
         completed |-> FALSE]

Away == [pc |-> "down", n |-> 0, policy |-> <<>>]

Init ==
    /\ args \in Runs
    /\ ckpts = [n \in Iteration |-> NoCkpt]
    /\ last = NoCkpt /\ best = NoCkpt /\ final = NoCkpt
    /\ results = [n \in Iteration |-> NoResult] /\ trainDone = FALSE
    /\ trainer = Down /\ watcher = Away
    /\ log = NoLog /\ starts = 0

-----------------------------------------------------------------------------
(* The critic warm-up and the learning rate.                               *)

InCriticWarmup(gate, i) ==
    /\ WarmIters > 0
    /\ \/ i <= WarmIters
       \/ args.gate /\ ~gate.passed /\ i <= args.cap

\* _note_critic_warmup_ev(): the gate after iteration i.
NoteEv(gate, i, warm, ev) ==
    LET evs == Append(gate.evs, ev)
        passed == /\ args.gate /\ i >= WarmIters /\ Len(evs) >= Streak
                  /\ \A k \in Len(evs) - Streak + 1..Len(evs) : evs[k]
        ends == passed \/ i >= args.cap \/ (~args.gate /\ i >= WarmIters)
    IN IF warm
       THEN [evs |-> evs, passed |-> gate.passed \/ passed,
             end |-> IF ends /\ gate.end = 0 THEN i ELSE gate.end]
       ELSE [gate EXCEPT !.evs = evs]

\* The learning rate after so many iterations: -1 is --critic-warmup-lr, k is
\* the k-th step of the actor's warm-up, LrWarmup is --lr.
LrFactor(completed, end) ==
    LET since == completed - (IF end = 0 THEN WarmIters ELSE end)
    IN IF since < 0 THEN -1 ELSE Min({since, LrWarmup})

\* A checkpoint keeps the explained variances the gate still reads.
KeptEvs(evs) == SubSeq(evs, Max({1, Len(evs) - Max({Streak, 3}) + 1}), Len(evs))

-----------------------------------------------------------------------------
(* Checkpoints.                                                            *)

\* _save_ckpt(): what every checkpoint holds of the trainer t; schedules and
\* best_val_score are those of the moment of the save.
Ckpt(t, iteration, policy) ==
    [iteration |-> iteration, policy |-> policy, sched |-> t.sched,
     gate |-> [t.gate EXCEPT !.evs = KeptEvs(@)], score |-> t.best]

\* _refuse_resume_overwrite(): checkpoints of the directory that are later.
Overwrites_Never(src, c) == FALSE

Overwrites(src, c) ==
    \/ \E n \in Iteration : ckpts[n] # NoCkpt /\ n > c.iteration
    \/ src.kind # "last" /\ last.iteration > c.iteration

\* _restore_best_score(): the score to beat, b being the directory's best.
ScoreToBeat_OfCkpt(c, b) == c.score

ScoreToBeat(c, b) == Max({c.score, b.score})

\* _restore_schedules(): the learning rate is computed from the restored gate.
ResumedLr_Fresh(c) == LrFactor(c.iteration, 0)

ResumedLr(c) == LrFactor(c.iteration, c.gate.end)

ResumedSched(c) ==
    IF args.boards_order = "single" \/ NBoards = 1 \/ c.iteration <= 0
    THEN FreshScheduler ELSE Loaded(c.sched)

\* _resume(), up to the end of it.
Resumed(c, score) ==
    [pc |-> "setup", iteration |-> c.iteration + 1, policy |-> c.policy,
     sched |-> ResumedSched(c), gate |-> c.gate, lr |-> ResumedLr(c), best |-> score,
     queue |-> {}, completed |-> FALSE]

Sources == [kind : {"last", "best", "final"}, n : {0}] \cup [kind : {"iter"}, n : Iteration]

File(src) == CASE src.kind = "last" -> last [] src.kind = "best" -> best
               [] src.kind = "final" -> final [] src.kind = "iter" -> ckpts[src.n]

Resumable(src) == src.kind \in ResumeFrom /\ File(src) # NoCkpt

Launching ==
    /\ trainer.pc = "down" /\ starts < MaxStarts
    /\ starts' = starts + 1

\* A run is started without --resume in a directory that holds no training.
Start ==
    /\ Launching /\ last = NoCkpt /\ best = NoCkpt
    /\ trainer' = [Down EXCEPT !.pc = "setup", !.iteration = 1, !.lr = LrFactor(0, 0)]
    /\ UNCHANGED <<args, dir, watcher, log>>

\* setup() of a run resumed in the directory of the checkpoint.
Resume(src) ==
    LET c == File(src) IN
    /\ Launching /\ Resumable(src) /\ ~Overwrites(src, c)
    /\ trainer' = Resumed(c, ScoreToBeat(c, best))
    /\ UNCHANGED <<args, dir, watcher, log>>

\* ... and in a new directory, which gets its own watcher and log.  The best
\* checkpoint comes along unless it is later than the resumed one.
Fork(src) ==
    LET c == File(src)
        kept == best # NoCkpt /\ best.iteration <= c.iteration
        left == best # NoCkpt /\ best.iteration > c.iteration
    IN
    /\ Launching /\ Resumable(src)
    /\ best' = IF kept THEN best ELSE NoCkpt
    /\ trainer' = Resumed(c, IF left THEN NoScore ELSE ScoreToBeat(c, best))
    /\ ckpts' = [n \in Iteration |-> NoCkpt] /\ last' = NoCkpt /\ final' = NoCkpt
    /\ results' = [n \in Iteration |-> NoResult] /\ trainDone' = FALSE
    /\ watcher' = Away /\ log' = NoLog
    /\ UNCHANGED <<args>>

\* AsyncValResults() unlinks the marker of an earlier run.
StaleMarker == FALSE

SetupEvaluator ==
    /\ trainer.pc = "setup"
    /\ trainDone' = IF args.async_val THEN StaleMarker ELSE trainDone
    /\ trainer' = [trainer EXCEPT !.pc = IF trainer.iteration <= 1 THEN "save0" ELSE "train"]
    /\ UNCHANGED <<args, ckpts, last, best, final, results, watcher, log, starts>>

\* The untrained policy is always saved.
SaveInitial ==
    /\ trainer.pc = "save0"
    /\ ckpts' = [ckpts EXCEPT ![0] = Ckpt(trainer, 0, trainer.policy)]
    /\ trainer' = [trainer EXCEPT !.pc = "train"]
    /\ UNCHANGED <<args, last, best, final, results, trainDone, watcher, log,
                   starts>>

-----------------------------------------------------------------------------
(* The loop of fit().                                                      *)

\* select_boards(): nothing is drawn on a single board.
Selected ==
    IF args.boards_order = "single" \/ NBoards = 1
    THEN [sched |-> trainer.sched, boards |-> <<>>]
    ELSE NextIndices(args.boards_order, trainer.sched, Picks)

\* train_iteration(), whose update ends with the explained variance ev: high
\* enough for the gate or not.  After the warm-up, or without a gate, nothing
\* reads it.
Train(ev) ==
    LET i == trainer.iteration
        warm == InCriticWarmup(trainer.gate, i)
        gate == NoteEv(trainer.gate, i, warm, ev)
        step == [boards |-> Selected.boards, warm |-> warm, lr |-> trainer.lr, ev |-> ev]
    IN
    /\ trainer.pc = "train" /\ i <= args.iterations /\ (ev => warm /\ args.gate)
    /\ trainer' = [trainer EXCEPT !.pc = "save", !.policy = Append(@, step),
                                  !.sched = Selected.sched, !.gate = gate,
                                  !.lr = LrFactor(i, gate.end)]
    /\ UNCHANGED <<args, dir, watcher, log, starts>>

\* on_iteration_end() after the two saves.
AfterSave ==
    IF args.async_val THEN "poll"
    ELSE IF trainer.iteration % args.eval_every = 0 THEN "validate" ELSE "next"

SaveLast ==
    /\ trainer.pc = "save"
    /\ last' = Ckpt(trainer, trainer.iteration, trainer.policy)
    /\ trainer' = [trainer EXCEPT
                     !.pc = IF trainer.iteration % args.save_freq = 0 THEN "periodic" ELSE AfterSave]
    /\ UNCHANGED <<args, ckpts, best, final, results, trainDone, watcher, log,
                   starts>>

SavePeriodic ==
    /\ trainer.pc = "periodic"
    /\ ckpts' = [ckpts EXCEPT ![trainer.iteration] =
                   Ckpt(trainer, trainer.iteration, trainer.policy)]
    /\ trainer' = [trainer EXCEPT !.pc = AfterSave]
    /\ UNCHANGED <<args, last, best, final, results, trainDone, watcher, log,
                   starts>>

Improves(score) == score > trainer.best

\* _handle_val_overall(): the policy that was validated becomes the best one.
HandleVal(n, score, policy, pc) ==
    IF Improves(score)
    THEN /\ best' = Ckpt([trainer EXCEPT !.best = score], n, policy)
         /\ trainer' = [trainer EXCEPT !.best = score, !.pc = pc]
    ELSE /\ trainer' = [trainer EXCEPT !.pc = pc]
         /\ UNCHANGED best

\* Inline validation: the evaluator runs and logs, then the best is chosen.
Validate(score) ==
    /\ trainer.pc = "validate"
    /\ log' = [log EXCEPT ![trainer.iteration] = score]
    /\ trainer' = [trainer EXCEPT !.pc = "selectInline"]
    /\ UNCHANGED <<args, dir, watcher, starts>>

OnValidation ==
    /\ trainer.pc = "selectInline"
    /\ HandleVal(trainer.iteration, log[trainer.iteration], trainer.policy, "next")
    /\ UNCHANGED <<args, ckpts, last, final, results, trainDone, watcher, log,
                   starts>>

NextIteration ==
    /\ trainer.pc = "next"
    /\ trainer' = [trainer EXCEPT !.pc = "train", !.iteration = @ + 1]
    /\ UNCHANGED <<args, dir, watcher, log, starts>>

\* The last iteration is done, or the wall clock budget is spent.
FitCompleted ==
    /\ \/ trainer.pc = "train" /\ trainer.iteration > args.iterations
       \/ trainer.pc = "next"
    /\ trainer' = [trainer EXCEPT !.pc = "finish", !.completed = TRUE]
    /\ UNCHANGED <<args, dir, watcher, log, starts>>

-----------------------------------------------------------------------------
(* The results of the watcher, as the trainer reads them.                  *)

OnCadence(n) == n % args.eval_every = 0

\* pending_evals(): iter_N.json.tmp matches its pattern too.
Evaluated_Unconsumed(n) == results[n].state \in {"tmp", "json"}

Evaluated(n) == results[n].state # "absent"

PendingEvals == {n \in Iteration : OnCadence(n) /\ ckpts[n] # NoCkpt /\ ~Evaluated(n)}

\* _consume_async_results() is called by the loop and by the drain.
AfterPoll == IF trainer.completed THEN "count" ELSE "next"

\* The results that have arrived, consumed in the order of their iterations.
PollResults ==
    LET new == {n \in Iteration : results[n].state = "json"} IN
    /\ trainer.pc = "poll"
    /\ trainer' = [trainer EXCEPT !.queue = new,
                                  !.pc = IF new = {} THEN AfterPoll ELSE "log"]
    /\ UNCHANGED <<args, dir, watcher, log, starts>>

Polled == Min(trainer.queue)

LogResult ==
    /\ trainer.pc = "log"
    /\ log' = [log EXCEPT ![Polled] = results[Polled].score]
    /\ trainer' = [trainer EXCEPT !.pc = IF Polled > 0 THEN "select" ELSE "consume"]
    /\ UNCHANGED <<args, dir, watcher, starts>>

StateFn_Live(n) == trainer.policy

\* The weights are read from the checkpoint that was evaluated.
StateFn(n) == ckpts[n].policy

SelectBest ==
    /\ trainer.pc = "select"
    /\ HandleVal(Polled, results[Polled].score, StateFn(Polled), "consume")
    /\ UNCHANGED <<args, ckpts, last, final, results, trainDone, watcher, log,
                   starts>>

Consumed_Queue == trainer.queue

Consumed == {Polled}

ConsumeResult ==
    /\ trainer.pc = "consume"
    /\ results' = [n \in Iteration |->
                     IF n \in Consumed THEN [results[n] EXCEPT !.state = "done"] ELSE results[n]]
    /\ trainer' = [trainer EXCEPT !.queue = @ \ {Polled},
                                  !.pc = IF trainer.queue = {Polled} THEN AfterPoll ELSE "log"]
    /\ UNCHANGED <<args, ckpts, last, best, final, trainDone, watcher, log,
                   starts>>

-----------------------------------------------------------------------------
(* teardown() and the ends of a trainer.                                   *)

Marks_Always == TRUE

\* _finish_async_val(): an aborted run neither marks nor drains.
Marks == trainer.completed

Finish ==
    /\ trainer.pc = "finish"
    /\ trainDone' = (trainDone \/ (args.async_val /\ Marks))
    /\ trainer' = [trainer EXCEPT
                     !.pc = IF args.async_val /\ trainer.completed THEN "poll" ELSE "final"]
    /\ UNCHANGED <<args, ckpts, last, best, final, results, watcher, log,
                   starts>>

\* _drain_async_results() after a poll: done, or sleep and poll again.
Drain ==
    /\ trainer.pc = "count"
    /\ trainer' = [trainer EXCEPT !.pc = IF PendingEvals = {} THEN "final" ELSE "poll"]
    /\ UNCHANGED <<args, dir, watcher, log, starts>>

DrainTimeout ==
    /\ trainer.pc = "count" /\ PendingEvals # {}
    /\ trainer' = [trainer EXCEPT !.pc = "final"]
    /\ UNCHANGED <<args, dir, watcher, log, starts>>

\* policy_final.pt says --iterations, however far the run came.
SaveFinal ==
    /\ trainer.pc = "final"
    /\ final' = Ckpt(trainer, args.iterations, trainer.policy)
    /\ trainer' = Down
    /\ UNCHANGED <<args, ckpts, last, best, results, trainDone, watcher, log,
                   starts>>

InLoop == {"train", "save", "periodic", "validate", "selectInline", "next", "poll",
           "log", "select", "consume"}

\* An exception in the loop: teardown runs.  Boards may have been drawn for
\* an iteration that was not trained.
Abort ==
    /\ trainer.pc \in InLoop /\ ~trainer.completed
    /\ \E sched \in {trainer.sched, Selected.sched} :
         /\ sched = trainer.sched \/ trainer.pc = "train"
         /\ trainer' = [trainer EXCEPT !.pc = "finish", !.queue = {}, !.sched = sched]
    /\ UNCHANGED <<args, dir, watcher, log, starts>>

\* The process is killed, or raises where nothing runs afterwards.
Crash ==
    /\ trainer.pc # "down"
    /\ trainer' = Down
    /\ UNCHANGED <<args, dir, watcher, log, starts>>

-----------------------------------------------------------------------------
(* watcher_main().                                                         *)

StartWatcher ==
    /\ args.async_val /\ watcher.pc = "down"
    /\ watcher' = [Away EXCEPT !.pc = "poll"]
    /\ UNCHANGED <<args, dir, trainer, log, starts>>

\* The first pending checkpoint is loaded; without any, train_done is read
\* next.  Before the first checkpoint of all, the watcher sleeps.
Discover ==
    /\ watcher.pc = "poll" /\ \E n \in Iteration : ckpts[n] # NoCkpt
    /\ watcher' = IF PendingEvals = {} THEN [watcher EXCEPT !.pc = "idle"]
                  ELSE LET n == Min(PendingEvals)
                       IN [pc |-> "eval", n |-> n, policy |-> ckpts[n].policy]
    /\ UNCHANGED <<args, dir, trainer, log, starts>>

\* It exits, or sleeps and polls again.
CheckDone ==
    /\ watcher.pc = "idle"
    /\ watcher' = IF trainDone THEN Away ELSE [watcher EXCEPT !.pc = "poll"]
    /\ UNCHANGED <<args, dir, trainer, log, starts>>

\* The evaluation ends and the result is written beside its place (the score
\* of the untrained policy is never compared) ...
WriteResult(score) ==
    /\ watcher.pc = "eval" /\ (watcher.n > 0 \/ score = NoScore)
    /\ results' = [results EXCEPT ![watcher.n] =
                     [state |-> "tmp", score |-> score, policy |-> watcher.policy]]
    /\ watcher' = [watcher EXCEPT !.pc = "rename"]
    /\ UNCHANGED <<args, ckpts, last, best, final, trainDone, trainer, log, starts>>

\* ... and moved there.
PublishResult ==
    /\ watcher.pc = "rename"
    /\ results' = [results EXCEPT ![watcher.n].state = "json"]
    /\ watcher' = [Away EXCEPT !.pc = "poll"]
    /\ UNCHANGED <<args, ckpts, last, best, final, trainDone, trainer, log, starts>>

WatcherDies ==
    /\ watcher.pc # "down" /\ starts < MaxStarts
    /\ watcher' = Away /\ starts' = starts + 1
    /\ UNCHANGED <<args, dir, trainer, log>>

-----------------------------------------------------------------------------
Launch == Start \/ \E src \in Sources : Resume(src) \/ Fork(src)

Trainer ==
    \/ SetupEvaluator \/ SaveInitial \/ \E ev \in BOOLEAN : Train(ev)
    \/ SaveLast \/ SavePeriodic
    \/ \E score \in Scores \cup {NoScore} : Validate(score)
    \/ OnValidation \/ NextIteration \/ FitCompleted
    \/ PollResults \/ LogResult \/ SelectBest \/ ConsumeResult
    \/ Finish \/ Drain \/ DrainTimeout \/ SaveFinal

Watcher ==
    \/ Discover \/ CheckDone \/ PublishResult
    \/ \E score \in Scores \cup {NoScore} : WriteResult(score)

Next == Launch \/ Trainer \/ Abort \/ Crash \/ StartWatcher \/ Watcher \/ WatcherDies

Spec == Init /\ [][Next]_vars

\* The watcher loops, and one that is gone is started again.
FairSpec == Spec /\ WF_vars(Watcher) /\ WF_vars(StartWatcher)

-----------------------------------------------------------------------------
(* Properties.                                                             *)

\* The iteration, up to i, that ended the critic warm-up of a history; 0: none.
WarmupEnd(h, i) ==
    LET ends == {j \in 1..i :
                   /\ WarmIters > 0
                   /\ \/ j >= args.cap
                      \/ j >= WarmIters /\ ~args.gate
                      \/ j >= WarmIters /\ j >= Streak /\ \A k \in j - Streak + 1..j : h[k].ev}
    IN IF ends = {} THEN 0 ELSE Min(ends)

\* A history of n iterations that no interruption shows in.
Uninterrupted(h, n) ==
    /\ Len(h) = n
    /\ \A i \in 1..n :
         LET end == WarmupEnd(h, i - 1) IN
         /\ h[i].boards = IF args.boards_order = "single" \/ NBoards = 1 THEN <<>>
                          ELSE BoardsOf(args.boards_order, i, Picks)
         /\ h[i].warm = (WarmIters > 0 /\ (i <= WarmIters \/ end = 0))
         /\ h[i].lr = LrFactor(i - 1, end)

(* A resumed run continues the interrupted one: whatever was killed, raised *)
(* or resumed, every checkpoint was trained on the boards, in the critic   *)
(* phase and at the learning rates of a run that was never interrupted.    *)
ResumedAsUninterrupted ==
    \A c \in {last} \cup Range(ckpts) : c # NoCkpt => Uninterrupted(c.policy, c.iteration)

(* A result is about the checkpoint that bears its number: no resume       *)
(* replaces a checkpoint that has been validated by another policy.        *)
ResultOfItsCheckpoint ==
    \A n \in Iteration : results[n].state # "absent" =>
        ckpts[n] # NoCkpt /\ results[n].policy = ckpts[n].policy

(* A result that was consumed has been logged and has counted for the best *)
(* checkpoint, whenever the trainer was killed in between.                 *)
ConsumedCounts ==
    \A n \in Iteration : results[n].state = "done" =>
        log[n] = results[n].score /\ (n > 0 => best.score >= results[n].score)

(* policy_best.pt holds the very policy its score was measured on, not the *)
(* one that trained on while the watcher evaluated.                        *)
BestIsItsCheckpoint ==
    best # NoCkpt =>
        /\ Uninterrupted(best.policy, best.iteration)
        /\ results[best.iteration].state # "absent" =>
             best.policy = results[best.iteration].policy
             /\ best.score = results[best.iteration].score

(* The best checkpoint of a directory is only replaced by a better one,    *)
(* across crashes and resumes.                                             *)
BestNeverDrops == [][Start \/ best = NoCkpt \/ best'.score >= best.score
                       \/ \E src \in Sources : Fork(src)]_vars

(* train_done is only there when the run has come to its end: the watcher  *)
(* does not leave a run that goes on, or that was aborted and will.        *)
DoneMeansCompleted ==
    trainDone => trainer.completed \/ trainer.pc \in {"down", "setup"}

Torn(n) == results[n].state = "tmp" /\ ~(watcher.pc = "rename" /\ watcher.n = n)

(* Every checkpoint that waits for a validation gets one, unless a watcher *)
(* died between writing a result and renaming it, or the directory was     *)
(* left for a new one.                                                     *)
EvaluatedUnlessTorn ==
    \A n \in Iteration : args.async_val /\ n \in PendingEvals ~>
        \/ results[n].state \in {"json", "done"} \/ Torn(n) \/ ckpts[n] = NoCkpt
=============================================================================
