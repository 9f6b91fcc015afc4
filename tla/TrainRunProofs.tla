--------------------------- MODULE TrainRunProofs ---------------------------
(***************************************************************************)
(* The training run across crashes and resumes.  The directory outlives    *)
(* the trainer and the watcher, so the invariants tie the memory of each   *)
(* to the files: no file is later than the trainer (FileInv), a result is  *)
(* of its checkpoint (ResultInv), what the trainer consumes does not move  *)
(* (QueueInv), and no file has a score the best checkpoint has not reached *)
(* (ScoreInv).  What the weights have seen is HistInv.                     *)
(***************************************************************************)
EXTENDS TrainRun, WellFoundedInduction, TLAPS

Step    == [boards : Seq(Board), warm : BOOLEAN, lr : Int, ev : BOOLEAN]
History == Seq(Step)
Sched   == [iter_idx : Int, rng : Nat, epoch_order : Seq(Board), epoch_pos : Nat]
Gate    == [evs : Seq(BOOLEAN), passed : BOOLEAN, end : Nat]
CkptSet == [iteration : Nat \cup {-1}, policy : History, sched : Sched, gate : Gate,
            score : Nat]
ResultSet == [state : {"absent", "tmp", "json", "done"}, score : Nat, policy : History]

TrainerSet ==
    [pc : InLoop \cup {"down", "setup", "save0", "finish", "count", "final"},
     iteration : Nat, policy : History, sched : Sched, gate : Gate, lr : Int, best : Nat,
     queue : SUBSET Iteration, completed : BOOLEAN]

WatcherSet ==
    [pc : {"down", "poll", "idle", "eval", "rename"}, n : Iteration, policy : History]

TypeOK ==
    /\ args \in Runs
    /\ ckpts \in [Iteration -> CkptSet]
    /\ last \in CkptSet /\ best \in CkptSet /\ final \in CkptSet
    /\ results \in [Iteration -> ResultSet] /\ trainDone \in BOOLEAN
    /\ trainer \in TrainerSet /\ watcher \in WatcherSet
    /\ log \in [Iteration -> Int]

-----------------------------------------------------------------------------
(* The invariants.                                                         *)

Up == trainer.pc # "down"

\* Where a checkpoint of the current iteration may still be written.
Unsaved == trainer.pc \in {"setup", "save0", "train", "save", "periodic"}

\* Where the current iteration is trained and fit() has not returned.
Trained == trainer.pc \in InLoop \ {"train"} /\ ~trainer.completed

Consuming == {"log", "select", "consume"}

\* Where the trainer is and what it is doing there.
ControlInv ==
    /\ trainer.pc = "save0" => trainer.iteration = 1
    /\ trainer.pc \in {"setup", "train"} => trainer.iteration >= 1
    /\ trainer.pc \in {"setup", "save0"} /\ trainer.iteration = 1 => trainer.policy = <<>>
    /\ Trained => trainer.iteration \in 1..args.iterations
    /\ trainer.pc \in {"periodic", "validate", "selectInline"} =>
         last.iteration = trainer.iteration
    /\ Unsaved \/ trainer.pc \in {"validate", "selectInline", "next"} => ~trainer.completed
    /\ trainer.pc = "count" => trainer.completed
    /\ trainer.pc \in {"validate", "selectInline"} => ~args.async_val
    /\ trainer.pc \in {"poll", "count"} \cup Consuming => args.async_val
    /\ Up /\ args.iterations = 0 => trainer.policy = <<>>

\* Nothing validates a run without a watcher.
WatcherInv ==
    ~args.async_val =>
        watcher.pc = "down" /\ ~trainDone /\ \A n \in Iteration : results[n].state = "absent"

\* The files of the directory, and that none is later than the trainer.
FileInv ==
    /\ \A n \in Iteration : ckpts[n] # NoCkpt =>
         /\ ckpts[n].iteration = n /\ n <= args.iterations /\ (n > 0 => n <= last.iteration)
         /\ n = 0 => ckpts[n].policy = <<>>
         /\ Unsaved => n < trainer.iteration
         /\ Trained => n <= trainer.iteration
    /\ last # NoCkpt => last.iteration \in 1..args.iterations
    /\ final # NoCkpt =>
         final.iteration = args.iterations /\ (args.iterations = 0 => final.policy = <<>>)
    /\ best # NoCkpt =>
         /\ best.iteration \in 1..args.iterations
         /\ Unsaved => best.iteration < trainer.iteration
         /\ Trained => best.iteration <= trainer.iteration
         /\ \/ best.iteration <= last.iteration
            \/ last = NoCkpt /\ \A n \in Iteration : ckpts[n] = NoCkpt

\* The watcher evaluates a checkpoint that stays what it is.
ResultInv ==
    /\ ResultOfItsCheckpoint
    /\ watcher.pc \in {"eval", "rename"} =>
         ckpts[watcher.n] # NoCkpt /\ watcher.policy = ckpts[watcher.n].policy
    /\ watcher.pc = "eval" => results[watcher.n].state = "absent"
    /\ watcher.pc = "rename" => results[watcher.n].state = "tmp"

\* The trainer works off results that stay what they are.
QueueInv ==
    /\ ConsumedCounts
    /\ trainer.pc \in Consuming =>
         trainer.queue # {} /\ \A n \in trainer.queue : results[n].state = "json"
    /\ trainer.pc = "select" => Polled > 0
    /\ trainer.pc \in {"select", "consume"} => log[Polled] = results[Polled].score
    /\ trainer.pc = "consume" /\ Polled > 0 => best.score >= results[Polled].score

\* The score to beat is that of the best checkpoint.
ScoreInv ==
    /\ Up => trainer.best = best.score
    /\ last.score <= best.score /\ final.score <= best.score
    /\ \A n \in Iteration : ckpts[n].score <= best.score

\* A best checkpoint is the one that was validated, or came from elsewhere.
BestInv ==
    best # NoCkpt /\ args.async_val =>
        \/ ckpts[best.iteration] = NoCkpt
        \/ LET r == results[best.iteration] IN
           r.state \in {"json", "done"} /\ best.policy = r.policy /\ best.score = r.score

DirInv == ControlInv /\ WatcherInv /\ FileInv /\ ResultInv /\ QueueInv /\ ScoreInv /\ BestInv
                     /\ DoneMeansCompleted

-----------------------------------------------------------------------------
(* What a run that was never interrupted looks like after n iterations.    *)

MultiBoard == args.boards_order # "single" /\ NBoards # 1

\* The epochs are dealt up to k boards.
DealtAt(s, k) ==
    \/ k = 0 /\ s.rng = 0 /\ s.epoch_order = <<>> /\ s.epoch_pos = 0
    \/ /\ s.rng >= 1 /\ s.epoch_pos \in 1..NBoards
       /\ s.epoch_order = Cyclic(Shuffles, s.rng)
       /\ k = (s.rng - 1) * NBoards + s.epoch_pos

SchedAt(s, n) ==
    MultiBoard =>
        /\ s.iter_idx = n - 1
        /\ args.boards_order = "per_env_random" => s.rng = n * Picks
        /\ args.boards_order = "per_env_epoch" => DealtAt(s, n * Picks)

\* The iterations, up to i, at which the critic warm-up may end.
EndsIn(h, i) ==
    {j \in 1..i :
       /\ WarmIters > 0
       /\ \/ j >= args.cap
          \/ j >= WarmIters /\ ~args.gate
          \/ j >= WarmIters /\ j >= Streak /\ \A k \in j - Streak + 1..j : h[k].ev}

\* The gate knows the first of them, and still holds the latest variances.
GateAt(g, h, n) ==
    /\ g.end = 0 => EndsIn(h, n) = {} /\ ~g.passed
    /\ g.end # 0 => /\ g.end \in EndsIn(h, n) /\ \A j \in EndsIn(h, n) : g.end <= j
                    /\ args.gate => g.passed \/ g.end >= args.cap
    /\ Len(g.evs) <= n /\ (Len(g.evs) = n \/ Len(g.evs) >= Streak)
    /\ \A k \in 1..Len(g.evs) : g.evs[k] = h[n - Len(g.evs) + k].ev

\* x is the trainer or a checkpoint.
Faithful(x, n) ==
    Uninterrupted(x.policy, n) /\ SchedAt(x.sched, n) /\ GateAt(x.gate, x.policy, n)

\* The iterations the trainer has behind it, where it is about to train the
\* next one and where it has trained the current one.
TrainerHist ==
    /\ trainer.pc \in {"setup", "save0", "train"} =>
         /\ Faithful(trainer, trainer.iteration - 1)
         /\ trainer.lr = LrFactor(trainer.iteration - 1, trainer.gate.end)
    /\ Trained => /\ Faithful(trainer, trainer.iteration)
                  /\ trainer.lr = LrFactor(trainer.iteration, trainer.gate.end)

FileHist ==
    /\ last # NoCkpt => Faithful(last, last.iteration)
    /\ \A n \in Iteration : ckpts[n] # NoCkpt => Faithful(ckpts[n], n)
    /\ best # NoCkpt => Uninterrupted(best.policy, best.iteration)

HistInv == TrainerHist /\ FileHist

-----------------------------------------------------------------------------
(* Numbers and sequences.                                                  *)

(* Every set of naturals has a least element.                              *)
LEMMA Least ==
    ASSUME NEW S, S \subseteq Nat, S # {}
    PROVE  \E m \in S : \A k \in S : m <= k
<1>1. IsWellFoundedOn({p \in Nat \X Nat : p[1] < p[2]}, Nat)
  <2>1. OpToRel(<, Nat) = {p \in Nat \X Nat : p[1] < p[2]}
    BY Zenon DEF OpToRel
  <2> QED BY <2>1, NatLessThanWellFounded, Zenon
<1>2. PICK m \in S : \A k \in S : ~(<<k, m>> \in {p \in Nat \X Nat : p[1] < p[2]})
  BY <1>1, WFMin
<1>3. ASSUME NEW k \in S PROVE m <= k
  <2>1. ~(<<k, m>> \in {p \in Nat \X Nat : p[1] < p[2]})
    BY <1>2
  <2>2. <<k, m>> \in Nat \X Nat /\ m \in Nat /\ k \in Nat
    OBVIOUS
  <2> QED BY <2>1, <2>2
<1> QED BY <1>3

LEMMA MinIsIn ==
    ASSUME NEW S, S \subseteq Nat, S # {}
    PROVE  Min(S) \in S /\ \A k \in S : Min(S) <= k
<1>1. \E m \in S : \A k \in S : m <= k
  BY Least
<1> QED BY <1>1, Zenon DEF Min

LEMMA MinIs ==
    ASSUME NEW S, S \subseteq Nat, NEW m \in S, \A k \in S : m <= k
    PROVE  Min(S) = m
<1>1. Min(S) \in S /\ \A k \in S : Min(S) <= k
  BY MinIsIn
<1>2. Min(S) <= m /\ m <= Min(S) /\ m \in Nat /\ Min(S) \in Nat
  BY <1>1
<1> QED BY <1>2

LEMMA MaxTwo ==
    ASSUME NEW a \in Int, NEW b \in Int
    PROVE  Max({a, b}) = IF a >= b THEN a ELSE b
<1>1. \E x \in {a, b} : \A y \in {a, b} : x >= y
  OBVIOUS
<1>2. Max({a, b}) \in {a, b} /\ \A y \in {a, b} : Max({a, b}) >= y
  BY <1>1, Zenon DEF Max
<1> QED BY <1>2

LEMMA MinTwo ==
    ASSUME NEW a \in Int, NEW b \in Int
    PROVE  Min({a, b}) = IF a <= b THEN a ELSE b
<1>1. \E x \in {a, b} : \A y \in {a, b} : x <= y
  OBVIOUS
<1>2. Min({a, b}) \in {a, b} /\ \A y \in {a, b} : Min({a, b}) <= y
  BY <1>1, Zenon DEF Min
<1> QED BY <1>2

(* A checkpoint keeps at least the variances a streak needs.               *)
LEMMA KeptEvsAre ==
    ASSUME NEW e \in Seq(BOOLEAN)
    PROVE  /\ KeptEvs(e) \in Seq(BOOLEAN)
           /\ Len(KeptEvs(e)) <= Len(e)
           /\ Len(KeptEvs(e)) = Len(e) \/ Len(KeptEvs(e)) >= Streak
           /\ \A k \in 1..Len(KeptEvs(e)) : KeptEvs(e)[k] = e[Len(e) - Len(KeptEvs(e)) + k]
<1> DEFINE w == Max({Streak, 3})
<1>1. w \in Nat /\ w >= Streak /\ w >= 3
  BY MaxTwo, TrainAssumption
<1> HIDE DEF w
<1> DEFINE f == Max({1, Len(e) - w + 1})
<1>2. f = IF 1 >= Len(e) - w + 1 THEN 1 ELSE Len(e) - w + 1
  BY <1>1, MaxTwo
<1>3. f \in 1..Len(e) + 1 /\ Len(e) \in Nat
  BY <1>1, <1>2
<1>4. KeptEvs(e) = SubSeq(e, f, Len(e))
  BY DEF KeptEvs, w
<1> HIDE DEF f
<1>5. /\ SubSeq(e, f, Len(e)) \in Seq(BOOLEAN)
      /\ Len(SubSeq(e, f, Len(e))) = Len(e) - f + 1
      /\ \A k \in 1..Len(e) - f + 1 : SubSeq(e, f, Len(e))[k] = e[f + k - 1]
  BY <1>3
<1>6. Len(e) - f + 1 = Len(e) \/ Len(e) - f + 1 >= Streak
  BY <1>1, <1>2, <1>3, TrainAssumption
<1> QED BY <1>3, <1>4, <1>5, <1>6

-----------------------------------------------------------------------------
(* The scheduler.                                                          *)

LEMMA DivMod ==
    ASSUME NEW m \in Nat \ {0}, NEW q \in Nat, NEW r \in 0..m - 1
    PROVE  (q * m + r) \div m = q /\ (q * m + r) % m = r
  OBVIOUS

LEMMA CyclicType ==
    ASSUME NEW S, NEW x \in Seq(S), x # <<>>, NEW k \in Nat \ {0}
    PROVE  Cyclic(x, k) \in S /\ \E i \in 1..Len(x) : Cyclic(x, k) = x[i]
<1>1. Len(x) \in Nat \ {0}
  OBVIOUS
<1>2. ((k - 1) % Len(x)) + 1 \in 1..Len(x)
  BY <1>1
<1> QED BY <1>2 DEF Cyclic

LEMMA ShuffleType ==
    ASSUME NEW k \in Nat \ {0}
    PROVE  Cyclic(Shuffles, k) \in Seq(Board) /\ Len(Cyclic(Shuffles, k)) = NBoards
<1>1. PICK i \in 1..Len(Shuffles) : Cyclic(Shuffles, k) = Shuffles[i]
  BY CyclicType, SchedulerAssumption
<1> QED BY <1>1, SchedulerAssumption

(* The recursive function Dealt has the value its definition says.         *)
LEMMA DealtIs ==
    ASSUME NEW s, NEW count \in Nat
    PROVE  Dealt(s, count) =
             [j \in 0..count |-> IF j = 0 THEN [sched |-> s, boards |-> <<>>]
                                          ELSE Deal(Dealt(s, count)[j - 1])]
<1> DEFINE base == [sched |-> s, boards |-> <<>>]
           F(n) == \E f : f = [j \in 0..n |-> IF j = 0 THEN base ELSE Deal(f[j - 1])]
           Bad == {n \in Nat : ~F(n)}
<1>1. F(count)
  <2>0. SUFFICES ASSUME ~F(count) PROVE FALSE
    OBVIOUS
  <2>1. PICK m \in Bad : \A k \in Bad : m <= k
    <3> HIDE DEF F
    <3>1. Bad \subseteq Nat /\ Bad # {}
      BY <2>0
    <3> HIDE DEF Bad
    <3> QED BY <3>1, Least
  <2>2. CASE m = 0
    <3>1. [j \in 0..0 |-> base] = [j \in 0..0 |-> IF j = 0 THEN base ELSE Deal([i \in 0..0 |-> base][j - 1])]
      OBVIOUS
    <3> QED BY <2>1, <2>2, <3>1
  <2>3. CASE m # 0
    <3>0. m \in Nat /\ m - 1 \in Nat /\ ~(m <= m - 1)
      BY <2>3
    <3>1. m - 1 \notin Bad
      <4> HIDE DEF Bad
      <4> QED BY <2>1, <3>0
    <3>2. PICK f : f = [j \in 0..m - 1 |-> IF j = 0 THEN base ELSE Deal(f[j - 1])]
      BY <3>0, <3>1
    <3> DEFINE g == [j \in 0..m |-> IF j = m THEN Deal(f[m - 1]) ELSE f[j]]
    <3> HIDE DEF base
    <3>3. \A j \in 0..m : g[j] = IF j = 0 THEN base ELSE Deal(g[j - 1])
      <4> SUFFICES ASSUME NEW j \in 0..m
                   PROVE  g[j] = IF j = 0 THEN base ELSE Deal(g[j - 1])
        OBVIOUS
      <4>1. CASE j = m
        BY <2>3, <3>0, <4>1
      <4>2. CASE j # m
        <5>1. g[j] = f[j] /\ j \in 0..m - 1
          BY <3>0, <4>2
        <5>2. j # 0 => g[j - 1] = f[j - 1]
          BY <3>0, <4>2
        <5>3. f[j] = IF j = 0 THEN base ELSE Deal(f[j - 1])
          BY <3>2, <5>1
        <5> QED BY <5>1, <5>2, <5>3
      <4> QED BY <4>1, <4>2
    <3>4. g = [j \in 0..m |-> IF j = 0 THEN base ELSE Deal(g[j - 1])]
      <4>1. g = [j \in 0..m |-> g[j]]
        OBVIOUS
      <4> HIDE DEF g
      <4> QED BY <3>3, <4>1
    <3>5. F(m)
      <4> HIDE DEF g
      <4> QED BY <3>4
    <3> QED BY <3>5
  <2> QED BY <2>2, <2>3
<1>2. Dealt(s, count) = CHOOSE f : f = [j \in 0..count |-> IF j = 0 THEN base ELSE Deal(f[j - 1])]
  BY Zenon DEF Dealt, base
<1>3. Dealt(s, count) = [j \in 0..count |-> IF j = 0 THEN base ELSE Deal(Dealt(s, count)[j - 1])]
  <2> HIDE DEF base, Bad
  <2> QED BY <1>1, <1>2, Zenon
<1> QED BY <1>3, Zenon DEF base

\* The board an uninterrupted run deals after k others.
EpochBoard(k) == Cyclic(Shuffles, (k \div NBoards) + 1)[(k % NBoards) + 1]

(* One board off the top of the epoch is the next of the uninterrupted run.*)
LEMMA DealStep ==
    ASSUME NEW s \in Sched, NEW b, NEW k \in Nat, DealtAt(s, k)
    PROVE  LET x == Deal([sched |-> s, boards |-> b]) IN
           /\ x.sched \in Sched /\ x.sched.iter_idx = s.iter_idx
           /\ DealtAt(x.sched, k + 1)
           /\ x.boards = Append(b, EpochBoard(k)) /\ EpochBoard(k) \in Board
<1>0. NBoards \in Nat \ {0} /\ s \in [iter_idx : Int, rng : Nat, epoch_order : Seq(Board), epoch_pos : Nat]
  BY SchedulerAssumption DEF Sched
<1>1. PICK q \in Nat, p \in 0..NBoards - 1 :
         /\ k = q * NBoards + p
         /\ Reshuffled(s) \in Sched /\ Reshuffled(s).iter_idx = s.iter_idx
         /\ Reshuffled(s).rng = q + 1 /\ Reshuffled(s).epoch_pos = p
         /\ Reshuffled(s).epoch_order = Cyclic(Shuffles, q + 1)
  <2>1. CASE s.epoch_pos < Len(s.epoch_order)
    <3>1. s.rng >= 1 /\ k = (s.rng - 1) * NBoards + s.epoch_pos
          /\ s.epoch_order = Cyclic(Shuffles, s.rng) /\ s.rng \in Nat /\ s.epoch_pos \in Nat
      BY <1>0, <2>1 DEF DealtAt
    <3>2. s.epoch_pos \in 0..NBoards - 1
      BY <1>0, <2>1, <3>1, ShuffleType
    <3>3. Reshuffled(s) = s
      BY <2>1 DEF Reshuffled
    <3>4. s.rng - 1 \in Nat /\ s.rng = (s.rng - 1) + 1
      BY <3>1
    <3> QED BY <3>1, <3>2, <3>3, <3>4
  <2>2. CASE ~(s.epoch_pos < Len(s.epoch_order))
    <3>1. s.rng \in Nat /\ k = s.rng * NBoards + 0
      <4>1. CASE k = 0 /\ s.rng = 0
        BY <1>0, <4>1
      <4>2. CASE /\ s.rng >= 1 /\ s.epoch_pos \in 1..NBoards
                 /\ s.epoch_order = Cyclic(Shuffles, s.rng)
                 /\ k = (s.rng - 1) * NBoards + s.epoch_pos
        <5>1. s.epoch_pos = NBoards /\ s.rng \in Nat
          BY <1>0, <2>2, <4>2, ShuffleType
        <5> QED BY <1>0, <4>2, <5>1
      <4> QED BY <4>1, <4>2 DEF DealtAt
    <3>2. /\ Reshuffled(s) = [s EXCEPT !.epoch_order = Cyclic(Shuffles, s.rng + 1),
                                       !.epoch_pos = 0, !.rng = @ + 1]
          /\ Cyclic(Shuffles, s.rng + 1) \in Seq(Board)
      BY <1>0, <2>2, <3>1, ShuffleType DEF Reshuffled
    <3>3. /\ Reshuffled(s) \in Sched /\ Reshuffled(s).iter_idx = s.iter_idx
          /\ Reshuffled(s).rng = s.rng + 1 /\ Reshuffled(s).epoch_pos = 0
          /\ Reshuffled(s).epoch_order = Cyclic(Shuffles, s.rng + 1)
      <4>1. Reshuffled(s) = [iter_idx |-> s.iter_idx, rng |-> s.rng + 1,
                             epoch_order |-> Cyclic(Shuffles, s.rng + 1), epoch_pos |-> 0]
        BY <1>0, <3>2
      <4> QED BY <1>0, <3>1, <3>2, <4>1 DEF Sched
    <3> QED BY <1>0, <3>1, <3>3
  <2> QED BY <2>1, <2>2
<1>2. k \div NBoards = q /\ k % NBoards = p
  BY <1>0, <1>1, DivMod
<1>3. Cyclic(Shuffles, q + 1) \in Seq(Board) /\ Len(Cyclic(Shuffles, q + 1)) = NBoards
  BY <1>1, ShuffleType
<1>4. EpochBoard(k) = Cyclic(Shuffles, q + 1)[p + 1] /\ EpochBoard(k) \in Board
  BY <1>0, <1>1, <1>2, <1>3 DEF EpochBoard
<1>5. Deal([sched |-> s, boards |-> b]) =
        [sched |-> [Reshuffled(s) EXCEPT !.epoch_pos = p + 1],
         boards |-> Append(b, EpochBoard(k))]
  BY <1>1, <1>4 DEF Deal, Sched
<1> DEFINE t == [Reshuffled(s) EXCEPT !.epoch_pos = p + 1]
<1>6. /\ t \in Sched /\ t.iter_idx = s.iter_idx /\ t.rng = q + 1
      /\ t.epoch_pos = p + 1 /\ t.epoch_order = Cyclic(Shuffles, q + 1)
  BY <1>1 DEF Sched
<1>7. DealtAt(t, k + 1)
  <2>1. t.rng >= 1 /\ t.epoch_pos \in 1..NBoards
    BY <1>0, <1>1, <1>6
  <2> HIDE DEF t
  <2>2. k + 1 = (t.rng - 1) * NBoards + t.epoch_pos
    <3>1. t.rng - 1 = q
      BY <1>1, <1>6
    <3> QED BY <1>0, <1>1, <1>6, <3>1
  <2> QED BY <1>6, <2>1, <2>2 DEF DealtAt
<1>8. Deal([sched |-> s, boards |-> b]) = [sched |-> t, boards |-> Append(b, EpochBoard(k))]
  BY <1>5
<1> HIDE DEF t
<1> QED BY <1>4, <1>6, <1>7, <1>8

Hand == [sched : Sched, boards : Seq(Board)]

LEMMA DealType ==
    ASSUME NEW x \in Hand
    PROVE  Deal(x) \in Hand /\ Deal(x).sched.iter_idx = x.sched.iter_idx
<1> DEFINE s == x.sched
           r == Reshuffled(s)
<1>0. NBoards \in Nat \ {0} /\ s \in Sched /\ x.boards \in Seq(Board)
  BY SchedulerAssumption DEF Hand
<1>1. r \in Sched /\ r.iter_idx = s.iter_idx /\ r.epoch_pos < Len(r.epoch_order)
  <2>1. CASE s.epoch_pos < Len(s.epoch_order)
    BY <1>0, <2>1 DEF Reshuffled
  <2>2. CASE ~(s.epoch_pos < Len(s.epoch_order))
    <3> DEFINE c == Cyclic(Shuffles, s.rng + 1)
    <3>1. s.rng + 1 \in Nat \ {0}
      BY <1>0 DEF Sched
    <3>2. c \in Seq(Board) /\ Len(c) = NBoards
      BY <3>1, ShuffleType
    <3> HIDE DEF c
    <3>3. r = [iter_idx |-> s.iter_idx, rng |-> s.rng + 1, epoch_order |-> c, epoch_pos |-> 0]
      BY <1>0, <2>2 DEF Reshuffled, Sched, c
    <3> QED BY <1>0, <3>1, <3>2, <3>3 DEF Sched
  <2> QED BY <2>1, <2>2
<1> HIDE DEF r, s
<1>2. r.epoch_order[r.epoch_pos + 1] \in Board
  <2>1. r.epoch_pos + 1 \in 1..Len(r.epoch_order) /\ r.epoch_order \in Seq(Board)
    BY <1>1 DEF Sched
  <2> QED BY <2>1
<1>3. Deal(x) = [sched |-> [r EXCEPT !.epoch_pos = @ + 1],
                 boards |-> Append(x.boards, r.epoch_order[r.epoch_pos + 1])]
  BY DEF Deal, r, s
<1> DEFINE t == [r EXCEPT !.epoch_pos = @ + 1]
           b == Append(x.boards, r.epoch_order[r.epoch_pos + 1])
<1>4. t \in Sched /\ t.iter_idx = s.iter_idx
  BY <1>1 DEF Sched
<1>5. b \in Seq(Board)
  BY <1>0, <1>2
<1>6. Deal(x) = [sched |-> t, boards |-> b]
  BY <1>3
<1> HIDE DEF t, b
<1> QED BY <1>4, <1>5, <1>6 DEF Hand, s

(* The loop deals the boards the uninterrupted run would deal next.        *)
LEMMA DealtAll ==
    ASSUME NEW s \in Sched, NEW count \in Nat
    PROVE  /\ Dealt(s, count)[count] \in Hand
           /\ Dealt(s, count)[count].sched.iter_idx = s.iter_idx
           /\ \A k \in Nat : DealtAt(s, k) =>
                /\ DealtAt(Dealt(s, count)[count].sched, k + count)
                /\ Dealt(s, count)[count].boards = [j \in 1..count |-> EpochBoard(k + j - 1)]
<1> DEFINE D == Dealt(s, count)
           P(j) == /\ D[j] \in Hand /\ D[j].sched.iter_idx = s.iter_idx
                   /\ \A k \in Nat : DealtAt(s, k) =>
                        /\ DealtAt(D[j].sched, k + j) /\ Len(D[j].boards) = j
                        /\ \A i \in 1..j : D[j].boards[i] = EpochBoard(k + i - 1)
           Bad == {j \in 0..count : ~P(j)}
<1>1. D[0] = [sched |-> s, boards |-> <<>>] /\ \A j \in 1..count : D[j] = Deal(D[j - 1])
  <2>1. D = [j \in 0..count |-> IF j = 0 THEN [sched |-> s, boards |-> <<>>] ELSE Deal(D[j - 1])]
    BY DealtIs
  <2> HIDE DEF D
  <2> QED BY <2>1
<1> HIDE DEF D
<1>2. P(0)
  BY <1>1 DEF Hand
<1>3. ASSUME NEW j \in 1..count, P(j - 1)
      PROVE  P(j)
  <2> DEFINE x == D[j - 1]
  <2>0. j \in Nat /\ j - 1 \in Nat /\ (j - 1) + 1 = j /\ D[j] = Deal(x)
    BY <1>1
  <2>1. D[j] \in Hand /\ D[j].sched.iter_idx = s.iter_idx
    BY <1>3, <2>0, DealType
  <2>2. ASSUME NEW k \in Nat, DealtAt(s, k)
        PROVE  /\ DealtAt(D[j].sched, k + j) /\ Len(D[j].boards) = j
               /\ \A i \in 1..j : D[j].boards[i] = EpochBoard(k + i - 1)
    <3>1. /\ DealtAt(x.sched, k + (j - 1)) /\ Len(x.boards) = j - 1
          /\ \A i \in 1..j - 1 : x.boards[i] = EpochBoard(k + i - 1)
          /\ x \in Hand
      BY <1>3, <2>2
    <3> HIDE DEF x
    <3>2. x = [sched |-> x.sched, boards |-> x.boards] /\ x.sched \in Sched /\ x.boards \in Seq(Board)
      BY <3>1 DEF Hand
    <3>3. k + (j - 1) \in Nat /\ (k + (j - 1)) + 1 = k + j /\ k + (j - 1) = k + j - 1
      BY <2>0
    <3>4. /\ DealtAt(Deal(x).sched, (k + (j - 1)) + 1)
          /\ Deal(x).boards = Append(x.boards, EpochBoard(k + (j - 1)))
          /\ EpochBoard(k + (j - 1)) \in Board
      BY <3>1, <3>2, <3>3, DealStep
    <3>5. DealtAt(D[j].sched, k + j) /\ D[j].boards = Append(x.boards, EpochBoard(k + j - 1))
      BY <2>0, <3>3, <3>4
    <3> QED BY <2>0, <3>1, <3>2, <3>5
  <2> QED BY <2>1, <2>2
<1>4. P(count)
  <2>0. SUFFICES ASSUME ~P(count) PROVE FALSE
    OBVIOUS
  <2> HIDE DEF P
  <2>1. PICK m \in Bad : \A k \in Bad : m <= k
    <3>1. Bad \subseteq Nat /\ Bad # {}
      BY <2>0
    <3> HIDE DEF Bad
    <3> QED BY <3>1, Least
  <2>2. m \in 1..count /\ m - 1 \in 0..count /\ ~(m <= m - 1) /\ ~P(m)
    BY <1>2, <2>1
  <2>3. P(m - 1)
    BY <2>1, <2>2
  <2> QED BY <1>3, <2>2, <2>3
<1>5. ASSUME NEW k \in Nat, DealtAt(s, k)
      PROVE  D[count].boards = [j \in 1..count |-> EpochBoard(k + j - 1)]
  <2>1. /\ Len(D[count].boards) = count /\ D[count].boards \in Seq(Board)
        /\ \A i \in 1..count : D[count].boards[i] = EpochBoard(k + i - 1)
    BY <1>4, <1>5 DEF Hand
  <2> QED BY <2>1
<1> QED BY <1>4, <1>5 DEF D

(* What the trainer draws has the right type, and continues what it drew.  *)
LEMMA SelectedIs ==
    ASSUME args \in Runs, trainer.sched \in Sched
    PROVE  /\ Selected.sched \in Sched /\ Selected.boards \in Seq(Board)
           /\ \A n \in Nat : SchedAt(trainer.sched, n) =>
                /\ SchedAt(Selected.sched, n + 1)
                /\ Selected.boards = IF args.boards_order = "single" \/ NBoards = 1 THEN <<>>
                                     ELSE BoardsOf(args.boards_order, n + 1, Picks)
<1> DEFINE s == [trainer.sched EXCEPT !.iter_idx = @ + 1]
<1>0. /\ NBoards \in Nat \ {0} /\ Picks \in Nat /\ args.boards_order \in Modes
      /\ Draws \in Seq(Board) /\ Draws # <<>>
  BY SchedulerAssumption, TrainAssumption
<1>1. /\ s \in Sched /\ s.iter_idx = trainer.sched.iter_idx + 1 /\ s.rng = trainer.sched.rng
      /\ s.epoch_order = trainer.sched.epoch_order /\ s.epoch_pos = trainer.sched.epoch_pos
  BY DEF Sched
<1> HIDE DEF s
<1>2. CASE ~MultiBoard
  <2>1. Selected = [sched |-> trainer.sched, boards |-> <<>>]
    BY <1>2 DEF MultiBoard, Selected
  <2> QED BY <1>2, <2>1 DEF MultiBoard, SchedAt
<1>3. CASE MultiBoard /\ args.boards_order = "round_robin"
  <2>1. Selected = [sched |-> s, boards |-> [j \in 1..Picks |-> s.iter_idx % NBoards]]
    BY <1>3 DEF MultiBoard, Selected, NextIndices, s
  <2>2. s.iter_idx % NBoards \in Board
    BY <1>0, <1>1 DEF Sched, Board
  <2>3. [j \in 1..Picks |-> s.iter_idx % NBoards] \in Seq(Board)
    BY <1>0, <2>2
  <2>4. ASSUME NEW n \in Nat, SchedAt(trainer.sched, n)
        PROVE  SchedAt(s, n + 1) /\ Selected.boards = BoardsOf(args.boards_order, n + 1, Picks)
    <3>1. trainer.sched.iter_idx = n - 1
      BY <1>3, <2>4 DEF SchedAt
    <3>2. s.iter_idx = n /\ (n + 1) - 1 = n
      BY <1>1, <3>1
    <3> QED BY <1>3, <2>1, <3>2 DEF SchedAt, BoardsOf
  <2> QED BY <1>3, <1>1, <2>1, <2>3, <2>4 DEF MultiBoard
<1>4. CASE MultiBoard /\ args.boards_order = "per_env_random"
  <2> DEFINE t == [s EXCEPT !.rng = @ + Picks]
  <2>1. Selected = [sched |-> t, boards |-> [j \in 1..Picks |-> Cyclic(Draws, s.rng + j)]]
    BY <1>4 DEF MultiBoard, Selected, NextIndices, s
  <2>2. [j \in 1..Picks |-> Cyclic(Draws, s.rng + j)] \in Seq(Board)
    <3>1. \A j \in 1..Picks : s.rng + j \in Nat \ {0}
      BY <1>0, <1>1 DEF Sched
    <3>2. \A j \in 1..Picks : Cyclic(Draws, s.rng + j) \in Board
      BY <1>0, <3>1, CyclicType
    <3> QED BY <1>0, <3>2
  <2>3. t \in Sched /\ t.iter_idx = s.iter_idx /\ t.rng = s.rng + Picks
    BY <1>0, <1>1 DEF Sched
  <2> HIDE DEF t
  <2>4. ASSUME NEW n \in Nat, SchedAt(trainer.sched, n)
        PROVE  SchedAt(t, n + 1) /\ Selected.boards = BoardsOf(args.boards_order, n + 1, Picks)
    <3>1. trainer.sched.iter_idx = n - 1 /\ s.rng = n * Picks
      BY <1>1, <1>4, <2>4 DEF SchedAt
    <3>2. t.iter_idx = (n + 1) - 1 /\ t.rng = (n + 1) * Picks
      BY <1>0, <1>1, <2>3, <3>1
    <3>3. SchedAt(t, n + 1)
      BY <1>4, <3>2 DEF SchedAt
    <3>4. \A j \in 1..Picks : s.rng + j = ((n + 1 - 1) * Picks + j - 1) + 1
      BY <1>0, <3>1
    <3>5. BoardsOf(args.boards_order, n + 1, Picks) =
            [j \in 1..Picks |-> Cyclic(Draws, ((n + 1 - 1) * Picks + j - 1) + 1)]
      BY <1>4 DEF BoardsOf
    <3> QED BY <2>1, <3>3, <3>4, <3>5
  <2> QED BY <1>4, <2>1, <2>2, <2>3, <2>4 DEF MultiBoard
<1>5. CASE MultiBoard /\ args.boards_order = "per_env_epoch"
  <2> DEFINE D == Dealt(s, Picks)[Picks]
  <2>1. Selected = D
    BY <1>5 DEF MultiBoard, Selected, NextIndices, s
  <2>2. D \in Hand /\ D.sched.iter_idx = s.iter_idx
    BY <1>0, <1>1, DealtAll
  <2>3. ASSUME NEW k \in Nat, DealtAt(s, k)
        PROVE  /\ DealtAt(D.sched, k + Picks)
               /\ D.boards = [j \in 1..Picks |-> EpochBoard(k + j - 1)]
    BY <1>0, <1>1, <2>3, DealtAll
  <2> HIDE DEF D
  <2>4. ASSUME NEW n \in Nat, SchedAt(trainer.sched, n)
        PROVE  SchedAt(D.sched, n + 1) /\ D.boards = BoardsOf(args.boards_order, n + 1, Picks)
    <3>1. trainer.sched.iter_idx = n - 1 /\ DealtAt(trainer.sched, n * Picks)
      BY <1>5, <2>4 DEF SchedAt
    <3>2. DealtAt(s, n * Picks)
      BY <1>1, <3>1 DEF DealtAt
    <3>3. n * Picks \in Nat /\ n * Picks + Picks = (n + 1) * Picks
      BY <1>0
    <3>4. /\ DealtAt(D.sched, (n + 1) * Picks)
          /\ D.boards = [j \in 1..Picks |-> EpochBoard(n * Picks + j - 1)]
      BY <2>3, <3>2, <3>3
    <3>5. D.sched.iter_idx = (n + 1) - 1
      BY <1>1, <2>2, <3>1
    <3>6. SchedAt(D.sched, n + 1)
      BY <1>5, <3>4, <3>5 DEF SchedAt
    <3>7. n + 1 - 1 = n
      OBVIOUS
    <3>8. BoardsOf(args.boards_order, n + 1, Picks) = [j \in 1..Picks |-> EpochBoard(n * Picks + j - 1)]
      BY <1>5, <3>7 DEF BoardsOf, EpochBoard
    <3> QED BY <3>4, <3>6, <3>8
  <2> QED BY <1>5, <2>1, <2>2, <2>4 DEF MultiBoard, Hand
<1> QED BY <1>0, <1>2, <1>3, <1>4, <1>5 DEF Modes, MultiBoard

-----------------------------------------------------------------------------
(* Types.                                                                  *)

LEMMA FreshType ==
    /\ FreshScheduler \in Sched /\ FreshGate \in Gate /\ NoCkpt \in CkptSet
    /\ NoResult \in ResultSet /\ Away \in WatcherSet /\ Down \in TrainerSet
    /\ NoLog \in [Iteration -> Int] /\ 0 \in Iteration /\ Iteration \subseteq Nat
<1>1. FreshScheduler \in Sched /\ FreshGate \in Gate
  BY DEF FreshScheduler, FreshGate, Sched, Gate
<1>2. <<>> \in History
  BY DEF History
<1>3. 0 \in Iteration /\ Iteration \subseteq Nat
  BY TrainAssumption DEF Iteration
<1>4. NoCkpt \in CkptSet
  BY <1>1, <1>2 DEF NoCkpt, CkptSet, NoScore
<1>5. NoResult \in ResultSet /\ Away \in WatcherSet /\ NoLog \in [Iteration -> Int]
  BY <1>2, <1>3 DEF NoResult, Away, NoLog, ResultSet, WatcherSet, NoScore
<1>6. Down \in TrainerSet
  BY <1>1, <1>2 DEF Down, TrainerSet, NoScore
<1> QED BY <1>1, <1>3, <1>4, <1>5, <1>6

LEMMA ArgsType ==
    ASSUME args \in Runs
    PROVE  /\ args.iterations \in Nat /\ args.iterations <= MaxIterations
           /\ args.iterations \in Iteration /\ args.cap \in Nat
           /\ args.eval_every \in Nat \ {0} /\ args.save_freq \in Nat \ {0}
           /\ args.async_val \in BOOLEAN /\ args.gate \in BOOLEAN
           /\ WarmIters \in Nat /\ Streak \in Nat \ {0} /\ LrWarmup \in Nat
  BY TrainAssumption DEF Iteration

LEMMA LrType ==
    ASSUME NEW n \in Int, NEW end \in Int
    PROVE  LrFactor(n, end) \in Int
<1> DEFINE since == n - (IF end = 0 THEN WarmIters ELSE end)
<1>1. since \in Int /\ LrWarmup \in Int
  BY TrainAssumption
<1>2. LrFactor(n, end) = IF since < 0 THEN -1 ELSE Min({since, LrWarmup})
  BY DEF LrFactor
<1> HIDE DEF since
<1> QED BY <1>1, <1>2, MinTwo

LEMMA GateType ==
    ASSUME NEW g \in Gate, NEW i \in Nat, NEW warm \in BOOLEAN, NEW ev \in BOOLEAN
    PROVE  NoteEv(g, i, warm, ev) \in Gate
<1> DEFINE evs == Append(g.evs, ev)
           passed == /\ args.gate /\ i >= WarmIters /\ Len(evs) >= Streak
                     /\ \A k \in Len(evs) - Streak + 1..Len(evs) : evs[k]
           ends == passed \/ i >= args.cap \/ (~args.gate /\ i >= WarmIters)
<1>1. evs \in Seq(BOOLEAN) /\ g.end \in Nat /\ g.passed \in BOOLEAN
  BY DEF Gate
<1>2. NoteEv(g, i, warm, ev) =
        IF warm
        THEN [evs |-> evs, passed |-> g.passed \/ passed,
              end |-> IF ends /\ g.end = 0 THEN i ELSE g.end]
        ELSE [g EXCEPT !.evs = evs]
  BY DEF NoteEv
<1> HIDE DEF evs, passed, ends
<1>3. (g.passed \/ passed) \in BOOLEAN /\ (IF ends /\ g.end = 0 THEN i ELSE g.end) \in Nat
  BY <1>1
<1> QED BY <1>1, <1>2, <1>3 DEF Gate

LEMMA CkptType ==
    ASSUME NEW t \in TrainerSet, NEW n \in Nat, NEW p \in History
    PROVE  /\ Ckpt(t, n, p) \in CkptSet /\ Ckpt(t, n, p) # NoCkpt
           /\ Ckpt(t, n, p).iteration = n /\ Ckpt(t, n, p).policy = p
           /\ Ckpt(t, n, p).sched = t.sched /\ Ckpt(t, n, p).score = t.best
           /\ Ckpt(t, n, p).gate.evs = KeptEvs(t.gate.evs)
           /\ Ckpt(t, n, p).gate.passed = t.gate.passed
           /\ Ckpt(t, n, p).gate.end = t.gate.end
<1> DEFINE g == [t.gate EXCEPT !.evs = KeptEvs(t.gate.evs)]
<1>1. Ckpt(t, n, p) = [iteration |-> n, policy |-> p, sched |-> t.sched, gate |-> g, score |-> t.best]
  BY DEF Ckpt
<1>2. t.gate \in Gate /\ t.gate.evs \in Seq(BOOLEAN) /\ t.sched \in Sched /\ t.best \in Nat
  BY DEF TrainerSet, Gate
<1>3. KeptEvs(t.gate.evs) \in Seq(BOOLEAN)
  BY <1>2, KeptEvsAre
<1>4. /\ g \in Gate /\ g.evs = KeptEvs(t.gate.evs) /\ g.passed = t.gate.passed
      /\ g.end = t.gate.end
  BY <1>2, <1>3 DEF Gate
<1> HIDE DEF g
<1>5. Ckpt(t, n, p) \in CkptSet
  BY <1>1, <1>2, <1>4 DEF CkptSet
<1>6. Ckpt(t, n, p) # NoCkpt
  BY <1>1 DEF NoCkpt
<1> QED BY <1>1, <1>4, <1>5, <1>6

LEMMA ResumedType ==
    ASSUME NEW c \in CkptSet, NEW score \in Nat
    PROVE  /\ Resumed(c, score) \in TrainerSet
           /\ Resumed(c, score).pc = "setup" /\ Resumed(c, score).iteration = c.iteration + 1
           /\ Resumed(c, score).policy = c.policy /\ Resumed(c, score).best = score
           /\ Resumed(c, score).sched = ResumedSched(c) /\ Resumed(c, score).gate = c.gate
           /\ Resumed(c, score).lr = ResumedLr(c) /\ Resumed(c, score).completed = FALSE
           /\ Resumed(c, score).queue = {}
<1> DEFINE s == ResumedSched(c)
           l == ResumedLr(c)
<1>1. s \in Sched
  BY FreshType DEF ResumedSched, Loaded, CkptSet
<1>2. l \in Int
  <2>1. c.iteration \in Int /\ c.gate.end \in Int
    BY DEF CkptSet, Gate
  <2> QED BY <2>1, LrType DEF ResumedLr
<1> HIDE DEF s, l
<1>3. Resumed(c, score) =
        [pc |-> "setup", iteration |-> c.iteration + 1, policy |-> c.policy, sched |-> s,
         gate |-> c.gate, lr |-> l, best |-> score, queue |-> {}, completed |-> FALSE]
  BY DEF Resumed, s, l
<1>4. c.iteration + 1 \in Nat /\ c.policy \in History /\ c.gate \in Gate
  BY DEF CkptSet
<1>5. Resumed(c, score) \in TrainerSet
  BY <1>1, <1>2, <1>3, <1>4 DEF TrainerSet
<1> QED BY <1>3, <1>5 DEF s, l

\* The trainer's step of an iteration.
NewStep(ev) ==
    [boards |-> Selected.boards, warm |-> InCriticWarmup(trainer.gate, trainer.iteration),
     lr |-> trainer.lr, ev |-> ev]

LEMMA FileType ==
    ASSUME TypeOK, NEW src \in Sources
    PROVE  File(src) \in CkptSet
<1>1. src.kind \in {"last", "best", "final"} \/ (src.kind = "iter" /\ src.n \in Iteration)
  BY DEF Sources
<1> QED BY <1>1 DEF File, TypeOK

LEMMA ScoreType ==
    ASSUME NEW c \in CkptSet, NEW b \in CkptSet
    PROVE  /\ ScoreToBeat(c, b) = IF c.score >= b.score THEN c.score ELSE b.score
           /\ ScoreToBeat(c, b) \in Nat
  BY MaxTwo DEF ScoreToBeat, CkptSet

\* HandleVal leaves a trainer and a best checkpoint of the right types.
LEMMA HandleValIs ==
    ASSUME TypeOK, NEW n \in Nat, NEW score \in Int, NEW p \in History,
           NEW pc \in {"next", "consume"}, HandleVal(n, score, p, pc)
    PROVE  /\ trainer' \in TrainerSet /\ best' \in CkptSet
           /\ trainer'.pc = pc /\ trainer'.iteration = trainer.iteration
           /\ trainer'.policy = trainer.policy /\ trainer'.sched = trainer.sched
           /\ trainer'.gate = trainer.gate /\ trainer'.lr = trainer.lr
           /\ trainer'.queue = trainer.queue /\ trainer'.completed = trainer.completed
           /\ \/ /\ score > trainer.best /\ trainer'.best = score /\ best' # NoCkpt
                 /\ best'.iteration = n /\ best'.policy = p /\ best'.score = score
              \/ score <= trainer.best /\ trainer'.best = trainer.best /\ best' = best
<1>0. trainer \in TrainerSet /\ best \in CkptSet /\ trainer.best \in Nat
  BY DEF TypeOK, TrainerSet
<1>1. CASE Improves(score)
  <2>1. score \in Nat /\ score > trainer.best
    BY <1>0, <1>1 DEF Improves
  <2> DEFINE t == [trainer EXCEPT !.best = score]
  <2>2. t \in TrainerSet /\ t.best = score /\ [trainer EXCEPT !.best = score, !.pc = pc] \in TrainerSet
    BY <1>0, <2>1 DEF TrainerSet, InLoop
  <2>3. best' = Ckpt(t, n, p) /\ trainer' = [trainer EXCEPT !.best = score, !.pc = pc]
    BY <1>1 DEF HandleVal
  <2>4. /\ best' \in CkptSet /\ best' # NoCkpt /\ best'.iteration = n /\ best'.policy = p
        /\ best'.score = score
    <3> HIDE DEF t
    <3> QED BY <2>2, <2>3, CkptType
  <2>5. /\ trainer'.pc = pc /\ trainer'.iteration = trainer.iteration
        /\ trainer'.policy = trainer.policy /\ trainer'.sched = trainer.sched
        /\ trainer'.gate = trainer.gate /\ trainer'.lr = trainer.lr /\ trainer'.best = score
        /\ trainer'.queue = trainer.queue /\ trainer'.completed = trainer.completed
    BY <1>0, <2>3 DEF TrainerSet
  <2> QED BY <2>1, <2>2, <2>3, <2>4, <2>5
<1>2. CASE ~Improves(score)
  <2>1. trainer' = [trainer EXCEPT !.pc = pc] /\ best' = best /\ score <= trainer.best
    BY <1>0, <1>2 DEF HandleVal, Improves
  <2>2. trainer' \in TrainerSet /\ trainer'.best = trainer.best
    BY <1>0, <2>1 DEF TrainerSet, InLoop
  <2>3. /\ trainer'.pc = pc /\ trainer'.iteration = trainer.iteration
        /\ trainer'.policy = trainer.policy /\ trainer'.sched = trainer.sched
        /\ trainer'.gate = trainer.gate /\ trainer'.lr = trainer.lr
        /\ trainer'.queue = trainer.queue /\ trainer'.completed = trainer.completed
    BY <1>0, <2>1 DEF TrainerSet
  <2> QED BY <1>0, <2>1, <2>2, <2>3
<1> QED BY <1>1, <1>2

-----------------------------------------------------------------------------
(* Type correctness.                                                       *)


\* What the trainer consumes next.
LEMMA PolledIs ==
    ASSUME TypeOK, QueueInv, trainer.pc \in Consuming
    PROVE  /\ Polled \in trainer.queue /\ \A k \in trainer.queue : Polled <= k
           /\ Polled \in Iteration /\ Polled \in Nat /\ results[Polled].state = "json"
           /\ results[Polled] \in ResultSet /\ ckpts[Polled] \in CkptSet
<1>1. trainer.queue \subseteq Nat /\ trainer.queue \subseteq Iteration /\ trainer.queue # {}
  BY FreshType DEF TypeOK, TrainerSet, QueueInv
<1>2. Polled \in trainer.queue /\ \A k \in trainer.queue : Polled <= k
  BY <1>1, MinIsIn DEF Polled
<1> QED BY <1>1, <1>2 DEF QueueInv, TypeOK

LEMMA PendingIs ==
    ASSUME TypeOK, PendingEvals # {}
    PROVE  Min(PendingEvals) \in PendingEvals /\ Min(PendingEvals) \in Iteration
<1>1. PendingEvals \subseteq Nat /\ PendingEvals \subseteq Iteration
  BY FreshType DEF PendingEvals
<1> QED BY <1>1, MinIsIn

LEMMA TypeInit ==
    ASSUME Init
    PROVE  TypeOK
  BY FreshType DEF Init, TypeOK

LEMMA TypeNext ==
    ASSUME TypeOK, ControlInv, QueueInv, [Next]_vars
    PROVE  TypeOK'
<1>0. /\ args \in Runs /\ ckpts \in [Iteration -> CkptSet]
      /\ last \in CkptSet /\ best \in CkptSet /\ final \in CkptSet
      /\ results \in [Iteration -> ResultSet] /\ trainDone \in BOOLEAN
      /\ trainer \in TrainerSet /\ watcher \in WatcherSet /\ log \in [Iteration -> Int]
  BY DEF TypeOK
<1>1. CASE Start
  <2>1. LrFactor(0, 0) \in Int
    BY LrType
  <2>2. trainer' \in TrainerSet
    BY <1>1, <2>1, FreshType DEF Start, TrainerSet
  <2> QED BY <1>0, <1>1, <2>2 DEF Start, dir, TypeOK
<1>2. ASSUME NEW src \in Sources, Resume(src)
      PROVE  TypeOK'
  <2>1. trainer' \in TrainerSet
    BY <1>0, <1>2, FileType, ScoreType, ResumedType DEF Resume
  <2> QED BY <1>0, <1>2, <2>1 DEF Resume, dir, TypeOK
<1>3. ASSUME NEW src \in Sources, Fork(src)
      PROVE  TypeOK'
  <2>1. trainer' \in TrainerSet
    <3>1. File(src) \in CkptSet /\ ScoreToBeat(File(src), best) \in Nat /\ NoScore \in Nat
      BY <1>0, FileType, ScoreType DEF NoScore
    <3>2. trainer' = Resumed(File(src), IF best # NoCkpt /\ best.iteration > File(src).iteration
                                        THEN NoScore ELSE ScoreToBeat(File(src), best))
      BY <1>3 DEF Fork
    <3> QED BY <3>1, <3>2, ResumedType
  <2> QED BY <1>0, <1>3, <2>1, FreshType DEF Fork, TypeOK
<1>4. CASE SetupEvaluator
  BY <1>0, <1>4 DEF SetupEvaluator, StaleMarker, TypeOK, TrainerSet, InLoop
<1>5. CASE SaveInitial
  <2>1. Ckpt(trainer, 0, trainer.policy) \in CkptSet
    BY <1>0, CkptType DEF TrainerSet
  <2>2. trainer' \in TrainerSet
    BY <1>0, <1>5 DEF SaveInitial, TrainerSet, InLoop
  <2> QED BY <1>0, <1>5, <2>1, <2>2 DEF SaveInitial, TypeOK
<1>6. ASSUME NEW ev \in BOOLEAN, Train(ev)
      PROVE  TypeOK'
  <2> DEFINE i == trainer.iteration
             warm == InCriticWarmup(trainer.gate, i)
             gate == NoteEv(trainer.gate, i, warm, ev)
             lr == LrFactor(i, gate.end)
             step == NewStep(ev)
  <2>1. i \in Nat /\ warm \in BOOLEAN /\ trainer.gate \in Gate /\ trainer.policy \in Seq(Step)
    BY <1>0 DEF TrainerSet, InCriticWarmup, History
  <2>2. gate \in Gate
    <3> HIDE DEF i, warm
    <3> QED BY <2>1, GateType
  <2>3. lr \in Int
    <3>1. gate.end \in Int /\ i \in Int
      BY <2>1, <2>2 DEF Gate
    <3> HIDE DEF i, gate
    <3> QED BY <3>1, LrType
  <2>4. Selected.sched \in Sched /\ step \in Step
    BY <1>0, <2>1, SelectedIs DEF NewStep, Step, TrainerSet
  <2>5. trainer' = [trainer EXCEPT !.pc = "save", !.policy = Append(@, step),
                                   !.sched = Selected.sched, !.gate = gate, !.lr = lr]
    BY <1>6 DEF Train, NewStep
  <2> HIDE DEF gate, lr, step
  <2>6. Append(trainer.policy, step) \in History
    BY <2>1, <2>4 DEF History
  <2>7. trainer' \in TrainerSet
    BY <1>0, <2>2, <2>3, <2>4, <2>5, <2>6 DEF TrainerSet, InLoop
  <2> QED BY <1>0, <1>6, <2>7 DEF Train, dir, TypeOK
<1>7. CASE SaveLast
  <2>1. Ckpt(trainer, trainer.iteration, trainer.policy) \in CkptSet
    BY <1>0, CkptType DEF TrainerSet
  <2>2. trainer' \in TrainerSet
    BY <1>0, <1>7 DEF SaveLast, AfterSave, TrainerSet, InLoop
  <2> QED BY <1>0, <1>7, <2>1, <2>2 DEF SaveLast, TypeOK
<1>8. CASE SavePeriodic
  <2>1. Ckpt(trainer, trainer.iteration, trainer.policy) \in CkptSet
    BY <1>0, CkptType DEF TrainerSet
  <2>2. trainer' \in TrainerSet
    BY <1>0, <1>8 DEF SavePeriodic, AfterSave, TrainerSet, InLoop
  <2> QED BY <1>0, <1>8, <2>1, <2>2 DEF SavePeriodic, TypeOK
<1>9. ASSUME NEW score \in Scores \cup {NoScore}, Validate(score)
      PROVE  TypeOK'
  <2>1. score \in Int
    BY TrainAssumption DEF NoScore
  <2> QED BY <1>0, <1>9, <2>1 DEF Validate, dir, TypeOK, TrainerSet, InLoop
<1>10. CASE OnValidation
  <2>1. trainer.iteration \in Iteration /\ trainer.iteration \in Nat /\ trainer.policy \in History
    <3>1. trainer.pc = "selectInline" /\ ~trainer.completed /\ trainer.iteration \in 1..args.iterations
      BY <1>10 DEF OnValidation, ControlInv, Trained, InLoop
    <3> QED BY <1>0, <3>1, ArgsType, TrainAssumption DEF TrainerSet, Iteration
  <2>2. log[trainer.iteration] \in Int
    BY <1>0, <2>1
  <2>3. trainer' \in TrainerSet /\ best' \in CkptSet
    BY <1>10, <2>1, <2>2, HandleValIs DEF OnValidation
  <2> QED BY <1>0, <1>10, <2>3 DEF OnValidation, TypeOK
<1>11. CASE NextIteration
  <2>1. trainer.iteration + 1 \in Nat
    BY <1>0 DEF TrainerSet
  <2>2. trainer' \in TrainerSet
    BY <1>0, <1>11, <2>1 DEF NextIteration, TrainerSet, InLoop
  <2> QED BY <1>0, <1>11, <2>2 DEF NextIteration, dir, TypeOK
<1>12. CASE FitCompleted
  BY <1>0, <1>12 DEF FitCompleted, dir, TypeOK, TrainerSet, InLoop
<1>13. CASE PollResults
  BY <1>0, <1>13 DEF PollResults, AfterPoll, dir, TypeOK, TrainerSet, InLoop
<1>14. CASE LogResult
  <2>1. results[Polled].score \in Int
    BY <1>14, PolledIs DEF LogResult, Consuming, ResultSet
  <2> QED BY <1>0, <1>14, <2>1 DEF LogResult, dir, TypeOK, TrainerSet, InLoop
<1>15. CASE SelectBest
  <2>1. /\ Polled \in Nat /\ results[Polled].score \in Int /\ StateFn(Polled) \in History
    BY <1>15, PolledIs DEF SelectBest, Consuming, ResultSet, CkptSet, StateFn
  <2>2. trainer' \in TrainerSet /\ best' \in CkptSet
    BY <1>15, <2>1, HandleValIs DEF SelectBest
  <2> QED BY <1>0, <1>15, <2>2 DEF SelectBest, TypeOK
<1>16. CASE ConsumeResult
  <2>1. trainer' \in TrainerSet
    BY <1>0, <1>16 DEF ConsumeResult, AfterPoll, TrainerSet, InLoop
  <2>2. results' \in [Iteration -> ResultSet]
    BY <1>0, <1>16 DEF ConsumeResult, ResultSet
  <2> QED BY <1>0, <1>16, <2>1, <2>2 DEF ConsumeResult, TypeOK
<1>17. CASE Finish
  <2>1. trainDone' \in BOOLEAN
    BY <1>17 DEF Finish
  <2> QED BY <1>0, <1>17, <2>1 DEF Finish, TypeOK, TrainerSet, InLoop
<1>18. CASE Drain \/ DrainTimeout
  BY <1>0, <1>18 DEF Drain, DrainTimeout, dir, TypeOK, TrainerSet, InLoop
<1>19. CASE SaveFinal
  <2>1. Ckpt(trainer, args.iterations, trainer.policy) \in CkptSet
    BY <1>0, CkptType, ArgsType DEF TrainerSet
  <2> QED BY <1>0, <1>19, <2>1, FreshType DEF SaveFinal, TypeOK
<1>20. CASE Abort
  <2>1. Selected.sched \in Sched
    BY <1>0, SelectedIs DEF TrainerSet
  <2> QED BY <1>0, <1>20, <2>1 DEF Abort, dir, TypeOK, TrainerSet, InLoop
<1>21. CASE Crash
  BY <1>0, <1>21, FreshType DEF Crash, dir, TypeOK
<1>22. CASE StartWatcher
  BY <1>0, <1>22, FreshType DEF StartWatcher, dir, TypeOK, Away, WatcherSet
<1>23. CASE Discover
  <2>1. CASE PendingEvals = {}
    BY <1>0, <1>23, <2>1 DEF Discover, dir, TypeOK, WatcherSet
  <2>2. CASE PendingEvals # {}
    <3>1. ckpts[Min(PendingEvals)].policy \in History /\ Min(PendingEvals) \in Iteration
      BY <1>0, <2>2, PendingIs DEF CkptSet
    <3> QED BY <1>0, <1>23, <2>2, <3>1 DEF Discover, dir, TypeOK, WatcherSet
  <2> QED BY <2>1, <2>2
<1>24. CASE CheckDone
  BY <1>0, <1>24, FreshType DEF CheckDone, dir, TypeOK, WatcherSet
<1>25. CASE PublishResult
  BY <1>0, <1>25, FreshType DEF PublishResult, TypeOK, WatcherSet, ResultSet, Away
<1>26. ASSUME NEW score \in Scores \cup {NoScore}, WriteResult(score)
       PROVE  TypeOK'
  <2>1. score \in Nat
    BY TrainAssumption DEF NoScore
  <2> QED BY <1>0, <1>26, <2>1 DEF WriteResult, TypeOK, WatcherSet, ResultSet
<1>27. CASE WatcherDies
  BY <1>0, <1>27, FreshType DEF WatcherDies, dir, TypeOK
<1>28. CASE UNCHANGED vars
  BY <1>0, <1>28 DEF vars, dir, TypeOK
<1> QED BY <1>1, <1>2, <1>3, <1>4, <1>5, <1>6, <1>7, <1>8, <1>9, <1>10, <1>11, <1>12, <1>13, <1>14,
           <1>15, <1>16, <1>17, <1>18, <1>19, <1>20, <1>21, <1>22, <1>23, <1>24, <1>25, <1>26,
           <1>27, <1>28 DEF Next, Launch, Trainer, Watcher

-----------------------------------------------------------------------------
(* What a step leaves alone.                                               *)

\* The steps of the watcher, and its start and end.
WatcherStep ==
    \/ StartWatcher \/ Discover \/ CheckDone \/ PublishResult \/ WatcherDies
    \/ \E score \in Scores \cup {NoScore} : WriteResult(score)

LEMMA WatcherFrame ==
    ASSUME WatcherStep
    PROVE  UNCHANGED <<args, ckpts, last, best, final, trainDone, trainer, log>>
  BY DEF WatcherStep, StartWatcher, Discover, CheckDone, PublishResult, WatcherDies,
         WriteResult, dir

\* The steps of the trainer that write no file and no result.
QuietStep ==
    \/ Start \/ (\E src \in Sources : Resume(src)) \/ (\E ev \in BOOLEAN : Train(ev))
    \/ NextIteration \/ FitCompleted \/ PollResults \/ Drain \/ DrainTimeout \/ Abort \/ Crash

LEMMA QuietFrame ==
    ASSUME QuietStep
    PROVE  UNCHANGED <<args, ckpts, last, best, final, results, trainDone, watcher, log>>
  BY DEF QuietStep, Start, Resume, Train, NextIteration, FitCompleted, PollResults, Drain,
         DrainTimeout, Abort, Crash, dir

LEMMA ArgsStay ==
    ASSUME [Next]_vars
    PROVE  args' = args
<1>1. CASE WatcherStep
  BY <1>1, WatcherFrame
<1>2. CASE QuietStep
  BY <1>2, QuietFrame
<1>3. CASE ~WatcherStep /\ ~QuietStep
  BY <1>3 DEF Next, Launch, Trainer, Watcher, WatcherStep, QuietStep, Fork, SetupEvaluator,
              SaveInitial, SaveLast, SavePeriodic, Validate, OnValidation, LogResult, SelectBest,
              ConsumeResult, Finish, SaveFinal, vars
<1> QED BY <1>1, <1>2, <1>3

(* What may be resumed from: no earlier than the initial policy, no later  *)
(* than the last iteration.                                                *)
LEMMA FileIs ==
    ASSUME TypeOK, FileInv, NEW src \in Sources, File(src) # NoCkpt
    PROVE  /\ File(src) \in CkptSet /\ File(src).iteration \in 0..args.iterations
           /\ File(src).iteration = 0 => File(src).policy = <<>>
           /\ src.kind = "iter" => src.n \in Iteration /\ File(src) = ckpts[src.n]
           /\ src.kind = "last" => File(src) = last
<1>0. args.iterations \in Nat
  BY ArgsType DEF TypeOK
<1>1. CASE src.kind = "iter"
  <2>1. src.n \in Iteration /\ File(src) = ckpts[src.n] /\ src.n \in Nat
    BY <1>1, FreshType DEF Sources, File
  <2> QED BY <1>0, <1>1, <2>1, FileType DEF FileInv
<1>2. CASE src.kind = "last"
  BY <1>0, <1>2, FileType DEF File, FileInv
<1>3. CASE src.kind = "best"
  BY <1>0, <1>3, FileType DEF File, FileInv
<1>4. CASE src.kind = "final"
  BY <1>0, <1>4, FileType DEF File, FileInv
<1> QED BY <1>1, <1>2, <1>3, <1>4 DEF Sources

\* What a resume, in the same directory or a new one, leaves of the trainer.
LEMMA ResumeIs ==
    ASSUME TypeOK, FileInv, NEW src \in Sources, Resume(src) \/ Fork(src)
    PROVE  LET c == File(src) IN
           /\ c # NoCkpt /\ trainer.pc = "down" /\ trainer' \in TrainerSet
           /\ trainer'.pc = "setup" /\ trainer'.iteration = c.iteration + 1
           /\ trainer'.policy = c.policy /\ trainer'.sched = ResumedSched(c)
           /\ trainer'.gate = c.gate /\ trainer'.lr = ResumedLr(c)
           /\ trainer'.completed = FALSE /\ trainer'.queue = {}
<1> DEFINE c == File(src)
<1>1. c # NoCkpt /\ c \in CkptSet /\ trainer.pc = "down" /\ best \in CkptSet
  BY FileType DEF Resume, Fork, Resumable, Launching, TypeOK
<1>2. PICK score \in Nat : trainer' = Resumed(c, score)
  <2>1. ScoreToBeat(c, best) \in Nat /\ NoScore \in Nat
    BY <1>1, ScoreType DEF NoScore
  <2> HIDE DEF c
  <2> QED BY <2>1 DEF Resume, Fork, c
<1> HIDE DEF c
<1> QED BY <1>1, <1>2, ResumedType DEF c

-----------------------------------------------------------------------------
(* Control.                                                                *)

LEMMA ControlNext ==
    ASSUME TypeOK, DirInv, [Next]_vars
    PROVE  ControlInv'
<1>0. /\ args' = args /\ args.iterations \in Nat /\ trainer \in TrainerSet /\ trainer.iteration \in Nat
      /\ ControlInv /\ FileInv /\ QueueInv
  BY ArgsStay, ArgsType DEF TypeOK, TrainerSet, DirInv
<1> USE DEF Unsaved, Trained, Consuming, InLoop, Up
<1>1. CASE WatcherStep \/ UNCHANGED vars
  <2>1. UNCHANGED <<args, last, trainer>>
    BY <1>1, WatcherFrame DEF vars, dir
  <2> QED BY <1>0, <2>1 DEF ControlInv
<1>2. CASE Start
  BY <1>0, <1>2 DEF Start, Down, ControlInv
<1>3. ASSUME NEW src \in Sources, Resume(src) \/ Fork(src)
      PROVE  ControlInv'
  <2> DEFINE c == File(src)
  <2>1. c # NoCkpt /\ trainer'.pc = "setup" /\ trainer'.iteration = c.iteration + 1
        /\ trainer'.policy = c.policy /\ trainer'.completed = FALSE
    BY <1>0, <1>3, ResumeIs
  <2>2. c.iteration \in 0..args.iterations /\ (c.iteration = 0 => c.policy = <<>>)
    BY <1>0, <2>1, FileIs
  <2> HIDE DEF c
  <2> QED BY <1>0, <2>1, <2>2 DEF ControlInv
<1>4. CASE SetupEvaluator
  BY <1>0, <1>4 DEF SetupEvaluator, TrainerSet, ControlInv
<1>5. CASE SaveInitial
  BY <1>0, <1>5 DEF SaveInitial, TrainerSet, ControlInv
<1>6. ASSUME NEW ev \in BOOLEAN, Train(ev)
      PROVE  ControlInv'
  <2>1. /\ trainer.pc = "train" /\ trainer.iteration <= args.iterations
        /\ trainer'.pc = "save" /\ trainer'.iteration = trainer.iteration
        /\ trainer'.completed = trainer.completed
    BY <1>0, <1>6 DEF Train, TrainerSet
  <2> QED BY <1>0, <2>1 DEF ControlInv
<1>7. CASE SaveLast
  <2>1. last'.iteration = trainer.iteration
    BY <1>0, <1>7, CkptType DEF SaveLast, TrainerSet
  <2>2. /\ trainer.pc = "save" /\ trainer'.pc \in {"periodic", AfterSave}
        /\ trainer'.iteration = trainer.iteration /\ trainer'.policy = trainer.policy
        /\ trainer'.completed = trainer.completed
    BY <1>0, <1>7 DEF SaveLast, TrainerSet
  <2> QED BY <1>0, <2>1, <2>2 DEF AfterSave, ControlInv
<1>8. CASE SavePeriodic
  <2>2. /\ trainer.pc = "periodic" /\ trainer'.pc = AfterSave
        /\ trainer'.iteration = trainer.iteration /\ trainer'.policy = trainer.policy
        /\ trainer'.completed = trainer.completed /\ last' = last
    BY <1>0, <1>8 DEF SavePeriodic, TrainerSet
  <2> QED BY <1>0, <2>2 DEF AfterSave, ControlInv
<1>9. ASSUME NEW score \in Scores \cup {NoScore}, Validate(score)
      PROVE  ControlInv'
  BY <1>0, <1>9 DEF Validate, dir, TrainerSet, ControlInv
<1>10. CASE OnValidation
  <2>1. log[trainer.iteration] \in Int /\ trainer.policy \in History
    <3>1. trainer.pc = "selectInline" /\ ~trainer.completed /\ trainer.iteration \in 1..args.iterations
      BY <1>0, <1>10 DEF OnValidation, ControlInv
    <3> QED BY <1>0, <3>1, ArgsType, TrainAssumption DEF TrainerSet, Iteration, TypeOK
  <2>2. /\ trainer.pc = "selectInline" /\ trainer'.pc = "next" /\ trainer'.iteration = trainer.iteration
        /\ trainer'.policy = trainer.policy /\ trainer'.completed = trainer.completed
    BY <1>0, <1>10, <2>1, HandleValIs DEF OnValidation
  <2> QED BY <1>0, <2>2 DEF ControlInv
<1>11. CASE NextIteration
  BY <1>0, <1>11 DEF NextIteration, TrainerSet, ControlInv
<1>12. CASE FitCompleted
  BY <1>0, <1>12 DEF FitCompleted, TrainerSet, ControlInv
<1>13. CASE PollResults
  <2>1. /\ trainer.pc = "poll" /\ trainer'.pc \in {"log", AfterPoll}
        /\ trainer'.iteration = trainer.iteration /\ trainer'.policy = trainer.policy
        /\ trainer'.completed = trainer.completed
    BY <1>0, <1>13 DEF PollResults, TrainerSet
  <2> QED BY <1>0, <2>1 DEF AfterPoll, ControlInv
<1>14. CASE LogResult
  BY <1>0, <1>14 DEF LogResult, TrainerSet, ControlInv
<1>15. CASE SelectBest
  <2>1. /\ Polled \in Nat /\ results[Polled].score \in Int /\ StateFn(Polled) \in History
    BY <1>0, <1>15, PolledIs DEF SelectBest, ResultSet, CkptSet, StateFn
  <2>2. /\ trainer.pc = "select" /\ trainer'.pc = "consume" /\ trainer'.iteration = trainer.iteration
        /\ trainer'.policy = trainer.policy /\ trainer'.completed = trainer.completed
    BY <1>0, <1>15, <2>1, HandleValIs DEF SelectBest
  <2> QED BY <1>0, <2>2 DEF ControlInv
<1>16. CASE ConsumeResult
  <2>1. /\ trainer.pc = "consume" /\ trainer'.pc \in {"log", AfterPoll}
        /\ trainer'.iteration = trainer.iteration /\ trainer'.policy = trainer.policy
        /\ trainer'.completed = trainer.completed
    BY <1>0, <1>16 DEF ConsumeResult, TrainerSet
  <2> QED BY <1>0, <2>1 DEF AfterPoll, ControlInv
<1>17. CASE Finish
  BY <1>0, <1>17 DEF Finish, TrainerSet, ControlInv
<1>18. CASE Drain \/ DrainTimeout
  BY <1>0, <1>18 DEF Drain, DrainTimeout, TrainerSet, ControlInv
<1>19. CASE SaveFinal \/ Crash
  BY <1>0, <1>19 DEF SaveFinal, Crash, Down, ControlInv
<1>20. CASE Abort
  <2>1. /\ trainer.pc \in InLoop /\ trainer'.pc = "finish" /\ trainer'.iteration = trainer.iteration
        /\ trainer'.policy = trainer.policy /\ trainer'.completed = trainer.completed
    BY <1>0, <1>20 DEF Abort, TrainerSet
  <2> QED BY <1>0, <2>1 DEF ControlInv
<1> QED BY <1>1, <1>2, <1>3, <1>4, <1>5, <1>6, <1>7, <1>8, <1>9, <1>10, <1>11, <1>12, <1>13, <1>14,
           <1>15, <1>16, <1>17, <1>18, <1>19, <1>20
        DEF Next, Launch, Trainer, Watcher, WatcherStep

LEMMA WatcherNext ==
    ASSUME TypeOK, DirInv, [Next]_vars
    PROVE  WatcherInv'
<1>0. args' = args /\ ControlInv /\ WatcherInv /\ results \in [Iteration -> ResultSet]
  BY ArgsStay DEF DirInv, TypeOK
<1>1. CASE WatcherStep
  <2>1. args.async_val
    BY <1>0, <1>1 DEF WatcherStep, StartWatcher, Discover, CheckDone, PublishResult, WatcherDies,
                      WriteResult, WatcherInv
  <2> QED BY <1>0, <2>1 DEF WatcherInv
<1>2. ASSUME NEW src \in Sources, Fork(src)
      PROVE  WatcherInv'
  BY <1>2 DEF Fork, Away, NoResult, WatcherInv
<1>3. CASE SetupEvaluator
  BY <1>0, <1>3 DEF SetupEvaluator, WatcherInv
<1>4. CASE Finish
  BY <1>0, <1>4 DEF Finish, WatcherInv
<1>5. CASE ConsumeResult
  <2>1. args.async_val
    BY <1>0, <1>5 DEF ConsumeResult, ControlInv, Consuming
  <2> QED BY <1>0, <2>1 DEF WatcherInv
<1>6. CASE UNCHANGED <<args, results, trainDone, watcher>>
  BY <1>0, <1>6 DEF WatcherInv
<1>7. CASE SaveInitial \/ SaveLast \/ SavePeriodic \/ OnValidation \/ LogResult \/ SelectBest
           \/ SaveFinal \/ \E score \in Scores \cup {NoScore} : Validate(score)
  <2>1. UNCHANGED <<args, results, trainDone, watcher>>
    BY <1>7 DEF SaveInitial, SaveLast, SavePeriodic, OnValidation, LogResult, SelectBest,
                SaveFinal, Validate, dir
  <2> QED BY <1>6, <2>1
<1> QED BY <1>1, <1>2, <1>3, <1>4, <1>5, <1>6, <1>7, QuietFrame
        DEF Next, Launch, Trainer, Watcher, WatcherStep, QuietStep, vars, dir

-----------------------------------------------------------------------------
(* The files.                                                              *)

\* No file is later than the trainer when only the trainer moves on.
LEMMA FileKept ==
    ASSUME TypeOK, FileInv, UNCHANGED <<args, ckpts, last, best, final>>,
           trainer'.iteration \in Nat,
           Unsaved' => \/ Unsaved /\ trainer'.iteration >= trainer.iteration
                       \/ Trained /\ trainer'.iteration > trainer.iteration,
           Trained' => (Unsaved \/ Trained) /\ trainer'.iteration >= trainer.iteration
    PROVE  FileInv'
<1>0. trainer.iteration \in Nat /\ best.iteration \in Int /\ Iteration \subseteq Nat
  BY FreshType DEF TypeOK, TrainerSet, CkptSet
<1>1. ASSUME NEW n \in Nat
      PROVE  /\ (Unsaved => n < trainer.iteration) /\ (Trained => n <= trainer.iteration)
                => (Unsaved' => n < trainer'.iteration) /\ (Trained' => n <= trainer'.iteration)
  <2> HIDE DEF Unsaved, Trained
  <2> QED BY <1>0
<1> HIDE DEF Unsaved, Trained
<1>2. UNCHANGED <<args, ckpts, last, best, final>> /\ FileInv
  OBVIOUS
<1>3. ASSUME NEW n \in Iteration, ckpts'[n] # NoCkpt
      PROVE  /\ ckpts'[n].iteration = n /\ n <= args'.iterations /\ (n > 0 => n <= last'.iteration)
             /\ n = 0 => ckpts'[n].policy = <<>>
             /\ Unsaved' => n < trainer'.iteration
             /\ Trained' => n <= trainer'.iteration
  BY <1>0, <1>1, <1>2, <1>3 DEF FileInv
<1>4. best' # NoCkpt =>
         /\ best'.iteration \in 1..args'.iterations
         /\ Unsaved' => best'.iteration < trainer'.iteration
         /\ Trained' => best'.iteration <= trainer'.iteration
         /\ \/ best'.iteration <= last'.iteration
            \/ last' = NoCkpt /\ \A n \in Iteration : ckpts'[n] = NoCkpt
  <2> SUFFICES ASSUME best # NoCkpt PROVE best.iteration \in Nat
    BY <1>1, <1>2 DEF FileInv
  <2> QED BY <1>0, <1>2 DEF FileInv
<1> QED BY <1>2, <1>3, <1>4 DEF FileInv

LEMMA FileNext ==
    ASSUME TypeOK, DirInv, [Next]_vars
    PROVE  FileInv'
<1>0. /\ args' = args /\ args.iterations \in Nat /\ args.iterations \in Iteration
      /\ trainer \in TrainerSet /\ trainer.iteration \in Nat
      /\ ckpts \in [Iteration -> CkptSet] /\ Iteration \subseteq Nat /\ 0 \in Iteration
      /\ best.iteration \in Int /\ last.iteration \in Int
      /\ ControlInv /\ FileInv /\ QueueInv /\ ResultOfItsCheckpoint
  BY ArgsStay, ArgsType, FreshType DEF TypeOK, TrainerSet, CkptSet, DirInv, ResultInv
<1>1. CASE WatcherStep \/ UNCHANGED vars
  <2>1. UNCHANGED <<args, ckpts, last, best, final, trainer>>
    BY <1>1, WatcherFrame DEF vars, dir
  <2> QED BY <1>0, <2>1 DEF FileInv, Unsaved, Trained
<1>2. CASE Start
  <2>1. last = NoCkpt /\ best = NoCkpt /\ trainer'.pc = "setup" /\ trainer'.iteration = 1
    BY <1>2 DEF Start, Down
  <2>2. UNCHANGED <<args, ckpts, last, best, final>>
    BY <1>2 DEF Start, dir
  <2>3. ASSUME NEW n \in Iteration, ckpts[n] # NoCkpt PROVE n = 0
    BY <1>0, <2>1, <2>3 DEF FileInv, NoCkpt
  <2>4. Unsaved' /\ ~Trained'
    BY <2>1 DEF Unsaved, Trained, InLoop
  <2> HIDE DEF Unsaved, Trained
  <2> QED BY <1>0, <2>1, <2>2, <2>3, <2>4 DEF FileInv
<1>3. ASSUME NEW src \in Sources, Resume(src)
      PROVE  FileInv'
  <2> DEFINE c == File(src)
  <2>1. c # NoCkpt /\ trainer'.pc = "setup" /\ trainer'.iteration = c.iteration + 1
    BY <1>0, <1>3, ResumeIs
  <2>2. /\ c \in CkptSet /\ c.iteration \in 0..args.iterations
        /\ (src.kind = "iter" => src.n \in Iteration /\ c = ckpts[src.n])
        /\ (src.kind = "last" => c = last)
    BY <1>0, <2>1, FileIs
  <2>3. /\ \A n \in Iteration : ckpts[n] # NoCkpt => ~(n > c.iteration)
        /\ src.kind # "last" => ~(last.iteration > c.iteration)
        /\ UNCHANGED <<args, ckpts, last, best, final>>
    BY <1>3 DEF Resume, Overwrites, dir
  <2>4. Unsaved' /\ ~Trained'
    BY <2>1 DEF Unsaved, Trained, InLoop
  <2>5. best # NoCkpt => best.iteration <= c.iteration
    <3> SUFFICES ASSUME best # NoCkpt PROVE best.iteration <= c.iteration
      OBVIOUS
    <3>1. CASE best.iteration <= last.iteration
      <4>1. last.iteration <= c.iteration
        BY <1>0, <2>2, <2>3
      <4> QED BY <1>0, <2>2, <3>1, <4>1
    <3>2. CASE last = NoCkpt /\ \A n \in Iteration : ckpts[n] = NoCkpt
      <4>1. CASE src.kind = "best"
        BY <1>0, <4>1 DEF File
      <4>2. CASE src.kind = "final"
        BY <1>0, <2>1, <4>2 DEF File, FileInv
      <4> QED BY <2>1, <2>2, <3>2, <4>1, <4>2 DEF Sources
    <3> QED BY <1>0, <3>1, <3>2 DEF FileInv
  <2> HIDE DEF c
  <2>6. \A n \in Iteration : ckpts[n] # NoCkpt => n < c.iteration + 1
    BY <1>0, <2>2, <2>3
  <2>7. best # NoCkpt => best.iteration < c.iteration + 1
    BY <1>0, <2>2, <2>5
  <2> QED BY <1>0, <2>1, <2>3, <2>4, <2>6, <2>7 DEF FileInv
<1>4. ASSUME NEW src \in Sources, Fork(src)
      PROVE  FileInv'
  <2> DEFINE c == File(src)
  <2>1. c # NoCkpt /\ trainer'.pc = "setup" /\ trainer'.iteration = c.iteration + 1
    BY <1>0, <1>4, ResumeIs
  <2>2. c.iteration \in Nat
    BY <1>0, <2>1, FileIs
  <2>3. /\ ckpts' = [n \in Iteration |-> NoCkpt] /\ last' = NoCkpt /\ final' = NoCkpt
        /\ best' # NoCkpt => best' = best /\ best.iteration <= c.iteration
    BY <1>4 DEF Fork
  <2>4. Unsaved' /\ ~Trained'
    BY <2>1 DEF Unsaved, Trained, InLoop
  <2> HIDE DEF c
  <2> QED BY <1>0, <2>1, <2>2, <2>3, <2>4 DEF FileInv
<1>5. CASE SetupEvaluator
  <2>1. /\ UNCHANGED <<args, ckpts, last, best, final>> /\ trainer'.iteration = trainer.iteration
        /\ Unsaved /\ ~Trained'
    BY <1>0, <1>5 DEF SetupEvaluator, Unsaved, Trained, InLoop, TrainerSet
  <2> QED BY <1>0, <2>1, FileKept
<1>6. CASE SaveInitial
  <2>1. /\ UNCHANGED <<args, last, best, final>> /\ trainer'.iteration = trainer.iteration
        /\ trainer.iteration = 1 /\ trainer.policy = <<>>
        /\ Unsaved /\ Unsaved' /\ ~Trained'
    BY <1>0, <1>6 DEF SaveInitial, Unsaved, Trained, InLoop, TrainerSet, ControlInv
  <2>2. ckpts'[0].iteration = 0 /\ ckpts'[0].policy = <<>>
    BY <1>0, <1>6, <2>1, CkptType DEF SaveInitial, TrainerSet
  <2>3. \A n \in Iteration : n # 0 => ckpts'[n] = ckpts[n]
    BY <1>0, <1>6 DEF SaveInitial
  <2> HIDE DEF Unsaved, Trained
  <2> QED BY <1>0, <2>1, <2>2, <2>3 DEF FileInv
<1>7. ASSUME NEW ev \in BOOLEAN, Train(ev)
      PROVE  FileInv'
  <2>1. /\ UNCHANGED <<args, ckpts, last, best, final>> /\ trainer'.iteration = trainer.iteration
        /\ Unsaved
    BY <1>0, <1>7 DEF Train, dir, Unsaved, TrainerSet
  <2> QED BY <1>0, <2>1, FileKept
<1>8. CASE SaveLast
  <2>1. /\ UNCHANGED <<args, ckpts, best, final>> /\ trainer'.iteration = trainer.iteration
        /\ Unsaved /\ trainer.iteration \in 1..args.iterations
    BY <1>0, <1>8 DEF SaveLast, Unsaved, Trained, InLoop, TrainerSet, ControlInv
  <2>2. last'.iteration = trainer.iteration
    BY <1>0, <1>8, CkptType DEF SaveLast, TrainerSet
  <2> HIDE DEF Unsaved, Trained
  <2> QED BY <1>0, <2>1, <2>2 DEF FileInv
<1>9. CASE SavePeriodic
  <2>1. /\ UNCHANGED <<args, last, best, final>> /\ trainer'.iteration = trainer.iteration
        /\ Unsaved /\ ~Unsaved' /\ trainer.iteration \in 1..args.iterations
        /\ last.iteration = trainer.iteration
    BY <1>0, <1>9 DEF SavePeriodic, AfterSave, Unsaved, Trained, InLoop, TrainerSet, ControlInv
  <2>2. trainer.iteration \in Iteration
    BY <2>1, ArgsType, TrainAssumption DEF TypeOK, Iteration
  <2>3. ckpts'[trainer.iteration].iteration = trainer.iteration
    BY <1>0, <1>9, <2>2, CkptType DEF SavePeriodic, TrainerSet
  <2>4. \A n \in Iteration : n # trainer.iteration => ckpts'[n] = ckpts[n]
    BY <1>0, <1>9 DEF SavePeriodic
  <2> HIDE DEF Unsaved, Trained
  <2> QED BY <1>0, <2>1, <2>3, <2>4 DEF FileInv
<1>10. ASSUME NEW score \in Scores \cup {NoScore}, Validate(score)
       PROVE  FileInv'
  <2>1. /\ UNCHANGED <<args, ckpts, last, best, final>> /\ trainer'.iteration = trainer.iteration
        /\ Trained /\ ~Unsaved'
    BY <1>0, <1>10 DEF Validate, dir, Unsaved, Trained, InLoop, TrainerSet, ControlInv
  <2> QED BY <1>0, <2>1, FileKept
<1>11. CASE OnValidation
  <2>1. /\ trainer.pc = "selectInline" /\ Trained /\ trainer.iteration \in 1..args.iterations
        /\ last.iteration = trainer.iteration /\ trainer.policy \in History
    BY <1>0, <1>11 DEF OnValidation, Trained, InLoop, ControlInv, TrainerSet
  <2>2. log[trainer.iteration] \in Int
    BY <1>0, <2>1, ArgsType, TrainAssumption DEF Iteration, TypeOK
  <2>3. /\ trainer'.pc = "next" /\ trainer'.iteration = trainer.iteration
        /\ best' # best => best'.iteration = trainer.iteration
    BY <1>0, <1>11, <2>1, <2>2, HandleValIs DEF OnValidation
  <2>4. UNCHANGED <<args, ckpts, last, final>> /\ ~Unsaved'
    BY <1>11, <2>3 DEF OnValidation, Unsaved
  <2> HIDE DEF Unsaved, Trained
  <2> QED BY <1>0, <2>1, <2>3, <2>4 DEF FileInv
<1>12. CASE NextIteration
  <2>1. /\ UNCHANGED <<args, ckpts, last, best, final>> /\ trainer'.iteration = trainer.iteration + 1
        /\ Trained /\ ~Trained'
    BY <1>0, <1>12 DEF NextIteration, dir, Unsaved, Trained, InLoop, TrainerSet, ControlInv
  <2> QED BY <1>0, <2>1, FileKept
<1>13. CASE FitCompleted \/ Drain \/ DrainTimeout \/ Finish \/ Abort
  <2>1. /\ UNCHANGED <<args, ckpts, last, best, final>> /\ trainer'.iteration = trainer.iteration
        /\ ~Unsaved' /\ ~Trained'
    <3>1. CASE FitCompleted
      BY <1>0, <3>1 DEF FitCompleted, dir, Unsaved, Trained, InLoop, TrainerSet
    <3>2. CASE Drain
      BY <1>0, <3>2 DEF Drain, dir, Unsaved, Trained, InLoop, TrainerSet, ControlInv
    <3>3. CASE DrainTimeout
      BY <1>0, <3>3 DEF DrainTimeout, dir, Unsaved, Trained, InLoop, TrainerSet
    <3>4. CASE Finish
      BY <1>0, <3>4 DEF Finish, dir, Unsaved, Trained, InLoop, TrainerSet
    <3>5. CASE Abort
      BY <1>0, <3>5 DEF Abort, dir, Unsaved, Trained, InLoop, TrainerSet
    <3> QED BY <1>13, <3>1, <3>2, <3>3, <3>4, <3>5
  <2> QED BY <1>0, <2>1, FileKept
<1>14. CASE PollResults \/ LogResult \/ ConsumeResult
  <2>1. /\ UNCHANGED <<args, ckpts, last, best, final>> /\ trainer'.iteration = trainer.iteration
        /\ ~Unsaved' /\ (Trained' => Trained)
    BY <1>0, <1>14 DEF PollResults, LogResult, ConsumeResult, AfterPoll, dir, Unsaved, Trained,
                       InLoop, TrainerSet
  <2> QED BY <1>0, <2>1, FileKept
<1>15. CASE SelectBest
  <2>1. /\ trainer.pc = "select" /\ trainer.pc \in Consuming /\ Polled > 0
        /\ ckpts[Polled] # NoCkpt /\ Polled \in Iteration /\ Polled \in Nat
        /\ results[Polled].score \in Int /\ StateFn(Polled) \in History
    BY <1>0, <1>15, PolledIs DEF SelectBest, Consuming, ResultSet, CkptSet, StateFn, QueueInv,
                                 ResultOfItsCheckpoint
  <2>2. /\ trainer'.pc = "consume" /\ trainer'.iteration = trainer.iteration
        /\ trainer'.completed = trainer.completed
        /\ best' # best => best'.iteration = Polled
    BY <1>0, <1>15, <2>1, HandleValIs DEF SelectBest
  <2>3. UNCHANGED <<args, ckpts, last, final>> /\ ~Unsaved' /\ (Trained' => Trained)
    BY <1>15, <2>1, <2>2 DEF SelectBest, Unsaved, Trained, InLoop
  <2>4. /\ Polled \in 1..args.iterations /\ Polled <= last.iteration
        /\ Trained => Polled <= trainer.iteration
    BY <1>0, <2>1 DEF FileInv
  <2> HIDE DEF Unsaved, Trained
  <2> QED BY <1>0, <2>2, <2>3, <2>4 DEF FileInv
<1>16. CASE SaveFinal
  <2>1. /\ final'.iteration = args.iterations /\ final'.policy = trainer.policy
    BY <1>0, <1>16, CkptType DEF SaveFinal, TrainerSet
  <2>2. /\ UNCHANGED <<args, ckpts, last, best>> /\ ~Unsaved' /\ ~Trained'
        /\ (args.iterations = 0 => trainer.policy = <<>>)
    BY <1>0, <1>16 DEF SaveFinal, Down, Unsaved, Trained, InLoop, ControlInv, Up
  <2> HIDE DEF Unsaved, Trained
  <2> QED BY <1>0, <2>1, <2>2 DEF FileInv
<1>17. CASE Crash
  <2>1. UNCHANGED <<args, ckpts, last, best, final>> /\ ~Unsaved' /\ ~Trained'
    BY <1>17 DEF Crash, dir, Down, Unsaved, Trained, InLoop
  <2> QED BY <1>0, <2>1 DEF FileInv
<1> QED BY <1>1, <1>2, <1>3, <1>4, <1>5, <1>6, <1>7, <1>8, <1>9, <1>10, <1>11, <1>12, <1>13, <1>14,
           <1>15, <1>16, <1>17
        DEF Next, Launch, Trainer, Watcher, WatcherStep

-----------------------------------------------------------------------------
(* The results.                                                            *)

\* The checkpoint the trainer writes is new, or the initial policy again.
LEMMA WrittenCkpt ==
    ASSUME TypeOK, ControlInv, FileInv, SaveInitial \/ SavePeriodic
    PROVE  \E n \in Iteration :
             /\ ckpts' = [ckpts EXCEPT ![n] = Ckpt(trainer, n, trainer.policy)]
             /\ ckpts'[n] # NoCkpt /\ ckpts'[n].policy = trainer.policy
             /\ ckpts'[n].score = trainer.best
             /\ ckpts[n] # NoCkpt => ckpts[n].policy = ckpts'[n].policy
             /\ \A k \in Iteration \ {n} : ckpts'[k] = ckpts[k]
             /\ best # NoCkpt => best.iteration # n
             /\ trainer.pc # "down"
<1>0. /\ trainer \in TrainerSet /\ trainer.iteration \in Nat /\ trainer.policy \in History
      /\ ckpts \in [Iteration -> CkptSet] /\ Iteration \subseteq Nat /\ 0 \in Iteration
      /\ best.iteration \in Int
  BY FreshType DEF TypeOK, TrainerSet, CkptSet
<1>1. CASE SaveInitial
  <2>1. /\ Ckpt(trainer, 0, trainer.policy) # NoCkpt
        /\ Ckpt(trainer, 0, trainer.policy).policy = trainer.policy
        /\ Ckpt(trainer, 0, trainer.policy).score = trainer.best
    BY <1>0, CkptType
  <2>2. ckpts' = [ckpts EXCEPT ![0] = Ckpt(trainer, 0, trainer.policy)] /\ trainer.policy = <<>>
        /\ trainer.pc = "save0"
    BY <1>0, <1>1 DEF SaveInitial, ControlInv
  <2>3. ckpts[0] # NoCkpt => ckpts[0].policy = <<>>
    BY <1>0 DEF FileInv
  <2>4. best # NoCkpt => best.iteration # 0
    BY <1>0 DEF FileInv
  <2> 0 \in Iteration
    BY <1>0
  <2> WITNESS 0 \in Iteration
  <2> QED BY <1>0, <2>1, <2>2, <2>3, <2>4
<1>2. CASE SavePeriodic
  <2> DEFINE n == trainer.iteration
  <2>1. /\ Ckpt(trainer, n, trainer.policy) # NoCkpt
        /\ Ckpt(trainer, n, trainer.policy).policy = trainer.policy
        /\ Ckpt(trainer, n, trainer.policy).score = trainer.best
    BY <1>0, CkptType
  <2>2. /\ ckpts' = [ckpts EXCEPT ![n] = Ckpt(trainer, n, trainer.policy)]
        /\ trainer.pc = "periodic" /\ Unsaved /\ n \in 1..args.iterations
    BY <1>0, <1>2 DEF SavePeriodic, ControlInv, Unsaved, Trained, InLoop
  <2>3. n \in Iteration
    BY <2>2, ArgsType, TrainAssumption DEF TypeOK, Iteration
  <2>4. ckpts[n] = NoCkpt /\ (best # NoCkpt => best.iteration # n)
    BY <1>0, <2>2, <2>3 DEF FileInv
  <2> n \in Iteration
    BY <2>3
  <2> HIDE DEF n
  <2> WITNESS n \in Iteration
  <2> QED BY <1>0, <2>1, <2>2, <2>3, <2>4
<1> QED BY <1>1, <1>2

LEMMA ResultNext ==
    ASSUME TypeOK, DirInv, [Next]_vars
    PROVE  ResultInv'
<1>0. /\ args' = args /\ trainer \in TrainerSet /\ watcher \in WatcherSet
      /\ ckpts \in [Iteration -> CkptSet] /\ results \in [Iteration -> ResultSet]
      /\ Iteration \subseteq Nat /\ 0 \in Iteration
      /\ ControlInv /\ FileInv /\ QueueInv /\ ResultInv
  BY ArgsStay, FreshType DEF TypeOK, DirInv
<1>1. ASSUME UNCHANGED <<ckpts, results, watcher>>
      PROVE  ResultInv'
  BY <1>0, <1>1 DEF ResultInv, ResultOfItsCheckpoint
<1>2. CASE StartWatcher \/ CheckDone \/ WatcherDies
  <2>1. UNCHANGED <<ckpts, results>> /\ watcher'.pc \notin {"eval", "rename"}
    BY <1>0, <1>2 DEF StartWatcher, CheckDone, WatcherDies, dir, Away, WatcherSet
  <2> QED BY <1>0, <2>1 DEF ResultInv, ResultOfItsCheckpoint
<1>3. CASE Discover
  <2>1. UNCHANGED <<ckpts, results>>
    BY <1>3 DEF Discover, dir
  <2>2. CASE PendingEvals = {}
    <3>1. watcher'.pc = "idle"
      BY <1>0, <1>3, <2>2 DEF Discover, WatcherSet
    <3> QED BY <1>0, <2>1, <3>1 DEF ResultInv, ResultOfItsCheckpoint
  <2>3. CASE PendingEvals # {}
    <3> DEFINE n == Min(PendingEvals)
    <3>1. n \in Iteration /\ ckpts[n] # NoCkpt /\ results[n].state = "absent"
      BY <2>3, PendingIs DEF PendingEvals, Evaluated, TypeOK
    <3>2. watcher'.pc = "eval" /\ watcher'.n = n /\ watcher'.policy = ckpts[n].policy
      BY <1>3, <2>3 DEF Discover
    <3> HIDE DEF n
    <3> QED BY <1>0, <2>1, <3>1, <3>2 DEF ResultInv, ResultOfItsCheckpoint
  <2> QED BY <2>2, <2>3
<1>4. ASSUME NEW score \in Scores \cup {NoScore}, WriteResult(score)
      PROVE  ResultInv'
  <2>1. /\ watcher.pc = "eval" /\ ckpts' = ckpts /\ watcher.n \in Iteration
        /\ watcher'.pc = "rename" /\ watcher'.n = watcher.n /\ watcher'.policy = watcher.policy
    BY <1>0, <1>4 DEF WriteResult, WatcherSet
  <2>2. /\ results'[watcher.n].state = "tmp" /\ results'[watcher.n].policy = watcher.policy
        /\ \A k \in Iteration : k # watcher.n => results'[k] = results[k]
    BY <1>0, <1>4, <2>1 DEF WriteResult
  <2> QED BY <1>0, <2>1, <2>2 DEF ResultInv, ResultOfItsCheckpoint
<1>5. CASE PublishResult
  <2>1. /\ watcher.pc = "rename" /\ ckpts' = ckpts /\ watcher.n \in Iteration
        /\ watcher'.pc = "poll"
    BY <1>0, <1>5 DEF PublishResult, WatcherSet, Away
  <2>2. /\ results'[watcher.n].state = "json" /\ results'[watcher.n].policy = results[watcher.n].policy
        /\ \A k \in Iteration : k # watcher.n => results'[k] = results[k]
    BY <1>0, <1>5, <2>1 DEF PublishResult, ResultSet
  <2> QED BY <1>0, <2>1, <2>2 DEF ResultInv, ResultOfItsCheckpoint
<1>6. ASSUME NEW src \in Sources, Fork(src)
      PROVE  ResultInv'
  BY <1>6 DEF Fork, Away, NoResult, ResultInv, ResultOfItsCheckpoint
<1>7. CASE SaveInitial \/ SavePeriodic
  <2>1. PICK n \in Iteration :
          /\ ckpts'[n] # NoCkpt
          /\ ckpts[n] # NoCkpt => ckpts[n].policy = ckpts'[n].policy
          /\ \A k \in Iteration \ {n} : ckpts'[k] = ckpts[k]
    BY <1>0, <1>7, WrittenCkpt, Zenon
  <2>2. \A k \in Iteration : ckpts[k] # NoCkpt => ckpts'[k] # NoCkpt /\ ckpts'[k].policy = ckpts[k].policy
    BY <2>1
  <2>3. UNCHANGED <<results, watcher>> /\ watcher.n \in Iteration
    BY <1>0, <1>7 DEF SaveInitial, SavePeriodic, WatcherSet
  <2> QED BY <1>0, <2>2, <2>3 DEF ResultInv, ResultOfItsCheckpoint
<1>8. CASE ConsumeResult
  <2>1. trainer.pc = "consume" /\ results[Polled].state = "json" /\ UNCHANGED <<ckpts, watcher>>
    BY <1>0, <1>8, PolledIs DEF ConsumeResult, Consuming
  <2>2. \A k \in Iteration :
          /\ results'[k].policy = results[k].policy
          /\ results'[k].state = IF k = Polled THEN "done" ELSE results[k].state
    BY <1>0, <1>8 DEF ConsumeResult, Consumed, ResultSet
  <2>3. watcher.n \in Iteration
    BY <1>0 DEF WatcherSet
  <2> QED BY <1>0, <2>1, <2>2, <2>3 DEF ResultInv, ResultOfItsCheckpoint
<1>9. CASE SaveLast \/ OnValidation \/ LogResult \/ SelectBest \/ SaveFinal \/ SetupEvaluator
           \/ Finish \/ \E score \in Scores \cup {NoScore} : Validate(score)
  <2>1. UNCHANGED <<ckpts, results, watcher>>
    BY <1>9 DEF SaveLast, OnValidation, LogResult, SelectBest, SaveFinal, SetupEvaluator, Finish,
                Validate, dir
  <2> QED BY <1>1, <2>1
<1> QED BY <1>1, <1>2, <1>3, <1>4, <1>5, <1>6, <1>7, <1>8, <1>9, QuietFrame
        DEF Next, Launch, Trainer, Watcher, QuietStep, vars, dir

-----------------------------------------------------------------------------
(* The scores.                                                             *)

(* A validation only replaces the best checkpoint by a better one.         *)
LEMMA BestRises ==
    ASSUME TypeOK, ControlInv, QueueInv, ScoreInv, OnValidation \/ SelectBest
    PROVE  best'.score \in Int /\ best'.score >= best.score /\ trainer'.best = best'.score
<1>0. /\ trainer.best \in Nat /\ best.score \in Nat /\ Up
      /\ trainer.policy \in History /\ trainer.iteration \in Nat
  BY DEF TypeOK, TrainerSet, CkptSet, OnValidation, SelectBest, Up
<1>1. \/ trainer'.best = trainer.best /\ best' = best
      \/ trainer'.best = best'.score /\ best'.score > trainer.best /\ best'.score \in Int
  <2>1. CASE OnValidation
    <3>1. trainer.pc = "selectInline" /\ trainer.iteration \in 1..args.iterations
      BY <2>1 DEF OnValidation, ControlInv, Trained, InLoop
    <3>2. log[trainer.iteration] \in Int
      BY <3>1, ArgsType, TrainAssumption DEF Iteration, TypeOK
    <3> QED BY <1>0, <2>1, <3>2, HandleValIs DEF OnValidation
  <2>2. CASE SelectBest
    <3>1. /\ Polled \in Nat /\ results[Polled].score \in Int /\ StateFn(Polled) \in History
      BY <2>2, PolledIs DEF SelectBest, Consuming, ResultSet, CkptSet, StateFn
    <3> QED BY <1>0, <2>2, <3>1, HandleValIs DEF SelectBest
  <2> QED BY <2>1, <2>2
<1> QED BY <1>0, <1>1 DEF ScoreInv

LEMMA ScoreNext ==
    ASSUME TypeOK, DirInv, [Next]_vars
    PROVE  ScoreInv'
<1>0. /\ trainer \in TrainerSet /\ ckpts \in [Iteration -> CkptSet] /\ results \in [Iteration -> ResultSet]
      /\ last \in CkptSet /\ best \in CkptSet /\ final \in CkptSet
      /\ trainer.best \in Nat /\ best.score \in Nat /\ last.score \in Nat /\ final.score \in Nat
      /\ (\A n \in Iteration : ckpts[n].score \in Nat) /\ NoCkpt.score = 0
      /\ trainer.policy \in History /\ trainer.iteration \in Nat
      /\ ControlInv /\ FileInv /\ QueueInv /\ ScoreInv
  BY DEF TypeOK, TrainerSet, CkptSet, DirInv, NoCkpt, NoScore
<1>1. ASSUME UNCHANGED <<ckpts, last, best, final>>, trainer'.best = trainer.best, Up' => Up
      PROVE  ScoreInv'
  BY <1>0, <1>1 DEF ScoreInv
<1>2. CASE WatcherStep \/ UNCHANGED vars
  BY <1>1, <1>2, WatcherFrame DEF vars, dir, Up
<1>3. CASE Start
  <2>1. best = NoCkpt /\ trainer'.best = 0 /\ UNCHANGED <<ckpts, last, best, final>>
    BY <1>3 DEF Start, dir, Down, NoScore
  <2> QED BY <1>0, <2>1 DEF ScoreInv
<1>4. ASSUME NEW src \in Sources, Resume(src) \/ Fork(src)
      PROVE  ScoreInv'
  <2> DEFINE c == File(src)
  <2>1. c \in CkptSet /\ c.score \in Nat /\ c.score <= best.score
    <3>1. c \in CkptSet /\ c # NoCkpt
      BY <1>0, <1>4, FileType, ResumeIs
    <3>2. c.score <= best.score
      BY <1>0 DEF File, ScoreInv, Sources
    <3> QED BY <3>1, <3>2 DEF CkptSet
  <2> HIDE DEF c
  <2>2. ScoreToBeat(c, best) = best.score
    BY <1>0, <2>1, ScoreType
  <2>3. CASE Resume(src)
    <3>1. trainer' = Resumed(c, best.score) /\ UNCHANGED <<ckpts, last, best, final>>
      BY <2>2, <2>3 DEF Resume, dir, c
    <3>2. trainer'.best = best.score
      <4>1. best.score \in Nat
        BY <1>0
      <4> QED BY <2>1, <3>1, <4>1, ResumedType
    <3> QED BY <1>0, <3>1, <3>2 DEF ScoreInv
  <2>4. CASE Fork(src)
    <3>1. /\ ckpts' = [n \in Iteration |-> NoCkpt] /\ last' = NoCkpt /\ final' = NoCkpt
          /\ \/ best' = best /\ trainer' = Resumed(c, best.score)
             \/ best' = NoCkpt /\ trainer' = Resumed(c, 0)
      <4>1. best.iteration \in Int /\ c.iteration \in Int
        BY <1>0, <2>1 DEF CkptSet
      <4> QED BY <2>2, <2>4, <4>1 DEF Fork, NoScore, c
    <3>2. trainer'.best = best'.score
      <4>1. best.score \in Nat /\ NoCkpt.score = 0
        BY <1>0
      <4>2. Resumed(c, best.score).best = best.score /\ Resumed(c, 0).best = 0
        BY DEF Resumed
      <4> QED BY <3>1, <4>1, <4>2
    <3> QED BY <1>0, <3>1, <3>2 DEF ScoreInv
  <2> QED BY <1>4, <2>3, <2>4
<1>5. CASE SaveInitial \/ SavePeriodic
  <2>1. PICK n \in Iteration :
          /\ ckpts'[n].score = trainer.best /\ trainer.pc # "down"
          /\ \A k \in Iteration \ {n} : ckpts'[k] = ckpts[k]
    BY <1>0, <1>5, WrittenCkpt, Zenon
  <2>2. trainer'.best = trainer.best /\ UNCHANGED <<last, best, final>>
    BY <1>0, <1>5 DEF SaveInitial, SavePeriodic, TrainerSet
  <2> QED BY <1>0, <2>1, <2>2 DEF ScoreInv, Up
<1>6. CASE SaveLast
  <2>1. last'.score = trainer.best
    BY <1>0, <1>6, CkptType DEF SaveLast
  <2>2. trainer'.best = trainer.best /\ UNCHANGED <<ckpts, best, final>> /\ Up
    BY <1>0, <1>6 DEF SaveLast, TrainerSet, Up
  <2> QED BY <1>0, <2>1, <2>2 DEF ScoreInv
<1>7. CASE SaveFinal
  <2>1. final'.score = trainer.best
    BY <1>0, <1>7, CkptType, ArgsType DEF SaveFinal, TypeOK
  <2>2. UNCHANGED <<ckpts, best, last>> /\ Up /\ ~Up'
    BY <1>0, <1>7 DEF SaveFinal, Down, Up
  <2> QED BY <1>0, <2>1, <2>2 DEF ScoreInv
<1>8. CASE OnValidation \/ SelectBest
  <2>1. /\ Up /\ UNCHANGED <<ckpts, last, final>>
    BY <1>8 DEF OnValidation, SelectBest, Up
  <2>3. best'.score \in Int /\ best'.score >= best.score /\ trainer'.best = best'.score
    BY <1>8, BestRises DEF DirInv
  <2>4. last.score <= best'.score /\ final.score <= best'.score
        /\ \A n \in Iteration : ckpts[n].score <= best'.score
    BY <1>0, <2>3 DEF ScoreInv
  <2> QED BY <1>0, <2>1, <2>3, <2>4 DEF ScoreInv
<1>9. CASE SetupEvaluator \/ Finish \/ ConsumeResult \/ LogResult
           \/ \E score \in Scores \cup {NoScore} : Validate(score)
  <2>1. UNCHANGED <<ckpts, last, best, final>> /\ trainer'.best = trainer.best /\ Up
    BY <1>0, <1>9 DEF SetupEvaluator, Finish, ConsumeResult, LogResult, Validate, dir, Up, TrainerSet
  <2> QED BY <1>1, <2>1
<1>10. CASE \/ NextIteration \/ FitCompleted \/ PollResults \/ Drain \/ DrainTimeout \/ Abort
            \/ \E ev \in BOOLEAN : Train(ev)
  <2>1. trainer'.best = trainer.best /\ Up
    BY <1>0, <1>10 DEF NextIteration, FitCompleted, PollResults, Drain, DrainTimeout, Abort, Train,
                       Up, TrainerSet, InLoop
  <2> QED BY <1>1, <1>10, <2>1, QuietFrame DEF QuietStep
<1>11. CASE Crash
  <2>1. ~Up' /\ UNCHANGED <<ckpts, last, best, final>>
    BY <1>11 DEF Crash, Down, Up, dir
  <2> QED BY <1>0, <2>1 DEF ScoreInv
<1> QED BY <1>2, <1>3, <1>4, <1>5, <1>6, <1>7, <1>8, <1>9, <1>10, <1>11
        DEF Next, Launch, Trainer, Watcher, WatcherStep

-----------------------------------------------------------------------------
(* What the trainer consumes.                                              *)

LEMMA QueueNext ==
    ASSUME TypeOK, DirInv, [Next]_vars
    PROVE  QueueInv'
<1>0. /\ trainer \in TrainerSet /\ watcher \in WatcherSet /\ trainer.queue \subseteq Iteration
      /\ log \in [Iteration -> Int] /\ results \in [Iteration -> ResultSet]
      /\ best.score \in Nat /\ trainer.best \in Nat
      /\ ControlInv /\ WatcherInv /\ FileInv /\ ResultInv /\ QueueInv /\ ScoreInv
      /\ \A n \in Iteration : results[n].score \in Nat /\ n \in Nat
  BY FreshType DEF TypeOK, TrainerSet, CkptSet, ResultSet, DirInv
<1>1. ASSUME UNCHANGED <<best, results, log>>, trainer'.pc \notin Consuming
      PROVE  QueueInv'
  BY <1>0, <1>1 DEF QueueInv, ConsumedCounts, Consuming
<1>2. CASE UNCHANGED <<best, results, log, trainer>>
  BY <1>0, <1>2 DEF QueueInv, ConsumedCounts, Polled
<1>3. CASE StartWatcher \/ Discover \/ CheckDone \/ WatcherDies
  BY <1>2, <1>3 DEF StartWatcher, Discover, CheckDone, WatcherDies, dir
<1>4. CASE PublishResult \/ \E score \in Scores \cup {NoScore} : WriteResult(score)
  <2>1. /\ UNCHANGED <<best, log, trainer>> /\ watcher.n \in Iteration
        /\ results[watcher.n].state \in {"absent", "tmp"}
        /\ results'[watcher.n].state \in {"tmp", "json"}
        /\ \A k \in Iteration : k # watcher.n => results'[k] = results[k]
    <3>1. CASE PublishResult
      BY <1>0, <3>1 DEF PublishResult, ResultInv, WatcherSet, ResultSet
    <3>2. ASSUME NEW score \in Scores \cup {NoScore}, WriteResult(score)
          PROVE  <2>1!:
      BY <1>0, <3>2 DEF WriteResult, ResultInv, WatcherSet, ResultSet
    <3> QED BY <1>4, <3>1, <3>2
  <2>2. \A k \in Iteration : results[k].state \in {"json", "done"} \/ results'[k].state = "done" =>
            results'[k] = results[k]
    BY <2>1
  <2>3. trainer.pc \in Consuming =>
            Polled \in Iteration /\ results[Polled].state = "json"
    BY PolledIs, <1>0
  <2>4. Polled' = Polled
    BY <2>1 DEF Polled
  <2>5. ConsumedCounts'
    BY <1>0, <2>1, <2>2 DEF QueueInv, ConsumedCounts
  <2>6. trainer.pc \in Consuming => results'[Polled] = results[Polled]
    BY <2>2, <2>3
  <2>7. trainer.pc \in Consuming => \A n \in trainer.queue : results'[n].state = "json"
    BY <1>0, <2>2 DEF QueueInv
  <2> QED BY <1>0, <2>1, <2>4, <2>5, <2>6, <2>7 DEF QueueInv, Consuming
<1>5. ASSUME NEW src \in Sources, Fork(src)
      PROVE  QueueInv'
  <2>1. trainer'.pc = "setup" /\ results' = [n \in Iteration |-> NoResult]
    BY <1>0, <1>5, ResumeIs DEF Fork
  <2> QED BY <2>1 DEF QueueInv, ConsumedCounts, NoResult, Consuming
<1>6. ASSUME NEW src \in Sources, Resume(src)
      PROVE  QueueInv'
  <2>1. trainer'.pc = "setup"
    BY <1>0, <1>6, ResumeIs
  <2> QED BY <1>1, <1>6, <2>1 DEF Resume, dir, Consuming
<1>7. CASE Start \/ Crash \/ \E ev \in BOOLEAN : Train(ev)
  <2>1. trainer'.pc \in {"setup", "down", "save"} /\ UNCHANGED <<best, results, log>>
    <3>1. CASE Start \/ Crash
      <4>1. UNCHANGED <<best, results, log>>
        BY <3>1 DEF Start, Crash, dir
      <4>2. CASE Start
        BY <4>1, <4>2 DEF Start, Down
      <4>3. CASE Crash
        BY <4>1, <4>3 DEF Crash, Down
      <4> QED BY <3>1, <4>2, <4>3
    <3>2. ASSUME NEW ev \in BOOLEAN, Train(ev)
          PROVE  trainer'.pc = "save" /\ UNCHANGED <<best, results, log>>
      BY <1>0, <3>2 DEF Train, dir, TrainerSet
    <3> QED BY <1>7, <3>1, <3>2
  <2> QED BY <1>1, <2>1 DEF Consuming
<1>8. CASE NextIteration \/ FitCompleted \/ Drain \/ DrainTimeout \/ Abort \/ SetupEvaluator \/ Finish
  <2>1. trainer'.pc \notin Consuming /\ UNCHANGED <<best, results, log>>
    BY <1>0, <1>8 DEF NextIteration, FitCompleted, Drain, DrainTimeout, Abort, SetupEvaluator,
                      Finish, dir, TrainerSet, Consuming
  <2> QED BY <1>1, <2>1
<1>9. CASE SaveInitial \/ SaveLast \/ SavePeriodic \/ SaveFinal
  <2>1. trainer'.pc \notin Consuming /\ UNCHANGED <<best, results, log>>
    BY <1>0, <1>9 DEF SaveInitial, SaveLast, SavePeriodic, SaveFinal, AfterSave, Down, TrainerSet,
                      Consuming
  <2> QED BY <1>1, <2>1
<1>10. ASSUME NEW score \in Scores \cup {NoScore}, Validate(score)
       PROVE  QueueInv'
  <2>1. trainer'.pc = "selectInline" /\ trainer.pc = "validate" /\ results' = results
    BY <1>0, <1>10 DEF Validate, dir, TrainerSet
  <2>2. \A n \in Iteration : results[n].state = "absent"
    BY <1>0, <2>1 DEF ControlInv, WatcherInv
  <2> QED BY <2>1, <2>2 DEF QueueInv, ConsumedCounts, Consuming
<1>11. CASE OnValidation
  <2>1. trainer.pc = "selectInline" /\ trainer.iteration \in 1..args.iterations /\ results' = results
    BY <1>0, <1>11 DEF OnValidation, ControlInv, Trained, InLoop
  <2>2. log[trainer.iteration] \in Int /\ trainer.policy \in History /\ trainer.iteration \in Nat
    BY <1>0, <2>1, ArgsType, TrainAssumption DEF Iteration, TypeOK, TrainerSet
  <2>3. trainer'.pc = "next"
    BY <1>11, <2>2, HandleValIs DEF OnValidation
  <2>4. \A n \in Iteration : results[n].state = "absent"
    BY <1>0, <2>1 DEF ControlInv, WatcherInv
  <2> QED BY <2>1, <2>3, <2>4 DEF QueueInv, ConsumedCounts, Consuming
<1>12. CASE PollResults
  <2> DEFINE new == {n \in Iteration : results[n].state = "json"}
  <2>1. /\ trainer'.queue = new /\ trainer'.pc = IF new = {} THEN AfterPoll ELSE "log"
        /\ UNCHANGED <<best, results, log>>
    BY <1>0, <1>12 DEF PollResults, dir, TrainerSet
  <2>2. CASE new = {}
    BY <1>1, <2>1, <2>2 DEF AfterPoll, Consuming
  <2>3. CASE new # {}
    BY <1>0, <2>1, <2>3 DEF QueueInv, ConsumedCounts, Consuming
  <2> QED BY <2>2, <2>3
<1>13. CASE LogResult
  <2>1. /\ trainer.pc = "log" /\ Polled \in Iteration /\ Polled \in Nat
        /\ results[Polled].state = "json" /\ UNCHANGED <<best, results>>
    BY <1>0, <1>13, PolledIs DEF LogResult, dir, Consuming
  <2>2. /\ trainer'.queue = trainer.queue
        /\ trainer'.pc = IF Polled > 0 THEN "select" ELSE "consume"
        /\ log'[Polled] = results[Polled].score
        /\ \A k \in Iteration : k # Polled => log'[k] = log[k]
    BY <1>0, <1>13, <2>1 DEF LogResult, TrainerSet
  <2>3. Polled' = Polled
    BY <2>2 DEF Polled
  <2>4. ConsumedCounts'
    BY <1>0, <2>1, <2>2 DEF QueueInv, ConsumedCounts
  <2> QED BY <1>0, <2>1, <2>2, <2>3, <2>4 DEF QueueInv, Consuming
<1>14. CASE SelectBest
  <2>1. /\ trainer.pc = "select" /\ Polled \in Nat /\ results[Polled].score \in Int
        /\ StateFn(Polled) \in History /\ UNCHANGED <<results, log>>
    BY <1>0, <1>14, PolledIs DEF SelectBest, Consuming, ResultSet, CkptSet, StateFn
  <2>2. /\ trainer'.pc = "consume" /\ trainer'.queue = trainer.queue
        /\ best'.score \in Int /\ best'.score >= best.score /\ best'.score >= results[Polled].score
    <3>1. trainer.best = best.score
      BY <1>0, <2>1 DEF ScoreInv, Up
    <3> QED BY <1>0, <1>14, <2>1, <3>1, HandleValIs DEF SelectBest
  <2>3. Polled' = Polled
    BY <2>2 DEF Polled
  <2>4. ConsumedCounts'
    BY <1>0, <2>1, <2>2 DEF QueueInv, ConsumedCounts
  <2> QED BY <1>0, <2>1, <2>2, <2>3, <2>4 DEF QueueInv, Consuming
<1>15. CASE ConsumeResult
  <2>1. /\ trainer.pc = "consume" /\ Polled \in Iteration /\ Polled \in trainer.queue
        /\ results[Polled].state = "json" /\ UNCHANGED <<best, log>>
    BY <1>0, <1>15, PolledIs DEF ConsumeResult, Consuming
  <2>2. /\ results'[Polled].state = "done" /\ results'[Polled].score = results[Polled].score
        /\ \A k \in Iteration : k # Polled => results'[k] = results[k]
    BY <1>0, <1>15, <2>1 DEF ConsumeResult, Consumed, ResultSet
  <2>3. /\ trainer'.queue = trainer.queue \ {Polled}
        /\ trainer'.pc = IF trainer.queue = {Polled} THEN AfterPoll ELSE "log"
    BY <1>0, <1>15 DEF ConsumeResult, TrainerSet
  <2>4. ConsumedCounts'
    BY <1>0, <2>1, <2>2 DEF QueueInv, ConsumedCounts
  <2>5. trainer'.pc \in Consuming =>
          trainer'.queue # {} /\ \A n \in trainer'.queue : results'[n].state = "json"
    BY <1>0, <2>1, <2>2, <2>3 DEF QueueInv, Consuming, AfterPoll
  <2>6. trainer'.pc \notin {"select", "consume"}
    BY <2>3 DEF AfterPoll
  <2> QED BY <2>4, <2>5, <2>6 DEF QueueInv, Consuming
<1> QED BY <1>2, <1>3, <1>4, <1>5, <1>6, <1>7, <1>8, <1>9, <1>10, <1>11, <1>12, <1>13, <1>14, <1>15
        DEF Next, Launch, Trainer, Watcher, vars, dir

-----------------------------------------------------------------------------
(* The best checkpoint, and the end of the run.                            *)

LEMMA BestNext ==
    ASSUME TypeOK, DirInv, [Next]_vars
    PROVE  BestInv'
<1>0. /\ args' = args /\ trainer \in TrainerSet /\ watcher \in WatcherSet /\ watcher.n \in Iteration
      /\ ckpts \in [Iteration -> CkptSet] /\ results \in [Iteration -> ResultSet]
      /\ ControlInv /\ WatcherInv /\ FileInv /\ ResultInv /\ QueueInv /\ BestInv
  BY ArgsStay DEF TypeOK, TrainerSet, WatcherSet, DirInv
<1>1. best # NoCkpt => best.iteration \in Iteration
  <2>1. best # NoCkpt => best.iteration \in 1..args.iterations
    BY <1>0 DEF FileInv
  <2> QED BY <2>1, ArgsType, TrainAssumption DEF TypeOK, Iteration
<1>2. CASE UNCHANGED <<ckpts, best, results>>
  BY <1>0, <1>2 DEF BestInv
<1>3. CASE StartWatcher \/ Discover \/ CheckDone \/ WatcherDies
  BY <1>2, <1>3 DEF StartWatcher, Discover, CheckDone, WatcherDies, dir
<1>4. CASE PublishResult \/ \E score \in Scores \cup {NoScore} : WriteResult(score)
  <2>1. /\ UNCHANGED <<best, ckpts>>
        /\ watcher.pc \in {"eval", "rename"} /\ ckpts[watcher.n] # NoCkpt
        /\ results[watcher.n].state \in {"absent", "tmp"}
        /\ \A k \in Iteration : k # watcher.n => results'[k] = results[k]
    <3>1. CASE PublishResult
      BY <1>0, <3>1 DEF PublishResult, ResultInv
    <3>2. ASSUME NEW score \in Scores \cup {NoScore}, WriteResult(score)
          PROVE  <2>1!:
      BY <1>0, <3>2 DEF WriteResult, ResultInv
    <3> QED BY <1>4, <3>1, <3>2
  <2> QED BY <1>0, <1>1, <2>1 DEF BestInv
<1>5. ASSUME NEW src \in Sources, Fork(src)
      PROVE  BestInv'
  <2>1. ckpts' = [n \in Iteration |-> NoCkpt] /\ best' \in {best, NoCkpt}
    BY <1>5 DEF Fork
  <2> QED BY <1>1, <2>1 DEF BestInv
<1>6. CASE SaveInitial \/ SavePeriodic
  <2>1. PICK n \in Iteration :
          /\ best # NoCkpt => best.iteration # n
          /\ \A k \in Iteration \ {n} : ckpts'[k] = ckpts[k]
    BY <1>0, <1>6, WrittenCkpt, Zenon
  <2>2. UNCHANGED <<best, results>>
    BY <1>6 DEF SaveInitial, SavePeriodic
  <2> QED BY <1>0, <1>1, <2>1, <2>2 DEF BestInv
<1>7. CASE OnValidation
  BY <1>0, <1>7 DEF OnValidation, ControlInv, BestInv
<1>8. CASE SelectBest
  <2>1. /\ Polled \in Nat /\ Polled \in Iteration /\ results[Polled].score \in Int
        /\ StateFn(Polled) \in History /\ results[Polled].state = "json"
        /\ UNCHANGED <<ckpts, results>> /\ results[Polled].policy = ckpts[Polled].policy
    BY <1>0, <1>8, PolledIs DEF SelectBest, Consuming, ResultSet, CkptSet, StateFn, ResultInv,
                                ResultOfItsCheckpoint
  <2>2. \/ best' = best
        \/ /\ best'.iteration = Polled /\ best'.policy = ckpts[Polled].policy
           /\ best'.score = results[Polled].score
    BY <1>8, <2>1, HandleValIs DEF SelectBest, StateFn
  <2> QED BY <1>0, <2>1, <2>2 DEF BestInv
<1>9. CASE ConsumeResult
  <2>1. \A k \in Iteration :
          /\ results'[k].policy = results[k].policy /\ results'[k].score = results[k].score
          /\ results'[k].state = IF k = Polled THEN "done" ELSE results[k].state
    BY <1>0, <1>9 DEF ConsumeResult, Consumed, ResultSet
  <2>2. UNCHANGED <<ckpts, best>>
    BY <1>9 DEF ConsumeResult
  <2> QED BY <1>0, <1>1, <2>1, <2>2 DEF BestInv
<1>10. CASE SaveLast \/ SaveFinal \/ SetupEvaluator \/ Finish \/ LogResult
            \/ \E score \in Scores \cup {NoScore} : Validate(score)
  <2>1. UNCHANGED <<ckpts, best, results>>
    BY <1>10 DEF SaveLast, SaveFinal, SetupEvaluator, Finish, LogResult, Validate, dir
  <2> QED BY <1>2, <2>1
<1> QED BY <1>2, <1>3, <1>4, <1>5, <1>6, <1>7, <1>8, <1>9, <1>10, QuietFrame
        DEF Next, Launch, Trainer, Watcher, QuietStep, vars, dir

LEMMA DoneNext ==
    ASSUME TypeOK, DirInv, [Next]_vars
    PROVE  DoneMeansCompleted'
<1>0. trainer \in TrainerSet /\ ControlInv /\ WatcherInv /\ FileInv /\ QueueInv /\ DoneMeansCompleted
  BY DEF TypeOK, DirInv
<1>1. ASSUME trainDone' = trainDone, trainer.completed => trainer'.completed,
             trainer.pc \notin {"down", "setup"}
      PROVE  DoneMeansCompleted'
  BY <1>0, <1>1 DEF DoneMeansCompleted
<1>2. CASE WatcherStep \/ UNCHANGED vars
  <2>1. UNCHANGED <<trainDone, trainer>>
    BY <1>2, WatcherFrame DEF vars, dir
  <2> QED BY <1>0, <2>1 DEF DoneMeansCompleted
<1>3. CASE Start
  <2>1. trainer'.pc = "setup"
    BY <1>3 DEF Start, Down
  <2> QED BY <2>1 DEF DoneMeansCompleted
<1>4. CASE Crash \/ SaveFinal
  <2>1. trainer' = Down
    BY <1>4 DEF Crash, SaveFinal
  <2>2. trainer'.pc = "down"
    BY <2>1 DEF Down
  <2> QED BY <2>2 DEF DoneMeansCompleted
<1>5. ASSUME NEW src \in Sources, Resume(src) \/ Fork(src)
      PROVE  DoneMeansCompleted'
  BY <1>0, <1>5, ResumeIs DEF DoneMeansCompleted
<1>6. CASE SetupEvaluator
  BY <1>0, <1>6 DEF SetupEvaluator, StaleMarker, WatcherInv, DoneMeansCompleted
<1>7. CASE Finish
  <2>1. /\ trainer.pc = "finish" /\ trainer'.completed = trainer.completed
        /\ trainDone' => trainDone \/ trainer.completed
    BY <1>0, <1>7 DEF Finish, Marks, TrainerSet
  <2> QED BY <1>0, <2>1 DEF DoneMeansCompleted
<1>8. ASSUME NEW ev \in BOOLEAN, Train(ev)
      PROVE  DoneMeansCompleted'
  <2>1. trainDone' = trainDone /\ trainer'.completed = trainer.completed /\ trainer.pc = "train"
    BY <1>0, <1>8 DEF Train, dir, TrainerSet
  <2> QED BY <1>1, <2>1
<1>9. CASE OnValidation
  <2>1. trainer.pc = "selectInline" /\ trainer.iteration \in 1..args.iterations
    BY <1>0, <1>9 DEF OnValidation, ControlInv, Trained, InLoop
  <2>2. log[trainer.iteration] \in Int /\ trainer.policy \in History /\ trainer.iteration \in Nat
    BY <2>1, ArgsType, TrainAssumption DEF Iteration, TypeOK, TrainerSet
  <2>3. trainer'.completed = trainer.completed /\ trainDone' = trainDone
    BY <1>9, <2>2, HandleValIs DEF OnValidation
  <2> QED BY <1>1, <2>1, <2>3
<1>10. CASE SelectBest
  <2>1. /\ trainer.pc = "select" /\ Polled \in Nat /\ results[Polled].score \in Int
        /\ StateFn(Polled) \in History /\ trainDone' = trainDone
    BY <1>0, <1>10, PolledIs DEF SelectBest, Consuming, ResultSet, CkptSet, StateFn
  <2>2. trainer'.completed = trainer.completed
    BY <1>10, <2>1, HandleValIs DEF SelectBest
  <2> QED BY <1>1, <2>1, <2>2
<1>11. CASE NextIteration \/ FitCompleted \/ PollResults \/ LogResult \/ ConsumeResult
            \/ Drain \/ DrainTimeout
  <2>1. /\ trainDone' = trainDone /\ (trainer.completed => trainer'.completed)
        /\ trainer.pc \notin {"down", "setup"}
    BY <1>0, <1>11 DEF NextIteration, FitCompleted, PollResults, LogResult, ConsumeResult, Drain,
                       DrainTimeout, dir, TrainerSet
  <2> QED BY <1>1, <2>1
<1>12. CASE SaveInitial \/ SaveLast \/ SavePeriodic \/ Abort
            \/ \E score \in Scores \cup {NoScore} : Validate(score)
  <2>1. /\ trainDone' = trainDone /\ trainer'.completed = trainer.completed
        /\ trainer.pc \notin {"down", "setup"}
    BY <1>0, <1>12 DEF SaveInitial, SaveLast, SavePeriodic, Abort, InLoop, Validate, dir, TrainerSet
  <2> QED BY <1>1, <2>1
<1> QED BY <1>2, <1>3, <1>4, <1>5, <1>6, <1>7, <1>8, <1>9, <1>10, <1>11, <1>12
        DEF Next, Launch, Trainer, Watcher, WatcherStep

-----------------------------------------------------------------------------
(* What holds whatever is resumed.                                         *)

LEMMA DirInit ==
    ASSUME Init
    PROVE  DirInv
<1>1. /\ trainer = Down /\ watcher = Away /\ last = NoCkpt /\ best = NoCkpt /\ final = NoCkpt
      /\ ckpts = [n \in Iteration |-> NoCkpt] /\ results = [n \in Iteration |-> NoResult]
      /\ trainDone = FALSE
  BY DEF Init
<1>2. trainer.pc = "down" /\ watcher.pc = "down" /\ NoCkpt.score = 0
  BY <1>1 DEF Down, Away, NoCkpt, NoScore
<1>3. ControlInv /\ WatcherInv /\ FileInv
  BY <1>1, <1>2 DEF ControlInv, WatcherInv, FileInv, NoResult, Up, Unsaved, Trained, Consuming, InLoop
<1>4. ResultInv /\ QueueInv
  BY <1>1, <1>2 DEF ResultInv, ResultOfItsCheckpoint, QueueInv, ConsumedCounts, NoResult, Consuming
<1>5. ScoreInv /\ BestInv /\ DoneMeansCompleted
  BY <1>1, <1>2 DEF ScoreInv, BestInv, DoneMeansCompleted, Up
<1> QED BY <1>3, <1>4, <1>5 DEF DirInv

(* The invariants of the directory hold in every run, for every set of     *)
(* arguments and whichever kinds of checkpoint are resumed.                *)
THEOREM DirectoryTheorem == Spec => [](TypeOK /\ DirInv)
<1>1. Init => TypeOK /\ DirInv
  BY TypeInit, DirInit
<1>2. TypeOK /\ DirInv /\ [Next]_vars => (TypeOK /\ DirInv)'
  <2> SUFFICES ASSUME TypeOK, DirInv, [Next]_vars PROVE (TypeOK /\ DirInv)'
    OBVIOUS
  <2>1. TypeOK'
    BY TypeNext DEF DirInv
  <2>2. ControlInv' /\ WatcherInv' /\ FileInv' /\ ResultInv' /\ QueueInv' /\ ScoreInv' /\ BestInv'
    BY ControlNext, WatcherNext, FileNext, ResultNext, QueueNext, ScoreNext, BestNext
  <2>3. DoneMeansCompleted'
    BY DoneNext
  <2> QED BY <2>1, <2>2, <2>3 DEF DirInv
<1> QED BY <1>1, <1>2, PTL DEF Spec

(* A result is about the checkpoint that bears its number: nothing ever    *)
(* replaces the policy of a checkpoint the watcher has evaluated.          *)
THEOREM ResultTheorem == Spec => []ResultOfItsCheckpoint
<1>1. DirInv => ResultOfItsCheckpoint
  BY DEF DirInv, ResultInv
<1> QED BY <1>1, DirectoryTheorem, PTL

(* A consumed result has been logged and counted for the best checkpoint,  *)
(* whenever the trainer was killed.                                        *)
THEOREM ConsumedTheorem == Spec => []ConsumedCounts
<1>1. DirInv => ConsumedCounts
  BY DEF DirInv, QueueInv
<1> QED BY <1>1, DirectoryTheorem, PTL

(* train_done is there only when the run has come to its end.              *)
THEOREM DoneTheorem == Spec => []DoneMeansCompleted
<1>1. DirInv => DoneMeansCompleted
  BY DEF DirInv
<1> QED BY <1>1, DirectoryTheorem, PTL

(* The best checkpoint of a directory is only replaced by a better one.    *)
THEOREM BestRisesTheorem == Spec => BestNeverDrops
<1>1. TypeOK /\ DirInv /\ [Next]_vars =>
        [Start \/ best = NoCkpt \/ best'.score >= best.score \/ \E src \in Sources : Fork(src)]_vars
  <2> SUFFICES ASSUME TypeOK, DirInv, [Next]_vars
               PROVE  \/ best'.score >= best.score \/ \E src \in Sources : Fork(src)
    OBVIOUS
  <2>1. best.score \in Nat
    BY DEF TypeOK, CkptSet
  <2>2. CASE UNCHANGED best
    BY <2>1, <2>2
  <2>3. CASE OnValidation \/ SelectBest
    BY <2>3, BestRises DEF DirInv
  <2>4. CASE WatcherStep \/ QuietStep
    BY <2>2, <2>4, WatcherFrame, QuietFrame
  <2>5. CASE SaveInitial \/ SaveLast \/ SavePeriodic \/ SaveFinal \/ SetupEvaluator \/ Finish
             \/ LogResult \/ ConsumeResult \/ \E score \in Scores \cup {NoScore} : Validate(score)
    BY <2>2, <2>5 DEF SaveInitial, SaveLast, SavePeriodic, SaveFinal, SetupEvaluator, Finish,
                      LogResult, ConsumeResult, Validate, dir
  <2> QED BY <2>2, <2>3, <2>4, <2>5
          DEF Next, Launch, Trainer, Watcher, WatcherStep, QuietStep, vars, dir
<1> QED BY <1>1, DirectoryTheorem, PTL DEF Spec, BestNeverDrops

-----------------------------------------------------------------------------
(* Histories.                                                              *)

LEMMA EndsAre ==
    ASSUME NEW h, NEW n \in Nat
    PROVE  /\ EndsIn(h, n) \subseteq 1..n
           /\ WarmupEnd(h, n) = IF EndsIn(h, n) = {} THEN 0 ELSE Min(EndsIn(h, n))
<1>1. EndsIn(h, n) \subseteq 1..n
  BY DEF EndsIn
<1>2. WarmupEnd(h, n) = IF EndsIn(h, n) = {} THEN 0 ELSE Min(EndsIn(h, n))
  BY Zenon DEF WarmupEnd, EndsIn
<1> QED BY <1>1, <1>2

(* The past of a history does not change.                                  *)
LEMMA PastStays ==
    ASSUME NEW h \in History, NEW s \in Step, NEW i \in 0..Len(h)
    PROVE  /\ EndsIn(Append(h, s), i) = EndsIn(h, i)
           /\ WarmupEnd(Append(h, s), i) = WarmupEnd(h, i)
<1>0. Streak \in Nat \ {0} /\ WarmIters \in Nat /\ Len(h) \in Nat
  BY TrainAssumption DEF History
<1>1. \A k \in 1..Len(h) : Append(h, s)[k] = h[k]
  BY DEF History
<1>2. ASSUME NEW j \in 1..i, j >= Streak
      PROVE  (\A k \in j - Streak + 1..j : Append(h, s)[k].ev) <=> (\A k \in j - Streak + 1..j : h[k].ev)
  <2>1. \A k \in j - Streak + 1..j : k \in 1..Len(h)
    BY <1>0, <1>2
  <2> QED BY <1>1, <2>1
<1>3. EndsIn(Append(h, s), i) = EndsIn(h, i)
  BY <1>0, <1>2 DEF EndsIn
<1> QED BY <1>0, <1>3, EndsAre

(* The gate knows where the warm-up of its history ended, and from it      *)
(* whether the next iteration belongs to the warm-up.                      *)
LEMMA GateEnd ==
    ASSUME NEW g \in Gate, NEW h, NEW n \in Nat, GateAt(g, h, n)
    PROVE  g.end = WarmupEnd(h, n)
<1>1. EndsIn(h, n) \subseteq Nat
  BY EndsAre
<1>2. CASE g.end = 0
  BY <1>2, EndsAre DEF GateAt
<1>3. CASE g.end # 0
  <2>1. g.end \in EndsIn(h, n) /\ \A j \in EndsIn(h, n) : g.end <= j
    BY <1>3 DEF GateAt
  <2>2. Min(EndsIn(h, n)) = g.end
    BY <1>1, <2>1, MinIs
  <2> QED BY <2>1, <2>2, EndsAre
<1> QED BY <1>2, <1>3

LEMMA WarmIs ==
    ASSUME args \in Runs, NEW g \in Gate, NEW h, NEW n \in Nat, GateAt(g, h, n)
    PROVE  InCriticWarmup(g, n + 1) <=> WarmIters > 0 /\ (n + 1 <= WarmIters \/ g.end = 0)
<1>0. args.cap \in Nat /\ args.gate \in BOOLEAN /\ WarmIters \in Nat /\ Streak \in Nat \ {0}
  BY ArgsType
<1>1. ASSUME WarmIters > 0, n + 1 > WarmIters, g.end = 0
      PROVE  args.gate /\ ~g.passed /\ n + 1 <= args.cap
  <2>1. EndsIn(h, n) = {} /\ ~g.passed
    BY <1>1 DEF GateAt
  <2>2. n \in 1..n /\ n >= WarmIters
    BY <1>0, <1>1
  <2>3. ~(n >= args.cap) /\ args.gate
    BY <1>0, <1>1, <2>1, <2>2 DEF EndsIn
  <2> QED BY <1>0, <2>1, <2>3
<1>2. ASSUME args.gate, ~g.passed, n + 1 <= args.cap
      PROVE  g.end = 0
  <2> SUFFICES ASSUME g.end # 0 PROVE FALSE
    OBVIOUS
  <2>1. g.end \in EndsIn(h, n) /\ g.end >= args.cap
    BY <1>2 DEF GateAt
  <2>2. g.end \in 1..n
    BY <2>1, EndsAre
  <2> QED BY <1>0, <1>2, <2>1, <2>2
<1> QED BY <1>0, <1>1, <1>2 DEF InCriticWarmup

(* The streak the gate looks for among the variances it still holds is the *)
(* streak of the history.                                                  *)
LEMMA StreakIs ==
    ASSUME NEW e \in Seq(BOOLEAN), NEW h, NEW n \in Nat,
           Len(e) <= n, Len(e) = n \/ Len(e) >= Streak,
           \A k \in 1..Len(e) : e[k] = h[n - Len(e) + k].ev
    PROVE  Len(e) >= Streak /\ (\A k \in Len(e) - Streak + 1..Len(e) : e[k])
             <=> n >= Streak /\ (\A k \in n - Streak + 1..n : h[k].ev)
<1>0. Streak \in Nat \ {0} /\ Len(e) \in Nat
  BY TrainAssumption
<1>1. Len(e) >= Streak <=> n >= Streak
  BY <1>0
<1>2. ASSUME Len(e) >= Streak, \A k \in Len(e) - Streak + 1..Len(e) : e[k],
             NEW k \in n - Streak + 1..n
      PROVE  h[k].ev
  <2> DEFINE m == k - (n - Len(e))
  <2>1. m \in Len(e) - Streak + 1..Len(e) /\ m \in 1..Len(e) /\ n - Len(e) + m = k
    BY <1>0, <1>2
  <2> HIDE DEF m
  <2>2. e[m] /\ e[m] = h[n - Len(e) + m].ev
    BY <1>2, <2>1
  <2> QED BY <2>1, <2>2
<1>3. ASSUME Len(e) >= Streak, \A k \in n - Streak + 1..n : h[k].ev,
             NEW k \in Len(e) - Streak + 1..Len(e)
      PROVE  e[k]
  <2> DEFINE m == n - Len(e) + k
  <2>1. m \in n - Streak + 1..n /\ k \in 1..Len(e)
    BY <1>0, <1>3
  <2>2. e[k] = h[m].ev
    BY <2>1
  <2> HIDE DEF m
  <2> QED BY <1>3, <2>1, <2>2
<1> QED BY <1>1, <1>2, <1>3

(* The gate keeps its knowledge over an iteration.                         *)
LEMMA NoteKeeps ==
    ASSUME args \in Runs, NEW g \in Gate, NEW h \in History, NEW s \in Step, NEW n \in Nat,
           Len(h) = n, GateAt(g, h, n)
    PROVE  GateAt(NoteEv(g, n + 1, InCriticWarmup(g, n + 1), s.ev), Append(h, s), n + 1)
<1> DEFINE warm == InCriticWarmup(g, n + 1)
           g2 == NoteEv(g, n + 1, warm, s.ev)
           h2 == Append(h, s)
           evs == Append(g.evs, s.ev)
           long(k) == k >= WarmIters /\ k >= Streak /\ \A j \in k - Streak + 1..k : h2[j].ev
           passed == /\ args.gate /\ n + 1 >= WarmIters /\ Len(evs) >= Streak
                     /\ \A k \in Len(evs) - Streak + 1..Len(evs) : evs[k]
           ends == passed \/ n + 1 >= args.cap \/ (~args.gate /\ n + 1 >= WarmIters)
<1>0. /\ args.cap \in Nat /\ args.gate \in BOOLEAN /\ WarmIters \in Nat /\ Streak \in Nat \ {0}
      /\ g.end \in Nat /\ g.passed \in BOOLEAN /\ g.evs \in Seq(BOOLEAN) /\ s.ev \in BOOLEAN
  BY ArgsType DEF Gate, Step
<1>1. /\ evs \in Seq(BOOLEAN) /\ Len(evs) <= n + 1 /\ (Len(evs) = n + 1 \/ Len(evs) >= Streak)
      /\ \A k \in 1..Len(evs) : evs[k] = h2[n + 1 - Len(evs) + k].ev
  <2>1. Len(evs) = Len(g.evs) + 1 /\ evs \in Seq(BOOLEAN) /\ Len(g.evs) \in Nat
    BY <1>0
  <2>2. Len(g.evs) <= n /\ (Len(g.evs) = n \/ Len(g.evs) >= Streak)
        /\ \A k \in 1..Len(g.evs) : g.evs[k] = h[n - Len(g.evs) + k].ev
    BY DEF GateAt
  <2>3. \A k \in 1..n : h2[k] = h[k]
    BY DEF History
  <2>4. h2[n + 1] = s
    BY DEF History
  <2>5. ASSUME NEW k \in 1..Len(evs)
        PROVE  evs[k] = h2[n + 1 - Len(evs) + k].ev
    <3>1. CASE k \in 1..Len(g.evs)
      <4>1. n + 1 - Len(evs) + k = n - Len(g.evs) + k /\ n - Len(g.evs) + k \in 1..n
        BY <2>1, <2>2, <3>1
      <4>2. evs[k] = g.evs[k]
        BY <1>0, <3>1
      <4> QED BY <2>2, <2>3, <3>1, <4>1, <4>2
    <3>2. CASE k = Len(g.evs) + 1
      <4>1. n + 1 - Len(evs) + k = n + 1
        BY <2>1, <3>2
      <4>2. evs[k] = s.ev
        BY <1>0, <3>2
      <4> HIDE DEF evs, h2
      <4> QED BY <2>4, <4>1, <4>2
    <3>3. k \in 1..Len(g.evs) \/ k = Len(g.evs) + 1
      BY <2>1
    <3> HIDE DEF evs, h2
    <3> QED BY <3>1, <3>2, <3>3
  <2>6. Len(evs) <= n + 1 /\ (Len(evs) = n + 1 \/ Len(evs) >= Streak)
    BY <1>0, <2>1, <2>2
  <2> HIDE DEF evs, h2
  <2> QED BY <2>1, <2>5, <2>6
<1>2. /\ warm => g2 = [evs |-> evs, passed |-> g.passed \/ passed,
                       end |-> IF ends /\ g.end = 0 THEN n + 1 ELSE g.end]
      /\ ~warm => g2 = [g EXCEPT !.evs = evs]
  BY DEF NoteEv
<1>3. Len(evs) >= Streak /\ (\A k \in Len(evs) - Streak + 1..Len(evs) : evs[k])
        <=> n + 1 >= Streak /\ (\A k \in (n + 1) - Streak + 1..n + 1 : h2[k].ev)
  <2> DEFINE m == n + 1
  <2>1. m \in Nat
    OBVIOUS
  <2> HIDE DEF evs, h2, m
  <2>2. /\ evs \in Seq(BOOLEAN) /\ Len(evs) <= m /\ (Len(evs) = m \/ Len(evs) >= Streak)
        /\ \A k \in 1..Len(evs) : evs[k] = h2[m - Len(evs) + k].ev
    BY <1>1 DEF m
  <2>3. Len(evs) >= Streak /\ (\A k \in Len(evs) - Streak + 1..Len(evs) : evs[k])
          <=> m >= Streak /\ (\A k \in m - Streak + 1..m : h2[k].ev)
    BY <2>1, <2>2, StreakIs
  <2> QED BY <2>3 DEF m
<1>4. passed <=> args.gate /\ long(n + 1)
  BY <1>3
<1>5. EndsIn(h2, n + 1) = EndsIn(h, n) \cup
        {j \in {n + 1} : WarmIters > 0 /\ (j >= args.cap \/ (j >= WarmIters /\ ~args.gate) \/ long(j))}
  <2>1. EndsIn(h2, n) = EndsIn(h, n)
    BY PastStays
  <2>2. EndsIn(h2, n + 1) = EndsIn(h2, n) \cup
          {j \in {n + 1} : WarmIters > 0 /\ (j >= args.cap \/ (j >= WarmIters /\ ~args.gate) \/ long(j))}
    <3> HIDE DEF h2
    <3>1. 1..n + 1 = (1..n) \cup {n + 1}
      OBVIOUS
    <3> QED BY <3>1 DEF EndsIn
  <2> QED BY <2>1, <2>2
<1>6. EndsIn(h, n) \subseteq 1..n
  BY EndsAre
<1>7. WarmIters > 0 => (n + 1 \in EndsIn(h2, n + 1) <=> ends)
  <2>1. n + 1 \notin EndsIn(h, n)
    BY <1>6
  <2> HIDE DEF long, passed
  <2>2. WarmIters > 0 => (n + 1 \in EndsIn(h2, n + 1) <=>
            n + 1 >= args.cap \/ (n + 1 >= WarmIters /\ ~args.gate) \/ long(n + 1))
    BY <1>5, <2>1
  <2>3. long(n + 1) => n + 1 >= WarmIters
    BY DEF long
  <2> QED BY <1>0, <1>4, <2>2, <2>3
<1>8. \A j \in EndsIn(h2, n + 1) : j # n + 1 => j \in EndsIn(h, n)
  BY <1>5
<1>9. EndsIn(h, n) \subseteq EndsIn(h2, n + 1)
  BY <1>5
<1>10. warm <=> WarmIters > 0 /\ (n + 1 <= WarmIters \/ g.end = 0)
  BY WarmIs
<1>11. WarmIters = 0 => EndsIn(h2, n + 1) = {} /\ EndsIn(h, n) = {}
  BY <1>5 DEF EndsIn
<1>12. passed => ends
  OBVIOUS
<1>13. /\ g.end = 0 => EndsIn(h, n) = {} /\ ~g.passed
       /\ g.end # 0 => /\ g.end \in EndsIn(h, n) /\ \A j \in EndsIn(h, n) : g.end <= j
                       /\ args.gate => g.passed \/ g.end >= args.cap
  BY DEF GateAt
<1>14. ends /\ args.gate => passed \/ n + 1 >= args.cap
  OBVIOUS
<1>15. /\ g2.evs = evs
       /\ g2.end = IF warm /\ ends /\ g.end = 0 THEN n + 1 ELSE g.end
       /\ g2.passed <=> g.passed \/ (warm /\ passed)
  <2> HIDE DEF g2, warm, evs, ends, passed
  <2>1. CASE warm
    <3> DEFINE p == g.passed \/ passed
               e == IF ends /\ g.end = 0 THEN n + 1 ELSE g.end
    <3>1. g2 = [evs |-> evs, passed |-> p, end |-> e]
      BY <1>2, <2>1
    <3> HIDE DEF p, e
    <3>2. g2.evs = evs /\ g2.passed = p /\ g2.end = e
      BY <3>1
    <3> QED BY <2>1, <3>2 DEF p, e
  <2>2. CASE ~warm
    BY <1>0, <1>2, <2>2 DEF Gate
  <2> QED BY <2>1, <2>2
<1> HIDE DEF g2, warm, evs, ends, passed, h2
<1>16. g2.end = 0 => EndsIn(h2, n + 1) = {} /\ ~g2.passed
  <2> SUFFICES ASSUME g2.end = 0 PROVE EndsIn(h2, n + 1) = {} /\ ~g2.passed
    OBVIOUS
  <2>1. g.end = 0 /\ ~(warm /\ ends)
    BY <1>15
  <2>2. CASE WarmIters = 0
    BY <1>10, <1>11, <1>13, <1>15, <2>1, <2>2
  <2>3. CASE WarmIters > 0
    <3>1. warm /\ ~ends
      BY <1>10, <2>1, <2>3
    <3> QED BY <1>7, <1>8, <1>12, <1>13, <1>15, <2>1, <2>3, <3>1
  <2> QED BY <1>0, <2>2, <2>3
<1>17. g2.end # 0 => /\ g2.end \in EndsIn(h2, n + 1) /\ \A j \in EndsIn(h2, n + 1) : g2.end <= j
                     /\ args.gate => g2.passed \/ g2.end >= args.cap
  <2> SUFFICES ASSUME g2.end # 0
               PROVE  /\ g2.end \in EndsIn(h2, n + 1) /\ \A j \in EndsIn(h2, n + 1) : g2.end <= j
                      /\ args.gate => g2.passed \/ g2.end >= args.cap
    OBVIOUS
  <2>1. CASE g.end # 0
    <3>1. g2.end = g.end /\ g.end \in 1..n
      BY <1>6, <1>13, <1>15, <2>1
    <3>2. \A j \in EndsIn(h2, n + 1) : g.end <= j
      BY <1>8, <1>13, <2>1, <3>1
    <3> QED BY <1>9, <1>13, <1>15, <2>1, <3>1, <3>2
  <2>2. CASE g.end = 0
    <3>1. warm /\ ends /\ g2.end = n + 1 /\ WarmIters > 0
      BY <1>10, <1>15, <2>2
    <3>2. \A j \in EndsIn(h2, n + 1) : n + 1 <= j
      BY <1>8, <1>13, <2>2
    <3> QED BY <1>7, <1>14, <1>15, <3>1, <3>2
  <2> QED BY <2>1, <2>2
<1>18. GateAt(g2, h2, n + 1)
  BY <1>1, <1>15, <1>16, <1>17 DEF GateAt
<1> QED BY <1>18 DEF g2, warm, h2

(* One iteration more of a run that no interruption shows in.              *)
LEMMA TrainFaithful ==
    ASSUME args \in Runs, trainer \in TrainerSet, NEW n \in Nat, NEW ev \in BOOLEAN,
           trainer.iteration = n + 1, Faithful(trainer, n),
           trainer.lr = LrFactor(n, trainer.gate.end), Train(ev)
    PROVE  Faithful(trainer', n + 1) /\ trainer'.lr = LrFactor(n + 1, trainer'.gate.end)
<1> DEFINE h == trainer.policy
           g == trainer.gate
           s == NewStep(ev)
           h2 == Append(h, s)
           g2 == NoteEv(g, n + 1, InCriticWarmup(g, n + 1), ev)
<1>0. /\ h \in History /\ g \in Gate /\ trainer.sched \in Sched /\ trainer.lr \in Int
      /\ Uninterrupted(h, n) /\ SchedAt(trainer.sched, n) /\ GateAt(g, h, n) /\ Len(h) = n
  BY DEF TrainerSet, Faithful, Uninterrupted
<1>1. /\ Selected.sched \in Sched /\ Selected.boards \in Seq(Board)
      /\ SchedAt(Selected.sched, n + 1)
      /\ Selected.boards = IF args.boards_order = "single" \/ NBoards = 1 THEN <<>>
                           ELSE BoardsOf(args.boards_order, n + 1, Picks)
  BY <1>0, SelectedIs
<1>2. /\ s.boards = Selected.boards /\ s.warm = InCriticWarmup(g, n + 1)
      /\ s.lr = trainer.lr /\ s.ev = ev
  BY DEF NewStep
<1>3. s \in Step
  <2>1. InCriticWarmup(g, n + 1) \in BOOLEAN
    BY DEF InCriticWarmup
  <2> QED BY <1>0, <1>1, <2>1 DEF NewStep, Step
<1>4. /\ trainer'.policy = h2 /\ trainer'.sched = Selected.sched /\ trainer'.gate = g2
      /\ trainer'.lr = LrFactor(n + 1, g2.end)
  <2>1. trainer' = [trainer EXCEPT !.pc = "save", !.policy = h2, !.sched = Selected.sched,
                                   !.gate = g2, !.lr = LrFactor(n + 1, g2.end)]
    BY DEF Train, NewStep
  <2> HIDE DEF h2, g2
  <2> QED BY <2>1 DEF TrainerSet
<1> HIDE DEF s
<1>5. GateAt(g2, h2, n + 1)
  <2> HIDE DEF h, g
  <2>1. GateAt(NoteEv(g, n + 1, InCriticWarmup(g, n + 1), s.ev), Append(h, s), n + 1)
    BY <1>0, <1>3, NoteKeeps
  <2> QED BY <1>2, <2>1
<1>6. g.end = WarmupEnd(h, n)
  <2> HIDE DEF h, g
  <2> QED BY <1>0, GateEnd
<1>7. InCriticWarmup(g, n + 1) <=> WarmIters > 0 /\ (n + 1 <= WarmIters \/ g.end = 0)
  <2> HIDE DEF h, g
  <2> QED BY <1>0, WarmIs
<1> HIDE DEF h, g, g2
<1>8. Len(h2) = n + 1 /\ h2[n + 1] = s /\ \A i \in 1..n : h2[i] = h[i]
  BY <1>0, <1>3 DEF History
<1>9. \A i \in 0..n : WarmupEnd(h2, i) = WarmupEnd(h, i)
  BY <1>0, <1>3, PastStays
<1> HIDE DEF h2
<1>10. ASSUME NEW i \in 1..n + 1
       PROVE  LET end == WarmupEnd(h2, i - 1) IN
              /\ h2[i].boards = IF args.boards_order = "single" \/ NBoards = 1 THEN <<>>
                                ELSE BoardsOf(args.boards_order, i, Picks)
              /\ h2[i].warm = (WarmIters > 0 /\ (i <= WarmIters \/ end = 0))
              /\ h2[i].lr = LrFactor(i - 1, end)
  <2>1. CASE i \in 1..n
    <3>1. h2[i] = h[i] /\ WarmupEnd(h2, i - 1) = WarmupEnd(h, i - 1)
      BY <1>8, <1>9, <2>1
    <3> QED BY <1>0, <2>1, <3>1 DEF Uninterrupted
  <2>2. CASE i = n + 1
    <3>1. h2[i] = s /\ i - 1 = n /\ WarmupEnd(h2, i - 1) = g.end
      BY <1>6, <1>8, <1>9, <2>2
    <3>2. s.lr = LrFactor(n, g.end)
      BY <1>2 DEF g
    <3>3. s.warm = (WarmIters > 0 /\ (n + 1 <= WarmIters \/ g.end = 0))
      <4> DEFINE w == WarmIters > 0 /\ (n + 1 <= WarmIters \/ g.end = 0)
      <4>1. InCriticWarmup(g, n + 1) \in BOOLEAN
        BY DEF InCriticWarmup
      <4>2. w \in BOOLEAN
        BY Zenon
      <4>3. InCriticWarmup(g, n + 1) <=> w
        BY <1>7
      <4> HIDE DEF w
      <4>4. s.warm = w
        BY <1>2, <4>1, <4>2, <4>3, Zenon
      <4> QED BY <4>4 DEF w
    <3> QED BY <1>1, <1>2, <2>2, <3>1, <3>2, <3>3
  <2> QED BY <2>1, <2>2
<1>11. Uninterrupted(h2, n + 1)
  BY <1>8, <1>10 DEF Uninterrupted
<1> QED BY <1>1, <1>4, <1>5, <1>11 DEF Faithful

(* A checkpoint keeps what the trainer knows.                              *)
LEMMA CkptFaithful ==
    ASSUME NEW t \in TrainerSet, NEW n \in Nat, Faithful(t, n)
    PROVE  Faithful(Ckpt(t, n, t.policy), n)
<1> DEFINE c == Ckpt(t, n, t.policy)
           e == t.gate.evs
           k == KeptEvs(e)
<1>0. t.gate \in Gate /\ e \in Seq(BOOLEAN) /\ t.policy \in History
  BY DEF TrainerSet, Gate
<1>1. /\ c.policy = t.policy /\ c.sched = t.sched /\ c.gate.evs = k
      /\ c.gate.passed = t.gate.passed /\ c.gate.end = t.gate.end
  <2> DEFINE p == t.policy
  <2>1. p \in History
    BY <1>0
  <2> HIDE DEF p
  <2>2. /\ Ckpt(t, n, p).policy = p /\ Ckpt(t, n, p).sched = t.sched
        /\ Ckpt(t, n, p).gate.evs = KeptEvs(t.gate.evs)
        /\ Ckpt(t, n, p).gate.passed = t.gate.passed
        /\ Ckpt(t, n, p).gate.end = t.gate.end
    BY <2>1, CkptType
  <2> QED BY <2>2 DEF p
<1>2. /\ k \in Seq(BOOLEAN) /\ Len(k) <= Len(e) /\ (Len(k) = Len(e) \/ Len(k) >= Streak)
      /\ \A j \in 1..Len(k) : k[j] = e[Len(e) - Len(k) + j]
  <2> HIDE DEF e
  <2> QED BY <1>0, KeptEvsAre
<1>3. GateAt(t.gate, t.policy, n)
  BY DEF Faithful
<1> HIDE DEF c, k
<1>4. ASSUME NEW j \in 1..Len(k)
      PROVE  k[j] = t.policy[n - Len(k) + j].ev
  <2>1. Len(e) <= n /\ \A i \in 1..Len(e) : e[i] = t.policy[n - Len(e) + i].ev
    BY <1>3 DEF GateAt
  <2> HIDE DEF e
  <2>2. Len(e) \in Nat /\ Len(k) \in Nat
    BY <1>0, <1>2
  <2> DEFINE i == Len(e) - Len(k) + j
  <2>3. i \in 1..Len(e) /\ n - Len(e) + i = n - Len(k) + j
    BY <1>2, <2>2
  <2>4. k[j] = e[i]
    BY <1>2
  <2> HIDE DEF i
  <2> QED BY <2>1, <2>3, <2>4
<1>5. Len(k) <= n /\ (Len(k) = n \/ Len(k) >= Streak)
  <2>1. Len(e) <= n /\ (Len(e) = n \/ Len(e) >= Streak)
    BY <1>3 DEF GateAt
  <2>2. Len(e) \in Nat /\ Len(k) \in Nat /\ Streak \in Nat
    BY <1>0, <1>2, TrainAssumption
  <2> HIDE DEF e
  <2> QED BY <1>2, <2>1, <2>2
<1>6. GateAt(c.gate, t.policy, n)
  BY <1>1, <1>3, <1>4, <1>5 DEF GateAt
<1>7. Faithful(c, n)
  BY <1>1, <1>6 DEF Faithful
<1> QED BY <1>7 DEF c

(* A run that is resumed has what the checkpoint knew.                     *)
LEMMA ResumedFaithful ==
    ASSUME args \in Runs, NEW c \in CkptSet, c.iteration \in Nat, Faithful(c, c.iteration),
           NEW x, x.policy = c.policy, x.sched = ResumedSched(c), x.gate = c.gate
    PROVE  Faithful(x, c.iteration)
<1>1. SchedAt(ResumedSched(c), c.iteration)
  <2>1. CASE ~MultiBoard
    BY <2>1 DEF SchedAt
  <2>2. CASE MultiBoard /\ c.iteration = 0
    <3>1. ResumedSched(c) = FreshScheduler
      BY <2>2 DEF ResumedSched
    <3>2. /\ FreshScheduler.iter_idx = 0 - 1 /\ FreshScheduler.rng = 0 /\ 0 * Picks = 0
          /\ FreshScheduler.epoch_order = <<>> /\ FreshScheduler.epoch_pos = 0
      BY TrainAssumption DEF FreshScheduler
    <3>3. DealtAt(FreshScheduler, 0 * Picks)
      BY <3>2 DEF DealtAt
    <3> QED BY <2>2, <3>1, <3>2, <3>3 DEF SchedAt
  <2>3. CASE MultiBoard /\ c.iteration # 0
    <3>1. ResumedSched(c) = c.sched
      BY <2>3 DEF ResumedSched, Loaded, MultiBoard
    <3> QED BY <3>1 DEF Faithful
  <2> QED BY <2>1, <2>2, <2>3
<1> QED BY <1>1 DEF Faithful

LEMMA FaithfulStays ==
    ASSUME args' = args, NEW x, NEW n
    PROVE  /\ Faithful(x, n)' <=> Faithful(x, n)
           /\ Uninterrupted(x.policy, n)' <=> Uninterrupted(x.policy, n)
<1>1. ASSUME NEW h, NEW i
      PROVE  EndsIn(h, i)' = EndsIn(h, i) /\ WarmupEnd(h, i)' = WarmupEnd(h, i)
  BY Zenon DEF EndsIn, WarmupEnd
<1>2. ASSUME NEW h, NEW i
      PROVE  Uninterrupted(h, i)' <=> Uninterrupted(h, i)
  BY <1>1 DEF Uninterrupted
<1>3. GateAt(x.gate, x.policy, n)' <=> GateAt(x.gate, x.policy, n)
  BY <1>1 DEF GateAt
<1>4. SchedAt(x.sched, n)' <=> SchedAt(x.sched, n)
  BY DEF SchedAt, MultiBoard
<1> QED BY <1>2, <1>3, <1>4 DEF Faithful

LEMMA FaithfulSame ==
    ASSUME NEW x, NEW y, y.policy = x.policy, y.sched = x.sched, y.gate = x.gate, NEW n
    PROVE  Faithful(y, n) <=> Faithful(x, n)
  BY DEF Faithful

LEMMA FreshFaithful ==
    ASSUME NEW x, x.policy = <<>>, x.sched = FreshScheduler, x.gate = FreshGate
    PROVE  Faithful(x, 0) /\ x.gate.end = 0
<1>1. /\ FreshScheduler.iter_idx = 0 - 1 /\ FreshScheduler.rng = 0 /\ 0 * Picks = 0
      /\ FreshScheduler.epoch_order = <<>> /\ FreshScheduler.epoch_pos = 0
  BY TrainAssumption DEF FreshScheduler
<1>2. SchedAt(FreshScheduler, 0)
  BY <1>1 DEF SchedAt, DealtAt
<1>3. EndsIn(<<>>, 0) = {}
  BY EndsAre
<1>4. /\ FreshGate.end = 0 /\ FreshGate.passed = FALSE /\ FreshGate.evs = <<>> /\ Len(<<>>) = 0
  BY DEF FreshGate
<1>5. GateAt(FreshGate, <<>>, 0)
  BY <1>3, <1>4 DEF GateAt
<1>6. Uninterrupted(<<>>, 0)
  BY DEF Uninterrupted
<1> QED BY <1>2, <1>4, <1>5, <1>6 DEF Faithful

\* The trainer moves on without training.
LEMMA HistKept ==
    ASSUME TypeOK, TrainerHist, args' = args,
           trainer'.policy = trainer.policy, trainer'.sched = trainer.sched,
           trainer'.gate = trainer.gate, trainer'.lr = trainer.lr,
           trainer'.pc \in {"setup", "save0", "train"} =>
             \/ trainer.pc \in {"setup", "save0", "train"} /\ trainer'.iteration = trainer.iteration
             \/ Trained /\ trainer'.iteration = trainer.iteration + 1,
           Trained' => Trained /\ trainer'.iteration = trainer.iteration
    PROVE  TrainerHist'
<1>0. trainer.iteration \in Nat
  BY DEF TypeOK, TrainerSet
<1>1. ASSUME NEW n
      PROVE  Faithful(trainer, n)' <=> Faithful(trainer, n)
  <2>1. Faithful(trainer', n) <=> Faithful(trainer, n)
    BY FaithfulSame
  <2> QED BY <2>1, FaithfulStays
<1>2. trainer'.pc \in {"setup", "save0", "train"} =>
         /\ Faithful(trainer', trainer'.iteration - 1)
         /\ trainer'.lr = LrFactor(trainer'.iteration - 1, trainer'.gate.end)
  BY <1>0, FaithfulSame DEF TrainerHist
<1>3. Trained' => /\ Faithful(trainer', trainer'.iteration)
                  /\ trainer'.lr = LrFactor(trainer'.iteration, trainer'.gate.end)
  BY FaithfulSame DEF TrainerHist
<1> QED BY <1>2, <1>3, FaithfulStays DEF TrainerHist

\* No checkpoint is written.
LEMMA FileHistKept ==
    ASSUME FileHist, UNCHANGED <<args, ckpts, last, best>>
    PROVE  FileHist'
<1>1. /\ last' # NoCkpt => Faithful(last', last'.iteration)
      /\ \A n \in Iteration : ckpts'[n] # NoCkpt => Faithful(ckpts'[n], n)
      /\ best' # NoCkpt => Uninterrupted(best'.policy, best'.iteration)
  BY DEF FileHist
<1> QED BY <1>1, FaithfulStays DEF FileHist

(* The trainer starts from nothing, from a checkpoint, or trains.          *)
LEMMA TrainerHistNext ==
    ASSUME ResumeFrom \subseteq {"last", "iter"}, TypeOK, DirInv, HistInv, [Next]_vars
    PROVE  TrainerHist'
<1>0. /\ args' = args /\ args \in Runs /\ trainer \in TrainerSet /\ trainer.iteration \in Nat
      /\ ControlInv /\ FileInv /\ QueueInv /\ TrainerHist /\ FileHist
  BY ArgsStay DEF TypeOK, TrainerSet, DirInv, HistInv
<1>1. CASE Start
  <2>1. /\ trainer'.policy = <<>> /\ trainer'.sched = FreshScheduler /\ trainer'.gate = FreshGate
        /\ trainer'.lr = LrFactor(0, 0) /\ trainer'.iteration = 1 /\ trainer'.pc = "setup"
    BY <1>1 DEF Start, Down
  <2>2. Faithful(trainer', 0) /\ trainer'.gate.end = 0
    BY <2>1, FreshFaithful
  <2>3. Faithful(trainer', trainer'.iteration - 1)
        /\ trainer'.lr = LrFactor(trainer'.iteration - 1, trainer'.gate.end)
    BY <2>1, <2>2
  <2> QED BY <1>0, <2>1, <2>3, FaithfulStays DEF TrainerHist, Trained, InLoop
<1>2. ASSUME NEW src \in Sources, Resume(src) \/ Fork(src)
      PROVE  TrainerHist'
  <2> DEFINE c == File(src)
  <2>1. /\ c # NoCkpt /\ trainer'.pc = "setup" /\ trainer'.iteration = c.iteration + 1
        /\ trainer'.policy = c.policy /\ trainer'.sched = ResumedSched(c)
        /\ trainer'.gate = c.gate /\ trainer'.lr = ResumedLr(c)
    BY <1>0, <1>2, ResumeIs
  <2>2. src.kind \in {"last", "iter"}
    BY <1>2 DEF Resume, Fork, Resumable
  <2>3. /\ c \in CkptSet /\ c.iteration \in Nat
        /\ src.kind = "iter" => src.n \in Iteration /\ c = ckpts[src.n]
        /\ src.kind = "last" => c = last
    <3>1. args.iterations \in Nat
      BY ArgsType DEF TypeOK
    <3> QED BY <1>0, <2>1, <3>1, FileIs
  <2> HIDE DEF c
  <2>4. Faithful(c, c.iteration)
    <3>1. CASE src.kind = "last"
      BY <1>0, <2>1, <2>3, <3>1 DEF FileHist
    <3>2. CASE src.kind = "iter"
      BY <1>0, <2>1, <2>3, <3>2 DEF FileHist, FileInv
    <3> QED BY <2>2, <3>1, <3>2
  <2>5. Faithful(trainer', c.iteration)
    BY <1>0, <2>1, <2>3, <2>4, ResumedFaithful
  <2>6. /\ trainer'.iteration - 1 = c.iteration
        /\ trainer'.lr = LrFactor(c.iteration, trainer'.gate.end)
    BY <2>1, <2>3 DEF ResumedLr
  <2>7. Faithful(trainer', trainer'.iteration - 1)
        /\ trainer'.lr = LrFactor(trainer'.iteration - 1, trainer'.gate.end)
    BY <2>5, <2>6
  <2> QED BY <1>0, <2>1, <2>7, FaithfulStays DEF TrainerHist, Trained, InLoop
<1>3. ASSUME NEW ev \in BOOLEAN, Train(ev)
      PROVE  TrainerHist'
  <2> DEFINE n == trainer.iteration - 1
  <2>1. n \in Nat /\ trainer.iteration = n + 1 /\ trainer.pc = "train"
    BY <1>0, <1>3 DEF Train, ControlInv
  <2>2. trainer'.pc = "save" /\ trainer'.iteration = trainer.iteration
    BY <1>0, <1>3 DEF Train, TrainerSet
  <2>3. Faithful(trainer, n) /\ trainer.lr = LrFactor(n, trainer.gate.end)
    BY <1>0, <2>1 DEF TrainerHist
  <2> HIDE DEF n
  <2>4. Faithful(trainer', n + 1) /\ trainer'.lr = LrFactor(n + 1, trainer'.gate.end)
    BY <1>0, <1>3, <2>1, <2>3, TrainFaithful
  <2>5. Faithful(trainer', trainer'.iteration)
        /\ trainer'.lr = LrFactor(trainer'.iteration, trainer'.gate.end)
    BY <2>1, <2>2, <2>4
  <2> QED BY <1>0, <2>2, <2>5, FaithfulStays DEF TrainerHist
<1>4. CASE FitCompleted \/ Abort \/ Crash \/ SaveFinal \/ Finish \/ Drain \/ DrainTimeout
  <2>1. CASE FitCompleted \/ Abort
    BY <1>0, <2>1 DEF FitCompleted, Abort, TrainerSet, TrainerHist, Trained, InLoop
  <2>2. CASE Crash \/ SaveFinal
    BY <2>2 DEF Crash, SaveFinal, Down, TrainerHist, Trained, InLoop
  <2>3. CASE Finish
    <3>1. /\ trainer'.pc \in {"poll", "final"} /\ trainer'.completed = trainer.completed
          /\ trainer'.pc = "poll" => trainer.completed
      BY <1>0, <2>3 DEF Finish, TrainerSet
    <3> QED BY <3>1 DEF TrainerHist, Trained, InLoop
  <2>4. CASE Drain \/ DrainTimeout
    <3>1. trainer'.pc \in {"poll", "final"} /\ trainer'.completed = trainer.completed
      BY <1>0, <2>4 DEF Drain, DrainTimeout, TrainerSet
    <3>2. trainer.completed
      BY <1>0, <2>4 DEF Drain, DrainTimeout, ControlInv
    <3> QED BY <3>1, <3>2 DEF TrainerHist, Trained, InLoop
  <2> QED BY <1>4, <2>1, <2>2, <2>3, <2>4
<1>5. CASE OnValidation \/ SelectBest
  <2>1. \E pc \in {"next", "consume"} :
          /\ trainer'.pc = pc /\ trainer.pc \in {"selectInline", "select"}
          /\ trainer'.iteration = trainer.iteration
          /\ trainer'.policy = trainer.policy /\ trainer'.sched = trainer.sched
          /\ trainer'.gate = trainer.gate /\ trainer'.lr = trainer.lr
          /\ trainer'.completed = trainer.completed
    BY <1>0, <1>5 DEF OnValidation, SelectBest, HandleVal, TrainerSet
  <2> QED BY <1>0, <2>1, HistKept DEF Trained, InLoop
<1>6. CASE \/ SetupEvaluator \/ SaveInitial \/ SaveLast \/ SavePeriodic \/ NextIteration
           \/ PollResults \/ LogResult \/ ConsumeResult
           \/ \E score \in Scores \cup {NoScore} : Validate(score)
  <2>1. /\ trainer'.policy = trainer.policy /\ trainer'.sched = trainer.sched
        /\ trainer'.gate = trainer.gate /\ trainer'.lr = trainer.lr
        /\ trainer'.completed = trainer.completed
    BY <1>0, <1>6 DEF SetupEvaluator, SaveInitial, SaveLast, SavePeriodic, NextIteration,
                      PollResults, LogResult, ConsumeResult, Validate, TrainerSet
  <2> DEFINE Moves ==
               /\ trainer'.pc \in {"setup", "save0", "train"} =>
                    \/ /\ trainer.pc \in {"setup", "save0", "train"}
                       /\ trainer'.iteration = trainer.iteration
                    \/ Trained /\ trainer'.iteration = trainer.iteration + 1
               /\ Trained' => Trained /\ trainer'.iteration = trainer.iteration
  <2>2. ASSUME SetupEvaluator \/ SaveInitial PROVE Moves
    BY <1>0, <2>2 DEF SetupEvaluator, SaveInitial, TrainerSet, Trained, InLoop
  <2>3. ASSUME SaveLast PROVE Moves
    BY <1>0, <2>3 DEF SaveLast, AfterSave, TrainerSet, Trained, InLoop
  <2>4. ASSUME SavePeriodic PROVE Moves
    BY <1>0, <2>4 DEF SavePeriodic, AfterSave, TrainerSet, Trained, InLoop
  <2>5. ASSUME NextIteration PROVE Moves
    BY <1>0, <2>5 DEF NextIteration, TrainerSet, Trained, InLoop, ControlInv
  <2>6. ASSUME PollResults PROVE Moves
    BY <1>0, <2>6 DEF PollResults, AfterPoll, TrainerSet, Trained, InLoop
  <2>7. ASSUME LogResult PROVE Moves
    BY <1>0, <2>7 DEF LogResult, TrainerSet, Trained, InLoop
  <2>8. ASSUME ConsumeResult PROVE Moves
    BY <1>0, <2>8 DEF ConsumeResult, AfterPoll, TrainerSet, Trained, InLoop
  <2>9. ASSUME \E score \in Scores \cup {NoScore} : Validate(score) PROVE Moves
    BY <1>0, <2>9 DEF Validate, TrainerSet, Trained, InLoop
  <2>10. Moves
    BY <1>6, <2>2, <2>3, <2>4, <2>5, <2>6, <2>7, <2>8, <2>9
  <2> QED BY <1>0, <2>1, <2>10, HistKept
<1>7. CASE WatcherStep \/ UNCHANGED vars
  <2>1. trainer' = trainer
    BY <1>7, WatcherFrame DEF vars
  <2> QED BY <1>0, <2>1, HistKept DEF Trained
<1> QED BY <1>1, <1>2, <1>3, <1>4, <1>5, <1>6, <1>7
        DEF Next, Launch, Trainer, Watcher, WatcherStep

(* What is saved is what the trainer has behind it.                        *)
LEMMA FileHistNext ==
    ASSUME TypeOK, DirInv, HistInv, [Next]_vars
    PROVE  FileHist'
<1>0. /\ args' = args /\ trainer \in TrainerSet /\ trainer.iteration \in Nat
      /\ ckpts \in [Iteration -> CkptSet] /\ best \in CkptSet /\ last \in CkptSet
      /\ Iteration \subseteq Nat /\ 0 \in Iteration
      /\ ControlInv /\ FileInv /\ QueueInv /\ TrainerHist /\ FileHist
  BY ArgsStay, FreshType DEF TypeOK, TrainerSet, DirInv, HistInv
<1>1. CASE SaveInitial
  <2> DEFINE c == Ckpt(trainer, 0, trainer.policy)
  <2>1. trainer.pc = "save0" /\ ckpts' = [ckpts EXCEPT ![0] = c] /\ last' = last /\ best' = best
    BY <1>1 DEF SaveInitial
  <2>2. Faithful(trainer, 0)
    BY <1>0, <2>1 DEF TrainerHist, ControlInv
  <2>3. Faithful(c, 0)
    BY <1>0, <2>2, CkptFaithful
  <2> HIDE DEF c
  <2>4. \A n \in Iteration : ckpts'[n] # NoCkpt => Faithful(ckpts'[n], n)
    <3> SUFFICES ASSUME NEW n \in Iteration, ckpts'[n] # NoCkpt
                 PROVE  Faithful(ckpts'[n], n)
      OBVIOUS
    <3>1. CASE n = 0
      BY <1>0, <2>1, <2>3, <3>1
    <3>2. CASE n # 0
      <4>1. ckpts'[n] = ckpts[n]
        BY <1>0, <2>1, <3>2
      <4> QED BY <1>0, <4>1 DEF FileHist
    <3> QED BY <3>1, <3>2
  <2> QED BY <1>0, <2>1, <2>4, FaithfulStays DEF FileHist
<1>2. CASE SavePeriodic
  <2> DEFINE m == trainer.iteration
             c == Ckpt(trainer, m, trainer.policy)
  <2>1. trainer.pc = "periodic" /\ ckpts' = [ckpts EXCEPT ![m] = c] /\ last' = last /\ best' = best
    BY <1>2 DEF SavePeriodic
  <2>2. Faithful(trainer, m)
    BY <1>0, <2>1 DEF TrainerHist, Trained, InLoop, ControlInv, Unsaved
  <2>3. Faithful(c, m)
    BY <1>0, <2>2, CkptFaithful
  <2> HIDE DEF c, m
  <2>4. \A n \in Iteration : ckpts'[n] # NoCkpt => Faithful(ckpts'[n], n)
    <3> SUFFICES ASSUME NEW n \in Iteration, ckpts'[n] # NoCkpt
                 PROVE  Faithful(ckpts'[n], n)
      OBVIOUS
    <3>1. CASE n = m
      BY <1>0, <2>1, <2>3, <3>1
    <3>2. CASE n # m
      <4>1. ckpts'[n] = ckpts[n]
        BY <1>0, <2>1, <3>2
      <4> QED BY <1>0, <4>1 DEF FileHist
    <3> QED BY <3>1, <3>2
  <2> QED BY <1>0, <2>1, <2>4, FaithfulStays DEF FileHist
<1>3. CASE SaveLast
  <2> DEFINE m == trainer.iteration
             c == Ckpt(trainer, m, trainer.policy)
  <2>1. trainer.pc = "save" /\ last' = c /\ ckpts' = ckpts /\ best' = best
    BY <1>3 DEF SaveLast
  <2>2. Faithful(trainer, m)
    BY <1>0, <2>1 DEF TrainerHist, Trained, InLoop, ControlInv, Unsaved
  <2>3. Faithful(c, m) /\ c.iteration = m
    BY <1>0, <2>2, CkptFaithful, CkptType DEF TrainerSet
  <2> HIDE DEF c, m
  <2>4. Faithful(last', last'.iteration)
    BY <2>1, <2>3
  <2>5. /\ \A n \in Iteration : ckpts'[n] # NoCkpt => Faithful(ckpts'[n], n)
        /\ best' # NoCkpt => Uninterrupted(best'.policy, best'.iteration)
    BY <1>0, <2>1 DEF FileHist
  <2> QED BY <1>0, <2>4, <2>5, FaithfulStays DEF FileHist
<1>4. CASE OnValidation \/ SelectBest
  <2>1. PICK n \in Nat, p \in History :
          /\ Uninterrupted(p, n)
          /\ \/ best'.iteration = n /\ best'.policy = p
             \/ best' = best
    <3>1. CASE OnValidation
      <4>1. trainer.pc = "selectInline" /\ trainer.iteration \in Iteration
            /\ Faithful(trainer, trainer.iteration)
        <5>1. trainer.pc = "selectInline" /\ Trained /\ trainer.iteration \in 1..args.iterations
          BY <1>0, <3>1 DEF OnValidation, ControlInv, Trained, InLoop
        <5> QED BY <1>0, <5>1, ArgsType, TrainAssumption DEF TypeOK, TrainerHist, Iteration
      <4>2. log[trainer.iteration] \in Int /\ trainer.policy \in History
            /\ Uninterrupted(trainer.policy, trainer.iteration)
        BY <1>0, <4>1 DEF TypeOK, TrainerSet, Faithful
      <4>3. \/ best'.iteration = trainer.iteration /\ best'.policy = trainer.policy
            \/ best' = best
        BY <1>0, <3>1, <4>2, HandleValIs DEF OnValidation
      <4> QED BY <1>0, <4>2, <4>3
    <3>2. CASE SelectBest
      <4>1. /\ trainer.pc = "select" /\ Polled \in Iteration /\ Polled > 0
            /\ results[Polled].score \in Int /\ ckpts[Polled].policy \in History
            /\ ckpts[Polled] # NoCkpt
        BY <1>0, <3>2, PolledIs
           DEF SelectBest, Consuming, ResultSet, CkptSet, QueueInv, DirInv, ResultInv,
               ResultOfItsCheckpoint
      <4>2. Uninterrupted(ckpts[Polled].policy, Polled)
        BY <1>0, <4>1 DEF FileHist, Faithful
      <4>3. \/ best'.iteration = Polled /\ best'.policy = ckpts[Polled].policy
            \/ best' = best
        BY <1>0, <3>2, <4>1, HandleValIs DEF SelectBest, StateFn
      <4> QED BY <1>0, <4>1, <4>2, <4>3
    <3> QED BY <1>4, <3>1, <3>2
  <2>2. ckpts' = ckpts /\ last' = last
    BY <1>4 DEF OnValidation, SelectBest
  <2>3. best' # NoCkpt => Uninterrupted(best'.policy, best'.iteration)
    BY <1>0, <2>1 DEF FileHist
  <2>4. /\ \A k \in Iteration : ckpts'[k] # NoCkpt => Faithful(ckpts'[k], k)
        /\ last' # NoCkpt => Faithful(last', last'.iteration)
    BY <1>0, <2>2 DEF FileHist
  <2> QED BY <1>0, <2>3, <2>4, FaithfulStays DEF FileHist
<1>5. ASSUME NEW src \in Sources, Fork(src)
      PROVE  FileHist'
  <2>1. /\ \A n \in Iteration : ckpts'[n] = NoCkpt
        /\ last' = NoCkpt /\ best' \in {best, NoCkpt}
    BY <1>0, <1>5 DEF Fork
  <2>2. best' # NoCkpt => Uninterrupted(best'.policy, best'.iteration)
    BY <1>0, <2>1 DEF FileHist
  <2> QED BY <1>0, <2>1, <2>2, FaithfulStays DEF FileHist
<1>6. CASE WatcherStep \/ QuietStep
  BY <1>0, <1>6, WatcherFrame, QuietFrame, FileHistKept
<1>7. CASE \/ SaveFinal \/ SetupEvaluator \/ Finish \/ LogResult \/ ConsumeResult
           \/ (\E score \in Scores \cup {NoScore} : Validate(score)) \/ UNCHANGED vars
  <2>1. UNCHANGED <<ckpts, last, best>>
    BY <1>7 DEF SaveFinal, SetupEvaluator, Finish, LogResult, ConsumeResult, Validate, dir, vars
  <2> QED BY <1>0, <2>1, FileHistKept
<1> QED BY <1>1, <1>2, <1>3, <1>4, <1>5, <1>6, <1>7
        DEF Next, Launch, Trainer, Watcher, WatcherStep, QuietStep

LEMMA HistInit ==
    ASSUME Init
    PROVE  HistInv
<1>1. /\ trainer.pc = "down" /\ last = NoCkpt /\ best = NoCkpt
      /\ \A n \in Iteration : ckpts[n] = NoCkpt
  BY DEF Init, Down
<1> QED BY <1>1 DEF HistInv, TrainerHist, FileHist, Trained, InLoop

(* Whatever is killed, raised or resumed from the latest or a periodic     *)
(* checkpoint, in place or into a new directory, the weights and the       *)
(* schedules of the trainer and of its checkpoints are those of a run that *)
(* was never interrupted.  The best and the final checkpoint carry the     *)
(* schedules of the moment of the save, and have to be left out.           *)
THEOREM HistoryTheorem ==
    ASSUME ResumeFrom \subseteq {"last", "iter"}
    PROVE  Spec => []HistInv
<1>1. Init => TypeOK /\ DirInv /\ HistInv
  BY TypeInit, DirInit, HistInit
<1>2. TypeOK /\ DirInv /\ HistInv /\ [Next]_vars => HistInv'
  BY TrainerHistNext, FileHistNext DEF HistInv
<1> QED BY <1>1, <1>2, DirectoryTheorem, PTL DEF Spec

(* A run resumed from the latest or a periodic checkpoint gets the boards, *)
(* the critic phase and the learning rates of an uninterrupted run.        *)
THEOREM ResumedTheorem ==
    ASSUME ResumeFrom \subseteq {"last", "iter"}
    PROVE  Spec => []ResumedAsUninterrupted
<1>1. TypeOK /\ DirInv /\ HistInv => ResumedAsUninterrupted
  <2> SUFFICES ASSUME TypeOK, DirInv, HistInv, NEW c \in {last} \cup Range(ckpts), c # NoCkpt
               PROVE  Uninterrupted(c.policy, c.iteration)
    BY DEF ResumedAsUninterrupted
  <2>1. CASE c = last
    BY <2>1 DEF HistInv, FileHist, Faithful
  <2>2. CASE c \in Range(ckpts)
    <3>1. PICK n \in Iteration : c = ckpts[n]
      BY <2>2 DEF Range, TypeOK
    <3>2. c.iteration = n /\ Faithful(c, n)
      BY <3>1 DEF DirInv, FileInv, HistInv, FileHist
    <3> QED BY <3>2 DEF Faithful
  <2> QED BY <2>1, <2>2
<1> QED BY <1>1, DirectoryTheorem, HistoryTheorem, PTL

(* policy_best.pt holds the very policy its score was measured on, trained *)
(* as without an interruption.                                             *)
THEOREM BestTheorem ==
    ASSUME ResumeFrom \subseteq {"last", "iter"}
    PROVE  Spec => []BestIsItsCheckpoint
<1>1. TypeOK /\ DirInv /\ HistInv => BestIsItsCheckpoint
  <2> SUFFICES ASSUME TypeOK, DirInv, HistInv, best # NoCkpt
               PROVE  /\ Uninterrupted(best.policy, best.iteration)
                      /\ results[best.iteration].state # "absent" =>
                           best.policy = results[best.iteration].policy
                           /\ best.score = results[best.iteration].score
    BY DEF BestIsItsCheckpoint
  <2>1. Uninterrupted(best.policy, best.iteration)
    BY DEF HistInv, FileHist
  <2>2. best.iteration \in Iteration
    <3>1. best.iteration \in 1..args.iterations /\ args \in Runs
      BY DEF DirInv, FileInv, TypeOK
    <3> QED BY <3>1, ArgsType, TrainAssumption DEF Iteration
  <2> QED BY <2>1, <2>2 DEF DirInv, BestInv, ResultInv, ResultOfItsCheckpoint, WatcherInv
<1> QED BY <1>1, DirectoryTheorem, HistoryTheorem, PTL
=============================================================================
