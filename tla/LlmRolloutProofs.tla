-------------------------- MODULE LlmRolloutProofs --------------------------
(***************************************************************************)
(* The evaluation rollout, for any number of environments, boards, steps,  *)
(* launches and failures.                                                  *)
(*                                                                         *)
(* An environment that is not scored yet has earned the board its engine   *)
(* is on.  One that is scored has kept its return, and the engine of one   *)
(* that has reported done is left alone; that of one the guards stopped    *)
(* plays on, but what it shows was frozen when it was scored.              *)
(***************************************************************************)
EXTENDS LlmRollout, TLAPS

Playing == {"generate", "score", "guard", "finalize", "dump", "save"}
Between == {"off", "episode", "usage", "reload"}

OutT    == [n : Int, kind : Kinds, reward : Int, done : BOOLEAN]
FrozenT == {<<>>} \cup {<<o>> : o \in OutT}
RowT    == {<<>>} \cup [ret : Int, scored : Int]
VecT    == [board : Int, done : [Envs -> BOOLEAN]]
MgrT    == [done : [Envs -> BOOLEAN], ret : [Envs -> Int], rows : [Envs -> RowT], todo : SUBSET Envs]

(* A worker; what its flags are does not matter.                           *)
IsWorker(w) == DOMAIN w = {"up", "board", "n", "over"} /\ w.n \in Int

(* The types the argument needs; run is a record with the fields of Off.   *)
TypeOK ==
    /\ DOMAIN run = DOMAIN Off
    /\ run.pc \in Playing \cup Between \cup {"rebuild"} /\ run.board \in Int
    /\ run.dones \in [Envs -> BOOLEAN]
    /\ run.out \in [Envs -> OutT] /\ run.frozen \in [Envs -> FrozenT]
    /\ mgr \in MgrT /\ vec \in VecT
    /\ DOMAIN workers = Envs /\ \A i \in Envs : IsWorker(workers[i])

BoardInv ==
    /\ run.pc # "off" => vec.board = run.board
    /\ \A i \in Envs : /\ run.pc # "off" /\ workers[i].up => workers[i].board = vec.board
                       /\ workers[i].over => vec.done[i]

(* A fresh episode starts from a fresh manager and a driver with no past.  *)
FreshInv ==
    /\ run.pc \in Between => mgr = FreshMgr
    /\ run.pc = "episode" => \A i \in Envs : run.out[i].n = 0 /\ run.frozen[i] = <<>>

(* The return is that of the engine's board until the episode is scored.   *)
EarnedInv ==
    run.pc \in Playing => \A i \in Envs :
        /\ workers[i].up => workers[i].n >= 0 /\ workers[i].n = run.out[i].n
        /\ workers[i].up /\ ~mgr.done[i] => workers[i].n = mgr.ret[i]
        /\ mgr.done[i] => /\ mgr.rows[i] # <<>> /\ mgr.rows[i].ret = mgr.ret[i]
                          /\ mgr.rows[i].scored \in {None, mgr.ret[i]}

(* What is shown of a scored environment is what it was scored on.         *)
ShownInv ==
    run.pc \in {"generate", "score", "guard", "finalize"} => \A i \in Envs :
        /\ run.pc = "score" /\ i \in mgr.todo => vec.done[i] /\ run.out[i].done
        /\ run.frozen[i] # <<>> => run.dones[i] /\ mgr.done[i]
        /\ mgr.done[i] => mgr.rows[i].scored \in {None, Shown(i).n}
        /\ mgr.done[i] /\ run.frozen[i] = <<>> => vec.done[i] /\ run.out[i].done

ResultInv ==
    run.pc \in {"dump", "save"} => \A i \in Envs :
        mgr.done[i] /\ run.results[i].metrics \in {None, run.results[i].shown}

(* The tries of a board are those of its dumps, unless an episode of it    *)
(* crashed; while an episode runs the board has no usage file.             *)
Episode == Playing \cup {"rebuild"}

CountersOK ==
    /\ launches \in 0..MaxLaunch /\ tries \in Nat
    /\ DOMAIN usage = Boards
    /\ dumps \in [Boards -> [Episodes -> [Envs -> [json : Nat, pcb : Nat]]]]
    /\ run.pc # "off" => launches >= 1 /\ run.board \in Boards
    /\ run.pc = "reload" => run.board < NBoards
    /\ run.pc \in Episode \cup {"episode", "usage"} =>
         /\ run.ep \in 1..NEpisodes /\ run.tries \in Seq(Nat) /\ run.crashed \in BOOLEAN
         /\ Len(run.tries) = IF run.pc = "usage" THEN NEpisodes ELSE run.ep - 1
    /\ run.pc \in Episode => tries >= 1
    /\ run.pc = "dump" => run.k \in Envs

DumpInv ==
    /\ \A b \in Boards, e \in Episodes, i \in Envs :
         dumps[b][e][i].json > 0 => launches >= 1 /\ e <= NEpisodes
    /\ run.pc \in {"dump", "save"} =>
         \A i \in Envs : i < run.k => dumps[run.board][run.ep][i].json = tries
    /\ run.pc = "save" => run.k = NEnvs + 1

TriesInv ==
    /\ run.pc \in Episode => usage[run.board] = {}
    /\ run.pc \in Episode \cup {"episode", "usage"} =>
         IF run.crashed THEN usage[run.board] = {}
         ELSE \A e \in 1..Len(run.tries) : /\ Complete(run.board, e)
                                           /\ run.tries[e] = Recorded(run.board, e)

UsageInv == CountersOK /\ DumpInv /\ TriesInv /\ UsageCoversDumps

IInv == TypeOK /\ BoardInv /\ FreshInv /\ EarnedInv /\ ShownInv /\ ResultInv

-----------------------------------------------------------------------------
(* The records of the driver and of the manager.                           *)
LEMMA Records ==
    /\ DOMAIN Off = {"pc", "board", "ep", "step", "k", "dones", "known", "streak", "stall", "frozen",
                     "out", "results", "tries", "crashed"}
    /\ Off.pc = "off" /\ Off.board = 0
    /\ Off.dones \in [Envs -> BOOLEAN] /\ Off.out \in [Envs -> OutT] /\ Off.frozen \in [Envs -> FrozenT]
    /\ \A i \in Envs : Off.out[i].n = 0 /\ Off.frozen[i] = <<>>
    /\ FreshMgr \in MgrT /\ FreshMgr.done = All(FALSE) /\ FreshMgr.ret = All(0)
    /\ IsWorker(Gone) /\ \A b \in Int : IsWorker(Spawned(b))
BY DEF Off, All, OutT, FrozenT, Kinds, FreshMgr, MgrT, RowT, Gone, IsWorker, Spawned, None

(* Assignments to fields of a worker and of the backend.                   *)
LEMMA SetWorker ==
    ASSUME NEW w, IsWorker(w), NEW n \in Int, NEW over
    PROVE  LET v == [w EXCEPT !.n = n, !.over = over]
           IN IsWorker(v) /\ v.n = n /\ v.over = over /\ v.up = w.up /\ v.board = w.board
BY DEF IsWorker

LEMMA SetDone ==
    ASSUME NEW v \in VecT, NEW d \in [Envs -> BOOLEAN]
    PROVE  LET w == [v EXCEPT !.done = d] IN w \in VecT /\ w.board = v.board /\ w.done = d
BY DEF VecT

(* A driver that only changes its place.                                   *)
LEMMA Moved ==
    ASSUME TypeOK, NEW pc \in Playing \cup Between \cup {"rebuild"}, run' = [run EXCEPT !.pc = pc]
    PROVE  /\ DOMAIN run' = DOMAIN Off /\ run'.pc = pc
           /\ \A f \in DOMAIN Off : f # "pc" => run'[f] = run[f]
BY Records DEF TypeOK

(* The end of an episode, complete or crashed.                             *)
LEMMA After ==
    ASSUME TypeOK, NEW try, NEW crashed, run' = AfterEpisode(try, crashed)
    PROVE  /\ DOMAIN run' = DOMAIN Off /\ run'.pc \in {"episode", "usage"} /\ run'.board = run.board
           /\ run'.dones \in [Envs -> BOOLEAN] /\ run'.out \in [Envs -> OutT] /\ run'.frozen \in [Envs -> FrozenT]
           /\ \A i \in Envs : run'.out[i].n = 0 /\ run'.frozen[i] = <<>>
<1> DEFINE nxt == IF run.ep < NEpisodes THEN "episode" ELSE "usage"
           ep == run.ep + (IF run.ep < NEpisodes THEN 1 ELSE 0)
           past == Append(run.tries, try)
           bad == run.crashed \/ crashed
<1>1. run' = [Off EXCEPT !.pc = nxt, !.board = run.board, !.ep = ep, !.tries = past, !.crashed = bad]
  BY DEF AfterEpisode
<1>2. nxt \in {"episode", "usage"}
  OBVIOUS
<1> HIDE DEF nxt, ep, past, bad
<1> QED BY <1>1, <1>2, Records

-----------------------------------------------------------------------------
(* Between the episodes.                                                   *)
LEMMA LaunchStep ==
    ASSUME IInv, Launch \/ ReloadBoards
    PROVE  IInv'
<1>1. PICK b \in Int : /\ run' = [Off EXCEPT !.pc = "episode", !.board = b, !.ep = 1]
                       /\ vec' = [board |-> b, done |-> All(FALSE)] /\ workers' = All(Spawned(b))
                       /\ mgr' = FreshMgr
  <2>1. CASE Launch
    <3>1. 1 \in Int
      OBVIOUS
    <3> QED BY <2>1, <3>1, Zenon DEF Launch
  <2>2. CASE ReloadBoards
    <3>1. run.board + 1 \in Int /\ mgr' = FreshMgr
      BY <2>2 DEF ReloadBoards, IInv, TypeOK, FreshInv, Between
    <3> QED BY <2>2, <3>1, Zenon DEF ReloadBoards, Paths
  <2> QED BY <2>1, <2>2
<1>2. /\ DOMAIN run' = DOMAIN Off /\ run'.pc = "episode" /\ run'.board = b
      /\ run'.dones \in [Envs -> BOOLEAN] /\ run'.out \in [Envs -> OutT] /\ run'.frozen \in [Envs -> FrozenT]
      /\ \A i \in Envs : run'.out[i].n = 0 /\ run'.frozen[i] = <<>>
  BY <1>1, Records
<1>3. \A i \in Envs : workers'[i] = Spawned(b) /\ vec'.done[i] = FALSE
  BY <1>1 DEF All
<1>4. /\ vec'.board = b /\ vec' \in VecT /\ mgr' \in MgrT
      /\ DOMAIN workers' = Envs /\ \A i \in Envs : IsWorker(workers'[i])
  BY <1>1, Records DEF All, VecT
<1>5. \A i \in Envs : workers'[i].board = b /\ workers'[i].over = FALSE
  BY <1>3 DEF Spawned
<1>6. TypeOK'
  BY <1>2, <1>4 DEF TypeOK, Between
<1>7. BoardInv'
  BY <1>1, <1>2, <1>3, <1>4, <1>5 DEF IInv, TypeOK, BoardInv, FreshInv, EarnedInv, ShownInv, ResultInv, Playing, Between
<1>8. FreshInv'
  BY <1>1, <1>2, <1>3, <1>4, <1>5 DEF IInv, TypeOK, BoardInv, FreshInv, EarnedInv, ShownInv, ResultInv, Playing, Between
<1>9. EarnedInv'
  BY <1>1, <1>2, <1>3, <1>4, <1>5 DEF IInv, TypeOK, BoardInv, FreshInv, EarnedInv, ShownInv, ResultInv, Playing, Between
<1>10. ShownInv'
  BY <1>1, <1>2, <1>3, <1>4, <1>5 DEF IInv, TypeOK, BoardInv, FreshInv, EarnedInv, ShownInv, ResultInv, Playing, Between
<1>11. ResultInv'
  BY <1>1, <1>2, <1>3, <1>4, <1>5 DEF IInv, TypeOK, BoardInv, FreshInv, EarnedInv, ShownInv, ResultInv, Playing, Between
<1> QED BY <1>6, <1>7, <1>8, <1>9, <1>10, <1>11 DEF IInv

LEMMA SkipEpisodeStep ==
    ASSUME IInv, SkipEpisode
    PROVE  IInv'
<1>1. run.pc = "episode" /\ UNCHANGED <<mgr, vec, workers>>
  BY DEF SkipEpisode
<1>2. /\ DOMAIN run' = DOMAIN Off /\ run'.pc \in {"episode", "usage"} /\ run'.board = run.board
      /\ run'.dones \in [Envs -> BOOLEAN] /\ run'.out \in [Envs -> OutT] /\ run'.frozen \in [Envs -> FrozenT]
      /\ \A i \in Envs : run'.out[i].n = 0 /\ run'.frozen[i] = <<>>
  BY After DEF IInv, SkipEpisode
<1>3. TypeOK'
  BY <1>1, <1>2 DEF IInv, TypeOK, Between
<1>4. BoardInv'
  BY <1>1, <1>2 DEF IInv, TypeOK, BoardInv, FreshInv, EarnedInv, ShownInv, ResultInv, Playing, Between
<1>5. FreshInv'
  BY <1>1, <1>2 DEF IInv, TypeOK, BoardInv, FreshInv, EarnedInv, ShownInv, ResultInv, Playing, Between
<1>6. EarnedInv'
  BY <1>1, <1>2 DEF IInv, TypeOK, BoardInv, FreshInv, EarnedInv, ShownInv, ResultInv, Playing, Between
<1>7. ShownInv'
  BY <1>1, <1>2 DEF IInv, TypeOK, BoardInv, FreshInv, EarnedInv, ShownInv, ResultInv, Playing, Between
<1>8. ResultInv'
  BY <1>1, <1>2 DEF IInv, TypeOK, BoardInv, FreshInv, EarnedInv, ShownInv, ResultInv, Playing, Between
<1> QED BY <1>3, <1>4, <1>5, <1>6, <1>7, <1>8 DEF IInv

LEMMA WriteUsageStep ==
    ASSUME IInv, WriteUsage
    PROVE  IInv'
<1>1. run.pc = "usage" /\ mgr' = mgr /\ vec' = vec
  BY DEF WriteUsage
<1>2. CASE run.board < NBoards
  <2>1. run' = [run EXCEPT !.pc = "reload"] /\ workers' = workers
    BY <1>2 DEF WriteUsage
  <2>2. /\ DOMAIN run' = DOMAIN Off /\ run'.pc = "reload" /\ run'.board = run.board
        /\ run'.dones = run.dones /\ run'.out = run.out /\ run'.frozen = run.frozen
    BY <2>1, Moved, Records DEF IInv, Between
  <2>3. TypeOK'
    BY <1>1, <2>1, <2>2 DEF IInv, TypeOK, Between
  <2> QED BY <1>1, <2>1, <2>2, <2>3 DEF IInv, BoardInv, FreshInv, EarnedInv, ShownInv, ResultInv, Playing, Between
<1>3. CASE ~(run.board < NBoards)
  <2>1. run' = Off /\ \A i \in Envs : workers'[i] = Gone
    BY <1>3 DEF WriteUsage, All
  <2>2. run'.pc = "off" /\ \A i \in Envs : workers'[i].up = FALSE /\ workers'[i].over = FALSE
    BY <2>1, Records DEF Gone
  <2>3. DOMAIN workers' = Envs /\ \A i \in Envs : IsWorker(workers'[i])
    BY <1>3, Records DEF WriteUsage, All
  <2>4. TypeOK'
    BY <1>1, <2>1, <2>3, Records DEF IInv, TypeOK, Between
  <2> QED BY <1>1, <2>2, <2>4 DEF IInv, BoardInv, FreshInv, EarnedInv, ShownInv, ResultInv, Playing, Between
<1> QED BY <1>2, <1>3

LEMMA ExitStep ==
    ASSUME IInv, Exit
    PROVE  IInv'
<1>1. run' = Off /\ mgr' = FreshMgr /\ workers' = All(Gone) /\ vec' = [vec EXCEPT !.done = All(FALSE)]
  BY DEF Exit
<1>2. run'.pc = "off" /\ \A i \in Envs : workers'[i].up = FALSE /\ workers'[i].over = FALSE
  BY <1>1, Records DEF Gone, All
<1>3. TypeOK'
  <2>1. DOMAIN workers' = Envs /\ \A i \in Envs : IsWorker(workers'[i])
    BY <1>1, Records DEF All
  <2>2. All(FALSE) \in [Envs -> BOOLEAN]
    BY DEF All
  <2>3. vec' \in VecT
    BY <1>1, <2>2, SetDone DEF IInv, TypeOK
  <2> QED BY <1>1, <2>1, <2>3, Records DEF TypeOK, Between
<1>4. BoardInv'
  BY <1>1, <1>2 DEF IInv, TypeOK, BoardInv, FreshInv, EarnedInv, ShownInv, ResultInv, Playing, Between
<1>5. FreshInv'
  BY <1>1, <1>2 DEF IInv, TypeOK, BoardInv, FreshInv, EarnedInv, ShownInv, ResultInv, Playing, Between
<1>6. EarnedInv'
  BY <1>1, <1>2 DEF IInv, TypeOK, BoardInv, FreshInv, EarnedInv, ShownInv, ResultInv, Playing, Between
<1>7. ShownInv'
  BY <1>1, <1>2 DEF IInv, TypeOK, BoardInv, FreshInv, EarnedInv, ShownInv, ResultInv, Playing, Between
<1>8. ResultInv'
  BY <1>1, <1>2 DEF IInv, TypeOK, BoardInv, FreshInv, EarnedInv, ShownInv, ResultInv, Playing, Between
<1> QED BY <1>3, <1>4, <1>5, <1>6, <1>7, <1>8 DEF IInv

LEMMA BeginEpisodeStep ==
    ASSUME IInv, BeginEpisode
    PROVE  IInv'
<1>1. run.pc = "episode" /\ mgr' = mgr /\ mgr = FreshMgr
      /\ \A i \in Envs : run.out[i].n = 0 /\ run.frozen[i] = <<>>
  BY DEF BeginEpisode, IInv, FreshInv, Between
<1>2. \A i \in Envs : mgr.done[i] = FALSE /\ mgr.ret[i] = 0
  BY <1>1, Records DEF All
<1>3. CASE run' = [run EXCEPT !.pc = "rebuild"] /\ UNCHANGED <<workers, vec>>
  <2>1. /\ DOMAIN run' = DOMAIN Off /\ run'.pc = "rebuild" /\ run'.board = run.board
        /\ run'.dones = run.dones /\ run'.out = run.out /\ run'.frozen = run.frozen
    BY <1>3, Moved, Records DEF IInv
  <2>2. TypeOK'
    BY <1>1, <1>3, <2>1 DEF IInv, TypeOK
  <2> QED BY <1>1, <1>3, <2>1, <2>2 DEF IInv, BoardInv, FreshInv, EarnedInv, ShownInv, ResultInv, Playing, Between
<1>4. CASE /\ workers' = [i \in Envs |-> [workers[i] EXCEPT !.n = 0, !.over = FALSE]]
           /\ vec' = [vec EXCEPT !.done = Unmasked] /\ run' = [run EXCEPT !.pc = "generate"]
  <2>1. /\ DOMAIN run' = DOMAIN Off /\ run'.pc = "generate" /\ run'.board = run.board
        /\ run'.dones = run.dones /\ run'.out = run.out /\ run'.frozen = run.frozen
    BY <1>4, Moved, Records DEF IInv, Playing
  <2>2. /\ vec'.board = vec.board /\ \A i \in Envs : vec'.done[i] = FALSE
        /\ vec' \in VecT
    <3>1. Unmasked \in [Envs -> BOOLEAN] /\ \A i \in Envs : Unmasked[i] = FALSE
      BY DEF Unmasked, All
    <3> QED BY <1>4, <3>1, SetDone DEF IInv, TypeOK
  <2>3. /\ DOMAIN workers' = Envs /\ \A i \in Envs : IsWorker(workers'[i])
        /\ \A i \in Envs : workers'[i].n = 0 /\ workers'[i].over = FALSE /\ workers'[i].up = workers[i].up
                           /\ workers'[i].board = workers[i].board
    <3>1. ASSUME NEW i \in Envs
          PROVE  /\ IsWorker(workers'[i]) /\ workers'[i].n = 0 /\ workers'[i].over = FALSE
                 /\ workers'[i].up = workers[i].up /\ workers'[i].board = workers[i].board
      <4>1. workers'[i] = [workers[i] EXCEPT !.n = 0, !.over = FALSE] /\ IsWorker(workers[i])
        BY <1>4 DEF IInv, TypeOK
      <4> QED BY <4>1 DEF IsWorker
    <3> QED BY <1>4, <3>1
  <2>4. TypeOK'
    BY <1>1, <2>1, <2>2, <2>3 DEF IInv, TypeOK, Playing
  <2>5. BoardInv' /\ FreshInv' /\ ResultInv'
    BY <1>1, <2>1, <2>2, <2>3 DEF IInv, BoardInv, FreshInv, ResultInv, Between
  <2>6. EarnedInv' /\ ShownInv'
    BY <1>1, <1>2, <2>1, <2>3 DEF EarnedInv, ShownInv
  <2> QED BY <2>4, <2>5, <2>6 DEF IInv
<1> QED BY <1>3, <1>4 DEF BeginEpisode

-----------------------------------------------------------------------------
(* Failures, and the ends of an episode.                                   *)
LEMMA WorkerDiesStep ==
    ASSUME IInv, NEW i \in Envs, WorkerDies(i)
    PROVE  IInv'
<1>1. UNCHANGED <<run, mgr, vec>>
  BY DEF WorkerDies
<1>2. /\ workers'[i] = Gone /\ DOMAIN workers' = Envs
      /\ \A j \in Envs : j # i => workers'[j] = workers[j]
  BY DEF WorkerDies, IInv, TypeOK
<1>3. workers'[i].up = FALSE /\ workers'[i].over = FALSE /\ IsWorker(workers'[i])
  BY <1>2, Records DEF Gone
<1>4. \A j \in Envs : Shown(j)' = Shown(j)
  BY <1>1 DEF Shown
<1>5. TypeOK'
  BY <1>1, <1>2, <1>3 DEF IInv, TypeOK
<1>6. BoardInv'
  BY <1>1, <1>2, <1>3, <1>4 DEF IInv, TypeOK, BoardInv, FreshInv, EarnedInv, ShownInv, ResultInv, Playing, Between
<1>7. FreshInv'
  BY <1>1, <1>2, <1>3, <1>4 DEF IInv, TypeOK, BoardInv, FreshInv, EarnedInv, ShownInv, ResultInv, Playing, Between
<1>8. EarnedInv'
  BY <1>1, <1>2, <1>3, <1>4 DEF IInv, TypeOK, BoardInv, FreshInv, EarnedInv, ShownInv, ResultInv, Playing, Between
<1>9. ShownInv'
  BY <1>1, <1>2, <1>3, <1>4 DEF IInv, TypeOK, BoardInv, FreshInv, EarnedInv, ShownInv, ResultInv, Playing, Between
<1>10. ResultInv'
  BY <1>1, <1>2, <1>3, <1>4 DEF IInv, TypeOK, BoardInv, FreshInv, EarnedInv, ShownInv, ResultInv, Playing, Between
<1> QED BY <1>5, <1>6, <1>7, <1>8, <1>9, <1>10 DEF IInv

LEMMA EpisodeRaisesStep ==
    ASSUME IInv, EpisodeRaises
    PROVE  IInv'
<1>1. run' = [run EXCEPT !.pc = "rebuild"] /\ UNCHANGED <<mgr, vec, workers>> /\ run.pc # "off"
  BY DEF EpisodeRaises
<1>2. /\ DOMAIN run' = DOMAIN Off /\ run'.pc = "rebuild" /\ run'.board = run.board
      /\ run'.dones = run.dones /\ run'.out = run.out /\ run'.frozen = run.frozen
  BY <1>1, Moved, Records DEF IInv
<1>3. TypeOK'
  BY <1>1, <1>2 DEF IInv, TypeOK
<1>4. BoardInv'
  BY <1>1, <1>2 DEF IInv, TypeOK, BoardInv, FreshInv, EarnedInv, ShownInv, ResultInv, Playing, Between
<1>5. FreshInv'
  BY <1>1, <1>2 DEF IInv, TypeOK, BoardInv, FreshInv, EarnedInv, ShownInv, ResultInv, Playing, Between
<1>6. EarnedInv'
  BY <1>1, <1>2 DEF IInv, TypeOK, BoardInv, FreshInv, EarnedInv, ShownInv, ResultInv, Playing, Between
<1>7. ShownInv'
  BY <1>1, <1>2 DEF IInv, TypeOK, BoardInv, FreshInv, EarnedInv, ShownInv, ResultInv, Playing, Between
<1>8. ResultInv'
  BY <1>1, <1>2 DEF IInv, TypeOK, BoardInv, FreshInv, EarnedInv, ShownInv, ResultInv, Playing, Between
<1> QED BY <1>3, <1>4, <1>5, <1>6, <1>7, <1>8 DEF IInv

LEMMA RebuildStep ==
    ASSUME IInv, Rebuild
    PROVE  IInv'
<1>1. run.pc = "rebuild" /\ run' = AfterEpisode(0, TRUE) /\ mgr' = FreshMgr
  BY DEF Rebuild
<1>2. /\ DOMAIN run' = DOMAIN Off /\ run'.pc \in {"episode", "usage"} /\ run'.board = run.board
      /\ run'.dones \in [Envs -> BOOLEAN] /\ run'.out \in [Envs -> OutT] /\ run'.frozen \in [Envs -> FrozenT]
      /\ \A i \in Envs : run'.out[i].n = 0 /\ run'.frozen[i] = <<>>
  BY <1>1, After DEF IInv
<1>3. PICK k \in 0..NEnvs :
        /\ workers' = [i \in Envs |-> IF i <= k THEN Spawned(vec.board)
                                      ELSE IF i = k + 1 THEN Gone ELSE workers[i]]
        /\ vec' = [vec EXCEPT !.done = [i \in Envs |-> @[i] /\ i > k]]
  BY DEF Rebuild
<1> DEFINE left == [i \in Envs |-> vec.done[i] /\ i > k]
<1>4. left \in [Envs -> BOOLEAN] /\ \A i \in Envs : left[i] <=> vec.done[i] /\ i > k
  BY DEF IInv, TypeOK, VecT
<1> HIDE DEF left
<1>5. vec' \in VecT /\ vec'.board = vec.board /\ vec'.done = left
  BY <1>3, <1>4, SetDone DEF IInv, TypeOK, left
<1>6. ASSUME NEW i \in Envs
      PROVE  /\ IsWorker(workers'[i])
             /\ workers'[i].up => workers'[i].board = vec.board
             /\ workers'[i].over => vec'.done[i]
  <2>1. CASE i <= k
    <3>1. workers'[i] = Spawned(vec.board) /\ vec.board \in Int
      BY <1>3, <2>1 DEF IInv, TypeOK, VecT
    <3> QED BY <3>1, Records DEF Spawned
  <2>2. CASE i = k + 1
    <3>1. workers'[i] = Gone
      BY <1>3, <2>2 DEF Envs
    <3> QED BY <3>1, Records DEF Gone
  <2>3. CASE ~(i <= k) /\ i # k + 1
    <3>1. workers'[i] = workers[i] /\ i > k
      BY <1>3, <2>3 DEF Envs
    <3> QED BY <1>1, <1>4, <1>5, <3>1 DEF IInv, TypeOK, BoardInv
  <2> QED BY <2>1, <2>2, <2>3
<1>7. DOMAIN workers' = Envs /\ mgr' \in MgrT
  BY <1>1, <1>3, Records
<1>8. TypeOK'
  BY <1>2, <1>5, <1>6, <1>7 DEF IInv, TypeOK, Between
<1>9. BoardInv'
  BY <1>1, <1>2, <1>5, <1>6 DEF IInv, TypeOK, BoardInv, FreshInv, EarnedInv, ShownInv, ResultInv, Playing, Between
<1>10. FreshInv'
  BY <1>1, <1>2, <1>5, <1>6 DEF IInv, TypeOK, BoardInv, FreshInv, EarnedInv, ShownInv, ResultInv, Playing, Between
<1>11. EarnedInv'
  BY <1>1, <1>2, <1>5, <1>6 DEF IInv, TypeOK, BoardInv, FreshInv, EarnedInv, ShownInv, ResultInv, Playing, Between
<1>12. ShownInv'
  BY <1>1, <1>2, <1>5, <1>6 DEF IInv, TypeOK, BoardInv, FreshInv, EarnedInv, ShownInv, ResultInv, Playing, Between
<1>13. ResultInv'
  BY <1>1, <1>2, <1>5, <1>6 DEF IInv, TypeOK, BoardInv, FreshInv, EarnedInv, ShownInv, ResultInv, Playing, Between
<1> QED BY <1>8, <1>9, <1>10, <1>11, <1>12, <1>13 DEF IInv

LEMMA DumpStep ==
    ASSUME IInv, DumpJson
    PROVE  IInv'
<1>1. run.pc = "dump" /\ UNCHANGED <<mgr, vec, workers>>
  BY DEF DumpJson
<1> DEFINE pc == IF run.k = NEnvs THEN "save" ELSE "dump"
<1>2. run' = [run EXCEPT !.k = run.k + 1, !.pc = pc] /\ pc \in {"dump", "save"}
  BY DEF DumpJson
<1> HIDE DEF pc
<1>3. /\ DOMAIN run' = DOMAIN Off /\ run'.pc \in {"dump", "save"} /\ run'.board = run.board
      /\ run'.dones = run.dones /\ run'.out = run.out /\ run'.frozen = run.frozen /\ run'.results = run.results
  BY <1>2, Records DEF IInv, TypeOK
<1>4. TypeOK'
  BY <1>1, <1>3 DEF IInv, TypeOK, Playing
<1>5. BoardInv'
  BY <1>1, <1>3 DEF IInv, TypeOK, BoardInv, FreshInv, EarnedInv, ShownInv, ResultInv, Playing, Between
<1>6. FreshInv'
  BY <1>1, <1>3 DEF IInv, TypeOK, BoardInv, FreshInv, EarnedInv, ShownInv, ResultInv, Playing, Between
<1>7. EarnedInv'
  BY <1>1, <1>3 DEF IInv, TypeOK, BoardInv, FreshInv, EarnedInv, ShownInv, ResultInv, Playing, Between
<1>8. ShownInv'
  BY <1>1, <1>3 DEF IInv, TypeOK, BoardInv, FreshInv, EarnedInv, ShownInv, ResultInv, Playing, Between
<1>9. ResultInv'
  BY <1>1, <1>3 DEF IInv, TypeOK, BoardInv, FreshInv, EarnedInv, ShownInv, ResultInv, Playing, Between
<1> QED BY <1>4, <1>5, <1>6, <1>7, <1>8, <1>9 DEF IInv

LEMMA SaveBoardsStep ==
    ASSUME IInv, SaveBoards
    PROVE  IInv'
<1>1. run.pc = "save" /\ run' = AfterEpisode(tries, FALSE) /\ mgr' = FreshMgr /\ UNCHANGED <<vec, workers>>
  BY DEF SaveBoards
<1>2. /\ DOMAIN run' = DOMAIN Off /\ run'.pc \in {"episode", "usage"} /\ run'.board = run.board
      /\ run'.dones \in [Envs -> BOOLEAN] /\ run'.out \in [Envs -> OutT] /\ run'.frozen \in [Envs -> FrozenT]
      /\ \A i \in Envs : run'.out[i].n = 0 /\ run'.frozen[i] = <<>>
  BY <1>1, After DEF IInv
<1>3. TypeOK'
  BY <1>1, <1>2, Records DEF IInv, TypeOK, Between
<1>4. BoardInv'
  BY <1>1, <1>2 DEF IInv, TypeOK, BoardInv, FreshInv, EarnedInv, ShownInv, ResultInv, Playing, Between
<1>5. FreshInv'
  BY <1>1, <1>2 DEF IInv, TypeOK, BoardInv, FreshInv, EarnedInv, ShownInv, ResultInv, Playing, Between
<1>6. EarnedInv'
  BY <1>1, <1>2 DEF IInv, TypeOK, BoardInv, FreshInv, EarnedInv, ShownInv, ResultInv, Playing, Between
<1>7. ShownInv'
  BY <1>1, <1>2 DEF IInv, TypeOK, BoardInv, FreshInv, EarnedInv, ShownInv, ResultInv, Playing, Between
<1>8. ResultInv'
  BY <1>1, <1>2 DEF IInv, TypeOK, BoardInv, FreshInv, EarnedInv, ShownInv, ResultInv, Playing, Between
<1> QED BY <1>3, <1>4, <1>5, <1>6, <1>7, <1>8 DEF IInv

-----------------------------------------------------------------------------
(* The steps of an episode.  mark_episode_done() scores those that have    *)
(* not ended before.                                                       *)
LEMMA MarkedIs ==
    ASSUME TypeOK, NEW S \in SUBSET Envs, NEW lost
    PROVE  LET m == Marked(S, lost)
           IN /\ m \in MgrT /\ m.ret = mgr.ret /\ m.todo = {}
              /\ \A i \in Envs : /\ m.done[i] <=> mgr.done[i] \/ i \in S
                                 /\ i \in Unscored(S) <=> i \in S /\ ~mgr.done[i]
                                 /\ m.rows[i] = IF i \in Unscored(S) THEN Row(i, lost)
                                                ELSE mgr.rows[i]
<1> DEFINE new == Unscored(S)
           done == [i \in Envs |-> mgr.done[i] \/ i \in new]
           rows == [i \in Envs |-> IF i \in new THEN Row(i, lost) ELSE mgr.rows[i]]
<1>1. done \in [Envs -> BOOLEAN]
  OBVIOUS
<1>2. ASSUME NEW i \in Envs
      PROVE  Row(i, lost) \in RowT
  BY DEF Row, RowT, TypeOK, MgrT, IsWorker, None
<1>3. rows \in [Envs -> RowT]
  BY <1>2 DEF TypeOK, MgrT
<1>4. \A i \in Envs : i \in new <=> i \in S /\ ~mgr.done[i]
  BY DEF Unscored
<1>5. /\ \A i \in Envs : done[i] <=> mgr.done[i] \/ i \in S
      /\ \A i \in Envs : rows[i] = IF i \in new THEN Row(i, lost) ELSE mgr.rows[i]
  BY <1>4
<1>6. Marked(S, lost) = [mgr EXCEPT !.done = done, !.rows = rows, !.todo = {}]
  BY DEF Marked
<1> HIDE DEF done, rows
<1>7. Marked(S, lost) \in MgrT /\ Marked(S, lost).ret = mgr.ret /\ Marked(S, lost).todo = {}
      /\ Marked(S, lost).done = done /\ Marked(S, lost).rows = rows
  BY <1>1, <1>3, <1>6 DEF TypeOK, MgrT
<1> QED BY <1>4, <1>5, <1>7

(* A row says the board of the moment, if the worker answers.              *)
LEMMA RowIs ==
    ASSUME NEW i, NEW lost, i \in lost \/ workers[i].up
    PROVE  /\ Row(i, lost) # <<>> /\ Row(i, lost).scored \in {None, workers[i].n}
           /\ Row(i, lost).scored # None => workers[i].up
           /\ Row(i, lost).ret = mgr.ret[i]
BY DEF Row

LEMMA ScoringIs ==
    ASSUME NEW S, NEW lost, ScoringOf(S, lost), NEW i \in S
    PROVE  i \in lost \/ workers[i].up
BY DEF ScoringOf, Answer

(* An environment that is scored now is scored on the board its engine is  *)
(* on, which is the one it was last seen on and the one it earned.         *)
LEMMA ScoredIs ==
    ASSUME IInv, run.pc \in Playing, NEW i \in Envs, ~mgr.done[i],
           NEW row, row # <<>>, row.scored \in {None, workers[i].n}, row.scored # None => workers[i].up
    PROVE  row.scored \in {None, mgr.ret[i]} /\ row.scored \in {None, run.out[i].n}
BY DEF IInv, EarnedInv

LEMMA ScoreEndedStep ==
    ASSUME IInv, ScoreEnded
    PROVE  IInv'
<1> DEFINE pc == IF Answer(Envs) THEN "guard" ELSE "rebuild"
<1>1. /\ run.pc = "score" /\ UNCHANGED <<vec, workers>>
      /\ run' = [run EXCEPT !.pc = pc] /\ pc \in {"guard", "rebuild"}
  BY DEF ScoreEnded
<1>0. PICK lost : ScoringOf(Unscored(mgr.todo), lost) /\ mgr' = Marked(mgr.todo, lost)
  BY Zenon DEF ScoreEnded
<1> HIDE DEF pc
<1>2. /\ DOMAIN run' = DOMAIN Off /\ run'.pc \in {"guard", "rebuild"} /\ run'.board = run.board
      /\ run'.dones = run.dones /\ run'.out = run.out /\ run'.frozen = run.frozen
  BY <1>1, Moved, Records DEF IInv, Playing
<1>3. /\ mgr' \in MgrT /\ mgr'.ret = mgr.ret
      /\ \A i \in Envs : /\ mgr'.done[i] <=> mgr.done[i] \/ i \in mgr.todo
                         /\ mgr.done[i] => mgr'.rows[i] = mgr.rows[i]
                         /\ i \in mgr.todo /\ ~mgr.done[i] =>
                              /\ mgr'.rows[i] # <<>> /\ mgr'.rows[i].ret = mgr.ret[i]
                              /\ mgr'.rows[i].scored \in {None, workers[i].n}
                              /\ mgr'.rows[i].scored # None => workers[i].up
  <2>1. mgr.todo \in SUBSET Envs
    BY DEF IInv, TypeOK, MgrT
  <2>2. \A i \in Unscored(mgr.todo) : i \in lost \/ workers[i].up
    BY <1>0, ScoringIs
  <2> QED BY <1>0, <2>1, <2>2, MarkedIs, RowIs DEF IInv
<1>4. \A i \in Envs : Shown(i)' = Shown(i)
  BY <1>2 DEF Shown
<1>5. TypeOK'
  BY <1>1, <1>2, <1>3 DEF IInv, TypeOK, Playing
<1>6. BoardInv' /\ FreshInv' /\ ResultInv'
  BY <1>1, <1>2 DEF IInv, BoardInv, FreshInv, ResultInv, Between
<1>7. ASSUME NEW i \in Envs, i \in mgr.todo, ~mgr.done[i]
      PROVE  /\ mgr'.rows[i].scored \in {None, mgr.ret[i]}
             /\ mgr'.rows[i].scored \in {None, run.out[i].n} /\ run.frozen[i] = <<>>
             /\ vec.done[i] /\ run.out[i].done
  BY <1>1, <1>3, <1>7, ScoredIs DEF IInv, ShownInv, Playing
<1>8. EarnedInv'
  BY <1>1, <1>2, <1>3, <1>7 DEF IInv, EarnedInv, Playing
<1>9. ShownInv'
  BY <1>1, <1>2, <1>3, <1>4, <1>7 DEF IInv, ShownInv, Shown
<1> QED BY <1>5, <1>6, <1>8, <1>9 DEF IInv

LEMMA FinalizeStep ==
    ASSUME IInv, Finalize
    PROVE  IInv'
<1> DEFINE results == [i \in Envs |-> [shown |-> Shown(i).n, measures |-> Measures(i),
                                       metrics |-> mgr'.rows[i].scored]]
<1>0. PICK lost : ScoringOf(Unscored(Envs), lost) /\ mgr' = Marked(Envs, lost)
  BY Zenon DEF Finalize
<1>1. run.pc = "finalize" /\ UNCHANGED <<vec, workers>>
      /\ run' = [run EXCEPT !.pc = "dump", !.k = 1, !.results = results]
  BY DEF Finalize
<1>2. \A i \in Envs : results[i].shown = Shown(i).n /\ results[i].metrics = mgr'.rows[i].scored
  BY <1>1
<1>3. /\ mgr' \in MgrT /\ mgr'.ret = mgr.ret
      /\ \A i \in Envs : /\ mgr'.done[i]
                         /\ mgr.done[i] => mgr'.rows[i] = mgr.rows[i]
                         /\ ~mgr.done[i] =>
                              /\ mgr'.rows[i] # <<>> /\ mgr'.rows[i].ret = mgr.ret[i]
                              /\ mgr'.rows[i].scored \in {None, workers[i].n}
                              /\ mgr'.rows[i].scored # None => workers[i].up
  <2>1. \A i \in Unscored(Envs) : i \in lost \/ workers[i].up
    BY <1>0, ScoringIs
  <2> QED BY <1>0, <2>1, MarkedIs, RowIs DEF IInv
<1> HIDE DEF results
<1>4. /\ DOMAIN run' = DOMAIN Off /\ run'.pc = "dump" /\ run'.board = run.board /\ run'.results = results
      /\ run'.dones = run.dones /\ run'.out = run.out /\ run'.frozen = run.frozen
  BY <1>1, Records DEF IInv, TypeOK
<1>5. TypeOK'
  BY <1>1, <1>3, <1>4 DEF IInv, TypeOK, Playing
<1>6. BoardInv' /\ FreshInv' /\ ShownInv'
  BY <1>1, <1>4 DEF IInv, BoardInv, FreshInv, ShownInv, Between
<1>7. ASSUME NEW i \in Envs
      PROVE  /\ mgr'.rows[i] # <<>> /\ mgr'.rows[i].ret = mgr.ret[i]
             /\ mgr'.rows[i].scored \in {None, mgr.ret[i]}
             /\ mgr'.rows[i].scored \in {None, Shown(i).n}
  <2>1. CASE mgr.done[i]
    BY <1>1, <1>3, <2>1 DEF IInv, EarnedInv, ShownInv, Playing
  <2>2. CASE ~mgr.done[i]
    <3>1. run.frozen[i] = <<>>
      BY <1>1, <2>2 DEF IInv, ShownInv
    <3>2. Shown(i) = run.out[i]
      BY <3>1 DEF Shown
    <3> QED BY <1>1, <1>3, <2>2, <3>2, ScoredIs DEF Playing
  <2> QED BY <2>1, <2>2
<1>8. EarnedInv'
  BY <1>1, <1>3, <1>4, <1>7 DEF IInv, EarnedInv, Playing
<1>9. ResultInv'
  BY <1>2, <1>3, <1>4, <1>7 DEF ResultInv
<1> QED BY <1>5, <1>6, <1>8, <1>9 DEF IInv

LEMMA NoReward ==
    ASSUME NEW o \in OutT
    PROVE  LET v == [o EXCEPT !.reward = 0] IN v \in OutT /\ v.n = o.n /\ v.reward = 0
BY DEF OutT

LEMMA SaysDone ==
    ASSUME NEW o \in OutT
    PROVE  LET v == [o EXCEPT !.done = TRUE]
           IN v \in OutT /\ v.n = o.n /\ v.reward = o.reward /\ v.done
BY DEF OutT

(* The step of the backend: an active engine moves, another one does not.  *)
LEMMA OutIs ==
    ASSUME TypeOK, NEW i \in Envs, NEW kind \in Kinds, NEW done \in BOOLEAN
    PROVE  /\ StepOf(i, kind, done) \in OutT
           /\ i \in Active => StepOf(i, kind, done).n = workers[i].n + StepOf(i, kind, done).reward
           /\ i \in Active => StepOf(i, kind, done).reward \in {0, 1}
           /\ i \notin Active => /\ StepOf(i, kind, done).n = run.out[i].n
                                 /\ StepOf(i, kind, done).reward = 0
                                 /\ StepOf(i, kind, done).done
<1> DEFINE moved == IF Moves(kind) THEN 1 ELSE 0
           last == done \/ run.step + 1 >= EffectiveMaxSteps
<1>1. moved \in {0, 1} /\ last \in BOOLEAN /\ workers[i].n \in Int /\ run.out[i] \in OutT
  BY DEF TypeOK, IsWorker
<1>2. CASE i \in Active
  <2>1. StepOf(i, kind, done) = [n |-> workers[i].n + moved, kind |-> kind, reward |-> moved, done |-> last]
    BY <1>2 DEF StepOf
  <2> HIDE DEF moved, last
  <2> QED BY <1>1, <1>2, <2>1 DEF OutT
<1>3. CASE i \notin Active
  <2>1. StepOf(i, kind, done) = [run.out[i] EXCEPT !.reward = 0, !.done = TRUE]
    BY <1>3 DEF StepOf
  <2> DEFINE o == [run.out[i] EXCEPT !.reward = 0]
  <2>2. o \in OutT /\ o.n = run.out[i].n /\ o.reward = 0
    BY <1>1, NoReward
  <2>3. StepOf(i, kind, done) = [o EXCEPT !.done = TRUE]
    BY <2>1
  <2> HIDE DEF o
  <2> QED BY <1>3, <2>2, <2>3, SaysDone
<1> QED BY <1>2, <1>3

LEMMA StepStep ==
    ASSUME IInv, NEW kind \in [Envs -> Kinds], NEW done \in [Envs -> BOOLEAN], Step(kind, done)
    PROVE  IInv'
<1> DEFINE out == [i \in Envs |-> StepOf(i, kind[i], done[i])]
           over == [i \in Envs |-> vec.done[i] \/ out[i].done]
           ret == [i \in Envs |-> IF mgr.done[i] THEN mgr.ret[i] ELSE mgr.ret[i] + out[i].reward]
           todo == {i \in Envs : out[i].done}
<1>1. /\ run.pc = "generate" /\ Answer(Active)
      /\ workers' = [i \in Envs |-> IF i \in Active
                                    THEN [workers[i] EXCEPT !.n = out[i].n, !.over = out[i].done]
                                    ELSE workers[i]]
      /\ vec' = [vec EXCEPT !.done = over]
      /\ mgr' = [mgr EXCEPT !.ret = ret, !.todo = todo]
      /\ run' = [run EXCEPT !.pc = "score", !.out = out]
  BY DEF Step
<1>2. \A i \in Envs :
        /\ out[i] \in OutT
        /\ i \in Active => out[i].n = workers[i].n + out[i].reward /\ out[i].reward \in {0, 1}
        /\ i \notin Active => out[i].n = run.out[i].n /\ out[i].reward = 0 /\ out[i].done
  BY OutIs DEF IInv
<1>3. out \in [Envs -> OutT]
  BY <1>2
<1>4. over \in [Envs -> BOOLEAN] /\ \A i \in Envs : over[i] <=> vec.done[i] \/ out[i].done
  BY <1>2 DEF OutT, IInv, TypeOK, VecT
<1>5. /\ ret \in [Envs -> Int]
      /\ \A i \in Envs : ret[i] = IF mgr.done[i] THEN mgr.ret[i] ELSE mgr.ret[i] + out[i].reward
  <2>1. ASSUME NEW i \in Envs
        PROVE  out[i].reward \in Int /\ mgr.ret[i] \in Int
    BY <1>2 DEF OutT, IInv, TypeOK, MgrT
  <2> QED BY <2>1
<1>6. todo \in SUBSET Envs /\ \A i \in todo : out[i].done
  OBVIOUS
<1> HIDE DEF out, over, ret, todo
<1>7. /\ DOMAIN run' = DOMAIN Off /\ run'.pc = "score" /\ run'.board = run.board
      /\ run'.dones = run.dones /\ run'.out = out /\ run'.frozen = run.frozen
  BY <1>1, Records DEF IInv, TypeOK
<1>8. /\ mgr' \in MgrT /\ mgr'.ret = ret /\ mgr'.todo = todo /\ mgr'.done = mgr.done /\ mgr'.rows = mgr.rows
  BY <1>1, <1>5, <1>6 DEF IInv, TypeOK, MgrT
<1>9. vec' \in VecT /\ vec'.board = vec.board /\ vec'.done = over
  BY <1>1, <1>4, SetDone DEF IInv, TypeOK
<1>10. ASSUME NEW i \in Envs
       PROVE  /\ IsWorker(workers'[i]) /\ workers'[i].up = workers[i].up /\ workers'[i].board = workers[i].board
              /\ i \in Active => workers[i].up /\ workers'[i].n = out[i].n /\ workers'[i].over = out[i].done
              /\ i \notin Active => workers'[i] = workers[i]
  <2>1. CASE i \in Active
    <3>1. workers'[i] = [workers[i] EXCEPT !.n = out[i].n, !.over = out[i].done]
      BY <1>1, <2>1
    <3>2. out[i].n \in Int /\ IsWorker(workers[i])
      BY <1>2 DEF OutT, IInv, TypeOK
    <3>3. workers[i].up
      BY <1>1, <2>1 DEF Answer
    <3> QED BY <2>1, <3>1, <3>2, <3>3 DEF IsWorker
  <2>2. CASE i \notin Active
    BY <1>1, <2>2 DEF IInv, TypeOK
  <2> QED BY <2>1, <2>2
<1>11. TypeOK'
  <2>1. DOMAIN workers' = Envs
    BY <1>1
  <2> QED BY <1>3, <1>7, <1>8, <1>9, <1>10, <2>1 DEF IInv, TypeOK, Playing
<1>12. BoardInv'
  <2>1. ASSUME NEW i \in Envs
        PROVE  /\ workers'[i].up => workers'[i].board = vec'.board
               /\ workers'[i].over => vec'.done[i]
    <3>1. /\ workers[i].up => workers[i].board = vec.board
          /\ workers[i].over => vec.done[i]
      BY <1>1 DEF IInv, BoardInv
    <3>2. vec'.done[i] <=> vec.done[i] \/ out[i].done
      BY <1>4, <1>9
    <3>3. CASE i \in Active
      BY <1>9, <1>10, <3>1, <3>2, <3>3
    <3>4. CASE i \notin Active
      BY <1>9, <1>10, <3>1, <3>2, <3>4
    <3> QED BY <3>3, <3>4
  <2>2. vec'.board = run'.board
    BY <1>1, <1>7, <1>9 DEF IInv, BoardInv
  <2> QED BY <2>1, <2>2 DEF BoardInv
<1>13. FreshInv' /\ ResultInv'
  BY <1>7 DEF FreshInv, ResultInv, Between
<1>14. ASSUME NEW i \in Envs
       PROVE  /\ workers'[i].up => workers'[i].n >= 0 /\ workers'[i].n = out[i].n
              /\ workers'[i].up /\ ~mgr.done[i] => workers'[i].n = ret[i]
              /\ mgr.done[i] => /\ mgr.rows[i] # <<>> /\ mgr.rows[i].ret = ret[i]
                                /\ mgr.rows[i].scored \in {None, ret[i]}
  <2>1. /\ workers[i].up => workers[i].n >= 0 /\ workers[i].n = run.out[i].n
        /\ workers[i].up /\ ~mgr.done[i] => workers[i].n = mgr.ret[i]
        /\ mgr.done[i] => /\ mgr.rows[i] # <<>> /\ mgr.rows[i].ret = mgr.ret[i]
                          /\ mgr.rows[i].scored \in {None, mgr.ret[i]}
    BY <1>1 DEF IInv, EarnedInv, Playing
  <2>2. workers[i].n \in Int /\ mgr.ret[i] \in Int
    BY DEF IInv, TypeOK, IsWorker, MgrT
  <2>3. CASE i \in Active
    BY <1>2, <1>5, <1>10, <2>1, <2>2, <2>3
  <2>4. CASE i \notin Active
    BY <1>2, <1>5, <1>10, <2>1, <2>2, <2>4
  <2> QED BY <2>3, <2>4
<1>15. EarnedInv'
  BY <1>7, <1>8, <1>14 DEF EarnedInv
<1>16. ASSUME NEW i \in Envs, mgr.done[i]
       PROVE  /\ mgr.rows[i].scored \in {None, Shown(i)'.n}
              /\ run.frozen[i] = <<>> => over[i] /\ out[i].done
  <2>1. mgr.rows[i].scored \in {None, Shown(i).n}
    BY <1>1, <1>16 DEF IInv, ShownInv
  <2>2. CASE run.frozen[i] # <<>>
    <3>1. Shown(i)' = Shown(i)
      BY <1>7, <2>2 DEF Shown
    <3> QED BY <2>1, <2>2, <3>1
  <2>3. CASE run.frozen[i] = <<>>
    <3>1. vec.done[i] /\ i \notin Active
      BY <1>1, <1>16, <2>3 DEF IInv, ShownInv, Active
    <3>2. Shown(i)' = out[i] /\ Shown(i) = run.out[i]
      BY <1>7, <2>3 DEF Shown
    <3> QED BY <1>2, <1>4, <2>1, <3>1, <3>2
  <2> QED BY <2>2, <2>3
<1>17. ShownInv'
  <2>1. ASSUME NEW i \in Envs
        PROVE  /\ i \in todo => over[i] /\ out[i].done
               /\ run.frozen[i] # <<>> => run.dones[i] /\ mgr.done[i]
    BY <1>1, <1>4, <1>6 DEF IInv, ShownInv
  <2> QED BY <1>7, <1>8, <1>9, <1>16, <2>1 DEF ShownInv
<1> QED BY <1>11, <1>12, <1>13, <1>15, <1>17 DEF IInv

LEMMA PastIs ==
    ASSUME NEW o \in OutT
    PROVE  Past(o) \in OutT /\ Past(o).n = o.n /\ (Past(o).done <=> o.done)
<1> DEFINE kind == IF Measured(o) THEN "same" ELSE "invalid"
<1>1. kind \in Kinds
  BY DEF Kinds
<1> HIDE DEF kind
<1> DEFINE v == [o EXCEPT !.kind = kind]
<1>2. v \in OutT /\ v.n = o.n /\ v.done = o.done
  BY <1>1 DEF OutT
<1>3. Past(o) = [v EXCEPT !.reward = 0]
  BY DEF Past, kind
<1> HIDE DEF v
<1>4. Past(o) \in OutT /\ Past(o).n = v.n /\ Past(o).done = v.done
  BY <1>2, <1>3 DEF OutT
<1> QED BY <1>2, <1>4

(* An environment the guards stop had not ended: it is scored now, on the  *)
(* board it shows, and what it shows is kept.                              *)
LEMMA EndStepStep ==
    ASSUME IInv, EndStep
    PROVE  IInv'
<1> DEFINE live    == {i \in Envs : ~run.dones[i]}
           stopped == {i \in live : Stops(i)}
           dones   == [i \in Envs |-> run.dones[i] \/ i \in stopped \/ run.out[i].done]
           out     == [i \in Envs |-> Past(run.out[i])]
           frozen  == [i \in Envs |-> IF i \in stopped THEN <<Past(run.out[i])>> ELSE run.frozen[i]]
           streak  == [i \in Envs |-> IF dones[i] THEN 0 ELSE Streak(i)]
           stall   == [i \in Envs |-> IF dones[i] THEN 0 ELSE Stall(i)]
           known   == [i \in Envs |-> IF Measured(run.out[i]) THEN run.out[i].n ELSE run.known[i]]
           pc      == IF (\A i \in Envs : dones[i]) \/ run.step + 1 >= EffectiveMaxSteps
                      THEN "finalize" ELSE "generate"
<1>0. PICK lost : /\ \A i \in Unscored(stopped) : workers[i].up \/ i \in lost
                  /\ mgr' = Marked(stopped, lost)
  BY Zenon DEF EndStep
<1>1. /\ run.pc = "guard" /\ UNCHANGED <<vec, workers>>
      /\ run' = [run EXCEPT !.streak = streak, !.stall = stall, !.frozen = frozen, !.known = known,
                            !.dones = dones, !.step = run.step + 1, !.out = out, !.pc = pc]
      /\ pc \in {"generate", "finalize"}
  BY DEF EndStep
<1>2. ASSUME NEW i \in stopped
      PROVE  i \in Envs /\ ~run.dones[i] /\ ~run.out[i].done
  BY DEF Stops
<1>3. ASSUME NEW i \in stopped
      PROVE  ~mgr.done[i]
  BY <1>1, <1>2 DEF IInv, ShownInv
<1> DEFINE rows == mgr'.rows
<1>4. /\ mgr' \in MgrT /\ mgr'.ret = mgr.ret
      /\ \A i \in Envs : /\ mgr'.done[i] <=> mgr.done[i] \/ i \in stopped
                         /\ i \in Unscored(stopped) <=> i \in stopped /\ ~mgr.done[i]
                         /\ rows[i] = IF i \in Unscored(stopped) THEN Row(i, lost) ELSE mgr.rows[i]
  <2>1. stopped \in SUBSET Envs
    OBVIOUS
  <2> HIDE DEF stopped
  <2> QED BY <1>0, <2>1, MarkedIs DEF IInv
<1>5. \A i \in Envs : /\ rows[i] = IF i \in stopped THEN Row(i, lost) ELSE mgr.rows[i]
                      /\ i \in stopped => i \in lost \/ workers[i].up
  BY <1>0, <1>3, <1>4
<1>6. /\ out \in [Envs -> OutT]
      /\ \A i \in Envs : out[i].n = run.out[i].n /\ (out[i].done <=> run.out[i].done)
  <2>1. ASSUME NEW i \in Envs
        PROVE  /\ Past(run.out[i]) \in OutT /\ Past(run.out[i]).n = run.out[i].n
               /\ Past(run.out[i]).done <=> run.out[i].done
    BY PastIs DEF IInv, TypeOK
  <2> QED BY <2>1
<1>7. \A i \in Envs : frozen[i] = IF i \in stopped THEN <<out[i]>> ELSE run.frozen[i]
  OBVIOUS
<1>8. frozen \in [Envs -> FrozenT]
  <2>1. ASSUME NEW i \in Envs
        PROVE  <<out[i]>> \in FrozenT /\ run.frozen[i] \in FrozenT
    <3>1. out[i] \in OutT /\ run.frozen[i] \in FrozenT
      BY <1>6 DEF IInv, TypeOK
    <3> QED BY <3>1, Zenon DEF FrozenT
  <2>2. frozen = [i \in Envs |-> frozen[i]]
    OBVIOUS
  <2> HIDE DEF out, frozen
  <2> QED BY <1>7, <2>1, <2>2
<1>9. /\ dones \in [Envs -> BOOLEAN]
      /\ \A i \in Envs : dones[i] <=> run.dones[i] \/ i \in stopped \/ run.out[i].done
  <2>1. \A i \in Envs : run.dones[i] \in BOOLEAN /\ run.out[i].done \in BOOLEAN
    BY DEF IInv, TypeOK, OutT
  <2> QED BY <2>1
<1> HIDE DEF live, stopped, dones, rows, out, frozen, streak, stall, known, pc
<1>10. /\ DOMAIN run' = DOMAIN Off /\ run'.pc \in {"generate", "finalize"} /\ run'.board = run.board
       /\ run'.dones = dones /\ run'.out = out /\ run'.frozen = frozen
  BY <1>1, Records DEF IInv, TypeOK
<1>11. /\ mgr' \in MgrT /\ mgr'.ret = mgr.ret /\ mgr'.rows = rows
       /\ \A i \in Envs : mgr'.done[i] <=> mgr.done[i] \/ i \in stopped
  BY <1>4 DEF rows
<1>12. TypeOK'
  BY <1>1, <1>6, <1>8, <1>9, <1>10, <1>11 DEF IInv, TypeOK, Playing
<1>13. BoardInv' /\ FreshInv' /\ ResultInv'
  BY <1>1, <1>10 DEF IInv, BoardInv, FreshInv, ResultInv, Between
<1>14. ASSUME NEW i \in Envs, i \in stopped
       PROVE  /\ rows[i] # <<>> /\ rows[i].ret = mgr.ret[i] /\ rows[i].scored \in {None, mgr.ret[i]}
              /\ rows[i].scored \in {None, run.out[i].n}
  <2>1. rows[i] = Row(i, lost) /\ (i \in lost \/ workers[i].up) /\ ~mgr.done[i] /\ run.pc \in Playing
    BY <1>1, <1>3, <1>5, <1>14 DEF Playing
  <2>2. /\ rows[i] # <<>> /\ rows[i].ret = mgr.ret[i] /\ rows[i].scored \in {None, workers[i].n}
        /\ rows[i].scored # None => workers[i].up
    BY <2>1, RowIs
  <2> QED BY <2>1, <2>2, ScoredIs
<1>15. EarnedInv'
  <2>1. ASSUME NEW i \in Envs
        PROVE  /\ workers[i].up => workers[i].n >= 0 /\ workers[i].n = out[i].n
               /\ workers[i].up /\ ~mgr'.done[i] => workers[i].n = mgr.ret[i]
               /\ mgr'.done[i] => /\ rows[i] # <<>> /\ rows[i].ret = mgr.ret[i]
                                  /\ rows[i].scored \in {None, mgr.ret[i]}
    BY <1>1, <1>5, <1>6, <1>11, <1>14 DEF IInv, EarnedInv, Playing
  <2> QED BY <1>1, <1>10, <1>11, <2>1 DEF EarnedInv
<1>16. ASSUME NEW i \in Envs
       PROVE  /\ frozen[i] # <<>> => dones[i] /\ mgr'.done[i]
              /\ mgr'.done[i] => rows[i].scored \in {None, Shown(i)'.n}
              /\ mgr'.done[i] /\ frozen[i] = <<>> => vec.done[i] /\ out[i].done
  <2>1. CASE i \in stopped
    <3>1. frozen[i] = <<out[i]>>
      BY <1>7, <2>1
    <3>2. frozen[i] # <<>>
      BY <3>1
    <3>3. Shown(i)' = out[i]
      BY <1>10, <3>1, <3>2 DEF Shown
    <3> QED BY <1>6, <1>9, <1>11, <1>14, <2>1, <3>2, <3>3
  <2>2. CASE i \notin stopped
    <3>1. frozen[i] = run.frozen[i] /\ rows[i] = mgr.rows[i] /\ (mgr'.done[i] <=> mgr.done[i])
      BY <1>5, <1>7, <1>11, <2>2
    <3>2. Shown(i)'.n = Shown(i).n
      BY <1>6, <1>10, <3>1 DEF Shown
    <3> QED BY <1>1, <1>6, <1>9, <3>1, <3>2 DEF IInv, ShownInv
  <2> QED BY <2>1, <2>2
<1>17. ShownInv'
  BY <1>1, <1>10, <1>11, <1>16 DEF ShownInv
<1> QED BY <1>12, <1>13, <1>15, <1>17 DEF IInv

-----------------------------------------------------------------------------
(* The invariant.                                                          *)
LEMMA InitInv ==
    ASSUME Init
    PROVE  IInv
<1>1. /\ run = Off /\ mgr = FreshMgr /\ vec = [board |-> 0, done |-> All(FALSE)] /\ workers = All(Gone)
      /\ run.pc = "off"
  BY Records DEF Init
<1>2. /\ vec \in VecT /\ DOMAIN workers = Envs
      /\ \A i \in Envs : IsWorker(workers[i]) /\ ~workers[i].up /\ ~workers[i].over
  BY <1>1, Records DEF All, VecT, Gone
<1>3. TypeOK
  BY <1>1, <1>2, Records DEF TypeOK, Between
<1>4. BoardInv /\ FreshInv /\ EarnedInv /\ ShownInv /\ ResultInv
  BY <1>1, <1>2 DEF BoardInv, FreshInv, EarnedInv, ShownInv, ResultInv, Playing
<1> QED BY <1>3, <1>4 DEF IInv

LEMMA NextInv ==
    ASSUME IInv, [Next]_vars
    PROVE  IInv'
<1>1. CASE UNCHANGED vars
  BY <1>1 DEF vars, disk, IInv, TypeOK, BoardInv, FreshInv, EarnedInv, ShownInv, ResultInv, Shown
<1>2. CASE Next
  <2>1. CASE \E kind \in [Envs -> Kinds], done \in [Envs -> BOOLEAN] : Step(kind, done)
    BY <2>1, StepStep
  <2>2. CASE \E i \in Envs : WorkerDies(i)
    BY <2>2, WorkerDiesStep
  <2> QED BY <1>2, <2>1, <2>2, LaunchStep, SkipEpisodeStep, BeginEpisodeStep, WriteUsageStep,
             ScoreEndedStep, EndStepStep, FinalizeStep, DumpStep, SaveBoardsStep,
             EpisodeRaisesStep, RebuildStep, ExitStep, Zenon DEF Next
<1> QED BY <1>1, <1>2

LEMMA InvTheorem == Spec => []IInv
<1>1. Init => IInv
  BY InitInv
<1>2. IInv /\ [Next]_vars => IInv'
  BY NextInv
<1> QED BY <1>1, <1>2, PTL DEF Spec

-----------------------------------------------------------------------------
(* The dumps and the token usage.                                          *)
LEMMA EpisodesAre ==
    ASSUME launches \in 1..MaxLaunch
    PROVE  /\ NEpisodes \in Nat \ {0} /\ 1..NEpisodes \subseteq Episodes
           /\ Episodes \subseteq Nat /\ 1 \in Envs
           /\ \A k \in 1..MaxLaunch : launches <= k => NEpisodes <= EpisodesOf[k]
<1>1. /\ MaxLaunch \in Nat \ {0} /\ EpisodesOf[MaxLaunch] \in Nat \ {0}
      /\ NEpisodes \in Nat \ {0}
      /\ \A k \in 1..MaxLaunch : launches <= k => NEpisodes <= EpisodesOf[k]
  BY RolloutAssumption DEF MaxLaunch, NEpisodes
<1>2. NEpisodes <= EpisodesOf[MaxLaunch]
  BY <1>1
<1> QED BY <1>1, <1>2, RolloutAssumption DEF Episodes, Envs

\* The dumps of an episode are read, and nothing else.
LEMMA DumpsSame ==
    ASSUME NEW b, NEW e, dumps'[b][e] = dumps[b][e]
    PROVE  (Complete(b, e)' <=> Complete(b, e)) /\ Recorded(b, e)' = Recorded(b, e)
BY DEF Complete, Recorded

\* The records of an episode that has come to an end.
LEMMA AfterIs ==
    ASSUME TypeOK, CountersOK, run.pc \in Episode \cup {"episode"},
           NEW try \in Nat, NEW crashed \in BOOLEAN, run' = AfterEpisode(try, crashed),
           launches' = launches
    PROVE  /\ run'.pc \in {"episode", "usage"} /\ run'.board = run.board
           /\ run'.ep \in 1..NEpisodes /\ run'.tries = Append(run.tries, try)
           /\ run'.tries \in Seq(Nat) /\ Len(run'.tries) = run.ep
           /\ Len(run'.tries) = IF run'.pc = "usage" THEN NEpisodes ELSE run'.ep - 1
           /\ run'.crashed = (run.crashed \/ crashed)
<1> DEFINE nxt == IF run.ep < NEpisodes THEN "episode" ELSE "usage"
           ep == run.ep + (IF run.ep < NEpisodes THEN 1 ELSE 0)
           past == Append(run.tries, try)
           bad == run.crashed \/ crashed
<1>0. /\ run.ep \in 1..NEpisodes /\ run.tries \in Seq(Nat) /\ Len(run.tries) = run.ep - 1
      /\ launches \in 1..MaxLaunch /\ NEpisodes \in Nat \ {0} /\ bad \in BOOLEAN
  <2>1. run.pc # "off" /\ run.pc # "usage"
    BY DEF Episode, Playing
  <2> QED BY <2>1, EpisodesAre DEF CountersOK
<1>1. run' = [Off EXCEPT !.pc = nxt, !.board = run.board, !.ep = ep, !.tries = past, !.crashed = bad]
  BY DEF AfterEpisode
<1>2. /\ nxt \in {"episode", "usage"} /\ ep \in 1..NEpisodes
      /\ past \in Seq(Nat) /\ Len(past) = run.ep
      /\ run.ep = IF nxt = "usage" THEN NEpisodes ELSE ep - 1
  <2>1. past \in Seq(Nat) /\ Len(past) = run.ep
    BY <1>0
  <2>2. CASE run.ep < NEpisodes
    <3>1. nxt = "episode" /\ ep = run.ep + 1 /\ ep \in 1..NEpisodes /\ run.ep = ep - 1
      BY <1>0, <2>2
    <3> HIDE DEF nxt, ep, past
    <3> QED BY <2>1, <3>1
  <2>3. CASE ~(run.ep < NEpisodes)
    <3>1. nxt = "usage" /\ ep = run.ep /\ run.ep = NEpisodes
      BY <1>0, <2>3
    <3> HIDE DEF nxt, ep, past
    <3> QED BY <1>0, <2>1, <3>1
  <2> QED BY <2>2, <2>3
<1> HIDE DEF nxt, ep, past, bad
<1>3. /\ run'.pc = nxt /\ run'.board = run.board /\ run'.ep = ep /\ run'.tries = past
      /\ run'.crashed = bad
  <2>1. {"pc", "board", "ep", "tries", "crashed"} \subseteq DOMAIN Off
    BY Records
  <2> QED BY <1>1, <2>1
<1> QED BY <1>2, <1>3 DEF past, bad

\* The end of an episode: what was known of the earlier ones stays, and the
\* new try is that of the dumps unless the episode crashed.
LEMMA AfterUsage ==
    ASSUME TypeOK, UsageInv, run.pc \in Episode \cup {"episode"},
           NEW try \in Nat, NEW crashed \in BOOLEAN, run' = AfterEpisode(try, crashed),
           UNCHANGED <<launches, usage>>,
           \A e \in 1..run.ep - 1 : dumps'[run.board][e] = dumps[run.board][e],
           NEW b, NEW ep, b = run.board, ep = run.ep,
           IF crashed THEN usage[b] = {} ELSE Complete(b, ep)' /\ try = Recorded(b, ep)'
    PROVE  TriesInv'
<1>0. /\ run'.pc \in {"episode", "usage"} /\ run'.board = run.board /\ run.board' = run.board
      /\ run'.tries = Append(run.tries, try) /\ Len(run'.tries) = run.ep
      /\ run'.crashed = (run.crashed \/ crashed)
  BY AfterIs DEF UsageInv
<1>1. /\ run.tries \in Seq(Nat) /\ Len(run.tries) = run.ep - 1 /\ run.crashed \in BOOLEAN
      /\ run.ep \in Nat \ {0}
  <2>1. run.pc # "off" /\ run.pc # "usage"
    BY DEF Episode, Playing
  <2> QED BY <2>1, EpisodesAre DEF UsageInv, CountersOK
<1>2. IF run.crashed THEN usage[run.board] = {}
      ELSE \A e \in 1..Len(run.tries) : /\ Complete(run.board, e)
                                        /\ run.tries[e] = Recorded(run.board, e)
  BY DEF UsageInv, TriesInv
<1>3. run'.pc \notin Episode
  BY <1>0 DEF Episode, Playing
<1>4. CASE run'.crashed
  BY <1>0, <1>1, <1>2, <1>3, <1>4 DEF TriesInv
<1>5. CASE ~run'.crashed
  <2>1. ~run.crashed /\ ~crashed
    BY <1>0, <1>5
  <2>2. ASSUME NEW e \in 1..Len(run'.tries)
        PROVE  Complete(b, e)' /\ run'.tries[e] = Recorded(b, e)'
    <3>1. CASE e = run.ep
      <4>1. run'.tries[e] = try
        BY <1>0, <1>1, <3>1
      <4> QED BY <2>1, <3>1, <4>1
    <3>2. CASE e # run.ep
      <4>1. e \in 1..Len(run.tries) /\ e \in 1..run.ep - 1
        BY <1>0, <1>1, <3>2
      <4>2. run'.tries[e] = run.tries[e]
        BY <1>0, <1>1, <4>1
      <4>3. Complete(b, e) /\ run.tries[e] = Recorded(b, e)
        BY <1>2, <2>1, <4>1
      <4>4. (Complete(b, e)' <=> Complete(b, e)) /\ Recorded(b, e)' = Recorded(b, e)
        BY <4>1, DumpsSame
      <4> QED BY <4>2, <4>3, <4>4
    <3> QED BY <3>1, <3>2
  <2> QED BY <1>0, <1>3, <1>5, <2>2 DEF TriesInv
<1> QED BY <1>4, <1>5

\* Where no file is written: the board and the past of the episode stay.
LEMMA UsageKept ==
    ASSUME TypeOK, UsageInv, UNCHANGED <<dumps, usage, tries, launches>>,
           run'.board = run.board, run'.ep = run.ep, run'.tries = run.tries,
           run'.crashed = run.crashed, run.pc \in Episode, run'.pc \in Episode,
           run'.pc \in {"dump", "save"} => \/ run'.pc = "dump" /\ run'.k = 1
                                           \/ run'.pc = run.pc /\ run'.k = run.k
    PROVE  UsageInv'
<1>0. /\ NEpisodes' = NEpisodes /\ CountersOK /\ DumpInv /\ TriesInv /\ UsageCoversDumps
      /\ "off" \notin Episode /\ "reload" \notin Episode /\ "usage" \notin Episode
  BY DEF UsageInv, NEpisodes, Episode, Playing
<1>1. \A b, e : (Complete(b, e)' <=> Complete(b, e)) /\ Recorded(b, e)' = Recorded(b, e)
  BY DumpsSame
<1>2. CountersOK'
  <2>1. 1 \in Envs
    BY RolloutAssumption DEF Envs
  <2>2. run'.pc = "dump" => run'.k \in Envs
    BY <1>0, <2>1 DEF CountersOK
  <2> QED BY <1>0, <2>2 DEF CountersOK
<1>3. DumpInv'
  <2>1. \A i \in Envs : i >= 1
    BY DEF Envs
  <2>2. ASSUME run'.pc \in {"dump", "save"}, NEW i \in Envs, i < run'.k
        PROVE  dumps[run.board][run.ep][i].json = tries
    BY <1>0, <2>1, <2>2 DEF DumpInv, Envs
  <2>3. run'.pc = "save" => run'.k = NEnvs + 1
    BY <1>0 DEF DumpInv
  <2> QED BY <1>0, <2>2, <2>3 DEF DumpInv
<1>4. TriesInv'
  BY <1>0, <1>1 DEF TriesInv
<1>5. UsageCoversDumps'
  BY <1>0, <1>1 DEF UsageCoversDumps
<1> QED BY <1>2, <1>3, <1>4, <1>5 DEF UsageInv

LEMMA UsageSame ==
    ASSUME UsageInv, UNCHANGED <<run, dumps, usage, tries, launches>>
    PROVE  UsageInv'
BY DEF UsageInv, CountersOK, DumpInv, TriesInv, UsageCoversDumps, Complete, Recorded, NEpisodes

\* What a usage file covers when no dump changes, but perhaps of boards
\* without one.
LEMMA CoversKept ==
    ASSUME UsageCoversDumps,
           \A b \in Boards : usage'[b] # {} =>
             usage'[b] = usage[b] /\ \A e \in Episodes : dumps'[b][e] = dumps[b][e]
    PROVE  UsageCoversDumps'
<1>1. ASSUME NEW b \in Boards, usage'[b] \notin {{}, Torn}
      PROVE  usage'[b] = {Recorded(b, e)' : e \in {x \in Episodes : Complete(b, x)'}}
  <2>1. usage'[b] = {Recorded(b, e) : e \in {x \in Episodes : Complete(b, x)}}
    BY <1>1 DEF UsageCoversDumps
  <2>2. \A e \in Episodes : (Complete(b, e)' <=> Complete(b, e)) /\ Recorded(b, e)' = Recorded(b, e)
    BY <1>1, DumpsSame
  <2> QED BY <2>1, <2>2
<1> QED BY <1>1 DEF UsageCoversDumps

LEMMA UsageLaunch ==
    ASSUME TypeOK, UsageInv, Launch
    PROVE  UsageInv'
<1>1. /\ run' = [Off EXCEPT !.pc = "episode", !.board = 1, !.ep = 1]
      /\ launches' = launches + 1 /\ launches < MaxLaunch /\ launches \in 0..MaxLaunch
      /\ UNCHANGED <<dumps, usage, tries>>
  BY DEF Launch, disk, UsageInv, CountersOK
<1>2. /\ run'.pc = "episode" /\ run'.board = 1 /\ run'.ep = 1 /\ run'.tries = <<>>
      /\ run'.crashed = FALSE
  BY <1>1 DEF Off
<1>3. launches' \in 1..MaxLaunch /\ NEpisodes' \in Nat \ {0} /\ 1 \in 1..NEpisodes' /\ 1 \in Boards
  <2>1. launches' \in 1..MaxLaunch /\ MaxLaunch = Len(EpisodesOf)
    BY <1>1, RolloutAssumption DEF MaxLaunch
  <2>2. NEpisodes' = EpisodesOf[launches']
    BY DEF NEpisodes
  <2>3. EpisodesOf[launches'] \in Nat \ {0} /\ NBoards \in Nat \ {0}
    BY <2>1, RolloutAssumption
  <2> QED BY <2>1, <2>2, <2>3 DEF Boards
<1>4. CountersOK'
  <2>1. /\ tries \in Nat /\ DOMAIN usage = Boards
        /\ dumps \in [Boards -> [Episodes -> [Envs -> [json : Nat, pcb : Nat]]]]
    BY DEF UsageInv, CountersOK
  <2>2. run'.tries \in Seq(Nat) /\ Len(run'.tries) = run'.ep - 1 /\ run'.crashed \in BOOLEAN
    <3>1. <<>> \in Seq(Nat) /\ Len(<<>>) = 1 - 1
      OBVIOUS
    <3> QED BY <1>2, <3>1, Zenon
  <2>3. run'.pc \notin Episode /\ run'.pc \notin {"off", "reload", "usage", "dump", "save"}
    BY <1>2 DEF Episode, Playing
  <2>4. launches' \in 0..MaxLaunch /\ launches' >= 1 /\ run'.ep \in 1..NEpisodes'
        /\ run'.board \in Boards
    BY <1>2, <1>3
  <2> QED BY <1>1, <2>1, <2>2, <2>3, <2>4 DEF CountersOK
<1>5. DumpInv'
  <2>1. launches >= 1 => NEpisodes <= NEpisodes' /\ NEpisodes \in Nat
    <3> SUFFICES ASSUME launches >= 1 PROVE NEpisodes <= NEpisodes' /\ NEpisodes \in Nat
      OBVIOUS
    <3>1. launches \in 1..MaxLaunch
      BY <1>1, RolloutAssumption DEF MaxLaunch
    <3>2. launches' \in 1..MaxLaunch /\ launches <= launches'
      BY <1>1, <1>3
    <3>3. NEpisodes <= EpisodesOf[launches'] /\ NEpisodes \in Nat
      BY <3>1, <3>2, EpisodesAre
    <3> QED BY <3>3 DEF NEpisodes
  <2>2. ASSUME NEW b \in Boards, NEW e \in Episodes, NEW i \in Envs, dumps[b][e][i].json > 0
        PROVE  launches' >= 1 /\ e <= NEpisodes'
    <3>1. launches >= 1 /\ e <= NEpisodes /\ e \in Int
      BY <2>2 DEF UsageInv, DumpInv, Episodes
    <3> QED BY <1>3, <2>1, <3>1
  <2> QED BY <1>1, <1>2, <2>2 DEF DumpInv
<1>6. TriesInv'
  BY <1>2 DEF TriesInv, Episode, Playing
<1>7. UsageCoversDumps'
  <2>1. UsageCoversDumps /\ UNCHANGED <<dumps, usage>>
    BY <1>1 DEF UsageInv
  <2> QED BY <2>1 DEF UsageCoversDumps, Complete, Recorded
<1> QED BY <1>4, <1>5, <1>6, <1>7 DEF UsageInv

LEMMA UsageReload ==
    ASSUME TypeOK, UsageInv, ReloadBoards
    PROVE  UsageInv'
<1>1. /\ run' = [Off EXCEPT !.pc = "episode", !.board = run.board + 1, !.ep = 1]
      /\ run.pc = "reload" /\ UNCHANGED <<dumps, usage, tries, launches>>
      /\ CountersOK /\ DumpInv
  BY DEF ReloadBoards, disk, UsageInv
<1>2. /\ run'.pc = "episode" /\ run'.board = run.board + 1 /\ run'.ep = 1 /\ run'.tries = <<>>
      /\ run'.crashed = FALSE
  BY <1>1 DEF Off
<1>3. launches \in 1..MaxLaunch /\ NEpisodes' = NEpisodes /\ 1 \in 1..NEpisodes
      /\ run.board + 1 \in Boards
  <2>1. launches \in 1..MaxLaunch
    BY <1>1 DEF CountersOK
  <2>2. run.board \in 1..NBoards /\ run.board < NBoards /\ NBoards \in Nat
    BY <1>1, RolloutAssumption DEF CountersOK, Boards
  <2>3. NEpisodes \in Nat \ {0}
    BY <2>1, EpisodesAre
  <2> QED BY <1>1, <2>1, <2>2, <2>3 DEF NEpisodes, Boards
<1>4. CountersOK'
  <2>1. /\ tries \in Nat /\ DOMAIN usage = Boards
        /\ dumps \in [Boards -> [Episodes -> [Envs -> [json : Nat, pcb : Nat]]]]
    BY DEF UsageInv, CountersOK
  <2>2. run'.tries \in Seq(Nat) /\ Len(run'.tries) = run'.ep - 1 /\ run'.crashed \in BOOLEAN
    <3>1. <<>> \in Seq(Nat) /\ Len(<<>>) = 1 - 1
      OBVIOUS
    <3> QED BY <1>2, <3>1, Zenon
  <2>3. run'.pc \notin Episode /\ run'.pc \notin {"off", "reload", "usage", "dump", "save"}
    BY <1>2 DEF Episode, Playing
  <2>4. launches' \in 0..MaxLaunch /\ launches' >= 1 /\ run'.ep \in 1..NEpisodes'
        /\ run'.board \in Boards
    BY <1>1, <1>2, <1>3
  <2> QED BY <1>1, <2>1, <2>2, <2>3, <2>4 DEF CountersOK
<1>5. DumpInv'
  BY <1>1, <1>2, <1>3 DEF DumpInv
<1>6. TriesInv'
  BY <1>2 DEF TriesInv, Episode, Playing
<1>7. UsageCoversDumps'
  <2>1. UsageCoversDumps /\ UNCHANGED <<dumps, usage>>
    BY <1>1 DEF UsageInv
  <2> QED BY <2>1 DEF UsageCoversDumps, Complete, Recorded
<1> QED BY <1>4, <1>5, <1>6, <1>7 DEF UsageInv

DumpsT == [Boards -> [Episodes -> [Envs -> [json : Nat, pcb : Nat]]]]

\* An episode ends, and no usage is written.
LEMMA UsageAfter ==
    ASSUME TypeOK, UsageInv, run.pc \in Episode \cup {"episode"},
           NEW try \in Nat, NEW crashed \in BOOLEAN, run' = AfterEpisode(try, crashed),
           UNCHANGED <<launches, usage, tries>>, dumps' \in DumpsT,
           \A b \in Boards, e \in Episodes, i \in Envs : dumps'[b][e][i].json = dumps[b][e][i].json,
           \A b \in Boards : dumps'[b] = dumps[b] \/ usage[b] = {},
           \A e \in 1..run.ep - 1 : dumps'[run.board][e] = dumps[run.board][e],
           NEW b, NEW ep, b = run.board, ep = run.ep,
           IF crashed THEN usage[b] = {} ELSE Complete(b, ep)' /\ try = Recorded(b, ep)'
    PROVE  UsageInv'
<1>0. CountersOK /\ DumpInv /\ TriesInv /\ UsageCoversDumps /\ NEpisodes' = NEpisodes
  BY DEF UsageInv, NEpisodes
<1>1. /\ run'.pc \in {"episode", "usage"} /\ run'.board = run.board
      /\ run'.ep \in 1..NEpisodes /\ run'.tries \in Seq(Nat)
      /\ Len(run'.tries) = IF run'.pc = "usage" THEN NEpisodes ELSE run'.ep - 1
      /\ run'.crashed = (run.crashed \/ crashed)
  BY <1>0, AfterIs
<1>2. TriesInv'
  BY AfterUsage
<1>3. CountersOK'
  <2>1. run.pc # "off" /\ run.pc # "usage"
    BY DEF Episode, Playing
  <2>2. /\ run'.crashed \in BOOLEAN /\ launches' \in 0..MaxLaunch /\ launches' >= 1
        /\ run'.board \in Boards /\ tries' \in Nat /\ DOMAIN usage' = Boards
    BY <1>0, <1>1, <2>1 DEF CountersOK
  <2>3. run'.pc \notin Episode /\ run'.pc \notin {"off", "reload", "dump", "save"}
    BY <1>1 DEF Episode, Playing
  <2> QED BY <1>0, <1>1, <2>2, <2>3 DEF CountersOK, DumpsT
<1>4. DumpInv'
  BY <1>0, <1>1 DEF DumpInv
<1>5. UsageCoversDumps'
  <2>1. ASSUME NEW c \in Boards, usage'[c] # {}
        PROVE  usage'[c] = usage[c] /\ \A e \in Episodes : dumps'[c][e] = dumps[c][e]
    <3>1. dumps'[c] = dumps[c]
      BY <2>1
    <3> QED BY <3>1
  <2> QED BY <1>0, <2>1, CoversKept
<1> QED BY <1>2, <1>3, <1>4, <1>5 DEF UsageInv

LEMMA UsageSkip ==
    ASSUME TypeOK, UsageInv, SkipEpisode
    PROVE  UsageInv'
<1> DEFINE b == run.board
           ep == run.ep
           try == Recorded(b, ep)
<1>1. /\ run.pc = "episode" /\ Complete(b, ep) /\ run' = AfterEpisode(try, FALSE)
      /\ UNCHANGED <<dumps, usage, launches, tries>> /\ CountersOK
  BY DEF SkipEpisode, disk, UsageInv
<1>2. /\ dumps \in DumpsT /\ b \in Boards /\ ep \in Episodes /\ 1 \in Envs
  <2>1. launches \in 1..MaxLaunch /\ ep \in 1..NEpisodes /\ b \in Boards /\ dumps \in DumpsT
    BY <1>1 DEF CountersOK, DumpsT
  <2> QED BY <2>1, EpisodesAre
<1>3. try \in Nat
  BY <1>2 DEF Recorded, DumpsT
<1>4. ASSUME NEW c, NEW e
      PROVE  (Complete(c, e)' <=> Complete(c, e)) /\ Recorded(c, e)' = Recorded(c, e)
  BY <1>1, DumpsSame
<1> HIDE DEF b, ep, try
<1>5. Complete(b, ep) /\ try = Recorded(b, ep) /\ b = run.board /\ ep = run.ep
  BY <1>1 DEF b, ep, try
<1>6. \E c, e : /\ c = run.board /\ e = run.ep /\ Complete(c, e)' /\ try = Recorded(c, e)'
  BY <1>4, <1>5
<1>7. PICK c, e : /\ c = run.board /\ e = run.ep /\ Complete(c, e)' /\ try = Recorded(c, e)'
  BY <1>6
<1>8. dumps' \in DumpsT
  BY <1>1, <1>2
<1> QED BY <1>1, <1>3, <1>7, <1>8, UsageAfter

LEMMA SavedIs ==
    ASSUME TypeOK, CountersOK, run.pc = "save", NEW S \in SUBSET Envs, dumps' = Saved(S)
    PROVE  /\ run.board \in Boards /\ run.ep \in Episodes /\ dumps' \in DumpsT
           /\ \A b \in Boards : b # run.board => dumps'[b] = dumps[b]
           /\ \A e \in Episodes : e # run.ep => dumps'[run.board][e] = dumps[run.board][e]
           /\ \A i \in Envs : /\ dumps'[run.board][run.ep][i].json = dumps[run.board][run.ep][i].json
                              /\ i \in S => dumps'[run.board][run.ep][i].pcb = tries
<1> DEFINE b == run.board
           ep == run.ep
           old == dumps[b][ep]
           new == [i \in Envs |-> IF i \in S THEN [old[i] EXCEPT !.pcb = tries] ELSE old[i]]
<1>1. b \in Boards /\ ep \in Episodes /\ dumps \in DumpsT /\ tries \in Nat
  <2>1. launches \in 1..MaxLaunch /\ ep \in 1..NEpisodes /\ b \in Boards /\ dumps \in DumpsT
        /\ tries \in Nat
    BY DEF CountersOK, DumpsT, Episode, Playing
  <2> QED BY <2>1, EpisodesAre
<1>2. dumps' = [dumps EXCEPT ![b][ep] = new]
  BY DEF Saved
<1> HIDE DEF b, ep
<1>3. old \in [Envs -> [json : Nat, pcb : Nat]]
  BY <1>1 DEF DumpsT
<1> HIDE DEF old
<1>4. /\ new \in [Envs -> [json : Nat, pcb : Nat]]
      /\ \A i \in Envs : new[i].json = old[i].json /\ (i \in S => new[i].pcb = tries)
  BY <1>1, <1>3
<1> HIDE DEF new
<1>5. /\ dumps' \in DumpsT /\ dumps'[b][ep] = new
      /\ \A c \in Boards : c # b => dumps'[c] = dumps[c]
      /\ \A e \in Episodes : e # ep => dumps'[b][e] = dumps[b][e]
  BY <1>1, <1>2, <1>4 DEF DumpsT
<1> QED BY <1>1, <1>4, <1>5 DEF b, ep, old

LEMMA UsageSave ==
    ASSUME TypeOK, UsageInv, SaveBoards
    PROVE  UsageInv'
<1>1. /\ run.pc = "save" /\ run' = AfterEpisode(tries, FALSE) /\ dumps' = Saved(Envs)
      /\ UNCHANGED <<usage, launches, tries>>
      /\ CountersOK /\ DumpInv /\ TriesInv
  BY DEF SaveBoards, UsageInv
<1>2. /\ run.board \in Boards /\ run.ep \in Episodes /\ dumps' \in DumpsT
      /\ \A b \in Boards : b # run.board => dumps'[b] = dumps[b]
      /\ \A e \in Episodes : e # run.ep => dumps'[run.board][e] = dumps[run.board][e]
      /\ \A i \in Envs : /\ dumps'[run.board][run.ep][i].json = dumps[run.board][run.ep][i].json
                         /\ dumps'[run.board][run.ep][i].pcb = tries
  BY <1>1, SavedIs
<1>3. /\ usage[run.board] = {} /\ tries \in Nat /\ tries >= 1
      /\ \A i \in Envs : dumps[run.board][run.ep][i].json = tries
  <2>1. run.pc \in Episode
    BY <1>1 DEF Episode, Playing
  <2>2. \A i \in Envs : i < NEnvs + 1
    BY RolloutAssumption DEF Envs
  <2> QED BY <1>1, <2>1, <2>2 DEF CountersOK, DumpInv, TriesInv
<1>4. PICK b, ep : b = run.board /\ ep = run.ep
  OBVIOUS
<1>5. Complete(b, ep)' /\ tries = Recorded(b, ep)'
  <2>1. 1 \in Envs
    BY RolloutAssumption DEF Envs
  <2> QED BY <1>2, <1>3, <1>4, <2>1 DEF Complete, Recorded
<1>6. \A c \in Boards, e \in Episodes, i \in Envs : dumps'[c][e][i].json = dumps[c][e][i].json
  BY <1>2
<1>7. \A c \in Boards : dumps'[c] = dumps[c] \/ usage[c] = {}
  BY <1>2, <1>3
<1>8. \A e \in 1..run.ep - 1 : dumps'[run.board][e] = dumps[run.board][e]
  <2>1. launches \in 1..MaxLaunch /\ run.ep \in 1..NEpisodes
    BY <1>1 DEF CountersOK, Episode, Playing
  <2>2. 1..NEpisodes \subseteq Episodes /\ NEpisodes \in Nat
    BY <2>1, EpisodesAre
  <2> QED BY <1>2, <2>1, <2>2
<1>9. run.pc \in Episode \cup {"episode"}
  BY <1>1 DEF Episode, Playing
<1> QED BY <1>1, <1>2, <1>3, <1>4, <1>5, <1>6, <1>7, <1>8, <1>9, UsageAfter

LEMMA UsageRebuild ==
    ASSUME TypeOK, UsageInv, Rebuild
    PROVE  UsageInv'
<1>1. /\ run.pc = "rebuild" /\ run' = AfterEpisode(0, TRUE) /\ UNCHANGED <<dumps, usage, launches, tries>>
      /\ CountersOK /\ TriesInv
  BY DEF Rebuild, disk, UsageInv
<1>2. run.pc \in Episode /\ usage[run.board] = {} /\ dumps' \in DumpsT
  BY <1>1 DEF Episode, TriesInv, CountersOK, DumpsT
<1>3. PICK b, ep : b = run.board /\ ep = run.ep
  OBVIOUS
<1> QED BY <1>1, <1>2, <1>3, UsageAfter

LEMMA UsageBegin ==
    ASSUME TypeOK, UsageInv, BeginEpisode
    PROVE  UsageInv'
<1>0. /\ run.pc = "episode" /\ tries' = tries + 1 /\ UNCHANGED <<dumps, launches>>
      /\ usage' = [usage EXCEPT ![run.board] = {}]
      /\ CountersOK /\ DumpInv /\ TriesInv /\ UsageCoversDumps /\ NEpisodes' = NEpisodes
  BY DEF BeginEpisode, UsageInv, NEpisodes, StaleUsage
<1>1. PICK pc \in {"generate", "rebuild"} : run' = [run EXCEPT !.pc = pc]
  BY DEF BeginEpisode
<1>2. /\ run'.pc = pc /\ run'.board = run.board /\ run'.ep = run.ep /\ run'.tries = run.tries
      /\ run'.crashed = run.crashed
  BY <1>1, Moved, Records DEF Playing
<1>3. /\ run.board \in Boards /\ run.ep \in 1..NEpisodes /\ run.tries \in Seq(Nat)
      /\ run.crashed \in BOOLEAN /\ Len(run.tries) = run.ep - 1 /\ tries \in Nat
      /\ launches \in 0..MaxLaunch /\ launches >= 1 /\ DOMAIN usage = Boards
  BY <1>0 DEF CountersOK
<1>4. /\ usage'[run.board] = {} /\ DOMAIN usage' = Boards
      /\ \A b \in Boards : b # run.board => usage'[b] = usage[b]
  BY <1>0, <1>3
<1>5. /\ run'.pc \in Episode /\ run'.pc \notin {"off", "reload", "usage", "dump", "save", "episode"}
  BY <1>2 DEF Episode, Playing
<1>6. CountersOK'
  <2>1. tries' >= 1 /\ tries' \in Nat
    BY <1>0, <1>3
  <2> QED BY <1>0, <1>2, <1>3, <1>4, <1>5, <2>1 DEF CountersOK
<1>7. DumpInv'
  BY <1>0, <1>5 DEF DumpInv
<1>8. TriesInv'
  <2>1. ASSUME ~run.crashed, NEW e \in 1..Len(run.tries)
        PROVE  Complete(run.board, e)' /\ run.tries[e] = Recorded(run.board, e)'
    <3>1. Complete(run.board, e) /\ run.tries[e] = Recorded(run.board, e)
      BY <1>0, <2>1 DEF TriesInv
    <3> QED BY <1>0, <1>2, <3>1 DEF Complete, Recorded
  <2> QED BY <1>2, <1>4, <1>5, <2>1 DEF TriesInv
<1>9. UsageCoversDumps'
  <2>1. ASSUME NEW c \in Boards, usage'[c] # {}
        PROVE  usage'[c] = usage[c] /\ \A e \in Episodes : dumps'[c][e] = dumps[c][e]
    BY <1>0, <1>4, <2>1
  <2> QED BY <1>0, <2>1, CoversKept
<1> QED BY <1>6, <1>7, <1>8, <1>9 DEF UsageInv

\* The usage of a board is written: without a crash it sums the tries of the
\* episodes that are dumped, and there are no others.
LEMMA UsageWrite ==
    ASSUME TypeOK, UsageInv, WriteUsage
    PROVE  UsageInv'
<1>0. /\ run.pc = "usage" /\ UNCHANGED <<dumps, launches, tries>>
      /\ CountersOK /\ DumpInv /\ TriesInv /\ UsageCoversDumps /\ NEpisodes' = NEpisodes
  BY DEF WriteUsage, UsageInv, NEpisodes
<1>1. /\ run.board \in Boards /\ launches \in 1..MaxLaunch /\ DOMAIN usage = Boards
      /\ Len(run.tries) = NEpisodes /\ run.crashed \in BOOLEAN
  BY <1>0 DEF CountersOK
<1>2. /\ run'.pc \in {"reload", "off"}
      /\ run'.pc = "reload" => run'.board = run.board /\ run'.board < NBoards
  <2>1. CASE run.board < NBoards
    <3>1. run' = [run EXCEPT !.pc = "reload"]
      BY <2>1 DEF WriteUsage
    <3> QED BY <2>1, <3>1, Moved, Records DEF Between
  <2>2. CASE ~(run.board < NBoards)
    BY <2>2, Records DEF WriteUsage
  <2> QED BY <2>1, <2>2
<1>3. run'.pc \notin Episode \cup {"episode", "usage", "dump", "save"}
  BY <1>2 DEF Episode, Playing
<1>4. /\ DOMAIN usage' = Boards
      /\ \A b \in Boards : b # run.board => usage'[b] = usage[b]
      /\ usage'[run.board] = IF run.crashed THEN usage[run.board]
                             ELSE {run.tries[e] : e \in 1..NEpisodes}
  BY <1>1 DEF WriteUsage
<1>5. CountersOK'
  BY <1>0, <1>1, <1>2, <1>3, <1>4 DEF CountersOK
<1>6. DumpInv'
  BY <1>0, <1>3 DEF DumpInv
<1>7. TriesInv'
  BY <1>3 DEF TriesInv
<1>8. ASSUME ~run.crashed
      PROVE  {run.tries[e] : e \in 1..NEpisodes}
               = {Recorded(run.board, e) : e \in {x \in Episodes : Complete(run.board, x)}}
  <2>1. \A e \in 1..NEpisodes : /\ Complete(run.board, e)
                                /\ run.tries[e] = Recorded(run.board, e)
    BY <1>0, <1>1, <1>8 DEF TriesInv
  <2>2. NEpisodes \in Nat /\ 1..NEpisodes \subseteq Episodes /\ Episodes \subseteq Nat /\ 1 \in Envs
    BY <1>1, EpisodesAre
  <2>3. ASSUME NEW x \in Episodes, Complete(run.board, x)
        PROVE  x \in 1..NEpisodes
    <3>1. dumps[run.board][x][1].json > 0
      BY <2>2, <2>3 DEF Complete
    <3>2. x <= NEpisodes
      BY <1>0, <1>1, <2>2, <3>1 DEF DumpInv
    <3> QED BY <2>2, <3>2 DEF Episodes
  <2> QED BY <2>1, <2>2, <2>3
<1>9. UsageCoversDumps'
  <2>1. ASSUME NEW b \in Boards, usage'[b] \notin {{}, Torn}
        PROVE  usage'[b] = {Recorded(b, e) : e \in {x \in Episodes : Complete(b, x)}}
    <3>1. CASE b = run.board /\ ~run.crashed
      BY <1>4, <1>8, <3>1
    <3>2. CASE ~(b = run.board /\ ~run.crashed)
      BY <1>0, <1>4, <2>1, <3>2 DEF UsageCoversDumps
    <3> QED BY <3>1, <3>2
  <2> QED BY <1>0, <2>1 DEF UsageCoversDumps, Complete, Recorded
<1> QED BY <1>5, <1>6, <1>7, <1>9 DEF UsageInv

LEMMA UsageDump ==
    ASSUME TypeOK, UsageInv, DumpJson
    PROVE  UsageInv'
<1> DEFINE b == run.board
           ep == run.ep
           k == run.k
           pc == IF k = NEnvs THEN "save" ELSE "dump"
           old == dumps[b][ep]
<1>0. /\ run.pc = "dump" /\ UNCHANGED <<usage, launches, tries>> /\ pc \in {"dump", "save"}
      /\ dumps' = [dumps EXCEPT ![b][ep][k].json = tries]
      /\ run' = [run EXCEPT !.k = k + 1, !.pc = pc]
      /\ CountersOK /\ DumpInv /\ TriesInv /\ UsageCoversDumps /\ NEpisodes' = NEpisodes
  BY DEF DumpJson, UsageInv, NEpisodes
<1> HIDE DEF b, ep, pc
<1>1. /\ run'.pc = pc /\ run'.k = k + 1 /\ run'.board = run.board /\ run'.ep = run.ep
      /\ run'.tries = run.tries /\ run'.crashed = run.crashed
  BY <1>0, Records DEF TypeOK
<1>2. /\ b \in Boards /\ launches \in 1..MaxLaunch /\ ep \in 1..NEpisodes /\ ep \in Episodes
      /\ dumps \in DumpsT /\ tries \in Nat /\ tries >= 1 /\ usage[b] = {}
      /\ NEnvs \in Nat \ {0} /\ k \in Envs
      /\ run.tries \in Seq(Nat) /\ run.crashed \in BOOLEAN /\ Len(run.tries) = ep - 1
      /\ DOMAIN usage = Boards
  <2>1. run.pc \in Episode
    BY <1>0 DEF Episode, Playing
  <2>2. launches \in 1..MaxLaunch /\ ep \in 1..NEpisodes
    BY <1>0, <2>1 DEF CountersOK, ep
  <2>3. ep \in Episodes
    BY <2>2, EpisodesAre
  <2> QED BY <1>0, <2>1, <2>2, <2>3, RolloutAssumption DEF CountersOK, TriesInv, DumpsT, b, ep
<1> HIDE DEF k
<1> DEFINE new == [old EXCEPT ![k].json = tries]
<1>3. dumps' = [dumps EXCEPT ![b][ep] = new] /\ old \in [Envs -> [json : Nat, pcb : Nat]]
  BY <1>0, <1>2 DEF DumpsT
<1> HIDE DEF old
<1>4. /\ new \in [Envs -> [json : Nat, pcb : Nat]] /\ new[k].json = tries
      /\ \A i \in Envs : i # k => new[i] = old[i]
  BY <1>2, <1>3
<1> HIDE DEF new
<1>5. /\ dumps' \in DumpsT /\ dumps'[b][ep] = new
      /\ \A c \in Boards : c # b => dumps'[c] = dumps[c]
      /\ \A e \in Episodes : e # ep => dumps'[b][e] = dumps[b][e]
  BY <1>2, <1>3, <1>4 DEF DumpsT
<1>6. run'.pc \in Episode /\ run'.pc \notin {"off", "reload", "usage", "episode"}
  BY <1>0, <1>1 DEF Episode, Playing
<1>7. CountersOK'
  <2>1. run'.pc = "dump" => run'.k \in Envs
    BY <1>1, <1>2 DEF Envs, pc
  <2>2. run'.board \in Boards /\ run'.ep \in 1..NEpisodes' /\ Len(run'.tries) = run'.ep - 1
        /\ run'.tries \in Seq(Nat) /\ run'.crashed \in BOOLEAN
    BY <1>0, <1>1, <1>2 DEF b, ep
  <2>3. launches' \in 0..MaxLaunch /\ launches' >= 1 /\ tries' \in Nat /\ tries' >= 1
        /\ DOMAIN usage' = Boards
    BY <1>0, <1>2
  <2> QED BY <1>5, <1>6, <2>1, <2>2, <2>3 DEF CountersOK, DumpsT
<1>8. DumpInv'
  <2>1. ASSUME NEW c \in Boards, NEW e \in Episodes, NEW i \in Envs, dumps'[c][e][i].json > 0
        PROVE  launches' >= 1 /\ e <= NEpisodes'
    <3>1. CASE c = b /\ e = ep
      BY <1>0, <1>2, <3>1
    <3>2. CASE ~(c = b /\ e = ep)
      <4>1. dumps'[c][e] = dumps[c][e]
        BY <1>5, <3>2
      <4> QED BY <1>0, <2>1, <4>1 DEF DumpInv
    <3> QED BY <3>1, <3>2
  <2>2. ASSUME NEW i \in Envs, i < run'.k
        PROVE  dumps'[run'.board][run'.ep][i].json = tries
    <3>1. dumps'[run'.board][run'.ep] = new
      BY <1>1, <1>5 DEF b, ep
    <3>2. CASE i = k
      BY <1>4, <3>1, <3>2
    <3>3. CASE i # k
      <4>1. i < run.k
        BY <1>1, <1>2, <2>2, <3>3 DEF Envs, k
      <4>2. old[i].json = tries
        BY <1>0, <4>1 DEF DumpInv, old, b, ep
      <4> QED BY <1>4, <3>1, <3>3, <4>2
    <3> QED BY <3>2, <3>3
  <2>3. run'.pc = "save" => run'.k = NEnvs + 1
    BY <1>1 DEF pc
  <2> QED BY <1>0, <2>1, <2>2, <2>3 DEF DumpInv
<1>9. TriesInv'
  <2>1. ASSUME ~run.crashed, NEW e \in 1..Len(run.tries)
        PROVE  Complete(b, e)' /\ run.tries[e] = Recorded(b, e)'
    <3>1. Complete(b, e) /\ run.tries[e] = Recorded(b, e)
      BY <1>0, <2>1 DEF TriesInv, Episode, Playing, b
    <3>2. e # ep /\ e \in Episodes
      <4>1. e \in 1..NEpisodes /\ NEpisodes \in Nat
        BY <1>2, <2>1, EpisodesAre
      <4> QED BY <1>2, <2>1, <4>1, EpisodesAre
    <3>3. dumps'[b][e] = dumps[b][e]
      BY <1>5, <3>2
    <3> QED BY <1>1, <3>1, <3>3 DEF Complete, Recorded, b
  <2>2. usage'[run'.board] = {}
    BY <1>0, <1>1, <1>2 DEF b
  <2>3. \A e \in 1..Len(run'.tries) : ~run'.crashed =>
          Complete(run.board, e)' /\ run'.tries[e] = Recorded(run.board, e)'
    BY <1>1, <2>1 DEF b
  <2> QED BY <1>6, <2>2, <2>3 DEF TriesInv
<1>10. UsageCoversDumps'
  <2>1. ASSUME NEW c \in Boards, usage'[c] # {}
        PROVE  usage'[c] = usage[c] /\ \A e \in Episodes : dumps'[c][e] = dumps[c][e]
    <3>1. c # b
      BY <1>0, <1>2, <2>1
    <3> QED BY <1>0, <1>5, <3>1
  <2> QED BY <1>0, <2>1, CoversKept
<1> QED BY <1>7, <1>8, <1>9, <1>10 DEF UsageInv

\* The steps of an episode that write nothing.
LEMMA UsagePlay ==
    ASSUME TypeOK, UsageInv,
           \/ \E kind \in [Envs -> Kinds], done \in [Envs -> BOOLEAN] : Step(kind, done)
           \/ ScoreEnded \/ EndStep \/ Finalize
    PROVE  UsageInv'
<1>0. UNCHANGED <<dumps, usage, tries, launches>> /\ DOMAIN run = DOMAIN Off
  <2>1. CASE \E kind \in [Envs -> Kinds], done \in [Envs -> BOOLEAN] : Step(kind, done)
    BY <2>1, Zenon DEF Step, disk, TypeOK
  <2>2. CASE ScoreEnded \/ EndStep \/ Finalize
    BY <2>2, Zenon DEF ScoreEnded, EndStep, Finalize, disk, TypeOK
  <2> QED BY <2>1, <2>2
<1>1. CASE \E kind \in [Envs -> Kinds], done \in [Envs -> BOOLEAN] : Step(kind, done)
  <2>1. run.pc = "generate" /\ \E out : run' = [run EXCEPT !.pc = "score", !.out = out]
    BY <1>1, Zenon DEF Step
  <2>2. /\ run'.pc = "score" /\ run'.board = run.board /\ run'.ep = run.ep
        /\ run'.tries = run.tries /\ run'.crashed = run.crashed
    BY <1>0, <2>1, Records
  <2> QED BY <1>0, <2>1, <2>2, UsageKept DEF Episode, Playing
<1>2. CASE ScoreEnded
  <2>1. PICK pc \in {"guard", "rebuild"} : run' = [run EXCEPT !.pc = pc]
    BY <1>2 DEF ScoreEnded
  <2>2. /\ run'.pc = pc /\ run'.board = run.board /\ run'.ep = run.ep
        /\ run'.tries = run.tries /\ run'.crashed = run.crashed
    BY <1>0, <2>1, Records
  <2>3. run.pc = "score"
    BY <1>2 DEF ScoreEnded
  <2> QED BY <1>0, <2>2, <2>3, UsageKept DEF Episode, Playing
<1>3. CASE EndStep
  <2>1. \E streak, stall, frozen, known, dones, step, out : \E pc \in {"generate", "finalize"} :
          run' = [run EXCEPT !.streak = streak, !.stall = stall, !.frozen = frozen, !.known = known,
                             !.dones = dones, !.step = step, !.out = out, !.pc = pc]
    BY <1>3, Zenon DEF EndStep
  <2>2. /\ run'.pc \in {"generate", "finalize"} /\ run'.board = run.board /\ run'.ep = run.ep
        /\ run'.tries = run.tries /\ run'.crashed = run.crashed
    BY <1>0, <2>1, Records
  <2>3. run.pc = "guard"
    BY <1>3 DEF EndStep
  <2> QED BY <1>0, <2>2, <2>3, UsageKept DEF Episode, Playing
<1>4. CASE Finalize
  <2>1. \E results : run' = [run EXCEPT !.pc = "dump", !.k = 1, !.results = results]
    BY <1>4, Zenon DEF Finalize
  <2>2. /\ run'.pc = "dump" /\ run'.k = 1 /\ run'.board = run.board /\ run'.ep = run.ep
        /\ run'.tries = run.tries /\ run'.crashed = run.crashed
    BY <1>0, <2>1, Records
  <2>3. run.pc = "finalize"
    BY <1>4 DEF Finalize
  <2> QED BY <1>0, <2>2, <2>3, UsageKept DEF Episode, Playing
<1> QED BY <1>1, <1>2, <1>3, <1>4

\* What a step that is cut short leaves is in the episode that runs.
LEMMA CutIs ==
    ASSUME TypeOK, UsageInv, CutShort, UNCHANGED <<usage, launches>>
    PROVE  /\ dumps' \in DumpsT
           /\ \A c \in Boards, e \in Episodes, i \in Envs :
                dumps'[c][e][i].json \in {0, dumps[c][e][i].json}
           /\ \A c \in Boards : dumps'[c] = dumps[c] \/ usage[c] = {}
           /\ \A e \in Episodes : e # run.ep => dumps'[run.board][e] = dumps[run.board][e]
           /\ UsageCoversDumps'
<1> DEFINE b == run.board
           ep == run.ep
<1>0. CountersOK /\ TriesInv /\ UsageCoversDumps /\ dumps \in DumpsT
  BY DEF UsageInv, CountersOK, DumpsT
<1>1. CASE dumps' = dumps
  BY <1>0, <1>1 DEF UsageCoversDumps, Complete, Recorded, DumpsT
<1>2. ASSUME run.pc \in {"dump", "save"}, dumps' \in DumpsT,
             \A c \in Boards : c # b => dumps'[c] = dumps[c],
             \A e \in Episodes : e # ep => dumps'[b][e] = dumps[b][e],
             \A i \in Envs : dumps'[b][ep][i].json \in {0, dumps[b][ep][i].json}
      PROVE  /\ \A c \in Boards, e \in Episodes, i \in Envs :
                  dumps'[c][e][i].json \in {0, dumps[c][e][i].json}
             /\ \A c \in Boards : dumps'[c] = dumps[c] \/ usage[c] = {}
             /\ UsageCoversDumps'
  <2>1. usage[b] = {}
    BY <1>0, <1>2 DEF TriesInv, Episode, Playing
  <2>2. \A c \in Boards : dumps'[c] = dumps[c] \/ usage[c] = {}
    BY <1>2, <2>1
  <2>3. UsageCoversDumps'
    BY <1>0, <2>2, CoversKept
  <2>4. ASSUME NEW c \in Boards, NEW e \in Episodes, NEW i \in Envs
        PROVE  dumps'[c][e][i].json \in {0, dumps[c][e][i].json}
    <3>1. CASE c = b /\ e = ep
      BY <1>2, <3>1
    <3>2. CASE ~(c = b /\ e = ep)
      <4>1. dumps'[c][e] = dumps[c][e]
        BY <1>2, <3>2
      <4> QED BY <4>1
    <3> QED BY <3>1, <3>2
  <2> QED BY <2>2, <2>3, <2>4
<1>3. CASE run.pc = "dump" /\ dumps' = [dumps EXCEPT ![run.board][run.ep][run.k].json = 0]
  <2> DEFINE old == dumps[b][ep]
             new == [old EXCEPT ![run.k].json = 0]
  <2>1. b \in Boards /\ ep \in Episodes /\ run.k \in Envs
    <3>1. launches \in 1..MaxLaunch /\ ep \in 1..NEpisodes /\ b \in Boards /\ run.k \in Envs
      BY <1>0, <1>3 DEF CountersOK, Episode, Playing
    <3> QED BY <3>1, EpisodesAre
  <2>2. dumps' = [dumps EXCEPT ![b][ep] = new] /\ old \in [Envs -> [json : Nat, pcb : Nat]]
    BY <1>0, <1>3, <2>1 DEF DumpsT
  <2> HIDE DEF b, ep, old
  <2>3. /\ new \in [Envs -> [json : Nat, pcb : Nat]]
        /\ \A i \in Envs : new[i].json \in {0, old[i].json}
    BY <2>1, <2>2
  <2> HIDE DEF new
  <2>4. /\ dumps' \in DumpsT /\ dumps'[b][ep] = new
        /\ \A c \in Boards : c # b => dumps'[c] = dumps[c]
        /\ \A e \in Episodes : e # ep => dumps'[b][e] = dumps[b][e]
    BY <1>0, <2>1, <2>2, <2>3 DEF DumpsT
  <2>5. \A i \in Envs : dumps'[b][ep][i].json \in {0, dumps[b][ep][i].json}
    BY <2>3, <2>4 DEF old
  <2> QED BY <1>2, <1>3, <2>4, <2>5 DEF b, ep
<1>4. CASE run.pc = "save" /\ \E S \in SUBSET Envs : dumps' = Saved(S)
  BY <1>0, <1>2, <1>4, SavedIs
<1>5. CASE \E S \in SUBSET {i \in Envs : workers[i].up} : run.pc = "save" /\ dumps' = Saved(S)
  BY <1>4, <1>5
<1> QED BY <1>1, <1>3, <1>5 DEF CutShort

\* An episode that raises may leave some of its files behind.
LEMMA UsageRaises ==
    ASSUME TypeOK, UsageInv, EpisodeRaises
    PROVE  UsageInv'
<1>0. /\ run' = [run EXCEPT !.pc = "rebuild"] /\ UNCHANGED <<usage, tries, launches>>
      /\ run.pc \in {"generate", "dump", "save"} /\ CutShort
      /\ CountersOK /\ DumpInv /\ TriesInv /\ NEpisodes' = NEpisodes
  BY Zenon DEF EpisodeRaises, UsageInv, NEpisodes
<1>1. /\ run'.pc = "rebuild" /\ run'.board = run.board /\ run'.ep = run.ep
      /\ run'.tries = run.tries /\ run'.crashed = run.crashed
  BY <1>0, Moved, Records
<1>2. run.pc \in Episode /\ run'.pc \in Episode
  BY <1>0, <1>1 DEF Episode, Playing
<1> DEFINE b == run.board
           ep == run.ep
<1>3. /\ dumps' \in DumpsT /\ UsageCoversDumps'
      /\ \A c \in Boards, e \in Episodes, i \in Envs : dumps'[c][e][i].json \in {0, dumps[c][e][i].json}
      /\ \A e \in Episodes : e # ep => dumps'[b][e] = dumps[b][e]
  BY <1>0, CutIs
<1>4. /\ usage[b] = {} /\ launches \in 1..MaxLaunch /\ ep \in 1..NEpisodes /\ b \in Boards
      /\ Len(run.tries) = ep - 1 /\ run.tries \in Seq(Nat) /\ run.crashed \in BOOLEAN
      /\ tries \in Nat /\ tries >= 1 /\ DOMAIN usage = Boards
  BY <1>0, <1>2 DEF CountersOK, TriesInv, Episode, Playing
<1>5. run'.pc \notin {"off", "reload", "usage", "episode", "dump", "save"}
  BY <1>1
<1>6. CountersOK'
  BY <1>0, <1>1, <1>2, <1>3, <1>4, <1>5 DEF CountersOK, DumpsT
<1> HIDE DEF b, ep
<1>7. DumpInv'
  <2>1. ASSUME NEW c \in Boards, NEW e \in Episodes, NEW i \in Envs, dumps'[c][e][i].json > 0
        PROVE  launches >= 1 /\ e <= NEpisodes
    <3>1. dumps'[c][e][i].json = dumps[c][e][i].json
      BY <1>3, <2>1
    <3> QED BY <1>0, <2>1, <3>1 DEF DumpInv
  <2> QED BY <1>0, <1>5, <2>1 DEF DumpInv
<1>8. TriesInv'
  <2>1. ASSUME ~run.crashed, NEW e \in 1..Len(run.tries)
        PROVE  Complete(b, e)' /\ run.tries[e] = Recorded(b, e)'
    <3>1. Complete(b, e) /\ run.tries[e] = Recorded(b, e)
      BY <1>0, <1>2, <2>1 DEF TriesInv, b
    <3>2. e # ep /\ e \in Episodes
      <4>1. e \in 1..NEpisodes /\ NEpisodes \in Nat
        BY <1>4, <2>1, EpisodesAre
      <4> QED BY <1>4, <2>1, <4>1, EpisodesAre
    <3>3. dumps'[b][e] = dumps[b][e]
      BY <1>3, <3>2
    <3> QED BY <1>1, <3>1, <3>3 DEF Complete, Recorded, b
  <2>2. usage'[run'.board] = {}
    BY <1>0, <1>1, <1>4 DEF b
  <2>3. \A e \in 1..Len(run'.tries) : ~run'.crashed =>
          Complete(run.board, e)' /\ run'.tries[e] = Recorded(run.board, e)'
    BY <1>1, <2>1 DEF b
  <2> QED BY <1>5, <2>2, <2>3 DEF TriesInv
<1> QED BY <1>3, <1>6, <1>7, <1>8 DEF UsageInv

\* A run that ends may leave some files of its episode, or a torn usage file.
LEMMA UsageExit ==
    ASSUME TypeOK, UsageInv, Exit
    PROVE  UsageInv'
<1>0. /\ run' = Off /\ UNCHANGED <<tries, launches>> /\ NEpisodes' = NEpisodes /\ CutShort
      /\ \/ UNCHANGED usage
         \/ run.pc = "usage" /\ usage' = [usage EXCEPT ![run.board] = Torn]
  BY DEF Exit, NEpisodes
<1>1. run'.pc \notin Episode \cup {"episode", "usage", "reload", "dump", "save"} /\ run'.pc = "off"
  BY <1>0, Records DEF Episode, Playing
<1>2. /\ dumps' \in DumpsT /\ UsageCoversDumps' /\ DOMAIN usage' = Boards
      /\ \A c \in Boards, e \in Episodes, i \in Envs : dumps'[c][e][i].json \in {0, dumps[c][e][i].json}
  <2>1. CASE UNCHANGED usage
    BY <1>0, <2>1, CutIs DEF UsageInv, CountersOK
  <2>2. CASE run.pc = "usage" /\ usage' = [usage EXCEPT ![run.board] = Torn]
    <3>1. dumps' = dumps
      BY <1>0, <2>2 DEF CutShort
    <3>2. DOMAIN usage = Boards /\ UsageCoversDumps /\ dumps \in DumpsT
      BY DEF UsageInv, CountersOK, DumpsT
    <3>3. DOMAIN usage' = Boards /\ \A c \in Boards : usage'[c] \in {usage[c], Torn}
      BY <2>2, <3>2
    <3>4. UsageCoversDumps'
      BY <3>1, <3>2, <3>3 DEF UsageCoversDumps, Complete, Recorded
    <3> QED BY <3>1, <3>2, <3>3, <3>4
  <2> QED BY <1>0, <2>1, <2>2
<1>3. CountersOK'
  BY <1>0, <1>1, <1>2 DEF UsageInv, CountersOK, DumpsT
<1>4. DumpInv'
  <2>1. ASSUME NEW c \in Boards, NEW e \in Episodes, NEW i \in Envs, dumps'[c][e][i].json > 0
        PROVE  launches >= 1 /\ e <= NEpisodes
    <3>1. dumps'[c][e][i].json = dumps[c][e][i].json
      BY <1>2, <2>1
    <3> QED BY <2>1, <3>1 DEF UsageInv, DumpInv
  <2> QED BY <1>0, <1>1, <2>1 DEF DumpInv
<1>5. TriesInv'
  BY <1>1 DEF TriesInv
<1> QED BY <1>2, <1>3, <1>4, <1>5 DEF UsageInv

LEMMA UsageInit ==
    ASSUME Init
    PROVE  UsageInv
<1>1. /\ run.pc = "off" /\ usage = [b \in Boards |-> {}] /\ tries = 0 /\ launches = 0
      /\ dumps = [b \in Boards |-> [e \in Episodes |-> [i \in Envs |-> [json |-> 0, pcb |-> 0]]]]
  BY Records DEF Init, All
<1>2. CountersOK
  <2>1. 0 \in 0..MaxLaunch
    BY RolloutAssumption DEF MaxLaunch
  <2> QED BY <1>1, <2>1 DEF CountersOK, Episode, Playing
<1>3. DumpInv
  BY <1>1 DEF DumpInv
<1>4. TriesInv /\ UsageCoversDumps
  BY <1>1 DEF TriesInv, UsageCoversDumps, Episode, Playing
<1> QED BY <1>2, <1>3, <1>4 DEF UsageInv

LEMMA UsageNext ==
    ASSUME TypeOK, UsageInv, [Next]_vars
    PROVE  UsageInv'
<1>1. CASE UNCHANGED vars \/ \E i \in Envs : WorkerDies(i)
  BY <1>1, UsageSame DEF vars, disk, WorkerDies
<1>2. CASE /\ Next /\ ~\E i \in Envs : WorkerDies(i)
  BY <1>2, UsageLaunch, UsageReload, UsageSkip, UsageBegin, UsageWrite, UsagePlay, UsageDump,
     UsageSave, UsageRaises, UsageRebuild, UsageExit, Zenon DEF Next
<1> QED BY <1>1, <1>2

(* The usage file of a board sums the episodes that are dumped, neither    *)
(* more nor fewer, wherever the launches before were killed.               *)
THEOREM UsageTheorem == Spec => []UsageCoversDumps
<1>1. Init => UsageInv
  BY UsageInit
<1>2. IInv /\ UsageInv /\ [Next]_vars => UsageInv'
  BY UsageNext DEF IInv
<1>3. UsageInv => UsageCoversDumps
  BY DEF UsageInv
<1> QED BY <1>1, <1>2, <1>3, InvTheorem, PTL DEF Spec

(* An environment is scored once, on the board its episode ended with,     *)
(* however many others play on and for how long.                           *)
THEOREM ScoredTheorem == Spec => []ScoredAtItsEnd
<1>1. IInv => ScoredAtItsEnd
  BY DEF IInv, EarnedInv, ResultInv, ScoredAtItsEnd, Playing
<1> QED BY <1>1, InvTheorem, PTL

(* Every worker that is alive plays the board of the episode, whenever the *)
(* workers were rebuilt.                                                   *)
THEOREM BoardTheorem == Spec => []OnItsBoard
<1>1. IInv => OnItsBoard
  BY DEF IInv, BoardInv, EarnedInv, OnItsBoard, Playing, None
<1> QED BY <1>1, InvTheorem, PTL

(* A result shows the board it was scored on, also that of an environment  *)
(* which stopped early and played on.                                      *)
THEOREM ShownTheorem == Spec => []ShowsWhatWasScored
<1>1. IInv => ShowsWhatWasScored
  BY DEF IInv, ResultInv, ShowsWhatWasScored
<1> QED BY <1>1, InvTheorem, PTL

(* The mask of the backend says done of no environment that plays on.      *)
MaskInv == run.pc \in Playing => \A i \in Envs : workers[i].up /\ vec.done[i] => workers[i].over

LEMMA MaskNext ==
    ASSUME IInv, MaskInv, [Next]_vars
    PROVE  MaskInv'
<1> SUFFICES ASSUME run'.pc \in Playing, NEW i \in Envs, workers'[i].up, vec'.done[i]
             PROVE  workers'[i].over
  BY DEF MaskInv
<1>0. DOMAIN run = DOMAIN Off /\ vec \in VecT /\ IsWorker(workers[i])
  BY DEF IInv, TypeOK
<1>1. CASE run.pc \in Playing /\ UNCHANGED <<vec, workers>>
  BY <1>1 DEF MaskInv
<1>2. CASE Launch \/ SkipEpisode \/ WriteUsage \/ ReloadBoards \/ Rebuild \/ Exit \/ EpisodeRaises
  <2>1. run'.pc \in Between \cup {"rebuild"}
    <3>1. CASE SkipEpisode \/ Rebuild
      BY <3>1, After DEF SkipEpisode, Rebuild, IInv, Between
    <3>2. CASE Launch \/ ReloadBoards
      BY <3>2, Records DEF Launch, ReloadBoards, Between
    <3>3. CASE WriteUsage
      BY <1>0, <3>3, Records DEF WriteUsage, Between
    <3>4. CASE Exit \/ EpisodeRaises
      BY <1>0, <3>4, Records DEF Exit, EpisodeRaises, Between
    <3> QED BY <1>2, <3>1, <3>2, <3>3, <3>4
  <2> QED BY <2>1 DEF Playing, Between
<1>3. CASE BeginEpisode
  <2>1. CASE run' = [run EXCEPT !.pc = "rebuild"]
    BY <1>0, <2>1, Records DEF Playing
  <2>2. CASE vec' = [vec EXCEPT !.done = Unmasked]
    <3>1. Unmasked \in [Envs -> BOOLEAN] /\ Unmasked[i] = FALSE
      BY DEF Unmasked, All
    <3> QED BY <1>0, <2>2, <3>1, SetDone
  <2> QED BY <1>3, <2>1, <2>2 DEF BeginEpisode
<1>4. CASE \E kind \in [Envs -> Kinds], done \in [Envs -> BOOLEAN] : Step(kind, done)
  <2>1. PICK kind \in [Envs -> Kinds], done \in [Envs -> BOOLEAN] : Step(kind, done)
    BY <1>4
  <2> DEFINE out == StepOf(i, kind[i], done[i])
  <2>2. /\ run.pc = "generate" /\ (vec'.done[i] <=> vec.done[i] \/ out.done)
        /\ workers'[i] = IF i \in Active THEN [workers[i] EXCEPT !.n = out.n, !.over = out.done]
                         ELSE workers[i]
    BY <1>0, <2>1 DEF Step, VecT
  <2> HIDE DEF out
  <2>3. CASE i \in Active
    <3>1. out.done /\ workers'[i] = [workers[i] EXCEPT !.n = out.n, !.over = out.done]
      BY <2>2, <2>3 DEF Active
    <3> QED BY <1>0, <3>1 DEF IsWorker
  <2>4. CASE i \notin Active
    BY <2>2, <2>4 DEF Active, MaskInv, Playing
  <2> QED BY <2>3, <2>4
<1>5. CASE ScoreEnded \/ EndStep \/ Finalize \/ DumpJson \/ SaveBoards
  <2>1. run.pc \in Playing /\ UNCHANGED <<vec, workers>>
    BY <1>5, Zenon DEF ScoreEnded, EndStep, Finalize, DumpJson, SaveBoards, Playing
  <2> QED BY <1>1, <2>1
<1>6. CASE \E j \in Envs : WorkerDies(j)
  <2>1. PICK j \in Envs : WorkerDies(j)
    BY <1>6
  <2>2. /\ run' = run /\ vec' = vec /\ workers'[j] = Gone /\ (i # j => workers'[i] = workers[i])
    BY <2>1 DEF WorkerDies, IInv, TypeOK
  <2> QED BY <2>2 DEF Gone, MaskInv
<1>7. CASE UNCHANGED vars
  BY <1>7 DEF vars, MaskInv
<1> QED BY <1>2, <1>3, <1>4, <1>5, <1>6, <1>7, Zenon DEF Next

(* The engine of every environment whose episode goes on is stepped, and   *)
(* that of no other, after any resets, reloads, deaths and rebuilds.       *)
THEOREM SteppedTheorem == Spec => SteppedUntilDone
<1> DEFINE Alone == \A i \in Envs : workers[i].over /\ workers'[i].over => workers'[i] = workers[i]
           Stepped == run.pc = "generate" /\ run'.pc = "score" =>
                        \A i \in Envs : workers[i].up => (run'.out[i].done <=> workers'[i].over)
<1>1. IInv /\ [Next]_vars => [Alone]_vars
  <2> SUFFICES ASSUME IInv, Next, NEW i \in Envs, workers[i].over, workers'[i].over
               PROVE  workers'[i] = workers[i]
    BY Zenon
  <2>1. vec.done[i]
    BY DEF IInv, BoardInv
  <2>2. CASE Launch \/ ReloadBoards \/ Exit
    <3>1. workers'[i].over = FALSE
      BY <2>2 DEF Launch, ReloadBoards, Exit, All, Spawned, Gone
    <3> QED BY <3>1
  <2>3. CASE BeginEpisode
    <3>1. IsWorker(workers[i])
      BY DEF IInv, TypeOK
    <3>2. CASE workers'[i] = [workers[i] EXCEPT !.n = 0, !.over = FALSE]
      BY <3>1, <3>2 DEF IsWorker
    <3> QED BY <2>3, <3>2 DEF BeginEpisode
  <2>4. CASE WriteUsage
    BY <2>4 DEF WriteUsage, All, Gone
  <2>5. CASE \E kind \in [Envs -> Kinds], done \in [Envs -> BOOLEAN] : Step(kind, done)
    <3>1. i \notin Active
      BY <2>1 DEF Active
    <3> QED BY <2>5, <3>1 DEF Step
  <2>6. CASE Rebuild
    BY <2>6 DEF Rebuild, Spawned, Gone
  <2>7. CASE \E j \in Envs : WorkerDies(j)
    BY <2>7 DEF WorkerDies, Gone, IInv, TypeOK
  <2>8. CASE SkipEpisode \/ ScoreEnded \/ EndStep \/ Finalize \/ DumpJson \/ SaveBoards \/ EpisodeRaises
    BY <2>8 DEF SkipEpisode, ScoreEnded, EndStep, Finalize, DumpJson, SaveBoards, EpisodeRaises
  <2> QED BY <2>2, <2>3, <2>4, <2>5, <2>6, <2>7, <2>8, Zenon DEF Next
<1>2. IInv /\ MaskInv /\ [Next]_vars => [Stepped]_vars
  <2> SUFFICES ASSUME IInv, MaskInv, Next, run.pc = "generate", run'.pc = "score",
                      NEW i \in Envs, workers[i].up
               PROVE  run'.out[i].done <=> workers'[i].over
    BY Zenon
  <2>1. DOMAIN run = DOMAIN Off /\ vec \in VecT /\ IsWorker(workers[i])
    BY DEF IInv, TypeOK
  <2>2. PICK kind \in [Envs -> Kinds], done \in [Envs -> BOOLEAN] : Step(kind, done)
    <3>1. ~EpisodeRaises /\ ~Exit
      BY <2>1, Records DEF EpisodeRaises, Exit
    <3>2. \A j \in Envs : ~WorkerDies(j)
      BY DEF WorkerDies
    <3> QED BY <3>1, <3>2 DEF Next, Launch, SkipEpisode, BeginEpisode, WriteUsage, ReloadBoards,
                              ScoreEnded, EndStep, Finalize, DumpJson, SaveBoards, Rebuild
  <2> DEFINE out == StepOf(i, kind[i], done[i])
  <2>3. /\ run'.out[i] = out
        /\ workers'[i] = IF i \in Active THEN [workers[i] EXCEPT !.n = out.n, !.over = out.done]
                         ELSE workers[i]
    BY <2>1, <2>2, Records DEF Step
  <2>4. i \notin Active => out.done
    BY <2>2, OutIs DEF IInv
  <2> HIDE DEF out
  <2>5. CASE i \in Active
    BY <2>1, <2>3, <2>5 DEF IsWorker
  <2>6. CASE i \notin Active
    BY <2>3, <2>4, <2>6 DEF Active, MaskInv, Playing
  <2> QED BY <2>5, <2>6
<1>3. Init => MaskInv
  BY Records DEF Init, MaskInv, Playing
<1>4. IInv /\ MaskInv /\ [Next]_vars => MaskInv'
  BY MaskNext
<1>5. [Alone]_vars /\ [Stepped]_vars => [Alone /\ Stepped]_vars
  OBVIOUS
<1> QED BY <1>1, <1>2, <1>3, <1>4, <1>5, InvTheorem, PTL DEF Spec, SteppedUntilDone

=============================================================================
