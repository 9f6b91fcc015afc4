----------------------------- MODULE LlmRollout -----------------------------
(***************************************************************************)
(* The evaluation rollout of a language model over Ray workers: the driver *)
(* (methods/llm_agent/rollout/pcbworld.py), its rollout manager            *)
(* (training/manager.py) and the Ray backend (pcb_world/vec/backends/      *)
(* ray.py).  Every environment of a batch plays its own episode; one that  *)
(* has ended waits for the others.  A worker may die at any moment, and    *)
(* the run may be killed and started again on the same --dump_dir.         *)
(*                                                                         *)
(* A board is the number of moves made on it; a move earns a reward of 1,  *)
(* so that a return says which board it was earned on.  A try at an        *)
(* episode is its number.                                                  *)
(***************************************************************************)
EXTENDS Integers, Sequences, FiniteSets

CONSTANTS
    NEnvs,       \* --env_num
    NBoards,     \* the boards of the evaluation
    MaxSteps,    \* the step budgets of the boards, adapted to each
    NoProgress,  \* --early_stop_no_progress; 0: off
    NoGeometry,  \* --early_stop_no_geometry_progress; 0: off
    EpisodesOf,  \* --rollout_episodes of every launch
    MaxFaults    \* bound: failures of all kinds

Envs      == 1..NEnvs
Boards    == 1..NBoards
MaxLaunch == Len(EpisodesOf)
Episodes  == 1..EpisodesOf[MaxLaunch]

\* More episodes may be asked for at a later launch, never fewer.
ASSUME RolloutAssumption ==
    /\ NEnvs \in Nat \ {0} /\ NBoards \in Nat \ {0} /\ MaxSteps \in [Boards -> Nat \ {0}]
    /\ NoProgress \in Nat /\ NoGeometry \in Nat /\ MaxFaults \in Nat
    /\ EpisodesOf \in Seq(Nat \ {0}) /\ EpisodesOf # <<>>
    /\ \A j, k \in 1..Len(EpisodesOf) : j <= k => EpisodesOf[j] <= EpisodesOf[k]

VARIABLES
    run,       \* the driver
    mgr,       \* the rollout manager
    vec,       \* the backend: _board_paths (one board for all) and _done_mask
    workers,   \* the actors: alive, board, moves since the reset, and ended
    dumps,     \* {stem}.json and {stem}.kicad_pcb: the try they are of, or 0
    usage,     \* the token usage file of a board: the tries it sums, or Torn
    tries,     \* episodes tried so far
    launches, faults

disk == <<dumps, usage>>
vars == <<run, mgr, vec, workers, dumps, usage, tries, launches, faults>>

All(x) == [i \in Envs |-> x]
None == -1
Torn == {0}

Off == [pc |-> "off", board |-> 0, ep |-> 0, step |-> 0, k |-> 0, dones |-> All(FALSE),
        known |-> All(0), streak |-> All(0), stall |-> All(None), frozen |-> All(<<>>),
        out |-> All([n |-> 0, kind |-> "invalid", reward |-> 0, done |-> FALSE]),
        results |-> <<>>, tries |-> <<>>, crashed |-> FALSE]

FreshMgr == [done |-> All(FALSE), ret |-> All(0), rows |-> All(<<>>), todo |-> {}]
Gone == [up |-> FALSE, board |-> 0, n |-> None, over |-> FALSE]

Init ==
    /\ run = Off /\ mgr = FreshMgr
    /\ vec = [board |-> 0, done |-> All(FALSE)] /\ workers = All(Gone)
    /\ dumps = [b \in Boards |-> [e \in Episodes |-> All([json |-> 0, pcb |-> 0])]]
    /\ usage = [b \in Boards |-> {}]
    /\ tries = 0 /\ launches = 0 /\ faults = 0

-----------------------------------------------------------------------------
(* The Ray backend.                                                        *)

\* An actor that has built its environment; its first reset is still to come.
Spawned(board) == [up |-> TRUE, board |-> board, n |-> None, over |-> FALSE]

Answer(S) == \A i \in S : workers[i].up

\* Environments that have reported done are not stepped again.
Active_All == Envs

Active == {i \in Envs : ~vec.done[i]}

Moves(kind) == kind \in {"moves", "failed"}

\* The budget of the episode, in the driver and in its environments.
EffectiveMaxSteps == MaxSteps[run.board]

\* What step() returns: a done environment replays its last observation.
StepOf(i, kind, done) ==
    IF i \in Active
    THEN LET moved == IF Moves(kind) THEN 1 ELSE 0
         IN [n |-> workers[i].n + moved, kind |-> kind, reward |-> moved,
             done |-> done \/ run.step + 1 >= EffectiveMaxSteps]
    ELSE [run.out[i] EXCEPT !.reward = 0, !.done = TRUE]

Paths_Kept(board) == vec.board

\* _board_paths after reload_boards().
Paths(board) == board

-----------------------------------------------------------------------------
(* The rollout manager: an episode ends once and is scored then, unless    *)
(* that fails.                                                             *)

Unscored_All(S) == S

\* mark_episode_done() skips those that have ended already.
Unscored(S) == {i \in S : ~mgr.done[i]}

Row(i, lost) == [ret |-> mgr.ret[i],
                 scored |-> IF i \in lost THEN None ELSE workers[i].n]

\* The environments S end, those in lost without metrics.
Marked(S, lost) ==
    LET new == Unscored(S)
    IN [mgr EXCEPT !.done = [i \in Envs |-> mgr.done[i] \/ i \in new],
                   !.rows = [i \in Envs |-> IF i \in new THEN Row(i, lost) ELSE mgr.rows[i]],
                   !.todo = {}]

\* _score_and_buffer() of S in one call: all the workers answer, or none is
\* scored; an actor is dead, or the metrics of one of them raise.
ScoringOf(S, lost) ==
    \/ Answer(S) /\ lost = {} /\ UNCHANGED faults
    \/ ~Answer(S) /\ lost = S /\ UNCHANGED faults
    \/ Answer(S) /\ lost = S /\ S # {} /\ faults < MaxFaults /\ faults' = faults + 1

-----------------------------------------------------------------------------
(* Launch, boards and resumption.                                          *)

NEpisodes == EpisodesOf[launches]

\* _run_rollout() builds the workers on the first board.
Launch ==
    /\ run.pc = "off" /\ launches < MaxLaunch
    /\ launches' = launches + 1
    /\ run' = [Off EXCEPT !.pc = "episode", !.board = 1, !.ep = 1]
    /\ mgr' = FreshMgr
    /\ vec' = [board |-> 1, done |-> All(FALSE)] /\ workers' = All(Spawned(1))
    /\ UNCHANGED <<disk, tries, faults>>

\* _load_episode_results(): the episode is taken from its dumps.
Complete(b, e) == \A i \in Envs : dumps[b][e][i].json > 0 /\ dumps[b][e][i].pcb > 0

Recorded(b, e) == dumps[b][e][1].json

\* Nothing of the episode outlives it but its try: the rest is reset.
AfterEpisode(try, crashed) ==
    [Off EXCEPT !.pc = IF run.ep < NEpisodes THEN "episode" ELSE "usage",
                !.board = run.board, !.ep = run.ep + (IF run.ep < NEpisodes THEN 1 ELSE 0),
                !.tries = Append(run.tries, try), !.crashed = run.crashed \/ crashed]

SkipEpisode ==
    /\ run.pc = "episode" /\ Complete(run.board, run.ep)
    /\ run' = AfterEpisode(Recorded(run.board, run.ep), FALSE)
    /\ UNCHANGED <<mgr, vec, workers, disk, tries, launches, faults>>

StaleUsage_Kept == usage[run.board]

\* The usage file of an earlier launch is removed before an episode runs.
StaleUsage == {}

Unmasked_Kept == vec.done

\* reset() steps every environment again.
Unmasked == All(FALSE)

\* mgr.reset(): the workers, the step budget, the manager.
BeginEpisode ==
    /\ run.pc = "episode" /\ ~Complete(run.board, run.ep)
    /\ usage' = [usage EXCEPT ![run.board] = StaleUsage]
    /\ tries' = tries + 1
    /\ IF Answer(Envs)
       THEN /\ workers' = [i \in Envs |-> [workers[i] EXCEPT !.n = 0, !.over = FALSE]]
            /\ vec' = [vec EXCEPT !.done = Unmasked]
            /\ run' = [run EXCEPT !.pc = "generate"]
       ELSE run' = [run EXCEPT !.pc = "rebuild"] /\ UNCHANGED <<workers, vec>>
    /\ UNCHANGED <<mgr, dumps, launches, faults>>

\* The usage of the board is written unless an episode of it crashed.
WriteUsage ==
    /\ run.pc = "usage"
    /\ usage' = IF run.crashed THEN usage
                ELSE [usage EXCEPT ![run.board] = {run.tries[e] : e \in 1..NEpisodes}]
    /\ run' = IF run.board < NBoards THEN [run EXCEPT !.pc = "reload"] ELSE Off
    /\ workers' = IF run.board < NBoards THEN workers ELSE All(Gone)
    /\ UNCHANGED <<mgr, vec, dumps, tries, launches, faults>>

\* _iter_boards_with_reload(): outside of the guard of the episodes.
ReloadBoards ==
    /\ run.pc = "reload" /\ Answer(Envs)
    /\ run' = [Off EXCEPT !.pc = "episode", !.board = run.board + 1, !.ep = 1]
    /\ workers' = All(Spawned(run.board + 1))
    /\ vec' = [board |-> Paths(run.board + 1), done |-> All(FALSE)]
    /\ UNCHANGED <<mgr, disk, tries, launches, faults>>

-----------------------------------------------------------------------------
(* One episode.                                                            *)

Kinds == {"invalid",  \* not parsed, or masked: nothing is measured
          "empty",    \* taken, but it failed or is reported to have changed nothing
          "failed",   \* taken, and it failed after it had changed the measures
          "same",     \* taken, with the measures of the board as before
          "moves"}

\* mgr.step(): the engines that still run are stepped, returns grow, and the
\* environments that report done are to be scored.
Step(kind, done) ==
    LET out == [i \in Envs |-> StepOf(i, kind[i], done[i])] IN
    /\ run.pc = "generate" /\ Answer(Active)
    /\ \A i \in Envs \ Active : kind[i] = "same" /\ ~done[i]   \* nothing is asked of them
    /\ workers' = [i \in Envs |-> IF i \in Active
                                  THEN [workers[i] EXCEPT !.n = out[i].n, !.over = out[i].done]
                                  ELSE workers[i]]
    /\ vec' = [vec EXCEPT !.done = [i \in Envs |-> vec.done[i] \/ out[i].done]]
    /\ mgr' = [mgr EXCEPT !.ret = [i \in Envs |-> IF mgr.done[i] THEN @[i]
                                                  ELSE @[i] + out[i].reward],
                          !.todo = {i \in Envs : out[i].done}]
    /\ run' = [run EXCEPT !.pc = "score", !.out = out]
    /\ UNCHANGED <<disk, tries, launches, faults>>

\* ... and the observations are fetched for the dump.
ScoreEnded ==
    /\ run.pc = "score"
    /\ \E lost \in SUBSET Envs : ScoringOf(Unscored(mgr.todo), lost) /\ mgr' = Marked(mgr.todo, lost)
    /\ run' = [run EXCEPT !.pc = IF Answer(Envs) THEN "guard" ELSE "rebuild"]
    /\ UNCHANGED <<vec, workers, disk, tries, launches>>

Measured(out) == out.kind # "invalid"

\* All that is read of an answer after its step.
Past(out) == [out EXCEPT !.kind = IF Measured(out) THEN "same" ELSE "invalid", !.reward = 0]

Streak(i) == IF run.out[i].kind \in {"same", "moves"} THEN 0 ELSE run.streak[i] + 1

\* NoGeometryProgressGuard: None before the first measures.
Stall(i) ==
    IF ~Measured(run.out[i]) THEN run.stall[i]
    ELSE IF run.stall[i] = None \/ Moves(run.out[i].kind) THEN 0 ELSE run.stall[i] + 1

Stops(i) ==
    /\ ~run.out[i].done
    /\ \/ NoProgress > 0 /\ Streak(i) >= NoProgress
       \/ NoGeometry > 0 /\ Stall(i) >= NoGeometry

\* The guards stop the environments that play on and get nowhere: each is
\* scored, and what it shows is kept.  Then the end of the step, and the
\* condition of the loop.  Nothing reads the counts of those that have ended.
EndStep ==
    LET live    == {i \in Envs : ~run.dones[i]}
        stopped == {i \in live : Stops(i)}
        dones   == [i \in Envs |-> run.dones[i] \/ i \in stopped \/ run.out[i].done]
    IN
    /\ run.pc = "guard"
    /\ \E lost \in SUBSET Unscored(stopped) :   \* each is scored by a call of its own
         LET raised == {i \in lost : workers[i].up} IN
         /\ \A i \in Unscored(stopped) : workers[i].up \/ i \in lost
         /\ faults + Cardinality(raised) <= MaxFaults
         /\ faults' = faults + Cardinality(raised)
         /\ mgr' = Marked(stopped, lost)
    /\ run' = [run EXCEPT
         !.streak = [i \in Envs |-> IF dones[i] THEN 0 ELSE Streak(i)],
         !.stall  = [i \in Envs |-> IF dones[i] THEN 0 ELSE Stall(i)],
         !.frozen = [i \in Envs |-> IF i \in stopped THEN <<Past(run.out[i])>> ELSE @[i]],
         !.known  = [i \in Envs |-> IF Measured(run.out[i]) THEN run.out[i].n ELSE @[i]],
         !.dones = dones, !.step = @ + 1, !.out = [i \in Envs |-> Past(run.out[i])],
         !.pc = IF (\A i \in Envs : dones[i]) \/ run.step + 1 >= EffectiveMaxSteps
                THEN "finalize" ELSE "generate"]
    /\ UNCHANGED <<vec, workers, disk, tries, launches>>

Shown_Last(i) == run.out[i]

\* The observation and the information a result is made from.
Shown(i) == IF run.frozen[i] # <<>> THEN run.frozen[i][1] ELSE run.out[i]

\* The tracks, the vias and the wirelength of a result: its information has
\* none of them after a step that was refused.
Measures(i) == IF Measured(Shown(i)) THEN Shown(i).n ELSE run.known[i]

Finalize ==
    /\ run.pc = "finalize"
    /\ \E lost \in SUBSET Envs : ScoringOf(Unscored(Envs), lost) /\ mgr' = Marked(Envs, lost)
    /\ run' = [run EXCEPT !.pc = "dump", !.k = 1,
                          !.results = [i \in Envs |-> [shown |-> Shown(i).n,
                                                       measures |-> Measures(i),
                                                       metrics |-> mgr'.rows[i].scored]]]
    /\ UNCHANGED <<vec, workers, disk, tries, launches>>

DumpJson ==
    /\ run.pc = "dump"
    /\ dumps' = [dumps EXCEPT ![run.board][run.ep][run.k].json = tries]
    /\ run' = [run EXCEPT !.k = @ + 1, !.pc = IF run.k = NEnvs THEN "save" ELSE "dump"]
    /\ UNCHANGED <<mgr, vec, workers, usage, tries, launches, faults>>

\* save_boards(): every worker that is alive may have written its board, and
\* the call returns if they all are.
Saved(S) == [dumps EXCEPT ![run.board][run.ep] =
               [i \in Envs |-> IF i \in S THEN [@[i] EXCEPT !.pcb = tries] ELSE @[i]]]

SaveBoards ==
    /\ run.pc = "save" /\ Answer(Envs)
    /\ dumps' = Saved(Envs)
    /\ run' = AfterEpisode(tries, FALSE)
    /\ mgr' = FreshMgr
    /\ UNCHANGED <<vec, workers, usage, tries, launches, faults>>

-----------------------------------------------------------------------------
(* Failures.                                                               *)

\* What is left in the directory by a step that is cut short: a dump that
\* cannot be read, the boards of some of the workers that are alive.
CutShort ==
    \/ UNCHANGED dumps
    \/ run.pc = "dump" /\ dumps' = [dumps EXCEPT ![run.board][run.ep][run.k].json = 0]
    \/ /\ run.pc = "save"
       /\ \E S \in SUBSET {i \in Envs : workers[i].up} : dumps' = Saved(S)

\* A call to a dead worker raises, and so may the language model (no credit,
\* no answer), a file that cannot be written or an engine that cannot save.
EpisodeRaises ==
    /\ \/ /\ (run.pc = "generate" /\ ~Answer(Active)) \/ (run.pc = "save" /\ ~Answer(Envs))
          /\ UNCHANGED faults
       \/ /\ run.pc \in {"generate", "dump", "save"}
          /\ faults < MaxFaults /\ faults' = faults + 1
    /\ CutShort
    /\ run' = [run EXCEPT !.pc = "rebuild"]
    /\ UNCHANGED <<mgr, vec, workers, usage, tries, launches>>

\* The episode is crashed; every actor is killed and built again, unless that
\* raises too.
Rebuild ==
    /\ run.pc = "rebuild"
    /\ \E k \in 0..NEnvs :
         /\ faults' = IF k = NEnvs THEN faults ELSE faults + 1
         /\ faults' <= MaxFaults
         /\ workers' = [i \in Envs |-> IF i <= k THEN Spawned(vec.board)
                                       ELSE IF i = k + 1 THEN Gone ELSE workers[i]]
         /\ vec' = [vec EXCEPT !.done = [i \in Envs |-> @[i] /\ i > k]]
    /\ run' = AfterEpisode(0, TRUE) /\ mgr' = FreshMgr
    /\ UNCHANGED <<disk, tries, launches>>

\* The run ends: killed, or by an exception that nothing catches.
Exit ==
    /\ run.pc # "off"
    /\ \/ faults < MaxFaults /\ faults' = faults + 1
       \/ run.pc = "reload" /\ ~Answer(Envs) /\ UNCHANGED faults
    /\ CutShort
    /\ \/ UNCHANGED usage
       \/ run.pc = "usage" /\ ~run.crashed /\ usage' = [usage EXCEPT ![run.board] = Torn]
    /\ run' = Off /\ mgr' = FreshMgr /\ workers' = All(Gone)
    /\ vec' = [vec EXCEPT !.done = All(FALSE)]
    /\ UNCHANGED <<tries, launches>>

WorkerDies(i) ==
    /\ workers[i].up /\ faults < MaxFaults
    /\ workers' = [workers EXCEPT ![i] = Gone]
    /\ faults' = faults + 1
    /\ UNCHANGED <<run, mgr, vec, disk, tries, launches>>

Next ==
    \/ Launch \/ SkipEpisode \/ BeginEpisode \/ WriteUsage \/ ReloadBoards
    \/ \E kind \in [Envs -> Kinds], done \in [Envs -> BOOLEAN] : Step(kind, done)
    \/ ScoreEnded \/ EndStep \/ Finalize \/ DumpJson \/ SaveBoards
    \/ EpisodeRaises \/ Rebuild \/ Exit
    \/ \E i \in Envs : WorkerDies(i)

Spec == Init /\ [][Next]_vars

-----------------------------------------------------------------------------
(* Properties.                                                             *)

(* An environment is scored once, on the board its episode ended with: its *)
(* return is the one earned on that board, whatever the rest of the batch  *)
(* has the engine do afterwards.                                           *)
ScoredAtItsEnd ==
    run.pc \in {"dump", "save"} =>
        \A i \in Envs : /\ mgr.rows[i] # <<>>
                        /\ mgr.rows[i].scored \in {None, mgr.rows[i].ret}

(* A result shows the board that was scored for it, also when it stopped   *)
(* early and its environment went on.                                      *)
ShowsWhatWasScored ==
    run.pc \in {"dump", "save"} =>
        \A i \in Envs : run.results[i].metrics \in {None, run.results[i].shown}

(* An environment is stepped until its episode is over and no further: no  *)
(* action reaches the engine of one that has reported done, and none that  *)
(* plays on is answered for from the mask, which follows every reset,      *)
(* reload, death and rebuild, complete or not.                             *)
SteppedUntilDone ==
    [][ /\ \A i \in Envs : workers[i].over /\ workers'[i].over => workers'[i] = workers[i]
        /\ run.pc = "generate" /\ run'.pc = "score" =>
             \A i \in Envs : workers[i].up => (run'.out[i].done <=> workers'[i].over) ]_vars

(* Every worker plays the board of the episode, across reloads, deaths and *)
(* rebuilds, complete or not.                                              *)
OnItsBoard ==
    run.pc \in {"generate", "score", "guard", "finalize", "dump", "save"} =>
        \A i \in Envs : workers[i].up => workers[i].board = run.board /\ workers[i].n # None

(* The usage file of a board, whose existence marks the board as finished, *)
(* sums exactly the episodes that are dumped, whenever a launch was killed *)
(* -- but for a file that is itself torn by the kill.                      *)
UsageCoversDumps ==
    \A b \in Boards : usage[b] \notin {{}, Torn} =>
        usage[b] = {Recorded(b, e) : e \in {x \in Episodes : Complete(b, x)}}

(* What is reported of an early-stopped episode is frozen at its stop      *)
(* (pcbworld.py:643-647): no later step of the batch overwrites the        *)
(* measures of its board.                                                  *)
ReportsItsEnd ==
    run.pc \in {"dump", "save"} =>
        \A i \in Envs : run.results[i].measures = mgr.rows[i].ret
=============================================================================
