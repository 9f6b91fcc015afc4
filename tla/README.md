# PCBWorld in TLA+

Specifications, model-checking runs and proofs for PCBWorld (`src/`), a
reinforcement-learning environment that routes printed circuit boards with a
C++ engine derived from KiCad. Python owns the episodes, the processes and the
training; the engine (`engine/`, a separate repository that is not part of this
tree) owns the geometry. The specifications follow the Python code.

## 1. Inventory

| Component | State it keeps | Operations | Talks to | What is hard about it |
|---|---|---|---|---|
| Routing environment: `core/env.py`, `core/action.py`, `core/masking.py` | board and session in the engine, current net, closed nets, step count, best-board checkpoint, stagnation counter | `reset`, `step` (seven action types), `set_target_nets`, `checkpoint`, `restore` | engine, reward, wrappers, search drivers | best-board rollback, state split between engine and Python, resets in mid-episode, checkpoints that outlive a reset |
| Engine wrapper: `engine/kicad_engine.py` | proxy, checkpoints, one-live-router registry | route, commit, checkpoint, close | server pool | lifetime of engines, `__del__` |
| Server pool: `engine/router_client.py` | idle servers, limit, connections | acquire, release, set reuse limit | server processes | deaths, cut requests, garbage collector, failed construction |
| Engine link: `engine/router_client.py` | socket, two query caches | call, prewarm | one server | answers matched by order only, cache coherence, re-entry |
| Evaluation pool: `vec/subproc_pool.py` | jobs, busy slots, results | `evaluate_many` | worker processes | out-of-order answers, deaths |
| Subprocess vector env: `vec/backends/subproc.py` | last boards, seed offsets, last observations, pending set | step, reset, query, reload, rebuild, close | worker processes | deaths anywhere, leftover answers, resuming seeds |
| Ray vector env: `vec/backends/ray.py` | actors, done mask, board paths | step, reset, reload, save, rebuild | Ray actors | rebuild on a board that is not the current one, done environments |
| LLM rollout: `methods/llm_agent/rollout/pcbworld.py`, `training/manager.py` | dones, frozen infos, returns, dumps, usage files | episode, step, early stop, score, dump, resume | Ray vector env, policy, files | one batch, many ends; kills between dumps |
| Training loop: `methods/rl_agent/training/loop.py`, `_shared/trainer/base.py` | policy, schedules, best score, checkpoints | setup, resume, iterate, save, validate, teardown | vector env, validation, update group | resume, order of saves and selections |
| Board scheduler: `_shared/board_scheduler.py` | random stream, epoch order and position | `next_indices`, `state_dict` | training loop | resume in mid-epoch |
| Asynchronous validation: `async_val.py` | files in one directory | pending, publish, consume, done | trainer and watcher | crashes of either, races over files |
| Policy update: `algorithms/_common.py`, `training/ddp.py` | gradients, optimizer, process groups | minibatch, chunk, peel, plan, collectives, shutdown | ranks | out-of-memory recovery, ranks drifting apart, shutdown order |
| Reward: `core/reward.py` | previous state, wire/via reference | dense, net-end, terminal reward | environment | deferred penalties |
| Observations, action schema, candidates | none | build | engine | none (pure) |
| Board parsing, DRC, outline, provenance | caches | parse, check | files, engine | none (pure) |
| Rate limiter: `methods/llm_agent/policy/rate_limiter.py` | window of requests | acquire, record | API | concurrent requests |
| Diagnostics, trajectories, rendering, tools, baselines, configuration, evaluation metrics | files | write, convert | – | none |

How they interact: a trainer or evaluator steps a vector env; each of its
workers holds one environment, which holds one `KiCadEngine`, which holds one
proxy to one engine server. A server death becomes `EngineServerCrashed` in the
worker, which re-raises it and dies; its death becomes an end of stream in the
parent, which respawns it. The garbage collector is a hidden caller: it closes
dropped engines and releases dropped checkpoints in the middle of other calls.
The trainer and its validation watcher share one directory and nothing else;
the ranks of an update meet in collectives only.

What makes each component correct is stated as properties in section 3;
`PROJECT.json` lists the hazards with their lines.

## 2. Modules

| Module | Models | Reads as |
|---|---|---|
| `RoutingEnv`, `MCRoutingEnv` | the episode core; two nets, sixteen boards, the shipped mask | one action for each action type of `step()` and its failures, `Reset`, `ResetRaises`, `SetTargetNets`, and the search driver that checkpoints, simulates and restores |
| `EpisodeContract` | what an episode promises | abstract: pending nets, a budget, an end |
| `ServerPool`, `MCServerPool` | engine servers of one client process | the client's operation in steps (`task`), interleaved with crashes and finalizers |
| `LocalRouter` | a router called in process | abstract: every call reads or changes the board at once |
| `EngineLink`, `MCEngineLink` | the proxy, its caches and the socket | `Send`, `Serve`, `Receive`, a `Crash`, a `Finalize` inside a call |
| `EvalPool` | `evaluate_many()` and its workers | the parent's loop in its stages, workers that answer or die |
| `SubprocVec`, `MCSubprocVec` | the vector env and its workers | a call in phases send / recv / recover, one worker at a time, workers that serve, fail or die in between |
| `BoardScheduler` | which boards an iteration gets | `next_indices()` and `state_dict()` as operators over a record |
| `TrainRun`, `MCTrainRun` | the training loop, its checkpoints and resume, and the validation watcher over one directory; EXTENDS `BoardScheduler` | every write to the directory is a step of its own; the trainer aborts, crashes, resumes in place or forks |
| `UpdateGroup`, `MCUpdateGroup` | the policy update of one rank or several | a rank in its minibatch, chunks that do not fit, collectives in which all ranks step together, deaths |
| `LlmRollout`, `MCLlmRollout` | the evaluation rollout of a language model over Ray actors | a batch of episodes step by step, early stops, dumps one at a time, launches that are killed and started again |
| `RoutingEnvProofs`, `ServerPoolProofs`, `EngineLinkProofs`, `EvalPoolProofs`, `SubprocVecProofs`, `TrainRunProofs`, `UpdateGroupProofs`, `LlmRolloutProofs` | theorems | section 5 |

Correspondence of state and code:

* `RoutingEnv`. `board`, `session` are the engine's; `net` is
  `ActionDispatcher.current_net_id`; `closed`, `born` are
  `_episode_closed_nets`, `_born_closed_nets`; `best`, `bestPhi` are `_best_ckpt`,
  `_best_potential`; `track`, `stall`, `prevUnrouted` are `_track_best_active`,
  `_rats_stagnation`, `_prev_unrouted`; `held` is the checkpoint of a search
  driver; `phase`, `info` what the client was told; `peak` a history variable.
  `step()` is atomic because nothing runs beside it. An action first leaves a
  dispatched state `d`, then `Conclude` does the rest of `step()`: termination,
  stagnation, truncation, the report, the best board and its rollback. The
  router is the four constants `Ratsnest`, `Commit`, `Strip`, `Phi`, with the
  assumption that routing one net completes no other (`BoardAssumption`).
* `ServerPool`. `proc`, `router`, `behind`, `fat` describe a server (running,
  whose router it holds, an unread answer, over the memory budget); `idle`,
  `maxIdle` are `_IDLE_SERVERS`, `_MAX_IDLE`; `conn` is the proxy of an engine;
  `dropped` the engines the collector may finalize; `scope` whether the process is
  in `allow_router_coexistence()`, has left it, or was never in it; `task` where the
  client thread is.
* `EngineLink`. `wire`, `answers` are the two directions of the socket, `cache`
  both caches (persistent getters are the queries in `Fixed`), `call`, `fin` the
  call that waits and the finalizer inside it.
* `EvalPool`. `next`, `inFlight`, `result` are `next_job`, `in_flight`, `results`;
  the answer pipe and the end of its stream make a slot `Readable`.
* `SubprocVec`. `slot` holds `_last_boards`, `_rng_reload_seq`, `_last_obs`,
  `_send_crashed`; `pending` is `_pending_indices`; `worker` is the process with
  its environment (its number, board, seed offset and step count); `view`,
  `asked` what the client holds and asked for; `op` the call in progress.
* `TrainRun`. The directory is `ckpts`, `last`, `best`, `final`, `results`,
  `trainDone`; `trainer.pc` is where `fit()` is. The weights are the history of
  the training: one record per iteration with its boards, whether the actor was
  frozen, the learning rate and the explained variance. Whether a resumed run is
  the interrupted one is then a question about that history: `Uninterrupted` asks
  of each iteration the boards of an uninterrupted scheduler (`BoardsOf`, over the
  recursive function `Dealt`), the phase and the rate. A result is absent, a
  `.json.tmp`, a `.json` or a `.json.done`; the sorted list a poll returns is the
  set `queue`, worked off from its least element.
* `UpdateGroup`. A gradient says how often each row was added to each parameter;
  a parameter out of its domain has grad `None`. `work` is the minibatch of a
  rank with the chunks left to do, `upd` its place in the update, `steps` the
  optimizer steps its weights have seen. A collective is one action of all ranks.
* `LlmRollout`. A board is the number of moves made on it, a move earns 1, so a
  return says which board earned it. `run` is the driver (`dones`, `frozen`,
  `known` for `last_known`, the two guards), `mgr` the rollout manager, `vec` the
  backend's board and done mask, `workers` the actors, `dumps`, `usage` the files.
  At the end of a step `Past` forgets of an answer what no later step reads, and
  the counts of the ended environments go back to 0. `MaxSteps` gives each board
  its adaptive budget, which all its workers share.

## 3. Runs

Passing runs:

| Run | Question | Properties | Bounds, and why they are enough |
|---|---|---|---|
| `EnvSearch` | does an episode with a search driver and target subsets leave the right board and report? | `TypeOK`, `BestBoardAfterValid`, `BestIsRestorable`, `ReportIsOfFinalBoard`, `SessionHasItsNet`, `SelectableNet`, `StagnationBaseline` | two nets in four states each: a net can be improved, completed, and worsened by its neighbour's route; nine steps route both nets and degrade one again; patience 4 |
| `EnvContract` | does it implement `EpisodeContract`, is each episode cut from the file? | `EpisodeCutFromFile`, `ImplementsContract` | twelve steps, re-opened nets, routes started on any net, a file with one finished net, so that the draw of kept nets both succeeds and raises |
| `PoolServers` | are servers shared, lost, over-parked or reused dirty? | `IdleWithinLimit`, `OneLiveRouter`, `NoOrphan`, `ReusedIsClean`, `OwnRouter` | two engines; four servers: two in use, two parked; limits -1, 1, 2; coexistence scopes entered and left, with engines that outlive them; symmetry of servers and of engines (no liveness is checked) |
| `LinkCalls` | is the cache invisible, and does every call end? | `ImplementsLocalRouter`, `CallReturns` | two contents (a change is visible), three getters (one persistent), three mutators (one is the release), one tuner, one finalizer in each call |
| `EvalJobs` | are results paired with jobs through deaths? | `ResultIsItsOwn`, `AnsweredUnlessSendFailed`, `Returns` | four jobs, three workers: a slot is refilled while two others are busy |
| `VecDeaths` | do calls, answers, boards and seeds stay paired through deaths? | `PipesDrained`, `ViewIsCurrent`, `BoardIsRequested`, `CallsEnd`, `EpisodeUnbroken`, `ResumesOnceReloaded` | two workers, two boards; `MaxBuilt` = 4: two environments besides the first of each slot, so a respawn may itself be followed by another; `MaxAt` = 2 steps |
| `TrainCrashes` | is a run that is killed, aborted and resumed the uninterrupted one, and does validation survive it? | `ResumedAsUninterrupted`, `ResultOfItsCheckpoint`, `ConsumedCounts`, `BestIsItsCheckpoint`, `DoneMeansCompleted`, `BestNeverDrops`, `EvaluatedUnlessTorn` | a watched run of two iterations and an inline one of three whose gate extends the critic warm-up; three boards drawn in pairs, so an epoch ends in mid-iteration; two starts of the trainer or deaths of the watcher: one interruption and its resume; resumes from `last` and from any periodic checkpoint, in place and forked |
| `UpdateRanks` | is every optimizer step that of its minibatch, on every rank, and does a run end? | `Lockstep`, `StepIsTheMinibatch`, `AllLeave` | four rows of lengths 1 to 3 in minibatches of three, the last one a single row, which three ranks cannot share; capacity 4, so a plan has several chunks; two chunks that do not fit, one killed worker, two updates; one rank (reactive, planned), two and three |
| `LlmEpisodes` | is every environment stepped until its own episode ends and no further, scored once, on the board that episode ended with, and are the files right after kills and failures inside any write? | `ScoredAtItsEnd`, `ShowsWhatWasScored`, `SteppedUntilDone`, `OnItsBoard`, `UsageCoversDumps` | two environments; two boards, of three steps, so that one may stop by either guard and the other play on, and of two; guards at 2 and 1; two launches, the second with one more episode of every board, so that an episode starts from what another left; two faults of any kind |

Deadlock is checked in the runs of `RoutingEnv`, `ServerPool` and `EngineLink`;
the others stop: the call has returned, the pool is closed, the run is over, the
processes have left. The constants `Max...` are bounds of the models, each named
so in its module; a respawn in the middle of a call may pass `MaxBuilt`.

Runs that find a violation; each quotes the sentence it contradicts in
`PROJECT.json`:

| Run | Property | What the trace shows |
|---|---|---|
| `EvalIdleDeath` | `AllAnswered` | two workers die while idle; each failed send costs a job and leaves its slot idle, so the loop ends before the last job (`subproc_pool.py:279`) |
| `LlmFrozen` | `ReportsItsEnd` | an environment stopped by the no-progress guard has no measures in its last info; they are taken from `last_known`, which its later steps overwrite (`pcbworld.py:777`) |
| `UpdateWarmup` | `WarmupIsCriticOnly` | a critic warm-up with two ranks: `detach_critic` is set on rank 0 only, so the worker's value loss reaches the backbone and the all-reduce spreads it (`loop.py:1125`) |

## 4. Fairness

* `EngineLink`: the server executes what it has received and the client reads
  what it is owed. Neither side has a timeout, so a server that hangs without
  dying is outside the model.
* `EvalPool`: the parent loops; a worker with a job answers or dies.
* `SubprocVec`: the parent or a worker makes a step as long as one of them can.
  This weak form is enough for `CallsEnd`: pipes are bounded during a call, so
  they cannot be busy for ever without the call going on. The client is not
  fair: it may stop calling.
* `TrainRun`: the watcher loops, and one that is gone is started again
  (`StartWatcher`): the trainer itself asks for that when its drain times out
  (`loop.py:1503`, "restart a watcher"), but no code of the repository does it, so
  this is an assumption on the operator. Nothing is assumed of the trainer:
  `EvaluatedUnlessTorn` holds while it sleeps in its drain, is dead, or is in the
  middle of a save.
* `UpdateGroup`: a collective all ranks have entered is carried out, a rank that
  can go on does, and a collective that misses a rank fails, at the latest after
  `DDP_TIMEOUT` (six hours): `AllLeave` says that a run ends, not how soon.
* `RoutingEnv`, `ServerPool` and `LlmRollout` state no liveness: the first is
  driven by its client, an operation of the second consists of a bounded number
  of steps, and the third is a loop of bounded length.

## 5. Proofs

Every theorem holds for all values of the constants its module's assumptions
allow. Those of `RoutingEnv`: every set of nets, every set of boards and router
that satisfy `BoardAssumption`, every mask that satisfies `MaskAssumption` and
every configuration, unless an assumption is named.

| Theorem | Property | Assumes besides |
|---|---|---|
| `TypeCorrect` | `TypeOK` | – |
| `SessionTheorem` | `SessionHasItsNet` | `~KeepsStale` |
| `SelectableTheorem` | `SelectableNet` | `~KeepsStale`, `~FreeStart` |
| `BestBoardTheorem` | `BestBoardAfterValid` | `~KeepsStale`, `~TerminalMode` |
| `RestorableTheorem` | `BestIsRestorable` | the same |
| `NoSessionTheorem` | `BestHasNoSession` | the same |
| `GainTheorem`, `SuccessTheorem`, `ReportTheorem` | `ReportIsOfFinalBoard` and its halves | the same |
| `StagnationTheorem` | `StagnationBaseline` | the same |
| `CutTheorem` | `EpisodeCutFromFile` | `~KeepsStale` |
| `ContractTheorem` | `ImplementsContract` | `~Search` |
| `OwnRouterTheorem`, `CleanTheorem`, `OrphanTheorem`, `LiveRouterTheorem`, `LimitTheorem` of `ServerPoolProofs` | `OwnRouter`, `ReusedIsClean`, `NoOrphan`, `OneLiveRouter`, `IdleWithinLimit` | – |
| `ResultTheorem`, `AnsweredTheorem`, `ReportTheorem` of `EvalPoolProofs` | `ResultIsItsOwn`, `AnsweredUnlessSendFailed`, `ReportedOnce` and `NoLateAnswer` | – |
| `PipesTheorem`, `ViewTheorem`, `BoardTheorem` of `SubprocVecProofs` | `PipesDrained`, `ViewIsCurrent`, `BoardIsRequested` | – |
| `UnbrokenTheorem` of `SubprocVecProofs` | `EpisodeUnbroken` | – |
| `ResumesTheorem` of `SubprocVecProofs` | `ResumesOnceReloaded` | `Advance` |
| `LockstepTheorem` of `UpdateGroupProofs` | `Lockstep` | – |
| `StepTheorem` of `UpdateGroupProofs` | `StepIsTheMinibatch` | `NoWarmup` |
| `ScoredTheorem`, `ShownTheorem`, `BoardTheorem`, `SteppedTheorem`, `UsageTheorem` of `LlmRolloutProofs` | `ScoredAtItsEnd`, `ShowsWhatWasScored`, `OnItsBoard`, `SteppedUntilDone`, `UsageCoversDumps` | – |
| `LocalRouterTheorem` of `EngineLinkProofs` | `ImplementsLocalRouter` | – |
| `ResultTheorem`, `ConsumedTheorem`, `DoneTheorem`, `BestRisesTheorem` of `TrainRunProofs` | `ResultOfItsCheckpoint`, `ConsumedCounts`, `DoneMeansCompleted`, `BestNeverDrops` | – |
| `ResumedTheorem`, `BestTheorem` of `TrainRunProofs` | `ResumedAsUninterrupted`, `BestIsItsCheckpoint` | `ResumeFrom \subseteq {"last", "iter"}` |

`~KeepsStale`: a search driver does not restore a checkpoint taken before a
reset. `~FreeStart`: a route starts on the selected net, as the pointer policy
has it. `~TerminalMode`: the per-step reward; in terminal mode `GainIsOfFinalBoard`
is false (section 6). `~Search`: a restore goes back in time, which the
contract of a single episode does not have. `Advance`: the pool runs with
`advance_rng_on_reload`. `ResumeFrom`: a run is resumed from
`policy_last.pt` or a periodic checkpoint. `policy_best.pt` pairs the weights of
an earlier iteration with the schedules of the moment it was written, so a run
resumed from it is not the uninterrupted one, and is not meant to be. `NoWarmup`:
an update group is set up without a critic warm-up (run `UpdateRanks`); in a
warm-up its workers do not detach what the trainer detaches, which is the
divergence run `UpdateWarmup` shows. A single process may warm up.

The arguments. No property is inductive as it stands; each module states the
invariant (`IInv`, or the named ones below) that is, and proves that `Init` has
it, that every action keeps it, and that it implies the property.

`RoutingEnv`. `StepIsDispatch` shows that each action of `step()` is a dispatch
that changes little (`DispatchOf`) followed by `Conclude`; `ConcludeLeaves` says
what `Conclude` leaves. The invariants are then preserved by two lemmas instead
of one for each action.

* `TypeInv` adds to `TypeOK` that a running episode, and the root a driver holds,
  has a step left: without it the step counter could pass `MaxSteps`.
* `CkptInv` is about three places at once, the live state, the best board and the
  held root: each carries a session only with a net, and the two checkpoints are
  usable while they matter. Since a rollback or a restore makes any of them live,
  none of the three is inductive alone.
* `SelectInv` adds `Progress`: a net that is not born closed and not yet closed
  still has an edge, or is the one selected.
* `BoardInv` is the conjunction of what the best board, the gain, the success and
  the stagnation baseline need. It is inductive together with `CkptInv` only: the
  rollback is right because the checkpoint is live.
* `FileInv`: the engine holds the board of the file until the first reset, and what
  a search driver may come back to before the first step of an episode is cut from
  the file, too.
* `EarlierInv` says that the best board is an earlier moment of the same episode,
  which makes a rollback a `Rewind` of the contract.

`ServerPool`. A running server has exactly one holder: the idle list, an engine,
or the operation under way (`HolderInv`, `OrphanInv`). What the holder may assume
of it follows from how it got it (`RouterInv`): an engine its own router, the idle
list no router unless the server is behind, which the probe finds out. The limit
holds because a process that was never in a coexistence scope has at most one
engine, so that the operation under way is the only user of a server; once several are alive,
the room a release has found may be taken by one finalizer, and not by a second,
which finds none left (`LimitInv`).

`EngineLink`. With one request at a time there is at most one message in the
socket, and a call that waits is in one of three states: its request is on the
wire and the board is still the one the last call saw (`Requested`), its answer is
there, read from that board unless it is a mutator's (`Answered`), or the server
has died (`CutOff`). A cached answer is that of the board last seen, and while a
mutator waits nothing is cached but the persistent getters (`CacheInv`). So a
`Receive` is one atomic step of `LocalRouter`, and everything else a stutter,
until a finalizer has crossed a call (`crossed`).

`EvalPool`. Everything in a pipe is of the job its slot waits for (`PipeInv`); a
job in flight is in flight once and has no result, and one that was dispatched is
in flight or has its result (`JobInv`); a slot is idle only when no job is left or
a send has failed (`BusyInv`), which gives the weaker half of `AllAnswered` that
the code does keep.

`SubprocVec`. A call owes the answers of the workers it has sent to and not heard
of (`Owed`). A pipe holds at most one message, and only of an owed worker
(`PipesOf`): a command of the call, or its answer, which says the state the worker
is in. The board of a slot is the one asked for as soon as the reload has reached
the slot (`BoardOf`), so that a respawn at any later moment is right; what the
client sees of a worker is current, or about to be replaced by the answer owed
(`ViewOf`). Nothing is claimed of a pool that is being closed. The first three theorems
follow because between calls nothing is owed (`BetweenCalls`). Two layers above
them give the action properties: the view of a client is of the environment its
worker has, unless that one's first observation is kept for the answer or the step
has raised (`EnvInv`); a slot never remembers a seed offset below that of its
worker, and a reload under way carries a later one (`SeqInv`).

`UpdateGroup`. Ranks enter an optimizer step together, with one gradient and one
learning rate. From there to the next collective a rank is at most one step ahead
of another, and only of one that is about to take that very step or has left for
good (`Behind`, in `StepInv` and `PairInv`). `StepTheorem` is a layer above it
(`GInv`). The shards of the ranks cover the rows of the minibatch, each row once,
and so does the plan of a rank with its own rows (`Covers`), whether it is made in
one piece, planned or peeled. While a rank works, its gradient is that of its rows
without those still in `todo` (`WorkInv`), so that a chunk dropped and peeled again
changes nothing; when the shards are summed, all ranks are in the same minibatch
of the same permutation, or are about to be (`UpdInv`), and detach the same
backbone (`DetachInv`), so that the sum is the gradient of the minibatch. What the
folds and the sort compute is proved with the least number, or a least set, that
has not the property, not by induction. A step after a `backward()` that failed
half-way (`torn`) is left out by the property, as the source leaves it out.

`LlmRollout`. Until an environment is scored, its return is that of the board its
engine is on (`EarnedInv`); once it is scored, either it has reported done and the
done mask keeps its engine still, or a guard stopped it and what it shows was
frozen in the same step (`ShownInv`). Between two resets the done mask and the
ended environments change together (`MaskInv`). The files: as long as no episode of the
board has raised, the tries the driver has collected are those of complete dumps
(`TriesInv`, `DumpInv`), and a board in play has no usage file yet; no later launch
rewrites a dump of a board that has one (`UsageInv`). A step that is cut short
writes inside the episode that runs only (`CutIs`).

`TrainRun`. The directory outlives both processes, so `DirInv` ties the memory of
each to the files: no file is later than the trainer (`FileInv`), a result is of
its checkpoint and stays what it is while the trainer works it off (`ResultInv`,
`QueueInv`), the score to beat is that of the best checkpoint, in memory, in every
file and after every resume (`ScoreInv`). `HistInv` is a layer above it: the trainer
and every file are `Faithful`, the weights, the scheduler and the warm-up gate
together being those of an uninterrupted run of that many iterations. The scheduler
after n iterations is computed from n alone (`SchedAt`, with `Dealt` unfolded one
deal at a time); the gate from the last explained variances, of which a checkpoint
keeps only as many as the gate will look at (`GateAt`, `CkptFaithful`). That the end
of the warm-up which the gate has found is the first one possible is proved with
the least element of a set of iterations, not by induction.

Checked by TLC only: the liveness properties (`CallReturns`, `Returns`,
`CallsEnd`, `AllLeave`, `EvaluatedUnlessTorn`), since the prover has neither
fairness nor `ENABLED`. Every safety property of a passing run has a theorem.

## 6. Divergences seen while modelling

With a run: the three of section 3. Met, and reproduced or excluded by the model,
without a run of their own:

* `core/env.py:1358` the rollback is considered only when `after_state` is not
  `None`: an episode that ends on an idle or rejected action leaves a worse board
  than its best one. `BestBoardAfterValid` is about the other episodes;
* `core/env.py:1383` in terminal mode steps run no DRC, so the gain reported after
  a rollback subtracts an initial potential with DRC from a best one without it;
* `core/env.py:1770` `restore()` of a handle that a reset has invalidated still
  rewrites the episode state; with `KeepsStale = TRUE` it breaks
  `SessionHasItsNet`. No caller in the repository does that;
* `core/env.py:975` the draw of kept nets may keep every net, which begins an
  episode with nothing to route; `SelectableNet` leaves it out;
* `core/env.py:1134` all nets closed ends an episode with connections still open,
  which is what the code means by it: only `success` tells the difference;
* `core/action.py:52` `net_select` asks for a ratsnest edge only, not for a target
  net: a client that ignores the mask may select a net outside the target subset;
* `core/env.py:219` a checkpoint finalized between the send and the receive of
  another request swaps the two answers; `ImplementsLocalRouter` holds until then;
* `engine/router_client.py:535` a server whose construction was refused is parked
  without a look at the memory budget (against 488);
* `engine/router_client.py:485` once a process has been in a coexistence scope, a
  finalizer may park its server between the room check and the append of another
  release: the limit is then exceeded by one, which is the bound of
  `IdleWithinLimit`;
* `vec/backends/subproc.py:680` after a step that raised half-way through its
  receives, `close()` waits for an answer that was already read; and at 685 a dead
  worker ends `close()` before the others are told. `CallsEnd` leaves `close()` out;
* `training/loop.py:317` only a resume is refused in a directory that holds later
  checkpoints. A run started without `--resume` in a used directory takes the old
  results and checkpoints for its own; `Start` of `TrainRun` assumes that an
  operator does not do that;
* `rollout/pcbworld.py:1238` the usage file is written in place: a kill inside the
  write leaves a torn file, and its existence marks the board as finished
  (`Torn` in `UsageCoversDumps`);
* `vec/backends/subproc.py:282` a worker that dies before the first reload is
  replaced by one on the same seed offset;
* `training/loop.py:1497` the drain polls and then counts: a result that arrives in
  between is neither consumed nor pending, and the run ends without it. The watcher
  reads its pending checkpoints before `train_done` in the same way
  (`async_val.py:250`): the last checkpoint of a run may stay unvalidated until
  another watcher is started, as the fairness of `TrainRun` has it;
* `async_val.py:119` an `iter_N.json.tmp` left by a dead watcher counts as a result
  (`Torn` in `EvaluatedUnlessTorn`);
* `training/loop.py` `policy_final.pt` is not written when the shutdown of the
  update group raises, and a failure of rank 0 in mid-update waits for
  `DDP_TIMEOUT` on the ranks it left in a collective;
* `algorithms/_common.py:26` a peeled chunk whose own `backward()` fails half-way
  leaves a part of a gradient, which the source names as a limit (`torn` excepts it);
* `rollout/pcbworld.py` the total reward of an early-stopped episode is not frozen
  either, and its saved `.kicad_pcb` is of the board it was on when the batch
  ended; a worker that is dead at `reload_boards()` aborts the run; a kill or a
  failure in the middle of a save leaves the `.json` of one try beside the board of
  another.

## 7. Not modelled

* The engine: geometry, DRC and UUID streams are external. That a route arrives,
  shoves a neighbour or fails is a choice over boards.
* The reward of a step, observations, tokenizers, prompts, grammars, networks and
  losses: numerical or pure functions of a state, without an interleaving. The
  potential is an integer.
* The collector of experience and the advantage estimates: arithmetic over
  tensors; that a synthetic crash step ends an episode is `EpisodeUnbroken`.
* The rate limiter, the Ray backend's `env_fns` mode and candidate queries, which
  the evaluation rollout does not use.
* Servers and actors that hang without dying: the code has no timeout for them.
* A request of the link is one message; a finalizer between its header and its
  body would be a finer interleaving of the divergence at `core/env.py:219`.
* `EvalPool.close()`, the retry of a board parse, statistics and logging.
* Board parsing, crash diagnostics, trajectories, rendering, rule-based baselines,
  board generators and the offline tools, which make up most of the lines of the
  repository: sequential programs over files, better tested than modelled. They
  are listed as `not_modelled` in `PROJECT.json`.

## 8. Plan

Done, in this order: the episode core with its contract and proofs; the server
pool; the link against `LocalRouter`; the evaluation pool; the subprocess vector
env; the training run with its watcher and scheduler; the update group; the
evaluation rollout over Ray; the proofs of section 5. Left:

1. the rate limiter: concurrent `acquire()` and `record()`;
2. the reward: held-back wire and via penalties are all paid by the end of an
   episode, as a function over bounded episodes of scaled integers;
3. the PPO collector over the vector env: episode boundaries and bootstrap values,
   with the theorems about each of them.

## Running

    tlc -config EnvSearch.cfg MCRoutingEnv.tla
    tlapm RoutingEnvProofs.tla

The configuration and module of every run are in `PROJECT.json`.
