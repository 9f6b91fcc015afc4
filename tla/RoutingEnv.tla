----------------------------- MODULE RoutingEnv -----------------------------
(***************************************************************************)
(* The episode core of PCBWorld (pcb_world/core/env.py with its dispatcher *)
(* core/action.py and mask core/masking.py): reset, step, target nets,     *)
(* best-board tracking, checkpoint and restore.                            *)
(*                                                                         *)
(* One routing step of the C++ router is external and is described by the  *)
(* constants Ratsnest, Commit, Strip, Phi: a board is an opaque value.     *)
(* Every step of PCBWorld.step() is one action here: it classifies the     *)
(* action, dispatches it, decides the end of the episode and settles the   *)
(* best board before it returns, and nothing else runs in between.         *)
(***************************************************************************)
EXTENDS Integers, FiniteSets

CONSTANTS
    Net, NoNet,    \* net codes; NoNet stands for None
    MultiPad,      \* nets with at least two pads: the ones that need routing
    Board,         \* the boards the router can leave
    FileBoard,     \* the board as loaded from the .kicad_pcb file
    Ratsnest,      \* Ratsnest[b]: the nets with a ratsnest edge left on b
    Unrouted,      \* Unrouted[b][T]: the number of ratsnest edges of the nets T
    Strip,         \* Strip[b][K]: b without the copper of the nets outside K
    Commit,        \* Commit[b][n]: the boards a committed route of net n may leave
    Phi,           \* Phi[b]: the potential of b, its DRC violations counted
    PhiBlind,      \* PhiBlind[b]: the same with no DRC run (all counts zero)
    Action,        \* the action types of action_schema.py, idle excepted
    When,          \* When[a]: the YAML rule of action a, condition |-> wanted value
    NetReselect,   \* EnvConfig.net_reselect
    FreeStart,     \* a client may start a route on a pad of any net (text wrapper)
    MaxSteps,      \* EnvConfig.max_steps
    Patience,      \* early_stop_ratsnest_patience, 0 = off
    OutputBest,    \* output_best_board
    TerminalMode,  \* the reward mode is "terminal" (else "per_step")
    KeepSizes,     \* sizes the keep_routing_fraction draw can have, {} = off
    TargetChoices, \* the target subsets a client may set
    Search,        \* a search driver checkpoints, simulates and restores
    KeepsStale,    \* that driver keeps its checkpoint across a reset
    MidReset,      \* a client may reset before the episode has ended
    NoCkpt

(* What the router guarantees: only routing a net completes it, and a net  *)
(* without a second pad never has a ratsnest edge.                         *)
ASSUME BoardAssumption ==
    /\ NoNet \notin Net
    /\ MultiPad \subseteq Net
    /\ FileBoard \in Board
    /\ Ratsnest \in [Board -> SUBSET MultiPad]
    /\ Unrouted \in [Board -> [SUBSET Net -> Nat]]
    /\ \A b \in Board, T \in SUBSET Net :
          (Unrouted[b][T] = 0) <=> (Ratsnest[b] \cap T = {})
    /\ Strip \in [Board -> [SUBSET Net -> Board]]
    /\ Commit \in [Board -> [Net -> SUBSET Board]]
    /\ \A b \in Board, n \in Net : \A c \in Commit[b][n] :
          Ratsnest[b] \ {n} \subseteq Ratsnest[c]
    /\ Phi \in [Board -> Int]
    /\ PhiBlind \in [Board -> Int]

ASSUME ConfigAssumption ==
    /\ MaxSteps \in Nat \ {0}
    /\ Patience \in Nat
    /\ TargetChoices \subseteq SUBSET Net
    /\ {NetReselect, FreeStart, OutputBest, TerminalMode, Search, KeepsStale,
        MidReset} \subseteq BOOLEAN

\* A Checkpoint: the engine handle (live or released) and the episode state.
Snap(live) == [board : Board, session : Net \cup {NoNet}, net : Net \cup {NoNet},
               closed : SUBSET Net, step : 0..MaxSteps, live : live]

ASSUME CheckpointAssumption == NoCkpt \notin Snap(BOOLEAN)

Demands(a, c, v) == c \in DOMAIN When[a] /\ When[a][c] = v

(* Every shipped rule selects a net only between nets, and starts, ends or *)
(* extends a route only with a net selected.                               *)
ASSUME MaskAssumption ==
    /\ Demands("net_select", "has_net", FALSE) /\ Demands("net_select", "is_routing", FALSE)
    /\ Demands("start_route", "has_net", TRUE)
    /\ Demands("net_end", "has_net", TRUE) /\ Demands("net_end", "is_routing", FALSE)
    /\ \A a \in Action \cap {"make_line", "make_via", "finish"} :
          Demands(a, "is_routing", TRUE)

VARIABLES
    board, session,      \* the live engine: its board and the net being routed
    net,                 \* ActionDispatcher.current_net_id
    closed, born,        \* _episode_closed_nets, _born_closed_nets
    step,                \* _step_count
    targets,             \* _target_nets (Net = whole board)
    pristine,            \* _board_pristine
    best, bestPhi,       \* _best_ckpt, _best_potential
    track,               \* _track_best_active
    stall, prevUnrouted, \* _rats_stagnation, _prev_unrouted
    initPhi,             \* _initial_potential
    held,                \* the checkpoint a search driver holds
    phase,               \* what the client knows: "idle", "running", "ended"
    info,                \* the outcome of the last step
    peak                 \* history: the highest potential tracked this episode

engine  == <<board, session, pristine>>
episode == <<net, closed, born, step, initPhi>>
tracker == <<best, bestPhi, track, stall, prevUnrouted, peak>>
client  == <<held, phase, info>>
vars == <<engine, episode, tracker, client, targets>>

-----------------------------------------------------------------------------
Routable == MultiPad \cap targets

\* The potential the reward sees on a step: a DRC runs only in per_step mode.
StepPhi(b) == IF TerminalMode THEN PhiBlind[b] ELSE Phi[b]

NoInfo == [valid |-> FALSE, terminated |-> FALSE, success |-> FALSE, gain |-> 0]

Snapshot(live) == [board |-> board, session |-> session, net |-> net,
                   closed |-> closed, step |-> step, live |-> live]

Killed(c) == IF c = NoCkpt THEN NoCkpt ELSE [c EXCEPT !.live = FALSE]

\* The mask context and the rule of the YAML: all conditions must match.
Fact == [has_net |-> net # NoNet, is_routing |-> session # NoNet,
         net_fully_connected |-> net # NoNet /\ net \notin Ratsnest[board]]

Granted(a) == a \in Action /\ \A c \in DOMAIN When[a] : When[a][c] = Fact[c]

-----------------------------------------------------------------------------
(* Construction: the engine has loaded the file, no episode exists yet.    *)
Init ==
    /\ board = FileBoard /\ session = NoNet /\ pristine = TRUE
    /\ net = NoNet /\ closed = {} /\ born = {} /\ step = 0 /\ initPhi = 0
    /\ best = NoCkpt /\ bestPhi = 0 /\ track = TRUE
    /\ stall = 0 /\ prevUnrouted = 0 /\ peak = 0
    /\ held = NoCkpt /\ phase = "idle" /\ info = NoInfo
    /\ targets = Net

(* set_target_nets(): documented as a call between two episodes.           *)
SetTargetNets(T) ==
    /\ phase # "running" /\ held = NoCkpt /\ KeepSizes = {}
    /\ targets' = T
    /\ phase' = "idle"
    /\ UNCHANGED <<engine, episode, tracker, held, info>>

(* The nets whose copper a reset may keep: the fraction draw owns the set  *)
(* when it is on; else the options give any set, none (bare board), every  *)
(* net (preserve_routing) and the non-target nets among them.              *)
KeptChoices ==
    IF KeepSizes = {} THEN SUBSET Net
    ELSE {K \in SUBSET Routable : Cardinality(K) \in KeepSizes}

(* The strip, the connectivity and the counters every reset performs       *)
(* before it validates the kept nets.                                      *)
ResetBoard(kept, b) ==
    /\ board' = Strip[b][kept]
    /\ session' = NoNet /\ net' = NoNet /\ step' = 0 /\ pristine' = FALSE
    /\ born' = Routable \ Ratsnest[board']
    /\ held' = IF KeepsStale THEN Killed(held) ELSE NoCkpt

LoadedBoard_NoReload == board

(* A keep-fraction reset reloads the file unless the board still is it.    *)
LoadedBoard == IF KeepSizes # {} /\ ~pristine THEN FileBoard ELSE board

KeptIncomplete(kept, b) ==
    KeepSizes # {} /\ ~(kept \subseteq Routable \ Ratsnest[Strip[b][kept]])

InitialBest_Released(b, c) ==
    [board |-> b, session |-> NoNet, net |-> NoNet, closed |-> c, step |-> 0, live |-> FALSE]

\* The best board so far is the one the episode begins with.
InitialBest(b, c) ==
    [board |-> b, session |-> NoNet, net |-> NoNet, closed |-> c, step |-> 0, live |-> TRUE]

Reset(kept) ==
    /\ kept \in KeptChoices /\ (MidReset \/ phase # "running")
    /\ ~KeptIncomplete(kept, LoadedBoard)
    /\ ResetBoard(kept, LoadedBoard)
    /\ closed' = born'
    /\ initPhi' = Phi[board']
    /\ prevUnrouted' = Unrouted[board'][targets] /\ stall' = 0 /\ track' = TRUE
    /\ bestPhi' = IF OutputBest THEN initPhi' ELSE bestPhi
    /\ best' = IF OutputBest THEN InitialBest(board', closed') ELSE NoCkpt
    /\ peak' = Phi[board']
    /\ phase' = "running" /\ info' = NoInfo
    /\ UNCHANGED targets

(* A sampled net that is not complete in the file: reset() raises after    *)
(* the strip, and the episode bookkeeping is left as it was.               *)
ResetRaises(kept) ==
    /\ kept \in KeptChoices /\ (MidReset \/ phase # "running")
    /\ KeptIncomplete(kept, LoadedBoard)
    /\ ResetBoard(kept, LoadedBoard)
    /\ best' = IF pristine THEN Killed(best) ELSE NoCkpt
    /\ phase' = "idle"
    /\ UNCHANGED <<closed, initPhi, bestPhi, track, stall, prevUnrouted, peak,
                   info, targets>>

-----------------------------------------------------------------------------
(* What follows the dispatch in step(): d is the state the dispatch left,  *)
(* valid tells whether the action passed the mask.                         *)

Here == [board |-> board, session |-> session, net |-> net, closed |-> closed]

AllNetsClosed_NotBorn(d) == Routable # {} /\ Routable \subseteq d.closed \ born

AllNetsClosed(d) == Routable # {} /\ Routable \subseteq d.closed

Terminated(valid, d) ==
    \/ valid /\ Unrouted[d.board][targets] = 0
    \/ AllNetsClosed(d)

\* A rejected action leaves after_state None: it counts as no progress.
SeenUnrouted(valid, d) ==
    IF valid THEN Unrouted[d.board][targets] ELSE prevUnrouted

Watching_Always == Patience > 0

Watching == Patience > 0 /\ track

NextStall(valid, d) ==
    IF ~Watching THEN stall
    ELSE IF SeenUnrouted(valid, d) = prevUnrouted THEN stall + 1 ELSE 0

\* Every call of step() is counted, whatever becomes of the action.
Clock(valid) == step + 1

Truncated_OffByOne(valid, d) ==
    \/ Clock(valid) > MaxSteps
    \/ Watching /\ NextStall(valid, d) >= Patience

Truncated(valid, d) ==
    \/ Clock(valid) >= MaxSteps
    \/ Watching /\ NextStall(valid, d) >= Patience

Ended(valid, d) == Terminated(valid, d) \/ Truncated(valid, d)

\* Section 7 of step(): only a valid, tracked step looks at the best board.
Improves(valid, d) ==
    /\ OutputBest /\ track /\ valid /\ ~Ended(valid, d)
    /\ StepPhi(d.board) > bestPhi

RollsBack_OnTruncation(valid, d) ==
    /\ OutputBest /\ track /\ valid /\ Ended(valid, d) /\ ~Terminated(valid, d)
    /\ best # NoCkpt /\ StepPhi(d.board) < bestPhi

RollsBack(valid, d) ==
    /\ OutputBest /\ track /\ valid /\ Ended(valid, d)
    /\ best # NoCkpt /\ StepPhi(d.board) < bestPhi

\* restore(): a dead handle leaves the engine alone, the rest is written.
Engine_BoardOnly(c, b, s) == IF c.live THEN <<c.board, s>> ELSE <<b, s>>

Engine(c, b, s) == IF c.live THEN <<c.board, c.session>> ELSE <<b, s>>

Success_NotRederived(valid, d) ==
    valid /\ Terminated(valid, d) /\ Unrouted[d.board][targets] = 0

\* A rollback re-derives the success from the board it brings back.
Success(valid, d) ==
    IF RollsBack(valid, d)
    THEN Unrouted[Engine(best, d.board, d.session)[1]][targets] = 0
    ELSE valid /\ Terminated(valid, d) /\ Unrouted[d.board][targets] = 0

FinalPhi_BeforeRollback(valid, d) == Phi[d.board]

\* info["final_potential"]: the episode-end DRC is counted, except after a rollback.
FinalPhi(valid, d) == IF RollsBack(valid, d) THEN bestPhi ELSE Phi[d.board]

Outcome(valid, d) ==
    [valid |-> valid, terminated |-> Terminated(valid, d), success |-> Success(valid, d),
     gain |-> IF Ended(valid, d) THEN FinalPhi(valid, d) - initPhi ELSE 0]

Conclude(valid, d) ==
    LET back == RollsBack(valid, d)
        kept == [d EXCEPT !.board = IF back THEN Engine(best, d.board, d.session)[1] ELSE @,
                          !.session = IF back THEN Engine(best, d.board, d.session)[2] ELSE @,
                          !.net = IF back THEN best.net ELSE @,
                          !.closed = IF back THEN best.closed ELSE @]
    IN
    /\ board' = kept.board /\ session' = kept.session
    /\ net' = kept.net /\ closed' = kept.closed
    /\ step' = IF back THEN best.step ELSE Clock(valid)
    /\ stall' = NextStall(valid, d)
    /\ prevUnrouted' = IF Watching THEN SeenUnrouted(valid, d) ELSE prevUnrouted
    /\ bestPhi' = IF Improves(valid, d) THEN StepPhi(d.board) ELSE bestPhi
    /\ best' = IF Improves(valid, d)
               THEN [board |-> d.board, session |-> d.session, net |-> d.net,
                     closed |-> d.closed, step |-> Clock(valid), live |-> TRUE]
               ELSE best
    /\ peak' = IF valid /\ track /\ StepPhi(d.board) > peak THEN StepPhi(d.board) ELSE peak
    /\ phase' = IF Ended(valid, d) THEN "ended" ELSE "running"
    /\ info' = Outcome(valid, d)
    /\ UNCHANGED <<pristine, born, track, initPhi, held, targets>>

-----------------------------------------------------------------------------
(* One action per action type, its dispatch outcome chosen by the router.  *)

Running == phase = "running"

\* idle, or a text action that failed to parse: the engine is not touched.
Idle == Running /\ Conclude(FALSE, Here)

MaskReject(a) == Running /\ ~Granted(a) /\ Conclude(FALSE, Here)

(* net_select succeeds iff the whole board's ratsnest has an edge of the   *)
(* net; in reselect mode the closed net it names is open again.            *)
NetSelect(n) ==
    /\ Running /\ Granted("net_select")
    /\ Conclude(TRUE,
         IF n \in Ratsnest[board]
         THEN [Here EXCEPT !.net = n, !.closed = IF NetReselect THEN @ \ {n} ELSE @]
         ELSE Here)

\* The router takes the net of the pad at the given point, or refuses.
StartRoute(n) ==
    /\ Running /\ Granted("start_route")
    /\ n \in Net /\ (FreeStart \/ n = net)
    /\ session = NoNet
    /\ Conclude(TRUE, [Here EXCEPT !.session = n])

StartRouteFails == Running /\ Granted("start_route") /\ Conclude(TRUE, Here)

\* The net is read after it was cleared.
NetEnd_ClosesNone ==
    /\ Running /\ Granted("net_end")
    /\ Conclude(TRUE, [Here EXCEPT !.net = NoNet, !.closed = @ \cup {NoNet}])

\* net_end always succeeds with a net: it deselects and closes it.
NetEnd ==
    /\ Running /\ Granted("net_end")
    /\ Conclude(TRUE, [Here EXCEPT !.net = NoNet, !.closed = @ \cup {net}])

Extension == {"make_line", "make_via", "finish"}

\* A commit ends the session (force_finish); a redundant retrace leaves b = board.
Extend(a, b) ==
    /\ Running /\ a \in Extension /\ Granted(a)
    /\ b \in Commit[board][session]
    /\ Conclude(TRUE, [Here EXCEPT !.board = b, !.session = NoNet])

\* A route that does not arrive commits nothing; the dispatcher cancels it.
ExtendFails(a) ==
    /\ Running /\ a \in Extension /\ Granted(a)
    /\ Conclude(TRUE, [Here EXCEPT !.session = NoNet])

-----------------------------------------------------------------------------
(* A search driver (described at _track_best_active): it captures the      *)
(* root, simulates with tracking off, restores the root and commits.       *)

BeginSearch ==
    /\ Search /\ Running /\ held = NoCkpt
    /\ held' = Snapshot(TRUE)
    /\ track' = FALSE
    /\ UNCHANGED <<engine, episode, best, bestPhi, stall, prevUnrouted, peak,
                   phase, info, targets>>

EndSearch ==
    /\ Search /\ held # NoCkpt
    /\ board' = Engine(held, board, session)[1]
    /\ session' = Engine(held, board, session)[2]
    /\ net' = held.net /\ closed' = held.closed /\ step' = held.step
    /\ held' = NoCkpt /\ track' = TRUE
    /\ phase' = "running" /\ info' = NoInfo
    /\ UNCHANGED <<pristine, born, initPhi, best, bestPhi, stall, prevUnrouted,
                   peak, targets>>

(* restore() raises when the session of the checkpoint cannot be re-opened *)
(* at its head: the engine has its board back, the environment nothing.    *)
RestoreRaises ==
    /\ Search /\ held # NoCkpt /\ held.live /\ held.session # NoNet
    /\ board' = held.board /\ session' = NoNet
    /\ held' = NoCkpt /\ phase' = "idle"
    /\ UNCHANGED <<pristine, episode, tracker, info, targets>>

-----------------------------------------------------------------------------
Step ==
    \/ Idle
    \/ \E a \in Action : MaskReject(a)
    \/ \E n \in Net : NetSelect(n) \/ StartRoute(n)
    \/ StartRouteFails
    \/ NetEnd
    \/ \E a \in Extension : ExtendFails(a) \/ \E b \in Board : Extend(a, b)

Next ==
    \/ \E K \in SUBSET Net : Reset(K) \/ ResetRaises(K)
    \/ \E T \in TargetChoices : SetTargetNets(T)
    \/ Step
    \/ BeginSearch \/ EndSearch \/ RestoreRaises

Spec == Init /\ [][Next]_vars

-----------------------------------------------------------------------------
(* Properties.                                                             *)

(* Every variable of the environment keeps its type.                       *)
TypeOK ==
    /\ board \in Board /\ session \in Net \cup {NoNet} /\ pristine \in BOOLEAN
    /\ net \in Net \cup {NoNet} /\ closed \in SUBSET Net /\ born \in SUBSET Net
    /\ step \in 0..MaxSteps /\ initPhi \in Int
    /\ best \in Snap(BOOLEAN) \cup {NoCkpt} /\ bestPhi \in Int /\ track \in BOOLEAN
    /\ stall \in Nat /\ prevUnrouted \in Nat /\ peak \in Int
    /\ held \in Snap(BOOLEAN) \cup {NoCkpt}
    /\ phase \in {"idle", "running", "ended"}
    /\ info \in [valid : BOOLEAN, terminated : BOOLEAN, success : BOOLEAN, gain : Int]
    /\ targets \in SUBSET Net

(* The engine's routing session and the dispatcher's current net, two      *)
(* pieces of state that start_route, the cancellations, reset, restore and *)
(* the best-board rollback write separately, never disagree.               *)
SessionHasItsNet == session # NoNet => net # NoNet

(* The net_valid_mask of encoding.py over the state: the selectable nets.  *)
NetValid == {n \in Routable \cap Ratsnest[board] : NetReselect \/ n \notin closed}

(* encoding.py, net_valid_mask: an all-False mask cannot appear at a       *)
(* net_select decision point of an episode that had anything to route;     *)
(* it would trip the dead-pointer guard of the policy.                     *)
SelectableNet ==
    (Running /\ net = NoNet /\ ~(Routable \subseteq born)) => NetValid # {}

(* step(), section 7, and the comment at _output_best_board: with          *)
(* output_best_board the live board at the end of a tracked episode is at  *)
(* least as good as every board its committed steps passed through, if its *)
(* last action passed the mask.                                            *)
BestBoardAfterValid ==
    (phase = "ended" /\ OutputBest /\ track /\ info.valid) => StepPhi(board) >= peak

(* The best-board checkpoint is always one restore() can use, and holds    *)
(* the board whose potential was recorded with it: a reset that drops the  *)
(* checkpoints, a release and a new capture never leave the two apart.     *)
BestIsRestorable ==
    (Running /\ OutputBest) =>
        best # NoCkpt /\ best.live /\ StepPhi(best.board) = bestPhi

(* A rollback at the end of step() cannot raise: restore() can only fail   *)
(* to re-open a routing session, and the best board never holds one, since *)
(* only a commit, which ends the session, makes a board better.            *)
BestHasNoSession == (Running /\ OutputBest) => best.session = NoNet

(* ENVIRONMENT.md: the last step reports the gain of the board it leaves   *)
(* over the board the episode began with.                                  *)
GainIsOfFinalBoard == phase = "ended" => info.gain = Phi[board] - initPhi

(* A reported success means that the board left behind is fully routed:    *)
(* neither a voluntary finish nor a rollback to an incomplete board counts.*)
SuccessMeansRouted ==
    (phase = "ended" /\ info.success) => Unrouted[board][targets] = 0

(* The report of the last step, parts of which are computed before the     *)
(* rollback and patched after it, is about the board the episode leaves.   *)
ReportIsOfFinalBoard == GainIsOfFinalBoard /\ SuccessMeansRouted

(* The stagnation counter compares with the unrouted count of the last     *)
(* committed step: what a search simulates and undoes leaves no trace.     *)
StagnationBaseline ==
    (Running /\ Patience > 0 /\ track) => prevUnrouted = Unrouted[board][targets]

(* The keep-fraction comment in reset(): every episode is cut from the     *)
(* routing of the file, whatever the episodes before it did to the copper, *)
(* and every net it keeps starts complete.                                 *)
EpisodeCutFromFile ==
    (Running /\ step = 0 /\ KeepSizes # {}) =>
        \E K \in KeptChoices : board = Strip[FileBoard][K] /\ K \subseteq born

(* The episode implements its contract: the pending nets are the routable  *)
(* ones net_end has not closed.                                            *)
Contract == INSTANCE EpisodeContract
              WITH Budget <- MaxSteps, Reselect <- NetReselect,
                   pending <- Routable \ closed, selected <- net, used <- step

ImplementsContract == Contract!Spec
=============================================================================
