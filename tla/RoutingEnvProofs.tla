-------------------------- MODULE RoutingEnvProofs --------------------------
(***************************************************************************)
(* Proofs about the episode core.  The structure follows the code: every   *)
(* action of step() is a dispatch that leaves a state d, followed by the   *)
(* common tail Conclude; one lemma describes the dispatch, one the tail,   *)
(* and the invariants are preserved because of these two.                  *)
(***************************************************************************)
EXTENDS RoutingEnv, TLAPS

MaybeNet == Net \cup {NoNet}

\* The states a dispatch can leave.
Dispatched == [board : Board, session : MaybeNet, net : MaybeNet, closed : SUBSET Net]

\* A running episode has a step left, and so has the root of a search.
StepsLeft ==
    /\ Running => step < MaxSteps
    /\ held # NoCkpt => held.step < MaxSteps

TypeInv == TypeOK /\ StepsLeft

-----------------------------------------------------------------------------
(* What restore() leaves in the engine is typed.                           *)
LEMMA EngineType ==
    ASSUME NEW c \in Snap(BOOLEAN), NEW b \in Board, NEW s \in MaybeNet
    PROVE  /\ Engine(c, b, s)[1] = IF c.live THEN c.board ELSE b
           /\ Engine(c, b, s)[2] = IF c.live THEN c.session ELSE s
           /\ Engine(c, b, s)[1] \in Board
           /\ Engine(c, b, s)[2] \in MaybeNet
  BY DEF Engine, Snap, MaybeNet

(* The dispatch of step(): what each action type can change.               *)
DispatchOf(valid, d) ==
    /\ ~valid => d = Here
    /\ \/ d.board = board /\ d.session = session
          /\ d.net = net /\ d.closed = closed
       \* net_select
       \/ /\ net = NoNet /\ session = NoNet /\ d.net \in Ratsnest[board]
          /\ d.board = board /\ d.session = session
          /\ d.closed = IF NetReselect THEN closed \ {d.net} ELSE closed
       \* start_route
       \/ /\ net # NoNet /\ d.session \in Net /\ (FreeStart \/ d.session = net)
          /\ d.board = board /\ d.net = net /\ d.closed = closed
       \* net_end
       \/ /\ net # NoNet /\ session = NoNet /\ d.net = NoNet
          /\ d.closed = closed \cup {net}
          /\ d.board = board /\ d.session = session
       \* make_line, make_via, finish
       \/ /\ session # NoNet /\ d.session = NoNet
          /\ d.board = board \/ d.board \in Commit[board][session]
          /\ d.net = net /\ d.closed = closed

(* Every action of step() is a dispatch followed by the common tail.       *)
LEMMA StepIsDispatch ==
    ASSUME TypeOK, Step
    PROVE  \E valid \in BOOLEAN, d \in Dispatched :
              Running /\ Conclude(valid, d) /\ DispatchOf(valid, d)
<1> DEFINE Goal == \E valid \in BOOLEAN, d \in Dispatched :
              Running /\ Conclude(valid, d) /\ DispatchOf(valid, d)
<1>h. /\ Here \in Dispatched
      /\ Here.board = board /\ Here.session = session
      /\ Here.net = net /\ Here.closed = closed
  BY DEF TypeOK, Here, Dispatched, MaybeNet
<1>1. CASE Idle
  BY <1>1, <1>h DEF Idle, DispatchOf
<1>2. ASSUME NEW a \in Action, MaskReject(a) PROVE Goal
  BY <1>2, <1>h DEF MaskReject, DispatchOf
<1>3. ASSUME NEW n \in Net, NetSelect(n) PROVE Goal
  <2> DEFINE d == IF n \in Ratsnest[board]
                  THEN [Here EXCEPT !.net = n, !.closed = IF NetReselect THEN @ \ {n} ELSE @]
                  ELSE Here
  <2>1. d \in Dispatched
    BY <1>h DEF Dispatched, MaybeNet
  <2>2. net = NoNet /\ session = NoNet
    BY <1>3, MaskAssumption DEF NetSelect, Granted, Fact, Demands
  <2>3. DispatchOf(TRUE, d)
    <3>1. CASE n \in Ratsnest[board]
      <4>1. /\ d.board = board /\ d.session = session /\ d.net = n
            /\ d.closed = IF NetReselect THEN closed \ {n} ELSE closed
        BY <1>h, <3>1 DEF Dispatched
      <4> QED BY <4>1, <2>2, <3>1 DEF DispatchOf
    <3>2. CASE n \notin Ratsnest[board]
      BY <3>2, <1>h DEF DispatchOf
    <3> QED BY <3>1, <3>2
  <2>4. Running /\ Conclude(TRUE, d)
    BY <1>3 DEF NetSelect
  <2> HIDE DEF d
  <2> QED BY <2>1, <2>3, <2>4
<1>4. ASSUME NEW n \in Net, StartRoute(n) PROVE Goal
  <2> DEFINE d == [Here EXCEPT !.session = n]
  <2>1. /\ d \in Dispatched
        /\ d.board = board /\ d.session = n /\ d.net = net /\ d.closed = closed
    BY <1>h DEF Dispatched, MaybeNet
  <2>2. net # NoNet
    BY <1>4, MaskAssumption DEF StartRoute, Granted, Fact, Demands
  <2>3. Running /\ Conclude(TRUE, d) /\ (FreeStart \/ n = net)
    BY <1>4 DEF StartRoute
  <2> HIDE DEF d
  <2>4. DispatchOf(TRUE, d)
    BY <2>1, <2>2, <2>3 DEF DispatchOf
  <2> QED BY <2>1, <2>3, <2>4
<1>5. CASE StartRouteFails
  BY <1>5, <1>h DEF StartRouteFails, DispatchOf
<1>6. CASE NetEnd
  <2> DEFINE d == [Here EXCEPT !.net = NoNet, !.closed = @ \cup {net}]
  <2>1. net # NoNet /\ session = NoNet
    BY <1>6, MaskAssumption DEF NetEnd, Granted, Fact, Demands
  <2>2. /\ d \in Dispatched
        /\ d.board = board /\ d.session = session /\ d.net = NoNet
        /\ d.closed = closed \cup {net}
    BY <1>h, <2>1 DEF Dispatched, MaybeNet, TypeOK
  <2>3. Running /\ Conclude(TRUE, d)
    BY <1>6 DEF NetEnd
  <2> HIDE DEF d
  <2>4. DispatchOf(TRUE, d)
    BY <2>1, <2>2 DEF DispatchOf
  <2> QED BY <2>2, <2>3, <2>4
<1>7. ASSUME NEW a \in Extension, ExtendFails(a) PROVE Goal
  <2> DEFINE d == [Here EXCEPT !.session = NoNet]
  <2>1. /\ d \in Dispatched
        /\ d.board = board /\ d.session = NoNet /\ d.net = net /\ d.closed = closed
    BY <1>h DEF Dispatched, MaybeNet
  <2>2. session # NoNet
    BY <1>7, MaskAssumption DEF ExtendFails, Granted, Fact, Demands, Extension
  <2>3. Running /\ Conclude(TRUE, d)
    BY <1>7 DEF ExtendFails
  <2> HIDE DEF d
  <2>4. DispatchOf(TRUE, d)
    BY <2>1, <2>2 DEF DispatchOf
  <2> QED BY <2>1, <2>3, <2>4
<1>8. ASSUME NEW a \in Extension, NEW b \in Board, Extend(a, b) PROVE Goal
  <2> DEFINE d == [Here EXCEPT !.board = b, !.session = NoNet]
  <2>1. /\ d \in Dispatched
        /\ d.board = b /\ d.session = NoNet /\ d.net = net /\ d.closed = closed
    BY <1>h DEF Dispatched, MaybeNet
  <2>2. session # NoNet
    BY <1>8, MaskAssumption DEF Extend, Granted, Fact, Demands, Extension
  <2>3. Running /\ Conclude(TRUE, d) /\ b \in Commit[board][session]
    BY <1>8 DEF Extend
  <2> HIDE DEF d
  <2>4. DispatchOf(TRUE, d)
    BY <2>1, <2>2, <2>3 DEF DispatchOf
  <2> QED BY <2>1, <2>3, <2>4
<1> QED BY <1>1, <1>2, <1>3, <1>4, <1>5, <1>6, <1>7, <1>8 DEF Step

(* The tail of step(): the state it leaves, with and without a rollback.   *)
LEMMA ConcludeLeaves ==
    ASSUME TypeOK, NEW valid \in BOOLEAN, NEW d \in Dispatched, Conclude(valid, d)
    PROVE  /\ ~RollsBack(valid, d) =>
                /\ board' = d.board /\ session' = d.session
                /\ net' = d.net /\ closed' = d.closed /\ step' = step + 1
           /\ RollsBack(valid, d) =>
                /\ best \in Snap(BOOLEAN) /\ best # NoCkpt
                /\ board' = IF best.live THEN best.board ELSE d.board
                /\ session' = IF best.live THEN best.session ELSE d.session
                /\ net' = best.net /\ closed' = best.closed /\ step' = best.step
                /\ phase' = "ended"
<1>1. CASE ~RollsBack(valid, d)
  BY <1>1 DEF Conclude, Clock, Dispatched
<1>2. CASE RollsBack(valid, d)
  <2>1. best \in Snap(BOOLEAN) /\ best # NoCkpt /\ Ended(valid, d)
    BY <1>2 DEF RollsBack, TypeOK
  <2>2. /\ Engine(best, d.board, d.session)[1] = IF best.live THEN best.board ELSE d.board
        /\ Engine(best, d.board, d.session)[2] = IF best.live THEN best.session ELSE d.session
    BY <2>1, EngineType DEF Dispatched
  <2>3. /\ board' = Engine(best, d.board, d.session)[1]
        /\ session' = Engine(best, d.board, d.session)[2]
        /\ net' = best.net /\ closed' = best.closed /\ step' = best.step
        /\ phase' = "ended"
    BY <1>2, <2>1 DEF Conclude, Dispatched
  <2> QED BY <1>2, <2>1, <2>2, <2>3
<1> QED BY <1>1, <1>2

(* The tail keeps the types, and never leaves a running episode without a  *)
(* step: the end of the episode is decided on the incremented counter.     *)
LEMMA StepType ==
    ASSUME TypeInv, Step
    PROVE  TypeInv'
<1>1. PICK valid \in BOOLEAN, d \in Dispatched : Running /\ Conclude(valid, d)
  BY StepIsDispatch DEF TypeInv
<1>2. /\ step \in 0..(MaxSteps - 1) /\ MaxSteps \in Nat /\ Clock(valid) = step + 1
  BY <1>1, ConfigAssumption DEF TypeInv, TypeOK, StepsLeft, Clock
<1>3. /\ Phi[d.board] \in Int /\ StepPhi(d.board) \in Int
      /\ Unrouted[d.board][targets] \in Nat
  BY BoardAssumption DEF StepPhi, Dispatched, TypeInv, TypeOK
<1>4. ~Ended(valid, d) => Clock(valid) < MaxSteps
  BY <1>2 DEF Ended, Truncated
<1>5. /\ board' \in Board /\ session' \in MaybeNet /\ net' \in MaybeNet
      /\ closed' \in SUBSET Net /\ step' \in 0..MaxSteps
      /\ phase' = "running" => step' < MaxSteps
  <2>1. CASE ~RollsBack(valid, d)
    <3>1. phase' = "running" => ~Ended(valid, d)
      BY <1>1 DEF Conclude
    <3>2. /\ board' = d.board /\ session' = d.session
          /\ net' = d.net /\ closed' = d.closed /\ step' = step + 1
      BY <1>1, <2>1, ConcludeLeaves DEF TypeInv
    <3>3. step + 1 \in 0..MaxSteps /\ (phase' = "running" => step + 1 < MaxSteps)
      BY <1>2, <1>4, <3>1
    <3> QED BY <3>2, <3>3 DEF Dispatched
  <2>2. CASE RollsBack(valid, d)
    BY <1>1, <2>2, ConcludeLeaves DEF TypeInv, Snap, Dispatched, MaybeNet
  <2> QED BY <2>1, <2>2
<1>6. best' \in Snap(BOOLEAN) \cup {NoCkpt}
  <2>1. CASE Improves(valid, d)
    <3>1. Clock(valid) \in 0..MaxSteps
      BY <1>2
    <3>2. best' = [board |-> d.board, session |-> d.session, net |-> d.net,
                   closed |-> d.closed, step |-> Clock(valid), live |-> TRUE]
      BY <1>1, <2>1 DEF Conclude
    <3> QED BY <3>1, <3>2 DEF Snap, Dispatched, MaybeNet
  <2>2. CASE ~Improves(valid, d)
    BY <1>1, <2>2 DEF Conclude, TypeInv, TypeOK
  <2> QED BY <2>1, <2>2
<1>7. SeenUnrouted(valid, d) \in Nat /\ NextStall(valid, d) \in Nat
  BY <1>3 DEF SeenUnrouted, NextStall, TypeInv, TypeOK
<1>8. /\ bestPhi' \in Int /\ stall' \in Nat /\ prevUnrouted' \in Nat /\ peak' \in Int
  BY <1>1, <1>3, <1>7 DEF Conclude, TypeInv, TypeOK
<1>9. info' \in [valid : BOOLEAN, terminated : BOOLEAN, success : BOOLEAN, gain : Int]
  <2>1. Terminated(valid, d) \in BOOLEAN /\ Success(valid, d) \in BOOLEAN
    BY DEF Terminated, Success, AllNetsClosed
  <2>2. FinalPhi(valid, d) \in Int
    BY <1>3 DEF FinalPhi, TypeInv, TypeOK
  <2>3. info' = Outcome(valid, d)
    BY <1>1 DEF Conclude
  <2> QED BY <2>1, <2>2, <2>3 DEF Outcome, TypeInv, TypeOK
<1>10. /\ pristine' = pristine /\ born' = born /\ track' = track
       /\ initPhi' = initPhi /\ held' = held /\ targets' = targets
       /\ phase' \in {"idle", "running", "ended"}
  BY <1>1 DEF Conclude
<1> QED
  BY <1>5, <1>6, <1>8, <1>9, <1>10 DEF TypeInv, TypeOK, StepsLeft, MaybeNet, Running

LEMMA KilledType ==
    ASSUME NEW c \in Snap(BOOLEAN) \cup {NoCkpt}
    PROVE  /\ Killed(c) \in Snap(BOOLEAN) \cup {NoCkpt}
           /\ Killed(c) # NoCkpt => c # NoCkpt /\ Killed(c).step = c.step
  BY DEF Killed, Snap

(* What every reset leaves, however it ends.                               *)
LEMMA ResetBoardType ==
    ASSUME TypeInv, NEW kept \in SUBSET Net, NEW b \in Board, ResetBoard(kept, b)
    PROVE  /\ board' \in Board /\ session' = NoNet /\ net' = NoNet
           /\ step' = 0 /\ pristine' = FALSE
           /\ born' \in SUBSET Net
           /\ held' \in Snap(BOOLEAN) \cup {NoCkpt}
           /\ held' # NoCkpt => held'.step < MaxSteps
<1>1. MultiPad \subseteq Net /\ Strip[b][kept] \in Board
  BY BoardAssumption
<1>2. /\ Killed(held) \in Snap(BOOLEAN) \cup {NoCkpt}
      /\ Killed(held) # NoCkpt => held # NoCkpt /\ Killed(held).step = held.step
  BY KilledType DEF TypeInv, TypeOK
<1> QED BY <1>1, <1>2 DEF ResetBoard, Routable, TypeInv, TypeOK, StepsLeft

LEMMA LoadedBoardType == ASSUME TypeOK PROVE LoadedBoard \in Board
  BY BoardAssumption DEF LoadedBoard, TypeOK

LEMMA ResetType ==
    ASSUME TypeInv, NEW K \in SUBSET Net, Reset(K)
    PROVE  TypeInv'
<1>1. /\ board' \in Board /\ session' = NoNet /\ net' = NoNet
      /\ step' = 0 /\ pristine' = FALSE /\ born' \in SUBSET Net
      /\ held' \in Snap(BOOLEAN) \cup {NoCkpt}
      /\ held' # NoCkpt => held'.step < MaxSteps
  BY LoadedBoardType, ResetBoardType DEF Reset, TypeInv
<1>2. /\ Phi[board'] \in Int /\ Unrouted[board'][targets] \in Nat
      /\ 0 \in 0..MaxSteps /\ 0 < MaxSteps
  BY <1>1, BoardAssumption, ConfigAssumption DEF TypeInv, TypeOK
<1>3. InitialBest(board', closed') \in Snap(BOOLEAN)
  BY <1>1, <1>2 DEF InitialBest, Snap, Reset
<1>4. /\ bestPhi' \in Int /\ best' \in Snap(BOOLEAN) \cup {NoCkpt}
      /\ initPhi' \in Int /\ peak' \in Int /\ prevUnrouted' \in Nat /\ stall' = 0
      /\ track' = TRUE /\ closed' = born' /\ phase' = "running"
      /\ info' = NoInfo /\ targets' = targets
  BY <1>2, <1>3 DEF Reset, TypeInv, TypeOK
<1>5. TypeOK'
  <2>1. /\ info' \in [valid : BOOLEAN, terminated : BOOLEAN, success : BOOLEAN, gain : Int]
    BY <1>4 DEF NoInfo
  <2>4. pristine' \in BOOLEAN
    BY <1>1
  <2>5. track' \in BOOLEAN
    BY <1>4
  <2>2. step' \in 0..MaxSteps /\ stall' \in Nat
    BY <1>1, <1>2, <1>4
  <2>3. targets' \in SUBSET Net /\ closed' \in SUBSET Net
    BY <1>1, <1>4 DEF TypeInv, TypeOK
  <2> QED BY <1>1, <1>4, <2>1, <2>2, <2>3, <2>4, <2>5 DEF TypeOK
<1>6. StepsLeft'
  BY <1>1, <1>2 DEF StepsLeft
<1> QED BY <1>5, <1>6 DEF TypeInv

LEMMA ResetRaisesType ==
    ASSUME TypeInv, NEW K \in SUBSET Net, ResetRaises(K)
    PROVE  TypeInv'
<1>1. /\ board' \in Board /\ session' = NoNet /\ net' = NoNet
      /\ step' = 0 /\ pristine' = FALSE /\ born' \in SUBSET Net
      /\ held' \in Snap(BOOLEAN) \cup {NoCkpt}
      /\ held' # NoCkpt => held'.step < MaxSteps
  BY LoadedBoardType, ResetBoardType DEF ResetRaises, TypeInv
<1>2. best' \in Snap(BOOLEAN) \cup {NoCkpt}
  BY KilledType DEF ResetRaises, TypeInv, TypeOK
<1>3. /\ phase' = "idle" /\ 0 \in 0..MaxSteps
      /\ UNCHANGED <<closed, initPhi, bestPhi, track, stall, prevUnrouted, peak,
                     info, targets>>
  BY ConfigAssumption DEF ResetRaises
<1> QED BY <1>1, <1>2, <1>3 DEF TypeInv, TypeOK, StepsLeft, Running

LEMMA SearchType ==
    ASSUME TypeInv, BeginSearch \/ EndSearch \/ RestoreRaises
    PROVE  TypeInv'
<1>1. CASE BeginSearch
  <2>1. Snapshot(TRUE) \in Snap(BOOLEAN) /\ Snapshot(TRUE).step < MaxSteps
    BY <1>1 DEF BeginSearch, Snapshot, Snap, TypeInv, TypeOK, StepsLeft
  <2> QED
    BY <1>1, <2>1 DEF BeginSearch, TypeInv, TypeOK, StepsLeft, Running, engine, episode
<1>2. CASE EndSearch
  <2>1. held \in Snap(BOOLEAN) /\ held # NoCkpt
    BY <1>2 DEF EndSearch, TypeInv, TypeOK
  <2>2. /\ Engine(held, board, session)[1] \in Board
        /\ Engine(held, board, session)[2] \in MaybeNet
    BY <2>1, EngineType DEF TypeInv, TypeOK, MaybeNet
  <2>3. /\ held.net \in MaybeNet /\ held.closed \in SUBSET Net
        /\ held.step \in 0..MaxSteps /\ held.step < MaxSteps
    BY <2>1 DEF Snap, TypeInv, StepsLeft, MaybeNet
  <2> QED
    BY <1>2, <2>2, <2>3 DEF EndSearch, TypeInv, TypeOK, StepsLeft, Running, NoInfo, MaybeNet
<1>3. CASE RestoreRaises
  <2>1. held.board \in Board
    BY <1>3 DEF RestoreRaises, Snap, TypeInv, TypeOK
  <2> QED
    BY <1>3, <2>1 DEF RestoreRaises, episode, tracker, TypeInv, TypeOK, StepsLeft, Running
<1> QED BY <1>1, <1>2, <1>3

LEMMA TypeInductive ==
    /\ Init => TypeInv
    /\ TypeInv /\ [Next]_vars => TypeInv'
<1>1. Init => TypeInv
  BY BoardAssumption, ConfigAssumption
  DEF Init, TypeInv, TypeOK, StepsLeft, NoInfo, Running
<1>2. TypeInv /\ [Next]_vars => TypeInv'
  <2> SUFFICES ASSUME TypeInv, [Next]_vars PROVE TypeInv'
    OBVIOUS
  <2>1. ASSUME NEW K \in SUBSET Net, Reset(K) \/ ResetRaises(K) PROVE TypeInv'
    BY <2>1, ResetType, ResetRaisesType
  <2>2. ASSUME NEW T \in TargetChoices, SetTargetNets(T) PROVE TypeInv'
    BY <2>2, ConfigAssumption
    DEF SetTargetNets, TypeInv, TypeOK, StepsLeft, Running, engine, episode, tracker
  <2>3. CASE Step
    BY <2>3, StepType
  <2>4. CASE BeginSearch \/ EndSearch \/ RestoreRaises
    BY <2>4, SearchType
  <2>5. CASE UNCHANGED vars
    BY <2>5 DEF vars, engine, episode, tracker, client, TypeInv, TypeOK, StepsLeft, Running
  <2> QED BY <2>1, <2>2, <2>3, <2>4, <2>5 DEF Next
<1> QED BY <1>1, <1>2

(* The types, and a step left for every running episode, are invariant.    *)
THEOREM TypesHold == Spec => []TypeInv
  BY TypeInductive, PTL DEF Spec

(* The environment is well typed for every board and every configuration,  *)
(* and the step counter never passes max_steps.                            *)
THEOREM TypeCorrect == Spec => []TypeOK
<1>1. TypeInv => TypeOK
  BY DEF TypeInv
<1> QED BY <1>1, TypesHold, PTL

-----------------------------------------------------------------------------
(***************************************************************************)
(* The safety theorems of the episode core, for a search driver that drops *)
(* its checkpoint when it resets.  Each invariant speaks of three places   *)
(* at once: the live state, the best-board checkpoint and the checkpoint   *)
(* the driver holds, since a rollback or a restore makes either live.      *)
(***************************************************************************)

-----------------------------------------------------------------------------
(* Checkpoints are usable while they matter, and carry a coherent session. *)

NetOf(s, n) == s # NoNet => n # NoNet

HeldUsable ==
    held # NoCkpt =>
        /\ held.live /\ ~track /\ phase # "idle"
        /\ NetOf(held.session, held.net)

BestUsable ==
    (OutputBest /\ phase # "idle") =>
        best # NoCkpt /\ best.live /\ NetOf(best.session, best.net)

TracksUnlessSearching == (Running /\ held = NoCkpt) => track

CkptInv == HeldUsable /\ BestUsable /\ NetOf(session, net) /\ TracksUnlessSearching

LEMMA CkptReset ==
    ASSUME TypeInv, ~KeepsStale, NEW K \in SUBSET Net, Reset(K) \/ ResetRaises(K)
    PROVE  CkptInv'
<1>1. /\ session' = NoNet /\ held' = NoCkpt
  BY DEF Reset, ResetRaises, ResetBoard
<1>2. BestUsable'
  <2>1. CASE Reset(K)
    <3>1. board' \in Board /\ closed' \in SUBSET Net
      BY <2>1, ResetType DEF TypeInv, TypeOK
    <3>2. InitialBest(board', closed') \in Snap(BOOLEAN)
      BY <3>1, ConfigAssumption DEF InitialBest, Snap
    <3>3. /\ InitialBest(board', closed').live
          /\ InitialBest(board', closed').session = NoNet
      BY DEF InitialBest
    <3>4. OutputBest => best' = InitialBest(board', closed')
      BY <2>1 DEF Reset
    <3> QED BY <3>2, <3>3, <3>4, CheckpointAssumption DEF BestUsable, NetOf
  <2>2. CASE ResetRaises(K)
    BY <2>2 DEF ResetRaises, BestUsable
  <2> QED BY <2>1, <2>2
<1>3. TracksUnlessSearching'
  BY DEF Reset, ResetRaises, TracksUnlessSearching, Running
<1> QED BY <1>1, <1>2, <1>3 DEF CkptInv, HeldUsable, NetOf

LEMMA CkptStep ==
    ASSUME TypeInv, CkptInv, Step
    PROVE  CkptInv'
<1>1. PICK valid \in BOOLEAN, d \in Dispatched :
         Running /\ Conclude(valid, d) /\ DispatchOf(valid, d)
  BY StepIsDispatch DEF TypeInv
<1>2. NetOf(d.session, d.net)
  BY <1>1, BoardAssumption DEF DispatchOf, CkptInv, NetOf, TypeInv, TypeOK
<1>3. NetOf(session', net')
  <2>1. CASE ~RollsBack(valid, d)
    BY <1>1, <1>2, <2>1, ConcludeLeaves DEF TypeInv
  <2>2. CASE RollsBack(valid, d)
    <3>1. best.live /\ NetOf(best.session, best.net)
      BY <1>1, <2>2 DEF RollsBack, CkptInv, BestUsable, Running
    <3> QED BY <1>1, <2>2, <3>1, ConcludeLeaves DEF TypeInv
  <2> QED BY <2>1, <2>2
<1>4. BestUsable'
  <2>1. CASE Improves(valid, d)
    <3> DEFINE new == [board |-> d.board, session |-> d.session, net |-> d.net,
                       closed |-> d.closed, step |-> Clock(valid), live |-> TRUE]
    <3>1. best' = new
      BY <1>1, <2>1 DEF Conclude
    <3>2. Clock(valid) \in 0..MaxSteps
      BY <1>1, ConfigAssumption DEF Clock, TypeInv, TypeOK, StepsLeft
    <3>3. new \in Snap(BOOLEAN)
      BY <3>2 DEF Snap, Dispatched, MaybeNet
    <3>4. new.live /\ new.session = d.session /\ new.net = d.net
      OBVIOUS
    <3> HIDE DEF new
    <3> QED BY <3>1, <3>3, <3>4, <1>2, CheckpointAssumption DEF BestUsable
  <2>2. CASE ~Improves(valid, d)
    BY <1>1, <2>2 DEF Conclude, CkptInv, BestUsable, Running
  <2> QED BY <2>1, <2>2
<1>5. HeldUsable' /\ TracksUnlessSearching'
  BY <1>1 DEF Conclude, CkptInv, HeldUsable, TracksUnlessSearching
<1> QED BY <1>3, <1>4, <1>5 DEF CkptInv

LEMMA CkptSearch ==
    ASSUME TypeInv, CkptInv, BeginSearch \/ EndSearch \/ RestoreRaises
    PROVE  CkptInv'
<1>1. CASE BeginSearch
  <2>1. /\ held' = Snapshot(TRUE) /\ track' = FALSE /\ phase' = phase /\ Running
        /\ best' = best /\ session' = session /\ net' = net
    BY <1>1 DEF BeginSearch, engine, episode
  <2>2. held'.live /\ held'.session = session /\ held'.net = net
    BY <2>1 DEF Snapshot
  <2>3. Snapshot(TRUE) \in Snap(BOOLEAN)
    BY DEF Snapshot, Snap, TypeInv, TypeOK
  <2>4. held' # NoCkpt
    BY <2>1, <2>3, CheckpointAssumption
  <2> QED BY <2>1, <2>2, <2>4
      DEF CkptInv, HeldUsable, BestUsable, Running, TracksUnlessSearching
<1>2. CASE EndSearch
  <2>1. held \in Snap(BOOLEAN) /\ held.live /\ NetOf(held.session, held.net) /\ phase # "idle"
    BY <1>2 DEF EndSearch, TypeInv, TypeOK, CkptInv, HeldUsable
  <2>2. Engine(held, board, session)[2] = held.session
    BY <2>1, EngineType DEF TypeInv, TypeOK, MaybeNet
  <2>3. /\ session' = held.session /\ net' = held.net /\ held' = NoCkpt
        /\ best' = best /\ phase' = "running" /\ track'
    BY <1>2, <2>2 DEF EndSearch
  <2> QED BY <2>1, <2>3 DEF CkptInv, HeldUsable, BestUsable, TracksUnlessSearching
<1>3. CASE RestoreRaises
  BY <1>3 DEF RestoreRaises, CkptInv, HeldUsable, BestUsable, NetOf,
              TracksUnlessSearching, Running
<1> QED BY <1>1, <1>2, <1>3

LEMMA CkptInductive ==
    ASSUME ~KeepsStale
    PROVE  /\ Init => CkptInv
           /\ TypeInv /\ CkptInv /\ [Next]_vars => CkptInv'
<1>1. Init => CkptInv
  BY DEF Init, CkptInv, HeldUsable, BestUsable, NetOf, TracksUnlessSearching, Running
<1>2. ASSUME TypeInv, CkptInv, [Next]_vars PROVE CkptInv'
  <2>1. ASSUME NEW T \in TargetChoices, SetTargetNets(T) PROVE CkptInv'
    BY <2>1, <1>2 DEF SetTargetNets, CkptInv, HeldUsable, BestUsable, engine, episode,
                      tracker, TracksUnlessSearching, Running
  <2>2. CASE UNCHANGED vars
    BY <2>2, <1>2 DEF vars, engine, episode, tracker, client, CkptInv, HeldUsable, BestUsable,
                      TracksUnlessSearching, Running
  <2> QED BY <1>2, <2>1, <2>2, CkptReset, CkptStep, CkptSearch DEF Next
<1> QED BY <1>1, <1>2

(* The router never has a route in progress without a selected net, however *)
(* resets, cancellations, restores and rollbacks interleave.               *)
THEOREM SessionTheorem ==
    ASSUME ~KeepsStale
    PROVE  Spec => []SessionHasItsNet
<1>1. CkptInv => SessionHasItsNet
  BY DEF CkptInv, NetOf, SessionHasItsNet
<1> QED BY <1>1, CkptInductive, TypesHold, PTL DEF Spec

-----------------------------------------------------------------------------
(* A net that routing completes is the selected one, until net_end closes  *)
(* it: an open net that is not selected still has a ratsnest edge.         *)

Progress(b, n, c) ==
    /\ \A m \in Routable : m \in c \/ m \in Ratsnest[b] \/ m = n
    /\ Routable \subseteq c => Routable \subseteq born

OwnNet(s, n) == s \in {NoNet, n}

SelectInv ==
    /\ Running => Progress(board, net, closed) /\ OwnNet(session, net)
    /\ held # NoCkpt => Progress(held.board, held.net, held.closed)
                         /\ OwnNet(held.session, held.net)

LEMMA SelectReset ==
    ASSUME TypeInv, ~KeepsStale, NEW K \in SUBSET Net, Reset(K) \/ ResetRaises(K)
    PROVE  SelectInv'
<1>1. /\ held' = NoCkpt /\ session' = NoNet /\ targets' = targets
      /\ born' = Routable \ Ratsnest[board']
  BY DEF Reset, ResetRaises, ResetBoard
<1>2. Running' => closed' = born'
  BY DEF Reset, ResetRaises, Running
<1> QED BY <1>1, <1>2 DEF SelectInv, Progress, OwnNet, Routable

LEMMA SelectStep ==
    ASSUME TypeInv, SelectInv, ~FreeStart, Step
    PROVE  SelectInv'
<1>1. PICK valid \in BOOLEAN, d \in Dispatched :
         Running /\ Conclude(valid, d) /\ DispatchOf(valid, d)
  BY StepIsDispatch DEF TypeInv
<1>2. /\ targets' = targets /\ born' = born /\ held' = held /\ Routable' = Routable
  BY <1>1 DEF Conclude, Routable
<1>3. OwnNet(d.session, d.net)
  BY <1>1 DEF DispatchOf, SelectInv, OwnNet
<1>4. \A m \in Routable : m \in d.closed \/ m \in Ratsnest[d.board] \/ m = d.net
  <2> SUFFICES ASSUME NEW m \in Routable
               PROVE  m \in d.closed \/ m \in Ratsnest[d.board] \/ m = d.net
    OBVIOUS
  <2>1. m \in closed \/ m \in Ratsnest[board] \/ m = net
    BY <1>1 DEF SelectInv, Progress
  <2>2. m \in Net /\ NoNet \notin Net
    BY BoardAssumption DEF Routable
  <2>3. ASSUME session # NoNet, d.board \in Commit[board][session]
        PROVE  session = net /\ Ratsnest[board] \ {net} \subseteq Ratsnest[d.board]
    <3>1. session = net /\ session \in Net
      BY <1>1, <2>3 DEF SelectInv, OwnNet, TypeInv, TypeOK
    <3> QED BY <3>1, <2>3, BoardAssumption DEF TypeInv, TypeOK, Dispatched
  <2> QED BY <1>1, <2>1, <2>2, <2>3 DEF DispatchOf
<1>5. Running' => Progress(board, net, closed)' /\ OwnNet(session, net)'
  <2> SUFFICES ASSUME Running' PROVE Progress(board, net, closed)' /\ OwnNet(session, net)'
    OBVIOUS
  <2>1. ~Ended(valid, d)
    BY <1>1 DEF Conclude, Running
  <2>2. ~RollsBack(valid, d)
    BY <2>1 DEF RollsBack
  <2>3. /\ board' = d.board /\ session' = d.session /\ net' = d.net /\ closed' = d.closed
    BY <1>1, <2>2, ConcludeLeaves DEF TypeInv
  <2>4. Routable \subseteq d.closed => Routable = {}
    BY <2>1 DEF Ended, Terminated, AllNetsClosed
  <2> QED BY <1>2, <1>3, <1>4, <2>3, <2>4 DEF Progress, OwnNet
<1> QED BY <1>2, <1>5 DEF SelectInv, Progress, OwnNet

LEMMA SelectSearch ==
    ASSUME TypeInv, CkptInv, SelectInv, BeginSearch \/ EndSearch \/ RestoreRaises
    PROVE  SelectInv'
<1>1. CASE BeginSearch
  <2>1. /\ held' = Snapshot(TRUE) /\ Running
        /\ UNCHANGED <<board, session, net, closed, born, targets>>
    BY <1>1 DEF BeginSearch, engine, episode
  <2>2. /\ held'.board = board /\ held'.session = session
        /\ held'.net = net /\ held'.closed = closed
    BY <2>1 DEF Snapshot
  <2> QED BY <2>1, <2>2 DEF SelectInv, Progress, OwnNet, Routable
<1>2. CASE EndSearch
  <2>1. held \in Snap(BOOLEAN) /\ held # NoCkpt /\ held.live
    BY <1>2 DEF EndSearch, TypeInv, TypeOK, CkptInv, HeldUsable
  <2>2. /\ Engine(held, board, session)[1] = held.board
        /\ Engine(held, board, session)[2] = held.session
    BY <2>1, EngineType DEF TypeInv, TypeOK, MaybeNet
  <2>3. /\ board' = held.board /\ session' = held.session
        /\ net' = held.net /\ closed' = held.closed
        /\ held' = NoCkpt /\ born' = born /\ targets' = targets
    BY <1>2, <2>2 DEF EndSearch
  <2> QED BY <2>1, <2>3 DEF SelectInv, Progress, OwnNet, Routable
<1>3. CASE RestoreRaises
  BY <1>3 DEF RestoreRaises, SelectInv, Running
<1> QED BY <1>1, <1>2, <1>3

LEMMA SelectInductive ==
    ASSUME ~KeepsStale, ~FreeStart
    PROVE  /\ Init => SelectInv
           /\ TypeInv /\ CkptInv /\ SelectInv /\ [Next]_vars => SelectInv'
<1>1. Init => SelectInv
  BY DEF Init, SelectInv, Running
<1>2. ASSUME TypeInv, CkptInv, SelectInv, [Next]_vars PROVE SelectInv'
  <2>1. ASSUME NEW T \in TargetChoices, SetTargetNets(T) PROVE SelectInv'
    BY <2>1 DEF SetTargetNets, SelectInv, Running
  <2>2. CASE UNCHANGED vars
    BY <2>2, <1>2 DEF vars, engine, episode, tracker, client, SelectInv, Running,
                      Progress, OwnNet, Routable
  <2> QED BY <1>2, <2>1, <2>2, SelectReset, SelectStep, SelectSearch DEF Next
<1> QED BY <1>1, <1>2

(* An agent that has to select a net always finds one: an episode that had *)
(* something to route never presents an all-False net_valid_mask.          *)
THEOREM SelectableTheorem ==
    ASSUME ~KeepsStale, ~FreeStart
    PROVE  Spec => []SelectableNet
<1>1. SelectInv /\ TypeInv => SelectableNet
  <2> SUFFICES ASSUME SelectInv, TypeInv, Running, net = NoNet, ~(Routable \subseteq born)
               PROVE  NetValid # {}
    BY DEF SelectableNet
  <2>1. PICK m \in Routable : m \notin closed
    BY DEF SelectInv, Progress
  <2>2. m \in Ratsnest[board]
    BY <2>1, BoardAssumption DEF SelectInv, Progress, Routable
  <2> QED BY <2>1, <2>2 DEF NetValid
<1> QED BY <1>1, CkptInductive, SelectInductive, TypesHold, PTL DEF Spec

-----------------------------------------------------------------------------
(* The best board, the gain, the success flag and the stagnation baseline. *)

BestInv ==
    (OutputBest /\ phase # "idle") =>
        /\ StepPhi(best.board) = bestPhi
        /\ (Running \/ ~track) => bestPhi = peak
        /\ (phase = "ended" /\ track /\ info.valid) => StepPhi(board) >= peak
        /\ best.session = NoNet
        /\ (Running /\ track) => StepPhi(board) <= bestPhi
        /\ held # NoCkpt => StepPhi(held.board) <= bestPhi

GainInv == phase = "ended" => info.gain = Phi[board] - initPhi

BaselineInv ==
    Patience > 0 =>
        /\ (Running /\ track) => prevUnrouted = Unrouted[board][targets]
        /\ held # NoCkpt => prevUnrouted = Unrouted[held.board][targets]

LEMMA PhiType ==
    ASSUME NEW b \in Board
    PROVE  StepPhi(b) \in Int /\ Phi[b] \in Int /\ (~TerminalMode => StepPhi(b) = Phi[b])
  BY BoardAssumption DEF StepPhi

LEMMA BestReset ==
    ASSUME TypeInv, ~KeepsStale, ~TerminalMode,
           NEW K \in SUBSET Net, Reset(K) \/ ResetRaises(K)
    PROVE  BestInv' /\ GainInv' /\ BaselineInv' /\ SuccessMeansRouted'
<1>1. held' = NoCkpt
  BY DEF Reset, ResetRaises, ResetBoard
<1>2. CASE Reset(K)
  <2>1. board' \in Board /\ phase' = "running"
    BY <1>2, ResetType DEF TypeInv, TypeOK, Reset
  <2>2. /\ InitialBest(board', closed').board = board'
        /\ InitialBest(board', closed').session = NoNet
        /\ Phi[board'] \in Int
    BY <2>1, PhiType DEF InitialBest
  <2>3. OutputBest => /\ best' = InitialBest(board', closed')
                      /\ bestPhi' = Phi[board'] /\ peak' = Phi[board']
    BY <1>2 DEF Reset
  <2>4. BestInv'
    BY <1>1, <2>1, <2>2, <2>3, PhiType DEF BestInv, StepPhi
  <2>5. prevUnrouted' = Unrouted[board'][targets'] 
    BY <1>2 DEF Reset
  <2> QED BY <1>1, <2>1, <2>4, <2>5 DEF GainInv, BaselineInv, SuccessMeansRouted
<1>3. CASE ResetRaises(K)
  BY <1>1, <1>3 DEF ResetRaises, BestInv, GainInv, BaselineInv, SuccessMeansRouted, Running
<1> QED BY <1>2, <1>3

LEMMA BestStep ==
    ASSUME TypeInv, CkptInv, BestInv, BaselineInv, ~TerminalMode, Step
    PROVE  BestInv' /\ GainInv' /\ BaselineInv' /\ SuccessMeansRouted'
<1>1. PICK valid \in BOOLEAN, d \in Dispatched :
         Running /\ Conclude(valid, d) /\ DispatchOf(valid, d)
  BY StepIsDispatch DEF TypeInv
<1>2. /\ d.board \in Board /\ StepPhi(d.board) \in Int
      /\ StepPhi(d.board) = Phi[d.board]
      /\ bestPhi \in Int /\ peak \in Int
  BY PhiType DEF Dispatched, TypeInv, TypeOK
<1>3. OutputBest => best \in Snap(BOOLEAN) /\ best.live /\ best.board \in Board
                    /\ StepPhi(best.board) = bestPhi /\ bestPhi = peak
                    /\ best.session = NoNet
                    /\ (track => StepPhi(board) <= bestPhi)
                    /\ (held # NoCkpt => StepPhi(held.board) <= bestPhi /\ ~track)
  BY <1>1 DEF BestInv, CkptInv, BestUsable, HeldUsable, Running, TypeInv, TypeOK, Snap
<1>4. /\ track' = track /\ held' = held /\ targets' = targets /\ initPhi' = initPhi
      /\ info' = Outcome(valid, d) /\ phase' = IF Ended(valid, d) THEN "ended" ELSE "running"
  BY <1>1 DEF Conclude
<1>5. /\ Outcome(valid, d).valid = valid
      /\ Outcome(valid, d).success = Success(valid, d)
      /\ Ended(valid, d) => Outcome(valid, d).gain = FinalPhi(valid, d) - initPhi
  BY DEF Outcome
<1>6. board' = IF RollsBack(valid, d) THEN best.board ELSE d.board
  BY <1>1, <1>3, ConcludeLeaves DEF TypeInv, RollsBack
<1>7. peak' = IF valid /\ track /\ StepPhi(d.board) > peak THEN StepPhi(d.board) ELSE peak
  BY <1>1 DEF Conclude
<1>8. BestInv'
  <2>1. CASE Improves(valid, d)
    <3>1. best' = [board |-> d.board, session |-> d.session, net |-> d.net,
                   closed |-> d.closed, step |-> Clock(valid), live |-> TRUE]
          /\ bestPhi' = StepPhi(d.board)
      BY <1>1, <2>1 DEF Conclude
    <3>2. best'.board = d.board /\ best'.session = d.session
      BY <3>1
    <3>4. d.session = NoNet
      <4>1. d.board # board
        BY <1>2, <1>3, <2>1 DEF Improves
      <4> QED BY <1>1, <4>1 DEF DispatchOf
    <3>5. held = NoCkpt /\ board' = d.board
      BY <1>3, <1>6, <2>1 DEF Improves, RollsBack
    <3>3. phase' = "running" /\ (OutputBest => peak' = StepPhi(d.board))
      BY <1>3, <1>4, <1>7, <2>1 DEF Improves
    <3> QED BY <1>2, <1>4, <3>1, <3>2, <3>3, <3>4, <3>5 DEF BestInv, StepPhi
  <2>2. CASE ~Improves(valid, d)
    <3>1. best' = best /\ bestPhi' = bestPhi
      BY <1>1, <2>2 DEF Conclude
    <3>2. CASE ~Ended(valid, d)
      <4>1. OutputBest /\ track /\ valid => ~(StepPhi(d.board) > bestPhi)
        BY <2>2, <3>2 DEF Improves
      <4>2. phase' = "running" /\ (OutputBest => peak' = peak)
        BY <1>3, <1>4, <1>7, <3>2, <4>1
      <4>3. board' = d.board /\ (~valid => d.board = board)
        BY <1>1, <1>6, <3>2 DEF RollsBack, DispatchOf, Here
      <4>4. OutputBest /\ track => StepPhi(board') <= bestPhi
        BY <1>2, <1>3, <4>1, <4>3
      <4> QED BY <1>3, <1>4, <3>1, <4>2, <4>4 DEF BestInv, StepPhi
    <3>3. CASE Ended(valid, d)
      <4>1. phase' = "ended"
        BY <1>4, <3>3
      <4>2. ~track => peak' = peak
        BY <1>7
      <4>3. ASSUME OutputBest, track, valid PROVE StepPhi(board') >= peak'
        <5>1. CASE RollsBack(valid, d)
          <6>1. StepPhi(d.board) < bestPhi
            BY <5>1 DEF RollsBack
          <6> QED BY <1>2, <1>3, <1>6, <1>7, <4>3, <5>1, <6>1
        <5>2. CASE ~RollsBack(valid, d)
          <6>1. ~(StepPhi(d.board) < bestPhi)
            BY <5>2, <4>3, <3>3, <1>1 DEF RollsBack, CkptInv, BestUsable, Running
          <6> QED BY <1>2, <1>3, <1>6, <1>7, <4>3, <5>2, <6>1
        <5> QED BY <5>1, <5>2
      <4> QED BY <1>3, <1>4, <1>5, <3>1, <4>1, <4>2, <4>3 DEF BestInv, StepPhi, Running
    <3> QED BY <3>2, <3>3
  <2> QED BY <2>1, <2>2
<1>9. GainInv'
  <2>1. CASE RollsBack(valid, d)
    <3>1. OutputBest /\ Ended(valid, d) /\ FinalPhi(valid, d) = bestPhi
      BY <2>1 DEF RollsBack, FinalPhi
    <3>2. bestPhi = Phi[best.board]
      BY <1>3, <3>1, PhiType
    <3> QED BY <1>4, <1>5, <1>6, <2>1, <3>1, <3>2 DEF GainInv
  <2>2. CASE ~RollsBack(valid, d)
    BY <1>4, <1>5, <1>6, <2>2 DEF GainInv, FinalPhi
  <2> QED BY <2>1, <2>2
<1>10. SuccessMeansRouted'
  <2>1. CASE RollsBack(valid, d)
    <3>1. Engine(best, d.board, d.session)[1] = best.board
      BY <1>3, <2>1, EngineType DEF RollsBack, Dispatched
    <3> QED BY <1>4, <1>5, <1>6, <2>1, <3>1 DEF SuccessMeansRouted, Success
  <2>2. CASE ~RollsBack(valid, d)
    BY <1>4, <1>5, <1>6, <2>2 DEF SuccessMeansRouted, Success
  <2> QED BY <2>1, <2>2
<1>11. BaselineInv'
  <2> SUFFICES ASSUME Patience > 0 PROVE BaselineInv'
    BY DEF BaselineInv
  <2>1. prevUnrouted' = IF track THEN SeenUnrouted(valid, d) ELSE prevUnrouted
    BY <1>1 DEF Conclude, Watching
  <2>2. ASSUME Running', track PROVE SeenUnrouted(valid, d) = Unrouted[board'][targets]
    <3>1. ~RollsBack(valid, d)
      BY <1>4, <2>2 DEF RollsBack, Running
    <3>2. ~valid => d.board = board
      BY <1>1 DEF DispatchOf, Here
    <3> QED BY <1>1, <1>6, <2>2, <3>1, <3>2 DEF SeenUnrouted, BaselineInv
  <2>3. held # NoCkpt => ~track
    BY DEF CkptInv, HeldUsable
  <2> QED BY <1>4, <2>1, <2>2, <2>3 DEF BaselineInv
<1> QED BY <1>8, <1>9, <1>10, <1>11

LEMMA BestSearch ==
    ASSUME TypeInv, CkptInv, BestInv, BaselineInv, BeginSearch \/ EndSearch \/ RestoreRaises
    PROVE  BestInv' /\ GainInv' /\ BaselineInv' /\ SuccessMeansRouted'
<1>1. CASE BeginSearch
  <2>1. /\ held' = Snapshot(TRUE) /\ track' = FALSE /\ track \in BOOLEAN
        /\ phase = "running" /\ phase' = "running"
        /\ UNCHANGED <<board, best, bestPhi, peak, prevUnrouted, targets>>
    BY <1>1 DEF BeginSearch, engine, episode, Running, TypeInv, TypeOK
  <2>2. held'.board = board /\ held = NoCkpt
    BY <1>1, <2>1 DEF Snapshot, BeginSearch
  <2>3. track = TRUE
    BY <1>1, <2>1 DEF BeginSearch, CkptInv, TracksUnlessSearching
  <2>4. BestInv'
    BY <2>1, <2>2, <2>3 DEF BestInv, StepPhi, Running
  <2>5. GainInv' /\ SuccessMeansRouted'
    BY <2>1 DEF GainInv, SuccessMeansRouted
  <2> QED BY <2>1, <2>2, <2>3, <2>4, <2>5 DEF BaselineInv, Running
<1>2. CASE EndSearch
  <2>1. held \in Snap(BOOLEAN) /\ held # NoCkpt /\ held.live /\ ~track /\ phase # "idle"
    BY <1>2 DEF EndSearch, TypeInv, TypeOK, CkptInv, HeldUsable
  <2>2. Engine(held, board, session)[1] = held.board
    BY <2>1, EngineType DEF TypeInv, TypeOK, MaybeNet
  <2>3. /\ board' = held.board /\ held' = NoCkpt /\ phase' = "running"
        /\ UNCHANGED <<best, bestPhi, peak, prevUnrouted, targets>>
    BY <1>2, <2>2 DEF EndSearch
  <2>4. BestInv'
    BY <2>1, <2>3 DEF BestInv, StepPhi
  <2>5. BaselineInv'
    BY <2>1, <2>3 DEF BaselineInv
  <2> QED BY <2>3, <2>4, <2>5 DEF GainInv, SuccessMeansRouted
<1>3. CASE RestoreRaises
  BY <1>3 DEF RestoreRaises, BestInv, GainInv, BaselineInv, SuccessMeansRouted, Running
<1> QED BY <1>1, <1>2, <1>3

BoardInv == BestInv /\ GainInv /\ BaselineInv /\ SuccessMeansRouted

LEMMA BoardInductive ==
    ASSUME ~KeepsStale, ~TerminalMode
    PROVE  /\ Init => BoardInv
           /\ TypeInv /\ CkptInv /\ BoardInv /\ [Next]_vars => BoardInv'
<1>1. Init => BoardInv
  BY DEF Init, BoardInv, BestInv, GainInv, BaselineInv, SuccessMeansRouted, Running
<1>2. ASSUME TypeInv, CkptInv, BoardInv, [Next]_vars PROVE BoardInv'
  <2>1. ASSUME NEW T \in TargetChoices, SetTargetNets(T) PROVE BoardInv'
    <3>1. phase' = "idle" /\ held' = NoCkpt
      BY <2>1 DEF SetTargetNets
    <3> QED BY <3>1 DEF BoardInv, BestInv, GainInv, BaselineInv, SuccessMeansRouted, Running
  <2>2. CASE UNCHANGED vars
    BY <2>2, <1>2 DEF vars, engine, episode, tracker, client, Running, StepPhi,
                      BoardInv, BestInv, GainInv, BaselineInv, SuccessMeansRouted
  <2> QED BY <1>2, <2>1, <2>2, BestReset, BestStep, BestSearch DEF Next, BoardInv
<1> QED BY <1>1, <1>2

LEMMA BoardInvariant ==
    ASSUME ~KeepsStale, ~TerminalMode
    PROVE  Spec => [](TypeInv /\ CkptInv /\ BoardInv)
  BY CkptInductive, BoardInductive, TypesHold, PTL DEF Spec

(* output_best_board: an episode whose last action passed the mask leaves  *)
(* a board at least as good as every board it committed.                   *)
THEOREM BestBoardTheorem ==
    ASSUME ~KeepsStale, ~TerminalMode
    PROVE  Spec => []BestBoardAfterValid
<1>1. BoardInv => BestBoardAfterValid
  BY DEF BoardInv, BestInv, BestBoardAfterValid
<1> QED BY <1>1, BoardInvariant, PTL

(* The best-board checkpoint can always be restored, and holds the board   *)
(* whose potential is recorded with it.                                    *)
THEOREM RestorableTheorem ==
    ASSUME ~KeepsStale, ~TerminalMode
    PROVE  Spec => []BestIsRestorable
<1>1. CkptInv /\ BoardInv => BestIsRestorable
  BY DEF CkptInv, BestUsable, BoardInv, BestInv, BestIsRestorable, Running
<1> QED BY <1>1, BoardInvariant, PTL

(* A rollback never has a routing session to re-open.                      *)
THEOREM NoSessionTheorem ==
    ASSUME ~KeepsStale, ~TerminalMode
    PROVE  Spec => []BestHasNoSession
<1>1. BoardInv => BestHasNoSession
  BY DEF BoardInv, BestInv, BestHasNoSession, Running
<1> QED BY <1>1, BoardInvariant, PTL

(* The reported gain is that of the board the episode leaves.              *)
THEOREM GainTheorem ==
    ASSUME ~KeepsStale, ~TerminalMode
    PROVE  Spec => []GainIsOfFinalBoard
<1>1. BoardInv => GainIsOfFinalBoard
  BY DEF BoardInv, GainInv, GainIsOfFinalBoard
<1> QED BY <1>1, BoardInvariant, PTL

(* A reported success is a fully routed board, after a rollback too.       *)
THEOREM SuccessTheorem ==
    ASSUME ~KeepsStale, ~TerminalMode
    PROVE  Spec => []SuccessMeansRouted
<1>1. BoardInv => SuccessMeansRouted
  BY DEF BoardInv
<1> QED BY <1>1, BoardInvariant, PTL

(* The report of an episode is about the board it leaves.                  *)
THEOREM ReportTheorem ==
    ASSUME ~KeepsStale, ~TerminalMode
    PROVE  Spec => []ReportIsOfFinalBoard
BY GainTheorem, SuccessTheorem, PTL DEF ReportIsOfFinalBoard

(* The stagnation counter compares committed steps with committed steps.   *)
THEOREM StagnationTheorem ==
    ASSUME ~KeepsStale, ~TerminalMode
    PROVE  Spec => []StagnationBaseline
<1>1. BoardInv => StagnationBaseline
  BY DEF BoardInv, BaselineInv, StagnationBaseline
<1> QED BY <1>1, BoardInvariant, PTL

-----------------------------------------------------------------------------
(***************************************************************************)
(* With the keep-fraction draw every episode is cut from the routing of    *)
(* the file: the engine holds the file until the first reset, and is       *)
(* loaded again by every later one.                                        *)
(***************************************************************************)

CutOf(b) == \E K \in KeptChoices : b = Strip[FileBoard][K] /\ K \subseteq born

\* _board_pristine is believed only before the first reset.
PristineInv ==
    pristine => board = FileBoard /\ phase # "running" /\ held = NoCkpt

\* An episode that has not begun, live or held by a search driver.
CutInv ==
    KeepSizes # {} =>
        /\ Running /\ step = 0 => CutOf(board)
        /\ held # NoCkpt /\ held.step = 0 => CutOf(held.board)

FileInv == PristineInv /\ CutInv

LEMMA FileReset ==
    ASSUME TypeInv, ~KeepsStale, FileInv, NEW K \in SUBSET Net, Reset(K) \/ ResetRaises(K)
    PROVE  FileInv'
<1>1. held' = NoCkpt /\ pristine' = FALSE
  BY DEF Reset, ResetRaises, ResetBoard
<1>2. ASSUME KeepSizes # {}, Running' PROVE CutOf(board)'
  <2>1. /\ K \in KeptChoices /\ ~KeptIncomplete(K, LoadedBoard) /\ targets' = targets
        /\ board' = Strip[LoadedBoard][K] /\ born' = (Routable \ Ratsnest[board])'
    BY <1>2 DEF Reset, ResetRaises, ResetBoard, Running, Routable
  <2>2. LoadedBoard = FileBoard
    BY <1>2 DEF LoadedBoard, FileInv, PristineInv
  <2>3. Routable' = Routable /\ KeptChoices' = KeptChoices
    BY <2>1 DEF Routable, KeptChoices
  <2>4. K \subseteq born'
    BY <1>2, <2>1, <2>3 DEF KeptIncomplete
  <2> QED BY <2>1, <2>2, <2>3, <2>4 DEF CutOf
<1> QED BY <1>1, <1>2 DEF FileInv, PristineInv, CutInv, Running

LEMMA FileStep ==
    ASSUME TypeInv, FileInv, Step
    PROVE  FileInv'
<1>1. PICK valid \in BOOLEAN, d \in Dispatched : Running /\ Conclude(valid, d)
  BY StepIsDispatch DEF TypeInv
<1>2. /\ pristine' = pristine /\ born' = born /\ held' = held /\ targets' = targets
      /\ ~pristine
  BY <1>1 DEF Conclude, FileInv, PristineInv, Running
<1>3. CutOf(board)' <=> \E K \in KeptChoices : board' = Strip[FileBoard][K] /\ K \subseteq born
  BY <1>2 DEF CutOf, KeptChoices, Routable
<1>4. held # NoCkpt => (CutOf(held.board)' <=> CutOf(held.board))
  BY <1>2 DEF CutOf, KeptChoices, Routable
<1>5. ~(Running' /\ step' = 0)
  <2>1. CASE RollsBack(valid, d)
    BY <1>1, <2>1 DEF Conclude, RollsBack, Running
  <2>2. CASE ~RollsBack(valid, d)
    BY <1>1, <2>2, ConfigAssumption DEF Conclude, Clock, TypeInv, TypeOK
  <2> QED BY <2>1, <2>2
<1> QED BY <1>2, <1>4, <1>5 DEF FileInv, PristineInv, CutInv

LEMMA FileSearch ==
    ASSUME TypeInv, CkptInv, FileInv, BeginSearch \/ EndSearch \/ RestoreRaises
    PROVE  FileInv'
<1>1. /\ pristine' = pristine /\ born' = born /\ targets' = targets /\ ~pristine
      /\ KeptChoices' = KeptChoices
  BY DEF BeginSearch, EndSearch, RestoreRaises, engine, episode, FileInv, PristineInv,
         Running, KeptChoices, Routable
<1>2. CASE BeginSearch
  <2>1. held' = Snapshot(TRUE) /\ board' = board /\ step' = step /\ phase' = phase /\ Running
    BY <1>2 DEF BeginSearch, engine, episode
  <2>2. held'.board = board /\ held'.step = step
    BY <2>1 DEF Snapshot
  <2> QED BY <1>1, <2>1, <2>2 DEF FileInv, PristineInv, CutInv, CutOf, Running
<1>3. CASE EndSearch
  <2>1. held # NoCkpt /\ held \in Snap(BOOLEAN) /\ held.live
    BY <1>3 DEF EndSearch, TypeInv, TypeOK, CkptInv, HeldUsable
  <2>2. board' = held.board /\ step' = held.step /\ held' = NoCkpt
    BY <1>3, <2>1, EngineType DEF EndSearch, TypeInv, TypeOK, MaybeNet
  <2> QED BY <1>1, <2>1, <2>2 DEF FileInv, PristineInv, CutInv, CutOf
<1>4. CASE RestoreRaises
  BY <1>1, <1>4 DEF RestoreRaises, FileInv, PristineInv, CutInv, Running
<1> QED BY <1>2, <1>3, <1>4

(* Whatever the episodes before it did to the copper, and whatever a search *)
(* driver restored, an episode with the keep-fraction draw begins with the *)
(* routing of the file, cut down to nets that are complete in it.          *)
THEOREM CutTheorem ==
    ASSUME ~KeepsStale
    PROVE  Spec => []EpisodeCutFromFile
<1>1. Init => FileInv
  BY DEF Init, FileInv, PristineInv, CutInv, Running
<1>2. ASSUME TypeInv, CkptInv, FileInv, [Next]_vars PROVE FileInv'
  <2>1. ASSUME NEW T \in TargetChoices, SetTargetNets(T) PROVE FileInv'
    BY <1>2, <2>1 DEF SetTargetNets, engine, FileInv, PristineInv, CutInv, Running
  <2>2. CASE UNCHANGED vars
    BY <1>2, <2>2 DEF vars, engine, episode, client, FileInv, PristineInv, CutInv, CutOf,
                      KeptChoices, Routable, Running
  <2> QED BY <1>2, <2>1, <2>2, FileReset, FileStep, FileSearch DEF Next
<1>3. FileInv => EpisodeCutFromFile
  BY DEF FileInv, CutInv, CutOf, EpisodeCutFromFile
<1> QED BY <1>1, <1>2, <1>3, CkptInductive, TypesHold, PTL DEF Spec

-----------------------------------------------------------------------------
(***************************************************************************)
(* The episode core implements EpisodeContract, for an environment without *)
(* a search driver (a restore of the root is a step back in time, which    *)
(* the contract of a single episode does not have).                        *)
(***************************************************************************)

(* The checkpoint a rollback would bring back is an earlier moment of the  *)
(* running episode: no later step, and no net closed that is not closed now.*)
BestIsEarlier ==
    (Running /\ OutputBest) =>
        /\ best \in Snap(BOOLEAN) /\ best.step <= step
        /\ NetReselect \/ best.closed \subseteq closed

NoSearch == held = NoCkpt

EarlierInv == BestIsEarlier /\ NoSearch

LEMMA EarlierReset ==
    ASSUME TypeInv, EarlierInv, NEW K \in SUBSET Net, Reset(K) \/ ResetRaises(K)
    PROVE  EarlierInv'
<1>1. NoSearch'
  BY DEF Reset, ResetRaises, ResetBoard, EarlierInv, NoSearch, Killed
<1>2. CASE Reset(K)
  <2>1. board' \in Board /\ closed' \in SUBSET Net /\ step' = 0
    BY <1>2, ResetType DEF TypeInv, TypeOK, Reset, ResetBoard
  <2>2. /\ InitialBest(board', closed') \in Snap(BOOLEAN)
        /\ InitialBest(board', closed').step = 0
        /\ InitialBest(board', closed').closed = closed'
    BY <2>1, ConfigAssumption DEF InitialBest, Snap
  <2>3. OutputBest => best' = InitialBest(board', closed')
    BY <1>2 DEF Reset
  <2> QED BY <1>1, <2>1, <2>2, <2>3 DEF EarlierInv, BestIsEarlier
<1>3. CASE ResetRaises(K)
  BY <1>1, <1>3 DEF ResetRaises, EarlierInv, BestIsEarlier, Running
<1> QED BY <1>2, <1>3

LEMMA EarlierStep ==
    ASSUME TypeInv, EarlierInv, Step
    PROVE  EarlierInv'
<1>1. PICK valid \in BOOLEAN, d \in Dispatched :
         Running /\ Conclude(valid, d) /\ DispatchOf(valid, d)
  BY StepIsDispatch DEF TypeInv
<1>2. NoSearch'
  BY <1>1 DEF Conclude, EarlierInv, NoSearch
<1>3. ASSUME Running', OutputBest
      PROVE  best' \in Snap(BOOLEAN) /\ best'.step <= step'
             /\ (NetReselect \/ best'.closed \subseteq closed')
  <2>1. ~Ended(valid, d) /\ ~RollsBack(valid, d)
    BY <1>1, <1>3 DEF Conclude, Running, RollsBack
  <2>2. /\ closed' = d.closed /\ step' = step + 1 /\ step \in Nat
    BY <1>1, <2>1, ConcludeLeaves DEF TypeInv, TypeOK
  <2>3. CASE Improves(valid, d)
    <3>1. best' = [board |-> d.board, session |-> d.session, net |-> d.net,
                   closed |-> d.closed, step |-> Clock(valid), live |-> TRUE]
      BY <1>1, <2>3 DEF Conclude
    <3>2. best' \in Snap(BOOLEAN) \cup {NoCkpt}
      BY StepType DEF TypeInv, TypeOK
    <3>3. Clock(valid) = step + 1 /\ Clock(valid) \in 0..MaxSteps
      BY <1>1, ConfigAssumption DEF Clock, TypeInv, TypeOK, StepsLeft
    <3>4. best' \in Snap(BOOLEAN)
      BY <3>1, <3>3 DEF Snap, Dispatched, MaybeNet
    <3>5. best'.step = Clock(valid) /\ best'.closed = d.closed
      BY <3>1
    <3> QED BY <2>2, <3>3, <3>4, <3>5
  <2>4. CASE ~Improves(valid, d)
    <3>1. best' = best
      BY <1>1, <2>4 DEF Conclude
    <3>2. NetReselect \/ closed \subseteq d.closed
      BY <1>1 DEF DispatchOf
    <3>3. best \in Snap(BOOLEAN) /\ best.step <= step /\ best.step \in 0..MaxSteps
          /\ (NetReselect \/ best.closed \subseteq closed)
      BY <1>1, <1>3 DEF EarlierInv, BestIsEarlier, Snap
    <3>4. best.step <= step + 1
      BY <2>2, <3>3, ConfigAssumption
    <3> QED BY <2>2, <3>1, <3>2, <3>3, <3>4
  <2> QED BY <2>3, <2>4
<1> QED BY <1>2, <1>3 DEF EarlierInv, BestIsEarlier

LEMMA EarlierInductive ==
    ASSUME ~Search
    PROVE  /\ Init => EarlierInv
           /\ TypeInv /\ EarlierInv /\ [Next]_vars => EarlierInv'
<1>1. Init => EarlierInv
  BY DEF Init, EarlierInv, BestIsEarlier, NoSearch, Running
<1>2. ASSUME TypeInv, EarlierInv, [Next]_vars PROVE EarlierInv'
  <2>1. ASSUME NEW T \in TargetChoices, SetTargetNets(T) PROVE EarlierInv'
    BY <2>1 DEF SetTargetNets, EarlierInv, BestIsEarlier, NoSearch, Running
  <2>2. CASE UNCHANGED vars
    BY <2>2, <1>2 DEF vars, engine, episode, tracker, client, EarlierInv, BestIsEarlier,
                      NoSearch, Running
  <2>3. ~BeginSearch /\ ~EndSearch /\ ~RestoreRaises
    BY <1>2 DEF BeginSearch, EndSearch, RestoreRaises, EarlierInv, NoSearch
  <2> QED BY <1>2, <2>1, <2>2, <2>3, EarlierReset, EarlierStep DEF Next
<1> QED BY <1>1, <1>2

-----------------------------------------------------------------------------
(* Every step of the environment is a step of the contract.                *)

LEMMA StepRefines ==
    ASSUME TypeInv, EarlierInv, Step
    PROVE  Contract!Spend \/ Contract!Rewind
<1>1. PICK valid \in BOOLEAN, d \in Dispatched :
         Running /\ Conclude(valid, d) /\ DispatchOf(valid, d)
  BY StepIsDispatch DEF TypeInv
<1>2. /\ targets' = targets /\ Routable' = Routable /\ Routable \subseteq Net
      /\ phase' = IF Ended(valid, d) THEN "ended" ELSE "running"
  BY <1>1, BoardAssumption DEF Conclude, Routable
<1>3. CASE RollsBack(valid, d)
  <2>1. /\ best \in Snap(BOOLEAN) /\ net' = best.net /\ closed' = best.closed
        /\ step' = best.step /\ phase' = "ended" /\ OutputBest
    BY <1>1, <1>3, ConcludeLeaves DEF TypeInv, RollsBack
  <2>2. /\ best.step <= step /\ (NetReselect \/ best.closed \subseteq closed)
        /\ best.step \in 0..MaxSteps /\ best.net \in Net \cup {NoNet}
    BY <1>1, <2>1 DEF EarlierInv, BestIsEarlier, Snap
  <2>3. step' \in 0..step
    BY <2>1, <2>2, ConfigAssumption DEF TypeInv, TypeOK
  <2> QED BY <1>1, <1>2, <2>1, <2>2, <2>3 DEF Contract!Rewind, Running
<1>4. CASE ~RollsBack(valid, d)
  <2>1. /\ net' = d.net /\ closed' = d.closed /\ step' = step + 1
    BY <1>1, <1>4, ConcludeLeaves DEF TypeInv
  <2>2. \/ net' = net /\ closed' = closed
        \/ /\ net = NoNet /\ net' \in Net
           /\ closed' = IF NetReselect THEN closed \ {net'} ELSE closed
        \/ net # NoNet /\ net' = NoNet /\ closed' = closed \cup {net}
    <3>1. \A m \in Ratsnest[board] : m \in Net
      BY BoardAssumption DEF TypeInv, TypeOK
    <3> QED BY <1>1, <2>1, <3>1 DEF DispatchOf
  <2>3. Contract!Pick \/ Contract!Release \/ Contract!Work
    <3>1. CASE net' = net /\ closed' = closed
      BY <1>2, <3>1 DEF Contract!Work
    <3>2. CASE /\ net = NoNet /\ net' \in Net
               /\ closed' = IF NetReselect THEN closed \ {net'} ELSE closed
      <4>1. CASE NetReselect /\ net' \in Routable
        <5>1. (Routable \ closed)' = (Routable \ closed) \cup {net'}
          BY <1>2, <3>2, <4>1
        <5> QED BY <3>2, <4>1, <5>1 DEF Contract!Pick
      <4>2. CASE ~(NetReselect /\ net' \in Routable)
        <5>1. (Routable \ closed)' = Routable \ closed
          BY <1>2, <3>2, <4>2
        <5> QED BY <3>2, <5>1 DEF Contract!Pick
      <4> QED BY <4>1, <4>2
    <3>3. CASE net # NoNet /\ net' = NoNet /\ closed' = closed \cup {net}
      <4>1. (Routable \ closed)' = (Routable \ closed) \ {net}
        BY <1>2, <3>3
      <4> QED BY <3>3, <4>1 DEF Contract!Release
    <3> QED BY <2>2, <3>1, <3>2, <3>3
  <2>4. ~Ended(valid, d) => Contract!GoesOn
    <3> SUFFICES ASSUME ~Ended(valid, d) PROVE Contract!GoesOn
      OBVIOUS
    <3>1. step' < MaxSteps
      BY <1>2, StepType DEF TypeInv, StepsLeft, Running
    <3>2. Routable = {} \/ ~(Routable \subseteq closed')
      BY <2>1 DEF Ended, Terminated, AllNetsClosed
    <3>3. (Routable \ closed)' # {} \/ Routable \ closed = {}
      BY <1>2, <3>2
    <3> QED BY <3>1, <3>3 DEF Contract!GoesOn
  <2> QED BY <1>1, <1>2, <2>1, <2>3, <2>4 DEF Contract!Spend, Running
<1> QED BY <1>3, <1>4

LEMMA NextRefines ==
    ASSUME ~Search, TypeInv, EarlierInv, [Next]_vars
    PROVE  [Contract!Next]_Contract!vars
<1>1. ASSUME NEW K \in SUBSET Net, Reset(K) PROVE Contract!Begin
  <2>1. Routable' \subseteq Net
    BY BoardAssumption DEF Routable
  <2> QED BY <1>1, <2>1 DEF Reset, ResetBoard, Contract!Begin
<1>2. ASSUME NEW K \in SUBSET Net, ResetRaises(K) PROVE Contract!Refuse
  BY <1>2 DEF ResetRaises, ResetBoard, Contract!Refuse, Routable
<1>3. ASSUME NEW T \in TargetChoices, SetTargetNets(T) PROVE Contract!Retarget
  <2>1. Routable' \subseteq Net
    BY BoardAssumption DEF Routable
  <2> QED BY <1>3, <2>1 DEF SetTargetNets, Contract!Retarget, episode
<1>4. CASE Step
  BY <1>4, StepRefines DEF Contract!Next
<1>5. ~BeginSearch /\ ~EndSearch /\ ~RestoreRaises
  BY DEF BeginSearch, EndSearch, RestoreRaises, EarlierInv, NoSearch
<1>6. CASE UNCHANGED vars
  BY <1>6 DEF vars, engine, episode, client, Contract!vars, Routable
<1> QED BY <1>1, <1>2, <1>3, <1>4, <1>5, <1>6 DEF Next, Contract!Next

(* Whatever the router does, an episode keeps its contract.                *)
THEOREM ContractTheorem ==
    ASSUME ~Search
    PROVE  Spec => ImplementsContract
<1>1. Init => Contract!Init
  BY BoardAssumption, ConfigAssumption DEF Init, Contract!Init, Routable
<1>2. Spec => [](TypeInv /\ EarlierInv)
  BY EarlierInductive, TypesHold, PTL DEF Spec
<1> QED BY <1>1, <1>2, NextRefines, PTL DEF Spec, ImplementsContract, Contract!Spec
=============================================================================
