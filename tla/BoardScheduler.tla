--------------------------- MODULE BoardScheduler ---------------------------
(***************************************************************************)
(* BoardScheduler (methods/_shared/board_scheduler.py): which boards an    *)
(* iteration of a training run gets.  The random generator is a counter:   *)
(* its k-th use gives Shuffles[k] or Draws[k], whoever makes it.           *)
(***************************************************************************)
EXTENDS Integers, Sequences

CONSTANTS
    NBoards,    \* the number of boards
    Shuffles,   \* the orders random.shuffle() gives, used cyclically
    Draws       \* the boards random.randrange() gives, used cyclically

Board == 0..NBoards - 1

ASSUME SchedulerAssumption ==
    /\ NBoards \in Nat \ {0}
    /\ Shuffles \in Seq(Seq(Board)) /\ Shuffles # <<>>
    /\ \A k \in 1..Len(Shuffles) : Len(Shuffles[k]) = NBoards
    /\ Draws \in Seq(Board) /\ Draws # <<>>

Modes == {"single", "round_robin", "per_env_random", "per_env_epoch"}

Cyclic(s, k) == s[((k - 1) % Len(s)) + 1]

\* The state state_dict() saves.
FreshScheduler == [iter_idx |-> -1, rng |-> 0, epoch_order |-> <<>>, epoch_pos |-> 0]

-----------------------------------------------------------------------------
(* next_indices(count), as the scheduler it leaves and the boards it gives. *)

Reshuffled(s) ==
    IF s.epoch_pos < Len(s.epoch_order) THEN s
    ELSE [s EXCEPT !.epoch_order = Cyclic(Shuffles, s.rng + 1), !.epoch_pos = 0,
                   !.rng = @ + 1]

\* One board off the top of the epoch.
Deal(x) ==
    LET s == Reshuffled(x.sched)
    IN [sched |-> [s EXCEPT !.epoch_pos = @ + 1],
        boards |-> Append(x.boards, s.epoch_order[s.epoch_pos + 1])]

\* What the loop has dealt after j boards.
Dealt(sched, count) ==
    LET x[j \in 0..count] ==
          IF j = 0 THEN [sched |-> sched, boards |-> <<>>] ELSE Deal(x[j - 1])
    IN x

NextIndices(mode, sched, count) ==
    LET s == [sched EXCEPT !.iter_idx = @ + 1] IN
    CASE mode = "single" ->
           [sched |-> s, boards |-> [j \in 1..count |-> 0]]
      [] mode = "round_robin" ->
           [sched |-> s, boards |-> [j \in 1..count |-> s.iter_idx % NBoards]]
      [] mode = "per_env_random" ->
           [sched |-> [s EXCEPT !.rng = @ + count],
            boards |-> [j \in 1..count |-> Cyclic(Draws, s.rng + j)]]
      [] mode = "per_env_epoch" ->
           Dealt(s, count)[count]

\* load_state_dict(), after a fresh scheduler has been built.
Loaded_NoRng(d) == [d EXCEPT !.rng = 0]

Loaded(d) == d

-----------------------------------------------------------------------------
(* What iteration i of a run that was never interrupted gets: the epochs   *)
(* are dealt one after the other, count boards at a time.                  *)
BoardsOf(mode, i, count) ==
    [j \in 1..count |->
       LET k == (i - 1) * count + j - 1 IN
       CASE mode = "single" -> 0
         [] mode = "round_robin" -> (i - 1) % NBoards
         [] mode = "per_env_random" -> Cyclic(Draws, k + 1)
         [] mode = "per_env_epoch" -> Cyclic(Shuffles, (k \div NBoards) + 1)[(k % NBoards) + 1]]
=============================================================================
