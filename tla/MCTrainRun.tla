----------------------------- MODULE MCTrainRun -----------------------------
(* Three boards, and two runs that are interrupted and resumed. *)
EXTENDS TrainRun

ThreeShuffles == <<<<0, 1, 2>>, <<2, 0, 1>>, <<1, 2, 0>>>>
SomeDraws     == <<0, 2, 2, 1, 0, 1, 1>>

Arguments(async, order, n, freq, every, gate, cap) ==
    [async_val |-> async, boards_order |-> order, iterations |-> n,
     save_freq |-> freq, eval_every |-> every, gate |-> gate, cap |-> cap]

\* A run that a watcher validates, and a longer one that validates inline and
\* whose critic warm-up the gate extends.
MixedRuns ==
    {Arguments(TRUE, "per_env_epoch", 2, 1, 1, TRUE, 1),
     Arguments(FALSE, "per_env_random", 3, 1, 3, TRUE, 3)}
=============================================================================
