---------------------------- MODULE LocalRouter -----------------------------
(***************************************************************************)
(* What KiCadEngine expects of its router: the pybind object of the        *)
(* in-process mode.  Every call is atomic and its outcome is the one of    *)
(* the board at that moment.  A router that died raises and changes        *)
(* nothing any more.                                                       *)
(***************************************************************************)
CONSTANTS
    Content,    \* what the board and the routing session can be
    Query,      \* the getter calls, a name with its arguments
    Fixed,      \* the ones whose answer cannot change
    FixedValue,
    Mutator,    \* calls that may change the board or the session
    Tuner,      \* calls that change nothing a getter reads
    None

VARIABLES content, got

Answer(q, b) == IF q \in Fixed THEN FixedValue ELSE b

Init == content \in Content /\ got = [op |-> "none", asks |-> {}, out |-> None]

Get(q) ==
    /\ got' = [op |-> "get", asks |-> {q}, out |-> Answer(q, content)]
    /\ UNCHANGED content

Prewarm(Q) ==
    /\ got' = [op |-> "batch", asks |-> Q, out |-> None]
    /\ UNCHANGED content

Mutate(m) ==
    /\ content' \in Content
    /\ got' \in {[op |-> m, asks |-> {}, out |-> o] : o \in {None, "raised"}}

Tune(m) ==
    /\ got' = [op |-> m, asks |-> {}, out |-> None]
    /\ UNCHANGED content

\* A call that raises, or that finds the router dead.
Raise(op, Q) ==
    /\ got' \in {[op |-> op, asks |-> Q, out |-> o] : o \in {"raised", "crashed"}}
    /\ UNCHANGED content

Next ==
    \/ \E q \in Query : Get(q) \/ Raise("get", {q})
    \/ \E Q \in SUBSET Query : Prewarm(Q) \/ Raise("batch", Q)
    \/ \E m \in Mutator : Mutate(m) \/ Raise(m, {})
    \/ \E m \in Tuner : Tune(m) \/ Raise(m, {})

Spec == Init /\ [][Next]_<<content, got>>
=============================================================================
