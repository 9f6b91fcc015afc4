----------------------------- MODULE EngineLink -----------------------------
(***************************************************************************)
(* The link between a KiCadEngine and its engine server: RouterProxy with  *)
(* its query cache and _ServerConn.request() (router_client.py).  Answers  *)
(* carry no request number: they are matched by their order in the socket. *)
(*                                                                         *)
(* The server is external: it executes the requests in order, answers each *)
(* one with a value or an error, and may die at any moment.  Its board and *)
(* routing session are one opaque content that every getter reads.         *)
(*                                                                         *)
(* Checkpoint.__del__ (env.py) calls release_checkpoint() from the garbage *)
(* collector.  With Reentry it may run while another call of the same      *)
(* engine waits for its answer.                                            *)
(***************************************************************************)
EXTENDS Sequences

CONSTANTS
    Content,     \* what a board and its session can be
    Query,       \* the getters
    Fixed,       \* those whose answer no call changes (_PERSISTENT_GETTERS)
    FixedValue,  \* that answer
    Mutator,     \* the other calls
    Tuner,       \* _NON_INVALIDATING
    None,        \* the result of a call that has none
    Missing,     \* no cache entry
    Reentry      \* a finalizer may run inside a call

ASSUME LinkAssumption ==
    /\ Fixed \subseteq Query
    /\ None \notin Content \cup {FixedValue}
    /\ Missing \notin Content \cup {FixedValue, None}
    /\ Mutator \cap Tuner = {}
    /\ {"get", "batch", "none"} \cap (Mutator \cup Tuner) = {}
    /\ "release_checkpoint" \in Mutator
    /\ Reentry \in BOOLEAN

VARIABLES
    board,    \* the content of the server
    up,       \* the server process runs
    wire,     \* requests sent and not yet executed
    answers,  \* answers sent and not yet read
    cache,    \* _cache and _persistent: a value or Missing
    call,     \* the call that waits for its answer
    fin,      \* the finalizer inside that call: none, waiting for an answer, done
    got,      \* the last call that returned, and its outcome
    seen,     \* the content as of that return
    crossed   \* history: a finalizer has run inside a call

vars == <<board, up, wire, answers, cache, call, fin, got, seen, crossed>>

NoCall == [op |-> "none", asks |-> {}]

Answer(q, b) == IF q \in Fixed THEN FixedValue ELSE b

Cached == {q \in Query : cache[q] # Missing}

\* set_routing_mode and a size setter as well.
NonInvalidating_Sizes == Tuner \cup {"set_track_width"}

NonInvalidating == Tuner

\* The mutable entries go before the request is sent; the persistent stay.
Forgotten(op) ==
    IF op \in {"get", "batch"} \cup NonInvalidating THEN cache
    ELSE [q \in Query |-> IF q \in Fixed THEN cache[q] ELSE Missing]

Outcome(c, o) == [op |-> c.op, asks |-> c.asks, out |-> o]

-----------------------------------------------------------------------------
Init ==
    /\ board \in Content /\ seen = board /\ up = TRUE
    /\ wire = <<>> /\ answers = <<>>
    /\ cache = [q \in Query |-> Missing]
    /\ call = NoCall /\ fin = "none" /\ crossed = FALSE
    /\ got = [op |-> "none", asks |-> {}, out |-> None]

Send(c) ==
    /\ call = NoCall
    /\ call' = c /\ wire' = Append(wire, c.op)
    /\ cache' = Forgotten(c.op)
    /\ UNCHANGED <<board, up, answers, fin, got, seen, crossed>>

\* A getter whose answer is cached costs no request.
Hit(q) ==
    /\ call = NoCall /\ q \in Cached
    /\ got' = [op |-> "get", asks |-> {q}, out |-> cache[q]]
    /\ UNCHANGED <<board, up, wire, answers, cache, call, fin, seen, crossed>>

Get(q) == q \notin Cached /\ Send([op |-> "get", asks |-> {q}])

\* batch_prewarm(): one request for the getters that are not cached.
Prewarm(Q) == Q \ Cached # {} /\ Send([op |-> "batch", asks |-> Q \ Cached])

Change(m) == Send([op |-> m, asks |-> {}])

-----------------------------------------------------------------------------
(* The server executes one request: a mutator may change the board whether *)
(* it succeeds or raises.                                                  *)
Serve ==
    /\ up /\ wire # <<>>
    /\ wire' = Tail(wire)
    /\ board' \in IF Head(wire) \in Mutator \ {"release_checkpoint"} THEN Content ELSE {board}
    /\ \E ok \in BOOLEAN :
         answers' = Append(answers,
             [ok |-> ok,
              val |-> IF ok /\ Head(wire) \in {"get", "batch"} THEN board ELSE None])
    /\ UNCHANGED <<up, cache, call, fin, got, seen, crossed>>

\* A fatal signal; what it has already answered can still be read.
Crash ==
    /\ up /\ up' = FALSE /\ wire' = <<>>
    /\ UNCHANGED <<board, answers, cache, call, fin, got, seen, crossed>>

\* What the answer a is to the getter q: None if it is that of a mutator.
Value(q, a) == IF a.val = None THEN None ELSE Answer(q, a.val)

Stored(c, a) ==
    [q \in Query |-> IF q \in c.asks THEN Value(q, a) ELSE cache[q]]

Raised_NoneOk(c, a) == c.op = "batch" /\ a.val = None

\* An error answer, or the None of another call in the loop of batch_prewarm.
Raised(c, a) == ~a.ok \/ (c.op = "batch" /\ a.val = None)

(* The waiting call reads the next answer; a getter caches it.             *)
Receive ==
    /\ call # NoCall /\ fin # "waits" /\ answers # <<>>
    /\ LET a == Head(answers) IN
         IF Raised(call, a)
         THEN got' = Outcome(call, "raised") /\ UNCHANGED cache
         ELSE /\ cache' = Stored(call, a)
              /\ \/ call.op # "get" /\ got' = Outcome(call, None)
                 \/ \E q \in call.asks :
                       call.op = "get" /\ got' = Outcome(call, Value(q, a))
    /\ answers' = Tail(answers) /\ call' = NoCall /\ fin' = "none" /\ seen' = board
    /\ UNCHANGED <<board, up, wire, crossed>>

EndOfStream_Ignored == ~up /\ answers = <<>> /\ wire # <<>>

\* recv() returns nothing: the server is gone and all its answers are read.
EndOfStream == ~up /\ answers = <<>>

\* EngineServerCrashed: at this call and at each later one.
CallCrashes ==
    /\ call # NoCall /\ fin # "waits" /\ EndOfStream
    /\ call' = NoCall /\ fin' = "none" /\ wire' = <<>>
    /\ got' = Outcome(call, "crashed")
    /\ UNCHANGED <<board, up, answers, cache, seen, crossed>>

-----------------------------------------------------------------------------
(* The collector finalizes a checkpoint between the send and the receive   *)
(* of a call: a complete request of its own.  Bound: one in each call.     *)
Finalize ==
    /\ Reentry /\ call # NoCall /\ fin = "none"
    /\ fin' = "waits" /\ crossed' = TRUE
    /\ wire' = Append(wire, "release_checkpoint")
    /\ cache' = Forgotten("release_checkpoint")
    /\ UNCHANGED <<board, up, answers, call, got, seen>>

\* It reads the next answer; __del__ swallows an error it carries.
FinalizerReceives ==
    /\ fin = "waits" /\ (answers # <<>> \/ EndOfStream)
    /\ fin' = "done"
    /\ answers' = IF answers = <<>> THEN <<>> ELSE Tail(answers)
    /\ wire' = IF up THEN wire ELSE <<>>
    /\ UNCHANGED <<board, up, cache, call, got, seen, crossed>>

-----------------------------------------------------------------------------
Next ==
    \/ \E q \in Query : Hit(q) \/ Get(q)
    \/ \E Q \in SUBSET Query : Prewarm(Q)
    \/ \E m \in Mutator \cup Tuner : Change(m)
    \/ Serve \/ Crash
    \/ Receive \/ CallCrashes
    \/ Finalize \/ FinalizerReceives

Spec == Init /\ [][Next]_vars

\* The server executes what it has received and the client reads it, there
\* is no timeout on either side.
FairSpec ==
    Spec /\ WF_vars(Serve) /\ WF_vars(FinalizerReceives \/ Receive \/ CallCrashes)

-----------------------------------------------------------------------------
(* Properties.                                                             *)

(* router_client.py: method-call semantics are otherwise identical to the  *)
(* pybind object, the cache and the socket notwithstanding, while no       *)
(* finalizer has run inside a call.                                        *)
Local == INSTANCE LocalRouter WITH content <- seen

ImplementsLocalRouter ==
    Local!Init /\ [][crossed' \/ Local!Next]_<<seen, got>>

(* A call returns or raises: a server that dies at any point of a request  *)
(* never leaves its caller waiting.                                        *)
CallReturns == call # NoCall ~> call = NoCall
=============================================================================
