-------------------------- MODULE EngineLinkProofs --------------------------
(***************************************************************************)
(* The link implements LocalRouter: whatever is cached, forgotten or cut   *)
(* off by a death of the server, every call that returns has the outcome   *)
(* of an atomic call on the board of that moment, as long as no finalizer  *)
(* has run inside a call.  With one request at a time there is at most one *)
(* message in the socket, and it is of the call that waits.                *)
(***************************************************************************)
EXTENDS EngineLink, TLAPS

Reply == [ok : BOOLEAN, val : Content \cup {None}]

\* The calls a client makes.
Calls ==
    {[op |-> "get", asks |-> {q}] : q \in Query}
      \cup {[op |-> "batch", asks |-> Q] : Q \in SUBSET Query}
      \cup {[op |-> m, asks |-> {}] : m \in Mutator \cup Tuner}

TypeOK ==
    /\ board \in Content /\ seen \in Content
    /\ up \in BOOLEAN /\ crossed \in BOOLEAN
    /\ call \in Calls \cup {NoCall} /\ answers \in Seq(Reply)
    /\ cache \in [Query -> Content \cup {FixedValue, None, Missing}]

\* What a call reads if it only reads.
Reads(op) == op \notin Mutator \ {"release_checkpoint"}

\* The answer of the server to a request with its board as it is now.
AnswerTo(op, a) ==
    /\ a \in Reply
    /\ a.val = IF a.ok /\ op \in {"get", "batch"} THEN board ELSE None

\* The three states of a call: requested, answered, and cut off.
Requested == wire = <<call.op>> /\ answers = <<>> /\ board = seen

Answered ==
    /\ wire = <<>> /\ (Reads(call.op) => board = seen)
    /\ \E a \in Reply : answers = <<a>> /\ AnswerTo(call.op, a)

CutOff == ~up /\ wire = <<>> /\ answers = <<>> /\ board = seen

Idle == wire = <<>> /\ answers = <<>> /\ board = seen

SocketInv == IF call = NoCall THEN Idle ELSE Requested \/ Answered \/ CutOff

\* A cached answer is that of the board the last call has seen; while a
\* mutator waits nothing is cached that it could make stale.
CacheInv ==
    \A q \in Cached :
        /\ cache[q] = Answer(q, seen)
        /\ call.op \in Mutator => q \in Fixed

LinkInv == ~crossed => fin = "none" /\ SocketInv /\ CacheInv

IInv == TypeOK /\ LinkInv

-----------------------------------------------------------------------------
(* Calls and answers.                                                      *)

(* The operation of a call says what it asks for, and is not "none".       *)
LEMMA CallShape ==
    ASSUME NEW c \in Calls
    PROVE  /\ c = [op |-> c.op, asks |-> c.asks] /\ c # NoCall
           /\ c.asks \subseteq Query
           /\ \/ c.op = "get" /\ \E q \in Query : c.asks = {q}
              \/ c.op = "batch"
              \/ c.op \in Mutator \cup Tuner /\ c.asks = {}
           /\ c.op \in Mutator => c.op \notin {"get", "batch"} \cup Tuner
  BY LinkAssumption DEF Calls, NoCall

(* What a getter makes of an answer that is a board or None.               *)
LEMMA ValueType ==
    ASSUME NEW q \in Query, NEW a \in Reply
    PROVE  /\ Value(q, a) \in Content \cup {FixedValue, None}
           /\ a.val # None => Value(q, a) = Answer(q, a.val)
  BY LinkAssumption DEF Value, Answer, Reply

LEMMA ForgottenType ==
    ASSUME TypeOK, NEW op
    PROVE  /\ Forgotten(op) \in [Query -> Content \cup {FixedValue, None, Missing}]
           /\ \A q \in Query : Forgotten(op)[q] # Missing =>
                 /\ Forgotten(op)[q] = cache[q]
                 /\ op \in {"get", "batch"} \cup Tuner \/ q \in Fixed
  BY DEF Forgotten, NonInvalidating, TypeOK

(* The first answer is a reply, and so are the others.                     *)
LEMMA FirstAnswer ==
    ASSUME TypeOK, answers # <<>>
    PROVE  Head(answers) \in Reply /\ Tail(answers) \in Seq(Reply)
  BY DEF TypeOK

LEMMA StoredType ==
    ASSUME TypeOK, NEW a \in Reply
    PROVE  Stored(call, a) \in [Query -> Content \cup {FixedValue, None, Missing}]
<1>1. \A q \in Query : Value(q, a) \in Content \cup {FixedValue, None}
  BY ValueType
<1> QED BY <1>1 DEF Stored, TypeOK

-----------------------------------------------------------------------------
(* Type correctness.                                                       *)

LEMMA SendType ==
    ASSUME TypeOK, NEW c \in Calls, Send(c)
    PROVE  TypeOK'
  BY ForgottenType DEF Send, TypeOK

LEMMA ServeType ==
    ASSUME TypeOK, Serve
    PROVE  TypeOK'
<1>1. board' \in Content
  BY DEF Serve, TypeOK
<1>2. PICK ok \in BOOLEAN :
         answers' = Append(answers,
             [ok |-> ok,
              val |-> IF ok /\ Head(wire) \in {"get", "batch"} THEN board ELSE None])
  BY DEF Serve
<1>3. [ok |-> ok, val |-> IF ok /\ Head(wire) \in {"get", "batch"} THEN board ELSE None]
         \in Reply
  BY DEF Reply, TypeOK
<1>4. answers' \in Seq(Reply)
  BY <1>2, <1>3 DEF TypeOK
<1> QED BY <1>1, <1>4 DEF Serve, TypeOK

LEMMA TypeStep ==
    ASSUME TypeOK, [Next]_vars
    PROVE  TypeOK'
<1>1. ASSUME NEW q \in Query, Hit(q) PROVE TypeOK'
  BY <1>1 DEF Hit, TypeOK
<1>2. ASSUME NEW q \in Query, Get(q) PROVE TypeOK'
  BY <1>2, SendType DEF Get, Calls
<1>3. ASSUME NEW Q \in SUBSET Query, Prewarm(Q) PROVE TypeOK'
  <2>1. [op |-> "batch", asks |-> Q \ Cached] \in Calls
    BY DEF Calls
  <2> QED BY <1>3, <2>1, SendType DEF Prewarm
<1>4. ASSUME NEW m \in Mutator \cup Tuner, Change(m) PROVE TypeOK'
  BY <1>4, SendType DEF Change, Calls
<1>5. CASE Serve
  BY <1>5, ServeType
<1>6. CASE Crash
  BY <1>6 DEF Crash, TypeOK
<1>7. CASE Receive
  BY <1>7, FirstAnswer, StoredType DEF Receive, TypeOK
<1>8. CASE CallCrashes
  BY <1>8 DEF CallCrashes, TypeOK
<1>9. CASE Finalize
  BY <1>9, ForgottenType DEF Finalize, TypeOK
<1>10. CASE FinalizerReceives
  BY <1>10, FirstAnswer DEF FinalizerReceives, TypeOK
<1>11. CASE UNCHANGED vars
  BY <1>11 DEF vars, TypeOK
<1> QED
  BY <1>1, <1>2, <1>3, <1>4, <1>5, <1>6, <1>7, <1>8, <1>9, <1>10, <1>11 DEF Next

-----------------------------------------------------------------------------
(* The socket and the caches, step by step.                                *)

(* Before a request is sent the cache is that of the board; what it keeps  *)
(* is what the request does not make stale.                                *)
LEMMA LinkSend ==
    ASSUME IInv, NEW c \in Calls, Send(c)
    PROVE  LinkInv'
<1> SUFFICES ASSUME ~crossed'
             PROVE  fin' = "none" /\ SocketInv' /\ CacheInv'
  BY DEF LinkInv
<1>1. ~crossed /\ call = NoCall /\ call' = c /\ c # NoCall
  BY CallShape DEF Send
<1>2. fin' = "none" /\ Idle /\ CacheInv
  BY <1>1 DEF IInv, LinkInv, SocketInv, Send
<1>3. Requested'
  BY <1>1, <1>2 DEF Idle, Requested, Send
<1>4. CacheInv'
  <2> SUFFICES ASSUME NEW q \in Query, cache'[q] # Missing
               PROVE  /\ cache'[q] = Answer(q, seen')
                      /\ call'.op \in Mutator => q \in Fixed
    BY DEF CacheInv, Cached
  <2>1. cache' = Forgotten(c.op) /\ seen' = seen
    BY DEF Send
  <2>2. /\ cache'[q] = cache[q]
        /\ c.op \in {"get", "batch"} \cup Tuner \/ q \in Fixed
    BY <2>1, ForgottenType DEF IInv
  <2>3. cache[q] = Answer(q, seen)
    BY <1>2, <2>2 DEF CacheInv, Cached
  <2>4. c.op \in Mutator => c.op \notin {"get", "batch"} \cup Tuner
    BY CallShape
  <2> QED BY <1>1, <2>1, <2>2, <2>3, <2>4
<1> QED BY <1>1, <1>2, <1>3, <1>4 DEF SocketInv

(* The server answers the one request there is, with its board before it   *)
(* executes a mutator.                                                     *)
LEMMA LinkServe ==
    ASSUME IInv, Serve
    PROVE  LinkInv'
<1> SUFFICES ASSUME ~crossed'
             PROVE  fin' = "none" /\ SocketInv' /\ CacheInv'
  BY DEF LinkInv
<1>1. ~crossed /\ wire # <<>> /\ call' = call /\ cache' = cache /\ seen' = seen
  BY DEF Serve
<1>2. fin' = "none" /\ SocketInv /\ CacheInv
  BY <1>1 DEF IInv, LinkInv, Serve
<1>3. call # NoCall /\ Requested
  BY <1>1, <1>2 DEF SocketInv, Idle, Answered, CutOff
<1>4. Head(wire) = call.op /\ wire' = <<>>
  BY <1>3 DEF Requested, Serve
<1>5. PICK a \in Reply :
         /\ answers' = <<a>>
         /\ a.val = IF a.ok /\ call.op \in {"get", "batch"} THEN board ELSE None
  <2>1. PICK ok \in BOOLEAN :
           answers' = <<[ok |-> ok,
                         val |-> IF ok /\ call.op \in {"get", "batch"} THEN board ELSE None]>>
    BY <1>3, <1>4 DEF Requested, Serve
  <2>2. [ok |-> ok, val |-> IF ok /\ call.op \in {"get", "batch"} THEN board ELSE None]
           \in Reply
    BY DEF Reply, IInv, TypeOK
  <2> QED BY <2>1, <2>2
<1>6. /\ Reads(call.op) => board' = board
      /\ call.op \in {"get", "batch"} => board' = board
  BY <1>4, LinkAssumption DEF Serve, Reads
<1>7. Answered'
  <2>1. a \in Reply /\ answers' = <<a>>
        /\ a.val = IF a.ok /\ call'.op \in {"get", "batch"} THEN board' ELSE None
    BY <1>1, <1>5, <1>6
  <2>2. Reads(call'.op) => board' = seen'
    BY <1>1, <1>3, <1>6 DEF Requested
  <2> QED BY <1>4, <2>1, <2>2 DEF Answered, AnswerTo, Reads
<1>8. CacheInv'
  BY <1>1, <1>2 DEF CacheInv, Cached
<1> QED BY <1>1, <1>2, <1>3, <1>7, <1>8 DEF SocketInv

(* A call that returns has seen the board as it is now, and its answer is  *)
(* of that board.                                                          *)
LEMMA LinkReceive ==
    ASSUME IInv, ~crossed, Receive
    PROVE  /\ LinkInv' /\ seen' = board /\ board \in Content
           /\ call \in Calls /\ (Reads(call.op) => board = seen)
           /\ \/ got' = Outcome(call, "raised")
              \/ call.op = "get" /\ \E q \in call.asks : got' = Outcome(call, Answer(q, board))
              \/ call.op # "get" /\ got' = Outcome(call, None)
<1>1. /\ fin = "none" /\ SocketInv /\ CacheInv /\ TypeOK
      /\ call # NoCall /\ call \in Calls /\ answers # <<>>
  BY DEF IInv, LinkInv, Receive, TypeOK
<1>2. Answered
  BY <1>1 DEF SocketInv, Requested, CutOff
<1>3. PICK a \in Reply : answers = <<a>> /\ AnswerTo(call.op, a)
  BY <1>2 DEF Answered
<1>4. Head(answers) = a /\ Tail(answers) = <<>>
  BY <1>3
<1>5. /\ wire' = <<>> /\ answers' = <<>> /\ call' = NoCall /\ fin' = "none"
      /\ seen' = board /\ board' = board
  BY <1>2, <1>4 DEF Answered, Receive
<1>6. (Reads(call.op) => board = seen) /\ board \in Content
  BY <1>1, <1>2 DEF Answered, TypeOK
<1>7. SocketInv' /\ fin' = "none"
  BY <1>5 DEF SocketInv, Idle
\* Entries that were cached before are still right.
<1>8. ASSUME NEW q \in Query, cache[q] # Missing
      PROVE  cache[q] = Answer(q, board)
  <2>1. cache[q] = Answer(q, seen) /\ (call.op \in Mutator => q \in Fixed)
    BY <1>1, <1>8 DEF CacheInv, Cached
  <2>2. CASE call.op \in Mutator
    BY <2>1, <2>2 DEF Answer
  <2>3. CASE call.op \notin Mutator
    BY <1>6, <2>1, <2>3 DEF Reads
  <2> QED BY <2>2, <2>3
<1>9. CASE Raised(call, a)
  <2>1. got' = Outcome(call, "raised") /\ cache' = cache
    BY <1>4, <1>9 DEF Receive
  <2>2. CacheInv'
    BY <1>5, <1>8, <2>1, LinkAssumption DEF CacheInv, Cached, NoCall
  <2> QED BY <1>1, <1>5, <1>6, <1>7, <2>1, <2>2 DEF LinkInv
<1>10. CASE ~Raised(call, a)
  <2>1. /\ cache' = Stored(call, a)
        /\ \/ call.op # "get" /\ got' = Outcome(call, None)
           \/ \E q \in call.asks : call.op = "get" /\ got' = Outcome(call, Value(q, a))
    BY <1>4, <1>10 DEF Receive
  <2>2. a.ok /\ (call.op \in {"get", "batch"} => a.val = board /\ a.val # None)
    BY <1>3, <1>6, <1>10, LinkAssumption DEF Raised, AnswerTo
  <2>3. ASSUME NEW q \in call.asks PROVE Value(q, a) = Answer(q, board) /\ q \in Query
    <3>1. call.op \in {"get", "batch"} /\ q \in Query
      BY <1>1, <2>3, CallShape
    <3> QED BY <2>2, <3>1, ValueType
  <2>4. CacheInv'
    <3> SUFFICES ASSUME NEW q \in Query, cache'[q] # Missing
                 PROVE  cache'[q] = Answer(q, board) /\ NoCall.op \notin Mutator
      BY <1>5 DEF CacheInv, Cached
    <3>1. cache'[q] = IF q \in call.asks THEN Value(q, a) ELSE cache[q]
      BY <2>1 DEF Stored
    <3> QED BY <1>8, <2>3, <3>1, LinkAssumption DEF NoCall
  <2> QED BY <1>1, <1>5, <1>6, <1>7, <2>1, <2>3, <2>4 DEF LinkInv
<1> QED BY <1>9, <1>10

(* The call whose answer is lost leaves the socket empty.                  *)
LEMMA LinkCrashes ==
    ASSUME IInv, ~crossed, CallCrashes
    PROVE  LinkInv' /\ call \in Calls
<1>1. /\ fin = "none" /\ SocketInv /\ CacheInv /\ TypeOK
      /\ call # NoCall /\ call \in Calls /\ answers = <<>>
  BY DEF IInv, LinkInv, CallCrashes, EndOfStream, TypeOK
<1>2. board = seen
  BY <1>1 DEF SocketInv, Requested, Answered, CutOff
<1>3. SocketInv'
  BY <1>1, <1>2 DEF CallCrashes, SocketInv, Idle
<1>4. CacheInv'
  BY <1>1, LinkAssumption DEF CallCrashes, CacheInv, Cached, NoCall
<1> QED BY <1>1, <1>3, <1>4 DEF LinkInv, CallCrashes

LEMMA LinkStep ==
    ASSUME IInv, [Next]_vars
    PROVE  LinkInv'
<1>1. ASSUME NEW q \in Query, Hit(q) PROVE LinkInv'
  BY <1>1 DEF Hit, IInv, LinkInv, SocketInv, Idle, Requested, Answered, AnswerTo, CutOff,
              CacheInv, Cached
<1>2. ASSUME NEW q \in Query, Get(q) PROVE LinkInv'
  BY <1>2, LinkSend DEF Get, Calls
<1>3. ASSUME NEW Q \in SUBSET Query, Prewarm(Q) PROVE LinkInv'
  <2>1. [op |-> "batch", asks |-> Q \ Cached] \in Calls
    BY DEF Calls
  <2> QED BY <1>3, <2>1, LinkSend DEF Prewarm
<1>4. ASSUME NEW m \in Mutator \cup Tuner, Change(m) PROVE LinkInv'
  BY <1>4, LinkSend DEF Change, Calls
<1>5. CASE Serve
  BY <1>5, LinkServe
<1>6. CASE Crash
  BY <1>6 DEF Crash, IInv, LinkInv, SocketInv, Idle, Requested, Answered, AnswerTo, CutOff,
              CacheInv, Cached
<1>7. CASE Receive
  BY <1>7, LinkReceive DEF Receive, LinkInv
<1>8. CASE CallCrashes
  BY <1>8, LinkCrashes DEF CallCrashes, LinkInv
<1>9. CASE Finalize
  BY <1>9 DEF Finalize, LinkInv
<1>10. CASE FinalizerReceives
  BY <1>10 DEF FinalizerReceives, IInv, LinkInv
<1>11. CASE UNCHANGED vars
  BY <1>11 DEF vars, IInv, LinkInv, SocketInv, Idle, Requested, Answered, AnswerTo, CutOff,
               CacheInv, Cached
<1> QED
  BY <1>1, <1>2, <1>3, <1>4, <1>5, <1>6, <1>7, <1>8, <1>9, <1>10, <1>11 DEF Next

LEMMA LinkInvariant == Spec => []IInv
<1>1. Init => IInv
  <2> SUFFICES ASSUME Init PROVE IInv
    OBVIOUS
  <2>1. TypeOK
    <3>1. answers \in Seq(Reply) /\ cache \in [Query -> Content \cup {FixedValue, None, Missing}]
      BY DEF Init
    <3>2. up \in BOOLEAN /\ crossed \in BOOLEAN
      BY Zenon DEF Init
    <3> QED BY <3>1, <3>2 DEF Init, TypeOK
  <2>2. LinkInv
    BY DEF Init, LinkInv, SocketInv, Idle, CacheInv, Cached
  <2> QED BY <2>1, <2>2 DEF IInv
<1>2. IInv /\ [Next]_vars => IInv'
  BY TypeStep, LinkStep DEF IInv
<1> QED BY <1>1, <1>2, PTL DEF Spec

-----------------------------------------------------------------------------
(* The refinement: a call takes place when it returns.                     *)

LEMMA HitIsGet ==
    ASSUME IInv, ~crossed, NEW q \in Query, Hit(q)
    PROVE  Local!Get(q)
<1>1. cache[q] = Answer(q, seen) /\ seen' = seen
  BY DEF IInv, LinkInv, CacheInv, Hit
<1> QED BY <1>1 DEF Hit, Local!Get, Local!Answer, Answer

LEMMA ReceiveIsCall ==
    ASSUME IInv, ~crossed, Receive
    PROVE  Local!Next
<1>1. /\ seen' = board /\ board \in Content
      /\ call \in Calls /\ (Reads(call.op) => board = seen)
      /\ \/ got' = Outcome(call, "raised")
         \/ call.op = "get" /\ \E q \in call.asks : got' = Outcome(call, Answer(q, board))
         \/ call.op # "get" /\ got' = Outcome(call, None)
  BY LinkReceive
<1>2. CASE call.op \in Mutator
  <2>1. call.asks = {} /\ call.op # "get"
    BY <1>1, <1>2, CallShape, LinkAssumption
  <2>2. Local!Mutate(call.op)
    BY <1>1, <2>1 DEF Outcome, Local!Mutate
  <2> QED BY <1>2, <2>2 DEF Local!Next
<1>3. CASE call.op \in Tuner
  <2>1. call.asks = {} /\ call.op # "get" /\ seen' = seen
    BY <1>1, <1>3, CallShape, LinkAssumption DEF Reads
  <2>2. Local!Tune(call.op) \/ Local!Raise(call.op, {})
    BY <1>1, <2>1 DEF Outcome, Local!Tune, Local!Raise
  <2> QED BY <1>3, <2>2 DEF Local!Next
<1>4. CASE call.op = "batch"
  <2>1. call.asks \in SUBSET Query /\ seen' = seen
    BY <1>1, <1>4, CallShape, LinkAssumption DEF Reads
  <2>2. Local!Prewarm(call.asks) \/ Local!Raise("batch", call.asks)
    BY <1>1, <1>4, <2>1 DEF Outcome, Local!Prewarm, Local!Raise
  <2> QED BY <2>1, <2>2 DEF Local!Next
<1>5. CASE call.op = "get"
  <2>1. PICK q \in Query : call.asks = {q}
    BY <1>1, <1>5, CallShape, LinkAssumption
  <2>2. seen' = seen /\ board = seen
    BY <1>1, <1>5, LinkAssumption DEF Reads
  <2>3. Local!Get(q) \/ Local!Raise("get", {q})
    BY <1>1, <1>5, <2>1, <2>2 DEF Outcome, Local!Get, Local!Raise, Local!Answer, Answer
  <2> QED BY <2>3 DEF Local!Next
<1> QED BY <1>1, <1>2, <1>3, <1>4, <1>5, CallShape

LEMMA CrashIsRaise ==
    ASSUME IInv, ~crossed, CallCrashes
    PROVE  Local!Next
<1>1. call \in Calls /\ seen' = seen /\ got' = Outcome(call, "crashed")
  BY LinkCrashes DEF CallCrashes
<1>2. Local!Raise(call.op, call.asks)
  BY <1>1 DEF Outcome, Local!Raise
<1> QED BY <1>1, <1>2, CallShape DEF Local!Next

(* Every step of the link is a call of LocalRouter or changes nothing a    *)
(* client sees, unless a finalizer has run inside a call.                  *)
LEMMA LinkRefines ==
    ASSUME IInv, [Next]_vars
    PROVE  crossed' \/ Local!Next \/ UNCHANGED <<seen, got>>
<1> SUFFICES ASSUME ~crossed' PROVE Local!Next \/ UNCHANGED <<seen, got>>
  OBVIOUS
<1>1. ASSUME NEW q \in Query, Hit(q) PROVE Local!Next
  <2>1. ~crossed
    BY <1>1 DEF Hit
  <2> QED BY <1>1, <2>1, HitIsGet DEF Local!Next
<1>2. ASSUME NEW q \in Query, Get(q) PROVE UNCHANGED <<seen, got>>
  BY <1>2 DEF Get, Send
<1>3. ASSUME NEW Q \in SUBSET Query, Prewarm(Q) PROVE UNCHANGED <<seen, got>>
  BY <1>3 DEF Prewarm, Send
<1>4. ASSUME NEW m \in Mutator \cup Tuner, Change(m) PROVE UNCHANGED <<seen, got>>
  BY <1>4 DEF Change, Send
<1>5. CASE Serve \/ Crash
  BY <1>5 DEF Serve, Crash
<1>6. CASE Receive
  BY <1>6, ReceiveIsCall DEF Receive
<1>7. CASE CallCrashes
  BY <1>7, CrashIsRaise DEF CallCrashes
<1>8. CASE Finalize \/ FinalizerReceives \/ UNCHANGED vars
  BY <1>8 DEF Finalize, FinalizerReceives, vars
<1> QED BY <1>1, <1>2, <1>3, <1>4, <1>5, <1>6, <1>7, <1>8 DEF Next

(* RouterProxy is a drop-in for the in-process router: with the cache, the *)
(* socket and a server that may die at any moment in between, each call    *)
(* still has the outcome it would have if it were executed at once.        *)
THEOREM LocalRouterTheorem == Spec => ImplementsLocalRouter
<1>1. Init => Local!Init
  BY DEF Init, Local!Init
<1>2. IInv /\ [Next]_vars => [crossed' \/ Local!Next]_<<seen, got>>
  BY LinkRefines
<1> QED BY <1>1, <1>2, LinkInvariant, PTL DEF Spec, ImplementsLocalRouter
=============================================================================
