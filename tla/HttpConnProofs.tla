--------------------------- MODULE HttpConnProofs ---------------------------
(***************************************************************************)
(* One connection of the HTTP server, for any script of the peer, any      *)
(* limits and any cuts of its bytes.  Matched relates the answers accepted *)
(* to the requests dispatched at every point of the read loop; Ordered     *)
(* says where in the script the parser is, and what of the current request *)
(* its buffers hold.                                                       *)
(***************************************************************************)
EXTENDS HttpConn, FiniteSetTheorems, SequenceTheorems, TLAPS

IsSeq(s) == \E S : s \in Seq(S)

(* An answer belongs to the request of its place, or ends the connection.  *)
Belongs(i) ==
    IF i <= Len(dispatched) /\ answers[i].status # "generated"
    THEN answers[i].close = ~dispatched[i].keep_alive
    ELSE answers[i].close /\ answers[i].status \in {"400", "413", "generated"}

Generated == \E i \in 1..Len(answers) : answers[i].status = "generated"

(* Nothing is read for a generation, and only a parser that may go on is   *)
(* executed: then every request has its answer, and no answer is early.    *)
Flags == closing \in BOOLEAN /\ gen_owned \in BOOLEAN

Matched ==
    /\ Flags
    /\ IsSeq(answers) /\ IsSeq(dispatched)
    /\ \A i \in 1..Len(answers) : Belongs(i)
    /\ pc \in {"idle", "feed", "execute", "return"}
    /\ pc \in {"feed", "execute"} => ~gen_owned
    /\ pc = "execute" => ~closing /\ last_status \notin Stuck
    /\ ~closing /\ ~gen_owned => Len(answers) >= Len(dispatched)
    /\ ~closing /\ ~gen_owned /\ (last_status \notin Stuck \/ pc = "return")
          => Len(answers) = Len(dispatched)
    /\ Generated => gen_owned
    /\ gen_owned /\ ~Generated => Len(answers) = Len(dispatched) - 1
    /\ gen_owned => last_status = "COMPLETE"

-----------------------------------------------------------------------------
(* Appending one answer leaves the others where they are.                  *)
LEMMA Appended ==
  ASSUME NEW s, IsSeq(s), NEW a
  PROVE  /\ Len(Append(s, a)) = Len(s) + 1 /\ Len(s) \in Nat
         /\ \A i \in 1..Len(s) : Append(s, a)[i] = s[i]
         /\ Append(s, a)[Len(s) + 1] = a
         /\ IsSeq(Append(s, a))
<1>0. PICK S : s \in Seq(S)
  BY DEF IsSeq
<1>1. s \in Seq(S \cup {a}) /\ a \in S \cup {a}
  <2>1. Seq(S) \subseteq Seq(S \cup {a})
    OBVIOUS
  <2>2. QED
    BY <1>0, <2>1
<1>2. Append(s, a) \in Seq(S \cup {a})
  BY <1>1, AppendProperties
<1>3. QED
  BY <1>1, <1>2, AppendProperties, LenProperties DEF IsSeq

(* The domain of a sequence is where its elements are.                     *)
LEMMA SeqDomain ==
  ASSUME NEW s, IsSeq(s)
  PROVE  DOMAIN s = 1..Len(s) /\ Len(s) \in Nat
BY LenProperties DEF IsSeq

LEMMA InitMatched == Init => Matched
<1> SUFFICES ASSUME Init PROVE Matched
  OBVIOUS
<1>1. IsSeq(<<>>) /\ Len(<<>>) = 0
  <2>1. <<>> \in Seq({})
    OBVIOUS
  <2>2. QED
    BY <2>1 DEF IsSeq
<1>2. ~Generated /\ \A i \in 1..Len(answers) : Belongs(i)
  BY <1>1 DEF Init, Generated
<1>3. QED
  <2>1. IsSeq(answers) /\ IsSeq(dispatched) /\ Len(answers) = 0 /\ Len(dispatched) = 0
    BY <1>1 DEF Init
  <2>2. closing = FALSE /\ gen_owned = FALSE /\ pc = "idle"
    BY DEF Init
  <2>3. Flags
    BY <2>2 DEF Flags
  <2>4. QED
    BY <1>2, <2>1, <2>2, <2>3 DEF Matched

(* What a write or a response may come to.                                 *)
LEMMA QueueWriteDoes ==
  ASSUME NEW a, QueueWrite(a), closing \in BOOLEAN
  PROVE  /\ closing' \in BOOLEAN
         /\ \/ closing' /\ answers' = answers
            \/ ~closing /\ ~closing' /\ answers' = Append(answers, a)
<1>1. \/ closing /\ closing' = closing /\ answers' = answers
      \/ ~closing /\ closing' = closing /\ answers' = Append(answers, a)
      \/ closing' = TRUE /\ answers' = answers
  BY DEF QueueWrite, Close
<1>2. closing' \in BOOLEAN
  BY <1>1
<1>3. \/ closing' /\ answers' = answers
      \/ ~closing /\ ~closing' /\ answers' = Append(answers, a)
  BY <1>1
<1>4. QED
  BY <1>2, <1>3

LEMMA RespondDoes ==
  ASSUME NEW v, NEW c, Respond(v, c), closing \in BOOLEAN
  PROVE  /\ closing' \in BOOLEAN
         /\ \/ closing' /\ answers' = answers
            \/ ~closing /\ ~closing' /\ answers' = Append(answers, Answer(v, c))
BY QueueWriteDoes DEF Respond, Close

(* No handler answers as a generation does.                                *)
LEMMA HandlerStatus ==
  ASSUME NEW m, NEW p, NEW b, Matching(m, p) # {}, NEW v \in Handle(p, b)
  PROVE  v # "generated"
<1>1. p \in {Models, Embeddings, Chat, Completions}
  <2>1. PICK i \in DOMAIN Routes : Routes[i] = [method |-> m, path |-> p]
    BY DEF Matching
  <2>2. Routes[i].path = p
    BY <2>1
  <2>3. DOMAIN Routes = 1..4
    BY DEF Routes
  <2>4. i = 1 \/ i = 2 \/ i = 3 \/ i = 4
    BY <2>3
  <2>5. Routes[i].path \in {Models, Embeddings, Chat, Completions}
    BY <2>4 DEF Routes
  <2>6. QED
    BY <2>2, <2>5
<1>2. /\ \A x \in EmbeddingsVerdict(b) : x # "generated"
      /\ \A x \in ChatVerdict(b) : x # "generated"
      /\ \A x \in CompletionsVerdict(b) : x # "generated"
      /\ \A x \in {"200"} : x # "generated"
  BY DEF EmbeddingsVerdict, ChatVerdict, CompletionsVerdict, StartVerdict
<1>3. Models # Embeddings /\ Models # Chat /\ Models # Completions /\ Embeddings # Chat
      /\ Embeddings # Completions /\ Chat # Completions
  <2>1. /\ Models[2] = "models" /\ Embeddings[2] = "embeddings" /\ Chat[2] = "chat"
        /\ Completions[2] = "completions"
    BY DEF Models, Embeddings, Chat, Completions
  <2>2. QED
    BY <2>1
<1> HIDE DEF Models, Embeddings, Chat, Completions
<1>4. Handle(p, b) \in {{"200"}, EmbeddingsVerdict(b), ChatVerdict(b), CompletionsVerdict(b)}
  BY <1>1, <1>3 DEF Handle
<1>5. QED
  BY <1>2, <1>4

(* Steps that neither dispatch nor answer.                                 *)
LEMMA QuietMatched ==
  ASSUME Matched, UNCHANGED <<answers, dispatched, gen_owned, last_status>>,
         closing' \in BOOLEAN, closing => closing',
         \/ pc' = pc /\ (pc = "execute" => closing' = closing)
         \/ pc' = "idle"
         \/ pc' = "feed" /\ ~gen_owned /\ pc # "return"
         \/ pc' = "execute" /\ ~gen_owned /\ ~closing' /\ last_status \notin Stuck
  PROVE  Matched'
BY DEF Matched, Flags, Belongs, Generated

(* A refusal, after the answers of all requests.                           *)
LEMMA RefusalMatched ==
  ASSUME Matched, ~closing, ~gen_owned, pc' = "idle", UNCHANGED <<dispatched, gen_owned>>,
         last_status' \in Stuck, NEW v \in {"400", "413"}, Respond(v, TRUE)
  PROVE  Matched'
<1>0. closing' \in BOOLEAN
  BY RespondDoes DEF Matched, Flags
<1>1. CASE closing' /\ answers' = answers
  BY <1>0, <1>1 DEF Matched, Flags, Belongs, Generated
<1>2. CASE ~closing' /\ answers' = Append(answers, Answer(v, TRUE))
  <2> DEFINE a == Answer(v, TRUE)
             n == Len(answers)
  <2> HIDE DEF a
  <2>1. /\ Len(answers') = n + 1 /\ n \in Nat /\ (\A i \in 1..n : answers'[i] = answers[i])
        /\ answers'[n + 1] = a /\ IsSeq(answers')
    BY <1>2, Appended DEF Matched, Flags, a
  <2>2. a.close = TRUE /\ a.status = v
    BY DEF Answer, a
  <2>3. n >= Len(dispatched) /\ Len(dispatched) \in Nat
    BY SeqDomain DEF Matched, Flags
  <2> HIDE DEF a
  <2>4. ASSUME NEW i \in 1..(n + 1)  PROVE Belongs(i)'
    <3>1. CASE i \in 1..n
      <4>1. Belongs(i)
        BY <3>1 DEF Matched, Flags
      <4>2. QED
        BY <2>1, <3>1, <4>1 DEF Belongs
    <3>2. CASE i = n + 1
      <4>1. ~(i <= Len(dispatched))
        BY <2>1, <2>3, <3>2
      <4>2. QED
        BY <2>1, <2>2, <3>2, <4>1 DEF Belongs
    <3>3. QED
      BY <2>1, <3>1, <3>2
  <2>5. ~Generated'
    <3>1. ~Generated
      BY DEF Matched, Flags
    <3>2. \A i \in 1..(n + 1) : i \in 1..n \/ i = n + 1
      BY <2>1
    <3>3. QED
      BY <2>1, <2>2, <3>1, <3>2 DEF Generated
  <2>6. Flags'
    BY <1>0 DEF Matched, Flags
  <2>7. last_status' \in Stuck /\ ~gen_owned' /\ ~Generated' /\ pc' = "idle"
    BY <2>5
  <2>8. Len(answers') >= Len(dispatched') /\ IsSeq(dispatched') /\ IsSeq(answers')
    BY <2>1, <2>3 DEF Matched
  <2>9. \A i \in 1..Len(answers') : Belongs(i)'
    BY <2>1, <2>4
  <2>10. QED
    BY <2>6, <2>7, <2>8, <2>9 DEF Matched
<1>3. QED
  BY <1>1, <1>2, RespondDoes DEF Matched, Flags

(* dispatch: the request and, unless it is deferred, its answer.           *)
LEMMA DispatchMatched ==
  ASSUME Matched, NEW pr, ~closing, ~gen_owned, last_status \notin Stuck,
         dispatched' = Append(dispatched, pr), Dispatch(pr),
         last_status' = "COMPLETE", pc' = "return"
  PROVE  Matched'
<1> DEFINE n == Len(answers)
<1>1. n = Len(dispatched) /\ n \in Nat /\ ~Generated
  BY SeqDomain DEF Matched, Flags
<1>2. /\ Len(dispatched') = n + 1 /\ (\A i \in 1..n : dispatched'[i] = dispatched[i])
      /\ dispatched'[n + 1] = pr /\ IsSeq(dispatched')
  BY <1>1, Appended DEF Matched, Flags
<1>3. \/ gen_owned' = TRUE /\ closing' = closing /\ answers' = answers
      \/ gen_owned' = gen_owned /\ \E v : v # "generated" /\ Respond(v, ~pr.keep_alive)
  <2>1. "204" # "generated" /\ "405" # "generated" /\ "404" # "generated"
    OBVIOUS
  <2>2. ASSUME Matching(pr.method, pr.path) # {}, NEW v \in Handle(pr.path, pr.body)
        PROVE  v # "generated"
    BY <2>2, HandlerStatus
  <2>3. QED
    BY <2>1, <2>2 DEF Dispatch, WriteError
<1>7. /\ closing' \in BOOLEAN /\ gen_owned' \in BOOLEAN
      /\ \/ gen_owned' /\ ~closing' /\ answers' = answers
         \/ ~gen_owned' /\ closing' /\ answers' = answers
         \/ /\ ~gen_owned' /\ ~closing'
            /\ \E v : v # "generated" /\ answers' = Append(answers, Answer(v, ~pr.keep_alive))
  <2>1. closing \in BOOLEAN /\ gen_owned \in BOOLEAN
    BY DEF Matched, Flags
  <2>2. CASE gen_owned' = TRUE /\ closing' = closing /\ answers' = answers
    BY <2>1, <2>2
  <2>3. ASSUME gen_owned' = gen_owned, NEW v, v # "generated", Respond(v, ~pr.keep_alive)
        PROVE  /\ closing' \in BOOLEAN
               /\ \/ closing' /\ answers' = answers
                  \/ ~closing' /\ answers' = Append(answers, Answer(v, ~pr.keep_alive))
    BY <2>1, <2>3, RespondDoes
  <2>4. closing' \in BOOLEAN /\ gen_owned' \in BOOLEAN
    BY <1>3, <2>1, <2>2, <2>3
  <2>5. \/ gen_owned' /\ ~closing' /\ answers' = answers
        \/ ~gen_owned' /\ closing' /\ answers' = answers
        \/ /\ ~gen_owned' /\ ~closing'
           /\ \E v : v # "generated" /\ answers' = Append(answers, Answer(v, ~pr.keep_alive))
    BY <1>3, <2>1, <2>2, <2>3
  <2>6. QED
    BY <2>4, <2>5
<1>4. CASE answers' = answers
  <2>1. \A i \in 1..n : Belongs(i)'
    <3>1. \A i \in 1..n : Belongs(i) /\ i <= n /\ i <= n + 1
      BY <1>1 DEF Matched, Flags
    <3>2. QED
      BY <1>1, <1>2, <1>4, <3>1 DEF Belongs
  <2>2. ~Generated' /\ Len(answers') = Len(dispatched') - 1
    BY <1>1, <1>2, <1>4 DEF Generated
  <2>3. gen_owned' \/ closing'
    <3>1. \A v : answers # Append(answers, Answer(v, ~pr.keep_alive))
      <4>1. \A v : Len(Append(answers, Answer(v, ~pr.keep_alive))) = n + 1
        BY Appended DEF Matched, Flags
      <4>2. n + 1 # n
        BY <1>1
      <4>3. QED
        BY <4>1, <4>2
    <3>2. QED
      BY <1>4, <1>7, <3>1
  <2>4. QED
    BY <1>2, <1>4, <1>7, <2>1, <2>2, <2>3 DEF Matched, Flags
<1>5. ASSUME NEW v, v # "generated", answers' = Append(answers, Answer(v, ~pr.keep_alive)),
             ~gen_owned', ~closing'
      PROVE  Matched'
  <2> DEFINE a == Answer(v, ~pr.keep_alive)
  <2> HIDE DEF a
  <2>1. /\ Len(answers') = n + 1 /\ (\A i \in 1..n : answers'[i] = answers[i])
        /\ answers'[n + 1] = a /\ IsSeq(answers')
    BY <1>5, Appended DEF Matched, Flags, a
  <2>2. a.close = ~pr.keep_alive /\ a.status = v
    BY DEF Answer, a
  <2>3. ASSUME NEW i \in 1..(n + 1)  PROVE Belongs(i)' /\ answers'[i].status # "generated"
    <3>1. CASE i \in 1..n
      <4>1. Belongs(i) /\ i <= n /\ i <= n + 1 /\ answers[i].status # "generated"
        BY <1>1, <3>1 DEF Matched, Flags, Generated
      <4>2. QED
        BY <1>1, <1>2, <2>1, <3>1, <4>1 DEF Belongs
    <3>2. CASE i = n + 1
      <4>1. i <= n + 1
        BY <1>1, <3>2
      <4>2. QED
        BY <1>2, <1>5, <2>1, <2>2, <3>2, <4>1 DEF Belongs
    <3>3. QED
      BY <1>1, <3>1, <3>2
  <2>4. ~Generated'
    BY <2>1, <2>3 DEF Generated
  <2>5. QED
    BY <1>1, <1>2, <1>5, <1>7, <2>1, <2>3, <2>4 DEF Matched, Flags
<1>6. QED
  BY <1>4, <1>5, <1>7

LEMMA GenFinishMatched ==
  ASSUME Matched, GenFinish
  PROVE  Matched'
<1> DEFINE a == Answer("generated", TRUE)
           n == Len(answers)
<1>1. /\ pc = "idle" /\ pc' = "idle" /\ gen_owned /\ gen_owned' /\ ~closing
      /\ UNCHANGED <<dispatched, last_status>> /\ ~Generated
      /\ closing' \in BOOLEAN
      /\ \/ closing' /\ answers' = answers
         \/ ~closing' /\ answers' = Append(answers, a)
  <2>1. /\ pc = "idle" /\ pc' = "idle" /\ gen_owned /\ gen_owned' = gen_owned /\ ~closing
        /\ UNCHANGED <<dispatched, last_status>>
        /\ QueueWrite(a) \/ (closing' = TRUE /\ answers' = answers)
        /\ \A i \in DOMAIN answers : answers[i].status # "generated"
    BY DEF GenFinish, parser, Close
  <2>2. DOMAIN answers = 1..Len(answers)
    BY SeqDomain DEF Matched, Flags
  <2>3. ~Generated
    BY <2>1, <2>2 DEF Generated
  <2>4. QED
    BY <2>1, <2>3, QueueWriteDoes DEF Matched, Flags
<1>2. CASE closing' /\ answers' = answers
  BY <1>1, <1>2 DEF Matched, Flags, Belongs, Generated
<1>3. CASE ~closing' /\ answers' = Append(answers, a)
  <2> HIDE DEF a
  <2>1. /\ Len(answers') = n + 1 /\ n \in Nat /\ (\A i \in 1..n : answers'[i] = answers[i])
        /\ answers'[n + 1] = a /\ IsSeq(answers')
    BY <1>3, Appended DEF Matched, Flags, a
  <2>2. a.close = TRUE /\ a.status = "generated"
    BY DEF Answer, a
  <2>3. ASSUME NEW i \in 1..(n + 1)  PROVE Belongs(i)'
    <3>1. CASE i \in 1..n
      <4>1. Belongs(i)
        BY <3>1 DEF Matched, Flags
      <4>2. QED
        BY <1>1, <2>1, <3>1, <4>1 DEF Belongs
    <3>2. CASE i = n + 1
      BY <2>1, <2>2, <3>2 DEF Belongs
    <3>3. QED
      BY <2>1, <3>1, <3>2
  <2>4. Generated'
    <3>1. n + 1 \in 1..Len(answers')
      BY <2>1
    <3>2. QED
      BY <2>1, <2>2, <3>1 DEF Generated
  <2>5. QED
    BY <1>1, <1>3, <2>1, <2>3, <2>4 DEF Matched, Flags
<1>4. QED
  BY <1>1, <1>2, <1>3

LEMMA MatchedKept ==
  ASSUME Matched, [Next]_vars
  PROVE  Matched'
<1>1. CASE UNCHANGED vars
  BY <1>1, QuietMatched DEF vars, connection, history, parser, Matched, Flags
<1>2. ASSUME NEW n \in 1..ReadCap, OnRead(n)  PROVE Matched'
  BY <1>2, QuietMatched DEF OnRead, parser, connection, history, Matched, Flags
<1>3. CASE OnEof \/ OnWrite \/ OnConnClose
  <2>1. UNCHANGED <<answers, dispatched, gen_owned, last_status, pc>> /\ pc = "idle"
    BY <1>3 DEF OnEof, OnWrite, OnConnClose, parser, history
  <2>2. \/ closing' = closing \/ closing' = TRUE
        \/ \E ok \in BOOLEAN : closing' = (closing \/ ~ok \/ Head(writes))
    BY <1>3 DEF OnEof, OnWrite, OnConnClose, Close
  <2>3. closing' \in BOOLEAN
    BY <2>2 DEF Matched, Flags
  <2>4. closing => closing'
    BY <2>2
  <2>5. QED
    BY <2>1, <2>3, <2>4, QuietMatched
<1>4. CASE LoopEnds \/ FeedIncomplete
  BY <1>4, QuietMatched DEF LoopEnds, FeedIncomplete, Leave, parser, connection, history, Matched, Flags
<1>5. CASE FeedExecute \/ Execute
  <2>1. /\ UNCHANGED <<answers, dispatched, gen_owned, last_status, closing>>
        /\ \/ pc' = pc
           \/ pc = "feed" /\ pc' = "execute" /\ ~closing /\ last_status \notin Stuck
    BY <1>5 DEF FeedExecute, Execute, connection, history
  <2>2. QED
    BY <2>1, QuietMatched DEF Matched, Flags
<1>6. CASE FeedSticky
  <2>1. /\ ~closing /\ ~gen_owned /\ pc' = "idle" /\ last_status \in Stuck
        /\ UNCHANGED <<dispatched, gen_owned, last_status>>
    BY <1>6 DEF FeedSticky, Leave, parser, Matched, Flags
  <2>2. \/ UNCHANGED <<closing, answers>>
        \/ \E v \in {"400", "413"} : Respond(v, TRUE)
    BY <1>6, <2>1 DEF FeedSticky, WriteError, Stuck
  <2>3. CASE UNCHANGED <<closing, answers>>
    BY <2>1, <2>3, QuietMatched DEF Matched, Flags
  <2>4. QED
    BY <2>1, <2>2, <2>3, RefusalMatched
<1>7. CASE FeedRefuses
  <2>1. /\ ~closing /\ ~gen_owned /\ pc' = "idle" /\ last_status' \in Stuck
        /\ UNCHANGED <<dispatched, gen_owned>>
    BY <1>7 DEF FeedRefuses, Returned, Leave, Matched, Stuck
  <2>2. \E v \in {"400", "413"} : Respond(v, TRUE)
    BY <1>7 DEF FeedRefuses, WriteError
  <2>3. QED
    BY <2>1, <2>2, RefusalMatched
<1>8. CASE FeedComplete
  <2> DEFINE pr == [method |-> method, path |-> StripQuery(url), body |-> body,
                    keep_alive |-> keep_alive]
  <2>1. /\ ~closing /\ ~gen_owned /\ last_status \notin Stuck
        /\ dispatched' = Append(dispatched, pr) /\ Dispatch(pr)
        /\ last_status' = "COMPLETE" /\ pc' = "return"
    BY <1>8 DEF FeedComplete, Returned, Matched
  <2> HIDE DEF pr
  <2>2. QED
    BY <2>1, DispatchMatched
<1>9. CASE AfterDispatch
  <2>1. /\ pc = "return" /\ UNCHANGED <<answers, dispatched, gen_owned, closing>>
        /\ \/ pc' = "idle" /\ last_status' = last_status
           \/ pc' = "feed" /\ ~closing /\ ~gen_owned /\ last_status' = "INCOMPLETE"
    BY <1>9 DEF AfterDispatch, Leave, Reset, parser, connection, history
  <2>2. CASE pc' = "idle" /\ last_status' = last_status
    BY <2>1, <2>2, QuietMatched DEF Matched, Flags
  <2>3. CASE pc' = "feed" /\ ~closing /\ ~gen_owned /\ last_status' = "INCOMPLETE"
    <3>1. Len(answers) = Len(dispatched)
      BY <2>1, <2>3 DEF Matched, Flags
    <3>2. QED
      BY <2>1, <2>3, <3>1 DEF Matched, Flags, Belongs, Generated, Stuck
  <2>4. QED
    BY <2>1, <2>2, <2>3
<1>10. QED
  BY <1>1, <1>2, <1>3, <1>4, <1>5, <1>6, <1>7, <1>8, <1>9, GenFinishMatched DEF Next, Loop

(* The answers a connection sends are those of its requests, in their      *)
(* order, each closing exactly when its request asked for it; then at most *)
(* refusals, or the generated response, which close.                       *)
THEOREM AnswersFollowRequests == Spec => []AnswersFollow
<1>1. Matched => AnswersFollow
  <2> SUFFICES ASSUME Matched PROVE AnswersFollow
    OBVIOUS
  <2>1. DOMAIN answers = 1..Len(answers)
    BY SeqDomain DEF Matched, Flags
  <2>2. QED
    BY <2>1 DEF Matched, Flags, AnswersFollow, Belongs, Generated
<1>2. QED
  BY <1>1, InitMatched, MatchedKept, PTL DEF Spec

-----------------------------------------------------------------------------
(* A bounded set of numbers has a greatest one, and one that goes on from *)
(* each number to the next is all of 0..n.                                 *)
LEMMA Greatest ==
    ASSUME NEW b \in Nat, NEW C \in SUBSET (0..b), C # {}
    PROVE  \E i \in C : \A j \in C : j =< i
<1> DEFINE Above(i) == (i + 1)..b
           T == {Above(i) : i \in C}
           R == StrictSubsetOrdering(0..b)
<1>1. IsWellFoundedOn(R, FiniteSubsetsOf(0..b))
  BY FS_StrictSubsetOrderingWellFounded
<1>2. T \subseteq FiniteSubsetsOf(0..b) /\ T # {}
  <2>1. \A i \in C : i \in 0..b /\ Above(i) \in SUBSET (0..b) /\ IsFiniteSet(Above(i))
    BY FS_Interval
  <2> QED BY <2>1 DEF FiniteSubsetsOf
<1>3. PICK X \in T : \A Y \in T : ~(<<Y, X>> \in R)
  <2> HIDE DEF R, T
  <2> QED BY <1>1, <1>2, WFMin
<1>4. PICK i \in C : X = Above(i)
  OBVIOUS
<1>5. \A j \in C : j =< i
  <2> SUFFICES ASSUME NEW j \in C, j > i PROVE FALSE
    OBVIOUS
  <2>1. i \in 0..b /\ j \in 0..b
    OBVIOUS
  <2>2. Above(j) \subseteq Above(i) /\ j \in Above(i) /\ j \notin Above(j)
    BY <2>1
  <2>3. <<Above(j), X>> \in R
    BY <2>1, <2>2, <1>4 DEF StrictSubsetOrdering
  <2> QED BY <2>3, <1>3
<1> QED BY <1>5

LEMMA UpTo ==
  ASSUME NEW n \in Nat, NEW S \in SUBSET (0..n), 0 \in S,
         \A i \in 0..(n - 1) : i \in S => i + 1 \in S
  PROVE  S = 0..n
<1> DEFINE C == {j \in S : 0..j \subseteq S}
<1>1. C \in SUBSET (0..n) /\ C # {}
  <2>1. 0..0 = {0}
    OBVIOUS
  <2>2. 0 \in C
    BY <2>1
  <2>3. QED
    BY <2>2
<1>2. PICK i \in C : \A j \in C : j =< i
  <2> HIDE DEF C
  <2>1. QED
    BY <1>1, Greatest
<1>3. CASE i = n
  BY <1>3
<1>4. CASE i \in 0..(n - 1)
  <2>1. i + 1 \in S /\ 0..(i + 1) = 0..i \cup {i + 1}
    BY <1>4
  <2>2. i + 1 \in C
    BY <2>1
  <2>3. QED
    BY <1>2, <1>4, <2>2
<1>5. QED
  BY <1>2, <1>3, <1>4

-----------------------------------------------------------------------------
(* What the peer sends, laid out on the wire.                              *)
(* z holds the elements of x and then those of y.                          *)
InARow(z, x, y) ==
    /\ Len(z) = Len(x) + Len(y)
    /\ \A i \in 1..Len(x) : z[i] = x[i]
    /\ \A i \in 1..Len(y) : z[Len(x) + i] = y[i]

LEMMA Joined ==
  ASSUME NEW S, NEW x \in Seq(S), NEW y \in Seq(S)
  PROVE  x \o y \in Seq(S) /\ InARow(x \o y, x, y)
<1> DEFINE z == x \o y
           p == Len(x)
           q == Len(y)
<1>0. p \in Nat /\ q \in Nat
  BY LenProperties
<1>1. /\ z \in Seq(S) /\ Len(z) = p + q
      /\ \A i \in 1..(p + q) : z[i] = IF i <= p THEN x[i] ELSE y[i - p]
  BY ConcatProperties
<1> HIDE DEF z, p, q
<1>2. \A i \in 1..p : z[i] = x[i]
  BY <1>0, <1>1
<1>3. ASSUME NEW i \in 1..q  PROVE z[p + i] = y[i]
  <2>1. p + i \in 1..(p + q) /\ ~(p + i <= p) /\ p + i - p = i
    BY <1>0
  <2>2. z[p + i] = IF p + i <= p THEN x[p + i] ELSE y[p + i - p]
    BY <1>0, <1>1, <2>1
  <2>3. QED
    BY <2>1, <2>2
<1>4. QED
  BY <1>1, <1>2, <1>3 DEF z, p, q, InARow

UnitSet == [k : {"url"}, v : STRING, m : STRING]
           \cup [k : {"head"}, frame : {"none", "length", "chunked"}, n : Nat, keep : BOOLEAN]
           \cup [k : {"body"}, v : STRING] \cup [k : {"last", "junk"}]

(* The units of a request that is not broken, one by one.                  *)
LEMMA UnitsShape ==
  ASSUME NEW r \in Requests
  PROVE  /\ Units(r) \in Seq(UnitSet) /\ Len(Units(r)) \in Nat \ {0}
         /\ r.frame = "bad" => Len(Units(r)) = 1 /\ Units(r)[1] = [k |-> "junk"]
         /\ r.frame # "bad" =>
               /\ Len(Units(r)) = Len(r.target) + 1 + Len(r.body)
                                  + (IF r.frame = "chunked" THEN 1 ELSE 0)
               /\ \A i \in 1..Len(r.target) :
                     Units(r)[i] = [k |-> "url", v |-> r.target[i], m |-> r.method]
               /\ Units(r)[Len(r.target) + 1]
                     = [k |-> "head", frame |-> r.frame, n |-> Len(r.body), keep |-> r.keep]
               /\ \A i \in 1..Len(r.body) :
                     Units(r)[Len(r.target) + 1 + i] = [k |-> "body", v |-> r.body[i]]
               /\ r.frame = "chunked" =>
                     Units(r)[Len(r.target) + 1 + Len(r.body) + 1] = [k |-> "last"]
<1> DEFINE t == Len(r.target)
           b == Len(r.body)
           s1 == [i \in 1..t |-> [k |-> "url", v |-> r.target[i], m |-> r.method]]
           s2 == <<[k |-> "head", frame |-> r.frame, n |-> b, keep |-> r.keep]>>
           s3 == Body(r)
           s4 == IF r.frame = "chunked" THEN <<[k |-> "last"]>> ELSE <<>>
<1>1. /\ r.target \in Seq(STRING) /\ r.body \in Seq(STRING) /\ t \in Nat /\ b \in Nat
      /\ r.method \in STRING /\ r.frame \in {"none", "length", "chunked", "bad"}
      /\ r.keep \in BOOLEAN
  BY LenProperties DEF Requests
<1>2. CASE r.frame = "bad"
  <2>1. Units(r) = <<[k |-> "junk"]>>
    BY <1>2 DEF Units
  <2>2. [k |-> "junk"] \in UnitSet
    BY DEF UnitSet
  <2>3. QED
    BY <1>2, <2>1, <2>2
<1>3. CASE r.frame # "bad"
  <2>1. s1 \in Seq(UnitSet) /\ Len(s1) = t
    <3>1. \A i \in 1..t : r.target[i] \in STRING
      BY <1>1
    <3>2. \A i \in 1..t : [k |-> "url", v |-> r.target[i], m |-> r.method] \in UnitSet
      BY <1>1, <3>1 DEF UnitSet
    <3>3. s1 \in [1..t -> UnitSet]
      BY <3>2
    <3>4. QED
      BY <1>1, <3>3, SeqDef, LenProperties
  <2>2. s2 \in Seq(UnitSet) /\ Len(s2) = 1
    <3>1. [k |-> "head", frame |-> r.frame, n |-> b, keep |-> r.keep] \in UnitSet
      BY <1>1, <1>3 DEF UnitSet
    <3>2. QED
      BY <3>1
  <2>3. s3 \in Seq(UnitSet) /\ Len(s3) = b /\ \A i \in 1..b : s3[i] = [k |-> "body", v |-> r.body[i]]
    <3>1. \A i \in 1..b : r.body[i] \in STRING
      BY <1>1
    <3>2. \A i \in 1..b : [k |-> "body", v |-> r.body[i]] \in UnitSet
      BY <1>1, <3>1 DEF UnitSet
    <3>3. s3 \in [1..b -> UnitSet] /\ \A i \in 1..b : s3[i] = [k |-> "body", v |-> r.body[i]]
      <4>1. s3 = [i \in 1..b |-> [k |-> "body", v |-> r.body[i]]]
        BY DEF Body
      <4>2. QED
        BY <3>2, <4>1
    <3> HIDE DEF s3
    <3>4. s3 \in Seq(UnitSet)
      BY <1>1, <3>3, SeqDef
    <3>5. QED
      BY <1>1, <3>3, <3>4, LenProperties
  <2>4. s4 \in Seq(UnitSet) /\ Len(s4) = (IF r.frame = "chunked" THEN 1 ELSE 0)
    <3>1. [k |-> "last"] \in UnitSet
      BY DEF UnitSet
    <3>2. QED
      BY <3>1
  <2>5. /\ \A i \in 1..t : s1[i] = [k |-> "url", v |-> r.target[i], m |-> r.method]
        /\ s2[1] = [k |-> "head", frame |-> r.frame, n |-> b, keep |-> r.keep]
        /\ r.frame = "chunked" => s4[1] = [k |-> "last"]
    OBVIOUS
  <2>6. Units(r) = ((s1 \o s2) \o s3) \o s4
    BY <1>3 DEF Units
  <2>0. t \in Nat /\ b \in Nat /\ Len(s4) \in {0, 1}
        /\ Len(s4) = (IF r.frame = "chunked" THEN 1 ELSE 0)
    BY <1>1, <2>4
  <2> HIDE DEF s1, s2, s3, s4, t, b
  <2> DEFINE a == s1 \o s2
             c == a \o s3
             d == c \o s4
             e == Len(s4)
  <2>7. /\ a \in Seq(UnitSet) /\ Len(a) = t + 1
        /\ (\A i \in 1..t : a[i] = s1[i]) /\ (\A i \in 1..1 : a[t + i] = s2[i])
    <3>1. a \in Seq(UnitSet) /\ InARow(a, s1, s2)
      BY <2>1, <2>2, Joined
    <3>2. QED
      BY <2>1, <2>2, <3>1 DEF InARow
  <2> HIDE DEF a
  <2>8. /\ c \in Seq(UnitSet) /\ Len(c) = t + 1 + b
        /\ (\A i \in 1..(t + 1) : c[i] = a[i]) /\ \A i \in 1..b : c[t + 1 + i] = s3[i]
    <3>1. c \in Seq(UnitSet) /\ InARow(c, a, s3)
      BY <2>3, <2>7, Joined
    <3>2. QED
      BY <2>3, <2>7, <3>1 DEF InARow
  <2> HIDE DEF c
  <2>9. /\ d \in Seq(UnitSet) /\ Len(d) = t + 1 + b + e
        /\ \A i \in 1..(t + 1 + b) : d[i] = c[i]
        /\ \A i \in 1..e : d[t + 1 + b + i] = s4[i]
    <3>1. d \in Seq(UnitSet) /\ InARow(d, c, s4)
      BY <2>4, <2>8, Joined
    <3>2. QED
      BY <2>4, <2>8, <3>1 DEF InARow
  <2>10. Units(r) = d
    BY <2>6 DEF a, c, d
  <2> HIDE DEF d
  <2>11. \A i \in 1..t : d[i] = [k |-> "url", v |-> r.target[i], m |-> r.method]
    <3> SUFFICES ASSUME NEW i \in 1..t PROVE d[i] = s1[i]
      BY <2>5
    <3>1. i \in 1..(t + 1) /\ i \in 1..(t + 1 + b)
      BY <2>0
    <3>2. d[i] = c[i] /\ c[i] = a[i] /\ a[i] = s1[i]
      BY <2>7, <2>8, <2>9, <3>1
    <3>3. QED
      BY <3>2
  <2>12. d[t + 1] = [k |-> "head", frame |-> r.frame, n |-> b, keep |-> r.keep]
    <3>1. t + 1 \in 1..(t + 1) /\ t + 1 \in 1..(t + 1 + b) /\ 1 \in 1..1
      BY <2>0
    <3>2. d[t + 1] = c[t + 1] /\ c[t + 1] = a[t + 1] /\ a[t + 1] = s2[1]
      BY <2>7, <2>8, <2>9, <3>1
    <3>3. QED
      BY <2>5, <3>2
  <2>13. \A i \in 1..b : d[t + 1 + i] = [k |-> "body", v |-> r.body[i]]
    <3> SUFFICES ASSUME NEW i \in 1..b PROVE d[t + 1 + i] = s3[i]
      BY <2>3
    <3>1. t + 1 + i \in 1..(t + 1 + b)
      BY <2>0
    <3>2. QED
      BY <2>8, <2>9, <3>1
  <2>14. r.frame = "chunked" => d[t + 1 + b + 1] = [k |-> "last"]
    <3> SUFFICES ASSUME r.frame = "chunked" PROVE d[t + 1 + b + 1] = s4[1]
      BY <2>5
    <3>1. 1 \in 1..e
      BY <2>0
    <3>2. QED
      BY <2>9, <3>1
  <2>15. Len(d) = t + 1 + b + (IF r.frame = "chunked" THEN 1 ELSE 0) /\ Len(d) \in Nat \ {0}
    BY <2>0, <2>9
  <2>16. QED
    BY <1>3, <2>9, <2>10, <2>11, <2>12, <2>13, <2>14, <2>15 DEF t, b
<1>4. QED
  BY <1>2, <1>3

(* The units of the first requests of a script, for every number of them.  *)
Laid(g, s, n) ==
    g = [i \in 0..n |-> IF i = 0 THEN <<>> ELSE g[i - 1] \o Units(s[i])]

Prefixes(s) == CHOOSE g : Laid(g, s, Len(s))

LEMMA BytesArePrefix == \A s : Bytes(s) = Prefixes(s)[Len(s)]
BY DEF Bytes, Prefixes, Laid

LEMMA PrefixesLaid ==
  ASSUME NEW s, Len(s) \in Nat
  PROVE  Laid(Prefixes(s), s, Len(s))
<1> DEFINE n == Len(s)
           S == {k \in 0..n : \E g : Laid(g, s, k)}
<1>1. 0 \in S
  <2> DEFINE g == [i \in 0..0 |-> <<>>]
  <2>1. g = [i \in 0..0 |-> IF i = 0 THEN <<>> ELSE g[i - 1] \o Units(s[i])]
    OBVIOUS
  <2>2. Laid(g, s, 0)
    BY <2>1 DEF Laid
  <2>3. QED
    BY <2>2
<1>2. ASSUME NEW k \in 0..(n - 1), k \in S  PROVE k + 1 \in S
  <2>1. PICK g : Laid(g, s, k)
    BY <1>2
  <2> DEFINE h == [i \in 0..(k + 1) |-> IF i = k + 1 THEN g[k] \o Units(s[k + 1]) ELSE g[i]]
  <2>2. /\ g[0] = <<>> /\ \A i \in 1..k : g[i] = g[i - 1] \o Units(s[i])
    <3>1. \A i \in 0..k : g[i] = IF i = 0 THEN <<>> ELSE g[i - 1] \o Units(s[i])
      BY <2>1 DEF Laid
    <3>2. \A i \in 1..k : i \in 0..k /\ i # 0
      OBVIOUS
    <3>3. 0 \in 0..k
      OBVIOUS
    <3>4. QED
      BY <3>1, <3>2, <3>3
  <2>3. ASSUME NEW i \in 0..(k + 1)
        PROVE  h[i] = IF i = 0 THEN <<>> ELSE h[i - 1] \o Units(s[i])
    <3>1. CASE i = 0
      BY <2>2, <3>1
    <3>2. CASE i \in 1..k
      <4>1. h[i] = g[i] /\ h[i - 1] = g[i - 1]
        BY <3>2
      <4>2. QED
        BY <2>2, <3>2, <4>1
    <3>3. CASE i = k + 1
      <4>1. k \in 0..(k + 1) /\ k + 1 \in 0..(k + 1) /\ k # k + 1 /\ i # 0 /\ i - 1 = k
        BY <3>3
      <4>2. h[k + 1] = g[k] \o Units(s[k + 1]) /\ h[k] = g[k]
        BY <4>1
      <4> HIDE DEF h
      <4>3. QED
        BY <3>3, <4>1, <4>2
    <3>4. QED
      BY <3>1, <3>2, <3>3
  <2>4. h = [i \in 0..(k + 1) |-> IF i = 0 THEN <<>> ELSE h[i - 1] \o Units(s[i])]
    <3>1. h = [i \in 0..(k + 1) |-> h[i]]
      OBVIOUS
    <3> HIDE DEF h
    <3>2. QED
      BY <2>3, <3>1
  <2>5. Laid(h, s, k + 1) /\ k + 1 \in 0..n
    <3> HIDE DEF h
    <3>1. QED
      BY <2>4 DEF Laid
  <2>6. QED
    BY <2>5
<1>3. n \in S
  <2> HIDE DEF S
  <2>1. S \in SUBSET (0..n)
    BY DEF S
  <2>2. S = 0..n
    BY <1>1, <1>2, <2>1, UpTo
  <2>3. QED
    BY <2>2
<1>4. QED
  BY <1>3 DEF Prefixes

LEMMA PrefixesStep ==
  ASSUME NEW s, Len(s) \in Nat
  PROVE  /\ Prefixes(s)[0] = <<>>
         /\ \A i \in 0..(Len(s) - 1) : Prefixes(s)[i + 1] = Prefixes(s)[i] \o Units(s[i + 1])
<1> DEFINE g == Prefixes(s)
<1>1. \A i \in 0..Len(s) : g[i] = IF i = 0 THEN <<>> ELSE g[i - 1] \o Units(s[i])
  BY PrefixesLaid DEF Laid
<1> HIDE DEF g
<1>2. g[0] = <<>>
  BY <1>1
<1>3. ASSUME NEW i \in 0..(Len(s) - 1)  PROVE g[i + 1] = g[i] \o Units(s[i + 1])
  <2>1. i + 1 \in 0..Len(s) /\ i + 1 # 0 /\ (i + 1) - 1 = i
    OBVIOUS
  <2>2. g[i + 1] = g[(i + 1) - 1] \o Units(s[i + 1])
    BY <1>1, <2>1
  <2>3. QED
    BY <2>1, <2>2
<1>4. QED
  BY <1>2, <1>3 DEF g

(* The prefixes of a script's prefix are the script's own.                 *)
LEMMA PrefixesOfPart ==
  ASSUME NEW s \in Seq(Requests), NEW k \in 0..Len(s)
  PROVE  Bytes(SubSeq(s, 1, k)) = Prefixes(s)[k]
<1> DEFINE p == SubSeq(s, 1, k)
           f == Prefixes(s)
           g == Prefixes(p)
           S == {i \in 0..k : g[i] = f[i]}
<1>0. Len(s) \in Nat /\ \A i \in 1..Len(s) : s[i] \in Requests
  BY LenProperties
<1>1. Len(p) = k /\ \A i \in 1..k : p[i] = s[i]
  <2>1. Len(p) = (IF 1 <= k THEN k - 1 + 1 ELSE 0) /\ \A i \in 1..(k - 1 + 1) : p[i] = s[1 + i - 1]
    BY <1>0, SubSeqProperties
  <2>2. k - 1 + 1 = k /\ \A i \in 1..k : 1 + i - 1 = i
    BY <1>0
  <2>3. 1 <= k \/ k = 0
    BY <1>0
  <2> HIDE DEF p
  <2>4. QED
    BY <1>0, <2>1, <2>2, <2>3
<1>2. f[0] = <<>> /\ \A i \in 0..(Len(s) - 1) : f[i + 1] = f[i] \o Units(s[i + 1])
  BY <1>0, PrefixesStep
<1>3. g[0] = <<>> /\ \A i \in 0..(k - 1) : g[i + 1] = g[i] \o Units(p[i + 1])
  <2>1. Len(p) \in Nat
    BY <1>0, <1>1
  <2>2. g[0] = <<>> /\ \A i \in 0..(Len(p) - 1) : g[i + 1] = g[i] \o Units(p[i + 1])
    BY <2>1, PrefixesStep
  <2>3. QED
    BY <1>1, <2>2
<1>4. Bytes(p) = g[k]
  BY <1>1, BytesArePrefix
<1> HIDE DEF f, g, p
<1>5. S = 0..k
  <2>1. 0 \in S
    BY <1>0, <1>2, <1>3
  <2>2. ASSUME NEW i \in 0..(k - 1), i \in S  PROVE i + 1 \in S
    <3>1. i + 1 \in 0..k /\ i + 1 \in 1..k /\ i \in 0..(Len(s) - 1)
      BY <1>0
    <3>2. p[i + 1] = s[i + 1]
      BY <1>1, <3>1
    <3>3. QED
      BY <1>2, <1>3, <2>2, <3>1, <3>2
  <2>3. S \in SUBSET (0..k) /\ k \in Nat
    BY <1>0
  <2> HIDE DEF S
  <2>4. QED
    BY <2>1, <2>2, <2>3, UpTo
<1>6. QED
  <2>1. k \in S
    BY <1>0, <1>5
  <2>2. QED
    BY <1>4, <2>1 DEF p, f

EndOf(s, k) == Len(Bytes(SubSeq(s, 1, k)))

(* Where the requests of a script end and what lies between: each request  *)
(* starts where the one before it ends.                                    *)
LEMMA Layout ==
  ASSUME NEW s \in Seq(Requests)
  PROVE  /\ Bytes(s) \in Seq(UnitSet)
         /\ EndOf(s, 0) = 0 /\ EndOf(s, Len(s)) = Len(Bytes(s))
         /\ \A k \in 0..Len(s) : EndOf(s, k) \in 0..Len(Bytes(s))
         /\ \A k \in 0..(Len(s) - 1) :
               /\ EndOf(s, k + 1) = EndOf(s, k) + Len(Units(s[k + 1]))
               /\ \A j \in 1..Len(Units(s[k + 1])) :
                     Bytes(s)[EndOf(s, k) + j] = Units(s[k + 1])[j]
<1> DEFINE f == Prefixes(s)
           n == Len(s)
<1>0. n \in Nat /\ \A i \in 1..n : s[i] \in Requests
  BY LenProperties
<1>1. f[0] = <<>> /\ \A i \in 0..(n - 1) : f[i + 1] = f[i] \o Units(s[i + 1])
  BY <1>0, PrefixesStep
<1>2. Bytes(s) = f[n] /\ \A k \in 0..n : EndOf(s, k) = Len(f[k])
  BY BytesArePrefix, PrefixesOfPart DEF EndOf
<1> HIDE DEF f, n
<1>3. \A i \in 0..(n - 1) : s[i + 1] \in Requests
  <2>1. \A i \in 0..(n - 1) : i + 1 \in 1..n
    BY <1>0
  <2>2. QED
    BY <1>0, <2>1
<1>4. \A i \in 0..n : f[i] \in Seq(UnitSet)
  <2> DEFINE S == {i \in 0..n : f[i] \in Seq(UnitSet)}
  <2>1. 0 \in S
    <3>1. <<>> \in Seq(UnitSet) /\ 0 \in 0..n
      BY <1>0
    <3>2. QED
      BY <1>1, <3>1
  <2>2. ASSUME NEW i \in 0..(n - 1), i \in S  PROVE i + 1 \in S
    <3>1. f[i] \in Seq(UnitSet) /\ Units(s[i + 1]) \in Seq(UnitSet)
      BY <1>3, <2>2, UnitsShape
    <3>2. f[i + 1] \in Seq(UnitSet)
      BY <1>1, <3>1, Joined
    <3>3. QED
      BY <1>0, <3>2
  <2>3. S \in SUBSET (0..n)
    OBVIOUS
  <2> HIDE DEF S
  <2>4. S = 0..n
    BY <1>0, <2>1, <2>2, <2>3, UpTo
  <2>5. QED
    BY <2>4 DEF S
<1>5. \A i \in 0..(n - 1) : InARow(f[i + 1], f[i], Units(s[i + 1]))
  <2> TAKE i \in 0..(n - 1)
  <2>1. f[i] \in Seq(UnitSet) /\ Units(s[i + 1]) \in Seq(UnitSet)
    <3>1. i \in 0..n
      BY <1>0
    <3>2. QED
      BY <1>3, <1>4, <3>1, UnitsShape
  <2>2. QED
    BY <1>1, <2>1, Joined
<1>6. \A k \in 0..n : \A i \in k..n :
         Len(f[k]) <= Len(f[i]) /\ \A j \in 1..Len(f[k]) : f[i][j] = f[k][j]
  <2> TAKE k \in 0..n
  <2> DEFINE Goes(i) == Len(f[k]) <= Len(f[i]) /\ \A j \in 1..Len(f[k]) : f[i][j] = f[k][j]
             S == {d \in 0..(n - k) : Goes(k + d)}
  <2>0. \A i \in 0..n : Len(f[i]) \in Nat
    BY <1>4, LenProperties
  <2>1. 0 \in S
    <3>1. k + 0 = k /\ 0 \in 0..(n - k) /\ Len(f[k]) <= Len(f[k])
      BY <1>0, <2>0
    <3>2. QED
      BY <3>1
  <2>2. ASSUME NEW d \in 0..(n - k - 1), d \in S  PROVE d + 1 \in S
    <3>1. k + d \in 0..(n - 1) /\ k + d \in 0..n /\ (k + d) + 1 = k + (d + 1) /\ k + d + 1 \in 0..n
          /\ d + 1 \in 0..(n - k) /\ Len(f[k]) \in Nat /\ Len(f[k + d]) \in Nat
      BY <1>0, <2>0
    <3>2. InARow(f[k + d + 1], f[k + d], Units(s[k + d + 1])) /\ Goes(k + d)
      BY <1>5, <2>2, <3>1
    <3>3. Len(Units(s[k + d + 1])) \in Nat
      BY <1>3, <3>1, UnitsShape
    <3>4. Len(f[k]) <= Len(f[k + d + 1])
      <4>1. Len(f[k + d + 1]) = Len(f[k + d]) + Len(Units(s[k + d + 1]))
        BY <3>2 DEF InARow
      <4>2. Len(f[k]) <= Len(f[k + d])
        BY <3>2
      <4>3. Len(f[k]) \in Nat /\ Len(f[k + d]) \in Nat /\ Len(Units(s[k + d + 1])) \in Nat
        BY <3>1, <3>3
      <4>4. \A p, q, u \in Nat : p <= q => p <= q + u
        OBVIOUS
      <4> HIDE DEF Goes, S
      <4>5. QED
        BY <4>1, <4>2, <4>3, <4>4
    <3>5. ASSUME NEW j \in 1..Len(f[k])  PROVE f[k + d + 1][j] = f[k][j]
      <4>1. j \in 1..Len(f[k + d])
        BY <3>1, <3>2
      <4>2. QED
        BY <3>2, <4>1 DEF InARow
    <3>6. Goes(k + (d + 1))
      BY <3>1, <3>4, <3>5
    <3>7. QED
      BY <3>1, <3>6
  <2>3. S \in SUBSET (0..(n - k)) /\ n - k \in Nat /\ (n - k) - 1 = n - k - 1
    BY <1>0
  <2>4. S = 0..(n - k)
    <3> HIDE DEF S
    <3>1. QED
      BY <2>1, <2>2, <2>3, UpTo
  <2>5. ASSUME NEW i \in k..n  PROVE Goes(i)
    <3>1. i - k \in 0..(n - k) /\ k + (i - k) = i
      BY <1>0
    <3>2. Goes(k + (i - k))
      BY <2>4, <3>1
    <3>3. QED
      BY <3>1, <3>2
  <2>6. QED
    BY <2>5
<1>7. \A k \in 0..n : EndOf(s, k) \in 0..Len(Bytes(s))
  <2> TAKE k \in 0..n
  <2>1. n \in k..n /\ Len(f[k]) \in Nat /\ Len(f[n]) \in Nat
    BY <1>0, <1>4, LenProperties
  <2>2. QED
    BY <1>2, <1>6, <2>1
<1>8. ASSUME NEW k \in 0..(n - 1)
      PROVE  /\ EndOf(s, k + 1) = EndOf(s, k) + Len(Units(s[k + 1]))
             /\ \A j \in 1..Len(Units(s[k + 1])) :
                   Bytes(s)[EndOf(s, k) + j] = Units(s[k + 1])[j]
  <2> DEFINE u == Units(s[k + 1])
  <2>1. k \in 0..n /\ k + 1 \in 0..n /\ n \in (k + 1)..n
    BY <1>0
  <2>2. InARow(f[k + 1], f[k], u)
    BY <1>5
  <2>3. Len(u) \in Nat /\ Len(f[k]) \in Nat
    BY <1>3, <1>4, <2>1, UnitsShape, LenProperties
  <2> HIDE DEF u
  <2>4. EndOf(s, k + 1) = EndOf(s, k) + Len(u)
    BY <1>2, <2>1, <2>2 DEF InARow
  <2>5. ASSUME NEW j \in 1..Len(u)  PROVE Bytes(s)[EndOf(s, k) + j] = u[j]
    <3>1. Len(f[k]) + j \in 1..Len(f[k + 1])
      BY <2>2, <2>3 DEF InARow
    <3>2. f[n][Len(f[k]) + j] = f[k + 1][Len(f[k]) + j]
      BY <1>6, <2>1, <3>1
    <3>3. f[k + 1][Len(f[k]) + j] = u[j]
      BY <2>2 DEF InARow
    <3>4. QED
      BY <1>2, <2>1, <3>2, <3>3
  <2>6. QED
    BY <2>4, <2>5 DEF u
<1>9. EndOf(s, 0) = 0 /\ EndOf(s, n) = Len(Bytes(s))
  BY <1>0, <1>1, <1>2
<1>10. Bytes(s) \in Seq(UnitSet)
  BY <1>0, <1>2, <1>4
<1>11. QED
  BY <1>7, <1>8, <1>9, <1>10 DEF n

-----------------------------------------------------------------------------
(* Where the parser is in what the peer sends.                             *)
Taken == IF pc = "execute" THEN consumed ELSE 0
Pos == Len(Bytes(sent)) - Len(wire) - Len(buf) + off + Taken

(* wire and buf are what remains of the script, in its order.              *)
Stream ==
    /\ sent \in Seq(Requests)
    /\ wire \in Seq(UnitSet) /\ buf \in Seq(UnitSet)
    /\ Len(wire) + Len(buf) <= Len(Bytes(sent))
    /\ \A j \in 1..Len(wire) : wire[j] = Bytes(sent)[Len(Bytes(sent)) - Len(wire) + j]
    /\ \A j \in 1..Len(buf) :
          buf[j] = Bytes(sent)[Len(Bytes(sent)) - Len(wire) - Len(buf) + j]
    /\ off \in 0..Len(buf)
    /\ pc = "execute" => consumed \in 0..(Len(buf) - off)
    /\ pc = "idle" => buf = <<>> /\ off = 0

Limits ==
    /\ url \in Seq(STRING) /\ body \in Seq(STRING)
    /\ Len(url) <= MaxUrl /\ Len(body) <= MaxBody

Done == Len(dispatched)
Open == last_status \notin Stuck /\ pc # "return"
Current == sent[Done + 1]

IsPrefix(s, t) == Len(s) <= Len(t) /\ \A j \in 1..Len(s) : s[j] = t[j]

(* What was dispatched is what was sent, up to the first request that asks *)
(* to close.                                                               *)
Past ==
    /\ IsSeq(dispatched) /\ Done <= Len(sent)
    /\ \A i \in 1..Done :
          /\ dispatched[i] = Parsed(sent[i]) /\ Acceptable(sent[i])
          /\ i < Done \/ Open => sent[i].keep
    /\ pc = "return" => /\ last_status = "COMPLETE" /\ Done >= 1
                        /\ Pos = EndOf(sent, Done) /\ keep_alive = sent[Done].keep

(* Between two requests, or in the target of one.                          *)
InLine ==
    /\ ll.at = "line" /\ body = <<>> /\ Pos = EndOf(sent, Done) + Len(url)
    /\ Done = Len(sent) => url = <<>>
    /\ Done < Len(sent) =>
          IF Current.frame = "bad" THEN url = <<>>
          ELSE IsPrefix(url, Current.target) /\ (url # <<>> => method = Current.method)

(* In the body of one.                                                     *)
InBody ==
    /\ ll.at \in {"body", "chunks"} /\ Done < Len(sent)
    /\ Current.frame = IF ll.at = "body" THEN "length" ELSE "chunked"
    /\ Pos = EndOf(sent, Done) + Len(url) + 1 + Len(body)
    /\ url = Current.target /\ url # <<>> /\ method = Current.method /\ ll.keep = Current.keep
    /\ IsPrefix(body, Current.body)
    /\ ll.at = "body" => ll.left = Len(Current.body) - Len(body) /\ ll.left >= 1

(* At the end of one.                                                      *)
AtEnd ==
    /\ Done < Len(sent) /\ Current.frame # "bad" /\ Pos = EndOf(sent, Done + 1)
    /\ url = Current.target /\ body = Current.body /\ method = Current.method
    /\ keep_alive = Current.keep

Parsing ==
    Open =>
        /\ pc # "execute" => err = "OK"
        /\ complete => err = "PAUSED"
        /\ err = "OK" => InLine \/ InBody
        /\ err = "PAUSED" => AtEnd

Ordered ==
    /\ Stream /\ Limits /\ Past /\ Parsing
    /\ pc = "feed" => ~closing

-----------------------------------------------------------------------------
LEMMA InitOrdered == Init => Ordered
<1> SUFFICES ASSUME Init PROVE Ordered
  OBVIOUS
<1>0. sent \in Seq(Requests) /\ MaxUrl \in Nat /\ MaxBody \in Nat
  BY ScriptsAssumption, HttpConnAssumption DEF Init
<1>1. /\ Bytes(sent) \in Seq(UnitSet) /\ EndOf(sent, 0) = 0 /\ EndOf(sent, Len(sent)) = Len(Bytes(sent))
      /\ Len(sent) \in Nat /\ Len(Bytes(sent)) \in Nat
  BY <1>0, Layout, LenProperties
<1>2. IsSeq(<<>>) /\ Len(<<>>) = 0
  <2>1. <<>> \in Seq({})
    OBVIOUS
  <2>2. QED
    BY <2>1 DEF IsSeq
<1>3. /\ wire = Bytes(sent) /\ buf = <<>> /\ off = 0 /\ pc = "idle" /\ url = <<>> /\ body = <<>>
      /\ dispatched = <<>> /\ err = "OK" /\ ll.at = "line" /\ complete = FALSE
  BY DEF Init, LineStart
<1>4. Stream
  BY <1>0, <1>1, <1>3 DEF Stream
<1>5. Limits
  BY <1>0, <1>3 DEF Limits
<1>6. Done = 0 /\ Past
  BY <1>1, <1>2, <1>3 DEF Past, Done
<1>7. Pos = 0
  <2>1. Taken = 0
    BY <1>3 DEF Taken
  <2>2. Pos = Len(Bytes(sent)) - Len(Bytes(sent)) - 0 + 0 + 0
    BY <1>2, <1>3, <2>1 DEF Pos
  <2>3. QED
    BY <1>1, <2>2
<1>8. InLine
  <2>1. Len(url) = 0 /\ IsPrefix(url, Current.target)
    BY <1>3 DEF IsPrefix
  <2>2. QED
    BY <1>1, <1>3, <1>6, <1>7, <2>1 DEF InLine
<1>9. Parsing
  BY <1>3, <1>8 DEF Parsing
<1>10. QED
  BY <1>3, <1>4, <1>5, <1>6, <1>9 DEF Ordered

(* Steps that touch neither the parser nor what it reads.                  *)
LEMMA QuietOrdered ==
  ASSUME Ordered,
         UNCHANGED <<sent, wire, url, body, complete, keep_alive, last_status, method, ll, err,
                     consumed, pc, buf, off, dispatched>>,
         pc # "feed" \/ closing' = closing
  PROVE  Ordered'
<1>1. Stream'
  BY DEF Ordered, Stream
<1>2. Limits'
  BY DEF Ordered, Limits
<1>3. UNCHANGED <<Pos, Done, Open, Current>>
  BY DEF Pos, Taken, Done, Open, Current
<1>4. Past'
  BY <1>3 DEF Ordered, Past, Parsed, Acceptable, EndOf, IsSeq
<1>5. InLine' = InLine /\ InBody' = InBody /\ AtEnd' = AtEnd
  BY <1>3 DEF InLine, InBody, AtEnd
<1>6. QED
  BY <1>1, <1>2, <1>3, <1>4, <1>5 DEF Ordered, Parsing

LEMMA Sizes ==
  ASSUME Stream
  PROVE  /\ Len(sent) \in Nat /\ Len(Bytes(sent)) \in Nat /\ Len(wire) \in Nat
         /\ Len(buf) \in Nat /\ off \in Nat
<1>1. Bytes(sent) \in Seq(UnitSet)
  BY Layout DEF Stream
<1>2. QED
  BY <1>1, LenProperties DEF Stream

(* Steps that move between the wire, the buffer and the parser.            *)
LEMMA MovedOrdered ==
  ASSUME Ordered, Stream', pc # "return", pc' # "return",
         UNCHANGED <<sent, url, body, complete, keep_alive, last_status, method, ll, dispatched>>,
         Open => err = "OK" /\ err' = "OK" /\ Pos' = Pos,
         pc' = "feed" => ~closing'
  PROVE  Ordered'
<1>1. Limits'
  BY DEF Ordered, Limits
<1>2. UNCHANGED <<Done, Open, Current>>
  BY DEF Done, Open, Current
<1>3. Past'
  BY <1>2 DEF Ordered, Past, Parsed, Acceptable, EndOf, IsSeq
<1>4. CASE Open
  <2>1. InLine' = InLine /\ InBody' = InBody
    BY <1>2, <1>4 DEF InLine, InBody
  <2>2. err = "OK" /\ err' = "OK"
    BY <1>4
  <2>3. (InLine \/ InBody) /\ ~complete
    BY <1>4, <2>2 DEF Ordered, Parsing
  <2>4. QED
    BY <1>1, <1>3, <2>1, <2>2, <2>3 DEF Ordered, Parsing
<1>5. CASE ~Open
  BY <1>1, <1>2, <1>3, <1>5 DEF Ordered, Parsing
<1>6. QED
  BY <1>4, <1>5

(* A read takes the first units of the wire into an empty buffer.          *)
LEMMA ReadOrdered ==
  ASSUME Ordered, gen_owned => ~Open, NEW n \in 1..ReadCap, OnRead(n)
  PROVE  Ordered'
<1> DEFINE B == Bytes(sent)
           L == Len(wire)
           N == Len(Bytes(sent))
<1>1. /\ pc = "idle" /\ ~closing /\ n \in Nat \ {0} /\ n <= L /\ wire' = SubSeq(wire, n + 1, L)
      /\ off' = 0 /\ closing' = closing
      /\ UNCHANGED <<sent, url, body, complete, keep_alive, last_status, method, ll, dispatched, err>>
  BY HttpConnAssumption DEF OnRead, parser, connection, history
<1>2. buf = <<>> /\ off = 0 /\ Len(buf) = 0 /\ (Open => err = "OK")
  BY <1>1 DEF Ordered, Stream, Parsing
<1>3. L \in Nat /\ N \in Nat /\ L <= N
  BY <1>2, Sizes DEF Ordered, Stream
<1>4. /\ wire' \in Seq(UnitSet) /\ Len(wire') = L - n
      /\ \A j \in 1..(L - n) : wire'[j] = wire[n + j]
  <2>1. \A i \in (n + 1)..L : wire[i] \in UnitSet
    BY <1>1 DEF Ordered, Stream
  <2>2. /\ wire' \in Seq(UnitSet) /\ Len(wire') = IF n + 1 <= L THEN L - (n + 1) + 1 ELSE 0
        /\ \A j \in 1..(L - (n + 1) + 1) : wire'[j] = wire[(n + 1) + j - 1]
    BY <1>1, <1>3, <2>1, SubSeqProperties
  <2>3. L - (n + 1) + 1 = L - n /\ (n + 1 <= L \/ L - n = 0)
        /\ \A j \in 1..(L - n) : (n + 1) + j - 1 = n + j
    BY <1>1, <1>3
  <2> HIDE DEF L
  <2>4. QED
    BY <2>2, <2>3
<1>5. \A j \in 1..(L - n) : wire'[j] = B[N - (L - n) + j]
  <2> TAKE j \in 1..(L - n)
  <2>1. n + j \in 1..L /\ N - L + (n + j) = N - (L - n) + j
    BY <1>1, <1>3
  <2>2. wire[n + j] = B[N - L + (n + j)]
    BY <2>1 DEF Ordered, Stream
  <2> HIDE DEF B, N, L
  <2>3. QED
    BY <1>4, <2>1, <2>2
<1>6. CASE gen_owned
  <2>1. UNCHANGED <<pc, buf>>
    BY <1>1, <1>6 DEF OnRead
  <2>2. Stream'
    <3>1. sent' \in Seq(Requests) /\ buf' \in Seq(UnitSet) /\ buf' = <<>> /\ Len(buf') = 0
      BY <1>1, <1>2, <2>1 DEF Ordered, Stream
    <3>2. Bytes(sent') = B /\ Len(Bytes(sent')) = N
      BY <1>1
    <3> HIDE DEF B, N, L
    <3>3. /\ Len(wire') + Len(buf') <= N
          /\ \A j \in 1..Len(wire') : wire'[j] = B[N - Len(wire') + j]
          /\ \A j \in 1..Len(buf') : buf'[j] = B[N - Len(wire') - Len(buf') + j]
          /\ off' \in 0..Len(buf') /\ pc' = "idle"
      <4>1. \A j \in 1..Len(wire') : wire'[j] = B[N - Len(wire') + j]
        BY <1>4, <1>5
      <4>2. Len(wire') + Len(buf') <= N
        BY <1>1, <1>3, <1>4, <3>1
      <4>3. pc' = "idle" /\ off' \in 0..Len(buf')
        BY <1>1, <2>1, <3>1
      <4>4. \A j \in 1..Len(buf') : FALSE
        BY <3>1
      <4>5. QED
        BY <4>1, <4>2, <4>3, <4>4
    <3>4. QED
      BY <1>4, <3>1, <3>2, <3>3, <1>1 DEF Stream
  <2>3. QED
    BY <1>1, <1>6, <2>1, <2>2, MovedOrdered
<1>7. CASE ~gen_owned
  <2>1. pc' = "feed" /\ buf' = SubSeq(wire, 1, n)
    BY <1>1, <1>7 DEF OnRead
  <2>2. buf' \in Seq(UnitSet) /\ Len(buf') = n /\ \A j \in 1..n : buf'[j] = wire[j]
    <3>1. \A i \in 1..n : wire[i] \in UnitSet
      BY <1>1, <1>3 DEF Ordered, Stream
    <3>2. /\ buf' \in Seq(UnitSet) /\ Len(buf') = IF 1 <= n THEN n - 1 + 1 ELSE 0
          /\ \A j \in 1..(n - 1 + 1) : buf'[j] = wire[1 + j - 1]
      BY <1>1, <2>1, <3>1, SubSeqProperties
    <3>3. n - 1 + 1 = n /\ 1 <= n /\ \A j \in 1..n : 1 + j - 1 = j
      BY <1>1
    <3>4. QED
      BY <3>2, <3>3
  <2>3. \A j \in 1..n : buf'[j] = B[N - (L - n) - n + j]
    <3> TAKE j \in 1..n
    <3>1. j \in 1..L /\ N - (L - n) - n + j = N - L + j
      BY <1>1, <1>3
    <3>2. wire[j] = B[N - L + j]
      BY <3>1 DEF Ordered, Stream
    <3> HIDE DEF B, N, L
    <3>3. QED
      BY <2>2, <3>1, <3>2
  <2>4. Stream'
    <3>1. sent' \in Seq(Requests) /\ Bytes(sent') = B /\ Len(Bytes(sent')) = N
      BY <1>1 DEF Ordered, Stream
    <3> HIDE DEF B, N, L
    <3>2. /\ Len(wire') + Len(buf') <= N
          /\ \A j \in 1..Len(wire') : wire'[j] = B[N - Len(wire') + j]
          /\ \A j \in 1..Len(buf') : buf'[j] = B[N - Len(wire') - Len(buf') + j]
          /\ off' \in 0..Len(buf') /\ pc' = "feed"
      <4>1. \A j \in 1..Len(wire') : wire'[j] = B[N - Len(wire') + j]
        BY <1>4, <1>5
      <4>2. Len(wire') + Len(buf') <= N
        BY <1>1, <1>3, <1>4, <2>2
      <4>3. pc' = "feed" /\ off' \in 0..Len(buf')
        BY <1>1, <2>1, <2>2
      <4>4. \A j \in 1..Len(buf') : buf'[j] = B[N - Len(wire') - Len(buf') + j]
        BY <1>4, <2>2, <2>3
      <4>5. QED
        BY <4>1, <4>2, <4>3, <4>4
    <3>3. QED
      BY <1>4, <2>2, <3>1, <3>2 DEF Stream
  <2>5. Pos' = Pos
    <3>1. Taken = 0 /\ Taken' = 0
      BY <1>1, <2>1 DEF Taken
    <3>2. Pos = N - L - 0 + 0 + 0
      BY <1>2, <3>1 DEF Pos
    <3>3. Pos' = N - (L - n) - n + 0 + 0
      BY <1>1, <1>4, <2>2, <3>1 DEF Pos
    <3> HIDE DEF L, N
    <3>4. QED
      BY <1>1, <1>3, <3>2, <3>3
  <2>6. /\ pc # "return" /\ pc' # "return" /\ (pc' = "feed" => ~closing')
        /\ (Open => err = "OK" /\ err' = "OK" /\ Pos' = Pos)
    BY <1>1, <1>2, <2>1, <2>5
  <2>7. QED
    BY <1>1, <2>4, <2>6, MovedOrdered
<1>8. QED
  BY <1>6, <1>7

(* Leaving the loop empties the buffer.                                    *)
LEMMA LeaveStream ==
  ASSUME Stream, UNCHANGED <<sent, wire>>, Leave
  PROVE  Stream' /\ Pos' = Len(Bytes(sent)) - Len(wire)
<1>1. pc' = "idle" /\ buf' = <<>> /\ off' = 0 /\ Len(buf') = 0 /\ Taken' = 0
  BY DEF Leave, Taken
<1>2. Len(wire) \in Nat /\ Len(Bytes(sent)) \in Nat /\ Len(buf) \in Nat
  BY Sizes
<1>3. Stream'
  <2>1. Len(wire') + Len(buf') <= Len(Bytes(sent'))
    BY <1>1, <1>2 DEF Stream
  <2>2. buf' \in Seq(UnitSet) /\ (\A j \in 1..Len(buf') : FALSE) /\ off' \in 0..Len(buf')
    BY <1>1
  <2>3. QED
    BY <1>1, <2>1, <2>2 DEF Stream
<1>4. Pos' = Len(Bytes(sent)) - Len(wire) - 0 + 0 + 0
  BY <1>1 DEF Pos
<1>5. QED
  BY <1>2, <1>3, <1>4

(* Leaving the loop with a parser that takes no more.                      *)
LEMMA ShutOrdered ==
  ASSUME Ordered, Stream', ~Open', pc' = "idle", UNCHANGED <<sent, url, body, dispatched>>
  PROVE  Ordered'
<1>1. Limits'
  BY DEF Ordered, Limits
<1>2. Done' = Done
  BY DEF Done
<1>3. Past'
  BY <1>2 DEF Ordered, Past, Parsed, Acceptable, IsSeq
<1>4. QED
  BY <1>1, <1>3 DEF Ordered, Parsing

LEMMA LoopEndsOrdered ==
  ASSUME Ordered, LoopEnds
  PROVE  Ordered'
<1>1. /\ pc = "feed" /\ ~closing /\ off >= Len(buf) /\ Leave
      /\ UNCHANGED <<sent, wire, url, body, complete, keep_alive, last_status, method, ll, err,
                     dispatched, closing>>
  BY DEF LoopEnds, Ordered, parser, connection, history
<1>2. Stream' /\ Pos' = Len(Bytes(sent)) - Len(wire) /\ pc' = "idle"
  BY <1>1, LeaveStream DEF Ordered, Leave
<1>3. off = Len(buf) /\ Len(buf) \in Nat /\ Len(wire) \in Nat /\ Len(Bytes(sent)) \in Nat
  BY <1>1, Sizes DEF Ordered, Stream
<1>4. Taken = 0
  BY <1>1 DEF Taken
<1>5. Pos' = Pos
  BY <1>2, <1>3, <1>4 DEF Pos
<1>6. Open => err = "OK"
  BY <1>1 DEF Ordered, Parsing
<1>7. QED
  BY <1>1, <1>2, <1>5, <1>6, MovedOrdered

LEMMA FeedExecuteOrdered ==
  ASSUME Ordered, FeedExecute
  PROVE  Ordered'
<1>1. /\ pc = "feed" /\ pc' = "execute" /\ consumed' = 0 /\ err' = "OK"
      /\ UNCHANGED <<sent, wire, url, body, complete, keep_alive, last_status, method, ll, buf, off,
                     dispatched, closing>>
  BY DEF FeedExecute, connection, history
<1>2. Len(buf) \in Nat /\ off \in 0..Len(buf)
  BY Sizes DEF Ordered, Stream
<1>3. Stream'
  <2>1. consumed' \in 0..(Len(buf') - off')
    BY <1>1, <1>2
  <2>2. QED
    BY <1>1, <2>1 DEF Ordered, Stream
<1>4. Taken = 0 /\ Taken' = 0
  BY <1>1 DEF Taken
<1>5. Pos' = Pos
  BY <1>1, <1>4 DEF Pos
<1>6. Open => err = "OK"
  BY <1>1 DEF Ordered, Parsing
<1>7. QED
  BY <1>1, <1>3, <1>5, <1>6, MovedOrdered

LEMMA FeedIncompleteOrdered ==
  ASSUME Ordered, FeedIncomplete
  PROVE  Ordered'
<1>1. /\ pc = "execute" /\ err = "OK" /\ off + consumed = Len(buf) /\ Leave
      /\ UNCHANGED <<sent, wire, url, body, complete, keep_alive, last_status, method, ll, err,
                     dispatched>>
  BY DEF FeedIncomplete, Returned, parser, history
<1>2. Stream' /\ Pos' = Len(Bytes(sent)) - Len(wire) /\ pc' = "idle"
  BY <1>1, LeaveStream DEF Ordered, Leave
<1>3. /\ off \in Nat /\ Len(buf) \in Nat /\ Len(wire) \in Nat /\ Len(Bytes(sent)) \in Nat
      /\ consumed \in Int
  BY <1>1, Sizes DEF Ordered, Stream
<1>4. Taken = consumed
  BY <1>1 DEF Taken
<1>5. Pos' = Pos
  <2>1. Pos = Len(Bytes(sent)) - Len(wire) - Len(buf) + off + consumed
    BY <1>4 DEF Pos
  <2>2. QED
    BY <1>1, <1>2, <1>3, <2>1
<1>6. QED
  BY <1>1, <1>2, <1>5, MovedOrdered

LEMMA RefusesOrdered ==
  ASSUME Ordered, FeedRefuses \/ FeedSticky
  PROVE  Ordered'
<1>1. /\ Leave /\ UNCHANGED <<sent, wire, url, body, dispatched>>
      /\ last_status' \in Stuck
  BY DEF FeedRefuses, FeedSticky, parser, Stuck
<1>2. Stream' /\ pc' = "idle"
  BY <1>1, LeaveStream DEF Ordered, Leave
<1>3. ~Open'
  BY <1>1 DEF Open
<1>4. QED
  BY <1>1, <1>2, <1>3, ShutOrdered

(* After the dispatch of a request the parser is left as it is, or starts  *)
(* afresh where the next one begins.                                       *)
LEMMA AfterDispatchOrdered ==
  ASSUME Ordered, AfterDispatch
  PROVE  Ordered'
<1>1. pc = "return" /\ UNCHANGED <<sent, wire, dispatched, closing>>
  BY DEF AfterDispatch, connection, history
<1>2. CASE Leave /\ UNCHANGED parser
  <2>1. Stream' /\ pc' = "idle"
    BY <1>1, <1>2, LeaveStream DEF Ordered, Leave
  <2>2. UNCHANGED <<url, body, last_status>> /\ last_status = "COMPLETE"
    BY <1>1, <1>2 DEF parser, Ordered, Past
  <2>3. ~Open'
    BY <2>2 DEF Open, Stuck
  <2>4. QED
    BY <1>1, <2>1, <2>2, <2>3, ShutOrdered
<1>3. CASE keep_alive /\ ~closing /\ pc' = "feed" /\ Reset /\ UNCHANGED <<buf, off>>
  <2>1. /\ url' = <<>> /\ body' = <<>> /\ complete' = FALSE /\ err' = "OK" /\ ll'.at = "line"
        /\ last_status' = "INCOMPLETE"
    BY <1>3 DEF Reset, LineStart
  <2>2. Stream'
    BY <1>1, <1>3 DEF Ordered, Stream
  <2>3. Limits'
    BY <2>1, HttpConnAssumption DEF Limits
  <2>4. UNCHANGED <<Done, Current>>
    BY <1>1 DEF Done, Current
  <2>5. Taken = 0 /\ Taken' = 0
    BY <1>1, <1>3 DEF Taken
  <2>6. Pos' = Pos /\ Pos = EndOf(sent, Done)
    BY <1>1, <1>3, <2>5 DEF Pos, Ordered, Past
  <2>7. Past'
    <3>1. /\ \A i \in 1..Done : dispatched[i] = Parsed(sent[i]) /\ Acceptable(sent[i])
          /\ \A i \in 1..Done : i < Done => sent[i].keep
          /\ sent[Done].keep /\ Done <= Len(sent) /\ IsSeq(dispatched)
      BY <1>1, <1>3 DEF Ordered, Past
    <3>2. Done \in Nat
      BY <3>1, SeqDomain DEF Done
    <3>3. \A i \in 1..Done : sent[i].keep
      BY <3>1, <3>2
    <3>4. QED
      BY <1>1, <1>3, <2>4, <3>1, <3>3 DEF Past, Parsed, Acceptable, IsSeq
  <2>8. InLine'
    <3>1. EndOf(sent, Done) \in Nat
      BY Layout, SeqDomain, Sizes DEF Ordered, Past, Stream, Done
    <3>2. Pos' = EndOf(sent', Done') + Len(url')
      BY <1>1, <2>1, <2>4, <2>6, <3>1
    <3>3. IsPrefix(url', Current'.target)
      BY <2>1 DEF IsPrefix
    <3>4. QED
      BY <2>1, <3>2, <3>3 DEF InLine
  <2>9. Parsing'
    BY <1>3, <2>1, <2>8 DEF Parsing
  <2>10. QED
    BY <1>1, <1>3, <2>2, <2>3, <2>7, <2>9 DEF Ordered
<1>4. QED
  BY <1>1, <1>2, <1>3 DEF AfterDispatch

-----------------------------------------------------------------------------
(* A complete request is the next one of the script.                       *)
LEMMA FeedCompleteOrdered ==
  ASSUME Ordered, FeedComplete, last_status \notin Stuck
  PROVE  Ordered'
<1> DEFINE pr == [method |-> method, path |-> StripQuery(url), body |-> body,
                  keep_alive |-> keep_alive]
           D == Done
<1>1. /\ pc = "execute" /\ complete /\ pc' = "return" /\ last_status' = "COMPLETE"
      /\ off' = off + consumed /\ dispatched' = Append(dispatched, pr)
      /\ UNCHANGED <<sent, wire, url, body, keep_alive, buf>>
  BY DEF FeedComplete, Returned
<1>2. Open /\ AtEnd
  BY <1>1 DEF Open, Ordered, Parsing
<1>3. D \in Nat /\ D < Len(sent) /\ D + 1 \in 1..Len(sent)
  BY <1>2, SeqDomain, Sizes DEF AtEnd, Ordered, Past, Done
<1>4. /\ Done' = D + 1 /\ IsSeq(dispatched') /\ dispatched'[D + 1] = pr
      /\ \A i \in 1..D : dispatched'[i] = dispatched[i]
  BY <1>1, Appended DEF Ordered, Past, Done
<1>5. pr = Parsed(sent[D + 1]) /\ Acceptable(sent[D + 1])
  BY <1>2 DEF AtEnd, Parsed, Acceptable, Current, Ordered, Limits
<1>6. Stream'
  <2>1. off' \in 0..Len(buf')
    BY <1>1, Sizes DEF Ordered, Stream
  <2>2. QED
    BY <1>1, <2>1 DEF Ordered, Stream
<1>7. Pos' = Pos
  <2>1. Taken = consumed /\ Taken' = 0
    BY <1>1 DEF Taken
  <2>2. /\ Len(buf) \in Nat /\ Len(wire) \in Nat /\ Len(Bytes(sent)) \in Nat /\ off \in Nat
        /\ consumed \in Int
    BY <1>1, Sizes DEF Ordered, Stream
  <2>3. /\ Pos = Len(Bytes(sent)) - Len(wire) - Len(buf) + off + consumed
        /\ Pos' = Len(Bytes(sent)) - Len(wire) - Len(buf) + (off + consumed) + 0
    BY <1>1, <2>1 DEF Pos
  <2>4. QED
    BY <2>2, <2>3
<1>8. /\ Pos' = EndOf(sent', Done') /\ keep_alive' = sent'[Done'].keep /\ Done' >= 1
      /\ Done' <= Len(sent')
  <2>1. Pos = EndOf(sent, D + 1) /\ keep_alive = sent[D + 1].keep
    BY <1>2 DEF AtEnd, Current
  <2> HIDE DEF D
  <2>2. QED
    BY <1>1, <1>3, <1>4, <1>7, <2>1, Sizes DEF Ordered
<1>9. ASSUME NEW i \in 1..(D + 1)
      PROVE  /\ dispatched'[i] = Parsed(sent[i]) /\ Acceptable(sent[i])
             /\ i < D + 1 => sent[i].keep
  <2> HIDE DEF pr
  <2>1. CASE i \in 1..D
    <3>1. dispatched[i] = Parsed(sent[i]) /\ Acceptable(sent[i]) /\ sent[i].keep
      BY <1>2, <2>1 DEF Ordered, Past
    <3>2. dispatched'[i] = dispatched[i]
      BY <1>4, <2>1
    <3>3. QED
      BY <3>1, <3>2
  <2>2. CASE i = D + 1
    BY <1>3, <1>4, <1>5, <2>2
  <2>3. QED
    BY <1>3, <2>1, <2>2
<1>10. ~Open' /\ Limits'
  BY <1>1 DEF Open, Ordered, Limits
<1>11. Past'
  <2> HIDE DEF pr, D
  <2>1. \A i \in 1..Done' :
           /\ dispatched'[i] = Parsed(sent'[i]) /\ Acceptable(sent'[i])
           /\ i < Done' => sent'[i].keep
    BY <1>1, <1>4, <1>9 DEF Parsed, Acceptable
  <2>2. \A i \in 1..Done' :
           /\ dispatched'[i] = Parsed(sent'[i]) /\ Acceptable(sent'[i])
           /\ i < Done' \/ Open' => sent'[i].keep
    BY <1>10, <2>1
  <2>3. /\ last_status' = "COMPLETE" /\ Done' >= 1 /\ Pos' = EndOf(sent', Done')
        /\ keep_alive' = sent'[Done'].keep
    BY <1>1, <1>8
  <2>4. IsSeq(dispatched)' /\ Done' <= Len(sent')
    BY <1>4, <1>8
  <2>5. QED
    BY <2>2, <2>3, <2>4 DEF Past
<1>12. QED
  BY <1>1, <1>6, <1>10, <1>11 DEF Ordered, Parsing

(* llhttp takes one unit.                                                  *)
LEMMA TakesOne ==
  ASSUME Stream, pc = "execute", pc' = "execute", off + consumed < Len(buf), consumed' = consumed + 1,
         UNCHANGED <<sent, wire, buf, off>>
  PROVE  /\ Stream' /\ Pos' = Pos + 1 /\ Pos \in Nat /\ Pos < Len(Bytes(sent))
         /\ Unit = Bytes(sent)[Pos + 1]
<1> DEFINE N == Len(Bytes(sent))
           W == Len(wire)
           L == Len(buf)
<1>1. /\ N \in Nat /\ W \in Nat /\ L \in Nat /\ off \in Nat /\ consumed \in Nat /\ W + L <= N
      /\ off <= L /\ consumed \in 0..(L - off)
  BY Sizes DEF Stream
<1>2. consumed' \in 0..(L - off)
  BY <1>1
<1>3. Stream'
  BY <1>2 DEF Stream
<1>4. Taken = consumed /\ Taken' = consumed + 1
  BY DEF Taken
<1>5. Pos = N - W - L + off + consumed /\ Pos' = N - W - L + off + (consumed + 1)
  BY <1>4 DEF Pos
<1>6. \A j \in 1..L : buf[j] = Bytes(sent)[N - W - L + j]
  BY DEF Stream
<1> HIDE DEF N, W, L
<1>7. /\ off + consumed + 1 \in 1..L /\ N - W - L + (off + consumed + 1) = Pos + 1
      /\ Pos' = Pos + 1 /\ Pos \in Nat /\ Pos < N
  <2>1. off + consumed < L
    BY DEF L
  <2>2. QED
    BY <1>1, <1>5, <2>1
<1>8. Unit = Bytes(sent)[Pos + 1]
  BY <1>6, <1>7 DEF Unit
<1>9. QED
  BY <1>3, <1>7, <1>8 DEF N

(* That unit belongs to the request being parsed.                          *)
LEMMA UnitOfCurrent ==
  ASSUME Stream, Done \in 0..(Len(sent) - 1), NEW p \in Nat, Pos = EndOf(sent, Done) + p,
         p < Len(Units(Current)), Unit = Bytes(sent)[Pos + 1]
  PROVE  Unit = Units(Current)[p + 1] /\ EndOf(sent, Done) \in Nat
         /\ EndOf(sent, Done + 1) = EndOf(sent, Done) + Len(Units(Current))
         /\ Current \in Requests
<1> DEFINE D == Done
<1>1. sent \in Seq(Requests) /\ Len(sent) \in Nat /\ D + 1 \in 1..Len(sent) /\ D \in 0..Len(sent)
  BY Sizes DEF Stream
<1>2. Current \in Requests
  BY <1>1 DEF Current
<1>3. Len(Units(Current)) \in Nat
  BY <1>2, UnitsShape
<1>4. /\ EndOf(sent, D) \in 0..Len(Bytes(sent))
      /\ EndOf(sent, D + 1) = EndOf(sent, D) + Len(Units(Current))
      /\ \A j \in 1..Len(Units(Current)) :
            Bytes(sent)[EndOf(sent, D) + j] = Units(Current)[j]
  BY <1>1, Layout DEF Current
<1>5. EndOf(sent, D) \in Nat /\ p + 1 \in 1..Len(Units(Current))
  BY <1>1, <1>3, <1>4, Sizes
<1>6. Pos + 1 = EndOf(sent, D) + (p + 1)
  BY <1>5
<1>7. QED
  BY <1>2, <1>4, <1>5, <1>6

-----------------------------------------------------------------------------
LEMMA EqualSeqs ==
  ASSUME NEW S, NEW s \in Seq(S), NEW t \in Seq(S), IsPrefix(s, t), Len(s) >= Len(t)
  PROVE  s = t
<1>1. Len(s) \in Nat /\ Len(t) \in Nat
  BY LenProperties
<1>2. Len(s) = Len(t) /\ \A i \in 1..Len(s) : s[i] = t[i]
  BY <1>1 DEF IsPrefix
<1>3. QED
  BY <1>2, SeqEqual

LEMMA RequestType ==
  ASSUME NEW r \in Requests
  PROVE  /\ r.target \in Seq(STRING) /\ r.body \in Seq(STRING)
         /\ Len(r.target) \in Nat /\ Len(r.body) \in Nat
         /\ r.frame \in {"none", "length", "chunked", "bad"} /\ (r.frame = "none" => r.body = <<>>)
BY LenProperties DEF Requests

JunkUnit == [k |-> "junk"]
UrlUnit(r, i) == [k |-> "url", v |-> r.target[i], m |-> r.method]
HeadUnit(r) == [k |-> "head", frame |-> r.frame, n |-> Len(r.body), keep |-> r.keep]
BodyUnit(r, i) == [k |-> "body", v |-> r.body[i]]
LastUnit == [k |-> "last"]
Trailer(r) == IF r.frame = "chunked" THEN 1 ELSE 0

(* What comes next between two requests or in a target.                    *)
LEMMA NextInLine ==
  ASSUME Stream, Limits, Done \in 0..Len(sent), InLine,
         Pos < Len(Bytes(sent)), Unit = Bytes(sent)[Pos + 1]
  PROVE  /\ Done < Len(sent) /\ Current \in Requests /\ EndOf(sent, Done) \in Nat
         /\ \/ Unit = JunkUnit
            \/ /\ Current.frame # "bad" /\ Len(url) < Len(Current.target)
               /\ Unit = UrlUnit(Current, Len(url) + 1)
            \/ /\ Current.frame # "bad" /\ url = Current.target /\ Unit = HeadUnit(Current)
               /\ EndOf(sent, Done + 1) = EndOf(sent, Done) + Len(Current.target) + 1
                                          + Len(Current.body) + Trailer(Current)
<1> DEFINE r == Current
           p == Len(url)
<1>1. /\ sent \in Seq(Requests) /\ Len(sent) \in Nat /\ p \in Nat
      /\ url \in Seq(STRING) /\ Pos = EndOf(sent, Done) + p
  BY Sizes, LenProperties DEF Stream, Limits, InLine
<1>2. Done # Len(sent)
  <2> SUFFICES ASSUME Done = Len(sent) PROVE FALSE
    OBVIOUS
  <2>1. url = <<>> /\ p = 0
    BY DEF InLine
  <2>2. EndOf(sent, Done) = Len(Bytes(sent)) /\ Len(Bytes(sent)) \in Nat
    BY <1>1, Layout, Sizes
  <2> HIDE DEF p
  <2>3. QED
    BY <1>1, <2>1, <2>2
<1>3. Done \in 0..(Len(sent) - 1) /\ Done + 1 \in 1..Len(sent)
  BY <1>1, <1>2
<1>4. r \in Requests
  BY <1>1, <1>3 DEF Current
<1>5. p < Len(Units(r)) => /\ Unit = Units(r)[p + 1] /\ EndOf(sent, Done) \in Nat
                           /\ EndOf(sent, Done + 1) = EndOf(sent, Done) + Len(Units(r))
  BY <1>1, <1>3, UnitOfCurrent
<1>6. CASE r.frame = "bad"
  <2>1. p = 0 /\ Len(Units(r)) = 1 /\ Units(r)[1] = JunkUnit
    <3>1. Done < Len(sent)
      BY <1>1, <1>3
    <3>2. url = <<>>
      BY <1>6, <3>1 DEF InLine
    <3>3. Len(Units(r)) = 1 /\ Units(r)[1] = JunkUnit
      BY <1>4, <1>6, UnitsShape DEF JunkUnit
    <3>4. QED
      BY <3>2, <3>3
  <2> HIDE DEF p, r
  <2>2. p < Len(Units(r)) /\ p + 1 = 1
    BY <2>1
  <2>3. Unit = JunkUnit /\ EndOf(sent, Done) \in Nat
    BY <1>5, <2>1, <2>2
  <2>4. QED
    BY <1>3, <1>4, <2>3 DEF r
<1>7. CASE r.frame # "bad"
  <2> DEFINE t == Len(r.target)
             b == Len(r.body)
             c == Trailer(r)
  <2>1. /\ t \in Nat /\ b \in Nat /\ c \in {0, 1} /\ r.target \in Seq(STRING)
    BY <1>4, RequestType DEF Trailer
  <2>2. /\ Len(Units(r)) = t + 1 + b + c
        /\ \A i \in 1..t : Units(r)[i] = UrlUnit(r, i)
        /\ Units(r)[t + 1] = HeadUnit(r)
    BY <1>4, <1>7, UnitsShape DEF UrlUnit, HeadUnit, Trailer
  <2>3. IsPrefix(url, r.target)
    BY <1>3, <1>7 DEF InLine
  <2>4. p <= t
    BY <2>3 DEF IsPrefix
  <2>5. p < t \/ (p = t /\ url = r.target)
    BY <1>1, <2>1, <2>3, <2>4, EqualSeqs
  <2> HIDE DEF p, r, t, b, c
  <2>6. p < Len(Units(r))
    BY <1>1, <2>1, <2>2, <2>4
  <2>7. CASE p < t
    <3>1. p + 1 \in 1..t
      BY <1>1, <2>1, <2>7
    <3>2. Unit = UrlUnit(r, p + 1)
      BY <1>5, <2>2, <2>6, <3>1
    <3>3. QED
      BY <1>3, <1>4, <1>5, <1>7, <2>6, <2>7, <3>2 DEF r, p, t
  <2>8. CASE p = t /\ url = r.target
    <3>1. Unit = HeadUnit(r)
      BY <1>5, <2>2, <2>6, <2>8
    <3>2. EndOf(sent, Done) \in Nat /\ EndOf(sent, Done + 1) = EndOf(sent, Done) + (t + 1 + b + c)
      BY <1>5, <2>2, <2>6
    <3>3. EndOf(sent, Done + 1) = EndOf(sent, Done) + t + 1 + b + c
      BY <2>1, <3>2
    <3>4. QED
      BY <1>3, <1>4, <1>7, <2>8, <3>1, <3>2, <3>3 DEF r, t, b, c
  <2>9. QED
    BY <2>5, <2>7, <2>8
<1>8. QED
  BY <1>6, <1>7

(* What comes next in a body.                                              *)
LEMMA NextInBody ==
  ASSUME Stream, Limits, Done \in 0..Len(sent), InBody, Unit = Bytes(sent)[Pos + 1]
  PROVE  /\ Current \in Requests /\ EndOf(sent, Done) \in Nat
         /\ EndOf(sent, Done + 1) = EndOf(sent, Done) + Len(Current.target) + 1
                                    + Len(Current.body) + Trailer(Current)
         /\ \/ /\ Len(body) < Len(Current.body)
               /\ Unit = BodyUnit(Current, Len(body) + 1)
            \/ ll.at = "chunks" /\ body = Current.body /\ Unit = LastUnit
<1> DEFINE r == Current
           t == Len(r.target)
           b == Len(r.body)
           c == Trailer(r)
           q == Len(body)
           p == t + 1 + q
<1>1. /\ sent \in Seq(Requests) /\ Len(sent) \in Nat /\ q \in Nat /\ body \in Seq(STRING)
      /\ Done \in 0..(Len(sent) - 1) /\ Done + 1 \in 1..Len(sent)
  BY Sizes, LenProperties DEF Stream, Limits, InBody
<1>2. r \in Requests
  BY <1>1 DEF Current
<1>3. /\ t \in Nat /\ b \in Nat /\ c \in {0, 1} /\ r.body \in Seq(STRING)
  BY <1>2, RequestType DEF Trailer
<1>4. /\ r.frame # "bad" /\ url = r.target /\ IsPrefix(body, r.body) /\ q <= b
      /\ c = (IF ll.at = "chunks" THEN 1 ELSE 0)
      /\ ll.at = "body" => q < b
      /\ ll.at \in {"body", "chunks"}
  <2>1. /\ r.frame # "bad" /\ url = r.target /\ IsPrefix(body, r.body)
        /\ ll.at \in {"body", "chunks"} /\ r.frame = IF ll.at = "body" THEN "length" ELSE "chunked"
    BY DEF InBody
  <2>2. q <= b
    BY <2>1 DEF IsPrefix
  <2>3. ll.at = "body" => ll.left = b - q /\ ll.left >= 1
    BY DEF InBody
  <2>4. c = (IF ll.at = "chunks" THEN 1 ELSE 0)
    BY <2>1 DEF Trailer
  <2> HIDE DEF r, t, b, c, q
  <2>5. QED
    BY <1>1, <1>3, <2>1, <2>2, <2>3, <2>4
<1>5. /\ Len(Units(r)) = t + 1 + b + c
      /\ \A i \in 1..b : Units(r)[t + 1 + i] = BodyUnit(r, i)
      /\ r.frame = "chunked" => Units(r)[t + 1 + b + 1] = LastUnit
  BY <1>2, <1>4, UnitsShape DEF BodyUnit, LastUnit, Trailer
<1>6. Pos = EndOf(sent, Done) + t + 1 + q
  BY <1>4 DEF InBody
<1>7. p < Len(Units(r)) /\ p \in Nat
  <2> HIDE DEF r, t, b, c, q
  <2>1. QED
    BY <1>1, <1>3, <1>4, <1>5
<1>8. Pos = EndOf(sent, Done) + p
  <2>1. EndOf(sent, Done) \in Nat
    BY <1>1, Layout, Sizes
  <2> HIDE DEF r, t, b, c, q
  <2>2. QED
    BY <1>1, <1>3, <1>6, <2>1
<1>9. /\ Unit = Units(r)[p + 1] /\ EndOf(sent, Done) \in Nat
      /\ EndOf(sent, Done + 1) = EndOf(sent, Done) + Len(Units(r))
  <2> HIDE DEF p
  <2>1. QED
    BY <1>1, <1>7, <1>8, UnitOfCurrent
<1>10. EndOf(sent, Done + 1) = EndOf(sent, Done) + t + 1 + b + c
  <2> HIDE DEF r, t, b, c, q
  <2>1. QED
    BY <1>3, <1>5, <1>9
<1>11. CASE q < b
  <2>1. q + 1 \in 1..b /\ p + 1 = t + 1 + (q + 1)
    <3> HIDE DEF r, t, b, c, q
    <3>1. QED
      BY <1>1, <1>3, <1>11
  <2>2. Unit = BodyUnit(r, q + 1)
    <3> HIDE DEF r, t, b, c, q, p
    <3>1. QED
      BY <1>5, <1>9, <2>1
  <2>3. QED
    BY <1>2, <1>9, <1>10, <1>11, <2>2
<1>12. CASE q = b
  <2>1. ll.at = "chunks" /\ r.frame = "chunked"
    <3>1. ll.at = "chunks"
      BY <1>3, <1>4, <1>12
    <3>2. QED
      BY <3>1 DEF InBody
  <2>2. body = r.body
    BY <1>1, <1>3, <1>4, <1>12, EqualSeqs
  <2>3. Unit = LastUnit
    <3>1. p + 1 = t + 1 + b + 1
      BY <1>1, <1>3, <1>12
    <3> HIDE DEF r, t, b, c, q, p
    <3>2. QED
      BY <1>5, <1>9, <2>1, <3>1
  <2>4. QED
    BY <1>2, <1>9, <1>10, <2>1, <2>2, <2>3
<1>13. QED
  <2>1. q < b \/ q = b
    <3> HIDE DEF r, t, b, c, q
    <3>1. QED
      BY <1>1, <1>3, <1>4
  <2>2. QED
    BY <1>11, <1>12, <2>1

-----------------------------------------------------------------------------
(* llhttp takes one unit: the end of the data is one further in the        *)
(* script, and what the callbacks kept is one unit more of the request.    *)
LEMMA OnUrlKeeps ==
  ASSUME Stream, Limits, Done \in 0..Len(sent), InLine, OnUrl, ~complete, err = "OK",
         Pos < Len(Bytes(sent)), Unit = Bytes(sent)[Pos + 1],
         Pos' = Pos + 1, UNCHANGED <<sent, Done, Current>>
  PROVE  Limits' /\ ~complete' /\ (err' = "USER" \/ (err' = "OK" /\ InLine'))
<1>1. /\ Unit.k = "url" /\ method' = Unit.m /\ UNCHANGED <<body, complete, ll>>
      /\ \/ err' = "USER" /\ url' = url
         \/ ~(Len(url) + 1 > MaxUrl) /\ url' = Append(url, Unit.v) /\ err' = err
  BY DEF OnUrl
<1>2. CASE err' = "USER" /\ url' = url
  BY <1>1, <1>2 DEF Limits
<1>3. CASE ~(Len(url) + 1 > MaxUrl) /\ url' = Append(url, Unit.v) /\ err' = err
  <2> DEFINE t == Current.target
             p == Len(url)
  <2>1. /\ Done < Len(sent) /\ Current \in Requests /\ EndOf(sent, Done) \in Nat
        /\ Current.frame # "bad" /\ p < Len(t) /\ Unit = UrlUnit(Current, p + 1)
    <3>1. Unit # JunkUnit /\ Unit # HeadUnit(Current)
      BY <1>1 DEF JunkUnit, HeadUnit
    <3>2. QED
      BY <3>1, NextInLine
  <2>2. Unit.v = t[p + 1] /\ Unit.m = Current.method /\ t \in Seq(STRING) /\ Len(t) \in Nat
    BY <2>1, RequestType DEF UrlUnit
  <2>3. url \in Seq(STRING) /\ p \in Nat /\ p + 1 \in 1..Len(t) /\ t[p + 1] \in STRING
    BY <2>1, <2>2, LenProperties DEF Limits
  <2>4. /\ url' \in Seq(STRING) /\ Len(url') = p + 1 /\ url'[p + 1] = t[p + 1]
        /\ \A j \in 1..p : url'[j] = url[j]
    BY <1>3, <2>2, <2>3, AppendProperties
  <2>5. IsPrefix(url', t)
    <3>1. IsPrefix(url, t)
      BY <2>1 DEF InLine
    <3> HIDE DEF t, p
    <3>2. \A j \in 1..(p + 1) : j \in 1..p \/ j = p + 1
      BY <2>3
    <3>3. \A j \in 1..p : url[j] = t[j]
      BY <3>1 DEF IsPrefix, p
    <3>4. \A j \in 1..(p + 1) : url'[j] = t[j]
      BY <2>4, <3>2, <3>3
    <3>5. QED
      BY <2>3, <2>4, <3>4 DEF IsPrefix
  <2>6. Limits'
    BY <1>1, <1>3, <2>3, <2>4, HttpConnAssumption DEF Limits
  <2>7. Pos' = EndOf(sent', Done') + Len(url')
    <3>1. Pos = EndOf(sent, Done) + p
      BY DEF InLine
    <3> HIDE DEF t, p
    <3>2. QED
      BY <2>1, <2>3, <2>4, <3>1
  <2>8. InLine'
    <3>1. ll'.at = "line" /\ body' = <<>> /\ method' = Current.method
      BY <1>1, <2>2 DEF InLine
    <3>2. Done' < Len(sent') /\ Len(sent') \in Nat /\ Done' \in Nat /\ Current'.frame # "bad"
          /\ IsPrefix(url', Current'.target) /\ method' = Current'.method
      BY <2>1, <2>5, <3>1, Sizes
    <3> HIDE DEF t, p
    <3>3. QED
      BY <2>7, <3>1, <3>2 DEF InLine
  <2>9. QED
    BY <1>1, <1>3, <2>6, <2>8
<1>4. QED
  BY <1>1, <1>2, <1>3

LEMMA OnHeadersKeeps ==
  ASSUME Stream, Limits, Done \in 0..Len(sent), InLine, OnHeadersComplete, ~complete, err = "OK",
         Pos < Len(Bytes(sent)), Unit = Bytes(sent)[Pos + 1],
         Pos' = Pos + 1, UNCHANGED <<sent, Done, Current>>
  PROVE  /\ Limits'
         /\ \/ err' = "USER" /\ ~complete'
            \/ err' = "OK" /\ ~complete' /\ InBody'
            \/ err' = "PAUSED" /\ AtEnd'
<1> DEFINE r == Current
<1>1. Unit.k = "head" /\ url # <<>> /\ UNCHANGED <<url, body, method>>
  BY DEF OnHeadersComplete
<1>2. /\ Done < Len(sent) /\ r \in Requests /\ EndOf(sent, Done) \in Nat
      /\ r.frame # "bad" /\ url = r.target /\ Unit = HeadUnit(r)
      /\ EndOf(sent, Done + 1) = EndOf(sent, Done) + Len(r.target) + 1 + Len(r.body) + Trailer(r)
  <2>1. Unit # JunkUnit /\ Unit # UrlUnit(r, Len(url) + 1)
    BY <1>1 DEF JunkUnit, UrlUnit
  <2>2. QED
    BY <2>1, NextInLine
<1>3. /\ Unit.frame = r.frame /\ Unit.n = Len(r.body) /\ Unit.keep = r.keep
  BY <1>2 DEF HeadUnit
<1>4. body = <<>> /\ Len(body) = 0 /\ Pos = EndOf(sent, Done) + Len(url) /\ Len(url) \in Nat
      /\ method = r.method
  <2>1. r.frame # "bad" => (url # <<>> => method = r.method)
    BY <1>2 DEF InLine
  <2>2. body = <<>> /\ Pos = EndOf(sent, Done) + Len(url) /\ Len(url) \in Nat
    BY LenProperties DEF InLine, Limits
  <2>3. QED
    BY <1>1, <1>2, <2>1, <2>2
<1>5. Len(r.body) \in Nat /\ r.body \in Seq(STRING) /\ (r.frame = "none" => r.body = <<>>)
  BY <1>2, RequestType
<1>6. Limits'
  BY <1>1 DEF Limits
<1>7. Pos' = EndOf(sent', Done') + Len(url') + 1
  <2> HIDE DEF r
  <2>1. QED
    BY <1>1, <1>2, <1>4
<1>8. /\ Done' < Len(sent') /\ Current' = r /\ url' = r.target /\ url' # <<>> /\ body' = <<>>
      /\ method' = r.method
  BY <1>1, <1>2, <1>4
<1>9. CASE err' = "USER" /\ UNCHANGED complete
  BY <1>6, <1>9
<1>10. CASE r.frame \in {"none", "length"} /\ Len(r.body) = 0 /\ MessageComplete(r.keep)
  <2>1. err' = "PAUSED" /\ keep_alive' = r.keep
    BY <1>10 DEF MessageComplete
  <2>2. r.body = <<>> /\ Trailer(r) = 0
    BY <1>5, <1>10 DEF Trailer
  <2>3. Pos' = EndOf(sent', Done' + 1)
    <3>1. EndOf(sent', Done' + 1) = EndOf(sent, Done) + Len(url) + 1 + 0 + 0
      BY <1>2, <1>10, <2>2
    <3> HIDE DEF r
    <3>2. QED
      BY <1>1, <1>2, <1>4, <1>7, <3>1
  <2>4. AtEnd'
    BY <1>2, <1>8, <2>1, <2>2, <2>3 DEF AtEnd
  <2>5. QED
    BY <1>6, <2>1, <2>4
<1>11. ASSUME NEW a \in {"body", "chunks"}, err' = err, complete' = complete,
              r.frame = IF a = "body" THEN "length" ELSE "chunked",
              ll'.at = a, ll'.keep = r.keep, a = "body" => ll'.left = Len(r.body) /\ Len(r.body) >= 1
       PROVE  err' = "OK" /\ ~complete' /\ InBody'
  <2>1. IsPrefix(body', r.body) /\ Len(body') = 0
    BY <1>4, <1>5, <1>8 DEF IsPrefix
  <2>2. Pos' = EndOf(sent', Done') + Len(url') + 1 + Len(body')
    <3>1. Len(url') \in Nat /\ EndOf(sent', Done') \in Nat
      BY <1>1, <1>2, <1>4
    <3>2. QED
      BY <1>7, <2>1, <3>1
  <2>3. ll'.at = "body" => ll'.left = Len(r.body) - Len(body') /\ ll'.left >= 1
    BY <1>5, <1>11, <2>1
  <2> HIDE DEF r
  <2>4. QED
    BY <1>8, <1>11, <2>1, <2>2, <2>3 DEF InBody
<1>12. \/ err' = "USER" /\ UNCHANGED complete
       \/ r.frame \in {"none", "length"} /\ Len(r.body) = 0 /\ MessageComplete(r.keep)
       \/ /\ r.frame = "length" /\ Len(r.body) >= 1 /\ UNCHANGED <<err, complete>>
          /\ ll' = [at |-> "body", left |-> Len(r.body), keep |-> r.keep]
       \/ /\ r.frame = "chunked" /\ UNCHANGED <<err, complete>>
          /\ ll' = [at |-> "chunks", left |-> 0, keep |-> r.keep]
  <2>1. Unit.frame = "none" => Len(r.body) = 0
    BY <1>3, <1>5
  <2> HIDE DEF r
  <2>2. QED
    BY <1>3, <1>5, <2>1 DEF OnHeadersComplete
<1>13. QED
  <2>1. CASE /\ r.frame = "length" /\ Len(r.body) >= 1 /\ UNCHANGED <<err, complete>>
             /\ ll' = [at |-> "body", left |-> Len(r.body), keep |-> r.keep]
    BY <1>6, <1>11, <2>1
  <2>2. CASE /\ r.frame = "chunked" /\ UNCHANGED <<err, complete>>
             /\ ll' = [at |-> "chunks", left |-> 0, keep |-> r.keep]
    BY <1>6, <1>11, <2>2
  <2>3. QED
    BY <1>9, <1>10, <1>12, <2>1, <2>2

-----------------------------------------------------------------------------
LEMMA OnBodyKeeps ==
  ASSUME Stream, Limits, Done \in 0..Len(sent), InBody, OnBody, ~complete, err = "OK",
         Pos < Len(Bytes(sent)), Unit = Bytes(sent)[Pos + 1],
         Pos' = Pos + 1, UNCHANGED <<sent, Done, Current>>
  PROVE  /\ Limits'
         /\ \/ err' = "USER" /\ ~complete'
            \/ err' = "OK" /\ ~complete' /\ InBody'
            \/ err' = "PAUSED" /\ AtEnd'
<1> DEFINE r == Current
           q == Len(body)
           b == Len(r.body)
           e == EndOf(sent, Done)
<1>1. Unit.k = "body" /\ UNCHANGED <<url, method>>
  BY DEF OnBody
<1>2. /\ Done < Len(sent) /\ url = r.target /\ url # <<>> /\ method = r.method /\ ll.keep = r.keep
      /\ ll.at \in {"body", "chunks"} /\ r.frame = IF ll.at = "body" THEN "length" ELSE "chunked"
      /\ IsPrefix(body, r.body) /\ Pos = e + Len(url) + 1 + q
  BY DEF InBody
<1>3. ll.at = "body" => ll.left = b - q /\ ll.left >= 1
  BY DEF InBody
<1>4. /\ r \in Requests /\ e \in Nat /\ q < b /\ Unit = BodyUnit(r, q + 1)
      /\ EndOf(sent, Done + 1) = e + Len(r.target) + 1 + b + Trailer(r)
  <2>1. Unit # LastUnit
    BY <1>1 DEF LastUnit
  <2>2. QED
    BY <2>1, NextInBody
<1>5. r.body \in Seq(STRING) /\ b \in Nat /\ q \in Nat /\ body \in Seq(STRING) /\ Len(url) \in Nat
  BY <1>4, RequestType, LenProperties DEF Limits
<1>6. Unit.v = r.body[q + 1] /\ q + 1 \in 1..b /\ r.body[q + 1] \in STRING
  <2>1. q + 1 \in 1..b
    BY <1>4, <1>5
  <2>2. QED
    BY <1>4, <1>5, <2>1 DEF BodyUnit
<1>7. CASE err' = "USER" /\ UNCHANGED <<body, complete>>
  BY <1>1, <1>7 DEF Limits
<1>8. CASE ~(q + 1 > MaxBody) /\ body' = Append(body, Unit.v)
  <2>1. /\ body' \in Seq(STRING) /\ Len(body') = q + 1 /\ body'[q + 1] = r.body[q + 1]
        /\ \A j \in 1..q : body'[j] = body[j]
    BY <1>5, <1>6, <1>8, AppendProperties
  <2>2. Limits'
    BY <1>1, <1>5, <1>8, <2>1, HttpConnAssumption DEF Limits
  <2>3. IsPrefix(body', r.body)
    <3>1. \A j \in 1..q : body[j] = r.body[j]
      BY <1>2 DEF IsPrefix
    <3> HIDE DEF r, b, q
    <3>2. \A j \in 1..(q + 1) : j \in 1..q \/ j = q + 1
      BY <1>5
    <3>3. \A j \in 1..(q + 1) : body'[j] = r.body[j]
      BY <2>1, <3>1, <3>2
    <3>4. q + 1 <= Len(r.body)
      BY <1>6 DEF b
    <3>5. QED
      BY <2>1, <3>3, <3>4 DEF IsPrefix
  <2>4. Pos' = e + Len(url) + 1 + (q + 1)
    <3>1. Pos' = (e + Len(url) + 1 + q) + 1
      BY <1>2
    <3> HIDE DEF r, b, q, e
    <3>2. QED
      BY <1>4, <1>5, <3>1
  <2>5. CASE ll.at = "body" /\ ll.left = 1 /\ MessageComplete(ll.keep)
    <3>1. err' = "PAUSED" /\ keep_alive' = r.keep
      BY <1>2, <2>5 DEF MessageComplete
    <3>2. b = q + 1 /\ Trailer(r) = 0
      BY <1>2, <1>3, <1>5, <2>5 DEF Trailer
    <3>3. body' = r.body
      BY <1>5, <2>1, <2>3, <3>2, EqualSeqs
    <3>4. Pos' = EndOf(sent, Done + 1)
      <4>1. EndOf(sent, Done + 1) = e + Len(url) + 1 + (q + 1) + 0
        BY <1>2, <1>4, <3>2
      <4> HIDE DEF r, b, q, e
      <4>2. QED
        BY <1>4, <1>5, <2>4, <4>1
    <3>5. r.frame # "bad"
      BY <1>2
    <3>6. AtEnd'
      BY <1>1, <1>2, <3>1, <3>3, <3>4, <3>5 DEF AtEnd
    <3>7. QED
      BY <2>2, <3>1, <3>6
  <2>6. CASE /\ ~(ll.at = "body" /\ ll.left = 1) /\ ll' = [ll EXCEPT !.left = @ - 1]
             /\ UNCHANGED <<complete, err>>
    <3>1. ll'.at = ll.at /\ ll'.keep = ll.keep /\ (ll.at = "body" => ll'.left = ll.left - 1)
      BY <2>6
    <3>2. ll'.at = "body" => ll'.left = b - (q + 1) /\ ll'.left >= 1
      BY <1>3, <1>5, <2>6, <3>1
    <3> HIDE DEF r, b, q, e
    <3>3. Pos' = EndOf(sent', Done') + Len(url') + 1 + Len(body')
      BY <1>1, <2>1, <2>4 DEF e
    <3>4. ll'.at = "body" => ll'.left = Len(r.body) - Len(body') /\ ll'.left >= 1
      BY <2>1, <3>2 DEF b
    <3>5. Current' = r
      BY DEF r
    <3>6. InBody'
      BY <1>1, <1>2, <2>3, <3>1, <3>3, <3>4, <3>5 DEF InBody
    <3>7. QED
      BY <2>2, <2>6, <3>6
  <2>7. QED
    BY <1>8, <2>5, <2>6 DEF OnBody
<1>9. QED
  BY <1>7, <1>8 DEF OnBody

LEMMA OnLastChunkKeeps ==
  ASSUME Stream, Limits, Done \in 0..Len(sent), InBody, OnLastChunk,
         Pos < Len(Bytes(sent)), Unit = Bytes(sent)[Pos + 1],
         Pos' = Pos + 1, UNCHANGED <<sent, Done, Current>>
  PROVE  Limits' /\ err' = "PAUSED" /\ AtEnd'
<1> DEFINE r == Current
           b == Len(r.body)
           e == EndOf(sent, Done)
<1>1. Unit.k = "last" /\ ll.at = "chunks" /\ MessageComplete(ll.keep) /\ UNCHANGED <<url, body, method>>
  BY DEF OnLastChunk
<1>2. /\ Done < Len(sent) /\ url = r.target /\ url # <<>> /\ method = r.method /\ ll.keep = r.keep
      /\ r.frame = "chunked" /\ Pos = e + Len(url) + 1 + Len(body)
  BY <1>1 DEF InBody
<1>3. /\ r \in Requests /\ e \in Nat /\ body = r.body
      /\ EndOf(sent, Done + 1) = e + Len(r.target) + 1 + b + Trailer(r)
  <2>1. Unit # BodyUnit(r, Len(body) + 1)
    BY <1>1 DEF BodyUnit
  <2>2. QED
    BY <2>1, NextInBody
<1>4. Len(url) \in Nat /\ b \in Nat /\ Trailer(r) = 1
  BY <1>2, <1>3, RequestType, LenProperties DEF Limits, Trailer
<1>5. Pos' = EndOf(sent', Done' + 1)
  <2>1. EndOf(sent', Done' + 1) = e + Len(url) + 1 + b + 1 /\ Pos' = (e + Len(url) + 1 + b) + 1
    BY <1>2, <1>3, <1>4
  <2> HIDE DEF r, b, e
  <2>2. QED
    BY <1>3, <1>4, <2>1
<1>6. err' = "PAUSED" /\ keep_alive' = r.keep
  BY <1>1, <1>2 DEF MessageComplete
<1>7. AtEnd'
  BY <1>1, <1>2, <1>3, <1>5, <1>6 DEF AtEnd
<1>8. QED
  BY <1>1, <1>6, <1>7 DEF Limits

LEMMA ExecuteOrdered ==
  ASSUME Ordered, Execute, last_status \notin Stuck
  PROVE  Ordered'
<1>1. /\ pc = "execute" /\ pc' = "execute" /\ err = "OK" /\ off + consumed < Len(buf)
      /\ consumed' = consumed + 1 /\ UNCHANGED <<sent, wire, buf, off, dispatched, last_status>>
      /\ OnUrl \/ OnHeadersComplete \/ OnBody \/ OnLastChunk \/ OnJunk
  BY DEF Execute, history
<1>2. UNCHANGED <<Done, Current, Open>> /\ Open
  BY <1>1 DEF Done, Current, Open
<1>3. /\ Stream /\ Limits /\ ~complete /\ (InLine \/ InBody)
  BY <1>1, <1>2 DEF Ordered, Parsing
<1>4. Done \in 0..Len(sent)
  BY SeqDomain, Sizes DEF Ordered, Past, Done
<1>5. /\ Stream' /\ Pos' = Pos + 1 /\ Pos \in Nat /\ Pos < Len(Bytes(sent))
      /\ Unit = Bytes(sent)[Pos + 1]
  BY <1>1, <1>3, TakesOne
<1>6. Past'
  <2>1. IsSeq(dispatched)' /\ Done' <= Len(sent')
    BY <1>1, <1>2 DEF Ordered, Past
  <2>2. QED
    BY <1>1, <1>2, <2>1 DEF Ordered, Past, Parsed, Acceptable
<1>7. /\ Limits'
      /\ \/ err' \in {"USER", "INVALID"} /\ ~complete'
         \/ err' = "OK" /\ ~complete' /\ (InLine' \/ InBody')
         \/ err' = "PAUSED" /\ AtEnd'
  <2>1. CASE OnUrl
    <3>1. InLine
      BY <1>3, <2>1 DEF OnUrl, InBody
    <3>2. QED
      BY <1>1, <1>2, <1>3, <1>4, <1>5, <2>1, <3>1, OnUrlKeeps
  <2>2. CASE OnHeadersComplete
    <3>1. InLine
      BY <1>3, <2>2 DEF OnHeadersComplete, InBody
    <3>2. QED
      BY <1>1, <1>2, <1>3, <1>4, <1>5, <2>2, <3>1, OnHeadersKeeps
  <2>3. CASE OnBody
    <3>1. InBody
      BY <1>3, <2>3 DEF OnBody, InLine
    <3>2. QED
      BY <1>1, <1>2, <1>3, <1>4, <1>5, <2>3, <3>1, OnBodyKeeps
  <2>4. CASE OnLastChunk
    <3>1. InBody
      BY <1>3, <2>4 DEF OnLastChunk, InLine
    <3>2. QED
      BY <1>1, <1>2, <1>3, <1>4, <1>5, <2>4, <3>1, OnLastChunkKeeps
  <2>5. CASE OnJunk
    <3>1. err' = "INVALID" /\ UNCHANGED <<url, body, complete>>
      BY <2>5 DEF OnJunk
    <3>2. QED
      BY <1>3, <3>1 DEF Limits
  <2>6. QED
    BY <1>1, <2>1, <2>2, <2>3, <2>4, <2>5
<1>8. Parsing'
  BY <1>1, <1>7 DEF Parsing
<1>9. QED
  BY <1>1, <1>5, <1>6, <1>7, <1>8 DEF Ordered

LEMMA OrderedKept ==
  ASSUME Matched, Ordered, [Next]_vars
  PROVE  Ordered'
<1>1. CASE UNCHANGED vars
  BY <1>1, QuietOrdered DEF vars, parser, connection, history
<1>2. ASSUME NEW n \in 1..ReadCap, OnRead(n)  PROVE Ordered'
  <2>1. gen_owned => ~Open
    BY DEF Matched, Open, Stuck
  <2>2. QED
    BY <1>2, <2>1, ReadOrdered
<1>3. CASE OnEof \/ OnWrite \/ OnConnClose \/ GenFinish
  <2>1. /\ pc = "idle"
        /\ UNCHANGED <<sent, wire, url, body, complete, keep_alive, last_status, method, ll, err,
                       consumed, pc, buf, off, dispatched>>
    BY <1>3 DEF OnEof, OnWrite, OnConnClose, GenFinish, parser, history
  <2>2. QED
    BY <2>1, QuietOrdered
<1>4. CASE FeedComplete
  <2>1. last_status \notin Stuck
    BY <1>4 DEF FeedComplete, Returned, Matched
  <2>2. QED
    BY <1>4, <2>1, FeedCompleteOrdered
<1>5. CASE Execute
  <2>1. last_status \notin Stuck
    BY <1>5 DEF Execute, Matched
  <2>2. QED
    BY <1>5, <2>1, ExecuteOrdered
<1>6. QED
  BY <1>1, <1>2, <1>3, <1>4, <1>5, LoopEndsOrdered, RefusesOrdered, FeedExecuteOrdered,
     FeedIncompleteOrdered, AfterDispatchOrdered DEF Next, Loop

(* Whatever a peer sends and wherever TCP cuts it, the requests dispatched *)
(* are those sent, in their order, each exactly as sent and within the     *)
(* limits, up to the first that asks to close or is refused; and no more   *)
(* than the limits is ever buffered.                                       *)
THEOREM DispatchedAsSent == Spec => []InOrder
<1>1. Ordered => InOrder
  <2> SUFFICES ASSUME Ordered PROVE InOrder
    OBVIOUS
  <2>1. DOMAIN dispatched = 1..Done /\ Done \in Nat
    BY SeqDomain DEF Ordered, Past, Done
  <2>2. \A i \in 1..Done : \A j \in 1..i : j \in 1..Done
    BY <2>1
  <2>3. QED
    BY <2>1, <2>2 DEF Ordered, Past, Limits, InOrder, Done
<1>2. Init => Matched /\ Ordered
  BY InitMatched, InitOrdered
<1>3. Matched /\ Ordered /\ [Next]_vars => Matched' /\ Ordered'
  BY MatchedKept, OrderedKept
<1>4. QED
  BY <1>1, <1>2, <1>3, PTL DEF Spec

-----------------------------------------------------------------------------
(* Requests end one after another.                                         *)
LEMMA EndsGrow ==
  ASSUME NEW s \in Seq(Requests), NEW k \in 0..Len(s), NEW i \in k..Len(s)
  PROVE  EndOf(s, k) <= EndOf(s, i)
<1> DEFINE n == Len(s)
           S == {d \in 0..(n - k) : EndOf(s, k) <= EndOf(s, k + d)}
<1>0. n \in Nat /\ Len(Bytes(s)) \in Nat
  BY Layout, LenProperties
<1>1. \A j \in 0..n : EndOf(s, j) \in Nat
  BY <1>0, Layout
<1>2. \A j \in 0..(n - 1) : EndOf(s, j) <= EndOf(s, j + 1)
  <2> TAKE j \in 0..(n - 1)
  <2>1. j \in 0..n /\ j + 1 \in 1..n /\ s[j + 1] \in Requests
    BY <1>0
  <2>2. EndOf(s, j + 1) = EndOf(s, j) + Len(Units(s[j + 1])) /\ Len(Units(s[j + 1])) \in Nat
    BY <2>1, Layout, UnitsShape
  <2>3. QED
    BY <1>1, <2>1, <2>2
<1>3. 0 \in S
  <2>1. k + 0 = k /\ 0 \in 0..(n - k) /\ EndOf(s, k) <= EndOf(s, k)
    BY <1>0, <1>1
  <2>2. QED
    BY <2>1
<1>4. ASSUME NEW d \in 0..(n - k - 1), d \in S  PROVE d + 1 \in S
  <2>1. /\ k + d \in 0..(n - 1) /\ k + d \in 0..n /\ (k + d) + 1 = k + (d + 1)
        /\ k + (d + 1) \in 0..n /\ d + 1 \in 0..(n - k)
    BY <1>0
  <2>2. EndOf(s, k) <= EndOf(s, k + d) /\ EndOf(s, k + d) <= EndOf(s, k + (d + 1))
    BY <1>2, <1>4, <2>1
  <2>3. EndOf(s, k) <= EndOf(s, k + (d + 1))
    BY <1>1, <2>1, <2>2
  <2>4. QED
    BY <2>1, <2>3
<1>5. S \in SUBSET (0..(n - k)) /\ n - k \in Nat /\ (n - k) - 1 = n - k - 1
  BY <1>0
<1>6. i - k \in 0..(n - k) /\ k + (i - k) = i
  BY <1>0
<1>7. i - k \in S
  <2> HIDE DEF S
  <2>1. QED
    BY <1>3, <1>4, <1>5, <1>6, UpTo
<1>8. QED
  BY <1>6, <1>7

(* Between two reads, a connection that serves has served every request    *)
(* that has arrived in full.                                               *)
LEMMA ServedAll ==
  ASSUME Ordered
  PROVE  AllServed
<1> SUFFICES ASSUME pc = "idle", last_status = "INCOMPLETE"
             PROVE  Done = Whole(Len(Bytes(sent)) - Len(wire))
  BY DEF AllServed, Done
<1> DEFINE m == Len(Bytes(sent)) - Len(wire)
           n == Len(sent)
           ends == {i \in 1..n : EndOf(sent, i) <= m}
           e == EndOf(sent, Done)
<1>1. Stream /\ Limits /\ Open /\ (InLine \/ InBody) /\ sent \in Seq(Requests)
  BY DEF Ordered, Parsing, Open, Stuck, Stream
<1>2. n \in Nat /\ Done \in 0..n /\ Len(Bytes(sent)) \in Nat /\ Len(wire) \in Nat
  BY <1>1, SeqDomain, Sizes DEF Ordered, Past, Done
<1>3. Pos = m
  <2>1. buf = <<>> /\ off = 0 /\ Len(buf) = 0 /\ Taken = 0
    BY <1>1 DEF Stream, Taken
  <2>2. Pos = m - 0 + 0 + 0
    BY <2>1 DEF Pos
  <2>3. QED
    BY <1>2, <2>2
<1>4. e \in Nat /\ e <= m
  <2>1. e \in Nat
    BY <1>1, <1>2, Layout
  <2>2. Len(url) \in Nat /\ Len(body) \in Nat
    BY <1>1, LenProperties DEF Limits
  <2>3. Pos = e + Len(url) \/ Pos = e + Len(url) + 1 + Len(body)
    BY <1>1 DEF InLine, InBody
  <2> HIDE DEF e, m
  <2>4. QED
    BY <1>3, <2>1, <2>2, <2>3
<1>5. Done < n => EndOf(sent, Done + 1) > m
  <2> SUFFICES ASSUME Done < n PROVE EndOf(sent, Done + 1) > m
    OBVIOUS
  <2> DEFINE r == Current
             u == Len(Units(r))
             p == Len(url)
             q == Len(body)
             t == Len(r.target)
             b == Len(r.body)
             c == Trailer(r)
  <2>1. Done \in 0..(n - 1) /\ Done + 1 \in 1..n /\ r \in Requests
    <3>1. Done \in 0..(n - 1) /\ Done + 1 \in 1..n
      BY <1>2
    <3>2. QED
      BY <1>1, <3>1 DEF Current
  <2>2. EndOf(sent, Done + 1) = e + u /\ u \in Nat
    BY <1>1, <2>1, Layout, UnitsShape DEF Current
  <2>3. p \in Nat /\ q \in Nat /\ t \in Nat /\ b \in Nat /\ c \in Nat
    BY <1>1, <2>1, RequestType, LenProperties DEF Limits, Trailer
  <2>4. r.frame = "bad" => u = 1
    BY <2>1, UnitsShape
  <2>5. r.frame # "bad" => u = t + 1 + b + c
    BY <2>1, UnitsShape DEF Trailer
  <2>6. CASE InLine
    <3>1. Pos = e + p
      BY <2>6 DEF InLine
    <3>2. r.frame = "bad" => p = 0
      BY <2>6 DEF InLine
    <3>3. r.frame # "bad" => p <= t
      BY <2>6 DEF InLine, IsPrefix
    <3> HIDE DEF e, m, n, r, u, p, q, t, b, c
    <3>4. p < u
      BY <2>3, <2>4, <2>5, <3>2, <3>3
    <3>5. QED
      BY <1>3, <1>4, <2>2, <2>3, <3>1, <3>4
  <2>7. CASE InBody
    <3>1. Pos = e + p + 1 + q /\ r.frame # "bad" /\ p = t
      BY <2>7 DEF InBody
    <3>2. q <= b
      BY <2>7 DEF InBody, IsPrefix
    <3>3. (ll.at = "body" /\ ll.left = b - q /\ ll.left >= 1) \/ c = 1
      BY <2>7 DEF InBody, Trailer
    <3> HIDE DEF e, m, n, r, u, p, q, t, b, c
    <3>4. p + 1 + q < u
      BY <2>3, <2>5, <3>1, <3>2, <3>3
    <3>5. QED
      BY <1>3, <1>4, <2>2, <2>3, <3>1, <3>4
  <2>8. QED
    BY <1>1, <2>6, <2>7
<1>6. \A i \in 1..n : i \in ends <=> i <= Done
  <2> TAKE i \in 1..n
  <2>1. i \in 0..n /\ EndOf(sent, i) \in Nat
    BY <1>1, <1>2, Layout
  <2>2. CASE i <= Done
    <3>1. Done \in i..n
      BY <1>2, <2>2
    <3>2. EndOf(sent, i) <= e
      BY <1>1, <2>1, <3>1, EndsGrow
    <3>3. QED
      BY <1>2, <1>4, <2>1, <2>2, <3>2
  <2>3. CASE i > Done
    <3>1. Done < n /\ Done + 1 \in 0..n /\ i \in (Done + 1)..n
      BY <1>2, <2>3
    <3>2. EndOf(sent, Done + 1) <= EndOf(sent, i) /\ EndOf(sent, Done + 1) \in Nat
      BY <1>1, <1>2, <3>1, EndsGrow, Layout
    <3>3. EndOf(sent, Done + 1) > m /\ m \in Int
      BY <1>2, <1>5, <3>1
    <3>4. ~(EndOf(sent, i) <= m)
      BY <2>1, <3>2, <3>3
    <3>5. QED
      BY <1>2, <2>3, <3>4
  <2>4. QED
    BY <1>2, <2>2, <2>3
<1>7. Whole(m) = IF ends = {} THEN 0 ELSE CHOOSE i \in ends : \A j \in ends : j <= i
  BY DEF Whole, EndOf
<1>8. ends \subseteq 1..n
  OBVIOUS
<1> HIDE DEF ends, m, n, e
<1>9. CASE Done = 0
  <2>1. ends = {}
    BY <1>2, <1>6, <1>8, <1>9
  <2>2. QED
    BY <1>7, <1>9, <2>1 DEF m
<1>10. CASE Done \in 1..n
  <2>1. Done \in ends /\ (\A j \in ends : j <= Done) /\ \A i \in ends : i \in Nat
    BY <1>2, <1>6, <1>8, <1>10
  <2>2. \A i \in ends : (\A j \in ends : j <= i) => i = Done
    BY <1>2, <2>1
  <2>3. (CHOOSE i \in ends : \A j \in ends : j <= i) = Done
    BY <2>1, <2>2
  <2>4. QED
    BY <1>7, <2>1, <2>3 DEF m
<1>11. QED
  BY <1>2, <1>9, <1>10

(* Between two reads of a connection that serves on, every request that    *)
(* has arrived in full has been dispatched.                                *)
THEOREM NoneWaitsInTheBuffer == Spec => []AllServed
<1>1. Init => Matched /\ Ordered
  BY InitMatched, InitOrdered
<1>2. Matched /\ Ordered /\ [Next]_vars => Matched' /\ Ordered'
  BY MatchedKept, OrderedKept
<1>3. QED
  BY <1>1, <1>2, ServedAll, PTL DEF Spec
=============================================================================
