---------------------------- MODULE EngineProofs ----------------------------
(***************************************************************************)
(* The engine for any number of requests, loads, commands and inputs.      *)
(* First its references (IInv): the count of a stream is exact and nobody  *)
(* can reach a stream that was freed.  Then its generations (Progress, on  *)
(* top of IInv): what the history of a stream may hold wherever the        *)
(* command that carries it is, from which every request that was not       *)
(* withdrawn gets its DONE, no request exceeds its budget, and every step  *)
(* is a step of the contract GenStream states.  Then its shutdown          *)
(* (StopperOK, AccountedOK): no command is left when engine_destroy is     *)
(* done.  Last the verdict of a load (LoadsOK).                            *)
(***************************************************************************)
EXTENDS Engine, FiniteSetTheorems, SequenceTheorems, TLAPS

(* Who owns the engine's reference of a request is where its command is.   *)
(* A queued GENERATE owns it, so there is only one such command; a queued  *)
(* RECLAIM owns the consumer's.                                            *)
Pending(cmd) ==
    /\ cmd.tag = "GENERATE" => post[cmd.arg] \in {"queued", "drained"}
    /\ cmd.tag = "RECLAIM" => client[cmd.arg] = "reclaim" /\ ~(pc = "RECLAIM" /\ cur = cmd.arg)
Owning(cmd) == cmd.tag \in {"GENERATE", "RECLAIM"}

MailboxOK ==
    \A i \in 1..Len(mailbox) :
        /\ Pending(mailbox[i])
        /\ mailbox[i].tag = "GENERATE" => post[mailbox[i].arg] = "queued"
        /\ \A j \in 1..Len(mailbox) : mailbox[i] = mailbox[j] /\ Owning(mailbox[i]) => i = j
        /\ \A j \in 1..Len(batch) : mailbox[i] = batch[j] => ~Owning(mailbox[i])
BatchOK ==
    \A i \in 1..Len(batch) :
        /\ Pending(batch[i])
        /\ \A j \in 1..Len(batch) : batch[i] = batch[j] /\ Owning(batch[i]) => i = j
ThreadOK ==
    /\ pc \in GenerateLabels => post[cur] = "running"
    /\ pc = "RECLAIM" => client[cur] = "reclaim"
    /\ pc = "release" => cur \notin cb
InflightOK ==
    inflight # None => inflight = cur /\ pc \in GenerateLabels \ {"GENERATE", "release"}
CallbackOK == \A r \in cb : post[r] \in {"running", "drained", "reject"}
FreshOK == \A r \in Reqs : post[r] = "none" => client[r] = "none"

Owners == RefsExact /\ ThreadOK /\ InflightOK /\ CallbackOK /\ FreshOK
JoinedOK == stopper \in {"draining", "done"} => pc = "exited"
IInv == TypeOK /\ Owners /\ MailboxOK /\ BatchOK /\ ResidentModel /\ JoinedOK

-----------------------------------------------------------------------------
(* The operations of a stream keep its types.                              *)
LEMMA AppendType ==
  ASSUME NEW S, NEW s \in Seq(S), NEW c \in S
  PROVE  Append(s, c) \in Seq(S) /\ Len(Append(s, c)) = Len(s) + 1
  BY AppendProperties

LEMMA StreamCreateType ==
  ASSUME StreamsTypeOK, NEW r \in Reqs, StreamCreate(r)
  PROVE  StreamsTypeOK'
  BY DEF StreamsTypeOK, StreamCreate

LEMMA StreamPushType ==
  ASSUME StreamsTypeOK, NEW r \in Reqs, NEW c \in Chunks, StreamPush(r, c)
  PROVE  StreamsTypeOK'
<1> USE DEF StreamsTypeOK, StreamPush
<1>1. Append(q[r], c) \in Seq(Chunks) /\ Len(Append(q[r], c)) = Len(q[r]) + 1
  BY AppendType
<1>2. Len(Append(q[r], c)) <= Cap
  BY <1>1, StreamCapAssumption, LenProperties
<1>3. QED
  BY <1>1, <1>2

LEMMA StreamNextType ==
  ASSUME StreamsTypeOK, NEW r \in Reqs, StreamNext(r)
  PROVE  StreamsTypeOK'
<1> USE DEF StreamsTypeOK, StreamNext
<1>1. /\ Tail(q[r]) \in Seq(Chunks) /\ Len(Tail(q[r])) = Len(q[r]) - 1
      /\ Head(q[r]) \in Chunks /\ Len(q[r]) \in Nat
  BY HeadTailProperties, LenProperties
<1>2. Append(got[r], Head(q[r])) \in Seq(Chunks)
  BY <1>1, AppendType
<1>3. Len(Tail(q[r])) <= Cap
  BY <1>1, StreamCapAssumption
<1>4. QED
  BY <1>1, <1>2, <1>3

LEMMA StreamCancelType ==
  ASSUME StreamsTypeOK, NEW r \in Reqs, StreamCancel(r)
  PROVE  StreamsTypeOK'
  BY DEF StreamsTypeOK, StreamCancel

LEMMA StreamFinishCancelledType ==
  ASSUME StreamsTypeOK, NEW r \in Reqs, StreamFinishCancelled(r)
  PROVE  StreamsTypeOK'
<1> USE DEF StreamsTypeOK, StreamFinishCancelled
<1> DEFINE new == IF Len(q[r]) < Cap THEN Append(q[r], "cancelled")
                                     ELSE [q[r] EXCEPT ![Cap] = "cancelled"]
<1>1. "cancelled" \in Chunks
  BY DEF Chunks, Terminals
<1>2. new \in Seq(Chunks) /\ Len(new) <= Cap
  <2>1. CASE Len(q[r]) < Cap
    BY <1>1, <2>1, AppendType, StreamCapAssumption, LenProperties
  <2>2. CASE ~(Len(q[r]) < Cap)
    BY <1>1, <2>2, StreamCapAssumption, LenProperties
  <2>3. QED
    BY <2>1, <2>2
<1>3. q' = [q EXCEPT ![r] = new]
  BY Zenon
<1> HIDE DEF new
<1>4. q' \in [Reqs -> Seq(Chunks)] /\ \A x \in Reqs : Len(q'[x]) <= Cap
  BY <1>2, <1>3
<1>5. QED
  BY <1>4

LEMMA CallbackType ==
  ASSUME StreamsTypeOK, NEW r \in Reqs, Callback(r)
  PROVE  StreamsTypeOK'
  BY DEF StreamsTypeOK, Callback

LEMMA StreamReleaseType ==
  ASSUME StreamsTypeOK, NEW r \in Reqs, StreamRelease(r), refs[r] # 0
  PROVE  StreamsTypeOK'
  BY DEF StreamsTypeOK, StreamRelease

LEMMA StreamsUnchanged ==
  ASSUME StreamsTypeOK, UNCHANGED streams
  PROVE  StreamsTypeOK'
  BY DEF StreamsTypeOK, streams

(* A command can be appended, and the head taken off.                      *)
LEMMA EnqueueType ==
  ASSUME MailTypeOK, NEW cmd \in Commands, mailbox' = Append(mailbox, cmd)
  PROVE  mailbox' \in Seq(Commands)
  BY AppendType DEF MailTypeOK

LEMMA EnqueueLabel ==
  ASSUME ThreadTypeOK, UNCHANGED <<cur, pos, emitted, reason>>,
         pc' = IF pc = "asleep" THEN "dequeue" ELSE pc
  PROVE  ThreadTypeOK'
  BY DEF ThreadTypeOK, GenerateLabels, StubLabels, RealLabels, LoadLabels, OtherLabels

-----------------------------------------------------------------------------
(* One lemma per group of actions: the types.                              *)
LEMMA CallerTypes ==
  ASSUME IInv, Caller
  PROVE  TypeOK'
<1> USE DEF thread, loading, asking
<1>1. /\ StreamsTypeOK /\ MailTypeOK /\ ThreadTypeOK /\ LoadTypeOK /\ CallerTypeOK
      /\ RefsExact
  BY DEF IInv, TypeOK, Owners
<1>2. ASSUME NEW r \in Reqs, NewRequest(r)  PROVE TypeOK'
  <2> USE <1>2 DEF NewRequest
  <2>1. StreamsTypeOK'
    BY <1>1, StreamCreateType
  <2>2. CallerTypeOK'
    BY <1>1, BoundsAssumption DEF CallerTypeOK
  <2>3. MailTypeOK' /\ ThreadTypeOK' /\ LoadTypeOK'
    BY <1>1 DEF MailTypeOK, ThreadTypeOK, LoadTypeOK
  <2>4. QED
    BY <2>1, <2>2, <2>3 DEF TypeOK
<1>3. ASSUME NEW r \in Reqs, EnginePost(r)  PROVE TypeOK'
  <2> USE <1>3 DEF EnginePost, Enqueue
  <2>1. StreamsTypeOK'
    BY <1>1, StreamFinishCancelledType, StreamsUnchanged
  <2>2. mailbox' \in Seq(Commands)
    BY <1>1, EnqueueType DEF MailTypeOK, Commands
  <2>3. ThreadTypeOK'
    <3>1. CASE shutdown
      BY <1>1, <3>1 DEF ThreadTypeOK
    <3>2. CASE ~shutdown
      BY <1>1, <3>2, EnqueueLabel
    <3>3. QED
      BY <3>1, <3>2
  <2>4. MailTypeOK' /\ LoadTypeOK' /\ CallerTypeOK'
    BY <1>1, <2>2 DEF MailTypeOK, LoadTypeOK, CallerTypeOK
  <2>5. QED
    BY <2>1, <2>3, <2>4 DEF TypeOK
<1>4. ASSUME NEW r \in Reqs, RejectRelease(r) \/ DropStream(r)  PROVE TypeOK'
  <2> USE <1>4 DEF RejectRelease, DropStream
  <2>1. refs[r] # 0
    BY <1>1 DEF RefsExact
  <2>2. StreamsTypeOK'
    BY <1>1, <2>1, StreamReleaseType
  <2>3. MailTypeOK' /\ ThreadTypeOK' /\ LoadTypeOK'
    BY <1>1 DEF MailTypeOK, ThreadTypeOK, LoadTypeOK
  <2>4. CallerTypeOK'
    BY <1>1 DEF CallerTypeOK
  <2>5. QED
    BY <2>2, <2>3, <2>4 DEF TypeOK
<1>5. ASSUME NEW r \in Reqs, Take(r) \/ Withdraw(r)  PROVE TypeOK'
  <2> USE <1>5 DEF Take, Withdraw
  <2>1. StreamsTypeOK'
    BY <1>1, StreamNextType, StreamCancelType
  <2>2. MailTypeOK' /\ ThreadTypeOK' /\ LoadTypeOK' /\ CallerTypeOK'
    BY <1>1 DEF MailTypeOK, ThreadTypeOK, LoadTypeOK, CallerTypeOK
  <2>3. QED
    BY <2>1, <2>2 DEF TypeOK
<1>6. ASSUME NEW r \in Reqs, PostReclaim(r)  PROVE TypeOK'
  <2> USE <1>6 DEF PostReclaim, Enqueue
  <2>1. refs[r] # 0
    BY <1>1 DEF RefsExact
  <2>2. StreamsTypeOK'
    BY <1>1, <2>1, StreamReleaseType, StreamsUnchanged
  <2>3. mailbox' \in Seq(Commands)
    BY <1>1, EnqueueType DEF MailTypeOK, Commands
  <2>4. ThreadTypeOK'
    <3>1. CASE shutdown
      BY <1>1, <3>1 DEF ThreadTypeOK
    <3>2. CASE ~shutdown
      BY <1>1, <3>2, EnqueueLabel
    <3>3. QED
      BY <3>1, <3>2
  <2>5. MailTypeOK' /\ LoadTypeOK' /\ CallerTypeOK'
    BY <1>1, <2>3 DEF MailTypeOK, LoadTypeOK, CallerTypeOK
  <2>6. QED
    BY <2>2, <2>4, <2>5 DEF TypeOK
<1>7. ASSUME NEW l \in Loads, PostLoad(l) \/ WaitLoad(l)  PROVE TypeOK'
  <2> USE <1>7 DEF PostLoad, WaitLoad
  <2>1. StreamsTypeOK'
    BY <1>1, StreamsUnchanged
  <2>2. LoadTypeOK' /\ MailTypeOK'
    BY <1>1 DEF LoadTypeOK, MailTypeOK
  <2>3. ThreadTypeOK' /\ CallerTypeOK'
    BY <1>1 DEF ThreadTypeOK, CallerTypeOK
  <2>4. QED
    BY <2>1, <2>2, <2>3 DEF TypeOK
<1>8. ASSUME NEW l \in Loads, PostLoadEnqueue(l)  PROVE TypeOK'
  <2> USE <1>8 DEF PostLoadEnqueue, Enqueue
  <2>1. StreamsTypeOK'
    BY <1>1, StreamsUnchanged
  <2>2. mailbox' \in Seq(Commands)
    BY <1>1, EnqueueType DEF Commands
  <2>3. LoadTypeOK' /\ MailTypeOK' /\ CallerTypeOK'
    BY <1>1, <2>2 DEF LoadTypeOK, MailTypeOK, CallerTypeOK
  <2>4. ThreadTypeOK'
    BY <1>1, EnqueueLabel
  <2>5. QED
    BY <2>1, <2>3, <2>4 DEF TypeOK
<1>9. ASSUME NEW tag \in Misc, PostMisc(tag)  PROVE TypeOK'
  <2> USE <1>9 DEF PostMisc, Enqueue
  <2>1. StreamsTypeOK'
    BY <1>1, StreamsUnchanged
  <2>2. [tag |-> tag, arg |-> None] \in Commands
    BY MiscAssumption DEF Commands
  <2>3. mailbox' \in Seq(Commands)
    BY <1>1, <2>2, EnqueueType DEF MailTypeOK
  <2>4. ThreadTypeOK'
    <3>1. CASE shutdown
      BY <1>1, <3>1 DEF ThreadTypeOK
    <3>2. CASE ~shutdown
      BY <1>1, <3>2, EnqueueLabel
    <3>3. QED
      BY <3>1, <3>2
  <2>5. LoadTypeOK' /\ MailTypeOK' /\ CallerTypeOK'
    BY <1>1, <2>3 DEF LoadTypeOK, MailTypeOK, CallerTypeOK
  <2>6. QED
    BY <2>1, <2>4, <2>5 DEF TypeOK
<1>10. QED
  BY <1>2, <1>3, <1>4, <1>5, <1>6, <1>7, <1>8, <1>9 DEF Caller

LEMMA ThreadTypes ==
  ASSUME IInv, Loop \/ MailboxDequeue \/ HandleReclaim \/ HandleEmbed \/ HandleUnload
               \/ HandleLoad \/ LoadDone \/ LoadFailed
  PROVE  TypeOK'
<1> USE DEF loading, asking, Goto
<1>1. /\ StreamsTypeOK /\ MailTypeOK /\ ThreadTypeOK /\ LoadTypeOK /\ CallerTypeOK
      /\ RefsExact /\ ThreadOK
  BY DEF IInv, TypeOK, Owners
<1> USE DEF GenerateLabels, StubLabels, RealLabels, LoadLabels, OtherLabels
<1>2. CASE Loop \/ HandleEmbed
  <2> USE <1>2 DEF Loop, HandleEmbed
  <2>1. StreamsTypeOK'
    BY <1>1, StreamsUnchanged
  <2>2. ThreadTypeOK'
    BY <1>1 DEF ThreadTypeOK
  <2>3. MailTypeOK' /\ LoadTypeOK' /\ CallerTypeOK'
    BY <1>1 DEF MailTypeOK, LoadTypeOK, CallerTypeOK
  <2>4. QED
    BY <2>1, <2>2, <2>3 DEF TypeOK
<1>3. CASE MailboxDequeue
  <2> USE <1>3 DEF MailboxDequeue
  <2>1. StreamsTypeOK'
    BY <1>1, StreamsUnchanged
  <2>2. CASE mailbox = <<>>
    <3>1. ThreadTypeOK'
      BY <1>1, <2>2 DEF ThreadTypeOK
    <3>2. MailTypeOK' /\ LoadTypeOK' /\ CallerTypeOK'
      BY <1>1, <2>2 DEF MailTypeOK, LoadTypeOK, CallerTypeOK
    <3>3. QED
      BY <2>1, <3>1, <3>2 DEF TypeOK
  <2>3. CASE mailbox # <<>>
    <3>1. Head(mailbox) \in Commands /\ Tail(mailbox) \in Seq(Commands)
      BY <1>1, <2>3, HeadTailProperties DEF MailTypeOK
    <3>2. ThreadTypeOK'
      BY <1>1, <2>3, <3>1, NoneAssumption DEF ThreadTypeOK, Commands
    <3>3. post' \in [Reqs -> {"none", "new", "queued", "running", "drained", "reject", "released"}]
      BY <1>1, <2>3, <3>1 DEF CallerTypeOK, Commands
    <3>4. MailTypeOK' /\ LoadTypeOK' /\ CallerTypeOK'
      BY <1>1, <2>3, <3>1, <3>3 DEF MailTypeOK, LoadTypeOK, CallerTypeOK
    <3>5. QED
      BY <2>1, <3>2, <3>4 DEF TypeOK
  <2>4. QED
    BY <2>2, <2>3
<1>4. CASE HandleReclaim
  <2> USE <1>4 DEF HandleReclaim
  <2>1. cur \in Reqs /\ refs[cur] # 0
    BY <1>1 DEF RefsExact, ThreadOK, ThreadTypeOK
  <2>2. StreamsTypeOK'
    BY <1>1, <2>1, StreamReleaseType
  <2>3. ThreadTypeOK'
    BY <1>1 DEF ThreadTypeOK
  <2>4. MailTypeOK' /\ LoadTypeOK'
    BY <1>1 DEF MailTypeOK, LoadTypeOK
  <2>5. CallerTypeOK'
    BY <1>1, <2>1 DEF CallerTypeOK
  <2>6. QED
    BY <2>2, <2>3, <2>4, <2>5 DEF TypeOK
<1>5. CASE HandleUnload \/ HandleLoad \/ LoadDone \/ LoadFailed
  <2> USE <1>5 DEF HandleUnload, HandleLoad, LoadDone, LoadFailed
  <2>1. StreamsTypeOK'
    BY <1>1, StreamsUnchanged
  <2>2. ThreadTypeOK'
    BY <1>1 DEF ThreadTypeOK
  <2>3. LoadTypeOK'
    BY <1>1 DEF LoadTypeOK, ThreadTypeOK
  <2>4. MailTypeOK' /\ CallerTypeOK'
    BY <1>1 DEF MailTypeOK, CallerTypeOK
  <2>5. QED
    BY <2>1, <2>2, <2>3, <2>4 DEF TypeOK
<1>6. QED
  BY <1>2, <1>3, <1>4, <1>5

(* The thread's own variables while it handles a GENERATE.                 *)
LEMMA GenerateTypes ==
  ASSUME IInv, Generate
  PROVE  TypeOK'
<1> USE DEF loading, asking, Goto
<1>1. /\ StreamsTypeOK /\ MailTypeOK /\ ThreadTypeOK /\ LoadTypeOK /\ CallerTypeOK
      /\ RefsExact /\ ThreadOK /\ ResidentModel
  BY DEF IInv, TypeOK, Owners
<1> USE DEF GenerateLabels, StubLabels, RealLabels, LoadLabels, OtherLabels
<1>2. ASSUME pc \in GenerateLabels, Generating, inflight' \in {inflight, cur, None},
             StreamsTypeOK', ThreadTypeOK'
      PROVE  TypeOK'
  <2>1. cur \in Reqs
    BY <1>1, <1>2 DEF ThreadTypeOK
  <2>2. MailTypeOK' /\ LoadTypeOK'
    BY <1>1, <1>2 DEF Generating, MailTypeOK, LoadTypeOK
  <2>3. CallerTypeOK'
    BY <1>1, <1>2, <2>1 DEF Generating, CallerTypeOK
  <2>4. QED
    BY <1>2, <2>2, <2>3 DEF TypeOK
<1>3. ASSUME pc \in GenerateLabels, NEW l \in GenerateLabels, Step(l)
      PROVE  TypeOK'
  <2> USE <1>3 DEF Step
  <2>1. StreamsTypeOK'
    BY <1>1, StreamsUnchanged
  <2>2. ThreadTypeOK'
    BY <1>1 DEF ThreadTypeOK
  <2>3. QED
    BY <1>2, <2>1, <2>2
<1>4. ASSUME pc \in GenerateLabels, NEW why \in Errors \cup Terminals,
             FailWith(why) \/ DoneWith(why)
      PROVE  TypeOK'
  <2> USE <1>4 DEF FailWith, DoneWith
  <2>1. StreamsTypeOK'
    BY <1>1, StreamsUnchanged
  <2>2. ThreadTypeOK'
    BY <1>1 DEF ThreadTypeOK
  <2>3. QED
    BY <1>2, <2>1, <2>2
<1>5. ASSUME pc \in GenerateLabels, NEW c \in Chunks, NEW l \in GenerateLabels,
             NEW m \in GenerateLabels, Push(c, l, m), emitted' \in Nat,
             reason' \in Errors \cup Terminals
      PROVE  TypeOK'
  <2> USE <1>5 DEF Push
  <2>1. cur \in Reqs
    BY <1>1 DEF ThreadTypeOK
  <2>2. StreamsTypeOK'
    BY <1>1, <2>1, StreamPushType, StreamsUnchanged DEF StreamPushRefused
  <2>3. ThreadTypeOK'
    BY <1>1 DEF ThreadTypeOK
  <2>4. QED
    BY <1>2, <2>2, <2>3
<1> DEFINE Kinds == Errors \cup Terminals
<1>6. {"internal", "context", "stop", "length"} \subseteq Kinds /\ Kinds \subseteq Chunks
      /\ "token" \in Chunks
  BY DEF Errors, Terminals, Chunks
<1> HIDE DEF Kinds
<1>7. emitted \in Nat /\ reason \in Kinds /\ pos \in Nat
  BY <1>1 DEF ThreadTypeOK, Kinds
<1> DEFINE Counted == emitted' = IF cancelled[cur] THEN emitted ELSE emitted + 1
<1>a. ASSUME Counted  PROVE emitted' \in Nat
  <2>1. emitted \in Nat /\ emitted + 1 \in Nat
    BY <1>7
  <2>2. CASE cancelled[cur]
    BY <1>a, <2>1, <2>2
  <2>3. CASE ~cancelled[cur]
    BY <1>a, <2>1, <2>3
  <2>4. QED
    BY <2>2, <2>3
<1> HIDE DEF Counted
<1>8. CASE SetInflight
  <2> USE <1>8 DEF SetInflight
  <2>1. StreamsTypeOK'
    BY <1>1, StreamsUnchanged
  <2>2. ThreadTypeOK'
    BY <1>1 DEF ThreadTypeOK
  <2>3. QED
    BY <1>2, <2>1, <2>2
<1>9. CASE CheckLoadState
  BY <1>1, <1>3, <1>4, <1>6, <1>9 DEF CheckLoadState, ResidentModel, LoadTypeOK, Kinds
<1>10. CASE Stub
  BY <1>3, <1>4, <1>6, <1>10 DEF Stub, Kinds
<1>11. CASE StubPush
  <2>1. emitted' \in Nat /\ reason' \in Kinds
    BY <1>7, <1>a, <1>11 DEF StubPush, Counted
  <2>2. QED
    BY <1>5, <1>6, <2>1, <1>11 DEF StubPush, Kinds
<1>12. CASE Real
  BY <1>3, <1>4, <1>6, <1>12 DEF Real, Kinds
<1>13. CASE Prefill
  <2>1. ASSUME pos' = (IF pos + PrefillChunk > input[cur].n - 1
                         THEN input[cur].n - 1 ELSE pos + PrefillChunk),
               pos < input[cur].n - 1, pc = "prefill", pc' = "prefill", Generating,
               UNCHANGED <<streams, inflight, cur, emitted, reason>>
        PROVE  TypeOK'
    <3>1. input[cur].n \in Nat
      BY <1>1, <2>1 DEF ThreadTypeOK, CallerTypeOK
    <3>2. pos' \in Nat
      BY <1>7, <2>1, <3>1, BoundsAssumption
    <3>3. StreamsTypeOK'
      BY <1>1, <2>1, StreamsUnchanged
    <3>4. ThreadTypeOK'
      BY <1>1, <2>1, <3>2 DEF ThreadTypeOK
    <3>5. QED
      BY <1>2, <2>1, <3>3, <3>4
  <2>2. QED
    BY <1>3, <1>4, <1>6, <1>13, <2>1 DEF Prefill, Kinds
<1>14. CASE Seed \/ Decode
  BY <1>3, <1>4, <1>6, <1>14 DEF Seed, Decode, Kinds
<1>15. CASE DecodePush
  <2> USE <1>15 DEF DecodePush
  <2>1. emitted' \in Nat
    BY <1>a DEF Counted
  <2>2. reason' \in Kinds
    BY <1>6, <1>7
  <2>3. QED
    BY <1>5, <1>6, <2>1, <2>2 DEF Kinds
<1>16. CASE PushDone \/ FailError \/ FailDone
  BY <1>5, <1>6, <1>7, <1>16 DEF PushDone, FailError, FailDone, Kinds
<1>17. CASE Abort
  <2> USE <1>17 DEF Abort
  <2>1. cur \in Reqs
    BY <1>1 DEF ThreadTypeOK
  <2>2. StreamsTypeOK'
    BY <1>1, <2>1, StreamFinishCancelledType
  <2>3. ThreadTypeOK'
    BY <1>1 DEF ThreadTypeOK
  <2>4. QED
    BY <1>2, <2>2, <2>3
<1>18. CASE FailRefused
  BY <1>3, <1>18 DEF FailRefused
<1>19. CASE ClearInflight
  <2> USE <1>19 DEF ClearInflight
  <2>1. StreamsTypeOK'
    BY <1>1, StreamsUnchanged
  <2>2. ThreadTypeOK'
    BY <1>1 DEF ThreadTypeOK
  <2>3. QED
    BY <1>2, <2>1, <2>2
<1>20. CASE GenerateRelease
  <2> USE <1>20 DEF GenerateRelease
  <2>1. cur \in Reqs /\ refs[cur] # 0
    BY <1>1 DEF RefsExact, ThreadOK, ThreadTypeOK
  <2>2. StreamsTypeOK'
    BY <1>1, <2>1, StreamReleaseType
  <2>3. ThreadTypeOK'
    BY <1>1, <1>6 DEF ThreadTypeOK, Kinds
  <2>4. MailTypeOK' /\ LoadTypeOK'
    BY <1>1 DEF MailTypeOK, LoadTypeOK
  <2>5. CallerTypeOK'
    BY <1>1, <2>1 DEF CallerTypeOK
  <2>6. QED
    BY <2>2, <2>3, <2>4, <2>5 DEF TypeOK
<1>21. QED
  BY <1>8, <1>9, <1>10, <1>11, <1>12, <1>13, <1>14, <1>15, <1>16, <1>17, <1>18, <1>19,
     <1>20 DEF Generate

(* The head of a batch is the command being cancelled.                     *)
LEMMA HeadOfBatch ==
  ASSUME IInv, batch # <<>>
  PROVE  /\ 1 \in 1..Len(batch) /\ Head(batch) = batch[1] /\ Head(batch) \in Commands
         /\ Tail(batch) \in Seq(Commands) /\ Len(Tail(batch)) = Len(batch) - 1
         /\ \A i \in 1..Len(Tail(batch)) : Tail(batch)[i] = batch[i + 1]
         /\ Head(batch).tag = "GENERATE" => Head(batch).arg \in Reqs
         /\ Head(batch).tag = "RECLAIM" =>
               Head(batch).arg \in Reqs /\ client[Head(batch).arg] = "reclaim"
<1>1. batch \in Seq(Commands) /\ Len(batch) \in Nat /\ Len(batch) # 0
  BY EmptySeq, LenProperties DEF IInv, TypeOK, MailTypeOK
<1>2. /\ 1 \in 1..Len(batch) /\ Head(batch) = batch[1] /\ Head(batch) \in Commands
      /\ Tail(batch) \in Seq(Commands) /\ Len(Tail(batch)) = Len(batch) - 1
      /\ \A i \in 1..Len(Tail(batch)) : Tail(batch)[i] = batch[i + 1]
  BY <1>1, HeadTailProperties
<1>3. /\ Head(batch).tag = "GENERATE" => Head(batch).arg \in Reqs
      /\ Head(batch).tag = "RECLAIM" => Head(batch).arg \in Reqs
  BY <1>2 DEF Commands
<1>4. Head(batch).tag = "RECLAIM" => client[Head(batch).arg] = "reclaim"
  BY <1>2 DEF IInv, BatchOK, Pending
<1>5. QED
  BY <1>2, <1>3, <1>4

LEMMA DrainTypes ==
  ASSUME IInv, DrainTake \/ DrainTerminal \/ DrainDrop
  PROVE  /\ StreamsTypeOK' /\ MailTypeOK' /\ LoadTypeOK'
         /\ UNCHANGED <<shutdown, inflight, input, withdrawn>>
         /\ post' \in [Reqs -> {"none", "new", "queued", "running", "drained", "reject",
                                "released"}]
         /\ client' \in [Reqs -> {"none", "hold", "reclaim", "dropped"}]
<1> USE DEF loading, asking
<1>1. /\ StreamsTypeOK /\ MailTypeOK /\ LoadTypeOK /\ CallerTypeOK
      /\ RefsExact
  BY DEF IInv, TypeOK, Owners
<1>2. CASE DrainTake
  <2> USE <1>2 DEF DrainTake
  <2>1. StreamsTypeOK'
    BY <1>1, StreamsUnchanged
  <2>2. MailTypeOK' /\ LoadTypeOK'
    BY <1>1 DEF MailTypeOK, LoadTypeOK
  <2>3. QED
    BY <1>1, <2>1, <2>2 DEF CallerTypeOK
<1>3. CASE DrainTerminal
  <2> USE <1>3 DEF DrainTerminal
  <2>1. Head(batch).arg \in Reqs
    BY HeadOfBatch
  <2>2. StreamsTypeOK'
    BY <1>1, <2>1, StreamFinishCancelledType
  <2>3. MailTypeOK' /\ LoadTypeOK'
    BY <1>1 DEF MailTypeOK, LoadTypeOK
  <2>4. QED
    BY <1>1, <2>1, <2>2, <2>3 DEF CallerTypeOK
<1>4. CASE DrainDrop
  <2> USE <1>4 DEF DrainDrop
  <2>1. MailTypeOK' /\ LoadTypeOK'
    BY <1>1, HeadOfBatch DEF MailTypeOK, LoadTypeOK
  <2>2. ASSUME Head(batch).tag \in {"GENERATE", "RECLAIM"}, StreamRelease(Head(batch).arg),
               Head(batch).tag = "GENERATE" => post[Head(batch).arg] = "drained"
        PROVE  StreamsTypeOK'
    <3>1. Head(batch).arg \in Reqs /\ refs[Head(batch).arg] # 0
      BY <1>1, <2>2, HeadOfBatch DEF RefsExact
    <3>2. QED
      BY <1>1, <2>2, <3>1, StreamReleaseType
  <2>3. StreamsTypeOK'
    BY <1>1, <2>2, StreamsUnchanged
  <2>4. QED
    BY <1>1, <2>1, <2>3, HeadOfBatch DEF CallerTypeOK
<1>5. QED
  BY <1>2, <1>3, <1>4

LEMMA StopTypes ==
  ASSUME IInv, ThreadDrain \/ EngineDestroy \/ EngineSignalShutdown
  PROVE  TypeOK'
<1> USE DEF thread, loading, asking, Goto
<1>1. StreamsTypeOK /\ MailTypeOK /\ ThreadTypeOK /\ LoadTypeOK /\ CallerTypeOK
  BY DEF IInv, TypeOK
<1>2. CASE ThreadDrain
  <2> USE <1>2 DEF ThreadDrain
  <2>1. ThreadTypeOK'
    BY <1>1 DEF ThreadTypeOK, GenerateLabels, StubLabels, RealLabels, LoadLabels, OtherLabels
  <2>2. CASE DrainTake \/ DrainTerminal \/ DrainDrop
    BY <1>1, <2>1, <2>2, DrainTypes DEF TypeOK, CallerTypeOK
  <2>3. CASE ~(DrainTake \/ DrainTerminal \/ DrainDrop)
    <3>1. StreamsTypeOK'
      BY <1>1, <2>3, StreamsUnchanged
    <3>2. MailTypeOK' /\ LoadTypeOK' /\ CallerTypeOK'
      BY <1>1, <2>3 DEF MailTypeOK, LoadTypeOK, CallerTypeOK
    <3>3. QED
      BY <2>1, <3>1, <3>2 DEF TypeOK
  <2>4. QED
    BY <2>2, <2>3
<1>3. CASE EngineDestroy
  <2> USE <1>3 DEF EngineDestroy
  <2>1. ThreadTypeOK'
    BY <1>1 DEF ThreadTypeOK
  <2>2. CASE DrainTake \/ DrainTerminal \/ DrainDrop
    <3>1. stopper' \in {"idle", "stored", "signalled", "draining", "done"}
      BY <1>1 DEF CallerTypeOK
    <3>2. QED
      BY <1>1, <2>1, <2>2, <3>1, DrainTypes DEF TypeOK, CallerTypeOK
  <2>3. CASE ~(DrainTake \/ DrainTerminal \/ DrainDrop)
    <3>1. StreamsTypeOK'
      BY <1>1, <2>3, StreamsUnchanged
    <3>2. MailTypeOK' /\ LoadTypeOK' /\ CallerTypeOK'
      BY <1>1, <2>3 DEF MailTypeOK, LoadTypeOK, CallerTypeOK
    <3>3. QED
      BY <2>1, <3>1, <3>2 DEF TypeOK
  <2>4. QED
    BY <2>2, <2>3
<1>4. CASE EngineSignalShutdown
  <2> USE <1>4 DEF EngineSignalShutdown, StoreShutdown, CancelInflight
  <2>1. StreamsTypeOK'
    BY <1>1, StreamsUnchanged, StreamCancelType DEF CallerTypeOK
  <2>2. ThreadTypeOK'
    <3>1. CASE UNCHANGED pc
      BY <1>1, <3>1 DEF ThreadTypeOK
    <3>2. CASE ~UNCHANGED pc
      BY <1>1, <3>2, EnqueueLabel
    <3>3. QED
      BY <3>1, <3>2
  <2>3. MailTypeOK' /\ LoadTypeOK' /\ CallerTypeOK'
    BY <1>1 DEF MailTypeOK, LoadTypeOK, CallerTypeOK
  <2>4. QED
    BY <2>1, <2>2, <2>3 DEF TypeOK
<1>5. QED
  BY <1>2, <1>3, <1>4

LEMMA TypeStep ==
  ASSUME IInv, [Next]_vars
  PROVE  TypeOK'
<1>1. CASE UNCHANGED vars
  <2>1. StreamsTypeOK'
    BY <1>1, StreamsUnchanged DEF vars, IInv, TypeOK
  <2>2. MailTypeOK' /\ ThreadTypeOK' /\ LoadTypeOK' /\ CallerTypeOK'
    BY <1>1 DEF vars, thread, loading, asking, IInv, TypeOK, MailTypeOK, ThreadTypeOK,
                LoadTypeOK, CallerTypeOK
  <2>3. QED
    BY <2>1, <2>2 DEF TypeOK
<1>2. ASSUME NEW r \in Reqs, NotifyCallback(r)  PROVE TypeOK'
  <2> USE <1>2 DEF NotifyCallback
  <2>1. StreamsTypeOK'
    BY CallbackType DEF IInv, TypeOK
  <2>2. MailTypeOK' /\ ThreadTypeOK' /\ LoadTypeOK' /\ CallerTypeOK'
    BY DEF thread, loading, asking, IInv, TypeOK, MailTypeOK, ThreadTypeOK, LoadTypeOK,
           CallerTypeOK
  <2>3. QED
    BY <2>1, <2>2 DEF TypeOK
<1>3. QED
  BY <1>1, <1>2, CallerTypes, ThreadTypes, GenerateTypes, StopTypes DEF Next, EngineThread

-----------------------------------------------------------------------------
(* The owners.  Four ways to keep the count exact: nobody moves, the       *)
(* engine's reference moves with the command, or one side drops its own.   *)
Held == {"new", "queued", "running", "drained", "reject"}

LEMMA CountKept ==
  ASSUME RefsExact, UNCHANGED <<refs, post, client>>
  PROVE  RefsExact'
  BY DEF RefsExact

LEMMA CountMoved ==
  ASSUME TypeOK, RefsExact, UNCHANGED <<refs, client>>, NEW r \in Reqs, NEW v \in Held,
         post[r] \in Held, post' = [post EXCEPT ![r] = v]
  PROVE  RefsExact'
  BY DEF RefsExact, Held, TypeOK, CallerTypeOK

LEMMA EngineDrops ==
  ASSUME TypeOK, RefsExact, UNCHANGED client, NEW r \in Reqs, post[r] \in Held,
         post' = [post EXCEPT ![r] = "released"], StreamRelease(r)
  PROVE  RefsExact'
<1>1. refs \in [Reqs -> 0..2] /\ post \in [Reqs -> {"none", "new", "queued", "running", "drained", "reject", "released"}]
  BY DEF TypeOK, StreamsTypeOK, CallerTypeOK
<1>2. QED
  BY <1>1 DEF RefsExact, Held, StreamRelease

LEMMA ConsumerDrops ==
  ASSUME TypeOK, RefsExact, UNCHANGED post, NEW r \in Reqs, client[r] \in {"hold", "reclaim"},
         client' = [client EXCEPT ![r] = "dropped"], StreamRelease(r)
  PROVE  RefsExact'
<1>1. refs \in [Reqs -> 0..2] /\ client \in [Reqs -> {"none", "hold", "reclaim", "dropped"}]
  BY DEF TypeOK, StreamsTypeOK, CallerTypeOK
<1>2. QED
  BY <1>1 DEF RefsExact, StreamRelease

(* A wakeup leaves what the thread owns alone.                             *)
LEMMA WakeKeepsThread ==
  ASSUME ThreadOK, InflightOK, JoinedOK, UNCHANGED <<cur, inflight, stopper>>,
         pc' = (IF pc = "asleep" THEN "dequeue" ELSE pc) \/ UNCHANGED pc,
         pc \in GenerateLabels => post'[cur] = post[cur],
         pc = "RECLAIM" => client'[cur] = client[cur],
         pc = "release" => cur \notin cb'
  PROVE  ThreadOK' /\ InflightOK' /\ JoinedOK'
<1> USE DEF GenerateLabels, StubLabels, RealLabels
<1>1. CASE UNCHANGED pc
  BY <1>1 DEF ThreadOK, InflightOK, JoinedOK
<1>2. CASE pc = "asleep" /\ pc' = "dequeue"
  BY <1>2 DEF ThreadOK, InflightOK, JoinedOK
<1>3. QED
  BY <1>1, <1>2

LEMMA CallerOwners ==
  ASSUME IInv, Caller
  PROVE  Owners' /\ JoinedOK'
<1> USE DEF thread, loading, asking
<1>1. /\ TypeOK /\ RefsExact /\ ThreadOK /\ InflightOK /\ CallbackOK /\ FreshOK /\ JoinedOK
  BY DEF IInv, Owners
<1>2. /\ post \in [Reqs -> {"none", "new", "queued", "running", "drained", "reject", "released"}]
      /\ client \in [Reqs -> {"none", "hold", "reclaim", "dropped"}]
      /\ refs \in [Reqs -> 0..2] /\ cb \subseteq Reqs
      /\ pc \in GenerateLabels \cup {"RECLAIM"} => cur \in Reqs
  BY <1>1 DEF TypeOK, CallerTypeOK, StreamsTypeOK, ThreadTypeOK
<1>3. "release" \in GenerateLabels /\ "RECLAIM" \notin GenerateLabels
  BY DEF GenerateLabels, StubLabels, RealLabels
<1>4. ASSUME NEW r \in Reqs, NewRequest(r)  PROVE Owners' /\ JoinedOK'
  <2> USE <1>4 DEF NewRequest, StreamCreate
  <2>1. client[r] = "none"
    BY <1>1 DEF FreshOK
  <2>2. RefsExact' /\ FreshOK'
    BY <1>1, <1>2 DEF RefsExact, FreshOK
  <2>3. CallbackOK'
    BY <1>1, <1>2 DEF CallbackOK
  <2>4. /\ pc \in GenerateLabels => post'[cur] = post[cur]
        /\ pc = "RECLAIM" => client'[cur] = client[cur]
        /\ pc = "release" => cur \notin cb'
    BY <1>1, <1>2, <1>3, <2>1 DEF ThreadOK
  <2>5. ThreadOK' /\ InflightOK' /\ JoinedOK'
    BY <1>1, <2>4, WakeKeepsThread
  <2>6. QED
    BY <2>2, <2>3, <2>5 DEF Owners
<1>5. ASSUME NEW r \in Reqs, EnginePost(r)  PROVE Owners' /\ JoinedOK'
  <2> USE <1>5 DEF EnginePost, Enqueue, StreamFinishCancelled, streams
  <2>1. RefsExact'
    BY <1>1, CountMoved DEF Held
  <2>2. FreshOK'
    BY <1>1, <1>2 DEF FreshOK
  <2>3. CallbackOK'
    BY <1>1, <1>2 DEF CallbackOK
  <2>4. /\ pc \in GenerateLabels => post'[cur] = post[cur]
        /\ pc = "RECLAIM" => client'[cur] = client[cur]
        /\ pc = "release" => cur \notin cb'
    BY <1>1, <1>2, <1>3 DEF ThreadOK
  <2>5. ThreadOK' /\ InflightOK' /\ JoinedOK'
    BY <1>1, <2>4, WakeKeepsThread
  <2>6. QED
    BY <2>1, <2>2, <2>3, <2>5 DEF Owners
<1>6. ASSUME NEW r \in Reqs, RejectRelease(r)  PROVE Owners' /\ JoinedOK'
  <2> USE <1>6 DEF RejectRelease
  <2>1. RefsExact'
    BY <1>1, EngineDrops DEF Held
  <2>2. FreshOK' /\ CallbackOK'
    BY <1>1, <1>2 DEF FreshOK, CallbackOK, StreamRelease
  <2>3. /\ pc \in GenerateLabels => post'[cur] = post[cur]
        /\ pc = "RECLAIM" => client'[cur] = client[cur]
        /\ pc = "release" => cur \notin cb'
    BY <1>1, <1>2, <1>3 DEF ThreadOK, StreamRelease
  <2>4. ThreadOK' /\ InflightOK' /\ JoinedOK'
    BY <1>1, <2>3, WakeKeepsThread
  <2>5. QED
    BY <2>1, <2>2, <2>4 DEF Owners
<1>7. ASSUME NEW r \in Reqs, Take(r) \/ Withdraw(r)  PROVE Owners' /\ JoinedOK'
  <2> USE <1>7 DEF Take, Withdraw, StreamNext, StreamCancel
  <2>1. RefsExact'
    BY <1>1, CountKept
  <2>2. FreshOK' /\ CallbackOK'
    BY <1>1 DEF FreshOK, CallbackOK
  <2>3. ThreadOK' /\ InflightOK' /\ JoinedOK'
    BY <1>1, <1>3, WakeKeepsThread DEF ThreadOK
  <2>4. QED
    BY <2>1, <2>2, <2>3 DEF Owners
<1>8. ASSUME NEW r \in Reqs, DropStream(r) \/ PostReclaim(r)  PROVE Owners' /\ JoinedOK'
  <2> USE <1>8 DEF DropStream, PostReclaim, Enqueue
  <2>1. RefsExact'
    <3>1. CASE StreamRelease(r) /\ client' = [client EXCEPT ![r] = "dropped"]
      BY <1>1, <3>1, ConsumerDrops
    <3>2. CASE UNCHANGED streams /\ client' = [client EXCEPT ![r] = "reclaim"]
      BY <1>1, <1>2, <3>2 DEF RefsExact, streams
    <3>3. QED
      BY <3>1, <3>2
  <2>2. UNCHANGED cb
    BY DEF StreamRelease, streams
  <2>3. FreshOK' /\ CallbackOK'
    BY <1>1, <1>2, <2>2 DEF FreshOK, CallbackOK
  <2>4. /\ pc \in GenerateLabels => post'[cur] = post[cur]
        /\ pc = "RECLAIM" => client'[cur] = client[cur]
        /\ pc = "release" => cur \notin cb'
    BY <1>1, <1>2, <1>3, <2>2 DEF ThreadOK
  <2>5. ThreadOK' /\ InflightOK' /\ JoinedOK'
    BY <1>1, <2>4, WakeKeepsThread
  <2>6. QED
    BY <2>1, <2>3, <2>5 DEF Owners
<1>9. ASSUME (\E l \in Loads : PostLoad(l) \/ PostLoadEnqueue(l) \/ WaitLoad(l))
             \/ (\E tag \in Misc : PostMisc(tag))
      PROVE Owners' /\ JoinedOK'
  <2>1. /\ UNCHANGED <<refs, post, client, cb, cur, inflight, stopper>>
        /\ pc' = (IF pc = "asleep" THEN "dequeue" ELSE pc) \/ UNCHANGED pc
    BY <1>9 DEF PostLoad, PostLoadEnqueue, WaitLoad, PostMisc, Enqueue, streams
  <2>2. RefsExact'
    BY <1>1, <2>1, CountKept
  <2>3. FreshOK' /\ CallbackOK'
    BY <1>1, <2>1 DEF FreshOK, CallbackOK
  <2>4. ThreadOK' /\ InflightOK' /\ JoinedOK'
    BY <1>1, <1>3, <2>1, WakeKeepsThread DEF ThreadOK
  <2>5. QED
    BY <2>2, <2>3, <2>4 DEF Owners
<1>10. QED
  BY <1>4, <1>5, <1>6, <1>7, <1>8, <1>9 DEF Caller

LEMMA ThreadOwners ==
  ASSUME IInv, Loop \/ MailboxDequeue \/ HandleReclaim \/ HandleEmbed \/ HandleUnload
               \/ HandleLoad \/ LoadDone \/ LoadFailed
  PROVE  Owners' /\ JoinedOK'
<1> USE DEF loading, asking, Goto, GenerateLabels, StubLabels, RealLabels
<1>1. /\ TypeOK /\ RefsExact /\ ThreadOK /\ InflightOK /\ CallbackOK /\ FreshOK /\ JoinedOK
  BY DEF IInv, Owners
<1>2. /\ post \in [Reqs -> {"none", "new", "queued", "running", "drained", "reject", "released"}]
      /\ client \in [Reqs -> {"none", "hold", "reclaim", "dropped"}]
      /\ pc = "RECLAIM" => cur \in Reqs
      /\ mailbox \in Seq(Commands) /\ cb \subseteq Reqs
  BY <1>1 DEF TypeOK, CallerTypeOK, StreamsTypeOK, ThreadTypeOK, MailTypeOK
<1>3. ASSUME UNCHANGED <<refs, post, client, cb, stopper, inflight>>,
             pc \notin GenerateLabels, pc # "exited", pc' \notin GenerateLabels \cup {"RECLAIM"}
      PROVE  Owners' /\ JoinedOK'
  <2>1. RefsExact'
    BY <1>1, <1>3, CountKept
  <2>2. FreshOK' /\ CallbackOK'
    BY <1>1, <1>3 DEF FreshOK, CallbackOK
  <2>3. ThreadOK' /\ InflightOK' /\ JoinedOK'
    BY <1>1, <1>3 DEF ThreadOK, InflightOK, JoinedOK
  <2>4. QED
    BY <2>1, <2>2, <2>3 DEF Owners
<1>4. CASE Loop \/ HandleEmbed \/ HandleUnload \/ HandleLoad \/ LoadDone \/ LoadFailed
  <2>1. /\ UNCHANGED <<refs, post, client, cb, stopper, inflight>>
        /\ pc \in {"loop", "EMBED", "UNLOAD", "LOAD", "loading", "load failed"}
        /\ pc' \in {"drain", "dequeue", "loop", "loading", "load failed"}
    BY <1>4 DEF Loop, HandleEmbed, HandleUnload, HandleLoad, LoadDone, LoadFailed, streams
  <2>2. QED
    BY <1>3, <2>1
<1>5. CASE MailboxDequeue
  <2> USE <1>5 DEF MailboxDequeue, streams
  <2>1. CASE mailbox = <<>>
    BY <1>3, <2>1
  <2>2. CASE mailbox # <<>>
    <3> DEFINE cmd == Head(mailbox)
    <3>1. /\ cmd \in Commands /\ cmd = mailbox[1] /\ 1 \in 1..Len(mailbox)
      BY <1>2, <2>2, EmptySeq, LenProperties, HeadTailProperties
    <3>2. /\ cmd.tag = "GENERATE" => cmd.arg \in Reqs /\ post[cmd.arg] = "queued"
          /\ cmd.tag = "RECLAIM" => cmd.arg \in Reqs /\ client[cmd.arg] = "reclaim"
      BY <3>1 DEF IInv, MailboxOK, Pending, Commands
    <3>3. cmd.tag \in {"GENERATE", "RECLAIM", "LOAD", "UNLOAD", "EMBED", "STOP"}
      BY <3>1 DEF Commands
    <3>4. CASE cmd.tag = "GENERATE"
      <4>1. /\ pc' = "GENERATE" /\ cur' = cmd.arg /\ post' = [post EXCEPT ![cmd.arg] = "running"]
            /\ UNCHANGED <<refs, client, cb, stopper, inflight>>
        BY <2>2, <3>4
      <4> HIDE DEF cmd
      <4>2. RefsExact'
        BY <1>1, <3>2, <3>4, <4>1, CountMoved DEF Held
      <4>3. FreshOK' /\ CallbackOK'
        BY <1>1, <1>2, <3>2, <3>4, <4>1 DEF FreshOK, CallbackOK
      <4>4. ThreadOK' /\ InflightOK' /\ JoinedOK'
        BY <1>1, <1>2, <3>2, <3>4, <4>1 DEF ThreadOK, InflightOK, JoinedOK
      <4>5. QED
        BY <4>2, <4>3, <4>4 DEF Owners
    <3>5. CASE cmd.tag = "RECLAIM"
      <4>1. /\ pc' = "RECLAIM" /\ cur' = cmd.arg
            /\ UNCHANGED <<refs, client, post, cb, stopper, inflight>>
        BY <2>2, <3>5
      <4> HIDE DEF cmd
      <4>2. RefsExact'
        BY <1>1, <4>1, CountKept
      <4>3. FreshOK' /\ CallbackOK'
        BY <1>1, <4>1 DEF FreshOK, CallbackOK
      <4>4. ThreadOK' /\ InflightOK' /\ JoinedOK'
        BY <1>1, <3>2, <3>5, <4>1 DEF ThreadOK, InflightOK, JoinedOK
      <4>5. QED
        BY <4>2, <4>3, <4>4 DEF Owners
    <3>6. CASE cmd.tag \notin {"GENERATE", "RECLAIM"}
      <4>1. pc' = cmd.tag /\ UNCHANGED <<refs, client, post, cb, stopper, inflight>>
        BY <2>2, <3>6
      <4> HIDE DEF cmd
      <4>2. QED
        BY <1>3, <3>3, <3>6, <4>1
    <3>7. QED
      BY <3>4, <3>5, <3>6
  <2>3. QED
    BY <2>1, <2>2
<1>6. CASE HandleReclaim
  <2> USE <1>6 DEF HandleReclaim
  <2>1. cur \in Reqs /\ client[cur] = "reclaim"
    BY <1>1, <1>2 DEF ThreadOK
  <2>2. RefsExact'
    BY <1>1, <2>1, ConsumerDrops
  <2>3. UNCHANGED cb
    BY DEF StreamRelease
  <2>4. FreshOK' /\ CallbackOK'
    BY <1>1, <1>2, <2>1, <2>3 DEF FreshOK, CallbackOK
  <2>5. ThreadOK' /\ InflightOK' /\ JoinedOK'
    BY <1>1 DEF ThreadOK, InflightOK, JoinedOK
  <2>6. QED
    BY <2>2, <2>4, <2>5 DEF Owners
<1>7. QED
  BY <1>4, <1>5, <1>6

LEMMA GenerateOwners ==
  ASSUME IInv, Generate
  PROVE  Owners' /\ JoinedOK'
<1> USE DEF asking, Goto, GenerateLabels, StubLabels, RealLabels
<1>1. /\ TypeOK /\ RefsExact /\ ThreadOK /\ InflightOK /\ CallbackOK /\ FreshOK /\ JoinedOK
      /\ ResidentModel
  BY DEF IInv, Owners
<1>2. /\ post \in [Reqs -> {"none", "new", "queued", "running", "drained", "reject", "released"}]
      /\ pc \in GenerateLabels => cur \in Reqs /\ post[cur] = "running"
      /\ cb \subseteq Reqs
  BY <1>1 DEF TypeOK, CallerTypeOK, StreamsTypeOK, ThreadTypeOK, ThreadOK
<1> DEFINE Before == GenerateLabels \ {"GENERATE", "release"}
<1>3. ASSUME pc \in GenerateLabels \ {"release"}, pc' \in Before, Generating, UNCHANGED <<cur, refs>>,
             inflight' \in {inflight, cur}, cb' \subseteq cb \cup {cur}
      PROVE  Owners' /\ JoinedOK'
  <2> USE <1>3 DEF Generating
  <2>1. RefsExact'
    BY <1>1, CountKept
  <2>2. FreshOK'
    BY <1>1 DEF FreshOK
  <2>3. CallbackOK'
    BY <1>1, <1>2 DEF CallbackOK
  <2>4. ThreadOK' /\ InflightOK' /\ JoinedOK'
    BY <1>1, <1>2 DEF ThreadOK, InflightOK, JoinedOK
  <2>5. QED
    BY <2>1, <2>2, <2>3, <2>4 DEF Owners
<1>4. ASSUME NEW l \in Before, pc \in GenerateLabels \ {"release"}, Step(l)
      PROVE  Owners' /\ JoinedOK'
  BY <1>3, <1>4 DEF Step, streams
<1>5. ASSUME NEW c, NEW l \in Before, NEW m \in Before, Push(c, l, m),
             pc \in GenerateLabels \ {"release"}
      PROVE  Owners' /\ JoinedOK'
  BY <1>3, <1>5 DEF Push, StreamPush, StreamPushRefused, streams
<1>6. ASSUME NEW w, pc \in GenerateLabels \ {"release"}, FailWith(w) \/ DoneWith(w)
      PROVE  Owners' /\ JoinedOK'
  BY <1>3, <1>6 DEF FailWith, DoneWith, streams
<1>7. CASE SetInflight
  BY <1>3, <1>7 DEF SetInflight, streams
<1>8. CASE CheckLoadState
  BY <1>1, <1>4, <1>6, <1>8 DEF CheckLoadState, ResidentModel, TypeOK, LoadTypeOK
<1>9. CASE Stub
  BY <1>4, <1>6, <1>9 DEF Stub
<1>10. CASE Real
  BY <1>4, <1>6, <1>10 DEF Real
<1>11. CASE Prefill
  BY <1>3, <1>4, <1>6, <1>11 DEF Prefill, streams
<1>12. CASE Seed \/ Decode \/ FailRefused
  BY <1>4, <1>6, <1>12 DEF Seed, Decode, FailRefused
<1>13. CASE StubPush \/ DecodePush
  BY <1>5, <1>13 DEF StubPush, DecodePush
<1>14. CASE PushDone \/ FailError \/ FailDone
  BY <1>5, <1>14 DEF PushDone, FailError, FailDone
<1>15. CASE Abort
  BY <1>3, <1>15 DEF Abort, StreamFinishCancelled
<1>16. CASE ClearInflight
  <2> USE <1>16 DEF ClearInflight, Generating, streams, Idle
  <2>1. RefsExact'
    BY <1>1, CountKept
  <2>2. FreshOK' /\ CallbackOK'
    BY <1>1 DEF FreshOK, CallbackOK
  <2>3. ThreadOK' /\ InflightOK' /\ JoinedOK'
    BY <1>1, <1>2 DEF ThreadOK, InflightOK, JoinedOK
  <2>4. QED
    BY <2>1, <2>2, <2>3 DEF Owners
<1>17. CASE GenerateRelease
  <2> USE <1>17 DEF GenerateRelease
  <2>1. RefsExact'
    BY <1>1, <1>2, EngineDrops DEF Held
  <2>2. UNCHANGED cb /\ cur \notin cb
    BY <1>1 DEF StreamRelease, ThreadOK
  <2>3. FreshOK' /\ CallbackOK'
    BY <1>1, <1>2, <2>2 DEF FreshOK, CallbackOK
  <2>4. ThreadOK' /\ InflightOK' /\ JoinedOK'
    BY <1>1 DEF ThreadOK, InflightOK, JoinedOK
  <2>5. QED
    BY <2>1, <2>3, <2>4 DEF Owners
<1>18. QED
  BY <1>7, <1>8, <1>9, <1>10, <1>11, <1>12, <1>13, <1>14, <1>15, <1>16, <1>17 DEF Generate

LEMMA StopOwners ==
  ASSUME IInv, \/ ThreadDrain \/ EngineDestroy \/ EngineSignalShutdown
               \/ (\E r \in Reqs : NotifyCallback(r))
  PROVE  Owners' /\ JoinedOK'
<1> USE DEF thread, loading, asking, Goto
<1>1. /\ TypeOK /\ RefsExact /\ ThreadOK /\ InflightOK /\ CallbackOK /\ FreshOK /\ JoinedOK
  BY DEF IInv, Owners
<1>2. /\ post \in [Reqs -> {"none", "new", "queued", "running", "drained", "reject", "released"}]
      /\ client \in [Reqs -> {"none", "hold", "reclaim", "dropped"}]
      /\ cb \subseteq Reqs
  BY <1>1 DEF TypeOK, CallerTypeOK, StreamsTypeOK
<1>3. ASSUME DrainTake \/ DrainTerminal \/ DrainDrop
      PROVE  RefsExact' /\ CallbackOK' /\ FreshOK' /\ UNCHANGED inflight
  <2>1. CASE DrainTake
    BY <1>1, <2>1, CountKept DEF DrainTake, streams, CallbackOK, FreshOK
  <2>2. CASE DrainTerminal
    <3> USE <2>2 DEF DrainTerminal
    <3>1. Head(batch).arg \in Reqs
      BY HeadOfBatch
    <3>2. RefsExact'
      BY <1>1, <3>1, CountMoved DEF Held, StreamFinishCancelled
    <3>3. CallbackOK' /\ FreshOK'
      BY <1>1, <1>2, <3>1 DEF CallbackOK, FreshOK, StreamFinishCancelled
    <3>4. QED
      BY <3>2, <3>3
  <2>3. CASE DrainDrop
    <3> USE <2>3 DEF DrainDrop
    <3>1. UNCHANGED <<inflight, cb>>
      BY DEF streams, StreamRelease
    <3>2. CASE Head(batch).tag = "GENERATE"
      <4>1. Head(batch).arg \in Reqs
        BY <3>2, HeadOfBatch
      <4>2. RefsExact'
        BY <1>1, <3>2, <4>1, EngineDrops DEF Held
      <4>3. CallbackOK' /\ FreshOK'
        BY <1>1, <1>2, <3>1, <3>2, <4>1 DEF CallbackOK, FreshOK
      <4>4. QED
        BY <3>1, <4>2, <4>3
    <3>3. CASE Head(batch).tag = "RECLAIM"
      <4>1. Head(batch).arg \in Reqs /\ client[Head(batch).arg] = "reclaim"
        BY <3>3, HeadOfBatch
      <4>2. RefsExact'
        BY <1>1, <3>3, <4>1, ConsumerDrops
      <4>3. CallbackOK' /\ FreshOK'
        BY <1>1, <1>2, <3>1, <3>3, <4>1 DEF CallbackOK, FreshOK
      <4>4. QED
        BY <3>1, <4>2, <4>3
    <3>4. CASE Head(batch).tag \notin {"GENERATE", "RECLAIM"}
      BY <1>1, <3>1, <3>4, CountKept DEF streams, CallbackOK, FreshOK
    <3>5. QED
      BY <3>2, <3>3, <3>4
  <2>4. QED
    BY <1>3, <2>1, <2>2, <2>3
<1>4. ASSUME pc \in {"drain", "STOP", "draining", "exited"}, pc' \in {"draining", "exited"},
             UNCHANGED inflight
      PROVE  ThreadOK' /\ InflightOK'
  BY <1>1, <1>4 DEF ThreadOK, InflightOK, GenerateLabels, StubLabels, RealLabels
<1>5. CASE ThreadDrain
  <2> USE <1>5 DEF ThreadDrain
  <2>1. RefsExact' /\ CallbackOK' /\ FreshOK' /\ UNCHANGED inflight
    <3>1. CASE DrainTake \/ DrainTerminal \/ DrainDrop
      BY <1>3, <3>1
    <3>2. CASE UNCHANGED <<streams, inflight, asking>>
      BY <1>1, <3>2, CountKept DEF streams, CallbackOK, FreshOK
    <3>3. QED
      BY <3>1, <3>2
  <2>2. ThreadOK' /\ InflightOK'
    BY <1>4, <2>1
  <2>3. JoinedOK'
    BY <1>1 DEF JoinedOK
  <2>4. QED
    BY <2>1, <2>2, <2>3 DEF Owners
<1>6. CASE EngineDestroy
  <2> USE <1>6 DEF EngineDestroy
  <2>1. RefsExact' /\ CallbackOK' /\ FreshOK' /\ UNCHANGED inflight
    <3>1. CASE DrainTake \/ DrainTerminal \/ DrainDrop
      BY <1>3, <3>1
    <3>2. CASE UNCHANGED <<streams, inflight, asking>>
      BY <1>1, <3>2, CountKept DEF streams, CallbackOK, FreshOK
    <3>3. QED
      BY <3>1, <3>2
  <2>2. pc = "exited"
    BY <1>1 DEF JoinedOK
  <2>3. ThreadOK' /\ InflightOK'
    BY <1>4, <2>1, <2>2
  <2>4. JoinedOK'
    BY <2>2 DEF JoinedOK
  <2>5. QED
    BY <2>1, <2>3, <2>4 DEF Owners
<1>7. CASE EngineSignalShutdown
  <2> USE <1>7 DEF EngineSignalShutdown, StoreShutdown, CancelInflight, StreamCancel, streams
  <2>1. RefsExact'
    BY <1>1, CountKept
  <2>2. FreshOK' /\ CallbackOK'
    BY <1>1 DEF FreshOK, CallbackOK
  <2>3. CASE UNCHANGED pc
    <3>1. ThreadOK' /\ InflightOK' /\ JoinedOK'
      BY <1>1, <2>3 DEF ThreadOK, InflightOK, JoinedOK
    <3>2. QED
      BY <2>1, <2>2, <3>1 DEF Owners
  <2>4. CASE pc = "asleep" /\ pc' = "dequeue"
    <3>1. ThreadOK' /\ InflightOK' /\ JoinedOK'
      BY <1>1, <2>4 DEF ThreadOK, InflightOK, JoinedOK, GenerateLabels, StubLabels, RealLabels
    <3>2. QED
      BY <2>1, <2>2, <3>1 DEF Owners
  <2>5. QED
    BY <2>3, <2>4
<1>8. ASSUME NEW r \in Reqs, NotifyCallback(r)  PROVE Owners' /\ JoinedOK'
  <2> USE <1>8 DEF NotifyCallback, Callback
  <2>1. RefsExact'
    BY <1>1, CountKept
  <2>2. FreshOK' /\ CallbackOK'
    BY <1>1 DEF FreshOK, CallbackOK
  <2>3. ThreadOK' /\ InflightOK' /\ JoinedOK'
    BY <1>1 DEF ThreadOK, InflightOK, JoinedOK
  <2>4. QED
    BY <2>1, <2>2, <2>3 DEF Owners
<1>9. QED
  BY <1>5, <1>6, <1>7, <1>8

-----------------------------------------------------------------------------
(* The commands.  An owning command is determined by its tag and request.  *)
LEMMA OwningEqual ==
  ASSUME NEW a \in Commands, NEW b \in Commands, a.tag = b.tag, a.arg = b.arg
  PROVE  a = b
  BY DEF Commands

LEMMA MailFacts ==
  ASSUME IInv
  PROVE  /\ mailbox \in Seq(Commands) /\ Len(mailbox) \in Nat
         /\ batch \in Seq(Commands) /\ Len(batch) \in Nat
         /\ \A i \in 1..Len(mailbox) : mailbox[i] \in Commands
         /\ \A i \in 1..Len(batch) : batch[i] \in Commands
<1>1. mailbox \in Seq(Commands) /\ batch \in Seq(Commands)
  BY DEF IInv, TypeOK, MailTypeOK
<1>2. QED
  BY <1>1, LenProperties, ElementOfSeq

LEMMA OwningReq ==
  ASSUME NEW c \in Commands, Owning(c)
  PROVE  c.arg \in Reqs
  BY DEF Commands, Owning

(* An action that touches no queued command's state.                       *)
LEMMA MailKept ==
  ASSUME IInv, UNCHANGED <<mailbox, batch>>,
         \A r \in Reqs : post[r] \in {"queued", "drained"} => post'[r] = post[r],
         \A r \in Reqs : client[r] = "reclaim" => client'[r] = "reclaim",
         pc' = "RECLAIM" => pc = "RECLAIM" /\ cur' = cur
  PROVE  MailboxOK' /\ BatchOK'
<1>1. MailboxOK /\ BatchOK
  BY DEF IInv
<1>2. \A c \in Commands : Owning(c) => c.arg \in Reqs
  BY OwningReq
<1>3. ASSUME NEW c \in Commands, Pending(c)  PROVE Pending(c)'
  BY <1>2, <1>3 DEF Pending, Owning
<1>4. MailboxOK'
  BY <1>1, <1>2, <1>3, MailFacts DEF MailboxOK, Owning
<1>5. BatchOK'
  BY <1>1, <1>3, MailFacts DEF BatchOK
<1>6. QED
  BY <1>4, <1>5

(* Enqueueing a command that owns nothing, or something not yet queued.    *)
LEMMA MailAppended ==
  ASSUME IInv, NEW cmd \in Commands, mailbox' = Append(mailbox, cmd), UNCHANGED batch,
         \A r \in Reqs : post[r] \in {"queued", "drained"} => post'[r] = post[r],
         \A r \in Reqs : client[r] = "reclaim" => client'[r] = "reclaim",
         pc' = "RECLAIM" => pc = "RECLAIM" /\ cur' = cur,
         cmd.tag = "GENERATE" => post[cmd.arg] = "new" /\ post'[cmd.arg] = "queued",
         cmd.tag = "RECLAIM" => /\ client[cmd.arg] = "hold" /\ client'[cmd.arg] = "reclaim"
                                /\ ~(pc' = "RECLAIM" /\ cur' = cmd.arg)
  PROVE  MailboxOK' /\ BatchOK'
<1>1. MailboxOK /\ BatchOK
  BY DEF IInv
<1>2. \A c \in Commands : Owning(c) => c.arg \in Reqs
  BY OwningReq
<1>3. ASSUME NEW c \in Commands, Pending(c)  PROVE Pending(c)'
  BY <1>2, <1>3 DEF Pending, Owning
<1>4. /\ Len(mailbox') = Len(mailbox) + 1
      /\ \A i \in 1..Len(mailbox) : mailbox'[i] = mailbox[i]
      /\ mailbox'[Len(mailbox) + 1] = cmd
  BY MailFacts, AppendProperties
<1>5. \A i \in 1..Len(mailbox) : mailbox[i] = cmd => ~Owning(cmd)
  BY <1>1 DEF MailboxOK, Pending, Owning
<1>6. \A i \in 1..Len(batch) : batch[i] = cmd => ~Owning(cmd)
  BY <1>1 DEF BatchOK, Pending, Owning
<1>7. Pending(cmd)'
  BY DEF Pending
<1>8. ASSUME NEW i \in 1..Len(mailbox')
      PROVE  /\ Pending(mailbox[i])'
             /\ mailbox'[i].tag = "GENERATE" => post'[mailbox'[i].arg] = "queued"
             /\ \A j \in 1..Len(batch) : mailbox'[i] = batch[j] => ~Owning(mailbox'[i])
  <2>1. CASE i \in 1..Len(mailbox)
    <3>1. mailbox'[i] = mailbox[i] /\ mailbox[i] \in Commands
      BY <1>4, <2>1, MailFacts
    <3>2. /\ Pending(mailbox[i])
          /\ mailbox[i].tag = "GENERATE" => post[mailbox[i].arg] = "queued"
          /\ \A j \in 1..Len(batch) : mailbox[i] = batch[j] => ~Owning(mailbox[i])
      BY <1>1, <2>1 DEF MailboxOK
    <3>3. mailbox[i].tag = "GENERATE" => post'[mailbox[i].arg] = "queued"
      BY <1>2, <3>1, <3>2 DEF Owning
    <3>4. Pending(mailbox[i])'
      BY <1>2, <3>1, <3>2 DEF Pending, Owning
    <3>5. QED
      BY <3>1, <3>2, <3>3, <3>4
  <2>2. CASE i = Len(mailbox) + 1
    BY <1>4, <1>6, <1>7, <2>2 DEF Pending
  <2>3. QED
    BY <1>4, <2>1, <2>2, MailFacts
<1>9. ASSUME NEW i \in 1..Len(mailbox'), NEW j \in 1..Len(mailbox'),
             mailbox'[i] = mailbox'[j], Owning(mailbox'[i])
      PROVE  i = j
  <2>1. CASE i \in 1..Len(mailbox) /\ j \in 1..Len(mailbox)
    BY <1>1, <1>4, <1>9, <2>1 DEF MailboxOK
  <2>2. CASE i = Len(mailbox) + 1 \/ j = Len(mailbox) + 1
    BY <1>4, <1>5, <1>9, <2>2, MailFacts
  <2>3. QED
    BY <1>4, <2>1, <2>2, MailFacts
<1>10. MailboxOK'
  BY <1>8, <1>9 DEF MailboxOK, Owning
<1>11. BatchOK'
  BY <1>1, <1>3, MailFacts DEF BatchOK
<1>12. QED
  BY <1>10, <1>11

(* Taking the oldest command of the mailbox makes the thread its owner.    *)
LEMMA MailDequeued ==
  ASSUME IInv, MailboxDequeue
  PROVE  MailboxOK' /\ BatchOK'
<1> USE DEF MailboxDequeue, Goto
<1>1. MailboxOK /\ BatchOK
  BY DEF IInv
<1>2. post \in [Reqs -> {"none", "new", "queued", "running", "drained", "reject", "released"}]
  BY DEF IInv, TypeOK, CallerTypeOK
<1>3. CASE mailbox = <<>>
  BY <1>3, MailKept
<1>4. CASE mailbox # <<>>
  <2> DEFINE cmd == Head(mailbox)
  <2>1. /\ Len(mailbox) \in Nat /\ Len(mailbox) # 0 /\ cmd = mailbox[1]
        /\ Len(mailbox') = Len(mailbox) - 1
        /\ \A i \in 1..Len(mailbox') : mailbox'[i] = mailbox[i + 1]
    BY <1>4, MailFacts, EmptySeq, HeadTailProperties
  <2>2. cmd \in Commands /\ 1 \in 1..Len(mailbox)
    BY <2>1, MailFacts
  <2>3. /\ pc' = cmd.tag /\ cur' = cmd.arg /\ UNCHANGED <<client, batch>>
        /\ post' = IF cmd.tag = "GENERATE" THEN [post EXCEPT ![cmd.arg] = "running"] ELSE post
    BY <1>4
  <2> HIDE DEF cmd
  <2>4. ASSUME NEW c \in Commands, c # cmd, Pending(c)
        PROVE  Pending(c)' /\ (c.tag = "GENERATE" => post'[c.arg] = post[c.arg])
    <3>1. Owning(c) => c.arg \in Reqs
      BY OwningReq
    <3>2. c.tag = cmd.tag => c.arg # cmd.arg
      BY <2>2, <2>4, OwningEqual
    <3>3. cmd.tag = "GENERATE" => cmd.arg \in Reqs
      BY <2>2, OwningReq DEF Owning
    <3>4. c.tag = "GENERATE" => post'[c.arg] = post[c.arg]
      BY <1>2, <2>3, <3>1, <3>2, <3>3 DEF Owning
    <3>5. QED
      BY <2>3, <2>4, <3>2, <3>4 DEF Pending
  <2>5. ASSUME NEW i \in 1..Len(mailbox')
        PROVE  i + 1 \in 1..Len(mailbox) /\ mailbox'[i] = mailbox[i + 1]
               /\ mailbox[i + 1] \in Commands /\ (Owning(mailbox[i + 1]) => mailbox[i + 1] # cmd)
    <3>1. i + 1 \in 1..Len(mailbox) /\ mailbox'[i] = mailbox[i + 1] /\ i + 1 # 1
      BY <2>1
    <3>2. QED
      BY <1>1, <2>1, <2>2, <3>1, MailFacts DEF MailboxOK
  <2>6. \A c \in Commands : ~Owning(c) => Pending(c)'
    BY DEF Pending, Owning
  <2>7. ASSUME NEW i \in 1..Len(mailbox')
        PROVE  /\ Pending(mailbox[i])'
               /\ mailbox'[i].tag = "GENERATE" => post'[mailbox'[i].arg] = "queued"
               /\ \A j \in 1..Len(batch) : mailbox'[i] = batch[j] => ~Owning(mailbox'[i])
    <3>1. PICK c \in Commands : c = mailbox[i + 1] /\ mailbox'[i] = c /\ (Owning(c) => c # cmd)
      BY <2>5
    <3>2. /\ Pending(c) /\ (c.tag = "GENERATE" => post[c.arg] = "queued")
          /\ \A j \in 1..Len(batch) : c = batch[j] => ~Owning(c)
      BY <1>1, <2>5, <3>1 DEF MailboxOK
    <3>3. Pending(c)' /\ (c.tag = "GENERATE" => post'[c.arg] = "queued")
      <4>1. CASE Owning(c)
        BY <2>4, <3>1, <3>2, <4>1
      <4>2. CASE ~Owning(c)
        BY <2>6, <3>1, <4>2 DEF Owning
      <4>3. QED
        BY <4>1, <4>2
    <3>4. Pending(mailbox[i])'
      BY <3>1, <3>3 DEF Pending
    <3>5. QED
      BY <3>1, <3>2, <3>3, <3>4
  <2>8. ASSUME NEW i \in 1..Len(mailbox'), NEW j \in 1..Len(mailbox'),
               mailbox'[i] = mailbox'[j], Owning(mailbox'[i])
        PROVE  i = j
    <3>1. i + 1 = j + 1
      BY <1>1, <2>5, <2>8 DEF MailboxOK
    <3>2. QED
      BY <2>1, <3>1
  <2>9. MailboxOK'
    BY <2>3, <2>7, <2>8 DEF MailboxOK, Owning
  <2>10. ASSUME NEW i \in 1..Len(batch)
         PROVE  Pending(batch[i])'
    <3>1. batch[i] \in Commands /\ Pending(batch[i]) /\ (Owning(batch[i]) => batch[i] # cmd)
      BY <1>1, <2>1, <2>2, MailFacts DEF MailboxOK, BatchOK
    <3>2. batch'[i] = batch[i]
      BY <2>3
    <3>3. CASE Owning(batch[i])
      BY <2>4, <3>1, <3>2, <3>3 DEF Pending
    <3>4. CASE ~Owning(batch[i])
      BY <3>2, <3>4 DEF Pending, Owning
    <3>5. QED
      BY <3>3, <3>4
  <2>11. BatchOK'
    BY <1>1, <2>3, <2>10 DEF BatchOK, Owning
  <2>12. QED
    BY <2>9, <2>11
<1>5. QED
  BY <1>3, <1>4

(* The reclaim being handled is not queued any more.                       *)
LEMMA MailReclaimed ==
  ASSUME IInv, HandleReclaim
  PROVE  MailboxOK' /\ BatchOK'
<1> USE DEF HandleReclaim, Goto
<1>1. MailboxOK /\ BatchOK
  BY DEF IInv
<1>2. client \in [Reqs -> {"none", "hold", "reclaim", "dropped"}] /\ cur \in Reqs
  BY DEF IInv, TypeOK, CallerTypeOK, ThreadTypeOK
<1>3. ASSUME NEW c \in Commands, Pending(c)  PROVE Pending(c)'
  <2>1. Owning(c) => c.arg \in Reqs
    BY OwningReq
  <2>2. c.tag = "RECLAIM" => client'[c.arg] = "reclaim"
    BY <1>2, <1>3, <2>1 DEF Pending, Owning
  <2>3. QED
    BY <1>3, <2>2 DEF Pending
<1>4. MailboxOK'
  <2>1. \A i \in 1..Len(mailbox) : Pending(mailbox[i])'
    BY <1>1, <1>3, MailFacts DEF MailboxOK, Pending
  <2>2. QED
    BY <1>1, <2>1 DEF MailboxOK, Owning
<1>5. BatchOK'
  <2>1. \A i \in 1..Len(batch) : Pending(batch[i])'
    BY <1>1, <1>3, MailFacts DEF BatchOK, Pending
  <2>2. QED
    BY <1>1, <2>1 DEF BatchOK, Owning
<1>6. QED
  BY <1>4, <1>5

(* A drain.                                                                *)
LEMMA MailDrained ==
  ASSUME IInv, DrainTake \/ DrainTerminal \/ DrainDrop, pc' # "RECLAIM"
  PROVE  MailboxOK' /\ BatchOK'
<1>1. MailboxOK /\ BatchOK
  BY DEF IInv
<1>2. /\ post \in [Reqs -> {"none", "new", "queued", "running", "drained", "reject", "released"}]
      /\ client \in [Reqs -> {"none", "hold", "reclaim", "dropped"}]
  BY DEF IInv, TypeOK, CallerTypeOK
<1>3. CASE DrainTake
  <2> USE <1>3 DEF DrainTake, asking
  <2>1. Len(mailbox') = 0
    OBVIOUS
  <2>2. MailboxOK'
    BY <2>1 DEF MailboxOK
  <2>3. BatchOK'
    BY <1>1 DEF BatchOK, MailboxOK, Pending, Owning
  <2>4. QED
    BY <2>2, <2>3
<1>4. CASE DrainTerminal
  <2> USE <1>4 DEF DrainTerminal
  <2> DEFINE cmd == Head(batch)
  <2>1. cmd \in Commands /\ cmd = batch[1] /\ 1 \in 1..Len(batch) /\ cmd.arg \in Reqs
        /\ cmd.tag = "GENERATE"
    BY HeadOfBatch
  <2>2. post' = [post EXCEPT ![cmd.arg] = "drained"] /\ UNCHANGED <<mailbox, batch, client>>
    OBVIOUS
  <2> HIDE DEF cmd
  <2>3. ASSUME NEW c \in Commands, Pending(c)  PROVE Pending(c)'
    BY <1>2, <2>1, <2>2, <2>3 DEF Pending
  <2>4. ASSUME NEW i \in 1..Len(mailbox)
        PROVE  /\ Pending(mailbox[i])'
               /\ mailbox[i].tag = "GENERATE" => post'[mailbox[i].arg] = "queued"
    <3>1. /\ mailbox[i] \in Commands /\ Pending(mailbox[i])
          /\ mailbox[i].tag = "GENERATE" => post[mailbox[i].arg] = "queued"
          /\ Owning(mailbox[i]) => mailbox[i] # cmd
      BY <1>1, <2>1, MailFacts DEF MailboxOK
    <3>2. mailbox[i].tag = "GENERATE" => mailbox[i].arg # cmd.arg /\ mailbox[i].arg \in Reqs
      BY <2>1, <3>1, OwningEqual, OwningReq DEF Owning
    <3>3. mailbox[i].tag = "GENERATE" => post'[mailbox[i].arg] = "queued"
      BY <1>2, <2>2, <3>1, <3>2
    <3>4. Pending(mailbox[i])'
      BY <2>2, <2>3, <3>1 DEF Pending
    <3>5. QED
      BY <3>3, <3>4
  <2>5. MailboxOK'
    BY <1>1, <2>2, <2>4 DEF MailboxOK, Owning
  <2>6. \A i \in 1..Len(batch) : Pending(batch[i])'
    BY <1>1, <2>2, <2>3, MailFacts DEF BatchOK, Pending
  <2>7. BatchOK'
    BY <1>1, <2>2, <2>6 DEF BatchOK, Owning
  <2>8. QED
    BY <2>5, <2>7
<1>5. CASE DrainDrop
  <2> USE <1>5 DEF DrainDrop
  <2> DEFINE cmd == Head(batch)
  <2>1. /\ cmd \in Commands /\ cmd = batch[1] /\ 1 \in 1..Len(batch)
        /\ Owning(cmd) => cmd.arg \in Reqs
        /\ Len(batch') = Len(batch) - 1 /\ Len(batch) \in Nat
        /\ \A i \in 1..Len(batch') : batch'[i] = batch[i + 1]
    BY HeadOfBatch, OwningReq, MailFacts
  <2>2. /\ UNCHANGED mailbox
        /\ \/ cmd.tag = "GENERATE" /\ post' = [post EXCEPT ![cmd.arg] = "released"] /\ UNCHANGED client
           \/ cmd.tag = "RECLAIM" /\ client' = [client EXCEPT ![cmd.arg] = "dropped"] /\ UNCHANGED post
           \/ UNCHANGED <<post, client>>
    BY Zenon
  <2> HIDE DEF cmd
  <2>3. ASSUME NEW c \in Commands, Pending(c), Owning(c) => c # cmd
        PROVE  /\ Owning(c) => post'[c.arg] = post[c.arg] \/ c.tag = "RECLAIM"
               /\ Owning(c) => client'[c.arg] = client[c.arg] \/ c.tag = "GENERATE"
    <3>1. Owning(c) => c.arg \in Reqs
      BY OwningReq
    <3>2. Owning(c) /\ c.tag = cmd.tag => c.arg # cmd.arg
      BY <2>1, <2>3, OwningEqual
    <3>3. QED
      BY <1>2, <2>1, <2>2, <3>1, <3>2 DEF Owning
  <2>4. ASSUME NEW i \in 1..Len(mailbox)
        PROVE  /\ Pending(mailbox[i])'
               /\ mailbox[i].tag = "GENERATE" => post'[mailbox[i].arg] = "queued"
    <3>1. /\ mailbox[i] \in Commands /\ Pending(mailbox[i])
          /\ mailbox[i].tag = "GENERATE" => post[mailbox[i].arg] = "queued"
          /\ Owning(mailbox[i]) => mailbox[i] # cmd
      BY <1>1, <2>1, MailFacts DEF MailboxOK
    <3>2. QED
      BY <2>2, <2>3, <3>1 DEF Pending, Owning
  <2>5. MailboxOK'
    <3>1. \A i \in 1..Len(mailbox), j \in 1..Len(batch') :
             mailbox[i] = batch'[j] => ~Owning(mailbox[i])
      <4>1. \A j \in 1..Len(batch') : j + 1 \in 1..Len(batch)
        BY <2>1
      <4>2. QED
        BY <1>1, <2>1, <4>1 DEF MailboxOK
    <3>2. QED
      BY <1>1, <2>2, <2>4, <3>1 DEF MailboxOK, Owning
  <2>6. ASSUME NEW i \in 1..Len(batch')
        PROVE  /\ i + 1 \in 1..Len(batch) /\ batch'[i] = batch[i + 1] /\ batch[i + 1] \in Commands
               /\ Owning(batch[i + 1]) => batch[i + 1] # cmd
    <3>1. i + 1 \in 1..Len(batch) /\ batch'[i] = batch[i + 1] /\ i + 1 # 1
      BY <2>1
    <3>2. QED
      BY <1>1, <2>1, <3>1, MailFacts DEF BatchOK
  <2>7. ASSUME NEW i \in 1..Len(batch')  PROVE Pending(batch[i])'
    <3>1. Pending(batch[i + 1])
      BY <1>1, <2>6 DEF BatchOK
    <3>2. QED
      BY <2>3, <2>6, <3>1 DEF Pending, Owning
  <2>8. ASSUME NEW i \in 1..Len(batch'), NEW j \in 1..Len(batch'),
               batch'[i] = batch'[j], Owning(batch'[i])
        PROVE  i = j
    <3>1. i + 1 = j + 1
      BY <1>1, <2>6, <2>8 DEF BatchOK
    <3>2. QED
      BY <2>1, <3>1
  <2>9. BatchOK'
    BY <2>7, <2>8 DEF BatchOK, Owning
  <2>10. QED
    BY <2>5, <2>9
<1>6. QED
  BY <1>3, <1>4, <1>5

LEMMA MailStep ==
  ASSUME IInv, [Next]_vars
  PROVE  MailboxOK' /\ BatchOK'
<1> USE DEF thread, loading, asking, Goto
<1>1. /\ post \in [Reqs -> {"none", "new", "queued", "running", "drained", "reject", "released"}]
      /\ client \in [Reqs -> {"none", "hold", "reclaim", "dropped"}]
      /\ pc \in GenerateLabels => cur \in Reqs /\ post[cur] = "running"
      /\ pc = "RECLAIM" => client[cur] = "reclaim"
      /\ \A r \in Reqs : post[r] = "none" => client[r] = "none"
  BY DEF IInv, Owners, TypeOK, CallerTypeOK, ThreadTypeOK, ThreadOK, FreshOK
<1>2. ASSUME UNCHANGED <<mailbox, batch, post, client>>,
             pc' = "RECLAIM" => pc = "RECLAIM" /\ cur' = cur
      PROVE  MailboxOK' /\ BatchOK'
  BY <1>2, MailKept
<1>3. CASE UNCHANGED vars
  BY <1>2, <1>3 DEF vars
<1>4. ASSUME NEW r \in Reqs, \/ NewRequest(r) \/ RejectRelease(r) \/ DropStream(r)
                              \/ Take(r) \/ Withdraw(r) \/ NotifyCallback(r)
      PROVE  MailboxOK' /\ BatchOK'
  <2>1. /\ UNCHANGED <<mailbox, batch, pc, cur>>
        /\ \A x \in Reqs : post[x] \in {"queued", "drained"} => post'[x] = post[x]
        /\ \A x \in Reqs : client[x] = "reclaim" => client'[x] = "reclaim"
    BY <1>1, <1>4 DEF NewRequest, RejectRelease, DropStream, Take, Withdraw, NotifyCallback
  <2>2. QED
    BY <2>1, MailKept
<1>5. ASSUME NEW r \in Reqs, EnginePost(r)  PROVE MailboxOK' /\ BatchOK'
  <2> USE <1>5 DEF EnginePost, Enqueue
  <2> DEFINE cmd == [tag |-> "GENERATE", arg |-> r]
  <2>1. /\ pc' = "RECLAIM" => pc = "RECLAIM" /\ cur' = cur
        /\ \A x \in Reqs : post[x] \in {"queued", "drained"} => post'[x] = post[x]
        /\ UNCHANGED <<client, batch>>
    BY <1>1
  <2>2. CASE shutdown
    BY <2>1, <2>2, MailKept
  <2>3. CASE ~shutdown
    <3>1. /\ cmd \in Commands /\ cmd.tag = "GENERATE" /\ cmd.arg = r
          /\ mailbox' = Append(mailbox, cmd) /\ post[r] = "new" /\ post'[r] = "queued"
      BY <1>1, <2>3 DEF Commands
    <3> HIDE DEF cmd
    <3>2. QED
      BY <2>1, <3>1, MailAppended
  <2>4. QED
    BY <2>2, <2>3
<1>6. ASSUME NEW r \in Reqs, PostReclaim(r)  PROVE MailboxOK' /\ BatchOK'
  <2> USE <1>6 DEF PostReclaim, Enqueue
  <2> DEFINE cmd == [tag |-> "RECLAIM", arg |-> r]
  <2>1. /\ pc' = "RECLAIM" => pc = "RECLAIM" /\ cur' = cur
        /\ \A x \in Reqs : client[x] = "reclaim" => client'[x] = "reclaim"
        /\ UNCHANGED <<post, batch>>
        /\ client[r] = "hold"
    BY <1>1
  <2>2. CASE shutdown
    BY <2>1, <2>2, MailKept
  <2>3. CASE ~shutdown
    <3>1. /\ cmd \in Commands /\ cmd.tag = "RECLAIM" /\ cmd.arg = r
          /\ mailbox' = Append(mailbox, cmd) /\ client'[r] = "reclaim"
      BY <1>1, <2>3 DEF Commands
    <3> HIDE DEF cmd
    <3>2. ~(pc' = "RECLAIM" /\ cur' = r)
      BY <1>1, <2>1
    <3>3. QED
      BY <2>1, <3>1, <3>2, MailAppended
  <2>4. QED
    BY <2>2, <2>3
<1>7. ASSUME NEW l \in Loads, PostLoad(l) \/ WaitLoad(l)  PROVE MailboxOK' /\ BatchOK'
  BY <1>2, <1>7 DEF PostLoad, WaitLoad
<1>8. ASSUME NEW l \in Loads, PostLoadEnqueue(l)  PROVE MailboxOK' /\ BatchOK'
  <2> USE <1>8 DEF PostLoadEnqueue, Enqueue
  <2> DEFINE cmd == [tag |-> "LOAD", arg |-> l]
  <2>1. /\ pc' = "RECLAIM" => pc = "RECLAIM" /\ cur' = cur
        /\ UNCHANGED <<post, client, batch>>
        /\ cmd \in Commands /\ cmd.tag = "LOAD" /\ mailbox' = Append(mailbox, cmd)
    BY DEF Commands
  <2> HIDE DEF cmd
  <2>2. QED
    BY <2>1, MailAppended
<1>9. ASSUME NEW tag \in Misc, PostMisc(tag)  PROVE MailboxOK' /\ BatchOK'
  <2> USE <1>9 DEF PostMisc, Enqueue
  <2> DEFINE cmd == [tag |-> tag, arg |-> None]
  <2>1. /\ pc' = "RECLAIM" => pc = "RECLAIM" /\ cur' = cur
        /\ UNCHANGED <<post, client, batch>>
    OBVIOUS
  <2>2. CASE shutdown
    BY <1>2, <2>1, <2>2
  <2>3. CASE ~shutdown
    <3>1. cmd \in Commands /\ cmd.tag \notin {"GENERATE", "RECLAIM"} /\ mailbox' = Append(mailbox, cmd)
      BY <2>3, MiscAssumption, MailFacts DEF Commands
    <3> HIDE DEF cmd
    <3>2. QED
      BY <2>1, <3>1, MailAppended
  <2>4. QED
    BY <2>2, <2>3
<1>10. CASE Loop \/ HandleEmbed \/ HandleUnload \/ HandleLoad \/ LoadDone \/ LoadFailed
  BY <1>2, <1>10 DEF Loop, HandleEmbed, HandleUnload, HandleLoad, LoadDone, LoadFailed
<1>11. CASE Generate
  <2> USE DEF GenerateLabels, StubLabels, RealLabels, Generating
  <2>1. CASE GenerateRelease
    <3>1. /\ UNCHANGED <<mailbox, batch, client>> /\ pc' = "loop"
          /\ \A x \in Reqs : post[x] \in {"queued", "drained"} => post'[x] = post[x]
      BY <1>1, <2>1 DEF GenerateRelease
    <3>2. QED
      BY <3>1, MailKept
  <2>2. CASE CheckLoadState
    <3>1. model # "RECLAIM"
      BY DEF IInv, TypeOK, LoadTypeOK
    <3>2. QED
      BY <1>2, <2>2, <3>1 DEF CheckLoadState, FailWith, Step
  <2>3. CASE Stub \/ Real \/ Prefill \/ Seed \/ Decode \/ FailRefused
    <3>1. UNCHANGED <<mailbox, batch, post, client>> /\ pc' # "RECLAIM"
      BY <2>3 DEF Stub, Real, Prefill, Seed, Decode, FailRefused, FailWith, DoneWith, Step
    <3>2. QED
      BY <1>2, <3>1
  <2>4. CASE SetInflight \/ StubPush \/ DecodePush \/ PushDone \/ Abort \/ FailError
             \/ FailDone \/ ClearInflight
    <3>1. UNCHANGED <<mailbox, batch, post, client>> /\ pc' # "RECLAIM"
      BY <2>4 DEF SetInflight, StubPush, DecodePush, PushDone, Abort, FailError, FailDone,
                  ClearInflight, Push
    <3>2. QED
      BY <1>2, <3>1
  <2>5. QED
    BY <1>11, <2>1, <2>2, <2>3, <2>4 DEF Generate
<1>12. CASE ThreadDrain \/ EngineDestroy
  <2>1. pc' # "RECLAIM"
    BY <1>12 DEF ThreadDrain, EngineDestroy, IInv, JoinedOK
  <2>2. CASE DrainTake \/ DrainTerminal \/ DrainDrop
    BY <2>1, <2>2, MailDrained
  <2>3. CASE UNCHANGED <<mailbox, batch, asking>>
    BY <1>2, <2>1, <2>3
  <2>4. QED
    BY <1>12, <2>2, <2>3 DEF ThreadDrain, EngineDestroy
<1>13. CASE EngineSignalShutdown
  BY <1>2, <1>13 DEF EngineSignalShutdown, StoreShutdown, CancelInflight
<1>14. QED
  BY <1>3, <1>4, <1>5, <1>6, <1>7, <1>8, <1>9, <1>10, <1>11, <1>12, <1>13, MailDequeued,
     MailReclaimed DEF Next, Caller, EngineThread

-----------------------------------------------------------------------------
(* LOAD_OK and the model it stands for change together.                    *)
LEMMA ResidentStep ==
  ASSUME IInv, [Next]_vars
  PROVE  ResidentModel'
<1> USE DEF thread, loading, asking, Goto
<1>1. ResidentModel /\ ThreadTypeOK /\ LoadTypeOK /\ JoinedOK
  BY DEF IInv, TypeOK
<1> USE DEF StubLabels, RealLabels
<1>2. ASSUME UNCHANGED <<load_state, model>>,
             pc' \in StubLabels \cup RealLabels =>
                \/ pc \in StubLabels /\ pc' \in StubLabels
                \/ pc \in RealLabels /\ pc' \in RealLabels
      PROVE  ResidentModel'
  BY <1>1, <1>2 DEF ResidentModel
<1>3. CASE UNCHANGED vars
  BY <1>2, <1>3 DEF vars
<1>4. CASE Caller
  <2>1. ASSUME NEW l \in Loads, PostLoadEnqueue(l)  PROVE ResidentModel'
    BY <1>1, <2>1 DEF PostLoadEnqueue, Enqueue, ResidentModel
  <2>2. ASSUME NEW l \in Loads, PostLoad(l) \/ WaitLoad(l)  PROVE ResidentModel'
    BY <1>2, <2>2 DEF PostLoad, WaitLoad
  <2>3. ASSUME NEW r \in Reqs, \/ NewRequest(r) \/ EnginePost(r) \/ RejectRelease(r)
                                \/ Take(r) \/ Withdraw(r) \/ DropStream(r) \/ PostReclaim(r)
        PROVE  ResidentModel'
    <3>1. /\ UNCHANGED <<load_state, model>>
          /\ pc' = (IF pc = "asleep" THEN "dequeue" ELSE pc) \/ UNCHANGED pc
      BY <2>3 DEF NewRequest, EnginePost, RejectRelease, Take, Withdraw, DropStream,
                  PostReclaim, Enqueue
    <3>2. QED
      BY <1>2, <3>1
  <2>4. ASSUME NEW tag \in Misc, PostMisc(tag)  PROVE ResidentModel'
    BY <1>2, <2>4 DEF PostMisc, Enqueue
  <2>5. QED
    BY <1>4, <2>1, <2>2, <2>3, <2>4 DEF Caller
<1>5. CASE Loop \/ HandleReclaim \/ HandleEmbed
  BY <1>2, <1>5 DEF Loop, HandleReclaim, HandleEmbed
<1>6. CASE MailboxDequeue
  <2>1. pc' \notin StubLabels \cup RealLabels
    <3>1. CASE mailbox = <<>>
      BY <1>6, <3>1 DEF MailboxDequeue
    <3>2. CASE mailbox # <<>>
      <4>1. Head(mailbox) \in Commands
        BY <3>2, MailFacts, HeadTailProperties
      <4>2. Head(mailbox).tag \in {"GENERATE", "RECLAIM", "LOAD", "UNLOAD", "EMBED", "STOP"}
        BY <4>1 DEF Commands
      <4>3. QED
        BY <1>6, <3>2, <4>2 DEF MailboxDequeue
    <3>3. QED
      BY <3>1, <3>2
  <2>2. QED
    BY <1>2, <1>6, <2>1 DEF MailboxDequeue
<1>7. CASE HandleUnload \/ HandleLoad \/ LoadDone \/ LoadFailed
  BY <1>1, <1>7 DEF HandleUnload, HandleLoad, LoadDone, LoadFailed, ResidentModel
<1>8. CASE Generate
  <2> USE DEF Generating
  <2>1. CASE GenerateRelease \/ SetInflight \/ Abort \/ FailRefused \/ ClearInflight
    BY <1>2, <2>1 DEF GenerateRelease, SetInflight, Abort, FailRefused, ClearInflight, Step
  <2>2. CASE CheckLoadState
    <3>1. UNCHANGED <<load_state, model>>
      BY <2>2 DEF CheckLoadState, FailWith, Step
    <3>2. pc' \in {"fail", model}
      BY <2>2 DEF CheckLoadState, FailWith, Step
    <3>3. pc' = "fail" \/ (pc' = "stub" /\ model = "stub") \/ (pc' = "real" /\ model = "real")
          \/ (pc' = "none" /\ model = "none")
      BY <1>1, <3>2 DEF LoadTypeOK
    <3>4. QED
      BY <1>1, <3>1, <3>3 DEF ResidentModel
  <2>3. CASE Stub \/ Real \/ Prefill \/ Seed \/ Decode
    BY <1>2, <2>3 DEF Stub, Real, Prefill, Seed, Decode, FailWith, DoneWith, Step
  <2>4. CASE StubPush \/ DecodePush \/ PushDone \/ FailError \/ FailDone
    BY <1>2, <2>4 DEF StubPush, DecodePush, PushDone, FailError, FailDone, Push
  <2>5. QED
    BY <1>8, <2>1, <2>2, <2>3, <2>4 DEF Generate
<1>9. CASE ThreadDrain
  BY <1>2, <1>9 DEF ThreadDrain, DrainTake, DrainTerminal, DrainDrop
<1>10. CASE EngineDestroy
  BY <1>1, <1>2, <1>10 DEF EngineDestroy, DrainTake, DrainTerminal, DrainDrop, JoinedOK,
                          ResidentModel
<1>11. CASE EngineSignalShutdown
  BY <1>2, <1>11 DEF EngineSignalShutdown, StoreShutdown, CancelInflight
<1>12. CASE \E r \in Reqs : NotifyCallback(r)
  BY <1>2, <1>12 DEF NotifyCallback
<1>13. QED
  BY <1>3, <1>4, <1>5, <1>6, <1>7, <1>8, <1>9, <1>10, <1>11, <1>12 DEF Next, EngineThread

LEMMA InitIInv == Init => IInv
<1> SUFFICES ASSUME Init PROVE IInv
  OBVIOUS
<1> USE DEF Init, StreamsInit
<1>1. StreamsTypeOK
  BY StreamCapAssumption DEF StreamsTypeOK
<1>2. MailTypeOK /\ LoadTypeOK
  <2>1. MailTypeOK
    BY DEF MailTypeOK
  <2>2. LoadTypeOK
    BY Zenon DEF LoadTypeOK
  <2>3. QED
    BY <2>1, <2>2
<1>3. ThreadTypeOK
  BY DEF ThreadTypeOK, GenerateLabels, StubLabels, RealLabels, LoadLabels, OtherLabels,
         Errors, Terminals
<1>4. CallerTypeOK
  <2>1. input \in [Reqs -> [n : Nat, max : Nat]]
    BY BoundsAssumption, Zenon
  <2>2. QED
    BY <2>1 DEF CallerTypeOK
<1>5. RefsExact
  <2>1. refs \in [Reqs -> 0..2]
    BY <1>1 DEF StreamsTypeOK
  <2>2. ASSUME NEW r \in Reqs
        PROVE  refs[r] = (IF client[r] \in {"hold", "reclaim"} THEN 1 ELSE 0)
                + (IF post[r] \in {"new", "queued", "running", "drained", "reject"}
                     THEN 1 ELSE 0)
    <3>1. refs[r] = 0 /\ client[r] = "none" /\ post[r] = "none"
      OBVIOUS
    <3>2. QED
      BY ONLY <2>1, <3>1
  <2>3. QED
    BY <2>2 DEF RefsExact
<1>6. ThreadOK /\ InflightOK /\ CallbackOK /\ FreshOK
  BY DEF ThreadOK, InflightOK, CallbackOK, FreshOK, GenerateLabels, StubLabels, RealLabels
<1>7. MailboxOK /\ BatchOK
  BY DEF MailboxOK, BatchOK
<1>8. ResidentModel /\ JoinedOK
  BY DEF ResidentModel, JoinedOK, StubLabels, RealLabels
<1>9. QED
  BY <1>1, <1>2, <1>3, <1>4, <1>5, <1>6, <1>7, <1>8 DEF IInv, Owners, TypeOK

LEMMA StepIInv == IInv /\ [Next]_vars => IInv'
<1> SUFFICES ASSUME IInv, [Next]_vars PROVE IInv'
  OBVIOUS
<1>1. Owners' /\ JoinedOK'
  <2>1. CASE UNCHANGED vars
    BY <2>1 DEF vars, streams, thread, asking, IInv, Owners, RefsExact, ThreadOK, InflightOK,
                CallbackOK, FreshOK, JoinedOK
  <2>2. QED
    BY <2>1, CallerOwners, ThreadOwners, GenerateOwners, StopOwners DEF Next, EngineThread
<1>2. QED
  BY <1>1, TypeStep, MailStep, ResidentStep DEF IInv

LEMMA Inductive == Spec => []IInv
  BY InitIInv, StepIInv, PTL DEF Spec

-----------------------------------------------------------------------------
(* The engine's state keeps its types whatever the callers do.             *)
THEOREM EngineTypeCorrect == Spec => []TypeOK
<1>1. IInv => TypeOK
  BY DEF IInv
<1>2. QED
  BY <1>1, Inductive, PTL

(* stream_retain and stream_release balance on every path a command can    *)
(* take: handled, drained, rejected by engine_post, reclaimed.             *)
THEOREM ReferencesExact == Spec => []RefsExact
<1>1. IInv => RefsExact
  BY DEF IInv, Owners
<1>2. QED
  BY <1>1, Inductive, PTL

(* Neither a queued command, the engine thread, engine_signal_shutdown nor *)
(* a callback that is due ever reaches a freed stream.                     *)
THEOREM NeverUsedAfterFree == Spec => []NoUseAfterFree
<1>1. ASSUME IInv  PROVE NoUseAfterFree
  <2>1. /\ RefsExact /\ ThreadOK /\ InflightOK /\ CallbackOK /\ MailboxOK /\ BatchOK
    BY <1>1 DEF IInv, Owners
  <2>2. ASSUME NEW r \in Reqs,
               post[r] \in {"queued", "drained", "running", "reject"} \/ client[r] = "reclaim"
        PROVE  refs[r] > 0
    BY <2>1, <2>2 DEF RefsExact
  <2>3. ASSUME NEW r \in Reqs, Carries(mailbox, r) \/ Carries(batch, r)
        PROVE  refs[r] > 0
    BY <2>1, <2>2, <2>3 DEF Carries, MailboxOK, BatchOK, Pending
  <2>4. ASSUME NEW r \in Reqs, pc \in GenerateLabels \cup {"RECLAIM"}, cur = r
        PROVE  refs[r] > 0
    BY <2>1, <2>2, <2>4 DEF ThreadOK
  <2>5. ASSUME NEW r \in Reqs, inflight = r  PROVE refs[r] > 0
    BY <2>1, <2>4, <2>5, NoneAssumption DEF InflightOK
  <2>6. ASSUME NEW r \in Reqs, r \in cb  PROVE refs[r] > 0
    BY <2>1, <2>2, <2>6 DEF CallbackOK
  <2>7. QED
    BY <2>3, <2>4, <2>5, <2>6 DEF NoUseAfterFree
<1>2. QED
  BY <1>1, Inductive, PTL

(* LOAD_OK always stands for a resident model, and a generation never      *)
(* loses the model it is running on.                                       *)
THEOREM ModelStaysResident == Spec => []ResidentModel
<1>1. IInv => ResidentModel
  BY DEF IInv
<1>2. QED
  BY <1>1, Inductive, PTL
-----------------------------------------------------------------------------
(* What each operation of a stream does to its history: what was taken and *)
(* what is queued, in one sequence.                                        *)
Ended(r) == Occurs(Terminals, History(r))
Failed(r) == Occurs(Errors, History(r))
LengthSent(r) == Occurs({"length"}, History(r))

LEMMA OccursAppend ==
  ASSUME NEW X, NEW s \in Seq(X), NEW c \in X, NEW S
  PROVE  Occurs(S, Append(s, c)) <=> Occurs(S, s) \/ c \in S
<1>1. /\ Len(s) \in Nat /\ Len(Append(s, c)) = Len(s) + 1
      /\ \A i \in 1..Len(s) : Append(s, c)[i] = s[i]
      /\ Append(s, c)[Len(s) + 1] = c
  BY AppendProperties, LenProperties
<1>2. QED
  BY <1>1 DEF Occurs

(* The tokens of a sequence, counted.                                      *)
TokensOf(s) == Cardinality({i \in 1..Len(s) : s[i] = "token"})

LEMMA TokensFinite ==
  ASSUME NEW X, NEW s \in Seq(X)
  PROVE  /\ IsFiniteSet({i \in 1..Len(s) : s[i] = "token"})
         /\ TokensOf(s) \in Nat
<1>1. Len(s) \in Nat /\ IsFiniteSet(1..Len(s))
  BY LenProperties, FS_Interval
<1>2. IsFiniteSet({i \in 1..Len(s) : s[i] = "token"})
  BY <1>1, FS_Subset
<1>3. QED
  BY <1>2, FS_CardinalityType DEF TokensOf

LEMMA TokensAppend ==
  ASSUME NEW X, NEW s \in Seq(X), NEW c \in X
  PROVE  TokensOf(Append(s, c)) = TokensOf(s) + (IF c = "token" THEN 1 ELSE 0)
<1> DEFINE old == {i \in 1..Len(s) : s[i] = "token"}
           new == {i \in 1..Len(Append(s, c)) : Append(s, c)[i] = "token"}
<1>1. /\ Len(s) \in Nat /\ Len(Append(s, c)) = Len(s) + 1
      /\ \A i \in 1..Len(s) : Append(s, c)[i] = s[i]
      /\ Append(s, c)[Len(s) + 1] = c
  BY AppendProperties, LenProperties
<1>2. IsFiniteSet(old) /\ Cardinality(old) \in Nat /\ Len(s) + 1 \notin old
  BY <1>1, TokensFinite DEF TokensOf
<1>3. CASE c = "token"
  <2>1. new = old \cup {Len(s) + 1}
    BY <1>1, <1>3
  <2>2. QED
    BY <1>2, <1>3, <2>1, FS_AddElement DEF TokensOf
<1>4. CASE c # "token"
  <2>1. new = old
    BY <1>1, <1>4
  <2>2. TokensOf(Append(s, c)) = TokensOf(s) /\ TokensOf(s) \in Nat
    BY <2>1, TokensFinite DEF TokensOf
  <2>3. QED
    BY <1>4, <2>2
<1>5. QED
  BY <1>3, <1>4

LEMMA TokensOverwritten ==
  ASSUME NEW X, NEW s \in Seq(X), NEW n \in 1..Len(s), NEW c \in X, c # "token"
  PROVE  /\ TokensOf([s EXCEPT ![n] = c]) \in Nat
         /\ TokensOf([s EXCEPT ![n] = c]) <= TokensOf(s)
<1> DEFINE old == {i \in 1..Len(s) : s[i] = "token"}
           t == [s EXCEPT ![n] = c]
           new == {i \in 1..Len(t) : t[i] = "token"}
<1>1. Len(t) = Len(s) /\ \A i \in 1..Len(s) : t[i] = IF i = n THEN c ELSE s[i]
  BY ExceptSeq
<1>2. IsFiniteSet(old) /\ new \subseteq old
  BY <1>1, TokensFinite
<1>3. IsFiniteSet(new) /\ Cardinality(new) \in Nat /\ Cardinality(new) <= Cardinality(old)
  BY <1>2, FS_Subset, FS_CardinalityType
<1>4. QED
  BY <1>3 DEF TokensOf

(* Append to the queue is append to the history; the overwriting of the    *)
(* newest chunk in a full queue, that of the newest one of the history.    *)
LEMMA ConcatAppend ==
  ASSUME NEW X, NEW g \in Seq(X), NEW s \in Seq(X), NEW c \in X
  PROVE  g \o Append(s, c) = Append(g \o s, c)
  BY ConcatProperties, AppendProperties, LenProperties, SeqEqual

Overwrite(s, n, c) == [s EXCEPT ![n] = c]
Overwritten(t, s, c) == \E k \in 1..Len(s) : t = Overwrite(s, k, c)

LEMMA ConcatExcept ==
  ASSUME NEW X, NEW g \in Seq(X), NEW s \in Seq(X), NEW n \in 1..Len(s), NEW c \in X
  PROVE  Overwritten(g \o Overwrite(s, n, c), g \o s, c)
<1>1. /\ Len(g) \in Nat /\ Len(s) \in Nat /\ g \o s \in Seq(X)
      /\ Len(g \o s) = Len(g) + Len(s)
      /\ \A i \in 1..Len(g) + Len(s) : (g \o s)[i] = IF i <= Len(g) THEN g[i] ELSE s[i - Len(g)]
  BY LenProperties, ConcatProperties
<1>2. PICK k \in 1..Len(g \o s) : k = Len(g) + n
  BY <1>1
<1> DEFINE t == [s EXCEPT ![n] = c]
           u == [g \o s EXCEPT ![k] = c]
<1>3. /\ t \in Seq(X) /\ Len(t) = Len(s)
      /\ \A i \in 1..Len(s) : t[i] = IF i = n THEN c ELSE s[i]
  BY ExceptSeq
<1>4. /\ u \in Seq(X) /\ Len(u) = Len(g) + Len(s)
      /\ \A i \in 1..Len(g) + Len(s) : u[i] = IF i = k THEN c ELSE (g \o s)[i]
  <2>1. \A w \in Seq(X) : \A m \in 1..Len(w) :
           /\ [w EXCEPT ![m] = c] \in Seq(X) /\ Len([w EXCEPT ![m] = c]) = Len(w)
           /\ \A j \in 1..Len(w) : [w EXCEPT ![m] = c][j] = IF j = m THEN c ELSE w[j]
    BY ExceptSeq
  <2>2. /\ u \in Seq(X) /\ Len(u) = Len(g \o s)
        /\ \A j \in 1..Len(g \o s) : u[j] = IF j = k THEN c ELSE (g \o s)[j]
    BY <1>1, <2>1, Zenon
  <2>3. QED
    BY <1>1, <2>2, Zenon
<1>5. /\ g \o t \in Seq(X) /\ Len(g \o t) = Len(g) + Len(s)
      /\ \A i \in 1..Len(g) + Len(s) : (g \o t)[i] = IF i <= Len(g) THEN g[i] ELSE t[i - Len(g)]
  BY <1>3, ConcatProperties
<1> HIDE DEF t, u
<1>6. ASSUME NEW i \in 1..Len(g) + Len(s)  PROVE (g \o t)[i] = u[i]
  <2>1. CASE i <= Len(g)
    BY <1>1, <1>2, <1>4, <1>5, <2>1
  <2>2. CASE i > Len(g)
    <3>1. PICK j \in 1..Len(s) : j = i - Len(g)
      BY <1>1, <2>2
    <3>2. (g \o t)[i] = t[j] /\ (g \o s)[i] = s[j] /\ (i = k <=> j = n)
      BY <1>1, <1>2, <1>5, <2>2, <3>1
    <3>3. QED
      BY <1>3, <1>4, <3>2
  <2>3. i <= Len(g) \/ i > Len(g)
    BY <1>1
  <2>4. QED
    BY <2>1, <2>2, <2>3, Zenon
<1>7. g \o t = u
  BY <1>4, <1>5, <1>6, SeqEqual
<1>8. QED
  BY <1>2, <1>7, Zenon DEF t, u, Overwrite, Overwritten

LEMMA ConcatTail ==
  ASSUME NEW X, NEW g \in Seq(X), NEW s \in Seq(X), s # <<>>
  PROVE  Append(g, Head(s)) \o Tail(s) = g \o s
<1>1. /\ Len(g) \in Nat /\ Len(s) \in Nat \ {0} /\ Head(s) \in X /\ Head(s) = s[1]
      /\ Tail(s) \in Seq(X) /\ Len(Tail(s)) = Len(s) - 1
      /\ \A i \in 1..Len(Tail(s)) : Tail(s)[i] = s[i + 1]
  BY LenProperties, EmptySeq, HeadTailProperties
<1>2. /\ Append(g, Head(s)) \in Seq(X) /\ Len(Append(g, Head(s))) = Len(g) + 1
      /\ \A i \in 1..Len(g) : Append(g, Head(s))[i] = g[i]
      /\ Append(g, Head(s))[Len(g) + 1] = s[1]
  BY <1>1, AppendProperties
<1> DEFINE a == Append(g, Head(s)) \o Tail(s)
           b == g \o s
<1>3. /\ a \in Seq(X) /\ Len(a) = Len(g) + Len(s)
      /\ \A i \in 1..Len(g) + Len(s) :
            a[i] = IF i <= Len(g) + 1 THEN Append(g, Head(s))[i] ELSE Tail(s)[i - (Len(g) + 1)]
  BY <1>1, <1>2, ConcatProperties
<1>4. /\ b \in Seq(X) /\ Len(b) = Len(g) + Len(s)
      /\ \A i \in 1..Len(g) + Len(s) : b[i] = IF i <= Len(g) THEN g[i] ELSE s[i - Len(g)]
  BY <1>1, ConcatProperties
<1> HIDE DEF a, b
<1>5. ASSUME NEW i \in 1..Len(g) + Len(s)  PROVE a[i] = b[i]
  <2>1. CASE i <= Len(g)
    BY <1>1, <1>2, <1>3, <1>4, <2>1
  <2>2. CASE i = Len(g) + 1
    BY <1>1, <1>2, <1>3, <1>4, <2>2
  <2>3. CASE i > Len(g) + 1
    <3>1. PICK j \in 1..Len(Tail(s)) : j = i - (Len(g) + 1)
      <4>1. PICK m \in Nat, n \in Nat : m = Len(g) /\ n = Len(s)
        BY <1>1
      <4>2. i - (Len(g) + 1) \in 1..(n - 1)
        BY <2>3, <4>1
      <4>3. QED
        BY <1>1, <4>1, <4>2, Zenon
    <3>2. a[i] = Tail(s)[j] /\ b[i] = s[j + 1]
      BY <1>1, <1>3, <1>4, <2>3, <3>1
    <3>3. QED
      BY <1>1, <3>2
  <2>4. QED
    BY <1>1, <2>1, <2>2, <2>3
<1>6. a = b
  BY <1>3, <1>4, <1>5, SeqEqual
<1>7. QED
  BY <1>6 DEF a, b

(* An operation that leaves the history of request x as it is.             *)
Kept(x) == /\ Ended(x)' <=> Ended(x)
           /\ Failed(x)' <=> Failed(x)
           /\ LengthSent(x)' <=> LengthSent(x)
           /\ Tokens(x)' = Tokens(x)

LEMMA SameHistory ==
  ASSUME NEW x, History(x)' = History(x)
  PROVE  Kept(x)
  BY DEF Kept, Ended, Failed, LengthSent, Tokens, Occurs

LEMMA Untouched ==
  ASSUME NEW x, q'[x] = q[x], got'[x] = got[x]
  PROVE  Kept(x)
<1>1. History(x)' = History(x)
  BY DEF History
<1>2. QED
  BY <1>1, SameHistory

LEMMA SilentEffect ==
  ASSUME NEW r, StreamCreate(r) \/ StreamPushRefused(r) \/ StreamCancel(r) \/ Callback(r)
                \/ StreamRelease(r) \/ UNCHANGED streams
  PROVE  \A x : Kept(x) /\ q'[x] = q[x] /\ got'[x] = got[x]
<1>1. q' = q /\ got' = got
  BY DEF StreamCreate, StreamPushRefused, StreamCancel, Callback, StreamRelease, streams
<1>2. QED
  BY <1>1, Untouched

LEMMA NextEffect ==
  ASSUME StreamsTypeOK, NEW r \in Reqs, StreamNext(r)
  PROVE  \A x \in Reqs : Kept(x)
<1>1. q[r] \in Seq(Chunks) /\ got[r] \in Seq(Chunks) /\ q[r] # <<>>
  BY DEF StreamsTypeOK, StreamNext
<1>2. History(r)' = History(r)
  <2>1. q'[r] = Tail(q[r]) /\ got'[r] = Append(got[r], Head(q[r]))
    BY DEF StreamsTypeOK, StreamNext
  <2>2. History(r)' = Append(got[r], Head(q[r])) \o Tail(q[r])
    BY <2>1 DEF History
  <2>3. QED
    BY <1>1, <2>2, ConcatTail, Zenon DEF History
<1>3. ASSUME NEW x \in Reqs, x # r  PROVE Kept(x)
  BY <1>3, Untouched DEF StreamsTypeOK, StreamNext
<1>4. QED
  BY <1>2, <1>3, SameHistory

LEMMA PushEffect ==
  ASSUME StreamsTypeOK, NEW r \in Reqs, NEW c \in Chunks, StreamPush(r, c)
  PROVE  /\ \A x \in Reqs \ {r} : Kept(x)
         /\ Ended(r)' <=> Ended(r) \/ c \in Terminals
         /\ Failed(r)' <=> Failed(r) \/ c \in Errors
         /\ Tokens(r)' = Tokens(r) + (IF c = "token" THEN 1 ELSE 0)
         /\ LengthSent(r)' <=> LengthSent(r) \/ c = "length"
<1>1. q[r] \in Seq(Chunks) /\ got[r] \in Seq(Chunks) /\ History(r) \in Seq(Chunks)
  BY ConcatProperties DEF StreamsTypeOK, History
<1>2. History(r)' = Append(History(r), c)
  <2>1. q'[r] = Append(q[r], c) /\ got'[r] = got[r]
    BY DEF StreamsTypeOK, StreamPush
  <2>2. History(r)' = got[r] \o Append(q[r], c)
    BY <2>1 DEF History
  <2>3. QED
    <3>1. \A g, s \in Seq(Chunks), d \in Chunks : g \o Append(s, d) = Append(g \o s, d)
      BY ConcatAppend
    <3>2. got[r] \o Append(q[r], c) = Append(got[r] \o q[r], c)
      BY ONLY <1>1, <3>1, c \in Chunks
    <3>3. QED
      BY ONLY <2>2, <3>2 DEF History
<1>3. \A S : Occurs(S, Append(History(r), c)) <=> Occurs(S, History(r)) \/ c \in S
  BY <1>1, OccursAppend
<1>4. TokensOf(Append(History(r), c)) = TokensOf(History(r)) + (IF c = "token" THEN 1 ELSE 0)
  BY <1>1, TokensAppend
<1>5. ASSUME NEW x \in Reqs \ {r}  PROVE Kept(x)
  BY Untouched DEF StreamsTypeOK, StreamPush
<1>6. \A S : Occurs(S, History(r))' <=> Occurs(S, History(r)') 
  BY DEF Occurs
<1>7. Tokens(r)' = TokensOf(History(r)')
  BY DEF Tokens, TokensOf
<1>8. Tokens(r) = TokensOf(History(r))
  BY DEF Tokens, TokensOf
<1>9. QED
  BY <1>2, <1>3, <1>4, <1>5, <1>6, <1>7, <1>8 DEF Ended, Failed, LengthSent

LEMMA FinishEffect ==
  ASSUME StreamsTypeOK, NEW r \in Reqs, StreamFinishCancelled(r)
  PROVE  /\ \A x \in Reqs \ {r} : Kept(x)
         /\ Ended(r)'
         /\ Tokens(r)' \in Nat /\ Tokens(r)' <= Tokens(r)
         /\ LengthSent(r)' => LengthSent(r)
<1>1. /\ q[r] \in Seq(Chunks) /\ got[r] \in Seq(Chunks) /\ History(r) \in Seq(Chunks)
      /\ Len(q[r]) <= Cap /\ Len(q[r]) \in Nat
  BY ConcatProperties, LenProperties DEF StreamsTypeOK, History
<1>2. "cancelled" \in Chunks /\ "cancelled" \in Terminals
  BY DEF Chunks, Terminals
<1>3. \A S : Occurs(S, History(r))' <=> Occurs(S, History(r)')
  BY DEF Occurs
<1>4. Tokens(r)' = TokensOf(History(r)') /\ Tokens(r) = TokensOf(History(r))
  BY DEF Tokens, TokensOf
<1>5. ASSUME NEW x \in Reqs \ {r}  PROVE Kept(x)
  <2>1. q'[x] = q[x] /\ got'[x] = got[x]
    BY DEF StreamsTypeOK, StreamFinishCancelled
  <2>2. QED
    BY <2>1, Untouched
<1>6. CASE Len(q[r]) < Cap
  <2>1. q'[r] = Append(q[r], "cancelled") /\ got'[r] = got[r]
    BY <1>6 DEF StreamsTypeOK, StreamFinishCancelled
  <2>2. History(r)' = Append(History(r), "cancelled")
    <3>1. History(r)' = got[r] \o Append(q[r], "cancelled")
      BY <2>1 DEF History
    <3>2. \A g, s \in Seq(Chunks), d \in Chunks : g \o Append(s, d) = Append(g \o s, d)
      BY ConcatAppend
    <3>3. got[r] \o Append(q[r], "cancelled") = Append(got[r] \o q[r], "cancelled")
      BY ONLY <1>1, <1>2, <3>2
    <3>4. QED
      BY ONLY <3>1, <3>3 DEF History
  <2>3. \A S : Occurs(S, History(r)') <=> Occurs(S, History(r)) \/ "cancelled" \in S
    BY <1>1, <1>2, <2>2, OccursAppend
  <2>4. TokensOf(History(r)') = TokensOf(History(r)) + 0
    BY <1>1, <1>2, <2>2, TokensAppend
  <2>5. TokensOf(History(r)) \in Nat
    BY <1>1, TokensFinite
  <2>6. Tokens(r)' \in Nat /\ Tokens(r)' <= Tokens(r)
    BY ONLY <1>4, <2>4, <2>5
  <2>7. Ended(r)' /\ (LengthSent(r)' => LengthSent(r))
    BY <1>2, <1>3, <2>3 DEF Ended, LengthSent
  <2>8. QED
    BY <1>5, <2>6, <2>7
<1>7. CASE ~(Len(q[r]) < Cap)
  <2>1. Len(q[r]) = Cap /\ Cap \in 1..Len(q[r])
    BY <1>1, <1>7, StreamCapAssumption
  <2>2. q'[r] = [q[r] EXCEPT ![Cap] = "cancelled"] /\ got'[r] = got[r]
    BY <1>7 DEF StreamsTypeOK, StreamFinishCancelled
  <2>3. PICK n \in 1..Len(History(r)) : History(r)' = [History(r) EXCEPT ![n] = "cancelled"]
    <3>1. History(r)' = got[r] \o [q[r] EXCEPT ![Cap] = "cancelled"]
      BY <2>2 DEF History
    <3>2. \A g, s \in Seq(Chunks) : \A n \in 1..Len(s), c \in Chunks :
             Overwritten(g \o Overwrite(s, n, c), g \o s, c)
      BY ConcatExcept, Zenon
    <3>3. Overwritten(got[r] \o Overwrite(q[r], Cap, "cancelled"), got[r] \o q[r], "cancelled")
      BY ONLY <1>1, <1>2, <2>1, <3>2, Zenon
    <3>4. QED
      BY <3>1, <3>3, Zenon DEF History, Overwrite, Overwritten
  <2>4. /\ Len(History(r)') = Len(History(r))
        /\ \A i \in 1..Len(History(r)) :
              History(r)'[i] = IF i = n THEN "cancelled" ELSE History(r)[i]
    BY <1>1, <1>2, <2>3, ExceptSeq
  <2>5. Ended(r)' /\ (LengthSent(r)' => LengthSent(r))
    BY <1>2, <1>3, <2>4 DEF Occurs, Ended, LengthSent
  <2>6. TokensOf(History(r)') \in Nat /\ TokensOf(History(r)') <= TokensOf(History(r))
    BY <1>1, <1>2, <2>3, TokensOverwritten
  <2>7. QED
    BY <1>3, <1>4, <1>5, <2>5, <2>6
<1>8. QED
  BY <1>6, <1>7
-----------------------------------------------------------------------------
(* How far a request is: what its history may hold wherever its command    *)
(* is, and what the thread's place and count say of the one it is handling.*)
Early == {"GENERATE", "load_state"} \cup StubLabels \cup RealLabels

StartedOK(r) ==
    /\ post[r] \in {"none", "new", "queued"} => ~Ended(r) /\ ~Failed(r) /\ Tokens(r) = 0
    /\ post[r] \in {"drained", "reject"} => Ended(r)
    /\ post[r] = "released" => Ended(r) \/ r \in withdrawn
RunningOK(r) ==
    post[r] = "running" =>
        /\ pc \in GenerateLabels /\ cur = r
        /\ pc \in Early \cup {"done", "fail"} => ~Ended(r) /\ ~Failed(r)
        /\ pc \in {"abort", "fail done", "fail refused"} => ~Ended(r)
        /\ pc \in {"clear", "release"} => Ended(r) \/ r \in withdrawn
        /\ pc \in Early \cup {"done"} => Tokens(r) = emitted
BudgetOK(r) ==
    /\ Tokens(r) \in Nat /\ Tokens(r) <= input[r].max
    /\ LengthSent(r) => Ended(r) /\ Tokens(r) = input[r].max
CancelledOK(r) == cancelled[r] => r \in withdrawn \/ shutdown \/ Ended(r)

RequestOK(r) == StartedOK(r) /\ RunningOK(r) /\ BudgetOK(r) /\ CancelledOK(r)

(* Why the thread is where it is, and how many tokens it has counted.      *)
ReasonOK ==
    /\ pc = "done" => reason \in {"stop", "length"}
    /\ pc = "fail" => reason \in Errors
    /\ pc = "abort" => shutdown \/ cancelled[cur]
    /\ pc = "fail refused" => cancelled[cur]
LoopOK ==
    /\ pc \notin GenerateLabels \/ pc \in {"GENERATE", "load_state", "real"} => emitted = 0
    /\ pc = "stub" => emitted <= Limit
    /\ pc = "stub push" => emitted < Limit
    /\ pc \in RealLabels \ {"real"} => emitted < input[cur].max
    /\ pc = "done" /\ reason = "length" => emitted = input[cur].max
StoredOK == stopper # "idle" => shutdown

Progress == (\A r \in Reqs : RequestOK(r)) /\ ReasonOK /\ LoopOK /\ StoredOK

(* A request whose command stays where it is: its queue may be read, its   *)
(* references may go, and the thread, if it has it, stays where it is.     *)
LEMMA RequestKept ==
  ASSUME NEW x \in Reqs, RequestOK(x), Kept(x), post'[x] = post[x], input' = input,
         withdrawn \subseteq withdrawn', shutdown => shutdown',
         cancelled'[x] => cancelled[x] \/ shutdown' \/ x \in withdrawn',
         post[x] = "running" => UNCHANGED <<pc, cur, emitted>>
  PROVE  RequestOK(x)'
<1> USE DEF Kept
<1>1. StartedOK(x)'
  BY DEF RequestOK, StartedOK
<1>2. RunningOK(x)'
  BY DEF RequestOK, RunningOK
<1>3. BudgetOK(x)'
  BY DEF RequestOK, BudgetOK
<1>4. CancelledOK(x)'
  BY DEF RequestOK, CancelledOK
<1>5. QED
  BY <1>1, <1>2, <1>3, <1>4 DEF RequestOK

(* What a wakeup leaves of the thread.                                     *)
Woken == pc' = (IF pc = "asleep" THEN "dequeue" ELSE pc) \/ UNCHANGED pc

LEMMA ThreadKept ==
  ASSUME TypeOK, ReasonOK, LoopOK, Woken, UNCHANGED <<cur, emitted, reason, input>>,
         shutdown => shutdown', \A x \in Reqs : cancelled[x] => cancelled'[x]
  PROVE  ReasonOK' /\ LoopOK'
<1>1. pc \in GenerateLabels => UNCHANGED pc /\ cur \in Reqs
  BY DEF Woken, GenerateLabels, StubLabels, RealLabels, TypeOK, ThreadTypeOK
<1>2. CASE pc \in GenerateLabels
  <2>1. ReasonOK'
    BY <1>1, <1>2 DEF ReasonOK
  <2>2. LoopOK'
    BY <1>1, <1>2 DEF LoopOK, Limit
  <2>3. QED
    BY <2>1, <2>2
<1>3. CASE pc \notin GenerateLabels
  <2>1. pc' \notin GenerateLabels /\ emitted = 0
    BY <1>3 DEF Woken, LoopOK, GenerateLabels, StubLabels, RealLabels
  <2>2. ReasonOK'
    BY <2>1 DEF ReasonOK, GenerateLabels
  <2>3. LoopOK'
    BY <2>1 DEF LoopOK, GenerateLabels, StubLabels, RealLabels
  <2>4. QED
    BY <2>2, <2>3
<1>4. QED
  BY <1>2, <1>3

(* The three together, for an action of another thread that leaves every   *)
(* command where it is.                                                    *)
LEMMA AllKept ==
  ASSUME TypeOK, Progress, Woken, UNCHANGED <<cur, emitted, reason, input, post>>,
         shutdown => shutdown', stopper' # "idle" => stopper # "idle" \/ shutdown',
         withdrawn \subseteq withdrawn',
         \A x \in Reqs : /\ cancelled[x] => cancelled'[x]
                         /\ cancelled'[x] => cancelled[x] \/ shutdown' \/ x \in withdrawn',
         \A x \in Reqs : Kept(x)
  PROVE  Progress'
<1>1. ASSUME NEW x \in Reqs  PROVE RequestOK(x)'
  <2>1. RequestOK(x)
    BY DEF Progress
  <2>2. post[x] = "running" => UNCHANGED <<pc, cur, emitted>>
    BY <2>1 DEF RequestOK, RunningOK, Woken, GenerateLabels, StubLabels, RealLabels
  <2>3. QED
    BY <2>1, <2>2, RequestKept
<1>2. ReasonOK' /\ LoopOK'
  BY ThreadKept DEF Progress
<1>3. StoredOK'
  BY DEF Progress, StoredOK
<1>4. QED
  BY <1>1, <1>2, <1>3 DEF Progress

(* What an operation of a stream does to the cancelled flags.              *)
Flags(r) == /\ \A x \in Reqs : cancelled[x] => cancelled'[x]
            /\ \A x \in Reqs \ {r} : cancelled'[x] = cancelled[x]

LEMMA FlagsKept ==
  ASSUME StreamsTypeOK, NEW r \in Reqs,
         \/ StreamCreate(r) \/ StreamNext(r) \/ StreamRelease(r) \/ Callback(r)
         \/ StreamPushRefused(r) \/ UNCHANGED streams
         \/ (\E c \in Chunks : StreamPush(r, c))
  PROVE  cancelled' = cancelled
  BY DEF StreamCreate, StreamNext, StreamRelease, Callback, StreamPush, StreamPushRefused,
         streams

LEMMA FlagsSet ==
  ASSUME StreamsTypeOK, NEW r \in Reqs, StreamCancel(r) \/ StreamFinishCancelled(r)
  PROVE  Flags(r) /\ cancelled'[r]
  BY DEF StreamCancel, StreamFinishCancelled, StreamsTypeOK, Flags

(* A request on its way to the mailbox.                                    *)
LEMMA RequestMoved ==
  ASSUME NEW x \in Reqs, RequestOK(x), Kept(x), UNCHANGED <<cancelled, input, withdrawn>>,
         shutdown => shutdown', post[x] \in {"none", "new", "queued"},
         post'[x] \in {"none", "new", "queued"}
  PROVE  RequestOK(x)'
  BY DEF RequestOK, StartedOK, RunningOK, BudgetOK, CancelledOK, Kept

(* The reference of the engine goes.                                       *)
LEMMA RequestReleased ==
  ASSUME NEW x \in Reqs, RequestOK(x), Kept(x), UNCHANGED <<cancelled, input, withdrawn>>,
         shutdown => shutdown',
         post[x] \in {"drained", "reject"} \/ (post[x] = "running" /\ pc = "release"),
         post'[x] = "released"
  PROVE  RequestOK(x)'
  BY DEF RequestOK, StartedOK, RunningOK, BudgetOK, CancelledOK, Kept

(* stream_finish_cancelled on a request that has no terminal yet.          *)
LEMMA RequestFinished ==
  ASSUME StreamsTypeOK, NEW r \in Reqs, RequestOK(r), ~Ended(r), StreamFinishCancelled(r),
         UNCHANGED input, input[r].max \in Nat
  PROVE  /\ BudgetOK(r)' /\ CancelledOK(r)' /\ Ended(r)'
         /\ post'[r] \in {"drained", "reject"} => RequestOK(r)'
<1>1. /\ Ended(r)' /\ Tokens(r)' \in Nat /\ Tokens(r)' <= Tokens(r)
      /\ LengthSent(r)' => LengthSent(r)
  BY FinishEffect
<1>2. BudgetOK(r)' /\ CancelledOK(r)'
  BY <1>1 DEF RequestOK, BudgetOK, CancelledOK
<1>3. post'[r] \in {"drained", "reject"} => StartedOK(r)' /\ RunningOK(r)'
  BY <1>1 DEF StartedOK, RunningOK
<1>4. QED
  BY <1>1, <1>2, <1>3 DEF RequestOK

LEMMA CallerProgress ==
  ASSUME IInv, Progress, Caller
  PROVE  Progress'
<1> USE DEF thread, loading, asking
<1>1. /\ TypeOK /\ StreamsTypeOK /\ ReasonOK /\ LoopOK /\ StoredOK
      /\ \A x \in Reqs : RequestOK(x)
  BY DEF IInv, TypeOK, Progress
<1>2. /\ post \in [Reqs -> {"none", "new", "queued", "running", "drained", "reject", "released"}]
      /\ input \in [Reqs -> [n : Nat, max : Nat]]
  BY <1>1 DEF TypeOK, CallerTypeOK
<1>3. ASSUME NEW r \in Reqs, NewRequest(r) \/ RejectRelease(r)  PROVE Progress'
  <2> USE <1>3 DEF NewRequest, RejectRelease
  <2>1. cancelled' = cancelled /\ \A x \in Reqs : Kept(x)
    BY <1>1, FlagsKept, SilentEffect
  <2>2. ReasonOK' /\ LoopOK' /\ StoredOK'
    BY <1>1, <2>1, ThreadKept DEF Woken, StoredOK
  <2>3. \A x \in Reqs \ {r} : RequestOK(x)'
    BY <1>1, <1>2, <2>1, RequestKept
  <2>4. RequestOK(r)'
    BY <1>1, <1>2, <2>1, RequestMoved, RequestReleased
  <2>5. QED
    BY <2>2, <2>3, <2>4 DEF Progress
<1>4. ASSUME NEW r \in Reqs, EnginePost(r)  PROVE Progress'
  <2>1. /\ Woken /\ post[r] = "new" /\ \A x \in Reqs \ {r} : post'[x] = post[x]
        /\ UNCHANGED <<cur, emitted, reason, input, withdrawn, shutdown, stopper>>
    BY <1>2, <1>4 DEF EnginePost, Enqueue, Woken
  <2>2. CASE shutdown
    <3>1. StreamFinishCancelled(r) /\ post'[r] = "reject" /\ UNCHANGED pc
      BY <1>2, <1>4, <2>2 DEF EnginePost
    <3>2. Flags(r) /\ \A x \in Reqs \ {r} : Kept(x)
      BY <1>1, <3>1, FlagsSet, FinishEffect
    <3>3. ReasonOK' /\ LoopOK' /\ StoredOK'
      BY <1>1, <2>1, <3>2, ThreadKept DEF Flags, StoredOK
    <3>4. \A x \in Reqs \ {r} : RequestOK(x)'
      BY <1>1, <2>1, <3>1, <3>2, RequestKept DEF Flags
    <3>5. ~Ended(r) /\ input[r].max \in Nat
      BY <1>1, <1>2, <2>1 DEF RequestOK, StartedOK
    <3>6. RequestOK(r)'
      BY <1>1, <2>1, <3>1, <3>5, RequestFinished
    <3>7. QED
      BY <3>3, <3>4, <3>6 DEF Progress
  <2>3. CASE ~shutdown
    <3>1. UNCHANGED streams /\ post'[r] = "queued"
      BY <1>2, <1>4, <2>3 DEF EnginePost
    <3>2. cancelled' = cancelled /\ \A x \in Reqs : Kept(x)
      BY <1>1, <3>1, FlagsKept, SilentEffect
    <3>3. ReasonOK' /\ LoopOK' /\ StoredOK'
      BY <1>1, <2>1, <3>2, ThreadKept DEF StoredOK
    <3>4. ASSUME NEW x \in Reqs \ {r}  PROVE RequestOK(x)'
      <4>1. post[x] = "running" => UNCHANGED <<pc, cur, emitted>>
        BY <1>1, <2>1 DEF RequestOK, RunningOK, Woken, GenerateLabels, StubLabels, RealLabels
      <4>2. QED
        BY <1>1, <2>1, <3>2, <4>1, RequestKept
    <3>5. RequestOK(r)'
      BY <1>1, <2>1, <3>1, <3>2, RequestMoved
    <3>6. QED
      BY <3>3, <3>4, <3>5 DEF Progress
  <2>4. QED
    BY <2>2, <2>3
<1>5. ASSUME NEW r \in Reqs, Take(r) \/ Withdraw(r) \/ DropStream(r) \/ PostReclaim(r)
      PROVE  Progress'
  <2>1. /\ Woken /\ UNCHANGED <<cur, emitted, reason, input, post>>
        /\ UNCHANGED <<shutdown, stopper>> /\ withdrawn \subseteq withdrawn'
    BY <1>5 DEF Take, Withdraw, DropStream, PostReclaim, Enqueue, Woken
  <2>2. \/ StreamNext(r) \/ (StreamCancel(r) /\ r \in withdrawn')
        \/ StreamRelease(r) \/ UNCHANGED streams
    BY <1>5 DEF Take, Withdraw, DropStream, PostReclaim
  <2>3. \A x \in Reqs : Kept(x)
    BY <1>1, <2>2, SilentEffect, NextEffect
  <2>4. \A x \in Reqs : /\ cancelled[x] => cancelled'[x]
                        /\ cancelled'[x] => cancelled[x] \/ shutdown' \/ x \in withdrawn'
    BY <1>1, <2>2, FlagsKept, FlagsSet DEF Flags
  <2>5. (shutdown => shutdown') /\ (stopper' # "idle" => stopper # "idle" \/ shutdown')
    BY <2>1
  <2>6. QED
    BY <1>1, <2>1, <2>3, <2>4, <2>5, AllKept
<1>6. ASSUME \/ \E l \in Loads : PostLoad(l) \/ PostLoadEnqueue(l) \/ WaitLoad(l)
             \/ \E tag \in Misc : PostMisc(tag)
      PROVE  Progress'
  <2>1. /\ Woken
        /\ UNCHANGED <<streams, cur, emitted, reason, input, post, shutdown, stopper, withdrawn>>
    BY <1>6 DEF PostLoad, PostLoadEnqueue, WaitLoad, PostMisc, Enqueue, Woken
  <2>2. cancelled' = cancelled /\ \A x \in Reqs : Kept(x)
    <3>1. ASSUME NEW x \in Reqs  PROVE Kept(x)
      BY <2>1, SilentEffect
    <3>2. QED
      BY <2>1, <3>1 DEF streams
  <2>3. QED
    BY <1>1, <2>1, <2>2, AllKept
<1>7. QED
  BY <1>3, <1>4, <1>5, <1>6 DEF Caller

LEMMA ThreadProgress ==
  ASSUME IInv, Progress,
         Loop \/ MailboxDequeue \/ HandleReclaim \/ HandleEmbed \/ HandleUnload
           \/ HandleLoad \/ LoadDone \/ LoadFailed
  PROVE  Progress'
<1> USE DEF loading, asking, Goto
<1>1. /\ TypeOK /\ StreamsTypeOK /\ LoopOK /\ StoredOK
      /\ \A x \in Reqs : RequestOK(x)
  BY DEF IInv, TypeOK, Progress
<1>2. pc \notin GenerateLabels
  BY DEF Loop, MailboxDequeue, HandleReclaim, HandleEmbed, HandleUnload, HandleLoad, LoadDone,
         LoadFailed, GenerateLabels, StubLabels, RealLabels
<1>3. emitted = 0 /\ \A x \in Reqs : post[x] # "running"
  BY <1>1, <1>2 DEF LoopOK, RequestOK, RunningOK
<1>4. /\ UNCHANGED <<emitted, reason, input, withdrawn, shutdown, stopper>>
      /\ cancelled' = cancelled
      /\ \A x \in Reqs : Kept(x)
  <2>1. CASE HandleReclaim
    <3>1. StreamRelease(cur) /\ cur \in Reqs
      BY <1>1, <2>1 DEF HandleReclaim, TypeOK, ThreadTypeOK
    <3>2. \A x \in Reqs : Kept(x)
      BY <3>1, SilentEffect
    <3>3. QED
      BY <2>1, <3>1, <3>2 DEF HandleReclaim, StreamRelease
  <2>2. CASE ~HandleReclaim
    <3>1. UNCHANGED streams /\ UNCHANGED <<emitted, reason, input, withdrawn, shutdown, stopper>>
      BY <2>2 DEF Loop, MailboxDequeue, HandleEmbed, HandleUnload, HandleLoad, LoadDone, LoadFailed
    <3>2. ASSUME NEW x \in Reqs  PROVE Kept(x)
      BY <3>1, SilentEffect
    <3>3. QED
      BY <3>1, <3>2 DEF streams
  <2>3. QED
    BY <2>1, <2>2
<1>5. StoredOK'
  BY <1>1, <1>4 DEF StoredOK
<1>6. ASSUME pc' \notin GenerateLabels, post' = post  PROVE Progress'
  <2>1. \A x \in Reqs : RequestOK(x)'
    BY <1>1, <1>3, <1>4, <1>6, RequestKept
  <2>2. ReasonOK' /\ LoopOK'
    BY <1>3, <1>4, <1>6 DEF ReasonOK, LoopOK, GenerateLabels, StubLabels, RealLabels
  <2>3. QED
    BY <1>5, <2>1, <2>2 DEF Progress
<1>7. CASE Loop \/ HandleReclaim \/ HandleEmbed \/ HandleUnload \/ HandleLoad \/ LoadDone
           \/ LoadFailed
  <2>1. post' = post /\ pc' \in {"drain", "dequeue", "loop", "loading", "load failed"}
    BY <1>7 DEF Loop, HandleReclaim, HandleEmbed, HandleUnload, HandleLoad, LoadDone, LoadFailed
  <2>2. QED
    BY <1>6, <2>1 DEF GenerateLabels, StubLabels, RealLabels
<1>8. CASE MailboxDequeue
  <2> USE <1>8 DEF MailboxDequeue
  <2>1. CASE mailbox = <<>>
    BY <1>6, <2>1 DEF GenerateLabels, StubLabels, RealLabels
  <2>2. CASE mailbox # <<>>
    <3> DEFINE cmd == Head(mailbox)
    <3>1. cmd \in Commands /\ cmd = mailbox[1] /\ 1 \in 1..Len(mailbox)
      BY <2>2, MailFacts, EmptySeq, HeadTailProperties
    <3>2. cmd.tag = "GENERATE" => cmd.arg \in Reqs /\ post[cmd.arg] = "queued"
      BY <3>1 DEF IInv, MailboxOK, Commands
    <3>3. cmd.tag \in {"GENERATE", "RECLAIM", "LOAD", "UNLOAD", "EMBED", "STOP"}
      BY <3>1 DEF Commands
    <3>4. CASE cmd.tag = "GENERATE"
      <4>0. PICK r \in Reqs : r = cmd.arg
        BY <3>2, <3>4
      <4>1. /\ pc' = "GENERATE" /\ cur' = r /\ post[r] = "queued"
            /\ post' = [post EXCEPT ![r] = "running"]
        BY <2>2, <3>2, <3>4, <4>0
      <4> HIDE DEF cmd
      <4>2. post \in [Reqs -> {"none", "new", "queued", "running", "drained", "reject", "released"}]
        BY <1>1 DEF TypeOK, CallerTypeOK
      <4>3. \A x \in Reqs \ {r} : RequestOK(x)'
        BY <1>1, <1>3, <1>4, <4>1, <4>2, RequestKept
      <4>4. RequestOK(r)'
        <5>1. RequestOK(r) /\ Kept(r) /\ post'[r] = "running"
          BY <1>1, <1>4, <4>1, <4>2
        <5>2. StartedOK(r)' /\ BudgetOK(r)' /\ CancelledOK(r)'
          BY <1>4, <5>1 DEF RequestOK, StartedOK, BudgetOK, CancelledOK, Kept
        <5>3. RunningOK(r)'
          BY <1>3, <1>4, <4>1, <5>1 DEF RequestOK, StartedOK, RunningOK, Kept, GenerateLabels
        <5>4. QED
          BY <5>2, <5>3 DEF RequestOK
      <4>5. ReasonOK' /\ LoopOK'
        BY <1>3, <1>4, <4>1 DEF ReasonOK, LoopOK, GenerateLabels, StubLabels, RealLabels
      <4>6. QED
        BY <1>5, <4>3, <4>4, <4>5 DEF Progress
    <3>5. CASE cmd.tag # "GENERATE"
      <4>1. pc' = cmd.tag /\ post' = post
        BY <2>2, <3>5
      <4>2. QED
        BY <1>6, <3>3, <3>5, <4>1 DEF GenerateLabels, StubLabels, RealLabels
    <3>6. QED
      BY <3>4, <3>5
  <2>3. QED
    BY <2>1, <2>2
<1>9. QED
  BY <1>7, <1>8

(* While a GENERATE is handled only the thread's own request can be        *)
(* disturbed.                                                              *)
LEMMA GenerateKept ==
  ASSUME IInv, Progress, pc \in GenerateLabels, Generating, cur' = cur,
         \A x \in Reqs \ {cur} : Kept(x) /\ cancelled'[x] = cancelled[x],
         RunningOK(cur)', BudgetOK(cur)', CancelledOK(cur)', ReasonOK', LoopOK'
  PROVE  Progress'
<1>1. /\ cur \in Reqs /\ post[cur] = "running" /\ post' = post /\ StoredOK
      /\ UNCHANGED <<input, withdrawn, shutdown, stopper>>
      /\ \A x \in Reqs : RequestOK(x)
  BY DEF IInv, TypeOK, ThreadTypeOK, Owners, ThreadOK, Generating, asking, Progress
<1>2. ASSUME NEW x \in Reqs \ {cur}  PROVE RequestOK(x)'
  <2>1. post[x] # "running"
    BY <1>1 DEF RequestOK, RunningOK
  <2>2. QED
    BY <1>1, <2>1, RequestKept
<1>3. RequestOK(cur)'
  BY <1>1 DEF RequestOK, StartedOK
<1>4. StoredOK'
  BY <1>1 DEF StoredOK
<1>5. QED
  BY <1>1, <1>2, <1>3, <1>4 DEF Progress

(* ... and by a step that leaves the streams alone, not even that.         *)
LEMMA GenerateSilent ==
  ASSUME IInv, Progress, pc \in GenerateLabels, Generating, cur' = cur,
         \A x \in Reqs : Kept(x), cancelled' = cancelled,
         RunningOK(cur)', ReasonOK', LoopOK'
  PROVE  Progress'
<1>1. cur \in Reqs /\ UNCHANGED <<input, withdrawn, shutdown>> /\ RequestOK(cur)
  BY DEF IInv, TypeOK, ThreadTypeOK, Generating, asking, Progress
<1>2. BudgetOK(cur)' /\ CancelledOK(cur)'
  BY <1>1 DEF RequestOK, BudgetOK, CancelledOK, Kept
<1>3. QED
  BY <1>2, GenerateKept

(* The order in which a generation passes its labels.                      *)
Forward ==
    /\ pc' \in GenerateLabels
    /\ pc' \in Early \cup {"done", "fail"} => pc \in Early
    /\ pc' \in {"abort", "fail done", "fail refused"} =>
          pc \in Early \cup {"done", "fail", "abort", "fail done", "fail refused"}
    /\ pc' \in {"clear", "release"} =>
          pc \in {"clear", "release"} \/ Ended(cur) \/ cur \in withdrawn

LEMMA GenerateFacts ==
  ASSUME IInv, Progress, pc \in GenerateLabels
  PROVE  /\ TypeOK /\ StreamsTypeOK /\ ReasonOK /\ LoopOK /\ ResidentModel
         /\ cur \in Reqs /\ post[cur] = "running" /\ RequestOK(cur)
         /\ emitted \in Nat /\ input[cur].n \in Nat /\ input[cur].max \in Nat
         /\ Limit \in Nat /\ Limit <= input[cur].max
         /\ Limit < input[cur].n => Limit = input[cur].max
<1>1. /\ TypeOK /\ StreamsTypeOK /\ ReasonOK /\ LoopOK /\ ResidentModel
      /\ cur \in Reqs /\ post[cur] = "running" /\ RequestOK(cur) /\ emitted \in Nat
      /\ input \in [Reqs -> [n : Nat, max : Nat]]
  BY DEF IInv, TypeOK, ThreadTypeOK, CallerTypeOK, Owners, ThreadOK, Progress
<1>2. input[cur].n \in Nat /\ input[cur].max \in Nat
  BY <1>1
<1>3. QED
  BY <1>1, <1>2 DEF Limit

LEMMA Moves ==
  ASSUME IInv, Progress, pc \in GenerateLabels, Forward, Generating,
         UNCHANGED <<streams, cur, emitted>>, ReasonOK', LoopOK'
  PROVE  Progress'
<1>1. RequestOK(cur) /\ post[cur] = "running" /\ cur \in Reqs
  BY GenerateFacts
<1>2. (\A x \in Reqs : Kept(x)) /\ cancelled' = cancelled
  <2>1. ASSUME NEW x \in Reqs  PROVE Kept(x)
    BY SilentEffect
  <2>2. QED
    BY <2>1 DEF streams
<1>3. UNCHANGED <<post, withdrawn>>
  BY DEF Generating, asking
<1>4. RunningOK(cur)'
  BY <1>1, <1>2, <1>3 DEF RequestOK, RunningOK, Forward, Kept
<1>5. QED
  BY <1>2, <1>4, GenerateSilent

LEMMA SilentProgress ==
  ASSUME IInv, Progress,
         SetInflight \/ CheckLoadState \/ Stub \/ Real \/ Prefill \/ Seed \/ Decode
           \/ FailRefused \/ ClearInflight
  PROVE  Progress'
<1> USE DEF Goto, GenerateLabels, StubLabels, RealLabels, Early
<1>1. /\ pc \in GenerateLabels /\ Generating /\ UNCHANGED <<streams, cur, emitted>>
      /\ shutdown' = shutdown /\ input' = input /\ cancelled' = cancelled
  <2>1. /\ pc \in GenerateLabels /\ Generating /\ UNCHANGED <<streams, cur, emitted>>
    BY DEF SetInflight, CheckLoadState, Stub, Real, Prefill, Seed, Decode, FailRefused,
           ClearInflight, Step, FailWith, DoneWith
  <2>2. QED
    BY <2>1 DEF Generating, asking, streams
<1>2. /\ ReasonOK /\ LoopOK /\ ResidentModel /\ RequestOK(cur) /\ post[cur] = "running"
      /\ emitted \in Nat /\ input[cur].n \in Nat /\ input[cur].max \in Nat
      /\ Limit \in Nat /\ Limit <= input[cur].max
      /\ Limit < input[cur].n => Limit = input[cur].max
      /\ model \in {"none", "stub", "real"}
  BY <1>1, GenerateFacts DEF TypeOK, LoadTypeOK
<1>3. Limit' = Limit
  BY <1>1 DEF Limit
<1>4. ASSUME pc' \in GenerateLabels, reason' = reason, Forward,
             pc' \in {"done", "fail", "fail refused"} => pc' = pc,
             pc' = "abort" => shutdown \/ cancelled[cur],
             pc' \in {"GENERATE", "load_state", "real"} => emitted = 0,
             pc' = "stub" => emitted <= Limit,
             pc' = "stub push" => emitted < Limit,
             pc' \in RealLabels \ {"real"} => emitted < input[cur].max
      PROVE  Progress'
  <2>1. ReasonOK'
    BY <1>1, <1>2, <1>4 DEF ReasonOK
  <2>2. LoopOK'
    BY <1>1, <1>2, <1>3, <1>4 DEF LoopOK
  <2>3. QED
    BY <1>1, <1>4, <2>1, <2>2, Moves
<1>5. ASSUME pc \in Early, NEW why \in Errors, FailWith(why)  PROVE Progress'
  <2>1. pc' = "fail" /\ reason' = why
    BY <1>5 DEF FailWith
  <2>2. Forward /\ ReasonOK' /\ LoopOK'
    BY <1>5, <2>1 DEF Forward, ReasonOK, LoopOK
  <2>3. QED
    BY <1>1, <2>2, Moves
<1>6. ASSUME pc \in Early, NEW why \in {"stop", "length"}, DoneWith(why),
             why = "length" => emitted = input[cur].max
      PROVE  Progress'
  <2>1. pc' = "done" /\ reason' = why
    BY <1>6 DEF DoneWith
  <2>2. Forward /\ ReasonOK' /\ LoopOK'
    BY <1>1, <1>6, <2>1 DEF Forward, ReasonOK, LoopOK
  <2>3. QED
    BY <1>1, <2>2, Moves
<1>7. {"internal", "context"} \subseteq Errors
  BY DEF Errors
<1>8. CASE SetInflight
  BY <1>2, <1>4, <1>8 DEF SetInflight, LoopOK, Forward
<1>9. CASE CheckLoadState
  <2>1. CASE load_state # "OK"
    BY <1>5, <1>7, <1>9, <2>1 DEF CheckLoadState
  <2>2. CASE load_state = "OK"
    <3>1. pc = "load_state" /\ pc' \in {"stub", "real"} /\ reason' = reason /\ emitted = 0
      BY <1>2, <1>9, <2>2 DEF CheckLoadState, Step, ResidentModel, LoopOK
    <3>2. Forward
      BY <3>1 DEF Forward
    <3>3. emitted <= Limit
      BY ONLY <1>2, <3>1
    <3>4. QED
      BY <1>4, <3>1, <3>2, <3>3
  <2>3. QED
    BY <2>1, <2>2
<1>10. CASE Stub
  <2>1. CASE DoneWith(IF Limit < input[cur].n THEN "length" ELSE "stop") /\ emitted = Limit
    BY <1>2, <1>6, <1>10, <2>1 DEF Stub
  <2>2. CASE emitted < Limit /\ (Step("stub push") \/ (Step("abort") /\ shutdown))
    BY <1>2, <1>4, <1>10, <2>2 DEF Stub, Step, Forward
  <2>3. QED
    BY <1>10, <2>1, <2>2 DEF Stub
<1>11. CASE Real
  <2>1. emitted = 0 /\ pc = "real"
    BY <1>2, <1>11 DEF Real, LoopOK
  <2>2. CASE Step("prefill") /\ input[cur].max > 0
    BY <1>2, <1>4, <2>1, <2>2 DEF Step, Forward
  <2>3. QED
    BY <1>5, <1>6, <1>7, <1>11, <2>1, <2>2 DEF Real
<1>12. CASE Prefill \/ Seed \/ Decode
  <2>1. emitted < input[cur].max /\ pc \in {"prefill", "seed", "decode"}
    BY <1>2, <1>12 DEF Prefill, Seed, Decode, LoopOK
  <2>2. CASE pc' \in {"prefill", "seed", "decode", "decode push"} /\ reason' = reason
    BY <1>2, <1>4, <2>1, <2>2 DEF Forward
  <2>3. CASE Stopping /\ Step("abort")
    BY <1>2, <1>4, <2>1, <2>3 DEF Step, Forward, Stopping
  <2>4. QED
    BY <1>5, <1>6, <1>7, <1>12, <2>1, <2>2, <2>3 DEF Prefill, Seed, Decode, Step
<1>13. CASE FailRefused
  <2>1. /\ pc = "fail refused" /\ reason' = reason /\ cancelled[cur] /\ ~Ended(cur)
        /\ pc' = IF shutdown THEN "abort" ELSE "clear"
    BY <1>2, <1>13 DEF FailRefused, Step, ReasonOK, RequestOK, RunningOK
  <2>2. ~shutdown => cur \in withdrawn
    BY <1>2, <2>1 DEF RequestOK, CancelledOK
  <2>3. QED
    BY <1>4, <2>1, <2>2 DEF Forward
<1>14. CASE ClearInflight
  BY <1>2, <1>4, <1>14 DEF ClearInflight, Forward
<1>15. QED
  BY <1>8, <1>9, <1>10, <1>11, <1>12, <1>13, <1>14

LEMMA Pushed ==
  ASSUME IInv, Progress, pc \in GenerateLabels, NEW c \in Chunks, StreamPush(cur, c),
         Generating, cur' = cur, ~Ended(cur), c = "token" => Tokens(cur) < input[cur].max,
         c = "length" => Tokens(cur) = input[cur].max, RunningOK(cur)', ReasonOK', LoopOK'
  PROVE  Progress'
<1>1. /\ cur \in Reqs /\ RequestOK(cur) /\ StreamsTypeOK /\ input[cur].max \in Nat
      /\ UNCHANGED <<input, withdrawn, shutdown>> /\ ~LengthSent(cur)
  BY GenerateFacts DEF Generating, asking, RequestOK, BudgetOK
<1>2. /\ \A x \in Reqs \ {cur} : Kept(x)
      /\ Ended(cur)' <=> Ended(cur) \/ c \in Terminals
      /\ Tokens(cur)' = Tokens(cur) + (IF c = "token" THEN 1 ELSE 0)
      /\ LengthSent(cur)' <=> LengthSent(cur) \/ c = "length"
  <2>1. PICK r \in Reqs : r = cur
    BY <1>1
  <2>2. /\ \A x \in Reqs \ {r} : Kept(x)
        /\ Ended(r)' <=> Ended(r) \/ c \in Terminals
        /\ Tokens(r)' = Tokens(r) + (IF c = "token" THEN 1 ELSE 0)
        /\ LengthSent(r)' <=> LengthSent(r) \/ c = "length"
    BY <1>1, <2>1, PushEffect
  <2>3. QED
    BY <2>1, <2>2
<1>3. cancelled' = cancelled
  BY DEF StreamPush
<1>4. BudgetOK(cur)'
  <2>1. Tokens(cur) \in Nat /\ Tokens(cur) <= input[cur].max
    BY <1>1 DEF RequestOK, BudgetOK
  <2>2. c = "length" => c \in Terminals /\ c # "token"
    BY DEF Terminals
  <2>3. QED
    BY <1>1, <1>2, <2>1, <2>2 DEF BudgetOK
<1>5. CancelledOK(cur)'
  BY <1>1, <1>2, <1>3 DEF RequestOK, CancelledOK
<1>6. QED
  BY <1>2, <1>3, <1>4, <1>5, GenerateKept

(* A push that a cancel refused.                                           *)
LEMMA Refused ==
  ASSUME IInv, Progress, pc \in {"stub push", "decode push", "done", "fail", "fail done"},
         StreamPushRefused(cur), Generating, cur' = cur,
         pc' \in {"abort", "fail refused"}, emitted' \in Nat
  PROVE  Progress'
<1> USE DEF GenerateLabels, StubLabels, RealLabels, Early
<1>1. /\ cur \in Reqs /\ RequestOK(cur) /\ ReasonOK /\ LoopOK /\ post[cur] = "running"
  BY GenerateFacts
<1>2. (\A x \in Reqs : Kept(x)) /\ cancelled' = cancelled /\ cancelled[cur]
  BY <1>1, SilentEffect DEF StreamPushRefused, streams
<1>3. UNCHANGED <<post, withdrawn, shutdown, input>>
  BY DEF Generating, asking
<1>4. RunningOK(cur)'
  BY <1>1, <1>2, <1>3 DEF RequestOK, RunningOK, Kept
<1>5. ReasonOK' /\ LoopOK'
  BY <1>2 DEF ReasonOK, LoopOK
<1>6. QED
  BY <1>2, <1>4, <1>5, GenerateSilent

LEMMA Below ==
  /\ \A a, b \in Nat : a < b => a + 1 = b \/ a + 1 < b
  /\ \A a, b, c \in Nat : a < b /\ b <= c => a < c
  OBVIOUS

LEMMA PushProgress ==
  ASSUME IInv, Progress, StubPush \/ DecodePush \/ PushDone \/ FailError \/ FailDone
  PROVE  Progress'
<1> USE DEF Goto, GenerateLabels, StubLabels, RealLabels, Early
<1>1. /\ pc \in {"stub push", "decode push", "done", "fail", "fail done"} /\ Generating
      /\ cur' = cur /\ input' = input
  BY DEF StubPush, DecodePush, PushDone, FailError, FailDone, Push, Generating, asking
<1>2. /\ ReasonOK /\ LoopOK /\ RequestOK(cur) /\ post[cur] = "running" /\ cur \in Reqs
      /\ emitted \in Nat /\ input[cur].max \in Nat
      /\ Limit \in Nat /\ Limit <= input[cur].max
      /\ StreamsTypeOK
  BY <1>1, GenerateFacts
<1>3. Limit' = Limit /\ post' = post
  BY <1>1 DEF Limit, Generating, asking
<1>4. ~Ended(cur) /\ (pc # "fail done" => ~Failed(cur))
      /\ (pc \in {"stub push", "decode push", "done"} => Tokens(cur) = emitted)
  BY <1>1, <1>2 DEF RequestOK, RunningOK
<1>5. {"token", "stop", "length"} \subseteq Chunks /\ Errors \subseteq Chunks
      /\ "token" \notin Errors \cup Terminals /\ {"stop", "length"} \subseteq Terminals
      /\ "length" \notin Errors
  BY DEF Chunks, Errors, Terminals
<1>6. CASE StreamPushRefused(cur)
  <2>1. pc' \in {"abort", "fail refused"} /\ emitted' \in Nat
    BY <1>2, <1>6 DEF StubPush, DecodePush, PushDone, FailError, FailDone, Push,
                      StreamPushRefused, StreamPush
  <2>2. QED
    BY <1>1, <1>6, <2>1, Refused
<1>7. ASSUME NEW c \in Chunks, StreamPush(cur, c)
      PROVE  /\ Ended(cur)' <=> Ended(cur) \/ c \in Terminals
             /\ Failed(cur)' <=> Failed(cur) \/ c \in Errors
             /\ Tokens(cur)' = Tokens(cur) + (IF c = "token" THEN 1 ELSE 0)
             /\ ~cancelled[cur]
  <2>1. PICK r \in Reqs : r = cur
    BY <1>2
  <2>2. /\ Ended(r)' <=> Ended(r) \/ c \in Terminals
        /\ Failed(r)' <=> Failed(r) \/ c \in Errors
        /\ Tokens(r)' = Tokens(r) + (IF c = "token" THEN 1 ELSE 0)
    BY <1>2, <1>7, <2>1, PushEffect
  <2>3. QED
    BY <1>1, <1>7, <2>1, <2>2 DEF StreamPush
<1>8. CASE StreamPush(cur, "token") /\ (StubPush \/ DecodePush)
  <2>0. pc \in {"stub push", "decode push"} /\ emitted < input[cur].max /\ Tokens(cur) = emitted
    <3>1. CASE pc = "stub push"
      <4>1. emitted < Limit
        BY <1>2, <3>1 DEF LoopOK
      <4>2. QED
        BY <1>2, <1>4, <3>1, <4>1, Below, Zenon
    <3>2. CASE pc = "decode push"
      BY <1>2, <1>4, <3>2 DEF LoopOK
    <3>3. QED
      BY <1>8, <3>1, <3>2 DEF StubPush, DecodePush
  <2>1. /\ ~Ended(cur)' /\ ~Failed(cur)' /\ Tokens(cur)' = emitted + 1 /\ emitted' = emitted + 1
        /\ Tokens(cur) < input[cur].max
    <3>1. "token" \in Chunks /\ ~Ended(cur) /\ ~Failed(cur)
      BY <1>4, <1>5, <2>0
    <3>2. ~cancelled[cur] /\ ~Ended(cur)' /\ ~Failed(cur)' /\ Tokens(cur)' = Tokens(cur) + 1
      BY <1>5, <1>7, <1>8, <3>1
    <3>3. emitted' = emitted + 1
      BY <1>8, <3>2 DEF StubPush, DecodePush
    <3>4. QED
      BY <2>0, <3>2, <3>3
  <2>2. CASE StubPush
    <3>0. pc = "stub push" /\ pc' = "stub"
      BY <1>8, <2>2 DEF StubPush, Push, StreamPush, StreamPushRefused
    <3>1. emitted' <= Limit
      <4>1. emitted < Limit
        BY <1>2, <3>0 DEF LoopOK
      <4>2. QED
        BY ONLY <1>2, <2>1, <4>1
    <3>2. RunningOK(cur)' /\ ReasonOK' /\ LoopOK'
      BY <1>1, <1>3, <2>1, <3>0, <3>1 DEF RunningOK, ReasonOK, LoopOK
    <3>3. QED
      BY <1>1, <1>4, <1>5, <1>8, <2>1, <3>2, Pushed
  <2>3. CASE DecodePush
    <3>1. /\ pc = "decode push" /\ pc' = (IF emitted + 1 = input[cur].max THEN "done" ELSE "decode")
          /\ emitted < input[cur].max
          /\ emitted' = input[cur].max => reason' = "length"
      BY <1>2, <1>8, <2>1, <2>3 DEF DecodePush, Push, StreamPush, StreamPushRefused, LoopOK
    <3>2. RunningOK(cur)'
      BY <1>1, <1>3, <2>1, <3>1 DEF RunningOK
    <3>3. ReasonOK' /\ LoopOK'
      <4>1. emitted' = input[cur].max \/ emitted' < input[cur].max
        BY <1>2, <2>1, <3>1, Below, Zenon
      <4>2. CASE pc' = "done"
        <5>1. emitted' = input[cur].max /\ reason' = "length"
          BY <2>1, <3>1, <4>2
        <5>2. QED
          BY <1>1, <4>2, <5>1 DEF ReasonOK, LoopOK
      <4>3. CASE pc' = "decode"
        <5>1. emitted' < input[cur].max
          BY <2>1, <3>1, <4>1, <4>3
        <5>2. QED
          BY <1>1, <4>3, <5>1 DEF ReasonOK, LoopOK
      <4>4. QED
        BY <3>1, <4>2, <4>3
    <3>4. QED
      BY <1>1, <1>4, <1>5, <1>8, <2>1, <3>2, <3>3, Pushed
  <2>4. QED
    BY <1>8, <2>2, <2>3
<1>9. CASE StreamPush(cur, reason) /\ PushDone
  <2>1. /\ pc = "done" /\ pc' = "clear" /\ reason \in {"stop", "length"} /\ UNCHANGED <<emitted, reason>>
        /\ reason = "length" => Tokens(cur) = input[cur].max
    BY <1>2, <1>4, <1>9 DEF PushDone, Push, StreamPush, StreamPushRefused, ReasonOK, LoopOK
  <2>2. Ended(cur)'
    BY <1>5, <1>7, <1>9, <2>1
  <2>3. RunningOK(cur)' /\ ReasonOK' /\ LoopOK'
    BY <1>1, <1>3, <2>1, <2>2 DEF RunningOK, ReasonOK, LoopOK
  <2>4. QED
    BY <1>1, <1>4, <1>5, <1>9, <2>1, <2>3, Pushed
<1>10. CASE StreamPush(cur, reason) /\ FailError
  <2>1. pc = "fail" /\ pc' = "fail done" /\ reason \in Errors /\ UNCHANGED <<emitted, reason>>
    BY <1>2, <1>10 DEF FailError, Push, StreamPush, StreamPushRefused, ReasonOK
  <2>2. reason \notin Terminals
    BY <2>1 DEF Errors, Terminals
  <2>3. ~Ended(cur)'
    BY <1>4, <1>5, <1>7, <1>10, <2>1, <2>2
  <2>4. RunningOK(cur)' /\ ReasonOK' /\ LoopOK'
    BY <1>1, <1>3, <2>1, <2>3 DEF RunningOK, ReasonOK, LoopOK
  <2>5. QED
    BY <1>1, <1>4, <1>5, <1>10, <2>1, <2>4, Pushed
<1>11. CASE StreamPush(cur, "stop") /\ FailDone
  <2>1. pc = "fail done" /\ pc' = "clear" /\ UNCHANGED <<emitted, reason>>
    BY <1>2, <1>11 DEF FailDone, Push, StreamPush, StreamPushRefused
  <2>2. Ended(cur)'
    BY <1>5, <1>7, <1>11
  <2>3. RunningOK(cur)' /\ ReasonOK' /\ LoopOK'
    BY <1>1, <1>3, <2>1, <2>2 DEF RunningOK, ReasonOK, LoopOK
  <2>4. QED
    BY <1>1, <1>4, <1>5, <1>11, <2>3, Pushed
<1>12. QED
  BY <1>6, <1>8, <1>9, <1>10, <1>11 DEF StubPush, DecodePush, PushDone, FailError, FailDone, Push

LEMMA EndProgress ==
  ASSUME IInv, Progress, Abort \/ GenerateRelease
  PROVE  Progress'
<1> USE DEF Goto, GenerateLabels, StubLabels, RealLabels, Early
<1>1. pc \in {"abort", "release"}
  BY DEF Abort, GenerateRelease
<1>2. /\ ReasonOK /\ LoopOK /\ RequestOK(cur) /\ post[cur] = "running" /\ cur \in Reqs
      /\ input[cur].max \in Nat /\ StreamsTypeOK /\ TypeOK
  BY <1>1, GenerateFacts
<1>3. CASE Abort
  <2>1. /\ pc = "abort" /\ pc' = "clear" /\ Generating /\ UNCHANGED <<cur, emitted, reason, input, post>>
        /\ StreamFinishCancelled(cur)
    BY <1>3 DEF Abort, Generating, asking
  <2>2. ~Ended(cur)
    BY <1>2, <2>1 DEF RequestOK, RunningOK
  <2>3. PICK r \in Reqs : r = cur
    BY <1>2
  <2>4. /\ BudgetOK(r)' /\ CancelledOK(r)' /\ Ended(r)'
        /\ \A x \in Reqs \ {r} : Kept(x) /\ cancelled'[x] = cancelled[x]
    BY <1>2, <2>1, <2>2, <2>3, RequestFinished, FinishEffect, FlagsSet DEF Flags
  <2>5. RunningOK(cur)' /\ ReasonOK' /\ LoopOK'
    BY <1>2, <2>1, <2>3, <2>4 DEF RunningOK, ReasonOK, LoopOK
  <2>6. QED
    BY <2>1, <2>3, <2>4, <2>5, GenerateKept
<1>4. CASE GenerateRelease
  <2>1. PICK r \in Reqs : r = cur
    BY <1>2
  <2>2. /\ pc = "release" /\ pc' = "loop" /\ emitted' = 0 /\ StreamRelease(r)
        /\ post' = [post EXCEPT ![r] = "released"]
        /\ UNCHANGED <<input, withdrawn, shutdown, stopper>>
    BY <1>4, <2>1 DEF GenerateRelease
  <2>3. (\A x \in Reqs : Kept(x)) /\ cancelled' = cancelled
    BY <1>2, <2>2, SilentEffect, FlagsKept
  <2>4. post \in [Reqs -> {"none", "new", "queued", "running", "drained", "reject", "released"}]
    BY <1>2 DEF TypeOK, CallerTypeOK
  <2>5. ASSUME NEW x \in Reqs \ {r}  PROVE RequestOK(x)'
    <3>1. RequestOK(x)
      BY DEF Progress
    <3>2. post[x] # "running"
      BY <2>1, <3>1 DEF RequestOK, RunningOK
    <3>3. QED
      BY <2>2, <2>3, <2>4, <3>1, <3>2, RequestKept
  <2>6. RequestOK(r)'
    BY <1>2, <2>1, <2>2, <2>3, <2>4, RequestReleased
  <2>7. ReasonOK' /\ LoopOK' /\ StoredOK'
    BY <2>2 DEF ReasonOK, LoopOK, StoredOK, Progress
  <2>8. QED
    BY <2>5, <2>6, <2>7 DEF Progress
<1>5. QED
  BY <1>3, <1>4

LEMMA DrainProgress ==
  ASSUME IInv, Progress, DrainTake \/ DrainTerminal \/ DrainDrop,
         pc \in {"drain", "STOP", "draining", "exited"},
         pc' \in {"drain", "STOP", "draining", "exited"},
         UNCHANGED <<cur, emitted, reason>>, stopper' # "idle" => stopper # "idle"
  PROVE  Progress'
<1> USE DEF asking
<1>1. /\ TypeOK /\ StreamsTypeOK /\ ReasonOK /\ LoopOK /\ StoredOK
      /\ \A x \in Reqs : RequestOK(x) /\ input[x].max \in Nat
  BY DEF IInv, TypeOK, CallerTypeOK, Progress
<1>2. /\ post \in [Reqs -> {"none", "new", "queued", "running", "drained", "reject", "released"}]
      /\ \A x \in Reqs : post[x] # "running"
      /\ UNCHANGED <<input, withdrawn, shutdown>>
  BY <1>1 DEF TypeOK, CallerTypeOK, RequestOK, RunningOK, GenerateLabels, StubLabels, RealLabels,
              DrainTake, DrainTerminal, DrainDrop
<1>3. emitted = 0 /\ ReasonOK' /\ LoopOK' /\ StoredOK'
  BY <1>1, <1>2 DEF ReasonOK, LoopOK, StoredOK, GenerateLabels, StubLabels, RealLabels
<1>4. CASE DrainTerminal
  <2>1. PICK r \in Reqs : r = Head(batch).arg
    BY <1>4, HeadOfBatch DEF DrainTerminal
  <2>2. /\ StreamFinishCancelled(r) /\ post[r] = "queued"
        /\ post' = [post EXCEPT ![r] = "drained"]
    BY <1>4, <2>1 DEF DrainTerminal
  <2>3. ~Ended(r)
    BY <1>1, <2>2 DEF RequestOK, StartedOK
  <2>4. RequestOK(r)'
    BY <1>1, <1>2, <2>2, <2>3, RequestFinished
  <2>5. \A x \in Reqs \ {r} : RequestOK(x)'
    BY <1>1, <1>2, <2>2, RequestKept, FinishEffect, FlagsSet DEF Flags
  <2>6. QED
    BY <1>3, <2>4, <2>5 DEF Progress
<1>5. CASE DrainDrop /\ Head(batch).tag = "GENERATE"
  <2>1. PICK r \in Reqs : r = Head(batch).arg
    BY <1>5, HeadOfBatch DEF DrainDrop
  <2>2. /\ StreamRelease(r) /\ post[r] = "drained"
        /\ post' = [post EXCEPT ![r] = "released"]
    BY <1>5, <2>1 DEF DrainDrop
  <2>3. cancelled' = cancelled /\ \A x \in Reqs : Kept(x)
    BY <1>1, <2>2, SilentEffect, FlagsKept
  <2>4. \A x \in Reqs \ {r} : RequestOK(x)'
    BY <1>1, <1>2, <2>2, <2>3, RequestKept
  <2>5. RequestOK(r)'
    BY <1>1, <1>2, <2>2, <2>3, RequestReleased
  <2>6. QED
    BY <1>3, <2>4, <2>5 DEF Progress
<1>6. CASE DrainTake \/ (DrainDrop /\ Head(batch).tag # "GENERATE")
  <2>1. post' = post /\ ((\E r \in Reqs : StreamRelease(r)) \/ UNCHANGED streams)
    <3>1. DrainDrop => batch # <<>>
      BY DEF DrainDrop
    <3>2. Head(batch).tag = "RECLAIM" /\ batch # <<>> => Head(batch).arg \in Reqs
      BY HeadOfBatch
    <3>3. QED
      BY <1>6, <3>1, <3>2 DEF DrainTake, DrainDrop
  <2>2. cancelled' = cancelled /\ \A x \in Reqs : Kept(x)
    <3>1. CASE \E r \in Reqs : StreamRelease(r)
      BY <1>1, <3>1, SilentEffect, FlagsKept
    <3>2. CASE UNCHANGED streams
      <4>1. ASSUME NEW x \in Reqs  PROVE Kept(x)
        BY <3>2, SilentEffect
      <4>2. QED
        BY <3>2, <4>1 DEF streams
    <3>3. QED
      BY <2>1, <3>1, <3>2
  <2>3. \A x \in Reqs : RequestOK(x)'
    BY <1>1, <1>2, <2>1, <2>2, RequestKept
  <2>4. QED
    BY <1>3, <2>3 DEF Progress
<1>7. QED
  BY <1>4, <1>5, <1>6

LEMMA StopProgress ==
  ASSUME IInv, Progress, \/ ThreadDrain \/ EngineDestroy \/ EngineSignalShutdown
                         \/ (\E r \in Reqs : NotifyCallback(r)) \/ UNCHANGED vars
  PROVE  Progress'
<1> USE DEF thread, loading, asking, Goto
<1>1. /\ TypeOK /\ StreamsTypeOK /\ JoinedOK /\ StoredOK /\ inflight \in Reqs \cup {None}
      /\ shutdown \in BOOLEAN
  BY DEF IInv, TypeOK, CallerTypeOK, Progress
<1>2. ASSUME Woken \/ (pc \notin GenerateLabels /\ pc' \notin GenerateLabels),
             UNCHANGED <<streams, cur, emitted, reason, input, post, shutdown, withdrawn>>,
             stopper' # "idle" => stopper # "idle"
      PROVE  Progress'
  <2>1. cancelled' = cancelled /\ \A x \in Reqs : Kept(x)
    <3>1. ASSUME NEW x \in Reqs  PROVE Kept(x)
      BY <1>2, SilentEffect
    <3>2. QED
      BY <1>2, <3>1 DEF streams
  <2>2. CASE Woken
    BY <1>1, <1>2, <2>1, <2>2, AllKept
  <2>3. CASE pc \notin GenerateLabels /\ pc' \notin GenerateLabels
    <3>1. \A x \in Reqs : RequestOK(x) /\ post[x] # "running"
      BY <2>3 DEF Progress, RequestOK, RunningOK
    <3>2. \A x \in Reqs : RequestOK(x)'
      BY <1>2, <2>1, <3>1, RequestKept
    <3>3. emitted = 0
      BY <2>3 DEF Progress, LoopOK
    <3>4. ReasonOK' /\ LoopOK' /\ StoredOK'
      BY <1>1, <1>2, <2>3, <3>3 DEF ReasonOK, LoopOK, StoredOK, GenerateLabels, StubLabels, RealLabels
    <3>5. QED
      BY <3>2, <3>4 DEF Progress
  <2>4. QED
    BY <1>2, <2>2, <2>3
<1>3. CASE ThreadDrain
  <2>1. CASE DrainTake \/ DrainTerminal \/ DrainDrop
    BY <1>3, <2>1, DrainProgress DEF ThreadDrain
  <2>2. CASE ~(DrainTake \/ DrainTerminal \/ DrainDrop)
    BY <1>2, <1>3, <2>2 DEF ThreadDrain, GenerateLabels, StubLabels, RealLabels
  <2>3. QED
    BY <2>1, <2>2
<1>4. CASE EngineDestroy
  <2>1. pc = "exited" /\ stopper # "idle"
    BY <1>1, <1>4 DEF EngineDestroy, JoinedOK
  <2>2. CASE DrainTake \/ DrainTerminal \/ DrainDrop
    BY <1>4, <2>1, <2>2, DrainProgress DEF EngineDestroy
  <2>3. CASE ~(DrainTake \/ DrainTerminal \/ DrainDrop)
    <3>1. /\ pc' = pc /\ pc \notin GenerateLabels
          /\ UNCHANGED <<streams, cur, emitted, reason, input, post, shutdown, withdrawn>>
      BY <1>4, <2>1, <2>3 DEF EngineDestroy, GenerateLabels, StubLabels, RealLabels
    <3>2. QED
      BY <1>2, <2>1, <3>1
  <2>4. QED
    BY <2>2, <2>3
<1>5. CASE EngineSignalShutdown
  <2>1. /\ Woken /\ UNCHANGED <<cur, emitted, reason, input, post, withdrawn>>
        /\ shutdown => shutdown'
        /\ stopper' # "idle" => stopper # "idle" \/ shutdown'
    BY <1>5 DEF EngineSignalShutdown, StoreShutdown, CancelInflight, Woken
  <2>2. UNCHANGED streams \/ (inflight \in Reqs /\ StreamCancel(inflight) /\ shutdown')
    BY <1>1, <1>5, NoneAssumption DEF EngineSignalShutdown, StoreShutdown, CancelInflight, StoredOK
  <2>3. \A x \in Reqs : Kept(x)
    BY <2>2, SilentEffect
  <2>4. \A x \in Reqs : (cancelled[x] => cancelled'[x])
                        /\ (cancelled'[x] => cancelled[x] \/ shutdown' \/ x \in withdrawn')
    <3>1. CASE UNCHANGED streams
      BY <3>1 DEF streams
    <3>2. CASE inflight \in Reqs /\ StreamCancel(inflight) /\ shutdown'
      BY <1>1, <3>2, FlagsSet DEF Flags
    <3>3. QED
      BY <2>2, <3>1, <3>2
  <2>5. QED
    BY <1>1, <2>1, <2>3, <2>4, AllKept
<1>6. ASSUME NEW r \in Reqs, NotifyCallback(r)  PROVE Progress'
  <2>1. /\ Callback(r) /\ Woken
        /\ UNCHANGED <<cur, emitted, reason, input, post, shutdown, stopper, withdrawn>>
    BY <1>6 DEF NotifyCallback, Woken
  <2>2. cancelled' = cancelled /\ \A x \in Reqs : Kept(x)
    BY <1>1, <2>1, SilentEffect, FlagsKept
  <2>3. QED
    BY <1>1, <2>1, <2>2, AllKept
<1>7. CASE UNCHANGED vars
  <2>1. UNCHANGED <<streams, cur, emitted, reason, input, post, shutdown, withdrawn>>
    BY <1>7 DEF vars
  <2>2. pc' = pc /\ stopper' = stopper
    BY <1>7 DEF vars
  <2>3. Woken /\ (stopper' # "idle" => stopper # "idle")
    BY <2>2 DEF Woken
  <2>4. QED
    BY <1>2, <2>1, <2>3
<1>8. QED
  BY <1>3, <1>4, <1>5, <1>6, <1>7

LEMMA ProgressStep == IInv /\ Progress /\ [Next]_vars => Progress'
<1> SUFFICES ASSUME IInv, Progress, [Next]_vars PROVE Progress'
  OBVIOUS
<1>1. CASE Generate
  BY <1>1, SilentProgress, PushProgress, EndProgress DEF Generate
<1>2. QED
  BY <1>1, CallerProgress, ThreadProgress, StopProgress DEF Next, EngineThread

LEMMA InitProgress == Init => Progress
<1> SUFFICES ASSUME Init PROVE Progress
  OBVIOUS
<1> USE DEF Init, StreamsInit
<1>1. input \in [Reqs -> [n : Nat, max : Nat]]
  BY BoundsAssumption, Zenon
<1>2. ASSUME NEW r \in Reqs  PROVE RequestOK(r)
  <2>1. History(r) = <<>>
    <3>1. got[r] = <<>> /\ q[r] = <<>>
      OBVIOUS
    <3>2. QED
      BY <3>1, ConcatEmptySeq, EmptySeq DEF History
  <2>2. \A S : ~Occurs(S, History(r))
    BY <2>1, EmptySeq DEF Occurs
  <2>3. Tokens(r) = 0
    <3>1. {i \in 1..Len(History(r)) : History(r)[i] = "token"} = {}
      BY <2>1, EmptySeq
    <3>2. QED
      BY <3>1, FS_EmptySet DEF Tokens
  <2>4. ~Ended(r) /\ ~Failed(r) /\ ~LengthSent(r)
    BY <2>2 DEF Ended, Failed, LengthSent
  <2>5. input[r].max \in Nat
    BY <1>1
  <2>6. post[r] = "none" /\ ~cancelled[r]
    OBVIOUS
  <2>7. QED
    BY <2>3, <2>4, <2>5, <2>6 DEF RequestOK, StartedOK, RunningOK, BudgetOK, CancelledOK
<1>3. ReasonOK /\ LoopOK /\ StoredOK
  BY DEF ReasonOK, LoopOK, StoredOK, GenerateLabels, StubLabels, RealLabels
<1>4. QED
  BY <1>2, <1>3 DEF Progress

LEMMA AlwaysProgress == Spec => []Progress
  BY Inductive, InitProgress, ProgressStep, PTL DEF Spec

(* No request is forgotten: whoever had the command when the engine let go *)
(* of the stream (the thread, a drain, engine_post refused by shutdown), a *)
(* request its consumer did not cancel has got its DONE.                   *)
THEOREM DoneUnlessWithdrawn == Spec => []TerminalUnlessWithdrawn
<1>1. Progress => TerminalUnlessWithdrawn
  BY DEF Progress, RequestOK, StartedOK, Ended, TerminalUnlessWithdrawn
<1>2. QED
  BY <1>1, AlwaysProgress, PTL

(* No request gets more than max_tokens tokens, and DONE/LENGTH closes     *)
(* exactly that many, whatever stream_finish_cancelled overwrites.         *)
THEOREM BudgetKept == Spec => []TokenBudget
<1>1. Progress => TokenBudget
  BY DEF Progress, RequestOK, BudgetOK, LengthSent, TokenBudget
<1>2. QED
  BY <1>1, AlwaysProgress, PTL
-----------------------------------------------------------------------------
(* The contract.  The engine's operations on a stream are the contract's.  *)
Silent(x) == pc \in {"clear", "release"} /\ cur = x
Placed(x) == post[x] \notin {"none", "released"}

LEMMA SameStreams ==
  /\ \A r : /\ Contract!StreamCreate(r) <=> StreamCreate(r)
            /\ Contract!StreamNext(r) <=> StreamNext(r)
            /\ Contract!StreamCancel(r) <=> StreamCancel(r)
            /\ Contract!StreamFinishCancelled(r) <=> StreamFinishCancelled(r)
            /\ Contract!Callback(r) <=> Callback(r)
            /\ Contract!StreamRelease(r) <=> StreamRelease(r)
            /\ \A c : Contract!StreamPush(r, c) <=> StreamPush(r, c)
  /\ Contract!streams = streams
  /\ Contract!Errors = Errors
  BY DEF Contract!StreamCreate, StreamCreate, Contract!StreamNext, StreamNext,
         Contract!StreamCancel, StreamCancel, Contract!StreamFinishCancelled,
         StreamFinishCancelled, Contract!Callback, Callback, Contract!StreamRelease,
         StreamRelease, Contract!StreamPush, StreamPush, Contract!streams, streams,
         Contract!Errors, Errors

LEMMA PhaseIs ==
  ASSUME NEW x \in Reqs
  PROVE  /\ post[x] = "none" => PhaseOf(x) = "none"
         /\ post[x] = "released" => PhaseOf(x) = "gone"
         /\ Placed(x) /\ Ended(x) => PhaseOf(x) = "ended"
         /\ Placed(x) /\ ~Ended(x) /\ Silent(x) => PhaseOf(x) = "silent"
         /\ Placed(x) /\ ~Ended(x) /\ ~Silent(x) /\ Failed(x) => PhaseOf(x) = "failing"
         /\ Placed(x) /\ ~Ended(x) /\ ~Silent(x) /\ ~Failed(x) => PhaseOf(x) = "held"
  BY DEF PhaseOf, Placed, Silent, Ended, Failed

LEMMA PhaseSame ==
  ASSUME NEW x \in Reqs, Kept(x), Silent(x)' <=> Silent(x), Placed(x)' <=> Placed(x),
         ~Placed(x) => post'[x] = post[x]
  PROVE  PhaseOf(x)' = PhaseOf(x)
  BY DEF PhaseOf, Placed, Silent, Ended, Failed, Kept

(* A step of the contract's own variables: the phase of one request, or    *)
(* none.                                                                   *)
LEMMA PhaseMoves ==
  ASSUME NEW r \in Reqs, \A x \in Reqs \ {r} : PhaseOf(x)' = PhaseOf(x), Closed' <=> Closed,
         NEW p, PhaseOf(r)' = p
  PROVE  Contract!To(r, p)
<1>1. [x \in Reqs |-> PhaseOf(x)]' = [[x \in Reqs |-> PhaseOf(x)] EXCEPT ![r] = p]
  BY Zenon
<1>2. Closed' = Closed
  BY Zenon
<1>3. QED
  BY <1>1, <1>2 DEF Contract!To

LEMMA PhasesStay ==
  ASSUME \A x \in Reqs : PhaseOf(x)' = PhaseOf(x)
  PROVE  [x \in Reqs |-> PhaseOf(x)]' = [x \in Reqs |-> PhaseOf(x)]
  BY Zenon

Keeping == [Contract!GNext]_(Contract!gvars)

LEMMA NoStreamStep ==
  ASSUME \A x \in Reqs : PhaseOf(x)' = PhaseOf(x), UNCHANGED streams, Closed => Closed'
  PROVE  Keeping
<1>1. [x \in Reqs |-> PhaseOf(x)]' = [x \in Reqs |-> PhaseOf(x)]
  BY PhasesStay
<1>2. UNCHANGED Contract!streams
  BY SameStreams DEF streams, Contract!streams
<1>3. CASE Closed'
  <2>1. Closed' = TRUE
    BY <1>3, Zenon DEF Closed
  <2>2. Contract!SignalShutdown
    BY <1>1, <1>2, <2>1 DEF Contract!SignalShutdown
  <2>3. QED
    BY <2>2 DEF Keeping, Contract!GNext
<1>4. CASE ~Closed'
  <2>1. Closed' = Closed
    BY <1>4, Zenon DEF Closed
  <2>2. QED
    BY <1>1, <1>2, <2>1 DEF Keeping, Contract!gvars
<1>5. QED
  BY <1>3, <1>4

LEMMA ConsumeStep ==
  ASSUME NEW r \in Reqs, refs[r] > 0, StreamNext(r) \/ StreamCancel(r) \/ StreamRelease(r),
         \A x \in Reqs : PhaseOf(x)' = PhaseOf(x), Closed' <=> Closed
  PROVE  Keeping
<1>1. [x \in Reqs |-> PhaseOf(x)]' = [x \in Reqs |-> PhaseOf(x)]
  BY PhasesStay
<1>2. Closed' = Closed
  BY Zenon DEF Closed
<1>3. Contract!Consume(r)
  BY <1>1, <1>2, SameStreams DEF Contract!Consume
<1>4. QED
  BY <1>3 DEF Keeping, Contract!GNext

(* Where Silent can hold, and who is placed.                               *)
LEMMA SilentRuns ==
  ASSUME IInv, NEW x \in Reqs, Silent(x)
  PROVE  post[x] = "running"
  BY DEF IInv, Owners, ThreadOK, Silent, GenerateLabels

LEMMA WokenFacts ==
  ASSUME Woken, UNCHANGED <<cur, shutdown>>
  PROVE  (Closed' <=> Closed) /\ \A x : Silent(x)' <=> Silent(x)
  BY DEF Woken, Closed, Silent

LEMMA CallerKeeps ==
  ASSUME IInv, Progress, Caller
  PROVE  Keeping
<1> USE DEF thread, loading, asking
<1>1. /\ TypeOK /\ StreamsTypeOK /\ RefsExact /\ CallbackOK
      /\ \A x \in Reqs : RequestOK(x)
  BY DEF IInv, TypeOK, Owners, Progress
<1>2. /\ post \in [Reqs -> {"none", "new", "queued", "running", "drained", "reject", "released"}]
      /\ client \in [Reqs -> {"none", "hold", "reclaim", "dropped"}]
      /\ refs \in [Reqs -> 0..2]
  BY <1>1 DEF TypeOK, CallerTypeOK, StreamsTypeOK
<1>3. ASSUME NEW r \in Reqs, NewRequest(r)  PROVE Keeping
  <2>1. /\ StreamCreate(r) /\ post[r] = "none" /\ post' = [post EXCEPT ![r] = "new"]
        /\ Woken /\ UNCHANGED <<cur, shutdown>>
    BY <1>3 DEF NewRequest, Woken
  <2>2. \A x \in Reqs : Kept(x)
    BY <2>1, SilentEffect
  <2>3. (Closed' <=> Closed) /\ \A x : Silent(x)' <=> Silent(x)
    BY <2>1, WokenFacts
  <2>4. \A x \in Reqs \ {r} : PhaseOf(x)' = PhaseOf(x)
    BY <1>2, <2>1, <2>2, <2>3, PhaseSame DEF Placed
  <2>5. ~Ended(r) /\ ~Failed(r) /\ ~Silent(r)
    BY <1>1, <2>1, SilentRuns DEF RequestOK, StartedOK
  <2>6. PhaseOf(r) = "none" /\ PhaseOf(r)' = "held"
    <3>1. post'[r] = "new"
      BY <1>2, <2>1
    <3>2. ~Ended(r)' /\ ~Failed(r)' /\ ~Silent(r)'
      BY <2>2, <2>3, <2>5 DEF Kept
    <3>3. PhaseOf(r)' = "held"
      BY <3>1, <3>2 DEF PhaseOf, Ended, Failed, Silent
    <3>4. QED
      BY <2>1, <3>3, PhaseIs
  <2>7. Contract!Create(r)
    BY <2>1, <2>3, <2>4, <2>6, PhaseMoves, SameStreams DEF Contract!Create
  <2>8. QED
    BY <2>7 DEF Keeping, Contract!GNext
<1>4. ASSUME NEW r \in Reqs, EnginePost(r)  PROVE Keeping
  <2>1. /\ Woken /\ UNCHANGED <<cur, shutdown>> /\ post[r] = "new"
    BY <1>4 DEF EnginePost, Enqueue, Woken
  <2>2. (Closed' <=> Closed) /\ \A x : Silent(x)' <=> Silent(x)
    BY <2>1, WokenFacts
  <2>3. ~Ended(r) /\ ~Failed(r) /\ ~Silent(r) /\ r \notin cb
    BY <1>1, <2>1, SilentRuns DEF RequestOK, StartedOK, CallbackOK
  <2>4. CASE shutdown
    <3>1. StreamFinishCancelled(r) /\ post' = [post EXCEPT ![r] = "reject"]
      BY <1>4, <2>4 DEF EnginePost
    <3>2. Ended(r)' /\ \A x \in Reqs \ {r} : Kept(x)
      BY <1>1, <3>1, FinishEffect
    <3>3. \A x \in Reqs \ {r} : PhaseOf(x)' = PhaseOf(x)
      BY <1>2, <2>2, <3>1, <3>2, PhaseSame DEF Placed
    <3>4. PhaseOf(r) = "held"
      BY <2>1, <2>3, PhaseIs DEF Placed
    <3>5. PhaseOf(r)' = "ended"
      <4>1. post'[r] = "reject"
        BY <1>2, <3>1
      <4>2. QED
        BY <3>2, <4>1 DEF PhaseOf, Ended
    <3>6. Contract!To(r, "ended")
      BY <2>2, <3>3, <3>5, PhaseMoves
    <3>7. Contract!CutShort(r)
      BY <2>3, <2>4, <3>1, <3>4, <3>6, SameStreams DEF Contract!CutShort, Closed
    <3>8. QED
      BY <3>7 DEF Keeping, Contract!GNext, Contract!Produce
  <2>5. CASE ~shutdown
    <3>1. UNCHANGED streams /\ post' = [post EXCEPT ![r] = "queued"]
      BY <1>4, <2>5 DEF EnginePost
    <3>2. \A x \in Reqs : Kept(x)
      <4>1. ASSUME NEW x \in Reqs  PROVE Kept(x)
        BY <3>1, SilentEffect
      <4>2. QED
        BY <4>1
    <3>3. \A x \in Reqs : PhaseOf(x)' = PhaseOf(x)
      BY <1>2, <2>1, <2>2, <3>1, <3>2, PhaseSame DEF Placed
    <3>4. QED
      BY <2>2, <3>1, <3>3, NoStreamStep
  <2>6. QED
    BY <2>4, <2>5
<1>5. ASSUME NEW r \in Reqs, RejectRelease(r)  PROVE Keeping
  <2>1. /\ StreamRelease(r) /\ post[r] = "reject" /\ r \notin cb
        /\ post' = [post EXCEPT ![r] = "released"]
        /\ Woken /\ UNCHANGED <<cur, shutdown>>
    BY <1>5 DEF RejectRelease, Woken
  <2>2. \A x \in Reqs : Kept(x)
    BY <2>1, SilentEffect
  <2>3. (Closed' <=> Closed) /\ \A x : Silent(x)' <=> Silent(x)
    BY <2>1, WokenFacts
  <2>4. \A x \in Reqs \ {r} : PhaseOf(x)' = PhaseOf(x)
    BY <1>2, <2>1, <2>2, <2>3, PhaseSame DEF Placed
  <2>5. PhaseOf(r) = "ended"
    BY <1>1, <2>1, PhaseIs DEF RequestOK, StartedOK, Placed
  <2>6. PhaseOf(r)' = "gone"
    BY <1>2, <2>1 DEF PhaseOf
  <2>7. Contract!Release(r)
    BY <2>1, <2>3, <2>4, <2>5, <2>6, PhaseMoves, SameStreams DEF Contract!Release
  <2>8. QED
    BY <2>7 DEF Keeping, Contract!GNext, Contract!Produce
<1>6. ASSUME NEW r \in Reqs, Take(r) \/ Withdraw(r) \/ DropStream(r) \/ PostReclaim(r)
      PROVE  Keeping
  <2>1. Woken /\ UNCHANGED <<cur, shutdown>> /\ post' = post /\ client[r] = "hold"
    BY <1>6 DEF Take, Withdraw, DropStream, PostReclaim, Enqueue, Woken
  <2>2. StreamNext(r) \/ StreamCancel(r) \/ StreamRelease(r) \/ UNCHANGED streams
    BY <1>6 DEF Take, Withdraw, DropStream, PostReclaim
  <2>3. \A x \in Reqs : Kept(x)
    BY <1>1, <2>2, SilentEffect, NextEffect
  <2>4. (Closed' <=> Closed) /\ \A x : Silent(x)' <=> Silent(x)
    BY <2>1, WokenFacts
  <2>5. \A x \in Reqs : PhaseOf(x)' = PhaseOf(x)
    BY <2>1, <2>3, <2>4, PhaseSame DEF Placed
  <2>6. refs[r] > 0
    BY <1>1, <1>2, <2>1 DEF RefsExact
  <2>7. QED
    BY <2>2, <2>4, <2>5, <2>6, ConsumeStep, NoStreamStep
<1>7. ASSUME \/ \E l \in Loads : PostLoad(l) \/ PostLoadEnqueue(l) \/ WaitLoad(l)
             \/ \E tag \in Misc : PostMisc(tag)
      PROVE  Keeping
  <2>1. Woken /\ UNCHANGED <<cur, shutdown>> /\ post' = post /\ UNCHANGED streams
    BY <1>7 DEF PostLoad, PostLoadEnqueue, WaitLoad, PostMisc, Enqueue, Woken
  <2>2. \A x \in Reqs : Kept(x)
    <3>1. ASSUME NEW x \in Reqs  PROVE Kept(x)
      BY <2>1, SilentEffect
    <3>2. QED
      BY <3>1
  <2>3. (Closed' <=> Closed) /\ \A x : Silent(x)' <=> Silent(x)
    BY <2>1, WokenFacts
  <2>4. \A x \in Reqs : PhaseOf(x)' = PhaseOf(x)
    BY <2>1, <2>2, <2>3, PhaseSame DEF Placed
  <2>5. QED
    BY <2>1, <2>3, <2>4, NoStreamStep
<1>8. QED
  BY <1>3, <1>4, <1>5, <1>6, <1>7 DEF Caller

LEMMA ThreadKeeps ==
  ASSUME IInv, Progress,
         Loop \/ MailboxDequeue \/ HandleReclaim \/ HandleEmbed \/ HandleUnload
           \/ HandleLoad \/ LoadDone \/ LoadFailed
  PROVE  Keeping
<1> USE DEF loading, asking, Goto
<1>1. /\ TypeOK /\ StreamsTypeOK /\ RefsExact /\ ThreadOK
      /\ post \in [Reqs -> {"none", "new", "queued", "running", "drained", "reject", "released"}]
      /\ refs \in [Reqs -> 0..2]
  BY DEF IInv, TypeOK, StreamsTypeOK, CallerTypeOK, Owners
<1>2. pc \notin {"clear", "release", "STOP", "draining", "exited"} /\ shutdown' = shutdown
  BY DEF Loop, MailboxDequeue, HandleReclaim, HandleEmbed, HandleUnload, HandleLoad, LoadDone,
         LoadFailed
<1>3. CASE HandleReclaim
  <2>1. PICK r \in Reqs : r = cur /\ client[r] = "reclaim"
    BY <1>1, <1>3 DEF HandleReclaim, TypeOK, ThreadTypeOK, ThreadOK
  <2>2. StreamRelease(r) /\ post' = post /\ pc' = "loop"
    BY <1>3, <2>1 DEF HandleReclaim
  <2>3. \A x \in Reqs : Kept(x)
    BY <2>2, SilentEffect
  <2>4. (Closed' <=> Closed) /\ \A x : ~Silent(x) /\ ~Silent(x)'
    BY <1>2, <2>2 DEF Closed, Silent
  <2>5. \A x \in Reqs : PhaseOf(x)' = PhaseOf(x)
    BY <2>2, <2>3, <2>4, PhaseSame DEF Placed
  <2>6. refs[r] > 0
    BY <1>1, <2>1 DEF RefsExact
  <2>7. QED
    BY <2>2, <2>4, <2>5, <2>6, ConsumeStep
<1>4. ASSUME UNCHANGED streams, pc' \notin {"clear", "release"},
             \A x \in Reqs : (Placed(x)' <=> Placed(x)) /\ (~Placed(x) => post'[x] = post[x])
      PROVE  Keeping
  <2>1. \A x \in Reqs : Kept(x)
    <3>1. ASSUME NEW x \in Reqs  PROVE Kept(x)
      BY <1>4, SilentEffect
    <3>2. QED
      BY <3>1
  <2>2. (Closed => Closed') /\ \A x : ~Silent(x) /\ ~Silent(x)'
    BY <1>2, <1>4 DEF Closed, Silent
  <2>3. \A x \in Reqs : PhaseOf(x)' = PhaseOf(x)
    BY <1>4, <2>1, <2>2, PhaseSame
  <2>4. QED
    BY <1>4, <2>2, <2>3, NoStreamStep
<1>5. CASE Loop \/ HandleEmbed \/ HandleUnload \/ HandleLoad \/ LoadDone \/ LoadFailed
  <2>1. /\ UNCHANGED streams /\ post' = post
        /\ pc' \in {"drain", "dequeue", "loop", "loading", "load failed"}
    BY <1>5 DEF Loop, HandleEmbed, HandleUnload, HandleLoad, LoadDone, LoadFailed
  <2>2. QED
    BY <1>4, <2>1 DEF Placed
<1>6. CASE MailboxDequeue
  <2>1. CASE mailbox = <<>>
    BY <1>4, <1>6, <2>1 DEF MailboxDequeue, Placed
  <2>2. CASE mailbox # <<>>
    <3> DEFINE cmd == Head(mailbox)
    <3>1. cmd \in Commands /\ cmd = mailbox[1] /\ 1 \in 1..Len(mailbox)
      BY <2>2, MailFacts, EmptySeq, HeadTailProperties
    <3>2. cmd.tag = "GENERATE" => cmd.arg \in Reqs /\ post[cmd.arg] = "queued"
      BY <3>1 DEF IInv, MailboxOK, Commands
    <3>3. cmd.tag \in {"GENERATE", "RECLAIM", "LOAD", "UNLOAD", "EMBED", "STOP"}
      BY <3>1 DEF Commands
    <3>4. /\ UNCHANGED streams /\ pc' = cmd.tag
          /\ post' = IF cmd.tag = "GENERATE" THEN [post EXCEPT ![cmd.arg] = "running"] ELSE post
      BY <1>6, <2>2 DEF MailboxDequeue
    <3> HIDE DEF cmd
    <3>5. \A x \in Reqs : post'[x] = post[x] \/ (post[x] = "queued" /\ post'[x] = "running")
      BY <1>1, <3>2, <3>4
    <3>6. QED
      BY <1>4, <3>3, <3>4, <3>5 DEF Placed
  <2>3. QED
    BY <2>1, <2>2
<1>7. QED
  BY <1>3, <1>5, <1>6

(* A token is pushed only when the callback of the last push is over:      *)
(* nobody but the thread finishes a stream whose request is running.       *)
Pushing == {"stub push", "decode push"}
QuietOK == pc \in Pushing => cur \notin cb

LEMMA CallbacksGrow ==
  ASSUME IInv, NEW r \in Reqs,
         \/ StreamCreate(r) \/ StreamNext(r) \/ StreamRelease(r) \/ Callback(r)
         \/ StreamCancel(r) \/ UNCHANGED streams
         \/ (StreamFinishCancelled(r) /\ post[r] # "running")
  PROVE  \A x \in Reqs : post[x] = "running" /\ x \notin cb => x \notin cb'
  BY DEF StreamCreate, StreamNext, StreamRelease, Callback, StreamCancel,
         StreamFinishCancelled, streams

LEMMA QuietStep == IInv /\ Progress /\ QuietOK /\ [Next]_vars => QuietOK'
<1> SUFFICES ASSUME IInv, Progress, QuietOK, [Next]_vars, pc' \in Pushing PROVE cur' \notin cb'
  BY DEF QuietOK
<1> USE DEF Pushing, Goto, thread, loading, asking
<1>1. /\ TypeOK /\ ResidentModel /\ model \in {"none", "stub", "real"}
      /\ cur \in Reqs \/ pc \notin GenerateLabels
      /\ pc \in GenerateLabels => post[cur] = "running"
      /\ inflight \in Reqs \cup {None}
  BY DEF IInv, TypeOK, LoadTypeOK, ThreadTypeOK, CallerTypeOK, Owners, ThreadOK
<1>2. Pushing \subseteq GenerateLabels
  BY DEF GenerateLabels, StubLabels, RealLabels
<1>3. CASE Generate
  <2>1. Stub \/ Decode
    <3>1. ~SetInflight /\ ~Real /\ ~Prefill /\ ~Seed /\ ~StubPush /\ ~DecodePush /\ ~PushDone
          /\ ~Abort /\ ~FailError /\ ~FailDone /\ ~FailRefused /\ ~ClearInflight
          /\ ~GenerateRelease
      BY DEF SetInflight, Real, Prefill, Seed, StubPush, DecodePush, PushDone, Abort, FailError,
             FailDone, FailRefused, ClearInflight, GenerateRelease, Step, FailWith, DoneWith, Push
    <3>2. ~CheckLoadState
      BY <1>1 DEF CheckLoadState, Step, FailWith
    <3>3. QED
      BY <1>3, <3>1, <3>2, Zenon DEF Generate
  <2>2. UNCHANGED <<streams, cur>> /\ Idle
    BY <2>1 DEF Stub, Decode, Step, FailWith, DoneWith
  <2>3. QED
    BY <2>2 DEF Idle, streams
<1>4. ASSUME pc' = pc, cur' = cur, NEW r \in Reqs,
             \/ StreamCreate(r) \/ StreamNext(r) \/ StreamRelease(r) \/ Callback(r)
             \/ StreamCancel(r) \/ UNCHANGED streams
             \/ (StreamFinishCancelled(r) /\ post[r] # "running")
      PROVE  cur' \notin cb'
  BY <1>1, <1>2, <1>4, CallbacksGrow DEF QuietOK
<1>5. ASSUME pc' = pc, cur' = cur, UNCHANGED streams  PROVE cur' \notin cb'
  BY <1>5 DEF QuietOK, streams
<1>6. CASE Caller
  <2>1. pc' = pc /\ cur' = cur
    BY <1>6 DEF Caller, NewRequest, EnginePost, RejectRelease, Take, Withdraw, DropStream,
                PostReclaim, PostLoad, PostLoadEnqueue, WaitLoad, PostMisc, Enqueue
  <2>2. ASSUME NEW r \in Reqs, \/ NewRequest(r) \/ EnginePost(r) \/ RejectRelease(r)
                               \/ Take(r) \/ Withdraw(r) \/ DropStream(r) \/ PostReclaim(r)
        PROVE  cur' \notin cb'
    <3>1. \/ StreamCreate(r) \/ StreamNext(r) \/ StreamRelease(r)
          \/ StreamCancel(r) \/ UNCHANGED streams
          \/ (StreamFinishCancelled(r) /\ post[r] # "running")
      BY <2>2 DEF NewRequest, EnginePost, RejectRelease, Take, Withdraw, DropStream, PostReclaim
    <3>2. QED
      BY <1>4, <2>1, <3>1
  <2>3. ASSUME \/ \E l \in Loads : PostLoad(l) \/ PostLoadEnqueue(l) \/ WaitLoad(l)
               \/ \E tag \in Misc : PostMisc(tag)
        PROVE  UNCHANGED streams
    BY <2>3 DEF PostLoad, PostLoadEnqueue, WaitLoad, PostMisc
  <2>4. QED
    BY <1>5, <1>6, <2>1, <2>2, <2>3 DEF Caller
<1>7. ~(Loop \/ HandleReclaim \/ HandleEmbed \/ HandleUnload \/ HandleLoad \/ LoadDone \/ LoadFailed)
  BY DEF Loop, HandleReclaim, HandleEmbed, HandleUnload, HandleLoad, LoadDone, LoadFailed
<1>8. ~MailboxDequeue
  <2>1. mailbox # <<>> => Head(mailbox) \in Commands
    BY <1>1, EmptySeq, HeadTailProperties DEF TypeOK, MailTypeOK
  <2>2. QED
    BY <2>1 DEF MailboxDequeue, Commands
<1>9. ~ThreadDrain
  BY DEF ThreadDrain
<1>10. CASE EngineDestroy
  <2>1. pc' = pc
    BY <1>10 DEF EngineDestroy
  <2>2. stopper \in {"signalled", "draining"} /\ (stopper = "signalled" => pc = "exited")
    BY <1>10 DEF EngineDestroy
  <2>3. QED
    BY <2>1, <2>2 DEF IInv, JoinedOK
<1>11. CASE EngineSignalShutdown
  <2>1. pc' = pc /\ cur' = cur
    BY <1>11 DEF EngineSignalShutdown, StoreShutdown, CancelInflight
  <2>2. UNCHANGED streams \/ (inflight \in Reqs /\ StreamCancel(inflight))
    BY <1>1, <1>11 DEF EngineSignalShutdown, StoreShutdown, CancelInflight
  <2>3. QED
    BY <1>4, <1>5, <2>1, <2>2
<1>12. ASSUME NEW r \in Reqs, NotifyCallback(r)  PROVE cur' \notin cb'
  BY <1>4, <1>12 DEF NotifyCallback
<1>13. CASE UNCHANGED vars
  BY <1>5, <1>13 DEF vars
<1>14. QED
  BY <1>3, <1>6, <1>7, <1>8, <1>9, <1>10, <1>11, <1>12, <1>13 DEF Next, EngineThread

LEMMA AlwaysQuiet == Spec => []QuietOK
<1>1. Init => QuietOK
  BY DEF Init, QuietOK, Pushing
<1>2. QED
  BY <1>1, QuietStep, Inductive, AlwaysProgress, PTL DEF Spec

LEMMA GenerateKeeps ==
  ASSUME IInv, Progress, QuietOK, Generate
  PROVE  Keeping
<1> USE DEF Goto, GenerateLabels, StubLabels, RealLabels
<1>1. pc \in GenerateLabels
  BY DEF Generate, SetInflight, CheckLoadState, Stub, StubPush, Real, Prefill, Seed, Decode,
         DecodePush, PushDone, Abort, FailError, FailDone, FailRefused, ClearInflight,
         GenerateRelease
<1>2. /\ StreamsTypeOK /\ ReasonOK /\ ResidentModel /\ RequestOK(cur) /\ post[cur] = "running"
      /\ ThreadOK /\ model \in {"none", "stub", "real"}
      /\ post \in [Reqs -> {"none", "new", "queued", "running", "drained", "reject", "released"}]
  BY <1>1, GenerateFacts DEF TypeOK, CallerTypeOK, LoadTypeOK, IInv, Owners
<1>3. PICK r \in Reqs : r = cur
  BY <1>1, GenerateFacts
<1>4. ~Closed \/ shutdown
  BY <1>1 DEF Closed
<1>5. ASSUME Generating, cur' = cur, pc' \in GenerateLabels
      PROVE  (Closed' <=> Closed) /\ (Closed <=> shutdown) /\ post' = post
  BY <1>1, <1>5 DEF Generating, asking, Closed
<1>6. ASSUME Generating, cur' = cur, pc' \in GenerateLabels, UNCHANGED streams,
             pc' \in {"clear", "release"} => pc \in {"clear", "release"}
      PROVE  Keeping
  <2>1. \A x \in Reqs : Kept(x)
    <3>1. ASSUME NEW x \in Reqs  PROVE Kept(x)
      BY <1>6, SilentEffect
    <3>2. QED
      BY <3>1
  <2>2. CASE Silent(r)' <=> Silent(r)
    <3>1. \A x \in Reqs : Silent(x)' <=> Silent(x)
      BY <1>3, <1>6, <2>2 DEF Silent
    <3>2. \A x \in Reqs : PhaseOf(x)' = PhaseOf(x)
      BY <1>5, <1>6, <2>1, <3>1, PhaseSame DEF Placed
    <3>3. QED
      BY <1>5, <1>6, <3>2, NoStreamStep
  <2>3. CASE ~(Silent(r)' <=> Silent(r))
    <3>1. pc \in {"clear", "release"} /\ pc' \notin {"clear", "release"}
      BY <1>3, <1>6, <2>3 DEF Silent
    <3>2. ~SetInflight /\ ~CheckLoadState /\ ~Stub /\ ~Real /\ ~Prefill /\ ~Seed /\ ~Decode
          /\ ~StubPush /\ ~DecodePush /\ ~PushDone /\ ~Abort /\ ~FailError /\ ~FailDone
          /\ ~FailRefused
      BY <3>1 DEF SetInflight, CheckLoadState, Stub, StubPush, Real, Prefill, Seed, Decode,
         DecodePush, PushDone, Abort, FailError, FailDone, FailRefused
    <3>3. ClearInflight \/ GenerateRelease
      BY <3>2, Zenon DEF Generate
    <3>4. QED
      BY <1>6, <3>1, <3>3 DEF ClearInflight, GenerateRelease
  <2>4. QED
    BY <2>2, <2>3
<1>7. CASE SetInflight \/ ClearInflight
  BY <1>6, <1>7 DEF SetInflight, ClearInflight
<1>8. CASE CheckLoadState \/ Stub \/ Real \/ Prefill \/ Seed \/ Decode
  <2>1. Generating /\ cur' = cur /\ UNCHANGED streams
    BY <1>8 DEF CheckLoadState, Stub, Real, Prefill, Seed, Decode, Step, FailWith, DoneWith
  <2>2. pc' \in GenerateLabels \ {"clear", "release"}
    BY <1>2, <1>8 DEF CheckLoadState, Stub, Real, Prefill, Seed, Decode, Step, FailWith, DoneWith,
       ResidentModel
  <2>3. QED
    BY <1>6, <2>1, <2>2
<1>9. CASE FailRefused
  <2>1. /\ pc = "fail refused" /\ r \notin cb /\ UNCHANGED streams /\ Generating /\ cur' = cur
        /\ pc' = (IF shutdown THEN "abort" ELSE "clear") /\ cancelled[r] /\ ~Ended(r)
    BY <1>2, <1>3, <1>9 DEF FailRefused, Step, Idle, ReasonOK, RequestOK, RunningOK
  <2>2. CASE shutdown
    BY <1>6, <2>1, <2>2
  <2>3. CASE ~shutdown
    <3>1. \A x \in Reqs : Kept(x)
      <4>1. ASSUME NEW x \in Reqs  PROVE Kept(x)
        BY <2>1, SilentEffect
      <4>2. QED
        BY <4>1
    <3>2. \A x \in Reqs \ {r} : Silent(x)' <=> Silent(x)
      BY <1>3, <2>1 DEF Silent
    <3>3. post' = post /\ (Closed' <=> Closed) /\ ~Closed
      BY <1>5, <2>1, <2>3
    <3>4. \A x \in Reqs \ {r} : PhaseOf(x)' = PhaseOf(x)
      BY <3>1, <3>2, <3>3, PhaseSame DEF Placed
    <3>5. PhaseOf(r) \in {"held", "failing"}
      BY <1>2, <1>3, <2>1, PhaseIs DEF Placed, Silent
    <3>6. PhaseOf(r)' = "silent"
      <4>1. post'[r] = "running" /\ ~Ended(r)' /\ Silent(r)'
        BY <1>2, <1>3, <2>1, <2>3, <3>1, <3>3 DEF Kept, Silent
      <4>2. QED
        BY <4>1 DEF PhaseOf, Ended, Silent
    <3>7. Contract!GiveUp(r)
      <4>1. Contract!To(r, "silent")
        BY <3>3, <3>4, <3>6, PhaseMoves
      <4>2. UNCHANGED Contract!streams
        BY <2>1, SameStreams DEF streams, Contract!streams
      <4>3. QED
        BY <2>1, <3>3, <3>5, <4>1, <4>2 DEF Contract!GiveUp
    <3>8. QED
      BY <3>7 DEF Keeping, Contract!GNext, Contract!Produce
  <2>4. QED
    BY <2>2, <2>3
<1>10. CASE Abort
  <2>1. /\ pc = "abort" /\ pc' = "clear" /\ r \notin cb /\ StreamFinishCancelled(r) /\ Generating
        /\ cur' = cur /\ (shutdown \/ cancelled[r]) /\ ~Ended(r)
    BY <1>2, <1>3, <1>10 DEF Abort, Idle, ReasonOK, RequestOK, RunningOK
  <2>2. Ended(r)' /\ \A x \in Reqs \ {r} : Kept(x)
    BY <1>2, <2>1, FinishEffect
  <2>3. \A x \in Reqs \ {r} : Silent(x)' <=> Silent(x)
    BY <1>3, <2>1 DEF Silent
  <2>4. post' = post /\ (Closed' <=> Closed) /\ (Closed <=> shutdown)
    BY <1>5, <2>1
  <2>5. \A x \in Reqs \ {r} : PhaseOf(x)' = PhaseOf(x)
    BY <2>2, <2>3, <2>4, PhaseSame DEF Placed
  <2>6. PhaseOf(r) \in {"held", "failing"}
    BY <1>2, <1>3, <2>1, PhaseIs DEF Placed, Silent
  <2>7. PhaseOf(r)' = "ended"
    BY <1>2, <1>3, <2>2, <2>4 DEF PhaseOf, Ended
  <2>8. Contract!To(r, "ended")
    BY <2>4, <2>5, <2>7, PhaseMoves
  <2>9. Contract!CutShort(r)
    BY <2>1, <2>4, <2>6, <2>8, SameStreams DEF Contract!CutShort
  <2>10. QED
    BY <2>9 DEF Keeping, Contract!GNext, Contract!Produce
<1>11. CASE GenerateRelease
  <2>1. /\ pc = "release" /\ pc' = "loop" /\ StreamRelease(r) /\ shutdown' = shutdown
        /\ post' = [post EXCEPT ![r] = "released"] /\ r \notin cb
    BY <1>2, <1>3, <1>11 DEF GenerateRelease, ThreadOK
  <2>2. \A x \in Reqs : Kept(x)
    BY <2>1, SilentEffect
  <2>3. (Closed' <=> Closed) /\ \A x \in Reqs \ {r} : ~Silent(x) /\ ~Silent(x)'
    BY <1>3, <2>1 DEF Silent, Closed
  <2>4. \A x \in Reqs \ {r} : PhaseOf(x)' = PhaseOf(x)
    BY <1>2, <2>1, <2>2, <2>3, PhaseSame DEF Placed
  <2>5. PhaseOf(r) \in {"ended", "silent"}
    BY <1>2, <1>3, <2>1, PhaseIs DEF Placed, Silent
  <2>6. PhaseOf(r)' = "gone"
    BY <1>2, <2>1 DEF PhaseOf
  <2>7. Contract!Release(r)
    BY <2>1, <2>3, <2>4, <2>5, <2>6, PhaseMoves, SameStreams DEF Contract!Release
  <2>8. QED
    BY <2>7 DEF Keeping, Contract!GNext, Contract!Produce
<1>12. CASE StubPush \/ DecodePush \/ PushDone \/ FailError \/ FailDone
  <2>1. /\ Generating /\ cur' = cur /\ pc' \in GenerateLabels
        /\ pc \in {"stub push", "decode push", "done", "fail", "fail done"}
    BY <1>12 DEF StubPush, DecodePush, PushDone, FailError, FailDone, Push
  <2>2. CASE StreamPushRefused(cur)
    <3>1. UNCHANGED streams
      BY <2>2 DEF StreamPushRefused
    <3>2. pc' \in {"abort", "fail refused"}
      BY <1>12, <2>2 DEF StubPush, DecodePush, PushDone, FailError, FailDone, Push,
         StreamPushRefused, StreamPush
    <3>3. QED
      BY <1>6, <2>1, <3>1, <3>2
  <2>3. CASE ~StreamPushRefused(cur)
    <3>1. post' = post /\ (Closed' <=> Closed)
      BY <1>5, <2>1
    <3>2. \A x \in Reqs \ {r} : Silent(x)' <=> Silent(x)
      BY <1>3, <2>1 DEF Silent
    <3>3. ~Ended(r) /\ (pc # "fail done" => ~Failed(r)) /\ post[r] = "running" /\ Placed(r)
          /\ Placed(r)'
      BY <1>2, <1>3, <2>1, <3>1 DEF RequestOK, RunningOK, Placed, Early
    <3>4. ~Silent(r)
      BY <2>1 DEF Silent
    <3>5. ASSUME NEW c \in Chunks, StreamPush(r, c)
          PROVE  /\ \A x \in Reqs \ {r} : PhaseOf(x)' = PhaseOf(x)
                 /\ c \in Terminals => PhaseOf(r)' = "ended"
                 /\ c \in Errors /\ pc' = "fail done" => PhaseOf(r)' = "failing"
                 /\ c = "token" => /\ ~Ended(r)'
                                   /\ Failed(r)' <=> Failed(r)
      <4>1. /\ \A x \in Reqs \ {r} : Kept(x)
            /\ Ended(r)' <=> Ended(r) \/ c \in Terminals
            /\ Failed(r)' <=> Failed(r) \/ c \in Errors
        BY <1>2, <3>5, PushEffect
      <4>2. \A x \in Reqs \ {r} : PhaseOf(x)' = PhaseOf(x)
        BY <3>1, <3>2, <4>1, PhaseSame DEF Placed
      <4>3. c \in Terminals => PhaseOf(r)' = "ended"
        BY <3>1, <3>3, <4>1 DEF PhaseOf, Ended, Placed
      <4>4. c \in Errors /\ pc' = "fail done" => PhaseOf(r)' = "failing"
        <5>1. c \in Errors => c \notin Terminals
          BY DEF Errors, Terminals
        <5>2. QED
          BY <3>1, <3>3, <4>1, <5>1 DEF PhaseOf, Ended, Failed, Placed
      <4>5. "token" \notin Errors \cup Terminals
        BY DEF Errors, Terminals
      <4>6. QED
        BY <3>3, <4>1, <4>2, <4>3, <4>4, <4>5
    <3>6. r \notin cb \/ StubPush \/ DecodePush
      BY <1>3, <1>12 DEF PushDone, FailError, FailDone, Idle
    <3>7. {"token", "stop", "length"} \cup Errors \subseteq Chunks
          /\ {"stop", "length"} \subseteq Terminals
      BY DEF Chunks, Errors, Terminals
    <3>8. CASE PushDone
      <4>1. StreamPush(r, reason) /\ pc = "done" /\ reason \in {"stop", "length"}
        BY <1>2, <1>3, <2>3, <3>8 DEF PushDone, Push, ReasonOK
      <4>2. PhaseOf(r) = "held"
        BY <3>3, <3>4, <4>1, PhaseIs
      <4>3. Contract!To(r, "ended")
        BY <3>1, <3>5, <3>7, <4>1, PhaseMoves
      <4>4. r \notin cb
        BY <1>3, <3>8 DEF PushDone, Idle
      <4>5. Contract!SendDone(r)
        BY <4>1, <4>2, <4>3, <4>4, SameStreams DEF Contract!SendDone
      <4>6. QED
        BY <4>5 DEF Keeping, Contract!GNext, Contract!Produce
    <3>9. CASE FailError
      <4>1. StreamPush(r, reason) /\ pc = "fail" /\ pc' = "fail done" /\ reason \in Errors
        BY <1>2, <1>3, <2>3, <3>9 DEF FailError, Push, ReasonOK
      <4>2. PhaseOf(r) = "held"
        BY <3>3, <3>4, <4>1, PhaseIs
      <4>3. Contract!To(r, "failing")
        BY <3>1, <3>5, <3>7, <4>1, PhaseMoves
      <4>4. r \notin cb
        BY <1>3, <3>9 DEF FailError, Idle
      <4>5. Contract!SendError(r)
        BY <4>1, <4>2, <4>3, <4>4, SameStreams DEF Contract!SendError
      <4>6. QED
        BY <4>5 DEF Keeping, Contract!GNext, Contract!Produce
    <3>10. CASE FailDone
      <4>1. StreamPush(r, "stop") /\ pc = "fail done"
        BY <1>3, <2>3, <3>10 DEF FailDone, Push
      <4>2. PhaseOf(r) \in {"held", "failing"}
        BY <3>3, <3>4, <4>1, PhaseIs
      <4>3. Contract!To(r, "ended")
        BY <3>1, <3>5, <3>7, <4>1, PhaseMoves
      <4>4. r \notin cb
        BY <1>3, <3>10 DEF FailDone, Idle
      <4>5. Contract!SendDone(r)
        BY <4>1, <4>2, <4>3, <4>4, SameStreams DEF Contract!SendDone
      <4>6. QED
        BY <4>5 DEF Keeping, Contract!GNext, Contract!Produce
    <3>11. CASE StubPush \/ DecodePush
      <4>1. StreamPush(r, "token") /\ pc \in {"stub push", "decode push"}
        BY <1>3, <2>3, <3>11 DEF StubPush, DecodePush, Push
      <4>2. PhaseOf(r) = "held"
        BY <3>3, <3>4, <4>1, PhaseIs
      <4>3. pc' \notin {"clear", "release"}
        BY <3>11 DEF StubPush, DecodePush, Push
      <4>4. PhaseOf(r)' = "held"
        BY <3>1, <3>3, <3>5, <3>7, <4>1, <4>3 DEF PhaseOf, Ended, Failed, Placed
      <4>5. \A x \in Reqs : PhaseOf(x)' = PhaseOf(x)
        BY <3>5, <3>7, <4>1, <4>2, <4>4
      <4>6. [x \in Reqs |-> PhaseOf(x)]' = [x \in Reqs |-> PhaseOf(x)] /\ Closed' = Closed
        <5>1. [x \in Reqs |-> PhaseOf(x)]' = [x \in Reqs |-> PhaseOf(x)]
          BY <4>5, PhasesStay
        <5>2. Closed' = Closed
          BY <3>1, Zenon DEF Closed
        <5>3. QED
          BY <5>1, <5>2
      <4>7. r \notin cb
        BY <1>3, <4>1 DEF QuietOK, Pushing
      <4>8. Contract!SendToken(r)
        BY <4>1, <4>2, <4>6, <4>7, SameStreams DEF Contract!SendToken
      <4>9. QED
        BY <4>8 DEF Keeping, Contract!GNext, Contract!Produce
    <3>12. QED
      BY <1>12, <3>8, <3>9, <3>10, <3>11
  <2>4. QED
    BY <2>2, <2>3
<1>13. QED
  BY <1>7, <1>8, <1>9, <1>10, <1>11, <1>12 DEF Generate

LEMMA DrainKeeps ==
  ASSUME IInv, Progress, DrainTake \/ DrainTerminal \/ DrainDrop, Closed => Closed',
         DrainTake \/ (Closed /\ pc' = pc), pc \in {"drain", "STOP", "draining", "exited"},
         pc' \in {"draining", "exited"}
  PROVE  Keeping
<1> USE DEF asking
<1>1. /\ TypeOK /\ StreamsTypeOK /\ RefsExact /\ CallbackOK
      /\ \A x \in Reqs : RequestOK(x)
      /\ post \in [Reqs -> {"none", "new", "queued", "running", "drained", "reject", "released"}]
      /\ refs \in [Reqs -> 0..2]
  BY DEF IInv, TypeOK, StreamsTypeOK, CallerTypeOK, Owners, Progress
<1>2. \A x : ~Silent(x) /\ ~Silent(x)'
  BY DEF Silent
<1>3. ASSUME ~DrainTake  PROVE Closed' /\ Closed
  BY <1>3
<1>4. CASE DrainTake
  <2>1. UNCHANGED streams /\ post' = post
    BY <1>4 DEF DrainTake
  <2>2. \A x \in Reqs : Kept(x)
    <3>1. ASSUME NEW x \in Reqs  PROVE Kept(x)
      BY <2>1, SilentEffect
    <3>2. QED
      BY <3>1
  <2>3. \A x \in Reqs : PhaseOf(x)' = PhaseOf(x)
    BY <1>2, <2>1, <2>2, PhaseSame DEF Placed
  <2>4. QED
    BY <2>1, <2>3, NoStreamStep
<1>5. CASE DrainTerminal /\ ~DrainTake
  <2>1. PICK r \in Reqs : r = Head(batch).arg
    BY <1>5, HeadOfBatch DEF DrainTerminal
  <2>2. /\ StreamFinishCancelled(r) /\ post[r] = "queued"
        /\ post' = [post EXCEPT ![r] = "drained"]
    BY <1>5, <2>1 DEF DrainTerminal
  <2>3. Ended(r)' /\ \A x \in Reqs \ {r} : Kept(x)
    BY <1>1, <2>2, FinishEffect
  <2>4. \A x \in Reqs \ {r} : PhaseOf(x)' = PhaseOf(x)
    BY <1>1, <1>2, <2>2, <2>3, PhaseSame DEF Placed
  <2>5. ~Ended(r) /\ ~Failed(r) /\ r \notin cb
    BY <1>1, <2>2 DEF RequestOK, StartedOK, CallbackOK
  <2>6. PhaseOf(r) = "held"
    BY <1>2, <2>2, <2>5, PhaseIs DEF Placed
  <2>7. PhaseOf(r)' = "ended"
    <3>1. post'[r] = "drained"
      BY <1>1, <2>2
    <3>2. QED
      BY <2>3, <3>1 DEF PhaseOf, Ended
  <2>8. Contract!To(r, "ended")
    BY <1>3, <1>5, <2>4, <2>7, PhaseMoves
  <2>9. Contract!CutShort(r)
    BY <1>3, <1>5, <2>2, <2>5, <2>6, <2>8, SameStreams DEF Contract!CutShort
  <2>10. QED
    BY <2>9 DEF Keeping, Contract!GNext, Contract!Produce
<1>6. CASE DrainDrop /\ ~DrainTake /\ Head(batch).tag = "GENERATE"
  <2>1. PICK r \in Reqs : r = Head(batch).arg
    BY <1>6, HeadOfBatch DEF DrainDrop
  <2>2. /\ StreamRelease(r) /\ post[r] = "drained" /\ r \notin cb
        /\ post' = [post EXCEPT ![r] = "released"]
    BY <1>6, <2>1 DEF DrainDrop
  <2>3. \A x \in Reqs : Kept(x)
    BY <2>2, SilentEffect
  <2>4. \A x \in Reqs \ {r} : PhaseOf(x)' = PhaseOf(x)
    BY <1>1, <1>2, <2>2, <2>3, PhaseSame DEF Placed
  <2>5. PhaseOf(r) = "ended"
    BY <1>1, <2>2, PhaseIs DEF RequestOK, StartedOK, Placed
  <2>6. PhaseOf(r)' = "gone"
    BY <1>1, <2>2 DEF PhaseOf
  <2>7. Contract!To(r, "gone")
    BY <1>3, <1>6, <2>4, <2>6, PhaseMoves
  <2>8. Contract!Release(r)
    BY <2>2, <2>5, <2>7, SameStreams DEF Contract!Release
  <2>9. QED
    BY <2>8 DEF Keeping, Contract!GNext, Contract!Produce
<1>7. CASE DrainDrop /\ ~DrainTake /\ Head(batch).tag # "GENERATE"
  <2>1. post' = post
    BY <1>7 DEF DrainDrop
  <2>2. CASE Head(batch).tag = "RECLAIM"
    <3>1. PICK r \in Reqs : r = Head(batch).arg /\ client[r] = "reclaim"
      BY <1>7, <2>2, HeadOfBatch DEF DrainDrop
    <3>2. StreamRelease(r)
      BY <1>7, <2>2, <3>1 DEF DrainDrop
    <3>3. \A x \in Reqs : Kept(x)
      BY <3>2, SilentEffect
    <3>4. \A x \in Reqs : PhaseOf(x)' = PhaseOf(x)
      BY <1>2, <2>1, <3>3, PhaseSame DEF Placed
    <3>5. refs[r] > 0
      BY <1>1, <3>1 DEF RefsExact
    <3>6. QED
      BY <1>3, <1>7, <3>2, <3>4, <3>5, ConsumeStep
  <2>3. CASE Head(batch).tag # "RECLAIM"
    <3>1. UNCHANGED streams
      BY <1>7, <2>3 DEF DrainDrop
    <3>2. \A x \in Reqs : Kept(x)
      <4>1. ASSUME NEW x \in Reqs  PROVE Kept(x)
        BY <3>1, SilentEffect
      <4>2. QED
        BY <4>1
    <3>3. \A x \in Reqs : PhaseOf(x)' = PhaseOf(x)
      BY <1>2, <2>1, <3>2, PhaseSame DEF Placed
    <3>4. QED
      BY <3>1, <3>3, NoStreamStep
  <2>4. QED
    BY <2>2, <2>3
<1>8. QED
  BY <1>4, <1>5, <1>6, <1>7

LEMMA StopKeeps ==
  ASSUME IInv, Progress, \/ ThreadDrain \/ EngineDestroy \/ EngineSignalShutdown
                         \/ (\E r \in Reqs : NotifyCallback(r)) \/ UNCHANGED vars
  PROVE  Keeping
<1> USE DEF thread, loading, asking, Goto
<1>1. /\ TypeOK /\ StreamsTypeOK /\ JoinedOK /\ RefsExact /\ ThreadOK /\ InflightOK
      /\ inflight \in Reqs \cup {None}
  BY DEF IInv, TypeOK, CallerTypeOK, Owners
<1>2. ASSUME \A x \in Reqs : Silent(x)' <=> Silent(x), UNCHANGED streams, post' = post,
             Closed => Closed'
      PROVE  Keeping
  <2>1. \A x \in Reqs : Kept(x)
    <3>1. ASSUME NEW x \in Reqs  PROVE Kept(x)
      BY <1>2, SilentEffect
    <3>2. QED
      BY <3>1
  <2>2. \A x \in Reqs : PhaseOf(x)' = PhaseOf(x)
    BY <1>2, <2>1, PhaseSame DEF Placed
  <2>3. QED
    BY <1>2, <2>2, NoStreamStep
<1>3. CASE ThreadDrain
  <2>1. shutdown' = shutdown /\ (Closed => Closed')
    <3>1. shutdown' = shutdown /\ pc \in {"drain", "STOP", "draining"} /\ pc' \in {"draining", "exited"}
      BY <1>3 DEF ThreadDrain, DrainTake, DrainTerminal, DrainDrop
    <3>2. QED
      BY <3>1 DEF Closed
  <2>2. CASE DrainTake \/ DrainTerminal \/ DrainDrop
    <3>1. /\ DrainTake \/ (Closed /\ pc' = pc)
          /\ pc \in {"drain", "STOP", "draining", "exited"} /\ pc' \in {"draining", "exited"}
      BY <1>3, <2>2 DEF ThreadDrain, Closed, DrainTerminal, DrainDrop
    <3>2. QED
      BY <2>1, <2>2, <3>1, DrainKeeps
  <2>3. CASE ~(DrainTake \/ DrainTerminal \/ DrainDrop)
    <3>1. /\ UNCHANGED streams /\ post' = post /\ pc = "draining" /\ pc' = "exited"
      BY <1>3, <2>3 DEF ThreadDrain
    <3>2. \A x \in Reqs : Silent(x)' <=> Silent(x)
      BY <3>1 DEF Silent
    <3>3. QED
      BY <1>2, <2>1, <3>1, <3>2
  <2>4. QED
    BY <2>2, <2>3
<1>4. CASE EngineDestroy
  <2>1. pc = "exited" /\ pc' = "exited" /\ cur' = cur
    BY <1>1, <1>4 DEF EngineDestroy, JoinedOK
  <2>2. Closed /\ Closed'
    BY <2>1 DEF Closed
  <2>3. CASE DrainTake \/ DrainTerminal \/ DrainDrop
    BY <2>1, <2>2, <2>3, DrainKeeps
  <2>4. CASE ~(DrainTake \/ DrainTerminal \/ DrainDrop)
    <3>1. UNCHANGED streams /\ post' = post
      BY <1>4, <2>4 DEF EngineDestroy
    <3>2. \A x \in Reqs : Silent(x)' <=> Silent(x)
      BY <2>1 DEF Silent
    <3>3. QED
      BY <1>2, <2>2, <3>1, <3>2
  <2>5. QED
    BY <2>3, <2>4
<1>5. CASE EngineSignalShutdown
  <2>1. /\ Woken /\ cur' = cur /\ post' = post /\ (shutdown => shutdown')
    BY <1>5 DEF EngineSignalShutdown, StoreShutdown, CancelInflight, Woken
  <2>2. (Closed => Closed') /\ \A x : Silent(x)' <=> Silent(x)
    BY <2>1 DEF Woken, Closed, Silent
  <2>3. \/ UNCHANGED streams
        \/ (inflight \in Reqs /\ StreamCancel(inflight) /\ shutdown' = shutdown)
    BY <1>1, <1>5 DEF EngineSignalShutdown, StoreShutdown, CancelInflight
  <2>4. CASE UNCHANGED streams
    BY <1>2, <2>1, <2>2, <2>4
  <2>5. CASE inflight \in Reqs /\ StreamCancel(inflight) /\ shutdown' = shutdown
    <3>1. PICK r \in Reqs : r = inflight
      BY <2>5
    <3>2. StreamCancel(r) /\ (Closed' <=> Closed)
      BY <2>1, <2>5, <3>1, WokenFacts
    <3>3. post[r] = "running"
      BY <1>1, <3>1, NoneAssumption DEF InflightOK, ThreadOK
    <3>4. refs[r] > 0
      BY <1>1, <3>3 DEF RefsExact
    <3>5. \A x \in Reqs : Kept(x)
      BY <3>2, SilentEffect
    <3>6. \A x \in Reqs : PhaseOf(x)' = PhaseOf(x)
      BY <2>1, <2>2, <3>5, PhaseSame DEF Placed
    <3>7. QED
      BY <3>2, <3>4, <3>6, ConsumeStep
  <2>6. QED
    BY <2>3, <2>4, <2>5
<1>6. ASSUME NEW r \in Reqs, NotifyCallback(r)  PROVE Keeping
  <2>1. Callback(r) /\ Woken /\ UNCHANGED <<cur, shutdown>> /\ post' = post
    BY <1>6 DEF NotifyCallback, Woken
  <2>2. \A x \in Reqs : Kept(x)
    BY <2>1, SilentEffect
  <2>3. (Closed' <=> Closed) /\ \A x : Silent(x)' <=> Silent(x)
    BY <2>1, WokenFacts
  <2>4. \A x \in Reqs : PhaseOf(x)' = PhaseOf(x)
    BY <2>1, <2>2, <2>3, PhaseSame DEF Placed
  <2>5. [x \in Reqs |-> PhaseOf(x)]' = [x \in Reqs |-> PhaseOf(x)]
    BY <2>4, PhasesStay
  <2>6. Closed' = Closed
    BY <2>3, Zenon DEF Closed
  <2>7. Contract!Notify(r)
    BY <2>1, <2>5, <2>6, SameStreams DEF Contract!Notify
  <2>8. QED
    BY <2>7 DEF Keeping, Contract!GNext, Contract!Produce
<1>7. CASE UNCHANGED vars
  <2>1. UNCHANGED streams /\ pc' = pc /\ cur' = cur /\ post' = post /\ shutdown' = shutdown
    BY <1>7 DEF vars
  <2>2. (Closed => Closed') /\ \A x \in Reqs : Silent(x)' <=> Silent(x)
    BY <2>1 DEF Closed, Silent
  <2>3. QED
    BY <1>2, <2>1, <2>2
<1>8. QED
  BY <1>3, <1>4, <1>5, <1>6, <1>7

LEMMA StepKeeps == IInv /\ Progress /\ QuietOK /\ [Next]_vars => Keeping
<1> SUFFICES ASSUME IInv, Progress, QuietOK, [Next]_vars PROVE Keeping
  OBVIOUS
<1>1. QED
  BY CallerKeeps, ThreadKeeps, GenerateKeeps, StopKeeps DEF Next, EngineThread

LEMMA InitKeeps == Init => Contract!GInit
<1> SUFFICES ASSUME Init PROVE Contract!GInit
  OBVIOUS
<1>1. \A x \in Reqs : post[x] = "none"
  BY DEF Init
<1>2. \A x \in Reqs : PhaseOf(x) = "none"
  BY <1>1, PhaseIs
<1>3. [x \in Reqs |-> PhaseOf(x)] = [x \in Reqs |-> "none"]
  BY <1>2, Zenon
<1>4. Closed = FALSE
  <2>1. shutdown = FALSE /\ pc = "loop"
    BY DEF Init
  <2>2. ~Closed
    BY <2>1 DEF Closed
  <2>3. QED
    BY <2>2, Zenon DEF Closed
<1>5. Contract!StreamsInit
  BY DEF Init, StreamsInit, Contract!StreamsInit
<1>6. QED
  BY <1>3, <1>4, <1>5 DEF Contract!GInit

(* The engine keeps the contract the HTTP side is written against: every   *)
(* step of every thread is, for the owner of a stream, a step GenStream    *)
(* allows, and the step that drops the engine's reference is the last one. *)
THEOREM EngineKeepsContract == Spec => KeepsContract
  BY InitKeeps, StepKeeps, Inductive, AlwaysProgress, AlwaysQuiet,
     PTL DEF Spec, KeepsContract, Contract!GSpec, Keeping
-----------------------------------------------------------------------------
(* Shutdown.  Where every command is, and who may still post or drain one. *)
In(s, cmd) == \E i \in 1..Len(s) : s[i] = cmd
Cmd(tag, r) == [tag |-> tag, arg |-> r]

StopperOK ==
    /\ stopper \in {"signalled", "draining", "done"} => mailbox_mtx = None
    /\ stopper \in {"draining", "done"} => mailbox = <<>>
    /\ \A l \in Loads : loader[l] = "locked" => mailbox_mtx = l
    /\ batch # <<>> => pc = "draining" \/ stopper = "draining"

QueuedOK(r) == post[r] = "queued" => In(mailbox, Cmd("GENERATE", r)) \/ In(batch, Cmd("GENERATE", r))
DrainedOK(r) == post[r] = "drained" => batch # <<>> /\ Head(batch) = Cmd("GENERATE", r)
ReclaimOK(r) == client[r] = "reclaim" => \/ In(mailbox, Cmd("RECLAIM", r)) \/ In(batch, Cmd("RECLAIM", r))
                                         \/ (pc = "RECLAIM" /\ cur = r)
AccountedOK == \A r \in Reqs : QueuedOK(r) /\ DrainedOK(r) /\ ReclaimOK(r)

LEMMA InAppend ==
  ASSUME NEW s \in Seq(Commands), NEW cmd \in Commands, NEW d
  PROVE  In(Append(s, cmd), d) <=> In(s, d) \/ d = cmd
<1>1. /\ Len(s) \in Nat /\ Len(Append(s, cmd)) = Len(s) + 1 /\ Append(s, cmd)[Len(s) + 1] = cmd
      /\ \A i \in 1..Len(s) : Append(s, cmd)[i] = s[i]
  BY AppendProperties, LenProperties
<1>2. 1..(Len(s) + 1) = (1..Len(s)) \cup {Len(s) + 1}
  BY <1>1
<1>3. QED
  BY <1>1, <1>2, Zenon DEF In

LEMMA InTail ==
  ASSUME NEW s \in Seq(Commands), s # <<>>, NEW d
  PROVE  In(s, d) <=> Head(s) = d \/ In(Tail(s), d)
<1>1. /\ Len(s) \in Nat \ {0} /\ Len(Tail(s)) = Len(s) - 1 /\ Head(s) = s[1]
      /\ \A i \in 1..Len(Tail(s)) : Tail(s)[i] = s[i + 1]
  BY HeadTailProperties, EmptySeq, LenProperties
<1>2. ASSUME In(s, d), Head(s) # d  PROVE In(Tail(s), d)
  <2>1. PICK i \in 1..Len(s) : s[i] = d
    BY <1>2 DEF In
  <2>2. i - 1 \in 1..Len(Tail(s)) /\ Tail(s)[i - 1] = s[i]
    BY <1>1, <1>2, <2>1
  <2>3. QED
    BY <2>1, <2>2 DEF In
<1>3. ASSUME In(Tail(s), d)  PROVE In(s, d)
  <2>1. PICK i \in 1..Len(Tail(s)) : Tail(s)[i] = d
    BY <1>3 DEF In
  <2>2. i + 1 \in 1..Len(s) /\ s[i + 1] = d
    BY <1>1, <2>1
  <2>3. QED
    BY <2>2 DEF In
<1>4. Head(s) = d => In(s, d)
  BY <1>1 DEF In
<1>5. QED
  BY <1>2, <1>3, <1>4

LEMMA InEmpty == \A d : ~In(<<>>, d)
  BY EmptySeq DEF In

LEMMA StopperStep == IInv /\ Progress /\ StopperOK /\ [Next]_vars => StopperOK'
<1> SUFFICES ASSUME IInv, Progress, StopperOK, [Next]_vars PROVE StopperOK'
  OBVIOUS
<1> USE DEF StopperOK, Goto, thread, loading, asking
<1>1. /\ (stopper # "idle" => shutdown) /\ JoinedOK /\ loader \in
           [Loads -> {"none", "refused", "locked", "waiting", "ok", "failed"}]
      /\ mailbox_mtx \in Loads \cup {None} /\ None \notin Loads
      /\ stopper \in {"idle", "stored", "signalled", "draining", "done"}
  BY NoneAssumption DEF IInv, TypeOK, LoadTypeOK, MailTypeOK, CallerTypeOK, Progress, StoredOK
<1>2. ASSUME UNCHANGED <<mailbox_mtx, loader, stopper, batch>>,
             mailbox' = mailbox \/ stopper \notin {"draining", "done"},
             pc = "draining" => pc' = pc
      PROVE  StopperOK'
  BY <1>2
<1>3. CASE Caller
  <2>1. pc = "draining" => pc' = pc
    BY <1>3 DEF Caller, NewRequest, EnginePost, RejectRelease, Take, Withdraw, DropStream,
                PostReclaim, PostLoad, PostLoadEnqueue, WaitLoad, PostMisc, Enqueue
  <2>2. UNCHANGED <<batch, stopper>>
    BY <1>3 DEF Caller, NewRequest, EnginePost, RejectRelease, Take, Withdraw, DropStream,
                PostReclaim, PostLoad, PostLoadEnqueue, WaitLoad, PostMisc
  <2>3. CASE UNCHANGED <<mailbox_mtx, loader>>
    <3>1. mailbox' = mailbox \/ ~shutdown
      <4>1. ASSUME NEW l \in Loads, PostLoadEnqueue(l)  PROVE FALSE
        BY <1>1, <2>3, <4>1 DEF PostLoadEnqueue
      <4>2. QED
        BY <1>3, <4>1 DEF Caller, NewRequest, EnginePost, RejectRelease, Take, Withdraw, DropStream,
                PostReclaim, PostLoad, WaitLoad, PostMisc
    <3>2. QED
      BY <1>1, <1>2, <2>1, <2>2, <2>3, <3>1
  <2>4. ASSUME NEW l \in Loads, PostLoad(l)  PROVE StopperOK'
    BY <1>1, <2>1, <2>2, <2>4 DEF PostLoad, Unlocked
  <2>5. ASSUME NEW l \in Loads, PostLoadEnqueue(l)  PROVE StopperOK'
    BY <1>1, <2>1, <2>2, <2>5 DEF PostLoadEnqueue
  <2>6. ASSUME NEW l \in Loads, WaitLoad(l)  PROVE StopperOK'
    BY <1>1, <2>1, <2>2, <2>6 DEF WaitLoad
  <2>7. ASSUME NEW r \in Reqs, \/ NewRequest(r) \/ EnginePost(r) \/ RejectRelease(r)
                               \/ Take(r) \/ Withdraw(r) \/ DropStream(r) \/ PostReclaim(r)
        PROVE  UNCHANGED <<mailbox_mtx, loader>>
    BY <2>7 DEF NewRequest, EnginePost, RejectRelease, Take, Withdraw, DropStream, PostReclaim
  <2>8. ASSUME NEW tag \in Misc, PostMisc(tag)  PROVE UNCHANGED <<mailbox_mtx, loader>>
    BY <2>8 DEF PostMisc
  <2>9. QED
    BY <1>3, <2>3, <2>4, <2>5, <2>6, <2>7, <2>8 DEF Caller
<1>4. CASE EngineThread /\ ~ThreadDrain
  <2>1. /\ UNCHANGED <<mailbox_mtx, loader, stopper, batch>> /\ pc \notin {"draining", "exited"}
    <3>1. CASE Generate
      <4>1. UNCHANGED <<mailbox_mtx, loader, stopper, batch>>
        BY <3>1 DEF Generate, SetInflight, CheckLoadState, Stub, StubPush, Real, Prefill, Seed, Decode,
           DecodePush, PushDone, Abort, FailError, FailDone, FailRefused, ClearInflight,
           GenerateRelease, Step, FailWith, DoneWith, Push, Generating
      <4>2. pc \notin {"draining", "exited"}
        BY <3>1 DEF Generate, SetInflight, CheckLoadState, Stub, StubPush, Real, Prefill, Seed, Decode,
           DecodePush, PushDone, Abort, FailError, FailDone, FailRefused, ClearInflight,
           GenerateRelease
      <4>3. QED
        BY <4>1, <4>2
    <3>2. QED
      BY <1>4, <3>1 DEF EngineThread, Loop, MailboxDequeue, HandleReclaim, HandleEmbed, HandleUnload,
         HandleLoad, LoadDone, LoadFailed
  <2>2. stopper \notin {"draining", "done"}
    BY <1>1, <2>1 DEF JoinedOK
  <2>3. QED
    BY <1>2, <2>1, <2>2
<1>5. CASE ThreadDrain
  <2>1. UNCHANGED <<mailbox_mtx, loader, stopper>> /\ stopper \notin {"draining", "done"}
    BY <1>1, <1>5 DEF ThreadDrain, DrainTake, DrainTerminal, DrainDrop, JoinedOK
  <2>2. batch' # <<>> => pc' = "draining"
    BY <1>5 DEF ThreadDrain
  <2>3. QED
    BY <2>1, <2>2
<1>6. CASE EngineDestroy
  <2>1. UNCHANGED <<mailbox_mtx, loader, pc>> /\ pc = "exited"
    BY <1>1, <1>6 DEF EngineDestroy, DrainTake, DrainTerminal, DrainDrop, JoinedOK
  <2>2. /\ stopper \in {"signalled", "draining"}
        /\ mailbox' = <<>> /\ (stopper' = "draining" \/ (stopper' = "done" /\ batch' = <<>>))
    BY <1>6 DEF EngineDestroy, DrainTake, DrainTerminal, DrainDrop
  <2>3. QED
    BY <2>1, <2>2
<1>7. CASE EngineSignalShutdown
  BY <1>1, <1>7 DEF EngineSignalShutdown, StoreShutdown, CancelInflight, Unlocked
<1>8. ASSUME NEW r \in Reqs, NotifyCallback(r)  PROVE StopperOK'
  BY <1>2, <1>8 DEF NotifyCallback
<1>9. CASE UNCHANGED vars
  BY <1>2, <1>9 DEF vars
<1>10. QED
  BY <1>3, <1>4, <1>5, <1>6, <1>7, <1>8, <1>9 DEF Next, EngineThread

LEMMA AccountedKept ==
  ASSUME AccountedOK, batch' = batch, \A d : In(mailbox, d) => In(mailbox', d),
         pc = "RECLAIM" => UNCHANGED <<pc, cur>>,
         \A x \in Reqs :
             /\ post'[x] = "queued" => post[x] = "queued" \/ In(mailbox', Cmd("GENERATE", x))
             /\ post'[x] = "drained" => post[x] = "drained"
             /\ client'[x] = "reclaim" => client[x] = "reclaim" \/ In(mailbox', Cmd("RECLAIM", x))
  PROVE  AccountedOK'
<1>1. ASSUME NEW x \in Reqs  PROVE QueuedOK(x)' /\ DrainedOK(x)' /\ ReclaimOK(x)'
  <2>1. QueuedOK(x) /\ DrainedOK(x) /\ ReclaimOK(x)
    BY DEF AccountedOK
  <2>2. QueuedOK(x)'
    BY <2>1 DEF QueuedOK, In, Cmd
  <2>3. DrainedOK(x)'
    BY <2>1 DEF DrainedOK, Cmd
  <2>4. ReclaimOK(x)'
    BY <2>1 DEF ReclaimOK, In, Cmd
  <2>5. QED
    BY <2>2, <2>3, <2>4
<1>2. QED
  BY <1>1 DEF AccountedOK

LEMMA CallerAccounts ==
  ASSUME IInv, AccountedOK, Caller
  PROVE  AccountedOK'
<1> USE DEF thread, loading, asking
<1>1. /\ mailbox \in Seq(Commands)
      /\ post \in [Reqs -> {"none", "new", "queued", "running", "drained", "reject", "released"}]
      /\ client \in [Reqs -> {"none", "hold", "reclaim", "dropped"}]
  BY DEF IInv, TypeOK, MailTypeOK, CallerTypeOK
<1>2. batch' = batch /\ cur' = cur /\ (pc = "RECLAIM" => pc' = pc)
  BY DEF Caller, NewRequest, EnginePost, RejectRelease, Take, Withdraw, DropStream,
                PostReclaim, PostLoad, PostLoadEnqueue, WaitLoad, PostMisc, Enqueue
<1>3. ASSUME mailbox' = mailbox, NEW r \in Reqs, \A x \in Reqs \ {r} : post'[x] = post[x] /\ client'[x] = client[x],
             post'[r] \in {"queued", "drained"} => post'[r] = post[r],
             client'[r] = "reclaim" => client[r] = "reclaim"
      PROVE  AccountedOK'
  BY <1>2, <1>3, AccountedKept
<1>4. ASSUME NEW cmd \in Commands, mailbox' = Append(mailbox, cmd),
             \A x \in Reqs :
                /\ post'[x] = post[x] \/ (post'[x] = "queued" /\ cmd = Cmd("GENERATE", x))
                /\ client'[x] = client[x] \/ (client'[x] = "reclaim" /\ cmd = Cmd("RECLAIM", x))
      PROVE  AccountedOK'
  <2>1. \A d : In(mailbox', d) <=> In(mailbox, d) \/ d = cmd
    <3>1. ASSUME NEW d  PROVE In(Append(mailbox, cmd), d) <=> In(mailbox, d) \/ d = cmd
      BY <1>1, InAppend
    <3>2. QED
      BY <1>4, <3>1
  <2>2. QED
    BY <1>2, <1>4, <2>1, AccountedKept
<1>5. ASSUME NEW r \in Reqs, NewRequest(r) \/ RejectRelease(r) \/ Take(r) \/ Withdraw(r) \/ DropStream(r)
      PROVE  AccountedOK'
  BY <1>1, <1>3, <1>5 DEF NewRequest, RejectRelease, Take, Withdraw, DropStream
<1>6. ASSUME NEW r \in Reqs, EnginePost(r)  PROVE AccountedOK'
  <2>1. CASE shutdown
    BY <1>1, <1>3, <1>6, <2>1 DEF EnginePost
  <2>2. CASE ~shutdown
    <3>1. /\ mailbox' = Append(mailbox, Cmd("GENERATE", r)) /\ client' = client
          /\ post' = [post EXCEPT ![r] = "queued"]
      BY <1>6, <2>2 DEF EnginePost, Enqueue, Cmd
    <3>2. Cmd("GENERATE", r) \in Commands
      BY DEF Cmd, Commands
    <3>3. QED
      BY <1>1, <1>4, <3>1, <3>2
  <2>3. QED
    BY <2>1, <2>2
<1>7. ASSUME NEW r \in Reqs, PostReclaim(r)  PROVE AccountedOK'
  <2>1. CASE shutdown
    BY <1>1, <1>3, <1>7, <2>1 DEF PostReclaim
  <2>2. CASE ~shutdown
    <3>1. /\ mailbox' = Append(mailbox, Cmd("RECLAIM", r)) /\ post' = post
          /\ client' = [client EXCEPT ![r] = "reclaim"]
      BY <1>7, <2>2 DEF PostReclaim, Enqueue, Cmd
    <3>2. Cmd("RECLAIM", r) \in Commands
      BY DEF Cmd, Commands
    <3>3. QED
      BY <1>1, <1>4, <3>1, <3>2
  <2>3. QED
    BY <2>1, <2>2
<1>8. ASSUME \/ \E l \in Loads : PostLoad(l) \/ PostLoadEnqueue(l) \/ WaitLoad(l)
             \/ \E tag \in Misc : PostMisc(tag)
      PROVE  AccountedOK'
  <2>1. post' = post /\ client' = client
    BY <1>8 DEF PostLoad, PostLoadEnqueue, WaitLoad, PostMisc
  <2>2. mailbox' = mailbox \/ \E cmd \in Commands : mailbox' = Append(mailbox, cmd)
    <3>1. ASSUME NEW l \in Loads, PostLoad(l) \/ WaitLoad(l)  PROVE mailbox' = mailbox
      BY <3>1 DEF PostLoad, WaitLoad
    <3>2. ASSUME NEW l \in Loads, PostLoadEnqueue(l)
          PROVE  \E cmd \in Commands : mailbox' = Append(mailbox, cmd)
      BY <3>2 DEF PostLoadEnqueue, Enqueue, Commands
    <3>3. ASSUME NEW tag \in Misc, PostMisc(tag)
          PROVE  mailbox' = mailbox \/ \E cmd \in Commands : mailbox' = Append(mailbox, cmd)
      <4>1. tag \in {"UNLOAD", "EMBED", "STOP"}
        BY <3>3, MiscAssumption DEF PostMisc
      <4>2. [tag |-> tag, arg |-> None] \in Commands
        BY <4>1 DEF Commands
      <4>3. QED
        BY <3>3, <4>2 DEF PostMisc, Enqueue
    <3>4. QED
      BY <1>8, <3>1, <3>2, <3>3
  <2>3. CASE mailbox' = mailbox
    BY <1>2, <2>1, <2>3, AccountedKept
  <2>4. CASE \E cmd \in Commands : mailbox' = Append(mailbox, cmd)
    BY <1>4, <2>1, <2>4
  <2>5. QED
    BY <2>2, <2>3, <2>4
<1>9. QED
  BY <1>5, <1>6, <1>7, <1>8 DEF Caller

LEMMA ThreadAccounts ==
  ASSUME IInv, AccountedOK, EngineThread, ~ThreadDrain
  PROVE  AccountedOK'
<1> USE DEF thread, loading, asking, Goto
<1>1. /\ mailbox \in Seq(Commands)
      /\ post \in [Reqs -> {"none", "new", "queued", "running", "drained", "reject", "released"}]
      /\ client \in [Reqs -> {"none", "hold", "reclaim", "dropped"}]
      /\ pc = "RECLAIM" => cur \in Reqs
      /\ pc \in GenerateLabels => cur \in Reqs
  BY DEF IInv, TypeOK, MailTypeOK, CallerTypeOK, ThreadTypeOK
<1>2. CASE HandleReclaim
  <2>1. PICK r \in Reqs : r = cur
    BY <1>1, <1>2 DEF HandleReclaim
  <2>2. /\ UNCHANGED <<mailbox, batch, post>> /\ client' = [client EXCEPT ![r] = "dropped"]
    BY <1>2, <2>1 DEF HandleReclaim
  <2>3. ASSUME NEW x \in Reqs  PROVE QueuedOK(x)' /\ DrainedOK(x)' /\ ReclaimOK(x)'
    <3>1. QueuedOK(x) /\ DrainedOK(x) /\ ReclaimOK(x)
      BY DEF AccountedOK
    <3>2. QueuedOK(x)' /\ DrainedOK(x)'
      BY <2>2, <3>1 DEF QueuedOK, DrainedOK, In, Cmd
    <3>3. ReclaimOK(x)'
      BY <1>1, <2>1, <2>2, <3>1 DEF ReclaimOK, In, Cmd
    <3>4. QED
      BY <3>2, <3>3
  <2>4. QED
    BY <2>3 DEF AccountedOK
<1>3. CASE MailboxDequeue /\ mailbox # <<>>
  <2> DEFINE cmd == Head(mailbox)
  <2>1. /\ pc = "dequeue" /\ pc' = cmd.tag /\ cur' = cmd.arg /\ mailbox' = Tail(mailbox)
        /\ post' = (IF cmd.tag = "GENERATE" THEN [post EXCEPT ![cmd.arg] = "running"] ELSE post)
        /\ UNCHANGED <<batch, client>>
    BY <1>3 DEF MailboxDequeue
  <2>2. \A d : In(mailbox, d) <=> cmd = d \/ In(mailbox', d)
    <3>1. ASSUME NEW d  PROVE In(mailbox, d) <=> cmd = d \/ In(Tail(mailbox), d)
      BY <1>1, <1>3, InTail
    <3>2. QED
      BY <2>1, <3>1
  <2>3. \A tag, x : cmd = Cmd(tag, x) => cmd.tag = tag /\ cmd.arg = x
    BY DEF Cmd
  <2> HIDE DEF cmd
  <2>4. ASSUME NEW x \in Reqs  PROVE QueuedOK(x)' /\ DrainedOK(x)' /\ ReclaimOK(x)'
    <3>1. QueuedOK(x) /\ DrainedOK(x) /\ ReclaimOK(x)
      BY DEF AccountedOK
    <3>2. /\ post'[x] = "queued" => post[x] = "queued" /\ cmd # Cmd("GENERATE", x)
          /\ post'[x] = "drained" => post[x] = "drained"
      BY <1>1, <2>1, <2>3
    <3>3. QueuedOK(x)'
      BY <2>1, <2>2, <3>1, <3>2 DEF QueuedOK, In, Cmd
    <3>4. DrainedOK(x)'
      BY <2>1, <3>1, <3>2 DEF DrainedOK, Cmd
    <3>5. ReclaimOK(x)'
      <4>1. \/ client[x] # "reclaim" \/ In(mailbox, Cmd("RECLAIM", x)) \/ In(batch, Cmd("RECLAIM", x))
        BY <2>1, <3>1 DEF ReclaimOK
      <4>2. CASE cmd = Cmd("RECLAIM", x)
        BY <2>1, <2>3, <4>2 DEF ReclaimOK
      <4>3. CASE cmd # Cmd("RECLAIM", x)
        BY <2>1, <2>2, <4>1, <4>3 DEF ReclaimOK, In, Cmd
      <4>4. QED
        BY <4>2, <4>3
    <3>6. QED
      BY <3>3, <3>4, <3>5
  <2>5. QED
    BY <2>4 DEF AccountedOK
<1>4. CASE ~HandleReclaim /\ ~(MailboxDequeue /\ mailbox # <<>>)
  <2>1. UNCHANGED <<mailbox, batch, client>> /\ (post' = post \/ GenerateRelease)
    <3>1. CASE Generate
      BY <3>1 DEF Generate, SetInflight, CheckLoadState, Stub, StubPush, Real, Prefill, Seed, Decode,
           DecodePush, PushDone, Abort, FailError, FailDone, FailRefused, ClearInflight,
           GenerateRelease, Step, FailWith, DoneWith, Push, Generating
    <3>2. QED
      BY <1>4, <3>1 DEF EngineThread, Loop, MailboxDequeue, HandleEmbed, HandleUnload,
         HandleLoad, LoadDone, LoadFailed
  <2>2. pc # "RECLAIM"
    <3>1. CASE Generate
      BY <3>1 DEF Generate, SetInflight, CheckLoadState, Stub, StubPush, Real, Prefill, Seed, Decode,
           DecodePush, PushDone, Abort, FailError, FailDone, FailRefused, ClearInflight,
           GenerateRelease
    <3>2. QED
      BY <1>4, <3>1 DEF EngineThread, Loop, MailboxDequeue, HandleEmbed, HandleUnload,
         HandleLoad, LoadDone, LoadFailed
  <2>3. \A x \in Reqs : post'[x] \in {"queued", "drained"} => post'[x] = post[x]
    <3>1. CASE GenerateRelease
      <4>1. PICK r \in Reqs : r = cur
        BY <1>1, <3>1 DEF GenerateRelease, GenerateLabels
      <4>2. post' = [post EXCEPT ![r] = "released"]
        BY <3>1, <4>1 DEF GenerateRelease
      <4>3. QED
        BY <1>1, <4>2
    <3>2. QED
      BY <2>1, <3>1
  <2>4. QED
    BY <2>1, <2>2, <2>3, AccountedKept
<1>5. QED
  BY <1>2, <1>3, <1>4

LEMMA DrainAccounts ==
  ASSUME IInv, AccountedOK, pc # "RECLAIM",
         (DrainTake /\ batch = <<>>) \/ DrainTerminal \/ DrainDrop
  PROVE  AccountedOK'
<1> USE DEF asking
<1>1. /\ batch \in Seq(Commands)
      /\ post \in [Reqs -> {"none", "new", "queued", "running", "drained", "reject", "released"}]
      /\ client \in [Reqs -> {"none", "hold", "reclaim", "dropped"}]
  BY DEF IInv, TypeOK, MailTypeOK, CallerTypeOK
<1>2. \A tag, x : Cmd(tag, x).tag = tag /\ Cmd(tag, x).arg = x
  BY DEF Cmd
<1>3. ASSUME NEW x \in Reqs, DrainTake, batch = <<>>  PROVE QueuedOK(x)' /\ DrainedOK(x)' /\ ReclaimOK(x)'
  <2>1. QueuedOK(x) /\ DrainedOK(x) /\ ReclaimOK(x)
    BY DEF AccountedOK
  <2>2. batch' = mailbox /\ batch = <<>> /\ UNCHANGED <<post, client>>
    BY <1>3 DEF DrainTake
  <2>3. \A d : ~In(batch, d)
    BY <2>2, InEmpty
  <2>4. QueuedOK(x)'
    BY <2>1, <2>2, <2>3 DEF QueuedOK, In, Cmd
  <2>5. DrainedOK(x)'
    BY <2>1, <2>2 DEF DrainedOK
  <2>6. ReclaimOK(x)'
    BY <2>1, <2>2, <2>3 DEF ReclaimOK, In, Cmd
  <2>7. QED
    BY <2>4, <2>5, <2>6
<1>4. ASSUME NEW x \in Reqs, DrainTerminal  PROVE QueuedOK(x)' /\ DrainedOK(x)' /\ ReclaimOK(x)'
  <2>1. QueuedOK(x) /\ DrainedOK(x) /\ ReclaimOK(x)
    BY DEF AccountedOK
  <2>2. PICK r \in Reqs : r = Head(batch).arg
    BY <1>4, HeadOfBatch DEF DrainTerminal
  <2>3. /\ batch # <<>> /\ UNCHANGED <<mailbox, batch, client>>
        /\ Head(batch) = Cmd("GENERATE", r) /\ post[r] = "queued"
        /\ post' = [post EXCEPT ![r] = "drained"]
    <3>1. Head(batch) \in Commands
      BY <1>4, HeadOfBatch DEF DrainTerminal
    <3>2. QED
      BY <1>4, <2>2, <3>1 DEF DrainTerminal, Commands, Cmd
  <2>4. QueuedOK(x)'
    BY <1>1, <2>1, <2>3 DEF QueuedOK, In, Cmd
  <2>5. DrainedOK(x)'
    BY <1>1, <2>1, <2>3 DEF DrainedOK, Cmd
  <2>6. ReclaimOK(x)'
    BY <2>1, <2>3 DEF ReclaimOK, In, Cmd
  <2>7. QED
    BY <2>4, <2>5, <2>6
<1>5. ASSUME NEW x \in Reqs, DrainDrop  PROVE QueuedOK(x)' /\ DrainedOK(x)' /\ ReclaimOK(x)'
  <2>1. QueuedOK(x) /\ DrainedOK(x) /\ ReclaimOK(x)
    BY DEF AccountedOK
  <2> DEFINE cmd == Head(batch)
  <2>2. /\ batch # <<>> /\ batch' = Tail(batch) /\ mailbox' = mailbox
        /\ \/ cmd.tag = "GENERATE" /\ post[cmd.arg] = "drained"
              /\ post' = [post EXCEPT ![cmd.arg] = "released"] /\ client' = client
           \/ cmd.tag = "RECLAIM" /\ client' = [client EXCEPT ![cmd.arg] = "dropped"] /\ post' = post
           \/ cmd.tag \notin {"GENERATE", "RECLAIM"} /\ UNCHANGED <<post, client>>
    BY <1>5 DEF DrainDrop
  <2>3. \A d : In(batch, d) <=> cmd = d \/ In(batch', d)
    <3>1. ASSUME NEW d  PROVE In(batch, d) <=> cmd = d \/ In(Tail(batch), d)
      BY <1>1, <2>2, InTail
    <3>2. QED
      BY <2>2, <3>1
  <2> HIDE DEF cmd
  <2>4. QueuedOK(x)'
    <3>1. post'[x] = "queued" => post[x] = "queued" /\ cmd # Cmd("GENERATE", x)
      <4>1. ASSUME post[x] = "queued"  PROVE cmd # Cmd("GENERATE", x)
        BY <1>2, <2>2, <4>1
      <4>2. QED
        BY <1>1, <2>2, <4>1
    <3>2. QED
      BY <2>1, <2>2, <2>3, <3>1 DEF QueuedOK, In, Cmd
  <2>5. DrainedOK(x)'
    <3>1. ASSUME post[x] = "drained"  PROVE post'[x] = "released"
      <4>1. cmd = Cmd("GENERATE", x)
        BY <2>1, <3>1 DEF DrainedOK, cmd
      <4>2. QED
        BY <1>1, <1>2, <2>2, <4>1
    <3>2. post[x] # "drained" => post'[x] # "drained"
      BY <1>1, <2>2
    <3>3. QED
      BY <3>1, <3>2 DEF DrainedOK
  <2>6. ReclaimOK(x)'
    <3>1. client'[x] = "reclaim" => client[x] = "reclaim" /\ cmd # Cmd("RECLAIM", x)
      <4>1. ASSUME cmd = Cmd("RECLAIM", x)  PROVE client'[x] # "reclaim"
        BY <1>1, <1>2, <2>2, <4>1
      <4>2. QED
        BY <1>1, <2>2, <4>1
    <3>2. QED
      BY <2>1, <2>2, <2>3, <3>1 DEF ReclaimOK, In, Cmd
  <2>7. QED
    BY <2>4, <2>5, <2>6
<1>6. QED
  BY <1>3, <1>4, <1>5 DEF AccountedOK

LEMMA StopAccounts ==
  ASSUME IInv, StopperOK, AccountedOK,
         \/ ThreadDrain \/ EngineDestroy \/ EngineSignalShutdown
         \/ (\E r \in Reqs : NotifyCallback(r)) \/ UNCHANGED vars
  PROVE  AccountedOK'
<1> USE DEF thread, loading, asking, Goto
<1>1. CASE UNCHANGED <<mailbox, batch, post, client>> /\ (pc = "RECLAIM" => UNCHANGED <<pc, cur>>)
  BY <1>1, AccountedKept
<1>2. CASE ThreadDrain
  <2>1. pc # "RECLAIM"
    BY <1>2 DEF ThreadDrain
  <2>2. CASE pc \in {"drain", "STOP"} /\ DrainTake
    <3>1. batch = <<>>
      BY <2>2 DEF StopperOK, IInv, JoinedOK
    <3>2. QED
      BY <2>1, <2>2, <3>1, DrainAccounts
  <2>3. CASE DrainTerminal \/ DrainDrop
    BY <2>1, <2>3, DrainAccounts
  <2>4. CASE UNCHANGED <<mailbox, batch, post, client>>
    BY <1>1, <2>1, <2>4
  <2>5. QED
    BY <1>2, <2>2, <2>3, <2>4 DEF ThreadDrain
<1>3. CASE EngineDestroy
  <2>1. pc = "exited" /\ pc # "RECLAIM"
    BY <1>3 DEF EngineDestroy, IInv, JoinedOK
  <2>2. CASE stopper = "signalled" /\ DrainTake
    <3>1. batch = <<>>
      BY <2>1, <2>2 DEF StopperOK
    <3>2. QED
      BY <2>1, <2>2, <3>1, DrainAccounts
  <2>3. CASE DrainTerminal \/ DrainDrop
    BY <2>1, <2>3, DrainAccounts
  <2>4. CASE UNCHANGED <<mailbox, batch, post, client>>
    BY <1>1, <2>1, <2>4
  <2>5. QED
    BY <1>3, <2>2, <2>3, <2>4 DEF EngineDestroy
<1>4. CASE EngineSignalShutdown
  BY <1>1, <1>4 DEF EngineSignalShutdown, StoreShutdown, CancelInflight
<1>5. ASSUME NEW r \in Reqs, NotifyCallback(r)  PROVE AccountedOK'
  BY <1>1, <1>5 DEF NotifyCallback
<1>6. CASE UNCHANGED vars
  BY <1>1, <1>6 DEF vars
<1>7. QED
  BY <1>2, <1>3, <1>4, <1>5, <1>6

LEMMA AlwaysAccounted == Spec => [](StopperOK /\ AccountedOK)
<1>1. Init => StopperOK /\ AccountedOK
  BY DEF Init, StopperOK, AccountedOK, QueuedOK, DrainedOK, ReclaimOK
<1>2. IInv /\ Progress /\ StopperOK /\ AccountedOK /\ [Next]_vars => StopperOK' /\ AccountedOK'
  <2> SUFFICES ASSUME IInv, Progress, StopperOK, AccountedOK, [Next]_vars
               PROVE  StopperOK' /\ AccountedOK'
    OBVIOUS
  <2>1. StopperOK'
    BY StopperStep
  <2>2. AccountedOK'
    BY CallerAccounts, ThreadAccounts, StopAccounts DEF Next, EngineThread
  <2>3. QED
    BY <2>1, <2>2
<1>3. QED
  BY <1>1, <1>2, Inductive, AlwaysProgress, PTL DEF Spec

(* engine_destroy leaves no command behind, in the mailbox or in a drain,  *)
(* that would hold a stream: whatever was posted before the shutdown, and  *)
(* whoever was still posting while it went through, each command has been  *)
(* handled, cancelled or refused.                                          *)
THEOREM DestroyLeavesNothing == Spec => []DestroyedClean
<1>1. IInv /\ Progress /\ StopperOK /\ AccountedOK => DestroyedClean
  <2> SUFFICES ASSUME IInv, Progress, StopperOK, AccountedOK, stopper = "done"
               PROVE  /\ mailbox = <<>> /\ batch = <<>> /\ inflight = None
                      /\ \A r \in Reqs : post[r] \in {"none", "new", "reject", "released"}
                      /\ \A r \in Reqs : client[r] # "reclaim"
    BY DEF DestroyedClean
  <2>1. pc = "exited" /\ mailbox = <<>> /\ batch = <<>>
    BY DEF IInv, JoinedOK, StopperOK
  <2>2. inflight = None
    BY <2>1 DEF IInv, Owners, InflightOK, GenerateLabels, StubLabels, RealLabels
  <2>3. ASSUME NEW r \in Reqs
        PROVE  post[r] \in {"none", "new", "reject", "released"} /\ client[r] # "reclaim"
    <3>1. QueuedOK(r) /\ DrainedOK(r) /\ ReclaimOK(r) /\ RequestOK(r)
      BY DEF AccountedOK, Progress
    <3>2. post[r] # "running"
      BY <2>1, <3>1 DEF RequestOK, RunningOK, GenerateLabels, StubLabels, RealLabels
    <3>3. post[r] \notin {"queued", "drained"} /\ client[r] # "reclaim"
      BY <2>1, <3>1, InEmpty DEF QueuedOK, DrainedOK, ReclaimOK
    <3>4. post[r] \in {"none", "new", "queued", "running", "drained", "reject", "released"}
      BY DEF IInv, TypeOK, CallerTypeOK
    <3>5. QED
      BY <3>2, <3>3, <3>4
  <2>4. QED
    BY <2>1, <2>2, <2>3
<1>2. QED
  BY <1>1, Inductive, AlwaysProgress, AlwaysAccounted, PTL
-----------------------------------------------------------------------------
(* Loads in turn.  What the load state says of the load that is waited     *)
(* for, and that the command of a load is handled once.                    *)
Handling(l) == In(mailbox, [tag |-> "LOAD", arg |-> l]) \/ (pc \in LoadLabels /\ cur = l)
NoLoadIn(s) == \A i \in 1..Len(s) : s[i].tag # "LOAD"
OneLoadIn(s) == \A i, j \in 1..Len(s) : s[i].tag = "LOAD" /\ s[j].tag = "LOAD" => i = j
QueueOK == OneLoadIn(mailbox) /\ (pc \in LoadLabels => NoLoadIn(mailbox))
OneWaits == \A a, b \in Loads : ~Told(a) /\ ~Told(b) => a = b
PostedOK ==
    \A l \in Loads : /\ Handling(l) => loader[l] = "waiting" /\ l \notin handled
                     /\ l \in handled => loader[l] \in {"waiting", "ok", "failed"}
StateOK ==
    /\ \A l \in Loads : loader[l] = "waiting" =>
          /\ load_state = "OK" => l \in handled /\ path[l] # "bad"
          /\ load_state = "FAILED" => l \in handled /\ path[l] = "bad"
    /\ load_state = "FAILED" /\ Unlocked => load_error
    /\ pc = "load failed" => load_error /\ path[cur] = "bad"
ToldOK ==
    \A l \in Loads : /\ loader[l] = "ok" => l \in handled /\ path[l] # "bad"
                     /\ loader[l] = "failed" => l \in handled /\ path[l] = "bad"
LoadsOK == QueueOK /\ OneWaits /\ PostedOK /\ StateOK /\ ToldOK

LEMMA LoadsAppend ==
  ASSUME NEW s \in Seq(Commands), NEW cmd \in Commands
  PROVE  /\ cmd.tag # "LOAD" /\ NoLoadIn(s) => NoLoadIn(Append(s, cmd))
         /\ cmd.tag # "LOAD" /\ OneLoadIn(s) => OneLoadIn(Append(s, cmd))
         /\ NoLoadIn(s) => OneLoadIn(Append(s, cmd))
<1> DEFINE n == Len(s)
           t == Append(s, cmd)
<1>1. /\ n \in Nat /\ Len(t) = n + 1 /\ t[n + 1] = cmd
      /\ \A i \in 1..n : t[i] = s[i]
  BY AppendProperties, LenProperties
<1>2. 1..(n + 1) = (1..n) \cup {n + 1}
  BY <1>1
<1> HIDE DEF n, t
<1>3. \A i \in 1..Len(t) : (i \in 1..n /\ t[i] = s[i]) \/ (i = n + 1 /\ t[i] = cmd)
  BY <1>1, <1>2
<1>4. QED
  BY <1>3 DEF NoLoadIn, OneLoadIn, n, t

LEMMA LoadsTail ==
  ASSUME NEW s \in Seq(Commands), s # <<>>, OneLoadIn(s)
  PROVE  /\ OneLoadIn(Tail(s))
         /\ NoLoadIn(s) => NoLoadIn(Tail(s))
         /\ Head(s).tag = "LOAD" => NoLoadIn(Tail(s))
<1> DEFINE n == Len(s)
           t == Tail(s)
<1>1. /\ n \in Nat \ {0} /\ Len(t) = n - 1 /\ Head(s) = s[1]
      /\ \A i \in 1..Len(t) : t[i] = s[i + 1]
  BY HeadTailProperties, EmptySeq, LenProperties
<1> HIDE DEF n, t
<1>2. 1 \in 1..n /\ \A i \in 1..Len(t) : i \in Int /\ i + 1 \in 1..n /\ i + 1 # 1
  BY <1>1
<1>3. \A i, j \in 1..n : s[i].tag = "LOAD" /\ s[j].tag = "LOAD" => i = j
  BY DEF OneLoadIn, n
<1>4. OneLoadIn(t)
  <2> SUFFICES ASSUME NEW i \in 1..Len(t), NEW j \in 1..Len(t), t[i].tag = "LOAD", t[j].tag = "LOAD"
               PROVE  i = j
    BY DEF OneLoadIn
  <2>1. i + 1 = j + 1
    BY <1>1, <1>2, <1>3
  <2>2. QED
    BY <1>2, <2>1
<1>5. NoLoadIn(s) => NoLoadIn(t)
  BY <1>1, <1>2 DEF NoLoadIn, n
<1>6. Head(s).tag = "LOAD" => NoLoadIn(t)
  BY <1>1, <1>2, <1>3 DEF NoLoadIn
<1>7. QED
  BY <1>4, <1>5, <1>6 DEF t

LEMMA LoadsEmpty == NoLoadIn(<<>>) /\ OneLoadIn(<<>>)
  BY EmptySeq DEF NoLoadIn, OneLoadIn

LEMMA NoneQueued ==
  ASSUME NEW s \in Seq(Commands), \A l \in Loads : ~In(s, [tag |-> "LOAD", arg |-> l])
  PROVE  NoLoadIn(s)
<1> SUFFICES ASSUME NEW i \in 1..Len(s), s[i].tag = "LOAD" PROVE FALSE
  BY DEF NoLoadIn
<1>1. s[i] \in Commands
  BY ElementOfSeq
<1>2. PICK l \in Loads : s[i] = [tag |-> "LOAD", arg |-> l]
  BY <1>1 DEF Commands
<1>3. QED
  BY <1>2 DEF In

(* A step that neither handles a load nor tells its poster anything.       *)
LEMMA LoadsKept ==
  ASSUME LoadsOK, QueueOK',
         UNCHANGED <<load_state, load_error, path, loader, handled, mailbox_mtx>>,
         \A l \in Loads : Handling(l)' => Handling(l),
         pc' = "load failed" => pc = "load failed" /\ cur' = cur
  PROVE  LoadsOK'
<1>1. OneWaits'
  BY DEF LoadsOK, OneWaits, Told
<1>2. PostedOK'
  BY DEF LoadsOK, PostedOK
<1>3. StateOK'
  BY DEF LoadsOK, StateOK, Unlocked
<1>4. ToldOK'
  BY DEF LoadsOK, ToldOK
<1>5. QED
  BY <1>1, <1>2, <1>3, <1>4 DEF LoadsOK

LEMMA CallerLoads ==
  ASSUME IInv, LoadsOK, Caller, InTurn
  PROVE  LoadsOK'
<1> USE DEF thread, asking
<1>1. /\ mailbox \in Seq(Commands)
      /\ loader \in [Loads -> {"none", "refused", "locked", "waiting", "ok", "failed"}]
      /\ handled \subseteq Loads
  BY DEF IInv, TypeOK, MailTypeOK, LoadTypeOK
<1>2. /\ cur' = cur /\ (pc \in LoadLabels \/ pc' \in LoadLabels => pc' = pc)
  BY DEF Caller, NewRequest, EnginePost, RejectRelease, Take, Withdraw, DropStream,
         PostReclaim, PostLoad, PostLoadEnqueue, WaitLoad, PostMisc, Enqueue, LoadLabels
<1>3. "load failed" \in LoadLabels
  BY DEF LoadLabels
<1>4. ASSUME NEW cmd \in Commands, mailbox' = Append(mailbox, cmd)
      PROVE  \A d : In(mailbox', d) <=> In(mailbox, d) \/ d = cmd
  <2>1. ASSUME NEW d  PROVE In(Append(mailbox, cmd), d) <=> In(mailbox, d) \/ d = cmd
    BY <1>1, InAppend
  <2>2. QED
    BY <1>4, <2>1
<1>5. ASSUME mailbox' = mailbox  PROVE QueueOK' /\ \A l \in Loads : Handling(l)' => Handling(l)
  BY <1>2, <1>5 DEF LoadsOK, QueueOK, Handling, In
<1>6. ASSUME UNCHANGED loading, mailbox_mtx' = mailbox_mtx,
             mailbox' = mailbox \/ (\E cmd \in Commands : cmd.tag # "LOAD" /\ mailbox' = Append(mailbox, cmd))
      PROVE  LoadsOK'
  <2>1. QueueOK' /\ \A l \in Loads : Handling(l)' => Handling(l)
    <3>1. CASE mailbox' = mailbox
      BY <1>5, <3>1
    <3>2. ASSUME NEW cmd \in Commands, cmd.tag # "LOAD", mailbox' = Append(mailbox, cmd)
          PROVE  QueueOK' /\ \A l \in Loads : Handling(l)' => Handling(l)
      <4>1. \A l : [tag |-> "LOAD", arg |-> l] # cmd
        BY <3>2
      <4>2. \A l \in Loads : In(mailbox', [tag |-> "LOAD", arg |-> l])
                                <=> In(mailbox, [tag |-> "LOAD", arg |-> l])
        BY <1>4, <3>2, <4>1
      <4>3. OneLoadIn(mailbox') /\ (NoLoadIn(mailbox) => NoLoadIn(mailbox'))
        <5>1. OneLoadIn(mailbox)
          BY DEF LoadsOK, QueueOK
        <5>2. QED
          BY <1>1, <3>2, <5>1, LoadsAppend
      <4>4. QueueOK'
        BY <1>2, <4>3 DEF LoadsOK, QueueOK
      <4>5. QED
        BY <1>2, <4>2, <4>4 DEF Handling, In
    <3>3. QED
      BY <1>6, <3>1, <3>2
  <2>2. UNCHANGED <<load_state, load_error, path, loader, handled, mailbox_mtx>>
    BY <1>6 DEF loading
  <2>3. QED
    BY <1>2, <1>3, <2>1, <2>2, LoadsKept
<1>7. ASSUME NEW r \in Reqs, \/ NewRequest(r) \/ EnginePost(r) \/ RejectRelease(r)
                             \/ Take(r) \/ Withdraw(r) \/ DropStream(r) \/ PostReclaim(r)
      PROVE  LoadsOK'
  <2>1. UNCHANGED loading /\ mailbox_mtx' = mailbox_mtx
    BY <1>7 DEF NewRequest, EnginePost, RejectRelease, Take, Withdraw, DropStream, PostReclaim
  <2>2. /\ [tag |-> "GENERATE", arg |-> r] \in Commands
        /\ [tag |-> "RECLAIM", arg |-> r] \in Commands
    BY DEF Commands
  <2>3. \/ mailbox' = mailbox
        \/ mailbox' = Append(mailbox, [tag |-> "GENERATE", arg |-> r])
        \/ mailbox' = Append(mailbox, [tag |-> "RECLAIM", arg |-> r])
    BY <1>7 DEF NewRequest, EnginePost, RejectRelease, Take, Withdraw, DropStream, PostReclaim, Enqueue
  <2>4. QED
    BY <1>6, <2>1, <2>2, <2>3
<1>8. ASSUME NEW tag \in Misc, PostMisc(tag)  PROVE LoadsOK'
  <2>1. tag \in {"UNLOAD", "EMBED", "STOP"} /\ UNCHANGED loading /\ mailbox_mtx' = mailbox_mtx
    BY <1>8, MiscAssumption DEF PostMisc
  <2>2. [tag |-> tag, arg |-> None] \in Commands
    BY <2>1 DEF Commands
  <2>3. mailbox' = mailbox \/ mailbox' = Append(mailbox, [tag |-> tag, arg |-> None])
    BY <1>8 DEF PostMisc, Enqueue
  <2>4. QED
    BY <1>6, <2>1, <2>2, <2>3
<1>9. ASSUME NEW l \in Loads, PostLoad(l)  PROVE LoadsOK'
  <2>1. /\ mailbox' = mailbox /\ UNCHANGED <<load_state, path, handled, pc>> /\ loader[l] = "none"
        /\ \/ loader' = [loader EXCEPT ![l] = "refused"] /\ UNCHANGED <<mailbox_mtx, load_error>>
           \/ loader' = [loader EXCEPT ![l] = "locked"] /\ mailbox_mtx' = l
    BY <1>9 DEF PostLoad
  <2>2. /\ \A m \in Loads \ {l} : loader'[m] = loader[m]
        /\ loader'[l] \in {"refused", "locked"}
    BY <1>1, <2>1
  <2>3. l \notin handled /\ ~Handling(l)
    BY <2>1 DEF LoadsOK, PostedOK
  <2>4. QueueOK' /\ \A m \in Loads : Handling(m)' => Handling(m)
    BY <1>5, <2>1
  <2>5. PostedOK'
    BY <2>1, <2>2, <2>3, <2>4 DEF LoadsOK, PostedOK
  <2>6. ToldOK'
    BY <2>1, <2>2 DEF LoadsOK, ToldOK
  <2>7. CASE loader' = [loader EXCEPT ![l] = "refused"] /\ UNCHANGED <<mailbox_mtx, load_error>>
    <3>1. \A m \in Loads : (~Told(m))' => ~Told(m)
      BY <1>1, <2>2, <2>7 DEF Told
    <3>2. OneWaits'
      BY <3>1 DEF LoadsOK, OneWaits
    <3>3. StateOK'
      BY <1>1, <1>2, <2>1, <2>2, <2>7 DEF LoadsOK, StateOK, Unlocked
    <3>4. QED
      BY <2>4, <2>5, <2>6, <3>2, <3>3 DEF LoadsOK
  <2>8. CASE loader' = [loader EXCEPT ![l] = "locked"] /\ mailbox_mtx' = l
    <3>1. \A m \in Loads : Told(m)
      BY <1>1, <2>1, <2>8 DEF InTurn
    <3>2. \A m \in Loads : (~Told(m))' => m = l
      BY <2>2, <3>1 DEF Told
    <3>3. OneWaits'
      BY <3>2 DEF OneWaits
    <3>4. pc # "load failed"
      <4>1. pc = "load failed" => cur \in Loads
        BY DEF IInv, TypeOK, ThreadTypeOK, LoadLabels
      <4>2. pc = "load failed" => loader[cur] = "waiting"
        BY <1>3, <4>1 DEF LoadsOK, PostedOK, Handling
      <4>3. QED
        BY <3>1, <4>1, <4>2 DEF Told
    <3>5. \A m \in Loads : loader'[m] # "waiting"
      BY <2>2, <2>8, <3>1 DEF Told
    <3>6. ~Unlocked'
      BY <2>8, NoneAssumption DEF Unlocked
    <3>7. StateOK'
      BY <2>1, <3>4, <3>5, <3>6 DEF StateOK
    <3>8. QED
      BY <2>4, <2>5, <2>6, <3>3, <3>7 DEF LoadsOK
  <2>9. QED
    BY <2>1, <2>7, <2>8
<1>10. ASSUME NEW l \in Loads, PostLoadEnqueue(l)  PROVE LoadsOK'
  <2> DEFINE cmd == [tag |-> "LOAD", arg |-> l]
  <2>1. /\ UNCHANGED <<load_error, path, handled>> /\ load_state' = "IN_PROGRESS"
        /\ mailbox' = Append(mailbox, cmd)
        /\ loader' = [loader EXCEPT ![l] = "waiting"] /\ loader[l] = "locked"
    BY <1>10 DEF PostLoadEnqueue, Enqueue
  <2>2. /\ \A m \in Loads \ {l} : loader'[m] = loader[m]
        /\ loader'[l] = "waiting"
    BY <1>1, <2>1
  <2>3. \A m \in Loads : ~Handling(m)
    <3>1. ~Told(l) /\ \A m \in Loads : loader[m] = "waiting" => ~Told(m)
      BY <2>1 DEF Told
    <3>2. QED
      BY <2>1, <3>1 DEF LoadsOK, OneWaits, PostedOK
  <2>4. pc \notin LoadLabels /\ pc' \notin LoadLabels
    <3>1. pc \in LoadLabels => cur \in Loads
      BY DEF IInv, TypeOK, ThreadTypeOK
    <3>2. QED
      BY <1>2, <2>3, <3>1 DEF Handling
  <2>5. cmd \in Commands
    BY DEF Commands
  <2>6. NoLoadIn(mailbox)
    BY <1>1, <2>3, NoneQueued DEF Handling
  <2>7. QueueOK'
    <3>1. OneLoadIn(Append(mailbox, cmd))
      BY <1>1, <2>5, <2>6, LoadsAppend
    <3>2. QED
      BY <2>1, <2>4, <3>1 DEF QueueOK
  <2>8. \A m \in Loads : Handling(m)' => m = l
    <3>1. \A m \in Loads : In(mailbox', [tag |-> "LOAD", arg |-> m])
                             => In(mailbox, [tag |-> "LOAD", arg |-> m]) \/ [tag |-> "LOAD", arg |-> m] = cmd
      BY <1>4, <2>1, <2>5
    <3>2. \A m \in Loads : ~In(mailbox, [tag |-> "LOAD", arg |-> m])
      BY <2>3 DEF Handling
    <3>3. \A m \in Loads : Handling(m)' => In(mailbox', [tag |-> "LOAD", arg |-> m])
      BY <2>4 DEF Handling, In
    <3>4. QED
      BY <3>1, <3>2, <3>3
  <2>9. l \notin handled
    BY <2>1 DEF LoadsOK, PostedOK
  <2>10. PostedOK'
    BY <2>1, <2>2, <2>8, <2>9 DEF LoadsOK, PostedOK
  <2>11. OneWaits'
    <3>1. \A m \in Loads : (~Told(m))' => ~Told(m)
      BY <2>1, <2>2 DEF Told
    <3>2. QED
      BY <3>1 DEF LoadsOK, OneWaits
  <2>12. ToldOK'
    BY <2>1, <2>2 DEF LoadsOK, ToldOK
  <2>13. StateOK'
    BY <1>3, <2>1, <2>4 DEF StateOK
  <2>14. QED
    BY <2>7, <2>10, <2>11, <2>12, <2>13 DEF LoadsOK
<1>11. ASSUME NEW l \in Loads, WaitLoad(l)  PROVE LoadsOK'
  <2>1. /\ mailbox' = mailbox
        /\ UNCHANGED <<pc, load_state, load_error, path, handled, mailbox_mtx>>
        /\ loader[l] = "waiting"
        /\ \/ load_state = "OK" /\ loader' = [loader EXCEPT ![l] = "ok"]
           \/ load_state = "FAILED" /\ loader' = [loader EXCEPT ![l] = "failed"]
    BY <1>11 DEF WaitLoad
  <2>2. /\ \A m \in Loads \ {l} : loader'[m] = loader[m]
        /\ \/ load_state = "OK" /\ loader'[l] = "ok"
           \/ load_state = "FAILED" /\ loader'[l] = "failed"
    BY <1>1, <2>1
  <2>3. l \in handled /\ ~Handling(l)
    BY <2>1 DEF LoadsOK, PostedOK, StateOK
  <2>4. QueueOK' /\ \A m \in Loads : Handling(m)' => Handling(m)
    BY <1>5, <2>1
  <2>5. PostedOK'
    BY <2>1, <2>2, <2>3, <2>4 DEF LoadsOK, PostedOK
  <2>6. OneWaits'
    <3>1. \A m \in Loads : (~Told(m))' => ~Told(m)
      BY <2>1, <2>2 DEF Told
    <3>2. QED
      BY <3>1 DEF LoadsOK, OneWaits
  <2>7. StateOK'
    BY <1>2, <2>1, <2>2 DEF LoadsOK, StateOK, Unlocked
  <2>8. ToldOK'
    BY <2>1, <2>2 DEF LoadsOK, StateOK, ToldOK
  <2>9. QED
    BY <2>4, <2>5, <2>6, <2>7, <2>8 DEF LoadsOK
<1>12. QED
  BY <1>7, <1>8, <1>9, <1>10, <1>11 DEF Caller

LEMMA ThreadLoads ==
  ASSUME IInv, LoadsOK, EngineThread
  PROVE  LoadsOK'
<1> USE DEF asking, Goto
<1>1. /\ mailbox \in Seq(Commands) /\ path \in [Loads -> {"stub", "good", "bad"}]
      /\ loader \in [Loads -> {"none", "refused", "locked", "waiting", "ok", "failed"}]
      /\ handled \subseteq Loads
      /\ pc \in LoadLabels => cur \in Loads
  BY DEF IInv, TypeOK, MailTypeOK, LoadTypeOK, ThreadTypeOK
<1>2. ASSUME NEW l \in Loads, pc \in LoadLabels, cur = l
      PROVE  /\ loader[l] = "waiting" /\ l \notin handled
             /\ \A m \in Loads : loader[m] = "waiting" => m = l
  BY <1>2 DEF LoadsOK, PostedOK, OneWaits, Told, Handling
<1>3. ASSUME UNCHANGED loading, mailbox_mtx' = mailbox_mtx, pc' \notin LoadLabels,
             mailbox' = mailbox \/ mailbox' = <<>>
      PROVE  LoadsOK'
  <2>1. \A l \in Loads : Handling(l)' => Handling(l)
    BY <1>3, InEmpty DEF Handling, In
  <2>2. UNCHANGED <<load_state, load_error, path, loader, handled, mailbox_mtx>>
    BY <1>3 DEF loading
  <2>3. QueueOK'
    BY <1>3, LoadsEmpty DEF LoadsOK, QueueOK
  <2>4. QED
    BY <1>3, <2>1, <2>2, <2>3, LoadsKept DEF LoadLabels
<1>4. CASE MailboxDequeue
  <2>1. UNCHANGED <<load_state, load_error, path, loader, handled, mailbox_mtx>>
    BY <1>4 DEF MailboxDequeue, loading
  <2>2. CASE mailbox = <<>>
    BY <1>3, <1>4, <2>2 DEF MailboxDequeue, LoadLabels
  <2>3. CASE mailbox # <<>>
    <3> DEFINE cmd == Head(mailbox)
    <3>1. mailbox' = Tail(mailbox) /\ cur' = cmd.arg /\ pc' = cmd.tag
      BY <1>4, <2>3 DEF MailboxDequeue
    <3>2. cmd \in Commands
      BY <1>1, <2>3, EmptySeq, HeadTailProperties
    <3>3. \A d : In(mailbox, d) <=> cmd = d \/ In(mailbox', d)
      <4>1. ASSUME NEW d  PROVE In(mailbox, d) <=> cmd = d \/ In(Tail(mailbox), d)
        BY <1>1, <2>3, InTail
      <4>2. QED
        BY <3>1, <4>1
    <3>4. OneLoadIn(mailbox') /\ (cmd.tag = "LOAD" => NoLoadIn(mailbox'))
      <4>1. OneLoadIn(mailbox)
        BY DEF LoadsOK, QueueOK
      <4>2. QED
        BY <1>1, <2>3, <3>1, <4>1, LoadsTail
    <3> HIDE DEF cmd
    <3>5. pc' \in LoadLabels => cmd = [tag |-> "LOAD", arg |-> cur']
      BY <3>1, <3>2 DEF LoadLabels, Commands
    <3>6. \A l \in Loads : Handling(l)' => Handling(l)
      BY <3>3, <3>5 DEF Handling, In
    <3>7. QueueOK'
      BY <3>4, <3>5 DEF QueueOK
    <3>8. pc' # "load failed"
      BY <3>1, <3>2 DEF Commands
    <3>9. QED
      BY <2>1, <3>6, <3>7, <3>8, LoadsKept
  <2>4. QED
    BY <2>2, <2>3
<1>5. CASE Generate
  <2>1. /\ UNCHANGED loading /\ mailbox' = mailbox /\ mailbox_mtx' = mailbox_mtx
    BY <1>5 DEF Generate, SetInflight, CheckLoadState, Stub, StubPush, Real, Prefill, Seed, Decode,
         DecodePush, PushDone, Abort, FailError, FailDone, FailRefused, ClearInflight,
         GenerateRelease, Step, FailWith, DoneWith, Push, Generating
  <2>2. model \in {"none", "stub", "real"} /\ (load_state = "OK" => model # "none")
    BY DEF IInv, TypeOK, LoadTypeOK, ResidentModel
  <2>3. pc' \notin LoadLabels
    BY <1>5, <2>2 DEF Generate, SetInflight, CheckLoadState, Stub, StubPush, Real, Prefill, Seed, Decode,
         DecodePush, PushDone, Abort, FailError, FailDone, FailRefused, ClearInflight,
         GenerateRelease, Step, FailWith, DoneWith, Push, LoadLabels
  <2>4. QED
    BY <1>3, <2>1, <2>3
<1>6. CASE Loop \/ HandleReclaim \/ HandleEmbed \/ ThreadDrain
  BY <1>3, <1>6 DEF Loop, HandleReclaim, HandleEmbed, ThreadDrain, DrainTake, DrainTerminal,
     DrainDrop, LoadLabels
<1>7. ASSUME mailbox' = mailbox, cur' = cur, pc' \in LoadLabels => pc \in LoadLabels
      PROVE  QueueOK' /\ \A l \in Loads : Handling(l)' => Handling(l)
  BY <1>7 DEF LoadsOK, QueueOK, Handling, In
<1>8. CASE HandleUnload
  <2>1. /\ UNCHANGED <<mailbox, cur, path, loader, handled>> /\ pc' = "loop"
        /\ load_state' = "IDLE"
    BY <1>8 DEF HandleUnload
  <2>2. QueueOK' /\ PostedOK'
    BY <1>7, <2>1 DEF LoadsOK, PostedOK, LoadLabels
  <2>3. QED
    BY <2>1, <2>2 DEF LoadsOK, OneWaits, Told, StateOK, ToldOK
<1>9. CASE HandleLoad
  <2>1. /\ UNCHANGED <<mailbox, cur, path, loader, handled>> /\ pc = "LOAD" /\ pc' = "loading"
        /\ load_state' = "IN_PROGRESS"
    BY <1>9 DEF HandleLoad
  <2>2. QueueOK' /\ PostedOK'
    BY <1>7, <2>1 DEF LoadsOK, PostedOK, LoadLabels
  <2>3. QED
    BY <2>1, <2>2 DEF LoadsOK, OneWaits, Told, StateOK, ToldOK
<1>10. ASSUME NEW l \in Loads, pc \in LoadLabels, cur = l, pc' = "loop",
              UNCHANGED <<mailbox, loader, path>>, handled' = handled \cup {l}
       PROVE  QueueOK' /\ OneWaits' /\ PostedOK' /\ ToldOK'
  <2>1. /\ loader[l] = "waiting" /\ ~In(mailbox, [tag |-> "LOAD", arg |-> l])
    <3>1. NoLoadIn(mailbox)
      BY <1>10 DEF LoadsOK, QueueOK
    <3>2. QED
      BY <1>2, <1>10, <3>1 DEF NoLoadIn, In
  <2>2. \A m \in Loads : Handling(m)' => Handling(m) /\ m # l
    BY <1>10, <2>1 DEF Handling, In, LoadLabels
  <2>3. QueueOK'
    BY <1>10 DEF LoadsOK, QueueOK, LoadLabels
  <2>4. PostedOK'
    BY <1>10, <2>1, <2>2 DEF LoadsOK, PostedOK
  <2>5. QED
    BY <1>10, <2>3, <2>4 DEF LoadsOK, OneWaits, Told, ToldOK
<1>11. CASE LoadDone
  <2>1. PICK l \in Loads : l = cur
    BY <1>1, <1>11 DEF LoadDone, LoadLabels
  <2>2. /\ pc = "loading" /\ pc \in LoadLabels /\ UNCHANGED <<path, loader, mailbox, mailbox_mtx>>
        /\ \A m \in Loads : loader[m] = "waiting" => m = l
    BY <1>2, <1>11, <2>1 DEF LoadDone, LoadLabels
  <2>3. CASE path[l] # "bad"
    <3>1. load_state' = "OK" /\ handled' = handled \cup {l} /\ pc' = "loop"
      BY <1>1, <1>11, <2>1, <2>3 DEF LoadDone
    <3>2. QueueOK' /\ OneWaits' /\ PostedOK' /\ ToldOK'
      BY <1>10, <2>1, <2>2, <3>1
    <3>3. StateOK'
      BY <2>2, <2>3, <3>1 DEF StateOK
    <3>4. QED
      BY <3>2, <3>3 DEF LoadsOK
  <2>4. CASE path[l] = "bad"
    <3>1. UNCHANGED <<load_state, handled, cur>> /\ load_error' = TRUE /\ pc' = "load failed"
      BY <1>1, <1>11, <2>1, <2>4 DEF LoadDone
    <3>2. QueueOK' /\ PostedOK'
      BY <1>7, <2>2, <3>1 DEF LoadsOK, PostedOK
    <3>3. StateOK'
      BY <2>1, <2>2, <2>4, <3>1 DEF LoadsOK, StateOK
    <3>4. OneWaits' /\ ToldOK'
      BY <2>2, <3>1 DEF LoadsOK, OneWaits, Told, ToldOK
    <3>5. QED
      BY <3>2, <3>3, <3>4 DEF LoadsOK
  <2>5. QED
    BY <2>3, <2>4
<1>12. CASE LoadFailed
  <2>1. PICK l \in Loads : l = cur
    BY <1>1, <1>12 DEF LoadFailed, LoadLabels
  <2>2. /\ pc \in LoadLabels /\ load_error /\ path[l] = "bad"
        /\ \A m \in Loads : loader[m] = "waiting" => m = l
    BY <1>2, <1>12, <2>1 DEF LoadFailed, LoadLabels, LoadsOK, StateOK
  <2>3. /\ UNCHANGED <<path, loader, load_error, mailbox>> /\ load_state' = "FAILED"
        /\ handled' = handled \cup {l} /\ pc' = "loop"
    BY <1>12, <2>1 DEF LoadFailed
  <2>4. QueueOK' /\ OneWaits' /\ PostedOK' /\ ToldOK'
    BY <1>10, <2>1, <2>2, <2>3
  <2>5. StateOK'
    BY <2>2, <2>3 DEF StateOK
  <2>6. QED
    BY <2>4, <2>5 DEF LoadsOK
<1>13. QED
  BY <1>4, <1>5, <1>6, <1>8, <1>9, <1>11, <1>12 DEF EngineThread

LEMMA StopLoads ==
  ASSUME IInv, LoadsOK, \/ EngineDestroy \/ EngineSignalShutdown
                        \/ (\E r \in Reqs : NotifyCallback(r)) \/ UNCHANGED vars
  PROVE  LoadsOK'
<1> USE DEF thread, asking
<1>1. ASSUME UNCHANGED loading, mailbox_mtx' = mailbox_mtx,
             mailbox' = mailbox \/ mailbox' = <<>>, cur' = cur,
             pc' = pc \/ (pc' \notin LoadLabels /\ pc' # "load failed")
      PROVE  LoadsOK'
  <2>1. \A l \in Loads : Handling(l)' => Handling(l)
    BY <1>1, InEmpty DEF Handling, In
  <2>2. UNCHANGED <<load_state, load_error, path, loader, handled, mailbox_mtx>>
    BY <1>1 DEF loading
  <2>3. QueueOK'
    BY <1>1, LoadsEmpty DEF LoadsOK, QueueOK
  <2>4. QED
    BY <1>1, <2>1, <2>2, <2>3, LoadsKept
<1>2. CASE EngineDestroy
  <2>1. CASE UNCHANGED loading
    BY <1>1, <1>2, <2>1 DEF EngineDestroy, DrainTake, DrainTerminal, DrainDrop
  <2>2. CASE ~UNCHANGED loading
    <3>1. /\ UNCHANGED <<mailbox, pc, cur, path, loader, handled>> /\ load_state' = "IDLE"
          /\ pc = "exited"
      BY <1>2, <2>2 DEF EngineDestroy, DrainTake, DrainTerminal, DrainDrop, IInv, JoinedOK
    <3>2. QueueOK' /\ OneWaits' /\ PostedOK'
      BY <3>1 DEF LoadsOK, QueueOK, OneWaits, Told, PostedOK, Handling, In
    <3>3. StateOK' /\ ToldOK'
      BY <3>1 DEF LoadsOK, StateOK, ToldOK
    <3>4. QED
      BY <3>2, <3>3 DEF LoadsOK
  <2>3. QED
    BY <2>1, <2>2
<1>3. CASE EngineSignalShutdown
  BY <1>1, <1>3 DEF EngineSignalShutdown, StoreShutdown, CancelInflight, LoadLabels
<1>4. ASSUME NEW r \in Reqs, NotifyCallback(r)  PROVE LoadsOK'
  BY <1>1, <1>4 DEF NotifyCallback
<1>5. CASE UNCHANGED vars
  BY <1>1, <1>5 DEF vars
<1>6. QED
  BY <1>2, <1>3, <1>4, <1>5

(* Whoever waits for a load is told that load's own verdict, whatever the  *)
(* loads before it have left in the load state, and the error is there as  *)
(* long as the state is FAILED, if loads are posted in turn: for any       *)
(* number of them, and whatever unloads, generations and shutdowns go on   *)
(* beside (engine_post_load, engine_wait_load_until, handle_load).         *)
THEOREM VerdictInTurn == SerialSpec => []VerdictIsOwn
<1>1. Init => LoadsOK
  BY InEmpty, LoadsEmpty
     DEF Init, LoadsOK, QueueOK, OneWaits, Told, PostedOK, StateOK, ToldOK, Handling, LoadLabels
<1>2. IInv /\ LoadsOK /\ [Next /\ InTurn]_vars => LoadsOK'
  BY CallerLoads, ThreadLoads, StopLoads DEF Next
<1>3. LoadsOK => VerdictIsOwn
  BY DEF LoadsOK, StateOK, ToldOK, VerdictIsOwn
<1>4. [Next /\ InTurn]_vars => [Next]_vars
  OBVIOUS
<1>5. SerialSpec => Spec
  BY <1>4, PTL DEF SerialSpec, Spec
<1>6. QED
  BY <1>1, <1>2, <1>3, <1>5, Inductive, PTL DEF SerialSpec
=============================================================================
