----------------------------- MODULE PullProofs -----------------------------
(***************************************************************************)
(* A pull, for any number of files, commits, revisions and blocks, and any *)
(* surroundings.  Complete says which files are there whatever happens.    *)
(* Honest says what they hold when nothing goes wrong beside interruptions *)
(* and one revision is pulled: every .part is a first part of the commit   *)
(* the revision names (Parts), the response goes on where it ends          *)
(* (Answer), and the files fetched so far are of that commit (Progress).   *)
(***************************************************************************)
EXTENDS Pull, SequenceTheorems, TLAPS

Contents == Seq(Blocks) \cup {None}
Labels == {"idle", "file", "open", "request", "body", "meta", "write"}

TypeOK ==
    /\ world \in Worlds /\ head \in [Revs -> Commits]
    /\ dest \in [Files -> Contents] /\ part \in [Files -> Contents]
    /\ meta \in Meta \cup {None}
    /\ pc \in Labels /\ rev \in world.revs /\ sha \in Commits \cup {None}
    /\ force \in BOOLEAN /\ file \in 1..(NumFiles + 1) /\ attempt \in {0, 1}
    /\ base \in Nat /\ checked \in BOOLEAN
    /\ resp \in [code : Codes \cup {"none"}, body : Seq(Blocks), total : Nat \cup {None}]

(* A labelled directory has every file, and a pull every one it has been   *)
(* through.                                                                *)
Complete ==
    /\ meta # None => \A f \in Files : dest[f] # None
    /\ pc \in {"meta", "write"} => \A f \in Files : dest[f] # None
    /\ Pulling => \A f \in Files : f < file => dest[f] # None
    /\ pc \in {"open", "request", "body"} => file \in Files
    /\ pc \in {"request", "body"} => part[file] # None

PInv == TypeOK /\ Complete

-----------------------------------------------------------------------------
Now == head[rev]                 \* the commit that is pulled
Prefix(p, c) == Len(p) <= SizeOf[c] /\ \A i \in 1..Len(p) : p[i] = <<c, i>>

Parts ==
    \A f \in Files : part[f] # None => Prefix(part[f], Now) \/ (pc = "body" /\ f = file)

(* What is there and what comes make the file; an error page follows a     *)
(* first part of it, and a 416 that names the length answers a request     *)
(* from the end or beyond it.                                              *)
Follows(p, b, c) ==
    /\ Len(p) + Len(b) = SizeOf[c] /\ Prefix(p, c)
    /\ \A i \in 1..Len(b) : b[i] = <<c, Len(p) + i>>
Answer ==
    LET p == part[file] IN
    /\ pc = "request" => base = Len(p) /\ ~checked
    /\ pc = "body" =>
         /\ resp.code # "none"
         /\ resp.code = "200" => \/ base = 0 /\ Follows(p, resp.body, Now)
                                 \/ base > 0 /\ ~checked /\ Follows(<<>>, resp.body, Now) /\ Prefix(p, Now)
         /\ resp.code = "206" => base > 0 /\ Follows(p, resp.body, Now)
         /\ resp.code \in {"416", "error"} =>
              /\ \/ Len(p) = base /\ Prefix(p, Now) /\ resp.body \in {<<>>, <<ErrorBlock>>}
                 \/ Len(p) = base + 1 /\ p[Len(p)] = ErrorBlock /\ resp.body = <<>>
              /\ resp.code = "416" /\ resp.total # None =>
                   resp.total = SizeOf[Now] /\ base >= SizeOf[Now]

(* The files and their label.                                              *)
Holds(c) == \A f \in Files : dest[f] = Version(c)
Progress ==
    /\ \A f \in Files : dest[f] # None => \E c \in Commits : dest[f] = Version(c)
    /\ meta # None => /\ meta.revision = rev /\ meta.commit \in Commits
                      /\ meta.commit <= Now
                      /\ meta.commit = Now => Holds(Now)
    /\ meta = None => \A f \in Files : dest[f] \in {None, Version(Now)}
    /\ Pulling => /\ sha = Now
                  /\ pc # "write" => (force <=> (meta # None /\ meta.commit # Now))
                  /\ \A f \in Files : f < file => dest[f] = Version(Now)
    /\ pc = "meta" => Holds(Now)
    /\ pc = "write" => Holds(Now)

Undisturbed == Benign /\ OneRevision
Honest == Undisturbed => Parts /\ Answer /\ Progress

-----------------------------------------------------------------------------
(* Contents.                                                               *)
LEMMA VersionIs ==
  ASSUME NEW c \in Commits
  PROVE  /\ Version(c) \in Seq(Blocks) /\ Len(Version(c)) = SizeOf[c]
         /\ SizeOf[c] \in Nat /\ SizeOf[c] > 0
         /\ \A p \in 1..SizeOf[c] : Version(c)[p] = <<c, p>>
         /\ Version(c) # None /\ Version(c) # <<>>
<1>1. SizeOf[c] \in Nat /\ SizeOf[c] > 0
  BY SizeAssumption DEF Commits
<1>2. \A p \in 1..SizeOf[c] : <<c, p>> \in Blocks
  BY <1>1 DEF Blocks
<1>3. Version(c) \in [1..SizeOf[c] -> Blocks]
  BY <1>2 DEF Version
<1>4. Version(c) \in Seq(Blocks) /\ Len(Version(c)) = SizeOf[c]
  BY <1>1, <1>3
<1>5. \A p \in 1..SizeOf[c] : Version(c)[p] = <<c, p>>
  BY DEF Version
<1>6. QED
  BY <1>1, <1>4, <1>5, NoneAssumption

LEMMA WholePrefix ==
  ASSUME NEW c \in Commits, NEW p \in Seq(Blocks), Prefix(p, c), Len(p) = SizeOf[c]
  PROVE  p = Version(c)
  BY VersionIs, SeqEqual DEF Prefix

LEMMA World ==
  ASSUME TypeOK
  PROVE  /\ world.revs \subseteq Revs /\ world.commits \in Commits
         /\ world.sha \in BOOLEAN /\ rev \in Revs /\ Now \in Commits
         /\ 1..world.commits \subseteq Commits
<1>1. world \in [revs : SUBSET Revs, commits : 1..NumCommits, sha : BOOLEAN,
                 faults : SUBSET Faults]
  BY WorldAssumption DEF TypeOK
<1>2. QED
  BY <1>1, NumsAssumption DEF TypeOK, Now, Commits

LEMMA AnswerType ==
  ASSUME TypeOK, NEW r \in Responses(base)
  PROVE  r \in [code : Codes, body : Seq(Blocks), total : Nat \cup {None}]
<1> DEFINE c == head[rev]
<1>1. c \in Commits
  BY World DEF Now
<1>2. <<>> \in Seq(Blocks) /\ <<ErrorBlock>> \in Seq(Blocks)
  BY DEF Blocks
<1>3. Version(c) \in Seq(Blocks) /\ SizeOf[c] \in Nat /\ Len(Version(c)) = SizeOf[c]
  BY <1>1, VersionIs
<1>4. SubSeq(Version(c), base + 1, SizeOf[c]) \in Seq(Blocks)
  <2>1. base + 1 \in Int /\ SizeOf[c] \in Int /\ \A i \in (base + 1)..SizeOf[c] : i \in 1..SizeOf[c]
    BY <1>3 DEF TypeOK
  <2>2. \A i \in (base + 1)..SizeOf[c] : Version(c)[i] \in Blocks
    BY <1>3, <2>1
  <2>3. QED
    BY <2>1, <2>2, SubSeqProperties
<1>5. \/ r = [code |-> "200", body |-> Version(c), total |-> None]
      \/ r = [code |-> "206", body |-> SubSeq(Version(c), base + 1, SizeOf[c]), total |-> None]
      \/ \E b \in {<<>>, <<ErrorBlock>>} : r = [code |-> "416", body |-> b, total |-> SizeOf[c]]
      \/ r = [code |-> "416", body |-> <<>>, total |-> None]
      \/ \E b \in {<<>>, <<ErrorBlock>>} : r = [code |-> "error", body |-> b, total |-> None]
  BY DEF Responses
<1> DEFINE T == [code : Codes, body : Seq(Blocks), total : Nat \cup {None}]
           s == SubSeq(Version(c), base + 1, SizeOf[c])
<1> HIDE DEF c, s
<1>6. [code |-> "200", body |-> Version(c), total |-> None] \in T
  BY <1>3 DEF Codes
<1>7. [code |-> "206", body |-> s, total |-> None] \in T
  BY <1>4 DEF Codes, s
<1>8. \A b \in {<<>>, <<ErrorBlock>>}, t \in {None, SizeOf[c]}, k \in {"416", "error"} :
          [code |-> k, body |-> b, total |-> t] \in T
  BY <1>2, <1>3 DEF Codes
<1> HIDE DEF T
<1>9. r \in T
  BY <1>5, <1>6, <1>7, <1>8 DEF s
<1>10. QED
  BY <1>9 DEF T

LEMMA FlushedType ==
  ASSUME TypeOK, Complete, pc = "body", NEW p \in Flushed
  PROVE  p \in Seq(Blocks) /\ p # None /\ (world.faults = {} => p = part[file])
<1>1. part[file] \in Seq(Blocks) /\ base \in Nat
  BY DEF TypeOK, Complete, Contents
<1>2. p = part[file] \/ \E k \in base..Len(part[file]) :
                            Fault("disk_fills") /\ p = SubSeq(part[file], 1, k)
  BY DEF Flushed
<1>3. ASSUME NEW k \in base..Len(part[file])
      PROVE  SubSeq(part[file], 1, k) \in Seq(Blocks)
  <2>1. k \in Int /\ 1 \in Int /\ \A i \in 1..k : i \in 1..Len(part[file])
    BY <1>1
  <2>2. \A i \in 1..k : part[file][i] \in Blocks
    BY <1>1, <2>1
  <2>3. QED
    BY <2>1, <2>2, SubSeqProperties
<1>4. QED
  BY <1>1, <1>2, <1>3, NoneAssumption DEF Fault

LEMMA TypesKept ==
  ASSUME TypeOK, Complete, [Next]_vars
  PROVE  TypeOK'
<1> USE DEF hub, disk, pull
<1>1. ASSUME NEW r \in Revs, Move(r)  PROVE TypeOK'
  BY <1>1, World DEF Move, TypeOK
<1>2. ASSUME NEW r \in Revs, Start(r)  PROVE TypeOK'
  <2>1. sha' \in Commits \cup {None} /\ r \in world.revs
    BY <1>2 DEF Start, TypeOK
  <2>2. force' \in BOOLEAN
    BY <1>2 DEF Start, ForceRedownload
  <2>3. file' \in 1..(NumFiles + 1) /\ pc' \in Labels
    BY <1>2, NumsAssumption DEF Start, Labels
  <2>4. QED
    BY <1>2, <2>1, <2>2, <2>3 DEF Start, TypeOK
<1>3. CASE SkipFile \/ FetchFile \/ AllFetched
  <2>1. file' \in 1..(NumFiles + 1)
    BY <1>3, NumsAssumption DEF SkipFile, FetchFile, AllFetched, TypeOK, Files
  <2>2. QED
    BY <1>3, <2>1 DEF SkipFile, FetchFile, AllFetched, TypeOK, Labels
<1>4. CASE TruncateMeta
  BY <1>4 DEF TruncateMeta, TypeOK, Labels
<1>5. CASE WriteMeta
  <2>1. [revision |-> rev, commit |-> sha] \in Meta
    BY World DEF TypeOK, Meta
  <2>2. QED
    BY <1>5, <2>1 DEF WriteMeta, TypeOK, Labels
<1>6. CASE OpenPart
  <2>1. file \in Files
    BY <1>6 DEF OpenPart, Complete
  <2>2. base' \in Nat /\ part' \in [Files -> Contents]
    BY <1>6, <2>1 DEF OpenPart, TypeOK, Contents
  <2>3. QED
    BY <1>6, <2>2 DEF OpenPart, TypeOK, Labels
<1>7. CASE Respond
  BY <1>7, AnswerType DEF Respond, TypeOK, Labels
<1>8. CASE Receive
  <2>1. file \in Files /\ part[file] \in Seq(Blocks) /\ resp.body \in Seq(Blocks) /\ resp.body # <<>>
    BY <1>8 DEF Receive, Complete, TypeOK, Contents
  <2>2. Head(resp.body) \in Blocks /\ Tail(resp.body) \in Seq(Blocks)
    BY <2>1, HeadTailProperties
  <2>3. resp' \in [code : Codes \cup {"none"}, body : Seq(Blocks), total : Nat \cup {None}]
    BY <1>8, <2>2 DEF Receive, TypeOK
  <2>4. part' \in [Files -> Contents]
    <3>1. Append(<<>>, Head(resp.body)) \in Seq(Blocks) /\ Append(part[file], Head(resp.body)) \in Seq(Blocks)
      BY <2>1, <2>2, AppendProperties
    <3>2. QED
      BY <1>8, <2>1, <3>1 DEF Receive, TypeOK, Contents
  <2>5. base' \in Nat /\ checked' \in BOOLEAN
    BY <1>8 DEF Receive, TypeOK
  <2>6. QED
    BY <1>8, <2>3, <2>4, <2>5 DEF Receive, TypeOK
<1>9. NoResponse \in [code : Codes \cup {"none"}, body : Seq(Blocks), total : Nat \cup {None}]
  BY DEF NoResponse
<1>10. CASE Succeed
  <2>1. PICK p \in Flushed : RenamePart(p)
    BY <1>10 DEF Succeed
  <2>2. p \in Contents /\ file \in Files
    BY <1>10, FlushedType DEF Succeed, BodyDone, Contents, Complete
  <2>3. file' \in 1..(NumFiles + 1)
    BY <2>1, <2>2, NumsAssumption DEF RenamePart, Files
  <2>4. QED
    BY <1>9, <1>10, <2>1, <2>2, <2>3 DEF Succeed, RenamePart, TypeOK, Labels, Contents
<1>11. CASE Retry \/ Refused
  BY <1>9, <1>11 DEF Retry, Refused, RemovePart, GiveUp, TypeOK, Labels, Contents
<1>12. CASE Interrupt
  BY <1>9, <1>12 DEF Interrupt, GiveUp, TypeOK, Labels
<1>13. CASE UNCHANGED vars
  BY <1>13 DEF vars, TypeOK
<1>14. QED
  BY <1>1, <1>2, <1>3, <1>4, <1>5, <1>6, <1>7, <1>8, <1>10, <1>11, <1>12, <1>13
  DEF Next, Process

LEMMA CompleteKept ==
  ASSUME TypeOK, Complete, [Next]_vars
  PROVE  Complete'
<1> USE DEF hub, disk, pull
<1>1. ASSUME NEW r \in Revs, Move(r)  PROVE Complete'
  BY <1>1 DEF Move, Complete, Pulling
<1>2. ASSUME NEW r \in Revs, Start(r)  PROVE Complete'
  BY <1>2 DEF Start, Complete, Pulling, Files
<1>3. CASE SkipFile \/ FetchFile \/ AllFetched
  <2>1. file \in Nat /\ file >= 1 /\ file <= NumFiles + 1 /\ NumFiles \in Nat
    BY NumsAssumption DEF TypeOK
  <2>2. CASE SkipFile
    BY <2>1, <2>2 DEF SkipFile, Complete, Pulling, Files
  <2>3. CASE FetchFile
    BY <2>3 DEF FetchFile, Complete, Pulling
  <2>4. CASE AllFetched
    <3>1. \A f \in Files : f < file
      BY <2>1, <2>4 DEF AllFetched, Files
    <3>2. QED
      BY <2>4, <3>1 DEF AllFetched, Complete, Pulling
  <2>5. QED
    BY <1>3, <2>2, <2>3, <2>4
<1>4. CASE TruncateMeta
  BY <1>4 DEF TruncateMeta, Complete, Pulling
<1>5. CASE WriteMeta
  BY <1>5 DEF WriteMeta, Complete, Pulling
<1>6. CASE OpenPart
  <2>1. <<>> # None
    <3>1. <<>> \in Seq(Blocks)
      OBVIOUS
    <3>2. QED
      BY <3>1, NoneAssumption
  <2>2. part'[file] # None
    BY <1>6, <2>1 DEF OpenPart, Complete, TypeOK
  <2>3. QED
    BY <1>6, <2>2 DEF OpenPart, Complete, Pulling
<1>7. CASE Respond
  BY <1>7 DEF Respond, Complete, Pulling
<1>8. CASE Receive
  <2>1. part'[file] # None
    <3>1. file \in Files /\ part[file] \in Seq(Blocks) /\ Head(resp.body) \in Blocks
      BY <1>8, HeadTailProperties DEF Receive, Complete, TypeOK, Contents
    <3>2. Append(<<>>, Head(resp.body)) \in Seq(Blocks) /\ Append(part[file], Head(resp.body)) \in Seq(Blocks)
      BY <3>1, AppendProperties
    <3>3. QED
      BY <1>8, <3>1, <3>2, NoneAssumption DEF Receive, TypeOK
  <2>2. QED
    BY <1>8, <2>1 DEF Receive, Complete, Pulling
<1>9. CASE Succeed
  <2>1. PICK p \in Flushed : RenamePart(p)
    BY <1>9 DEF Succeed
  <2>2. p # None /\ file \in Files /\ pc = "body"
    BY <1>9, FlushedType DEF Succeed, BodyDone, Complete
  <2>3. \A f \in Files : f < file + 1 => f < file \/ f = file
    BY <2>2, NumsAssumption DEF Files
  <2>4. /\ \A f \in Files : dest'[f] = IF f = file THEN p ELSE dest[f]
        /\ file' = file + 1 /\ pc' = "file" /\ meta' = meta
    BY <2>1 DEF RenamePart, TypeOK
  <2>5. QED
    BY <2>2, <2>3, <2>4 DEF Complete, Pulling
<1>10. CASE Retry
  BY <1>10 DEF Retry, BodyDone, RemovePart, Complete, Pulling
<1>11. CASE Refused
  BY <1>11 DEF Refused, RemovePart, GiveUp, Complete, Pulling
<1>12. CASE Interrupt
  BY <1>12 DEF Interrupt, GiveUp, Complete, Pulling
<1>13. CASE UNCHANGED vars
  BY <1>13 DEF vars, Complete, Pulling
<1>14. QED
  BY <1>1, <1>2, <1>3, <1>4, <1>5, <1>6, <1>7, <1>8, <1>9, <1>10, <1>11, <1>12, <1>13
  DEF Next, Process

-----------------------------------------------------------------------------
(* With nothing else going wrong and one revision.                         *)

LEMMA Still ==
  ASSUME TypeOK, Undisturbed, Next, ~(\E r \in Revs : Move(r))
  PROVE  UNCHANGED <<head, rev, world>>
<1>1. CASE \E r \in Revs : Start(r)
  <2>1. PICK r \in Revs : Start(r)
    BY <1>1
  <2>2. r \in world.revs /\ rev \in world.revs /\ rev' = r
    BY <2>1 DEF Start, TypeOK
  <2>3. rev' = rev
    BY <2>2 DEF Undisturbed, OneRevision
  <2>4. QED
    BY <2>1, <2>3 DEF Start, hub
<1>2. CASE Process \/ Interrupt
  BY <1>2 DEF Process, Interrupt, SkipFile, FetchFile, AllFetched, TruncateMeta, WriteMeta,
     OpenPart, Respond, Receive, Succeed, Retry, Refused, RenamePart, GiveUp, hub
<1>3. QED
  BY <1>1, <1>2 DEF Next

(* The steps that touch no file and no .part.                              *)
LEMMA MoveHonest ==
  ASSUME TypeOK, Complete, Undisturbed, Parts, Answer, Progress, NEW r \in Revs, Move(r)
  PROVE  Parts' /\ Answer' /\ Progress'
<1> USE DEF disk, pull
<1>1. /\ Settled /\ r \in world.revs /\ rev \in world.revs
      /\ UNCHANGED <<world, dest, part, meta, pc, rev, sha, force, file, attempt, base, checked, resp>>
  BY DEF Move, Undisturbed, Benign, Fault, TypeOK
<1>2. r = rev
  BY <1>1 DEF Undisturbed, OneRevision
<1>3. PICK c \in 1..world.commits : c > head[r] /\ head' = [head EXCEPT ![r] = c]
  BY DEF Move
<1>4. c \in Commits /\ Now' = c /\ c > Now /\ Now \in Commits
  BY <1>1, <1>2, <1>3, World DEF Now, TypeOK
<1>5. pc = "idle" /\ meta # None /\ \A f \in Files : part[f] = None
  BY <1>1 DEF Settled, Pulling
<1>6. Parts' /\ Answer'
  BY <1>1, <1>5 DEF Parts, Answer
<1>7. meta.commit \in Commits /\ meta.commit <= Now
  BY <1>5 DEF Progress
<1>8. meta.commit <= c /\ meta.commit # c
  BY <1>4, <1>7 DEF Commits
<1>9. QED
  BY <1>1, <1>4, <1>5, <1>6, <1>8 DEF Progress, Pulling

LEMMA StartHonest ==
  ASSUME TypeOK, Complete, Undisturbed, Parts, Answer, Progress, NEW r \in Revs, Start(r)
  PROVE  Parts' /\ Answer' /\ Progress'
<1> USE DEF disk, hub
<1>1. UNCHANGED <<head, rev, world, dest, part, meta, attempt, base, checked, resp>>
  <2>1. r \in world.revs /\ rev \in world.revs /\ rev' = r
    BY DEF Start, TypeOK
  <2>2. rev' = rev
    BY <2>1 DEF Undisturbed, OneRevision
  <2>3. QED
    BY <2>2 DEF Start
<1>2. Now' = Now /\ Now \in Commits
  BY <1>1, World DEF Now
<1>3. /\ pc = "idle" /\ pc' = "file" /\ file' = 1 /\ sha' = Now
      /\ force' = (meta # None /\ meta.commit \notin {None, Now})
  <2>1. /\ pc = "idle" /\ pc' = "file" /\ file' = 1 /\ sha' = head[r] /\ r = rev
    BY <1>1 DEF Start, Pulling, Undisturbed, Benign
  <2>2. Now # None
    BY <1>2, NoneAssumption
  <2>3. QED
    BY <2>1, <2>2 DEF Start, ForceRedownload, Now
<1>4. meta # None => meta.commit # None
  BY NoneAssumption DEF Progress
<1>5. Parts' /\ Answer'
  BY <1>1, <1>2, <1>3 DEF Parts, Answer
<1>6. \A f \in Files : ~(f < 1)
  BY DEF Files
<1>7. QED
  BY <1>1, <1>2, <1>3, <1>4, <1>5, <1>6 DEF Progress, Pulling, Holds

LEMMA LoopHonest ==
  ASSUME TypeOK, Complete, Undisturbed, Parts, Answer, Progress,
         SkipFile \/ FetchFile \/ AllFetched \/ TruncateMeta \/ WriteMeta
  PROVE  Parts' /\ Answer' /\ Progress'
<1> USE DEF disk, hub
<1>1. /\ UNCHANGED <<head, rev, world, dest, part>>
      /\ pc \notin {"idle", "request", "body"} /\ pc' \notin {"request", "body"}
  BY DEF SkipFile, FetchFile, AllFetched, TruncateMeta, WriteMeta
<1>2. Now' = Now /\ Now \in Commits
  BY <1>1, World DEF Now
<1>3. Parts' /\ Answer'
  BY <1>1, <1>2 DEF Parts, Answer
<1>4. CASE SkipFile
  <2>1. /\ pc = "file" /\ pc' = "file" /\ file \in Files /\ ~force /\ dest[file] # None
        /\ file' = file + 1 /\ UNCHANGED <<meta, sha, force>>
    BY <1>4 DEF SkipFile
  <2>2. dest[file] = Version(Now)
    <3>1. CASE meta = None
      BY <2>1, <3>1 DEF Progress
    <3>2. CASE meta # None
      BY <2>1, <3>2 DEF Progress, Pulling, Holds
    <3>3. QED
      BY <3>1, <3>2
  <2>3. \A f \in Files : f < file + 1 => f < file \/ f = file
    BY <2>1, NumsAssumption DEF Files
  <2>4. QED
    BY <1>1, <1>2, <1>3, <2>1, <2>2, <2>3 DEF Progress, Pulling, Holds
<1>5. CASE FetchFile
  BY <1>1, <1>2, <1>3, <1>5 DEF FetchFile, Progress, Pulling, Holds
<1>6. CASE AllFetched
  <2>1. \A f \in Files : f < file
    BY <1>6, NumsAssumption DEF AllFetched, Files, TypeOK
  <2>2. Holds(Now)
    BY <1>1, <2>1 DEF Progress, Pulling, Holds
  <2>3. QED
    BY <1>1, <1>2, <1>3, <1>6, <2>2 DEF AllFetched, Progress, Pulling, Holds
<1>7. CASE TruncateMeta
  BY <1>1, <1>2, <1>3, <1>7 DEF TruncateMeta, Progress, Pulling, Holds
<1>8. CASE WriteMeta
  <2>1. meta' = [revision |-> rev, commit |-> sha] /\ pc = "write" /\ pc' = "idle"
    BY <1>8 DEF WriteMeta, Undisturbed, Benign, Fault
  <2>2. Holds(Now) /\ sha = Now
    BY <2>1 DEF Progress, Pulling
  <2>3. meta'.revision = rev /\ meta'.commit = Now /\ meta' # None
    <3>1. meta' \in Meta
      BY <1>2, <2>1, <2>2, World DEF Meta
    <3>2. QED
      BY <2>1, <2>2, <3>1, NoneAssumption
  <2>4. Now <= Now
    BY <1>2 DEF Commits
  <2>5. QED
    BY <1>1, <1>2, <1>3, <2>1, <2>2, <2>3, <2>4 DEF Progress, Pulling, Holds
<1>9. QED
  BY <1>4, <1>5, <1>6, <1>7, <1>8

LEMMA FollowsOn ==
  ASSUME NEW c \in Commits, NEW p \in Seq(Blocks), NEW b \in Seq(Blocks), b # <<>>, Follows(p, b, c)
  PROVE  Follows(Append(p, Head(b)), Tail(b), c)
<1> DEFINE a == Append(p, Head(b))
           t == Tail(b)
<1>1. /\ Len(p) \in Nat /\ Len(b) \in Nat /\ Len(b) # 0 /\ Head(b) = b[1] /\ Head(b) \in Blocks
      /\ SizeOf[c] \in Nat
  BY VersionIs, HeadTailProperties
<1>2. /\ a \in Seq(Blocks) /\ Len(a) = Len(p) + 1 /\ a[Len(p) + 1] = Head(b)
      /\ \A i \in 1..Len(p) : a[i] = p[i]
  BY <1>1, AppendProperties
<1>3. t \in Seq(Blocks) /\ Len(t) = Len(b) - 1 /\ \A i \in 1..Len(t) : t[i] = b[i + 1]
  BY HeadTailProperties
<1> HIDE DEF a, t
<1>4. Len(p) + Len(b) = SizeOf[c] /\ Prefix(p, c) /\ \A i \in 1..Len(b) : b[i] = <<c, Len(p) + i>>
  BY DEF Follows
<1>5. Len(a) + Len(t) = SizeOf[c] /\ Len(a) <= SizeOf[c]
  BY <1>1, <1>2, <1>3, <1>4
<1>6. ASSUME NEW i \in 1..Len(a)  PROVE a[i] = <<c, i>>
  <2>1. CASE i \in 1..Len(p)
    BY <1>2, <1>4, <2>1 DEF Prefix
  <2>2. CASE i = Len(p) + 1
    <3>1. 1 \in 1..Len(b)
      BY <1>1
    <3>2. QED
      BY <1>1, <1>2, <1>4, <2>2, <3>1
  <2>3. QED
    BY <1>1, <1>2, <2>1, <2>2
<1>7. ASSUME NEW i \in 1..Len(t)  PROVE t[i] = <<c, Len(a) + i>>
  <2>1. i + 1 \in 1..Len(b) /\ Len(p) + (i + 1) = Len(a) + i
    BY <1>1, <1>2, <1>3
  <2>2. QED
    BY <1>3, <1>4, <2>1
<1>8. QED
  BY <1>5, <1>6, <1>7 DEF Follows, Prefix, a, t

LEMMA EmptyPrefix ==
  ASSUME NEW c \in Commits
  PROVE  Prefix(<<>>, c) /\ Follows(<<>>, Version(c), c)
<1>1. Len(<<>>) = 0 /\ SizeOf[c] \in Nat /\ Len(Version(c)) = SizeOf[c]
      /\ \A i \in 1..SizeOf[c] : Version(c)[i] = <<c, i>>
  BY VersionIs
<1>2. Prefix(<<>>, c)
  BY <1>1 DEF Prefix
<1>3. \A i \in 1..SizeOf[c] : Version(c)[i] = <<c, 0 + i>>
  BY <1>1
<1>4. 0 + SizeOf[c] = SizeOf[c]
  BY <1>1
<1>5. QED
  BY <1>1, <1>2, <1>3, <1>4 DEF Follows

(* The steps of a transfer that leave the files and the label alone.       *)
LEMMA TransferProgress ==
  ASSUME Undisturbed, Progress, UNCHANGED <<head, rev, dest, meta, sha, force, file>>,
         Pulling, pc \notin {"meta", "write"}, pc' \notin {"meta", "write"}
  PROVE  Progress'
  BY DEF Progress, Pulling, Holds, Now

LEMMA OpenHonest ==
  ASSUME TypeOK, Complete, Undisturbed, Parts, Answer, Progress, OpenPart
  PROVE  Parts' /\ Answer' /\ Progress'
<1> USE DEF disk, hub
<1>1. /\ pc = "open" /\ pc' = "request" /\ ~checked' /\ file \in Files
      /\ UNCHANGED <<head, rev, world, dest, meta, sha, force, file>>
  BY DEF OpenPart, Complete
<1>2. Now' = Now /\ Now \in Commits
  BY <1>1, World DEF Now
<1>3. CASE part[file] = None
  <2>1. /\ base' = 0 /\ part' = [part EXCEPT ![file] = <<>>] /\ part \in [Files -> Contents]
    BY <1>3 DEF OpenPart, TypeOK
  <2>2. part'[file] = <<>> /\ \A f \in Files \ {file} : part'[f] = part[f]
    BY <1>1, <2>1
  <2>3. Parts'
    BY <1>1, <1>2, <2>2, EmptyPrefix DEF Parts
  <2>4. Answer'
    BY <1>1, <2>1, <2>2 DEF Answer
  <2>5. QED
    BY <1>1, <2>3, <2>4, TransferProgress DEF Pulling
<1>4. CASE part[file] # None
  <2>1. base' = Len(part[file]) /\ part' = part
    BY <1>4 DEF OpenPart
  <2>2. Parts' /\ Answer'
    BY <1>1, <1>2, <2>1 DEF Parts, Answer
  <2>3. QED
    BY <1>1, <2>2, TransferProgress DEF Pulling
<1>5. QED
  BY <1>3, <1>4

LEMMA RespondHonest ==
  ASSUME TypeOK, Complete, Undisturbed, Parts, Answer, Progress, Respond
  PROVE  Parts' /\ Answer' /\ Progress'
<1> USE DEF disk, hub
<1>1. /\ pc = "request" /\ pc' = "body" /\ resp' \in Responses(base)
      /\ UNCHANGED <<head, rev, world, dest, part, meta, sha, force, file, base, checked>>
  BY DEF Respond
<1>2. Now' = Now /\ Now \in Commits
  BY <1>1, World DEF Now
<1>3. Parts'
  BY <1>1, <1>2 DEF Parts
<1> DEFINE p == part[file]
           c == Now
<1>4. file \in Files /\ p # None /\ p \in Seq(Blocks) /\ Prefix(p, c) /\ base = Len(p) /\ ~checked
  BY <1>1 DEF Complete, Parts, Answer, TypeOK, Contents
<1>5. /\ SizeOf[c] \in Nat /\ Version(c) \in Seq(Blocks) /\ Len(Version(c)) = SizeOf[c]
      /\ \A i \in 1..SizeOf[c] : Version(c)[i] = <<c, i>>
  BY <1>2, VersionIs
<1>6. base \in Nat /\ base <= SizeOf[c]
  BY <1>4 DEF Prefix, TypeOK
<1>7. Len(<<>>) = 0
  OBVIOUS
<1> HIDE DEF c
<1>8. \/ resp' = [code |-> "200", body |-> Version(c), total |-> None]
      \/ /\ 0 < base /\ base < SizeOf[c]
         /\ resp' = [code |-> "206", body |-> SubSeq(Version(c), base + 1, SizeOf[c]), total |-> None]
      \/ \E b \in {<<>>, <<ErrorBlock>>} : SizeOf[c] <= base
              /\ resp' = [code |-> "416", body |-> b, total |-> SizeOf[c]]
      \/ resp' = [code |-> "416", body |-> <<>>, total |-> None]
      \/ \E b \in {<<>>, <<ErrorBlock>>} : resp' = [code |-> "error", body |-> b, total |-> None]
  BY <1>1 DEF Responses, c, Now
<1>9. CASE resp' = [code |-> "200", body |-> Version(c), total |-> None]
  <2>1. resp'.code = "200" /\ resp'.body = Version(c)
    BY <1>9
  <2>2. Follows(<<>>, Version(c), c)
    BY <1>2, EmptyPrefix DEF c
  <2>3. base = 0 => Follows(p, Version(c), c)
    BY <1>4, <1>5, <1>7, <2>2 DEF Follows
  <2>4. Answer'
    BY <1>1, <1>2, <1>4, <1>6, <2>1, <2>2, <2>3 DEF Answer, c
  <2>5. QED
    BY <1>1, <1>3, <2>4, TransferProgress DEF Pulling
<1>10. CASE /\ 0 < base /\ base < SizeOf[c]
            /\ resp' = [code |-> "206", body |-> SubSeq(Version(c), base + 1, SizeOf[c]), total |-> None]
  <2> DEFINE b == SubSeq(Version(c), base + 1, SizeOf[c])
  <2>1. \A i \in (base + 1)..SizeOf[c] : Version(c)[i] \in Blocks
    <3>1. \A i \in (base + 1)..SizeOf[c] : i \in 1..Len(Version(c))
      BY <1>5, <1>6
    <3>2. QED
      BY <1>5, <3>1
  <2>2. /\ b \in Seq(Blocks) /\ Len(b) = SizeOf[c] - (base + 1) + 1
        /\ \A i \in 1..(SizeOf[c] - (base + 1) + 1) : b[i] = Version(c)[(base + 1) + i - 1]
    <3>1. base + 1 \in Int /\ SizeOf[c] \in Int /\ base + 1 <= SizeOf[c]
      BY <1>5, <1>6, <1>10
    <3>2. QED
      BY <2>1, <3>1, SubSeqProperties
  <2>3. resp'.code = "206" /\ resp'.body = b
    BY <1>10
  <2> HIDE DEF b
  <2>4. Len(p) + Len(b) = SizeOf[c]
    BY <1>4, <1>5, <1>6, <2>2
  <2>5. ASSUME NEW i \in 1..Len(b)  PROVE b[i] = <<c, Len(p) + i>>
    <3>1. i \in 1..(SizeOf[c] - (base + 1) + 1) /\ (base + 1) + i - 1 = base + i /\ base + i \in 1..SizeOf[c]
      BY <1>5, <1>6, <2>2
    <3>2. QED
      BY <1>4, <1>5, <2>2, <3>1
  <2>6. Follows(p, b, c)
    BY <1>4, <2>4, <2>5 DEF Follows
  <2>7. Answer'
    BY <1>1, <1>2, <1>10, <2>3, <2>6 DEF Answer, c
  <2>8. QED
    BY <1>1, <1>3, <2>7, TransferProgress DEF Pulling
<1>11. ASSUME NEW b \in {<<>>, <<ErrorBlock>>}, NEW t, NEW k \in {"416", "error"},
              resp' = [code |-> k, body |-> b, total |-> t],
              t # None => t = SizeOf[c] /\ SizeOf[c] <= base
       PROVE  Parts' /\ Answer' /\ Progress'
  <2>1. resp'.code = k /\ resp'.body = b /\ resp'.total = t
    BY <1>11
  <2>2. t # None => base >= SizeOf[c]
    BY <1>5, <1>6, <1>11
  <2>3. Answer'
    BY <1>1, <1>2, <1>4, <1>11, <2>1, <2>2 DEF Answer, c
  <2>4. QED
    BY <1>1, <1>3, <2>3, TransferProgress DEF Pulling
<1>12. QED
  BY <1>8, <1>9, <1>10, <1>11

LEMMA ReceiveHonest ==
  ASSUME TypeOK, Complete, Undisturbed, Parts, Answer, Progress, Receive
  PROVE  Parts' /\ Answer' /\ Progress'
<1> USE DEF disk, hub
<1> DEFINE p == part[file]
           c == Now
           b == resp.body
<1>1. /\ pc = "body" /\ pc' = "body" /\ b # <<>> /\ file \in Files
      /\ UNCHANGED <<head, rev, world, dest, meta, sha, force, file>>
      /\ part' = [part EXCEPT ![file] = Append(IF Restarts THEN <<>> ELSE @, Head(b))]
      /\ base' = IF Restarts THEN 0 ELSE base
      /\ checked' = (checked \/ base > 0)
      /\ resp' = [resp EXCEPT !.body = Tail(@)]
  BY DEF Receive, Complete
<1>2. Now' = Now /\ c \in Commits
  BY <1>1, World DEF Now
<1>3. /\ p # None /\ p \in Seq(Blocks) /\ b \in Seq(Blocks) /\ base \in Nat /\ part \in [Files -> Contents]
      /\ resp \in [code : Codes \cup {"none"}, body : Seq(Blocks), total : Nat \cup {None}]
  BY <1>1 DEF Complete, TypeOK, Contents
<1>4. Parts'
  BY <1>1, <1>2, <1>3 DEF Parts
<1>5. Progress'
  BY <1>1, TransferProgress DEF Pulling
<1>6. /\ resp'.code = resp.code /\ resp'.total = resp.total /\ resp'.body = Tail(b)
      /\ part'[file] = Append(IF Restarts THEN <<>> ELSE p, Head(b))
  BY <1>1, <1>3
<1>7. resp.code \in Codes
  BY <1>1, <1>3 DEF Answer
<1>8. CASE resp.code = "200" /\ base = 0 /\ Follows(p, b, c)
  <2>1. Follows(Append(p, Head(b)), Tail(b), c)
    BY <1>1, <1>2, <1>3, <1>8, FollowsOn
  <2>2. ~Restarts
    BY <1>8 DEF Restarts
  <2>3. Answer'
    BY <1>1, <1>2, <1>6, <1>8, <2>1, <2>2 DEF Answer
  <2>4. QED
    BY <1>4, <1>5, <2>3
<1>9. CASE resp.code = "200" /\ base > 0 /\ ~checked /\ Follows(<<>>, b, c)
  <2>1. <<>> \in Seq(Blocks)
    OBVIOUS
  <2>2. Follows(Append(<<>>, Head(b)), Tail(b), c)
    BY <1>1, <1>2, <1>3, <1>9, <2>1, FollowsOn
  <2>3. Restarts
    BY <1>9 DEF Restarts
  <2>4. Answer'
    BY <1>1, <1>2, <1>6, <1>9, <2>2, <2>3 DEF Answer
  <2>5. QED
    BY <1>4, <1>5, <2>4
<1>10. CASE resp.code = "206" /\ base > 0 /\ Follows(p, b, c)
  <2>1. Follows(Append(p, Head(b)), Tail(b), c)
    BY <1>1, <1>2, <1>3, <1>10, FollowsOn
  <2>2. ~Restarts
    BY <1>10 DEF Restarts
  <2>3. Answer'
    BY <1>1, <1>2, <1>6, <1>10, <2>1, <2>2 DEF Answer
  <2>4. QED
    BY <1>4, <1>5, <2>3
<1>11. CASE resp.code \in {"416", "error"}
  <2>1. Len(p) = base /\ b = <<ErrorBlock>>
    BY <1>1, <1>11 DEF Answer
  <2>2. ~Restarts
    BY <1>11 DEF Restarts
  <2>3. Head(b) = ErrorBlock /\ Tail(b) = <<>> /\ ErrorBlock \in Blocks
    <3>1. Head(b) = ErrorBlock
      BY <2>1
    <3>2. Tail(b) = <<>>
      <4>1. Len(b) = 1
        BY <2>1
      <4>2. Tail(b) \in Seq(Blocks) /\ Len(Tail(b)) = Len(b) - 1
        BY <1>1, <1>3, HeadTailProperties
      <4>3. Len(Tail(b)) = 0
        BY <4>1, <4>2
      <4>4. \A s \in Seq(Blocks) : Len(s) = 0 => s = <<>>
        BY EmptySeq
      <4>5. QED
        BY <4>2, <4>3, <4>4
    <3>3. QED
      BY <3>1, <3>2 DEF Blocks
  <2>4. part'[file] = Append(p, ErrorBlock)
    BY <1>6, <2>2, <2>3
  <2>5. Len(part'[file]) = base + 1 /\ part'[file][base + 1] = ErrorBlock
    BY <1>3, <2>1, <2>3, <2>4, AppendProperties
  <2>6. resp.code = "416" /\ resp.total # None => resp.total = SizeOf[c] /\ base >= SizeOf[c]
    BY <1>1, <1>11 DEF Answer
  <2>7. base' = base /\ resp'.body = <<>>
    BY <1>1, <1>6, <2>2, <2>3
  <2>8. resp.code \notin {"200", "206", "none"}
    BY <1>11
  <2> HIDE DEF b, p
  <2>9. Answer'
    BY <1>1, <1>2, <1>6, <1>11, <2>5, <2>6, <2>7, <2>8 DEF Answer
  <2>10. QED
    BY <1>4, <1>5, <2>9
<1>12. QED
  BY <1>1, <1>7, <1>8, <1>9, <1>10, <1>11 DEF Answer, Codes

LEMMA SucceedHonest ==
  ASSUME TypeOK, Complete, Undisturbed, Parts, Answer, Progress, Succeed
  PROVE  Parts' /\ Answer' /\ Progress'
<1> USE DEF disk, hub
<1> DEFINE p == part[file]
           c == Now
<1>1. /\ pc = "body" /\ resp.body = <<>> /\ file \in Files
      /\ RenamePart(p) /\ UNCHANGED <<head, world>>
      /\ resp.code \in {"200", "206"} \/ (resp.code = "416" /\ PartIsWhole(p))
  <2>1. world.faults = {}
    BY DEF Undisturbed, Benign
  <2>2. pc = "body" /\ resp.body = <<>> /\ file \in Files /\ UNCHANGED <<head, world>>
    BY DEF Succeed, BodyDone, Complete
  <2>3. PICK x \in Flushed : /\ resp.code \in {"200", "206"} \/ (resp.code = "416" /\ PartIsWhole(x))
                             /\ RenamePart(x)
    BY DEF Succeed
  <2>4. x = p
    BY <2>1, <2>2, FlushedType
  <2>5. QED
    BY <2>2, <2>3, <2>4
<1>2. /\ pc' = "file" /\ file' = file + 1 /\ dest' = [dest EXCEPT ![file] = p]
      /\ part' = [part EXCEPT ![file] = None] /\ UNCHANGED <<head, rev, world, meta, sha, force>>
  BY <1>1 DEF RenamePart
<1>3. Now' = Now /\ c \in Commits
  BY <1>2, World DEF Now
<1>4. /\ p # None /\ p \in Seq(Blocks) /\ base \in Nat
      /\ part \in [Files -> Contents] /\ dest \in [Files -> Contents]
  BY <1>1 DEF Complete, TypeOK, Contents
<1>5. SizeOf[c] \in Nat /\ SizeOf[c] > 0 /\ Len(<<>>) = 0 /\ Len(p) \in Nat
  BY <1>3, <1>4, VersionIs
<1>6. Prefix(p, c) /\ Len(p) = SizeOf[c]
  <2>1. ASSUME Follows(p, <<>>, c)  PROVE Prefix(p, c) /\ Len(p) = SizeOf[c]
    BY <1>5, <2>1 DEF Follows
  <2>2. ~Follows(<<>>, <<>>, c)
    BY <1>5 DEF Follows
  <2>3. CASE resp.code \in {"200", "206"}
    BY <1>1, <2>1, <2>2, <2>3 DEF Answer
  <2>4. CASE resp.code = "416" /\ PartIsWhole(p)
    <3>1. resp.total # None /\ Len(p) = resp.total
      BY <2>4 DEF PartIsWhole
    <3>2. resp.total = SizeOf[c] /\ base >= SizeOf[c]
      BY <1>1, <2>4, <3>1 DEF Answer
    <3>3. Len(p) # base + 1
      BY <1>4, <1>5, <3>1, <3>2
    <3>4. QED
      BY <1>1, <2>4, <3>1, <3>2, <3>3 DEF Answer
  <2>5. QED
    BY <1>1, <2>3, <2>4
<1>7. p = Version(c)
  BY <1>3, <1>4, <1>6, WholePrefix
<1>8. /\ \A f \in Files : dest'[f] = IF f = file THEN Version(Now) ELSE dest[f]
      /\ \A f \in Files : part'[f] = IF f = file THEN None ELSE part[f]
  BY <1>1, <1>2, <1>4, <1>7
<1>9. Parts' /\ Answer'
  BY <1>1, <1>2, <1>3, <1>8 DEF Parts, Answer
<1>10. \A f \in Files : f < file + 1 => f < file \/ f = file
  BY <1>1, NumsAssumption DEF Files
<1>11. Pulling /\ Pulling' /\ pc # "write"
  BY <1>1, <1>2 DEF Pulling
<1> HIDE DEF p, c
<1>12. Progress'
  BY <1>1, <1>2, <1>3, <1>8, <1>10, <1>11 DEF Progress, Holds, c
<1>13. QED
  BY <1>9, <1>12

LEMMA EndHonest ==
  ASSUME TypeOK, Complete, Undisturbed, Parts, Answer, Progress, Retry \/ Refused \/ Interrupt
  PROVE  Parts' /\ Answer' /\ Progress'
<1> USE DEF disk, hub
<1>1. UNCHANGED <<head, rev, world, dest, meta, sha, force, file>> /\ pc # "idle"
  BY DEF Retry, Refused, Interrupt, GiveUp, RemovePart, BodyDone, Pulling
<1>2. Now' = Now /\ Now \in Commits
  BY <1>1, World DEF Now
<1>3. CASE Retry \/ Refused
  <2>1. /\ pc = "body" /\ pc' \in {"open", "idle"} /\ part' = [part EXCEPT ![file] = None]
        /\ file \in Files
    BY <1>3 DEF Retry, Refused, GiveUp, RemovePart, BodyDone, Complete
  <2>2. \A f \in Files : part'[f] = IF f = file THEN None ELSE part[f]
    BY <2>1 DEF TypeOK
  <2>3. Parts' /\ Answer'
    BY <1>1, <1>2, <2>1, <2>2 DEF Parts, Answer
  <2>4. QED
    BY <1>1, <2>1, <2>3, TransferProgress DEF Pulling
<1>4. CASE Interrupt
  <2>1. pc' = "idle" /\ part' = part /\ ~HoldsError
    BY <1>4 DEF Interrupt, GiveUp, Undisturbed, Benign, Fault
  <2>2. ASSUME pc = "body"  PROVE Prefix(part[file], Now)
    <3> DEFINE p == part[file]
    <3>1. p \in Seq(Blocks) /\ base \in Nat
      BY <2>2 DEF Complete, TypeOK, Contents
    <3>2. resp.code \in Codes
      BY <2>2 DEF Answer, TypeOK
    <3>3. CASE resp.code \in {"200", "206"}
      <4>1. Follows(p, resp.body, Now) \/ Prefix(p, Now)
        BY <2>2, <3>3 DEF Answer
      <4>2. QED
        BY <4>1 DEF Follows
    <3>4. CASE resp.code \in {"416", "error"}
      <4>1. ~(Len(p) = base + 1 /\ p[Len(p)] = ErrorBlock)
        <5>1. SUFFICES ASSUME Len(p) = base + 1, p[Len(p)] = ErrorBlock  PROVE FALSE
          OBVIOUS
        <5>2. p # <<>>
          <6>1. Len(p) # 0
            BY <3>1, <5>1
          <6>2. QED
            BY <6>1
        <5>3. QED
          BY <2>1, <2>2, <3>4, <5>1, <5>2 DEF HoldsError
      <4>2. QED
        BY <2>2, <3>4, <4>1 DEF Answer
    <3>5. QED
      BY <3>2, <3>3, <3>4 DEF Codes
  <2>3. Parts' /\ Answer'
    BY <1>1, <1>2, <2>1, <2>2 DEF Parts, Answer
  <2>4. Progress'
    BY <1>1, <1>2, <2>1 DEF Progress, Pulling, Holds
  <2>5. QED
    BY <2>3, <2>4
<1>5. QED
  BY <1>3, <1>4

LEMMA HonestKept ==
  ASSUME TypeOK, Complete, Honest, [Next]_vars
  PROVE  Honest'
<1>1. UNCHANGED world
  BY DEF Next, Process, Move, Start, Interrupt, SkipFile, FetchFile, AllFetched, TruncateMeta,
     WriteMeta, OpenPart, Respond, Receive, Succeed, Retry, Refused, GiveUp, hub, disk, vars
<1>2. SUFFICES ASSUME Undisturbed'  PROVE Parts' /\ Answer' /\ Progress'
  BY DEF Honest
<1>3. Undisturbed
  BY <1>1, <1>2 DEF Undisturbed, Benign, OneRevision
<1>4. Parts /\ Answer /\ Progress
  BY <1>3 DEF Honest
<1>5. CASE UNCHANGED vars
  BY <1>4, <1>5 DEF vars, hub, disk, pull, Parts, Answer, Progress, Pulling, Holds, Now
<1>6. QED
  BY <1>3, <1>4, <1>5, MoveHonest, StartHonest, LoopHonest, OpenHonest, RespondHonest,
     ReceiveHonest, SucceedHonest, EndHonest DEF Next, Process

LEMMA PullInductive == Spec => [](TypeOK /\ Complete /\ Honest)
<1>1. Init => TypeOK /\ Complete /\ Honest
  <2> SUFFICES ASSUME Init PROVE TypeOK /\ Complete /\ Honest
    OBVIOUS
  <2>1. TypeOK
    <3>1. world.commits \in Commits /\ 1..world.commits \subseteq Commits
      BY WorldAssumption, NumsAssumption DEF Init, Commits
    <3>2. head \in [Revs -> Commits] /\ 1 \in 1..(NumFiles + 1)
      BY <3>1, NumsAssumption DEF Init, Commits
    <3>4. attempt \in {0, 1} /\ base \in Nat /\ sha \in Commits \cup {None}
      BY DEF Init
    <3>5. resp \in [code : Codes \cup {"none"}, body : Seq(Blocks), total : Nat \cup {None}]
      <4>1. <<>> \in Seq(Blocks)
        OBVIOUS
      <4>2. QED
        BY <4>1 DEF Init, NoResponse
    <3>6. /\ dest \in [Files -> Seq(Blocks) \cup {None}]
          /\ part \in [Files -> Seq(Blocks) \cup {None}]
      BY DEF Init
    <3>7. QED
      BY <3>2, <3>4, <3>5, <3>6 DEF Init, TypeOK, Contents, Labels
  <2>2. Complete
    BY DEF Init, Complete, Pulling
  <2>3. Honest
    BY DEF Init, Honest, Parts, Answer, Progress, Pulling
  <2>4. QED
    BY <2>1, <2>2, <2>3
<1>2. TypeOK /\ Complete /\ Honest /\ [Next]_vars => (TypeOK /\ Complete /\ Honest)'
  BY TypesKept, CompleteKept, HonestKept
<1>3. QED
  BY <1>1, <1>2, PTL DEF Spec

(* Every variable of a pull has its type at every step.                   *)
THEOREM PullTypeCorrect == Spec => []TypeOK
  BY PullInductive, PTL

(* A pinned revision is resolved by config.json and the label alone: every *)
(* file of the plan is then in the directory, whatever the hub answered,   *)
(* the disk lost or the user interrupted in the pulls before.              *)
THEOREM PinnedIsComplete == Spec => []PinnedHasAllFiles
<1>1. TypeOK /\ Complete => PinnedHasAllFiles
  BY NoneAssumption DEF Complete, PinnedHasAllFiles, Accepted
<1>2. QED
  BY <1>1, PullInductive, PTL

(* One revision, nothing going wrong but interruptions and moves of the    *)
(* revision between two pulls: each file is a whole file of one commit.    *)
THEOREM FilesAreWhole == Spec => []FilesWhole
<1>1. Honest => FilesWhole
  BY DEF Honest, Undisturbed, Progress, FilesWhole
<1>2. QED
  BY <1>1, PullInductive, PTL

(* And a directory labelled with the commit its revision names is exactly  *)
(* that commit.                                                            *)
THEOREM LabelIsHonest == Spec => []LabelHonest
<1>1. TypeOK /\ Honest => LabelHonest
  BY DEF Honest, Undisturbed, Progress, LabelHonest, Snapshot, Now, Holds
<1>2. QED
  BY <1>1, PullInductive, PTL
=============================================================================
