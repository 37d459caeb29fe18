-------------------------------- MODULE Pull --------------------------------
(***************************************************************************)
(* registry_pull (registry.c) and reg_download_file (hub_client.c): one    *)
(* model's directory in the cache, the hub it is filled from, and a        *)
(* process that pulls it again and again, interrupted at any point.        *)
(*                                                                         *)
(* A file is a sequence of blocks <<commit, position>>; it is downloaded   *)
(* to <file>.part, block by block, and renamed when the transfer is over.  *)
(* No signal handler is installed while pulling, so an interruption        *)
(* (Crash) leaves on disk whatever is there and forgets the rest.          *)
(***************************************************************************)
EXTENDS Integers, Sequences

CONSTANTS
    Revs,           \* revisions (branches and tags) of the repository
    NumFiles,       \* files of the plan, in the order they are downloaded
    Config,         \* which of them is config.json
    NumCommits,     \* commits of the hub's repository
    SizeOf,         \* blocks of a file at each commit
    Worlds,         \* the surroundings a behaviour may have
    MaxPart,        \* bound: an error response is not cut with a longer .part
    None

(* What may go wrong around a pull: the revision moves at any time, not only *)
(* when Settled; an error response is cut before its body is whole; the      *)
(* flush of a file that is closed fails.                                     *)
Faults == {"moves_any_time", "torn_errors", "disk_fills"}

ASSUME NumsAssumption  == NumFiles \in Nat \ {0} /\ NumCommits \in Nat \ {0}
                          /\ Config \in 1..NumFiles
ASSUME SizeAssumption  == SizeOf \in [1..NumCommits -> Nat \ {0}]
ASSUME WorldAssumption ==
    Worlds \subseteq [revs : SUBSET Revs,       \* those that are pulled
                      commits : 1..NumCommits,  \* how far they may move
                      sha : BOOLEAN,            \* the API answer carries "sha"
                      faults : SUBSET Faults]
ASSUME BoundAssumption == MaxPart \in Nat

Files == 1..NumFiles
Commits == 1..NumCommits

VARIABLES
    world,      \* never changes
    head,       \* the hub: the commit each revision names
    dest,       \* disk: contents of each file, None if absent
    part,       \* disk: contents of its .part, None if absent
    meta,       \* disk: .mlxd-meta.json as it reads, None if absent or cut short
    pc,         \* where the pull stands
    rev, sha,   \* the revision it was asked for, the commit the API named
    force,      \* force_redownload
    file,       \* index of the file it is at
    attempt,    \* the attempt of reg_download_file
    base,       \* resume_base
    checked,    \* response_checked
    resp        \* the response being received: code, blocks to come, total

hub  == <<world, head>>
disk == <<dest, part, meta>>
pull == <<pc, rev, sha, force, file, attempt, base, checked, resp>>
vars == <<hub, disk, pull>>

-----------------------------------------------------------------------------
ErrorBlock == <<0, 0>>      \* the body of an error response
Blocks == (Commits \X Nat) \cup {ErrorBlock}

\* The contents of any file at commit c.
Version(c) == [p \in 1..SizeOf[c] |-> <<c, p>>]

NoResponse == [code |-> "none", body |-> <<>>, total |-> None]

\* The codes the downloader tells apart; "error" is any other one.
Codes == {"200", "206", "416", "error"}

Meta == [revision : Revs, commit : Commits \cup {None}]

ASSUME NoneAssumption == None \notin Revs \cup Commits \cup Meta \cup Seq(Blocks)

Pulling == pc # "idle"

\* Nothing is being pulled and nothing is left of an interrupted pull but,
\* possibly, files that a later one replaced.
Settled == ~Pulling /\ meta # None /\ \A f \in Files : part[f] = None

Init ==
    /\ world \in Worlds
    /\ head \in [Revs -> 1..world.commits]
    /\ \A r \in Revs \ world.revs : head[r] = 1
    /\ dest = [f \in Files |-> None]
    /\ part = [f \in Files |-> None]
    /\ meta = None
    /\ pc = "idle"
    /\ rev \in world.revs
    /\ sha = None
    /\ force = FALSE
    /\ file = 1
    /\ attempt = 0
    /\ base = 0
    /\ checked = FALSE
    /\ resp = NoResponse

-----------------------------------------------------------------------------
(* The hub.                                                                *)

Fault(f) == f \in world.faults

\* Someone pushes to the repository.
Move(r) ==
    /\ r \in world.revs
    /\ Fault("moves_any_time") \/ Settled
    /\ \E c \in 1..world.commits : c > head[r] /\ head' = [head EXCEPT ![r] = c]
    /\ UNCHANGED <<world, disk, pull>>

\* What the hub may answer to a request for the revision's file from block
\* `from`.  It serves the commit the revision names now, as the URL names the
\* revision and not the commit, and it may ignore Range or fail.
Responses(from) ==
    LET c == head[rev] IN
    {[code |-> "200", body |-> Version(c), total |-> None]}
    \cup {[code |-> "206", body |-> SubSeq(Version(c), from + 1, SizeOf[c]), total |-> None]
            : x \in {y \in {from} : 0 < y /\ y < SizeOf[c]}}
    \cup {[code |-> "416", body |-> b, total |-> SizeOf[c]]
            : b \in {y \in {<<>>, <<ErrorBlock>>} : SizeOf[c] =< from}}
    \cup {[code |-> "416", body |-> <<>>, total |-> None]}
    \cup {[code |-> "error", body |-> b, total |-> None] : b \in {<<>>, <<ErrorBlock>>}}

-----------------------------------------------------------------------------
(* registry_pull.                                                          *)

\* Mutant: the label's revision is compared where the commit should be.
ForceByRevision(r, c) == meta # None /\ meta.revision # r

\* reg_meta_read_revision / meta_read_field against the API's answer: the
\* cached files are replaced when the directory is labelled with something else.
ForceRedownload(r, c) ==
    /\ meta # None
    /\ IF c # None THEN meta.commit \notin {None, c}
                   ELSE meta.revision # r

\* The API answered with a plan.  (A failure here returns before anything changes.)
Start(r) ==
    /\ ~Pulling /\ r \in world.revs
    /\ rev' = r
    /\ sha' = IF world.sha THEN head[r] ELSE None
    /\ force' = ForceRedownload(r, sha')
    /\ file' = 1
    /\ pc' = "file"
    /\ UNCHANGED <<hub, disk, attempt, base, checked, resp>>

\* The head of the loop over the plan: a file that is there is kept.
SkipFile ==
    /\ pc = "file" /\ file \in Files
    /\ ~force /\ dest[file] \notin {None, <<>>}
    /\ file' = file + 1
    /\ UNCHANGED <<hub, disk, pc, rev, sha, force, attempt, base, checked, resp>>

FetchFile ==
    /\ pc = "file" /\ file \in Files
    /\ force \/ dest[file] \in {None, <<>>}
    /\ attempt' = 0
    /\ pc' = "open"
    /\ UNCHANGED <<hub, disk, rev, sha, force, file, base, checked, resp>>

AllFetched ==
    /\ pc = "file" /\ file \notin Files
    /\ pc' = "meta"
    /\ UNCHANGED <<hub, disk, rev, sha, force, file, attempt, base, checked, resp>>

\* write_meta_json: fopen "w" empties the file, fclose fills it.
TruncateMeta ==
    /\ pc = "meta"
    /\ meta' = None
    /\ pc' = "write"
    /\ UNCHANGED <<hub, dest, part, rev, sha, force, file, attempt, base, checked, resp>>

\* The result of the write is ignored: the pull has succeeded all the same.
WriteMeta ==
    /\ pc = "write"
    /\ \/ meta' = [revision |-> rev, commit |-> sha]
       \/ Fault("disk_fills") /\ UNCHANGED meta
    /\ pc' = "idle"
    /\ UNCHANGED <<hub, dest, part, rev, sha, force, file, attempt, base, checked, resp>>

-----------------------------------------------------------------------------
(* reg_download_file.                                                      *)

\* From `retry`: append to the .part that is there, or create it.
OpenPart ==
    /\ pc = "open"
    /\ base' = IF part[file] = None THEN 0 ELSE Len(part[file])
    /\ part' = IF part[file] = None THEN [part EXCEPT ![file] = <<>>] ELSE part
    /\ checked' = FALSE
    /\ pc' = "request"
    /\ UNCHANGED <<hub, dest, meta, rev, sha, force, file, attempt, resp>>

Respond ==
    /\ pc = "request"
    /\ resp' \in Responses(base)
    /\ pc' = "body"
    /\ UNCHANGED <<hub, disk, rev, sha, force, file, attempt, base, checked>>

\* Mutant: the whole file is appended to the part it was to complete.
NeverRestarts == FALSE

\* dl_write_cb: a 200 where a range was asked for starts the file again.
Restarts == ~checked /\ base > 0 /\ resp.code = "200"

Receive ==
    /\ pc = "body" /\ resp.body # <<>>
    /\ part' = [part EXCEPT ![file] = Append(IF Restarts THEN <<>> ELSE @, Head(resp.body))]
    /\ base' = IF Restarts THEN 0 ELSE base
    /\ checked' = (checked \/ base > 0)
    /\ resp' = [resp EXCEPT !.body = Tail(@)]
    /\ UNCHANGED <<hub, dest, meta, pc, rev, sha, force, file, attempt>>

\* The pull returns NULL, or the process ends: the same for the disk.
GiveUp ==
    /\ pc' = "idle"
    /\ resp' = NoResponse
    /\ UNCHANGED <<rev, sha, force, file, attempt, base, checked>>

\* The contents the closed .part may have: the last blocks written, still in
\* the stream's buffer, are lost when the disk is full; fclose is not checked.
Flushed ==
    LET p == part[file] IN
    {p} \cup {SubSeq(p, 1, k) : k \in {k \in base..Len(p) : Fault("disk_fills")}}

RenamePart(p) ==
    /\ dest' = [dest EXCEPT ![file] = p]
    /\ part' = [part EXCEPT ![file] = None]
    /\ file' = file + 1
    /\ pc' = "file"
    /\ resp' = NoResponse
    /\ UNCHANGED <<meta, rev, sha, force, attempt, base, checked>>

\* A part that the hub says is as long as the file is the file.
PartIsWhole(p) == resp.total # None /\ Len(p) = resp.total

RemovePart == part' = [part EXCEPT ![file] = None] /\ UNCHANGED <<dest, meta>>

BodyDone == pc = "body" /\ resp.body = <<>>

Succeed ==
    /\ BodyDone
    /\ \E p \in Flushed :
        /\ \/ resp.code \in {"200", "206"}
           \/ resp.code = "416" /\ PartIsWhole(p)
        /\ RenamePart(p)
    /\ UNCHANGED hub

\* Mutant: the attempt is not counted.
RetryUncounted ==
    /\ BodyDone
    /\ resp.code = "416" /\ (\E p \in Flushed : ~PartIsWhole(p))
    /\ RemovePart
    /\ pc' = "open"
    /\ resp' = NoResponse
    /\ UNCHANGED <<hub, rev, sha, force, file, attempt, base, checked>>

\* 416 with a part of another length: once, start from nothing.
Retry ==
    /\ BodyDone
    /\ resp.code = "416" /\ (\E p \in Flushed : ~PartIsWhole(p))
    /\ attempt = 0
    /\ attempt' = 1
    /\ RemovePart
    /\ pc' = "open"
    /\ resp' = NoResponse
    /\ UNCHANGED <<hub, rev, sha, force, file, base, checked>>

\* Mutant: the failure of a file does not end the loop over the plan.
RefusedSkips ==
    /\ BodyDone
    /\ \/ resp.code = "error"
       \/ resp.code = "416" /\ (\E p \in Flushed : ~PartIsWhole(p)) /\ attempt = 1
    /\ RemovePart
    /\ file' = file + 1
    /\ pc' = "file"
    /\ resp' = NoResponse
    /\ UNCHANGED <<hub, rev, sha, force, attempt, base, checked>>

Refused ==
    /\ BodyDone
    /\ \/ resp.code = "error"
       \/ resp.code = "416" /\ (\E p \in Flushed : ~PartIsWhole(p)) /\ attempt = 1
    /\ RemovePart
    /\ GiveUp
    /\ UNCHANGED hub

\* The part holds what came of an error response, which is about to be removed.
HoldsError ==
    /\ pc = "body" /\ resp.code \in {"416", "error"} /\ part[file] # <<>>
    /\ part[file][Len(part[file])] = ErrorBlock

\* A transport error, a stall, an abort asked by the progress callback, the end
\* of the process: the .part stays for the next pull.
Interrupt ==
    /\ Pulling
    /\ HoldsError => Fault("torn_errors") /\ Len(part[file]) =< MaxPart
    /\ GiveUp
    /\ UNCHANGED <<hub, disk>>

-----------------------------------------------------------------------------
Process ==
    \/ SkipFile \/ FetchFile \/ AllFetched \/ TruncateMeta \/ WriteMeta
    \/ OpenPart \/ Respond \/ Receive \/ Succeed \/ Retry \/ Refused

Next ==
    \/ \E r \in Revs : Move(r) \/ Start(r)
    \/ Process
    \/ Interrupt

Spec == Init /\ [][Next]_vars

\* A pull that was started goes on: libcurl's limits (connection time, a byte a
\* second over a minute) end a request that does not.
FairSpec == Spec /\ WF_vars(Process)

-----------------------------------------------------------------------------
(* registry_resolve: is the cached directory accepted for the model (with   *)
(* r = None) or for its revision r?                                         *)
Accepted(r) ==
    /\ dest[Config] # None
    /\ r # None => meta # None /\ meta.revision = r

-----------------------------------------------------------------------------
\* A directory labelled with the commit its revision names holds that commit,
\* file by file: what registry_pull returns is one snapshot, however many pulls
\* were interrupted before.
Snapshot ==
    meta # None /\ meta.commit = head[meta.revision]
        => \A f \in Files : dest[f] = Version(meta.commit)

\* That holds as long as nothing else goes wrong, the API names the commit and
\* one revision is pulled.
Benign == world.faults = {} /\ world.sha
OneRevision == \A r, s \in world.revs : r = s

LabelHonest == Benign /\ OneRevision => Snapshot

\* tests/test_registry_pull.c:254 has it of two revisions.
SnapshotOfAnyRevision == Benign => Snapshot

\* What stands under a file's own name is the whole file of some commit: no
\* short file, no error page, no end of one commit on the start of another,
\* though the .part it was made of was written over several pulls.
FilesWhole ==
    Benign /\ OneRevision =>
        \A f \in Files : dest[f] # None => \E c \in Commits : dest[f] = Version(c)

\* registry_resolve looks for config.json and the label only; for a pinned
\* revision that is enough for every file to be there.
PinnedHasAllFiles ==
    \A r \in Revs : Accepted(r) => \A f \in Files : dest[f] # None

\* A pull ends whatever the hub answers: 416 is retried once.
PullReturns == Pulling ~> ~Pulling

=============================================================================
