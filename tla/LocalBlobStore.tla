--------------------------- MODULE LocalBlobStore ---------------------------
(***************************************************************************)
(* The BlobStore half of LocalStorageBackend (local.rs) over a POSIX file  *)
(* system, one action per file-system call, so that concurrent calls       *)
(* interleave between them.                                                *)
(*                                                                         *)
(* A call creates at most one file, so a file (inode) is named by the call *)
(* that created it; its directory entry is either a temporary name         *)
(* ("<name>.<uuid>.uploading", unique to the call) or a key.  Bodies are   *)
(* counted in chunks; content[i] says whose body a file holds and how many *)
(* chunks of it have been written.  The tree is one directory; parents     *)
(* that cannot be made, full disks, permission errors and names that clash *)
(* with directories are the I/O errors any call may meet.                  *)
(***************************************************************************)
EXTENDS Naturals, FiniteSets

CONSTANTS Calls,         \* API calls, each made at most once
          Keys,          \* valid blob keys
          UploadingKeys, \* the keys whose file name ends with ".uploading"
          Sizes,         \* body lengths, in chunks
          Ranges,        \* requested byte ranges <<start, end>>, in chunks
          None           \* no file, no request

VARIABLES op,      \* op[c]: the request of call c
          pc,      \* pc[c]: the next file-system call of c
          res,     \* res[c]: what c returns (decided before its cleanup)
          names,   \* names[k]: the file that key k names
          temps,   \* the files that still have their temporary name
          content, \* content[i]: whose body file i holds, chunks written
          handle,  \* handle[c]: the file a reader or a copy has open
          pos,     \* pos[c]: next chunk of the open file to be read
          meta,    \* meta[c]: the file whose metadata head_blob returned
          todo,    \* todo[s]: directory entries sweep s has still to visit
          target,  \* target[s]: the entry sweep s is about to remove
          leaked   \* temporary names whose removal failed (history)

vars == <<op, pc, res, names, temps, content, handle, pos, meta, todo,
          target, leaked>>

Requests ==
  [kind : {"put", "create"}, key : Keys, size : Sizes]
    \cup [kind : {"get", "head", "delete"}, key : Keys]
    \cup [kind : {"range"}, key : Keys, range : Ranges]
    \cup [kind : {"copy"}, key : Keys, from : Keys]
    \cup [kind : {"sweep"}]

ASSUME ConstantsAssumption ==
  /\ UploadingKeys \subseteq Keys
  /\ Sizes \subseteq Nat
  /\ Ranges \subseteq Nat \X Nat
  /\ None \notin Calls \cup Keys \cup Requests
  /\ Calls \cap Keys = {}

Kind(c) == op[c].kind
Writers == {"put", "create", "copy"}
Readers == {"get", "range"}

\* Writers create_parent_dir first; everyone else goes straight to the tree.
FirstStep(kind) ==
  CASE kind \in Writers -> "prepare"
    [] kind \in Readers -> "open"
    [] kind = "sweep"   -> "readdir"
    [] OTHER            -> "single"

Init ==
  /\ op = [c \in Calls |-> None]
  /\ pc = [c \in Calls |-> "idle"]
  /\ res = [c \in Calls |-> "none"]
  /\ names = [k \in Keys |-> None]
  /\ temps = {}
  /\ content = [c \in Calls |-> [body |-> None, len |-> 0]]
  /\ handle = [c \in Calls |-> None]
  /\ pos = [c \in Calls |-> 0]
  /\ meta = [c \in Calls |-> None]
  /\ todo = [c \in Calls |-> {}]
  /\ target = [c \in Calls |-> None]
  /\ leaked = {}

Goto(c, label) == pc' = [pc EXCEPT ![c] = label]
Decide(c, r) == res' = [res EXCEPT ![c] = r]
Return(c, r) == Goto(c, "done") /\ Decide(c, r)

\* Mutant: an error arm that returns without removing the temporary file.
ForgetTemp(c, r) == Return(c, r)

\* The error arms that remove the temporary file before returning.
CleanUp(c, r) == Goto(c, "cleanup") /\ Decide(c, r)

Invoke(c) ==
  /\ pc[c] = "idle"
  /\ \E r \in Requests :
       /\ op' = [op EXCEPT ![c] = r]
       /\ Goto(c, FirstStep(r.kind))
  /\ UNCHANGED <<res, names, temps, content, handle, pos, meta, todo, target,
                 leaked>>

-----------------------------------------------------------------------------
(* Writers: put_blob, put_blob_if_not_exists, copy_blob                     *)

\* create_parent_dir; its error returns before there is anything to clean up.
Prepare(c) ==
  /\ pc[c] = "prepare"
  /\ \/ Goto(c, IF Kind(c) = "copy" THEN "open" ELSE "create") /\ res' = res
     \/ Return(c, "io")
  /\ UNCHANGED <<op, names, temps, content, handle, pos, meta, todo, target,
                 leaked>>

\* The bytes a writer has to write: its own stream, or the file a copy opened.
Source(c) == IF Kind(c) = "copy" THEN content[handle[c]]
                                 ELSE [body |-> c, len |-> op[c].size]

\* Mutant: the file is created under the key itself.
CreateInPlace(c) ==
  /\ pc[c] = "create"
  /\ temps' = temps \cup {c}
  /\ names' = [names EXCEPT ![op[c].key] = c]
  /\ content' = [content EXCEPT ![c] = [body |-> Source(c).body, len |-> 0]]
  /\ Goto(c, "write")
  /\ UNCHANGED <<op, res, handle, pos, meta, todo, target, leaked>>

\* File::create on a fresh uuid name, in write_stream_to_temp or fs::copy.
CreateTemp(c) ==
  /\ pc[c] = "create"
  /\ temps' = temps \cup {c}
  /\ content' = [content EXCEPT ![c] = [body |-> Source(c).body, len |-> 0]]
  /\ Goto(c, "write")
  /\ UNCHANGED <<op, res, names, handle, pos, meta, todo, target, leaked>>

WriteChunk(c) ==
  /\ pc[c] = "write"
  /\ content[c].len < Source(c).len
  /\ content' = [content EXCEPT ![c].len = @ + 1]
  /\ UNCHANGED <<op, pc, res, names, temps, handle, pos, meta, todo, target,
                 leaked>>

\* Mutant: a stream error taken for the end of the stream.
EndWriteAnyway(c) ==
  /\ pc[c] = "write"
  /\ Goto(c, "publish")
  /\ UNCHANGED <<op, res, names, temps, content, handle, pos, meta, todo,
                 target, leaked>>

\* The stream has ended and flush succeeded.
EndWrite(c) ==
  /\ pc[c] = "write"
  /\ content[c].len = Source(c).len
  /\ Goto(c, "publish")
  /\ UNCHANGED <<op, res, names, temps, content, handle, pos, meta, todo,
                 target, leaked>>

\* Mutant: a rename whose NotFound is ignored.
RenameUnchecked(c) ==
  /\ pc[c] = "publish"
  /\ Kind(c) \in {"put", "copy"}
  /\ names' = IF c \in temps THEN [names EXCEPT ![op[c].key] = c] ELSE names
  /\ temps' = temps \ {c}
  /\ Return(c, "ok")
  /\ UNCHANGED <<op, content, handle, pos, meta, todo, target, leaked>>

\* rename(temp, key) of put_blob and copy_blob: atomic, replaces the old file;
\* NotFound when a sweep has removed the temporary name meanwhile.
Rename(c) ==
  /\ pc[c] = "publish"
  /\ Kind(c) \in {"put", "copy"}
  /\ IF c \in temps
       THEN /\ names' = [names EXCEPT ![op[c].key] = c]
            /\ temps' = temps \ {c}
            /\ Return(c, "ok")
       ELSE /\ UNCHANGED <<names, temps>>
            /\ CleanUp(c, "io")
  /\ UNCHANGED <<op, content, handle, pos, meta, todo, target, leaked>>

\* Mutant: a conditional create that publishes with rename.
LinkReplaces(c) ==
  /\ pc[c] = "publish"
  /\ Kind(c) = "create" /\ c \in temps
  /\ names' = [names EXCEPT ![op[c].key] = c]
  /\ CleanUp(c, "ok")
  /\ UNCHANGED <<op, temps, content, handle, pos, meta, todo, target, leaked>>

\* Mutant: AlreadyExists is retried.
LinkRetries(c) ==
  /\ pc[c] = "publish"
  /\ Kind(c) = "create" /\ c \in temps
  /\ IF names[op[c].key] = None
       THEN names' = [names EXCEPT ![op[c].key] = c] /\ CleanUp(c, "ok")
       ELSE names' = names /\ Goto(c, "write") /\ res' = res
  /\ UNCHANGED <<op, temps, content, handle, pos, meta, todo, target, leaked>>

\* hard_link(temp, key) of put_blob_if_not_exists: fails when the key exists.
HardLink(c) ==
  /\ pc[c] = "publish"
  /\ Kind(c) = "create"
  /\ \/ /\ c \in temps /\ names[op[c].key] = None
        /\ names' = [names EXCEPT ![op[c].key] = c]
        /\ CleanUp(c, "ok")
     \/ /\ c \in temps /\ names[op[c].key] # None
        /\ names' = names
        /\ CleanUp(c, "exists")
     \/ /\ c \notin temps
        /\ names' = names
        /\ CleanUp(c, "io")
  /\ UNCHANGED <<op, temps, content, handle, pos, meta, todo, target, leaked>>

\* A create, stream, write, flush, rename or link error.
WriteFails(c) ==
  /\ pc[c] \in {"create", "write", "publish"}
  /\ CleanUp(c, "io")
  /\ UNCHANGED <<op, names, temps, content, handle, pos, meta, todo, target,
                 leaked>>

\* Mutant: remove_file(temp)? instead of let _ = remove_file(temp).
RemoveTempReported(c) ==
  /\ pc[c] = "cleanup"
  /\ \/ temps' = temps \ {c} /\ leaked' = leaked /\ res' = res
     \/ c \in temps /\ leaked' = leaked \cup {c} /\ temps' = temps /\ Decide(c, "io")
  /\ Goto(c, "done")
  /\ UNCHANGED <<op, names, content, handle, pos, meta, todo, target>>

\* let _ = remove_file(temp): its own failure is ignored.
RemoveTemp(c) ==
  /\ pc[c] = "cleanup"
  /\ \/ temps' = temps \ {c} /\ leaked' = leaked
     \/ c \in temps /\ leaked' = leaked \cup {c} /\ temps' = temps
  /\ Goto(c, "done")
  /\ UNCHANGED <<op, res, names, content, handle, pos, meta, todo, target>>

-----------------------------------------------------------------------------
(* Readers: get_blob, get_blob_range, head_blob, blob_exists; delete_blob   *)

SourceKey(c) == IF Kind(c) = "copy" THEN op[c].from ELSE op[c].key
Bounds(c) == IF Kind(c) = "range" THEN op[c].range ELSE <<0, 0>>
Inverted(c) == Bounds(c)[2] < Bounds(c)[1]

\* A failed open: a copy's error arms remove the temporary name first.
OpenFails(c, r) == IF Kind(c) = "copy" THEN CleanUp(c, r) ELSE Return(c, r)

\* File::open, with get_blob_range's check before and its seek after.
OpenFile(c) ==
  /\ pc[c] = "open"
  /\ \/ /\ Inverted(c)
        /\ Return(c, "precondition")
        /\ UNCHANGED <<handle, pos>>
     \/ /\ ~Inverted(c) /\ names[SourceKey(c)] = None
        /\ OpenFails(c, "missing")
        /\ UNCHANGED <<handle, pos>>
     \/ /\ ~Inverted(c) /\ names[SourceKey(c)] # None
        /\ handle' = [handle EXCEPT ![c] = names[SourceKey(c)]]
        /\ pos' = [pos EXCEPT ![c] = Bounds(c)[1]]
        /\ Goto(c, IF Kind(c) = "copy" THEN "create" ELSE "stat")
        /\ res' = res
     \/ /\ ~Inverted(c)
        /\ OpenFails(c, "io")
        /\ UNCHANGED <<handle, pos>>
  /\ UNCHANGED <<op, names, temps, content, meta, todo, target, leaked>>

\* Mutant: a failed metadata lookup becomes "no metadata".
StatSwallowsErrors(c) ==
  /\ pc[c] = "stat"
  /\ \E m \in {names[op[c].key], None} : meta' = [meta EXCEPT ![c] = m]
  /\ Goto(c, "stream")
  /\ UNCHANGED <<op, res, names, temps, content, handle, pos, todo, target, leaked>>

\* self.head_blob(key) after the open: it looks the name up a second time.
Stat(c) ==
  /\ pc[c] = "stat"
  /\ \/ /\ meta' = [meta EXCEPT ![c] = names[op[c].key]]
        /\ Goto(c, "stream")
        /\ res' = res
     \/ Return(c, "io") /\ meta' = meta
  /\ UNCHANGED <<op, names, temps, content, handle, pos, todo, target, leaked>>

\* Mutant: the end of the range taken as inclusive.
LimitInclusive(c) ==
  LET len == content[handle[c]].len
  IN  IF Kind(c) = "range" /\ Bounds(c)[2] + 1 < len THEN Bounds(c)[2] + 1 ELSE len

\* Where the stream ends: the end of the file, or of the requested range.
Limit(c) ==
  LET len == content[handle[c]].len
  IN  IF Kind(c) = "range" /\ Bounds(c)[2] < len THEN Bounds(c)[2] ELSE len

\* The caller polls the ReaderStream.
ReadChunk(c) ==
  /\ pc[c] = "stream"
  /\ \/ /\ pos[c] < Limit(c)
        /\ pos' = [pos EXCEPT ![c] = @ + 1]
        /\ UNCHANGED <<pc, res>>
     \/ /\ pos[c] >= Limit(c)
        /\ Return(c, "ok")
        /\ pos' = pos
     \/ Return(c, "io") /\ pos' = pos
  /\ UNCHANGED <<op, names, temps, content, handle, meta, todo, target, leaked>>

\* head_blob, and blob_exists, which reports whether there is metadata.
HeadBlob(c) ==
  /\ pc[c] = "single"
  /\ Kind(c) = "head"
  /\ \/ meta' = [meta EXCEPT ![c] = names[op[c].key]] /\ Return(c, "ok")
     \/ meta' = meta /\ Return(c, "io")
  /\ UNCHANGED <<op, names, temps, content, handle, pos, todo, target, leaked>>

\* remove_file(key): a missing file is a success.
DeleteBlob(c) ==
  /\ pc[c] = "single"
  /\ Kind(c) = "delete"
  /\ \/ names' = [names EXCEPT ![op[c].key] = None] /\ Return(c, "ok")
     \/ names' = names /\ Return(c, "io")
  /\ UNCHANGED <<op, temps, content, handle, pos, meta, todo, target, leaked>>

-----------------------------------------------------------------------------
(* sweep_temp_files: entries are temporary names (the call they belong to)  *)
(* or keys; whether an entry is old enough is up to the clock and the       *)
(* caller's older_than, which may be zero.                                  *)

Exists(e) == e \in temps \/ (e \in Keys /\ names[e] # None)

\* Mutant: a sweep that does not look at the file name.
SweepListsAll(s) ==
  /\ pc[s] = "readdir"
  /\ todo' = [todo EXCEPT ![s] = {e \in Calls \cup Keys : Exists(e)}]
  /\ Goto(s, "scan")
  /\ UNCHANGED <<op, res, names, temps, content, handle, pos, meta, target, leaked>>

\* read_dir, keeping the entries whose name ends with ".uploading".
SweepList(s) ==
  /\ pc[s] = "readdir"
  /\ \/ /\ todo' = [todo EXCEPT ![s] = {e \in Calls \cup UploadingKeys : Exists(e)}]
        /\ Goto(s, "scan")
        /\ res' = res
     \/ Return(s, "io") /\ todo' = todo
  /\ UNCHANGED <<op, names, temps, content, handle, pos, meta, target, leaked>>

\* metadata(path): NotFound and entries too young are passed over.
SweepStat(s) ==
  /\ pc[s] = "scan"
  /\ \E e \in todo[s] :
       /\ todo' = [todo EXCEPT ![s] = @ \ {e}]
       /\ \/ Goto(s, "scan") /\ target' = target /\ res' = res
          \/ /\ Exists(e)
             /\ target' = [target EXCEPT ![s] = e]
             /\ Goto(s, "unlink")
             /\ res' = res
          \/ Return(s, "io") /\ target' = target
  /\ UNCHANGED <<op, names, temps, content, handle, pos, meta, leaked>>

\* remove_file(path): an entry that has gone since is an error here.
SweepRemove(s) ==
  /\ pc[s] = "unlink"
  /\ \/ /\ Exists(target[s])
        /\ temps' = temps \ {target[s]}
        /\ names' = [k \in Keys |-> IF k = target[s] THEN None ELSE names[k]]
        /\ Goto(s, "scan")
        /\ res' = res
     \/ Return(s, "io") /\ UNCHANGED <<names, temps>>
  /\ UNCHANGED <<op, content, handle, pos, meta, todo, target, leaked>>

SweepEnd(s) ==
  /\ pc[s] = "scan"
  /\ todo[s] = {}
  /\ Return(s, "ok")
  /\ UNCHANGED <<op, names, temps, content, handle, pos, meta, todo, target,
                 leaked>>

-----------------------------------------------------------------------------
Running(c) == pc[c] \notin {"idle", "done", "dropped"}

\* The caller drops the future or the stream, or the process dies: whatever
\* cleanup was still to come does not happen.
Interrupt(c) ==
  /\ Running(c)
  /\ Goto(c, "dropped")
  /\ UNCHANGED <<op, res, names, temps, content, handle, pos, meta, todo,
                 target, leaked>>

Step(c) ==
  \/ Prepare(c) \/ CreateTemp(c) \/ WriteChunk(c) \/ EndWrite(c)
  \/ Rename(c) \/ HardLink(c) \/ WriteFails(c) \/ RemoveTemp(c)
  \/ OpenFile(c) \/ Stat(c) \/ ReadChunk(c) \/ HeadBlob(c) \/ DeleteBlob(c)
  \/ SweepList(c) \/ SweepStat(c) \/ SweepRemove(c) \/ SweepEnd(c)

\* Every call has been made and has ended.
Quiescent == (\A c \in Calls : pc[c] \in {"done", "dropped"}) /\ UNCHANGED vars

Next == (\E c \in Calls : Invoke(c) \/ Step(c) \/ Interrupt(c)) \/ Quiescent

Spec == Init /\ [][Next]_vars

\* The executor keeps polling a call's future, its body stream keeps yielding
\* chunks and the reader keeps pulling them.  No call has to be made, and no
\* fault has to happen.
FairSpec == Spec /\ \A c \in Calls : WF_vars(Step(c))
-----------------------------------------------------------------------------
(* Properties                                                               *)

Labels == {"idle", "prepare", "create", "write", "publish", "cleanup", "open",
           "stat", "stream", "single", "readdir", "scan", "unlink", "done",
           "dropped"}
Results == {"none", "ok", "exists", "missing", "precondition", "io"}

\* Every variable has its type.
TypeOK ==
  /\ op \in [Calls -> Requests \cup {None}]
  /\ pc \in [Calls -> Labels]
  /\ res \in [Calls -> Results]
  /\ names \in [Keys -> Calls \cup {None}]
  /\ temps \subseteq Calls
  /\ content \in [Calls -> [body : Calls \cup {None}, len : Nat]]
  /\ handle \in [Calls -> Calls \cup {None}]
  /\ pos \in [Calls -> Nat]
  /\ meta \in [Calls -> Calls \cup {None}]
  /\ todo \in [Calls -> SUBSET (Calls \cup UploadingKeys)]
  /\ target \in [Calls -> Calls \cup UploadingKeys \cup {None}]
  /\ leaked \subseteq Calls

Linked(i) == \E k \in Keys : names[k] = i
Complete(i) == content[i].len = op[content[i].body].size

\* A key only ever names a file that holds the whole of some caller's body:
\* no stream error, interrupted write or sweep leaves a partial blob visible,
\* and a copy is a copy of the whole source.
OnlyCompleteVisible == \A k \in Keys : names[k] # None => Complete(names[k])

\* A reader that reaches the end of its stream was served exactly the bytes
\* of one body (get_blob), or of that body's part of the range, even when the
\* key was replaced, deleted or copied over while it was reading.
StreamsOneBody ==
  \A c \in Calls :
    pc[c] = "done" /\ res[c] = "ok" /\ Kind(c) \in Readers =>
      LET size == op[content[handle[c]].body].size
          lo   == Bounds(c)[1]
          hi   == IF Kind(c) = "get" \/ Bounds(c)[2] > size THEN size ELSE Bounds(c)[2]
      IN  pos[c] = IF lo > hi THEN lo ELSE hi

\* A writer that returns an error, or Ok(None), has published nothing; and
\* one that has published reports so.
ErrorMeansUnpublished ==
  \A c \in Calls : Linked(c) => res[c] = "ok" /\ Kind(c) \in Writers

\* A temporary name belongs to a running call, or was left by a dropped call
\* or by a failed removal: no return path forgets its temporary file.
TempsAccounted ==
  \A c \in temps : Running(c) \/ pc[c] = "dropped" \/ c \in leaked

\* get_blob opens the file and looks its metadata up separately.  When the two
\* are not about the same file, the one being streamed no longer has the key
\* (a file is never published twice), so the metadata is the newer.
StaleBodyIsReplaced ==
  \A c \in Calls :
    pc[c] \in {"stream", "done"} /\ handle[c] # None /\ Kind(c) \in Readers
      /\ res[c] # "io" /\ meta[c] # handle[c] => names[op[c].key] # handle[c]

\* No step changes the bytes of a file that a key names or a reader has open.
PublishedImmutable ==
  [][\A i \in Calls :
       Linked(i) \/ (\E c \in Calls : handle[c] = i) => content'[i] = content[i]]_vars

\* The blob a key holds is replaced only by put_blob and copy_blob of that key
\* and removed only by delete_blob of it, or by a sweep when the key itself
\* ends with ".uploading".  In particular put_blob_if_not_exists never
\* replaces a blob, however its calls race.
BlobsAreNotLost ==
  [][\A k \in Keys :
       names[k] # None /\ names'[k] # names[k] =>
         \/ k \in UploadingKeys
         \/ \E c \in Calls :
              /\ res[c] = "none" /\ res'[c] = "ok" /\ op[c].key = k
              /\ Kind(c) \in (IF names'[k] = None THEN {"delete"}
                                                  ELSE {"put", "copy"})]_vars

\* Every call that is made ends, whatever the other calls and sweeps do.
EveryCallEnds ==
  \A c \in Calls : Running(c) ~> ~Running(c)

-----------------------------------------------------------------------------
(* The store implements the abstract one: a file stands for the body it     *)
(* holds, a partial one for nothing the abstract store knows.               *)

Whole(i) == IF i = None THEN None
            ELSE IF Complete(i) THEN content[i].body ELSE "partial"

Abs == INSTANCE BlobStoreSpec
         WITH Absent <- None,
              store <- [k \in Keys |-> Whole(names[k])],
              req <- op,
              seen <- [c \in Calls |-> Whole(handle[c])],
              ans <- res

\* Files, temporary names, faults, interrupts and sweeps are invisible to
\* callers: the store behaves as the atomic map of BlobStoreSpec.
ImplementsBlobStore == Abs!AbsSpec
=============================================================================
