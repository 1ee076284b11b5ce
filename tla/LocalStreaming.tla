--------------------------- MODULE LocalStreaming ---------------------------
(***************************************************************************)
(* The StreamingObjectStore half of LocalStorageBackend (local.rs).  An    *)
(* object of a bucket is two files: its bytes, and a JSON sidecar under    *)
(* .graphql-orm-storage/object-metadata that carries its ObjectInfo (size, *)
(* SHA-256).  Each has a temporary name until MultipartWriter::complete    *)
(* renames first the one and then the other; delete_object removes them in *)
(* the same order.  Readers take the size from the sidecar and the bytes   *)
(* from the object.                                                        *)
(*                                                                         *)
(* An upload names both of its files.  One action stands for one           *)
(* file-system call; one bucket is modelled, and the empty list prefix.    *)
(***************************************************************************)
EXTENDS Naturals, FiniteSets

CONSTANTS Calls,     \* API calls (an upload is one call), each made at most once
          Uploaders, \* bound: the calls that may be uploads
          Keys,      \* object keys of the bucket
          UploadingKeys, \* keys that end in ".uploading" themselves
          MaxChunks, \* bound: write_chunk calls of one upload
          Ranges,    \* requested ranges <<start, end>>, in chunks
          None

Requests ==
  [kind : {"upload", "meta", "delete"}, key : Keys]
    \cup [kind : {"range"}, key : Keys, range : Ranges]
    \cup [kind : {"list"}]

ASSUME StreamingAssumption ==
  /\ Uploaders \subseteq Calls /\ UploadingKeys \subseteq Keys
  /\ MaxChunks \in Nat
  /\ Ranges \subseteq Nat \X Nat
  /\ None \notin Calls \cup Keys \cup Requests

VARIABLES op,        \* op[c]: the request of call c
          pc,        \* pc[c]: its next file-system call
          res,       \* res[c]: what it returns
          obj,       \* obj[k]: the upload whose bytes are at the object path
          side,      \* side[k]: the upload whose ObjectInfo is at the sidecar path
          otemps,    \* uploads whose object still has its temporary name
          mtemps,    \* uploads whose sidecar still has its temporary name
          written,   \* written[u]: chunks in u's object file
          counted,   \* counted[u]: chunks in u's size_bytes and hasher
          info,      \* info[c]: the upload whose ObjectInfo reader c was given
          handle,    \* handle[c]: the upload whose bytes reader c has open
          pos,       \* pos[c]: the reader's next chunk
          todo,      \* todo[c]: directory entries list_objects has to visit
          at,        \* at[c]: the entry it has found to be a file
          listed,    \* listed[c]: the uploads whose ObjectInfo it has collected
          leaked,    \* history: uploads that ended without removing a temporary
          disturbed  \* history: keys whose two files were last changed by
                     \* overlapping, failed or dropped finalizations

files == <<obj, side, otemps, mtemps, written, counted>>
reads == <<info, handle, pos, todo, at, listed>>
vars == <<op, pc, res, files, reads, leaked, disturbed>>

Kind(c) == op[c].kind

FirstStep(kind) ==
  CASE kind = "upload"            -> "create"
    [] kind \in {"meta", "range"} -> "info"
    [] kind = "delete"            -> "delObj"
    [] kind = "list"              -> "readdir"

Init ==
  /\ op = [c \in Calls |-> None]
  /\ pc = [c \in Calls |-> "idle"]
  /\ res = [c \in Calls |-> "none"]
  /\ obj = [k \in Keys |-> None]
  /\ side = [k \in Keys |-> None]
  /\ otemps = {} /\ mtemps = {}
  /\ written = [c \in Calls |-> 0]
  /\ counted = [c \in Calls |-> 0]
  /\ info = [c \in Calls |-> None]
  /\ handle = [c \in Calls |-> None]
  /\ pos = [c \in Calls |-> 0]
  /\ todo = [c \in Calls |-> {}]
  /\ at = [c \in Calls |-> None]
  /\ listed = [c \in Calls |-> {}]
  /\ leaked = {}
  /\ disturbed = {}

Goto(c, label) == pc' = [pc EXCEPT ![c] = label]
Return(c, r) == Goto(c, "done") /\ res' = [res EXCEPT ![c] = r]
Fail(c, label) == Goto(c, label) /\ res' = [res EXCEPT ![c] = "io"]

Invoke(c) ==
  /\ pc[c] = "idle"
  /\ \E r \in Requests :
       /\ r.kind = "upload" => c \in Uploaders
       /\ op' = [op EXCEPT ![c] = r]
       /\ Goto(c, FirstStep(r.kind))
  /\ UNCHANGED <<res, files, reads, leaked, disturbed>>

-----------------------------------------------------------------------------
(* Uploads.  create_multipart_object makes both parent directories and the  *)
(* object's temporary file; an error leaves nothing behind.                 *)

CreateWriter(c) ==
  /\ pc[c] = "create"
  /\ \/ otemps' = otemps \cup {c} /\ Goto(c, "open") /\ res' = res
     \/ otemps' = otemps /\ Return(c, "io")
  /\ UNCHANGED <<op, obj, side, mtemps, written, counted, reads, leaked, disturbed>>

\* write_chunk counts and hashes the chunk before it writes it.  A failed
\* write leaves the writer with its owner, who may go on.
WriteChunk(c) ==
  /\ pc[c] = "open"
  /\ counted[c] < MaxChunks
  /\ counted' = [counted EXCEPT ![c] = @ + 1]
  /\ written' \in {written, [written EXCEPT ![c] = @ + 1]}
  /\ UNCHANGED <<op, pc, res, obj, side, otemps, mtemps, reads, leaked, disturbed>>

\* The owner of the writer may abort at any time.  put_object_stream is the
\* owner that aborts when its stream or a write fails, and completes otherwise.
Abort(c) ==
  /\ pc[c] = "open"
  /\ Goto(c, "rmObj") /\ res' = [res EXCEPT ![c] = "aborted"]
  /\ UNCHANGED <<op, files, reads, leaked, disturbed>>

\* The flush of complete(); its error returns at once, temporary file and all.
Complete(c) ==
  /\ pc[c] = "open"
  /\ \/ Goto(c, "sidecar") /\ UNCHANGED <<res, leaked>>
     \/ Return(c, "io") /\ leaked' = leaked \cup {c}
  /\ UNCHANGED <<op, files, reads, disturbed>>

\* Mutant: the sidecar is written under its final name.
WriteSidecarInPlace(c) ==
  /\ pc[c] = "sidecar"
  /\ mtemps' = mtemps \cup {c} /\ side' = [side EXCEPT ![op[c].key] = c]
  /\ Goto(c, "renameObj")
  /\ UNCHANGED <<op, res, obj, otemps, written, counted, reads, leaked, disturbed>>

\* write_object_metadata to the sidecar's temporary name; its error returns at
\* once too, and may leave the sidecar's temporary file as well.
WriteSidecar(c) ==
  /\ pc[c] = "sidecar"
  /\ \/ mtemps' = mtemps \cup {c} /\ Goto(c, "renameObj") /\ UNCHANGED <<res, leaked>>
     \/ mtemps' \in {mtemps, mtemps \cup {c}} /\ Return(c, "io") /\ leaked' = leaked \cup {c}
  /\ UNCHANGED <<op, obj, side, otemps, written, counted, reads, disturbed>>

\* The calls that have changed the first of a key's two files but not the second.
InWindow(k) == {d \in Calls : pc[d] \in {"renameMeta", "delMeta"} /\ op[d].key = k}

\* Mutant: NotFound from the first rename is ignored.
RenameObjectUnchecked(c) ==
  /\ pc[c] = "renameObj"
  /\ obj' = IF c \in otemps THEN [obj EXCEPT ![op[c].key] = c] ELSE obj
  /\ otemps' = otemps \ {c}
  /\ Goto(c, "renameMeta")
  /\ disturbed' = IF InWindow(op[c].key) = {} THEN disturbed
                                              ELSE disturbed \cup {op[c].key}
  /\ UNCHANGED <<op, res, side, mtemps, written, counted, reads, leaked>>

\* rename(object temporary, object): from here on its bytes are visible.
RenameObject(c) ==
  /\ pc[c] = "renameObj"
  /\ \/ /\ c \in otemps
        /\ obj' = [obj EXCEPT ![op[c].key] = c]
        /\ otemps' = otemps \ {c}
        /\ Goto(c, "renameMeta")
        /\ disturbed' = IF InWindow(op[c].key) = {} THEN disturbed
                                                    ELSE disturbed \cup {op[c].key}
        /\ res' = res
     \/ Fail(c, "rmObj") /\ UNCHANGED <<obj, otemps, disturbed>>
  /\ UNCHANGED <<op, side, mtemps, written, counted, reads, leaked>>

\* The second file has been changed: the key is whole again if both are the
\* same upload's and nobody else is between the two steps.
Settle(c) ==
  disturbed' = IF InWindow(op[c].key) = {c} /\ obj[op[c].key] = side'[op[c].key]
                 THEN disturbed \ {op[c].key} ELSE disturbed

\* rename(sidecar temporary, sidecar).
RenameSidecar(c) ==
  /\ pc[c] = "renameMeta"
  /\ \/ /\ c \in mtemps
        /\ side' = [side EXCEPT ![op[c].key] = c]
        /\ mtemps' = mtemps \ {c}
        /\ Settle(c)
        /\ Return(c, "ok")
     \/ /\ Fail(c, "rmMeta")
        /\ disturbed' = disturbed \cup {op[c].key}
        /\ UNCHANGED <<side, mtemps>>
  /\ UNCHANGED <<op, obj, otemps, written, counted, reads, leaked>>

\* Mutant: the error arm after the first rename removes only the object's file.
RemoveObjectTempOnly(c) ==
  /\ pc[c] = "rmObj"
  /\ otemps' = otemps \ {c}
  /\ Goto(c, "done")
  /\ UNCHANGED <<op, res, obj, side, mtemps, written, counted, reads, leaked, disturbed>>

\* remove_file(object temporary), in abort() and complete().
RemoveObjectTemp(c) ==
  /\ pc[c] = "rmObj"
  /\ \/ otemps' = otemps \ {c} /\ UNCHANGED <<res, leaked>>
     \/ /\ c \in otemps /\ otemps' = otemps
        /\ leaked' = leaked \cup {c}
        /\ res' = [res EXCEPT ![c] = "io"]
  /\ Goto(c, "rmMeta")
  /\ UNCHANGED <<op, obj, side, mtemps, written, counted, reads, disturbed>>

\* remove_file(sidecar temporary): abort() attempts it whatever the first did.
RemoveSidecarTemp(c) ==
  /\ pc[c] = "rmMeta"
  /\ \/ mtemps' = mtemps \ {c} /\ UNCHANGED <<res, leaked>>
     \/ /\ c \in mtemps /\ mtemps' = mtemps
        /\ leaked' = leaked \cup {c}
        /\ res' = [res EXCEPT ![c] = "io"]
  /\ Goto(c, "done")
  /\ UNCHANGED <<op, obj, side, otemps, written, counted, reads, disturbed>>

-----------------------------------------------------------------------------
(* delete_object: two removals, a missing file is a success.                *)

DeleteObject(c) ==
  /\ pc[c] = "delObj"
  /\ \/ /\ obj' = [obj EXCEPT ![op[c].key] = None]
        /\ Goto(c, "delMeta")
        /\ disturbed' = IF InWindow(op[c].key) = {} THEN disturbed
                                                    ELSE disturbed \cup {op[c].key}
        /\ res' = res
     \/ Return(c, "io") /\ UNCHANGED <<obj, disturbed>>
  /\ UNCHANGED <<op, side, otemps, mtemps, written, counted, reads, leaked>>

DeleteSidecar(c) ==
  /\ pc[c] = "delMeta"
  /\ \/ side' = [side EXCEPT ![op[c].key] = None] /\ Settle(c) /\ Return(c, "ok")
     \/ /\ side' = side
        /\ disturbed' = disturbed \cup {op[c].key}
        /\ Return(c, "io")
  /\ UNCHANGED <<op, obj, otemps, mtemps, written, counted, reads, leaked>>

-----------------------------------------------------------------------------
(* get_object_metadata and get_object_range                                 *)

Lo(c) == IF Kind(c) = "range" THEN op[c].range[1] ELSE 0
Hi(c) == IF Kind(c) = "range" THEN op[c].range[2] ELSE 0

ReadSidecar(c) ==
  /\ pc[c] = "info"
  /\ LET u == side[op[c].key] IN
     \/ Hi(c) < Lo(c) /\ Return(c, "precondition") /\ info' = info
     \/ Hi(c) >= Lo(c) /\ u = None /\ Return(c, "missing") /\ info' = info
     \/ /\ Hi(c) >= Lo(c) /\ u # None
        /\ info' = [info EXCEPT ![c] = u]
        /\ IF Kind(c) = "meta" THEN Return(c, "ok")
           ELSE IF Lo(c) > counted[u] THEN Return(c, "precondition")
           ELSE Goto(c, "openObj") /\ res' = res
     \/ Hi(c) >= Lo(c) /\ Return(c, "io") /\ info' = info
  /\ UNCHANGED <<op, files, handle, pos, todo, at, listed, leaked, disturbed>>

\* File::open and seek: a second look at the tree.
OpenObject(c) ==
  /\ pc[c] = "openObj"
  /\ \/ /\ obj[op[c].key] # None
        /\ handle' = [handle EXCEPT ![c] = obj[op[c].key]]
        /\ pos' = [pos EXCEPT ![c] = Lo(c)]
        /\ Goto(c, "read") /\ res' = res
     \/ /\ obj[op[c].key] = None
        /\ Return(c, "missing") /\ UNCHANGED <<handle, pos>>
     \/ Return(c, "io") /\ UNCHANGED <<handle, pos>>
  /\ UNCHANGED <<op, files, info, todo, at, listed, leaked, disturbed>>

\* Mutant: the end clamped to the last chunk's index.
RangeEndOffByOne(c) == IF Hi(c) < counted[info[c]] THEN Hi(c) ELSE counted[info[c]] - 1

\* The end of the ObjectContentRange, from the sidecar's size.
RangeEnd(c) == IF Hi(c) < counted[info[c]] THEN Hi(c) ELSE counted[info[c]]

\* The body stream: RangeEnd - Lo chunks, or fewer if the file is shorter.
ReadChunk(c) ==
  /\ pc[c] = "read"
  /\ \/ /\ pos[c] < RangeEnd(c) /\ pos[c] < written[handle[c]]
        /\ pos' = [pos EXCEPT ![c] = @ + 1] /\ UNCHANGED <<pc, res>>
     \/ /\ pos[c] >= RangeEnd(c) \/ pos[c] >= written[handle[c]]
        /\ pos' = pos /\ Return(c, "ok")
     \/ pos' = pos /\ Return(c, "io")
  /\ UNCHANGED <<op, files, info, handle, todo, at, listed, leaked, disturbed>>

-----------------------------------------------------------------------------
(* list_objects: a directory walk, then each file's sidecar                 *)

\* Mutant: the walk does not pass over ".uploading" names.
ListDirWithTemps(c) ==
  /\ pc[c] = "readdir"
  /\ todo' = [todo EXCEPT ![c] = otemps \cup {k \in Keys : obj[k] # None}]
  /\ Goto(c, "list")
  /\ UNCHANGED <<op, res, files, info, handle, pos, at, listed, leaked, disturbed>>

ListDir(c) ==
  /\ pc[c] = "readdir"
  /\ \/ /\ todo' = [todo EXCEPT ![c] = {k \in Keys : obj[k] # None}]
        /\ Goto(c, "list") /\ res' = res
     \/ todo' = todo /\ Return(c, "io")
  /\ UNCHANGED <<op, files, info, handle, pos, at, listed, leaked, disturbed>>

\* metadata(path): entries that have gone or have the name of a temporary file
\* are passed over, errors end the walk.
ListStat(c) ==
  /\ pc[c] = "list"
  /\ \E k \in todo[c] :
       /\ todo' = [todo EXCEPT ![c] = @ \ {k}]
       /\ \/ (obj[k] = None \/ k \in UploadingKeys) /\ UNCHANGED <<pc, res, at>>
          \/ /\ obj[k] # None /\ k \notin UploadingKeys
             /\ at' = [at EXCEPT ![c] = k] /\ Goto(c, "listInfo") /\ res' = res
          \/ Return(c, "io") /\ at' = at
  /\ UNCHANGED <<op, files, info, handle, pos, listed, leaked, disturbed>>

\* if let Ok(info): a missing or unreadable sidecar hides the object.
ListInfo(c) ==
  /\ pc[c] = "listInfo"
  /\ \/ /\ side[at[c]] # None
        /\ listed' = [listed EXCEPT ![c] = @ \cup {side[at[c]]}]
     \/ listed' = listed
  /\ Goto(c, "list")
  /\ UNCHANGED <<op, res, files, info, handle, pos, todo, at, leaked, disturbed>>

ListEnd(c) ==
  /\ pc[c] = "list" /\ todo[c] = {}
  /\ Return(c, "ok")
  /\ UNCHANGED <<op, files, reads, leaked, disturbed>>

-----------------------------------------------------------------------------
Running(c) == pc[c] \notin {"idle", "done", "dropped"}

\* The future or the writer is dropped, or the process dies.
Interrupt(c) ==
  /\ Running(c)
  /\ Goto(c, "dropped")
  /\ disturbed' = IF pc[c] \in {"renameMeta", "delMeta"}
                    THEN disturbed \cup {op[c].key} ELSE disturbed
  /\ UNCHANGED <<op, res, files, reads, leaked>>

\* sweep_temp_files removes any file whose name ends in ".uploading" and that
\* looks old enough: a temporary file, or the bytes of an object whose own key
\* ends so.  Sidecars end in ".json".
Sweep ==
  /\ \/ \E c \in otemps : otemps' = otemps \ {c} /\ UNCHANGED <<mtemps, obj>>
     \/ \E c \in mtemps : mtemps' = mtemps \ {c} /\ UNCHANGED <<otemps, obj>>
     \/ \E k \in UploadingKeys : /\ obj[k] # None
                                 /\ obj' = [obj EXCEPT ![k] = None]
                                 /\ UNCHANGED <<otemps, mtemps>>
  /\ UNCHANGED <<op, pc, res, side, written, counted, reads, leaked, disturbed>>

Step(c) ==
  \/ CreateWriter(c) \/ WriteChunk(c) \/ Abort(c) \/ Complete(c)
  \/ WriteSidecar(c) \/ RenameObject(c) \/ RenameSidecar(c)
  \/ RemoveObjectTemp(c) \/ RemoveSidecarTemp(c)
  \/ DeleteObject(c) \/ DeleteSidecar(c)
  \/ ReadSidecar(c) \/ OpenObject(c) \/ ReadChunk(c)
  \/ ListDir(c) \/ ListStat(c) \/ ListInfo(c) \/ ListEnd(c)

Quiescent == (\A c \in Calls : pc[c] \in {"done", "dropped"}) /\ UNCHANGED vars

Next == (\E c \in Calls : Invoke(c) \/ Step(c) \/ Interrupt(c)) \/ Sweep \/ Quiescent

Spec == Init /\ [][Next]_vars
-----------------------------------------------------------------------------
(* Properties                                                               *)

Labels == {"idle", "create", "open", "sidecar", "renameObj", "renameMeta", "rmObj",
           "rmMeta", "delObj", "delMeta", "info", "openObj", "read", "readdir",
           "list", "listInfo", "done", "dropped"}
Results == {"none", "ok", "aborted", "missing", "precondition", "io"}

\* Every variable has its type, and no object file holds more chunks than its
\* upload has counted and hashed.
TypeOK ==
  /\ op \in [Calls -> Requests \cup {None}]
  /\ pc \in [Calls -> Labels]
  /\ res \in [Calls -> Results]
  /\ obj \in [Keys -> Calls \cup {None}] /\ side \in [Keys -> Calls \cup {None}]
  /\ otemps \subseteq Calls /\ mtemps \subseteq Calls
  /\ written \in [Calls -> 0..MaxChunks] /\ counted \in [Calls -> 0..MaxChunks]
  /\ \A c \in Calls : written[c] <= counted[c]
  /\ info \in [Calls -> Calls \cup {None}] /\ handle \in [Calls -> Calls \cup {None}]
  /\ pos \in [Calls -> Nat]
  /\ todo \in [Calls -> SUBSET Keys] /\ at \in [Calls -> Keys \cup {None}]
  /\ listed \in [Calls -> SUBSET Calls]
  /\ leaked \subseteq Calls /\ disturbed \subseteq Keys

\* get_object_metadata, get_object_range and list_objects only ever hand out
\* the ObjectInfo of an upload whose complete() succeeded: not of one that is
\* under way, was aborted or failed, whatever the interleaving.
InfoMeansCompleted ==
  \A c \in Calls : \A u \in Calls :
    info[c] = u \/ u \in listed[c] => res[u] = "ok" /\ Kind(u) = "upload"

\* The object and the sidecar of a key belong to the same upload, or both are
\* missing, unless a finalization or deletion of it is between its two steps,
\* or the last ones overlapped, failed or were dropped there, or a sweep has
\* taken the bytes of a key that ends in ".uploading" and left the sidecar.
WholeUnlessDisturbed ==
  \A k \in Keys : obj[k] # side[k] =>
    InWindow(k) # {} \/ k \in disturbed \/ (k \in UploadingKeys /\ obj[k] = None)

\* A range reader that got the ObjectInfo and the bytes of the same upload is
\* served exactly the part of the range that lies in the object, as long as
\* none of the upload's write_chunk calls failed.
RangeServesItsInfo ==
  \A c \in Calls :
    pc[c] = "done" /\ res[c] = "ok" /\ Kind(c) = "range"
      /\ handle[c] = info[c] /\ written[info[c]] = counted[info[c]]
    => LET size == counted[info[c]]
       IN  pos[c] = (IF op[c].range[2] < size THEN op[c].range[2] ELSE size)

\* A temporary file belongs to an upload under way, or was left by a dropped
\* one, by a removal that failed, or by the flush and sidecar errors of
\* complete(), which return without cleaning up.
TempsAccounted ==
  \A u \in otemps \cup mtemps : Running(u) \/ pc[u] = "dropped" \/ u \in leaked

-----------------------------------------------------------------------------
(* What the docs say and the code does not do                               *)

\* "SHA-256 checksum for the object bytes" (streaming_object.rs:26), with
\* "atomic visibility on completion" (docs/release-notes.md:27): once uploads
\* alone have been made, none of them empty, and all have written all of their
\* chunks and returned successfully, a key's ObjectInfo is about its bytes.
InfoDescribesBytes ==
  (\A c \in Calls : /\ pc[c] = "done" /\ res[c] = "ok" /\ Kind(c) = "upload"
                    /\ counted[c] > 0 /\ written[c] = counted[c])
    => \A k \in Keys : side[k] # None => obj[k] = side[k]
=============================================================================
