---------------------------- MODULE SmbBlobStore ----------------------------
(***************************************************************************)
(* SmbStorageBackend (smb.rs): blobs on a remote share, transfers limited  *)
(* by a semaphore.  put_blob streams to a uuid temporary file and renames  *)
(* it over the key; put_blob_if_not_exists creates the key itself with     *)
(* FILE_CREATE and streams into it.  copy_blob and get_blob_range are the  *)
(* trait's defaults (blob.rs): a get_blob whose stream feeds a put_blob,   *)
(* and one whose stream ranged_storage_stream cuts to the range.           *)
(*                                                                         *)
(* A remote request may fail with or without having taken effect: a reply  *)
(* may be lost, and an operation timeout looks the same.  open_file's one  *)
(* retry after a reconnect is part of the request.  A file is named by the *)
(* call that created it, as in LocalBlobStore.                             *)
(***************************************************************************)
EXTENDS Naturals, FiniteSets, WaitQueue, ByteRange

CONSTANTS Calls,        \* API calls, each made at most once
          Copiers,      \* the calls that may be copy_blob
          RangeReaders, \* the calls that may be get_blob_range
          Keys,
          Sizes,        \* body lengths
          Ranges,       \* ranges asked for, as <<start, end>>
          ChunkSize,    \* the length of a chunk, of a body and of a read
          MaxTransfers, \* max_transfer_concurrency
          None

Requests ==
  [kind : {"put", "create"}, key : Keys, size : Sizes]
    \cup [kind : {"get", "head", "delete"}, key : Keys]
    \cup [kind : {"range"}, key : Keys, range : Ranges]
    \cup [kind : {"copy"}, key : Keys, from : Keys]

ASSUME SmbAssumption ==
  /\ Copiers \subseteq Calls /\ RangeReaders \subseteq Calls
  /\ IsFiniteSet(Calls)
  /\ Sizes \subseteq Nat /\ Ranges \subseteq Nat \X Nat /\ ChunkSize \in Nat \ {0}
  /\ MaxTransfers \in Nat \ {0}
  /\ None \notin Calls \cup Keys \cup Requests

VARIABLES op,      \* op[c]: the request of call c
          pc,      \* pc[c]: its next step
          res,     \* res[c]: what it returns
          queue,   \* the semaphore's waiters, first come first served
          held,    \* held[c]: permits that c and its streams hold
          names,   \* names[k]: the file at key k
          temps,   \* files at their temporary keys
          content, \* content[f]: whose body, and how much of it
          handle,  \* handle[c]: the file a get, range or copy reads
          size,    \* size[c]: its length when get_blob asked
          pos,     \* pos[c]: the offset that a reader has read to
          skip, rest, \* skip[c], rest[c]: skip and remaining of ranged_storage_stream
          out,     \* out[c]: the bytes delivered to a reader, by position
          victim,  \* victim[c]: the file remove_file has opened
          leaked   \* history: calls whose temporary file could not be removed

server == <<names, temps, content>>
reads == <<handle, size, pos, skip, rest, out>>
permits == <<queue, held>>
vars == <<op, pc, res, permits, server, reads, victim, leaked>>

Kind(c) == op[c].kind

Init ==
  /\ op = [c \in Calls |-> None]
  /\ pc = [c \in Calls |-> "idle"]
  /\ res = [c \in Calls |-> "none"]
  /\ queue = <<>>
  /\ held = [c \in Calls |-> 0]
  /\ names = [k \in Keys |-> None]
  /\ temps = {}
  /\ content = [c \in Calls |-> [body |-> None, len |-> 0]]
  /\ handle = [c \in Calls |-> None]
  /\ size = [c \in Calls |-> 0]
  /\ pos = [c \in Calls |-> 0]
  /\ skip = [c \in Calls |-> 0]
  /\ rest = [c \in Calls |-> 0]
  /\ out = [c \in Calls |-> <<>>]
  /\ victim = [c \in Calls |-> None]
  /\ leaked = {}

Goto(c, label) == pc' = [pc EXCEPT ![c] = label]
Decide(c, r) == res' = [res EXCEPT ![c] = r]
Holds(c, n) == held' = [held EXCEPT ![c] = n] /\ queue' = queue
Return(c, r) == Goto(c, "done") /\ Decide(c, r) /\ Holds(c, 0)
Fail(c, label) == Goto(c, label) /\ Decide(c, "io")

\* delete_blob and head_blob take no permit; transfers take one first.
FirstStep(kind) ==
  CASE kind = "delete" -> "rmOpen"
    [] kind = "head"   -> "head"
    [] OTHER           -> "permit"

\* An inverted range is refused before anything else.
Invoke(c) ==
  /\ pc[c] = "idle"
  /\ \E r \in Requests :
       /\ r.kind = "copy" => c \in Copiers
       /\ r.kind = "range" => c \in RangeReaders
       /\ op' = [op EXCEPT ![c] = r]
       /\ IF r.kind = "range" /\ r.range[2] < r.range[1]
            THEN Goto(c, "done") /\ Decide(c, "precondition")
            ELSE Goto(c, FirstStep(r.kind)) /\ res' = res
  /\ UNCHANGED <<permits, server, reads, victim, leaked>>

-----------------------------------------------------------------------------
(* transfer_permit.  Tokio's semaphore serves its waiters in order, and the *)
(* wait is not under with_timeout.                                          *)

\* The permits that are out: the first and the second of each call.
Used == Cardinality({p \in Calls \X (1..2) : p[2] <= held[p[1]]})

AskPermit(c) ==
  /\ pc[c] = "permit"
  /\ queue' = Append(queue, c)
  /\ Goto(c, "waiting")
  /\ UNCHANGED <<op, res, held, server, reads, victim, leaked>>

\* A get, or that of a range or a copy, opens its file; other transfers create one.
Granted(c) == IF Kind(c) \in {"get", "range", "copy"} /\ handle[c] = None THEN "open" ELSE "create"

\* Mutant: a waiter is let in whether or not a permit is free.
GrantAnyway(c) ==
  /\ pc[c] = "waiting" /\ c = Head(queue)
  /\ queue' = Tail(queue)
  /\ held' = [held EXCEPT ![c] = @ + 1]
  /\ Goto(c, Granted(c))
  /\ UNCHANGED <<op, res, server, reads, victim, leaked>>

Grant(c) ==
  /\ pc[c] = "waiting" /\ c = Head(queue)
  /\ Used < MaxTransfers
  /\ queue' = Tail(queue)
  /\ held' = [held EXCEPT ![c] = @ + 1]
  /\ Goto(c, Granted(c))
  /\ UNCHANGED <<op, res, server, reads, victim, leaked>>

-----------------------------------------------------------------------------
(* write_file.                                                              *)

\* What the body stream delivers: the caller's body, or the source's bytes.
Body(c) == IF Kind(c) = "copy" THEN content[handle[c]].body ELSE c
Length(c) == IF Kind(c) = "copy" THEN size[c] ELSE op[c].size
Fresh(c) == content' = [content EXCEPT ![c] = [body |-> Body(c), len |-> 0]]

\* The upload file of put_blob has a uuid name, so the CREATE meets no other
\* file.  An error leaves write_file at once; put_blob removes the file.
CreateTemp(c) ==
  /\ pc[c] = "create" /\ Kind(c) \in {"put", "copy"}
  /\ Fresh(c)
  /\ \/ temps' = temps \cup {c} /\ Goto(c, "write") /\ UNCHANGED <<res, permits>>
     \/ temps' \in {temps, temps \cup {c}} /\ Fail(c, "rmTemp") /\ Holds(c, 0)
  /\ UNCHANGED <<op, names, reads, victim, leaked>>

\* Mutant: FILE_OVERWRITE_IF in place of FILE_CREATE.
CreateKeyOverwrites(c) ==
  /\ pc[c] = "create" /\ Kind(c) = "create"
  /\ Fresh(c)
  /\ names' = [names EXCEPT ![op[c].key] = c] /\ Goto(c, "write") /\ UNCHANGED <<res, permits>>
  /\ UNCHANGED <<op, temps, reads, victim, leaked>>

\* put_blob_if_not_exists: FILE_CREATE on the key itself.  A collision is
\* Ok(None).  An error returns at once: when only the reply was lost, the
\* empty file stays at the key.
CreateKey(c) ==
  /\ pc[c] = "create" /\ Kind(c) = "create"
  /\ Fresh(c)
  /\ LET k == op[c].key IN
       \/ names[k] # None /\ names' = names /\ Return(c, "exists")
       \/ /\ names[k] = None
          /\ names' = [names EXCEPT ![k] = c]
          /\ Goto(c, "write") /\ UNCHANGED <<res, permits>>
       \/ /\ names' \in {names, [names EXCEPT ![k] = IF @ = None THEN c ELSE @]}
          /\ Return(c, "io")
  /\ UNCHANGED <<op, temps, reads, victim, leaked>>

\* cleanup_failed_write closes the file and removes whatever has its name.
CleanUp(c) == Fail(c, IF Kind(c) = "create" THEN "rmOpen" ELSE "rmPart")

\* The file grows by n bytes of the body.
Grow(c, n) == content' = [content EXCEPT ![c].len = AtMost(@ + n, Length(c))]

\* The chunk is written to its end, however short the single writes are.
WriteChunk(c) ==
  /\ pc[c] = "write" /\ content[c].len < Length(c)
  /\ Grow(c, ChunkSize)
  /\ UNCHANGED <<op, pc, res, permits, names, temps, reads, victim, leaked>>

\* A write fails, having stored the chunk or not; or the body stream fails,
\* and a copy's source gives back its permit.
WriteFails(c) ==
  /\ pc[c] = "write" /\ content[c].len < Length(c)
  /\ CleanUp(c)
  /\ \/ \E n \in {0, ChunkSize} : Grow(c, n) /\ UNCHANGED permits
     \/ content' = content /\ Holds(c, 1)
  /\ UNCHANGED <<op, names, temps, reads, victim, leaked>>

\* Mutant: a short write is taken for the end of the chunk.
EndWriteShort(c) ==
  /\ pc[c] = "write"
  /\ IF Kind(c) = "create" THEN Return(c, "ok")
                           ELSE Goto(c, "rename") /\ Holds(c, 0) /\ res' = res
  /\ UNCHANGED <<op, server, reads, victim, leaked>>

\* The end of the body stream, which releases a copy's source; flush; close.
\* write_file returns its outcome and with it its permit.
EndWrite(c) ==
  /\ pc[c] = "write" /\ content[c].len = Length(c)
  /\ \/ IF Kind(c) = "create" THEN Return(c, "ok")
                              ELSE Goto(c, "rename") /\ Holds(c, 0) /\ res' = res
     \/ CleanUp(c) /\ Holds(c, 1)
  /\ UNCHANGED <<op, server, reads, victim, leaked>>

\* Mutant: a failed rename returns without removing the upload file.
RenameLeaves(c) ==
  /\ pc[c] = "rename"
  /\ \/ /\ names' = [names EXCEPT ![op[c].key] = c] /\ temps' = temps \ {c}
        /\ Return(c, "ok")
     \/ /\ UNCHANGED <<names, temps>>
        /\ Return(c, "io")
  /\ UNCHANGED <<op, content, reads, victim, leaked>>

\* The replacing rename of put_blob.  A lost reply, or a failed close after
\* it, is an error although the blob has been published.
Rename(c) ==
  /\ pc[c] = "rename"
  /\ \/ /\ names' = [names EXCEPT ![op[c].key] = c] /\ temps' = temps \ {c}
        /\ Return(c, "ok")
     \/ /\ \/ names' = [names EXCEPT ![op[c].key] = c] /\ temps' = temps \ {c}
           \/ UNCHANGED <<names, temps>>
        /\ Fail(c, "rmTemp") /\ UNCHANGED permits
  /\ UNCHANGED <<op, content, reads, victim, leaked>>

\* remove_file on the uuid name, which no other call uses: first inside
\* write_file, its permits still held, then once more in put_blob.  Errors
\* are ignored.
RemoveTemp(c) ==
  /\ pc[c] \in {"rmPart", "rmTemp"}
  /\ temps' \in {temps, temps \ {c}}
  /\ IF pc[c] = "rmPart" THEN Goto(c, "rmTemp") /\ res' = res /\ leaked' = leaked
                         ELSE /\ Goto(c, "done") /\ res' = res
                              /\ leaked' = IF c \in temps' THEN leaked \cup {c} ELSE leaked
  /\ Holds(c, 0)
  /\ UNCHANGED <<op, names, content, reads, victim>>

-----------------------------------------------------------------------------
(* remove_file on a key: delete_blob, and the cleanup of a conditional      *)
(* write.  The file is found by its name and then deleted by its handle.    *)

Removed(c, r) == Return(c, IF Kind(c) = "delete" THEN r ELSE "io")

\* Mutant: NotFound is retried until there is a file to remove.
RemoveOpenRetries(c) ==
  /\ pc[c] = "rmOpen"
  /\ names[op[c].key] # None
  /\ victim' = [victim EXCEPT ![c] = names[op[c].key]] /\ Goto(c, "rmDelete")
  /\ UNCHANGED <<op, res, permits, server, reads, leaked>>

RemoveOpen(c) ==
  /\ pc[c] = "rmOpen"
  /\ LET f == names[op[c].key] IN
       \/ f # None /\ victim' = [victim EXCEPT ![c] = f] /\ Goto(c, "rmDelete")
          /\ UNCHANGED <<res, permits>>
       \/ f = None /\ victim' = victim /\ Removed(c, "ok")
       \/ victim' = victim /\ Removed(c, "io")
  /\ UNCHANGED <<op, server, reads, leaked>>

RemoveDelete(c) ==
  /\ pc[c] = "rmDelete"
  /\ LET unlinked == [names EXCEPT ![op[c].key] = IF @ = victim[c] THEN None ELSE @] IN
       \/ names' = unlinked /\ Removed(c, "ok")
       \/ names' \in {names, unlinked} /\ Removed(c, "io")
  /\ UNCHANGED <<op, temps, content, reads, victim, leaked>>

-----------------------------------------------------------------------------
(* get_blob and its stream, and head_blob.                                  *)

OpenFile(c) ==
  /\ pc[c] = "open"
  /\ LET f == names[IF Kind(c) = "copy" THEN op[c].from ELSE op[c].key] IN
       \/ f # None /\ handle' = [handle EXCEPT ![c] = f] /\ Goto(c, "stat")
          /\ UNCHANGED <<res, permits>>
       \/ f = None /\ handle' = handle /\ Return(c, "missing")
       \/ handle' = handle /\ Return(c, "io")
  /\ UNCHANGED <<op, server, size, pos, skip, rest, out, victim, leaked>>

\* The bytes asked for, in a file of n bytes.
Lo(c) == IF Kind(c) = "range" THEN op[c].range[1] ELSE 0
Wanted(c, n) == IF Kind(c) = "range" THEN op[c].range[2] - op[c].range[1] ELSE n

\* The length of the file, asked on the handle.  get_blob hands out a stream
\* that owns the permit; get_blob_range wraps it; copy_blob passes it to
\* put_blob, which needs another permit.
Stat(c) ==
  /\ pc[c] = "stat"
  /\ LET n == content[handle[c]].len IN
     \/ /\ size' = [size EXCEPT ![c] = n]
        /\ skip' = [skip EXCEPT ![c] = Lo(c)]
        /\ rest' = [rest EXCEPT ![c] = Wanted(c, n)]
        /\ Goto(c, IF Kind(c) = "copy" THEN "permit" ELSE "stream")
        /\ UNCHANGED <<res, permits>>
     \/ UNCHANGED <<size, skip, rest>> /\ Return(c, "io")
  /\ UNCHANGED <<op, server, handle, pos, out, victim, leaked>>

\* The size hint of the stream that is handed out.
SizeHint(c) == AtMost(Minus(size[c], Lo(c)), Wanted(c, size[c]))

\* Mutant: what was skipped in one chunk is skipped in the next as well.
DeliverSkipsAgain(c, n) ==
  LET take == AtMost(Minus(n, skip[c]), rest[c])
  IN IF skip[c] >= n THEN skip' = [skip EXCEPT ![c] = @ - n] /\ UNCHANGED <<rest, out>>
     ELSE /\ out' = [out EXCEPT ![c] = @ \o Bytes(pos[c] + skip[c], take)]
          /\ rest' = [rest EXCEPT ![c] = @ - take]
          /\ skip' = skip

\* What a reader is given of the n bytes read at pos: all of them, or what the
\* closure of ranged_storage_stream leaves of them.
Deliver(c, n) ==
  LET take == AtMost(n - skip[c], rest[c])
  IN IF skip[c] >= n THEN skip' = [skip EXCEPT ![c] = @ - n] /\ UNCHANGED <<rest, out>>
     ELSE /\ out' = [out EXCEPT ![c] = @ \o Bytes(pos[c] + skip[c], take)]
          /\ rest' = [rest EXCEPT ![c] = @ - take]
          /\ skip' = [skip EXCEPT ![c] = 0]

\* A read may be short, but not empty.
ReadChunk(c) ==
  /\ pc[c] = "stream" /\ pos[c] < size[c] /\ rest[c] > 0
  /\ \/ \E n \in 1..ChunkSize : /\ pos[c] + n <= size[c]
                              /\ Deliver(c, n)
                              /\ pos' = [pos EXCEPT ![c] = @ + n]
                              /\ UNCHANGED <<pc, res, permits>>
     \/ UNCHANGED <<pos, skip, rest, out>> /\ Return(c, "io")
  /\ UNCHANGED <<op, server, handle, size, victim, leaked>>

\* Mutant: the end of the stream keeps the permit.
EndReadKeepsPermit(c) ==
  /\ pc[c] = "stream" /\ pos[c] = size[c]
  /\ \E r \in {"ok", "io"} : Goto(c, "done") /\ Decide(c, r)
  /\ UNCHANGED <<op, permits, server, reads, victim, leaked>>

\* The stream closes the file at its end, but a range that has been delivered
\* drops it as it is; the permit goes with the stream.
EndRead(c) ==
  /\ pc[c] = "stream"
  /\ \/ Kind(c) = "range" /\ rest[c] = 0 /\ Return(c, "ok")
     \/ /\ Kind(c) = "range" => rest[c] > 0
        /\ pos[c] >= size[c]
        /\ \E r \in {"ok", "io"} : Return(c, r)
  /\ UNCHANGED <<op, server, reads, victim, leaked>>

HeadBlob(c) ==
  /\ pc[c] = "head"
  /\ \E r \in {IF names[op[c].key] = None THEN "missing" ELSE "ok", "io"} : Return(c, r)
  /\ UNCHANGED <<op, server, reads, victim, leaked>>

-----------------------------------------------------------------------------

\* The future or the stream of a call is dropped: its permits and its place
\* in the queue are given back, its files stay.
Interrupt(c) ==
  /\ pc[c] \notin {"idle", "done"}
  /\ Goto(c, "done") /\ Decide(c, "dropped")
  /\ held' = [held EXCEPT ![c] = 0]
  /\ queue' = Leave(queue, c)
  /\ leaked' = IF c \in temps THEN leaked \cup {c} ELSE leaked
  /\ UNCHANGED <<op, server, reads, victim>>

Step(c) ==
  \/ AskPermit(c) \/ Grant(c)
  \/ CreateTemp(c) \/ CreateKey(c) \/ WriteChunk(c) \/ WriteFails(c) \/ EndWrite(c)
  \/ Rename(c) \/ RemoveTemp(c) \/ RemoveOpen(c) \/ RemoveDelete(c)
  \/ OpenFile(c) \/ Stat(c) \/ ReadChunk(c) \/ EndRead(c) \/ HeadBlob(c)

Quiescent == (\A c \in Calls : pc[c] = "done") /\ UNCHANGED vars

Next == (\E c \in Calls : Invoke(c) \/ Step(c) \/ Interrupt(c)) \/ Quiescent

Spec == Init /\ [][Next]_vars

\* Every request to the server is under a timeout, streams are polled to their
\* end, and the semaphore serves its first waiter.  No call needs to be made,
\* and none to be dropped.
FairSpec == Spec /\ \A c \in Calls : WF_vars(Step(c))

-----------------------------------------------------------------------------
Labels ==
  {"idle", "permit", "waiting", "create", "write", "rename", "rmPart", "rmTemp",
   "rmOpen", "rmDelete", "open", "stat", "stream", "head", "done"}

\* Every variable has its type, a call waits in the queue exactly once and
\* exactly while transfer_permit is pending, and no more than
\* max_transfer_concurrency permits are out.
TypeOK ==
  /\ op \in [Calls -> Requests \cup {None}]
  /\ pc \in [Calls -> Labels]
  /\ res \in [Calls -> {"none", "ok", "exists", "missing", "precondition", "io", "dropped"}]
  /\ queue \in Seq(Calls) /\ OnceEach(queue)
  /\ \A c \in Calls : pc[c] = "waiting" <=> Waits(queue, c)
  /\ held \in [Calls -> 0..2]
  /\ Used <= MaxTransfers
  /\ names \in [Keys -> Calls \cup {None}]
  /\ temps \subseteq Calls
  /\ content \in [Calls -> [body : Calls \cup {None}, len : Nat]]
  /\ handle \in [Calls -> Calls \cup {None}]
  /\ victim \in [Calls -> Calls \cup {None}]
  /\ \A v \in {size, pos, skip, rest} : v \in [Calls -> Nat]
  /\ out \in [Calls -> Seq(Nat)]
  /\ leaked \subseteq Calls

\* put_blob publishes by rename, so whatever fails, a key never shows part of
\* what a put or a copy was given; and a reader that opens such a file and ends
\* well is given exactly the bytes it asked for of it, in order and as many as
\* the size hint said, however the reads cut the file and also when another
\* blob has taken the key since.
RenamedFilesAreWhole ==
  \A f \in Calls : op[f] # None /\ Kind(f) \in {"put", "copy"} =>
    /\ (\E k \in Keys : names[k] = f) => content[f].len = Length(f)
    /\ \A c \in Calls : handle[c] = f /\ Kind(c) \in {"get", "range"} /\ res[c] = "ok" =>
         LET from == AtMost(Lo(c), Length(f))
             to == AtMost(Lo(c) + Wanted(c, Length(f)), Length(f))
         IN out[c] = Bytes(from, to - from) /\ SizeHint(c) = to - from

\* The lock of docs/native-smb.md: when only conditional writes address a key,
\* at most one is acknowledged, and its whole file is at the key from then on,
\* whatever the failures and the cleanups of the others.
OneConditionalWinner ==
  \A c \in Calls :
    /\ op[c] # None /\ Kind(c) = "create" /\ res[c] = "ok"
    /\ \A d \in Calls : op[d] # None /\ op[d].key = op[c].key => Kind(d) \in {"create", "get", "range", "head"}
    => names[op[c].key] = c /\ content[c].len = Length(c)

\* An upload file outlives its call only if both removals failed or the call
\* was dropped.
TempsAccounted == \A f \in temps : pc[f] = "done" => f \in leaked

\* Copies hold one permit while they wait for another, yet the permits are
\* never all with waiters as long as fewer than max_transfer_concurrency
\* copies run: some holder can go on and give its permits back.
NoTransferDeadlock ==
  queue # <<>> =>
    \/ Used < MaxTransfers
    \/ \E c \in Calls : held[c] > 0 /\ pc[c] \notin {"waiting", "done"}

\* Every call that is made ends.
EveryCallEnds == \A c \in Calls : pc[c] # "idle" ~> pc[c] = "done"

\* A conditional write writes "only when the destination key does not exist"
\* (blob.rs): no step of it takes from its key a blob that another call has
\* been acknowledged for.
ConditionalWritesKeepOthers ==
  [][\A c \in Calls : op[c] # None /\ Kind(c) = "create" /\ pc'[c] # pc[c] =>
       \A k \in Keys : names[k] \notin {None, c} /\ res[names[k]] = "ok" =>
         names'[k] = names[k]]_vars

=============================================================================
