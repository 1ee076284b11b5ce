---------------------------- MODULE S3BlobStore -----------------------------
(***************************************************************************)
(* S3StorageBackend (s3.rs).  put_blob_inner buffers its body: a body that *)
(* never fills a part is one PutObject, a longer one is a multipart upload *)
(* of PartSize pieces.  Every other operation is one request.              *)
(*                                                                         *)
(* A request is answered, or it gets no reply.  A request without a reply  *)
(* stays in late: the provider may still carry it out, now, after the      *)
(* SDK's retry of it, after the call has returned, or never.  The provider *)
(* keeps objects by key and uploads by id, and gives readers the object as *)
(* it is when they ask.                                                    *)
(***************************************************************************)
EXTENDS Naturals, SequencesExt

CONSTANTS Calls,    \* API calls, each made at most once
          Chars,    \* the characters of keys
          Keys,     \* blob keys, sequences of characters
          Prefix,   \* key_prefix, trimmed, a sequence of characters
          Slash,    \* the character "/"
          Foreign,  \* provider keys of other users of the bucket
          Sizes,    \* body lengths
          PartSize, \* MULTIPART_PART_SIZE
          MaxChunk, \* the longest chunk a body stream yields
          MaxParts, \* the provider's limit on part numbers
          Ranges,   \* ranges asked for, as <<start, end>>
          MaxTries, \* attempts the SDK makes at a request
          MaxFaults, \* bound on requests without reply and dropped futures
          None

Requests ==
  [kind : {"put", "create"}, key : Keys, size : Sizes]
    \cup [kind : {"get", "head", "delete"}, key : Keys]
    \cup [kind : {"list"}]
    \cup [kind : {"range"}, key : Keys, range : Ranges]
    \cup [kind : {"copy"}, key : Keys, from : Keys]

\* Requests as the abstract store sees them: a put without the length of its body.
AbsRequests == Requests \cup [kind : {"put", "create"}, key : Keys]

\* Upload ids, by the call and the attempt that created the upload; objects, by
\* whose body they hold and the pieces that it was sent in.
Ids == Calls \X Nat
Objects == [by : Calls, pieces : Seq(Nat \X Nat)]

ASSUME S3Assumption ==
  /\ Sizes \subseteq Nat /\ PartSize \in Nat \ {0} /\ MaxChunk \in Nat \ {0}
  /\ MaxParts \in Nat /\ MaxTries \in Nat \ {0} /\ MaxFaults \in Nat
  /\ Ranges \subseteq Nat \X Nat
  /\ Keys \cup Foreign \cup {Prefix} \subseteq Seq(Chars) /\ Slash \in Chars
  /\ \A k \in Keys : k # <<>> /\ k[1] # Slash                    \* validate_blob_key
  /\ \A n \in Foreign : ~IsPrefix(Prefix \o <<Slash>>, n)
  /\ None \notin Calls \cup AbsRequests \cup Ids \cup Objects

VARIABLES op, pc, res,
          tries,   \* tries[c]: attempts made at the current request
          buffer,  \* buffer[c]: bytes read from the body and not yet sent
          sent,    \* sent[c]: bytes in acknowledged parts
          mine,    \* mine[c]: upload_id
          next,    \* next[c]: next_part_number
          listed,  \* listed[c]: completed_parts, by number
          objects, \* provider: objects[k], whose body and in which pieces
          uploads, \* provider: open uploads, <<call, attempt>>
          parts,   \* provider: parts[c], the pieces stored for mine[c], by number
          landed,  \* history: the calls whose write has been carried out
          late,    \* requests without reply that may still be carried out
          faults,  \* requests without reply and dropped futures so far
          seen,    \* seen[c]: the object whose bytes a reader is given
          found    \* found[c]: the keys a list page names

body == <<tries, buffer, sent, mine, next, listed>>
provider == <<objects, uploads, parts, landed>>
network == <<late, faults>>
vars == <<op, pc, res, body, provider, network, seen, found>>

Kind(c) == op[c].kind
Key(c) == op[c].key
Size(c) == op[c].size

Init ==
  /\ op = [c \in Calls |-> None]
  /\ pc = [c \in Calls |-> "idle"]
  /\ res = [c \in Calls |-> "none"]
  /\ tries = [c \in Calls |-> 1]
  /\ buffer = [c \in Calls |-> 0]
  /\ sent = [c \in Calls |-> 0]
  /\ mine = [c \in Calls |-> None]
  /\ next = [c \in Calls |-> 1]
  /\ listed = [c \in Calls |-> <<>>]
  /\ objects = [k \in Keys |-> None]
  /\ uploads = {}
  /\ parts = [c \in Calls |-> <<>>]
  /\ landed = {} /\ late = {} /\ faults = 0
  /\ seen = [c \in Calls |-> None]
  /\ found = [c \in Calls |-> {}]

\* A request that was answered takes its attempts with it.
Goto(c, label) == pc' = [pc EXCEPT ![c] = label] /\ tries' = [tries EXCEPT ![c] = 1]
Decide(c, r) == res' = [res EXCEPT ![c] = r]
Return(c, r) == Goto(c, "done") /\ Decide(c, r)

Inverted(r) == r[2] < r[1]
Empty(r) == r[2] = r[1]

\* An inverted range is refused and an empty one is a head_blob.
FirstStep(r) ==
  CASE r.kind \in {"put", "create"} -> "read"
    [] r.kind = "range" -> IF Inverted(r.range) THEN "refuse"
                           ELSE IF Empty(r.range) THEN "head" ELSE "get"
    [] OTHER -> r.kind

Invoke(c) ==
  /\ pc[c] = "idle"
  /\ \E r \in Requests : op' = [op EXCEPT ![c] = r] /\ Goto(c, FirstStep(r))
  /\ UNCHANGED <<res, buffer, sent, mine, next, listed, provider, network, seen, found>>

Refuse(c) ==
  /\ pc[c] = "refuse"
  /\ Return(c, "precondition")
  /\ UNCHANGED <<op, buffer, sent, mine, next, listed, provider, network, seen, found>>

-----------------------------------------------------------------------------
(* The provider.  Each operation changes what the provider keeps.           *)

\* Mutant: only PutObject carries the condition.
BlockedSingle(c) == Kind(c) = "create" /\ mine[c] = None /\ objects[Key(c)] # None

\* If-None-Match: * does not match a key that holds an object.
Blocked(c) == Kind(c) = "create" /\ objects[Key(c)] # None

\* The write of call c leaves o at its key.
Store(c, o) ==
  objects' = [objects EXCEPT ![Key(c)] = o] /\ landed' = landed \cup {c}

\* A part replaces the part of that number.
StorePart(c, n, piece) ==
  parts' = [parts EXCEPT ![c] =
              [i \in 1..(IF n > Len(@) THEN n ELSE Len(@)) |-> IF i = n THEN piece ELSE @[i]]]

Assemble(c) == [i \in DOMAIN listed[c] |-> parts[c][listed[c][i]]]

\* What carrying out a request does; it may find that it has nothing to do.
Execute(r) ==
  LET c == r.call IN
  CASE r.step = "upload" ->
         uploads' = uploads \cup {r.id} /\ UNCHANGED <<objects, parts, landed>>
    [] r.step \in {"part", "tail"} /\ r.id \in uploads /\ r.n <= MaxParts ->
         StorePart(c, r.n, r.piece) /\ UNCHANGED <<objects, uploads, landed>>
    [] r.step = "complete" /\ r.id \in uploads /\ ~Blocked(c) ->
         Store(c, [by |-> c, pieces |-> Assemble(c)]) /\ uploads' = uploads \ {r.id} /\ parts' = parts
    [] r.step = "abort" ->
         uploads' = uploads \ {r.id} /\ UNCHANGED <<objects, parts, landed>>
    [] r.step = "single" /\ ~Blocked(c) ->
         Store(c, [by |-> c, pieces |-> <<r.piece>>]) /\ UNCHANGED <<uploads, parts>>
    [] r.step = "copy" /\ objects[op[c].from] # None ->
         Store(c, objects[op[c].from]) /\ UNCHANGED <<uploads, parts>>
    [] r.step = "delete" ->
         Store(c, None) /\ UNCHANGED <<uploads, parts>>
    [] OTHER -> UNCHANGED provider

\* A request that its sender no longer waits for is carried out after all.
Land ==
  /\ \E r \in late : Execute(r) /\ late' = late \ {r}
  /\ UNCHANGED <<op, pc, res, body, faults, seen, found>>

-----------------------------------------------------------------------------
(* Requests.                                                                *)

PartLen(c) == IF buffer[c] > PartSize THEN PartSize ELSE buffer[c]

\* What call c sends at its current step: the upload it addresses, the number
\* and the bytes of the part.
Sent(c) ==
  [call |-> c, step |-> pc[c], try |-> tries[c],
   id |-> IF pc[c] = "upload" THEN <<c, tries[c]>> ELSE mine[c],
   n |-> next[c], piece |-> <<sent[c], sent[c] + PartLen(c)>>]

WriteSteps == {"upload", "part", "tail", "complete", "abort", "single", "copy", "delete"}
ReadSteps == {"get", "head", "list"}

\* The request fails for good.  Only a failed completion aborts the upload,
\* and the result of the abort is ignored.
GiveUp(c) ==
  CASE pc[c] = "complete" -> Decide(c, "io") /\ Goto(c, "abort")
    [] pc[c] = "abort"    -> res' = res /\ Goto(c, "done")
    [] OTHER              -> Return(c, "io")

\* No reply: the SDK tries again as long as it may, or the error is returned.
NoReply(c) ==
  /\ pc[c] \in WriteSteps \cup ReadSteps
  /\ faults < MaxFaults /\ faults' = faults + 1
  /\ late' = IF pc[c] \in WriteSteps THEN late \cup {Sent(c)} ELSE late
  /\ \/ /\ tries[c] < MaxTries
        /\ tries' = [tries EXCEPT ![c] = @ + 1]
        /\ UNCHANGED <<pc, res>>
     \/ GiveUp(c)
  /\ UNCHANGED <<op, buffer, sent, mine, next, listed, provider, seen, found>>

-----------------------------------------------------------------------------
(* put_blob_inner.                                                          *)

\* The stream yields a chunk; whole parts are sent before it is asked again.
ReadChunk(c) ==
  /\ pc[c] = "read"
  /\ \E n \in 1..MaxChunk :
       /\ sent[c] + buffer[c] + n <= Size(c)
       /\ buffer' = [buffer EXCEPT ![c] = @ + n]
  /\ Goto(c, IF buffer'[c] < PartSize THEN "read"
             ELSE IF mine[c] = None THEN "upload" ELSE "part")
  /\ UNCHANGED <<op, res, sent, mine, next, listed, provider, network, seen, found>>

\* chunk?: the error of the stream is returned at once, the upload stays.
StreamFails(c) ==
  /\ pc[c] = "read"
  /\ Return(c, "io")
  /\ UNCHANGED <<op, buffer, sent, mine, next, listed, provider, network, seen, found>>

\* Mutant: what is left in the buffer is not sent.
EndOfStreamDropsTail(c) ==
  /\ pc[c] = "read" /\ sent[c] + buffer[c] = Size(c)
  /\ Goto(c, IF mine[c] = None THEN "single" ELSE "complete")
  /\ UNCHANGED <<op, res, buffer, sent, mine, next, listed, provider, network, seen, found>>

EndOfStream(c) ==
  /\ pc[c] = "read" /\ sent[c] + buffer[c] = Size(c)
  /\ Goto(c, IF mine[c] = None THEN "single" ELSE IF buffer[c] > 0 THEN "tail" ELSE "complete")
  /\ UNCHANGED <<op, res, buffer, sent, mine, next, listed, provider, network, seen, found>>

CreateUpload(c) ==
  /\ pc[c] = "upload"
  /\ Execute(Sent(c))
  /\ mine' = [mine EXCEPT ![c] = <<c, tries[c]>>]
  /\ Goto(c, "part")
  /\ UNCHANGED <<op, res, buffer, sent, next, listed, network, seen, found>>

\* Mutant: next_part_number is not advanced.
UploadPartSameNumber(c) ==
  /\ pc[c] \in {"part", "tail"} /\ next[c] <= MaxParts
  /\ Execute(Sent(c))
  /\ listed' = [listed EXCEPT ![c] = Append(@, next[c])]
  /\ sent' = [sent EXCEPT ![c] = @ + PartLen(c)]
  /\ buffer' = [buffer EXCEPT ![c] = @ - PartLen(c)]
  /\ Goto(c, IF pc[c] = "tail" THEN "complete" ELSE IF buffer'[c] >= PartSize THEN "part" ELSE "read")
  /\ UNCHANGED <<op, res, mine, next, network, seen, found>>

UploadPart(c) ==
  /\ pc[c] \in {"part", "tail"} /\ next[c] <= MaxParts
  /\ Execute(Sent(c))
  /\ listed' = [listed EXCEPT ![c] = Append(@, next[c])]
  /\ next' = [next EXCEPT ![c] = @ + 1]
  /\ sent' = [sent EXCEPT ![c] = @ + PartLen(c)]
  /\ buffer' = [buffer EXCEPT ![c] = @ - PartLen(c)]
  /\ Goto(c, IF pc[c] = "tail" THEN "complete" ELSE IF buffer'[c] >= PartSize THEN "part" ELSE "read")
  /\ UNCHANGED <<op, res, mine, network, seen, found>>

\* The provider refuses a part number above its limit.
PartRefused(c) ==
  /\ pc[c] \in {"part", "tail"} /\ next[c] > MaxParts
  /\ Return(c, "io")
  /\ UNCHANGED <<op, buffer, sent, mine, next, listed, provider, network, seen, found>>

\* Mutant: a precondition failure is taken for success.
PutSingleUnchecked(c) ==
  /\ pc[c] = "single"
  /\ Execute(Sent(c))
  /\ Return(c, "ok")
  /\ UNCHANGED <<op, buffer, sent, mine, next, listed, network, seen, found>>

\* put_single_blob.  412 is Ok(None) for a conditional put.
PutSingle(c) ==
  /\ pc[c] = "single"
  /\ Execute(Sent(c))
  /\ Return(c, IF Blocked(c) THEN "exists" ELSE "ok")
  /\ UNCHANGED <<op, buffer, sent, mine, next, listed, network, seen, found>>

\* Mutant: a refused completion is not followed by an abort.
CompleteWithoutAbort(c) ==
  /\ pc[c] = "complete"
  /\ Execute(Sent(c))
  /\ \/ mine[c] \in uploads /\ ~Blocked(c) /\ Return(c, "ok")
     \/ Blocked(c) /\ Return(c, "exists")
     \/ mine[c] \notin uploads /\ Return(c, "ok")
     \/ mine[c] \notin uploads /\ Return(c, "io")
  /\ UNCHANGED <<op, buffer, sent, mine, next, listed, network, seen, found>>

\* complete_multipart_upload.  When an earlier attempt has been carried out,
\* the upload is gone: the provider repeats its success or knows no such
\* upload.  A conditional completion may as well meet the call's own object.
Complete(c) ==
  /\ pc[c] = "complete"
  /\ Execute(Sent(c))
  /\ \/ mine[c] \in uploads /\ ~Blocked(c) /\ Return(c, "ok")
     \/ Blocked(c) /\ Decide(c, "exists") /\ Goto(c, "abort")
     \/ mine[c] \notin uploads /\ Return(c, "ok")
     \/ mine[c] \notin uploads /\ Decide(c, "io") /\ Goto(c, "abort")
  /\ UNCHANGED <<op, buffer, sent, mine, next, listed, network, seen, found>>

Abort(c) ==
  /\ pc[c] = "abort"
  /\ Execute(Sent(c))
  /\ Goto(c, "done")
  /\ UNCHANGED <<op, res, buffer, sent, mine, next, listed, network, seen, found>>

-----------------------------------------------------------------------------
(* The other operations.                                                    *)

\* The last piece ends where the object ends.
Length(o) == o.pieces[Len(o.pieces)][2]

\* get_blob and get_blob_range.  A range that starts past the end is refused.
GetObject(c) ==
  /\ pc[c] = "get"
  /\ LET o == objects[Key(c)] IN
       \/ o = None /\ Return(c, "missing") /\ seen' = seen
       \/ /\ o # None
          /\ IF Kind(c) = "range" /\ op[c].range[1] >= Length(o)
               THEN Return(c, "io") /\ seen' = seen
               ELSE Goto(c, "stream") /\ res' = res /\ seen' = [seen EXCEPT ![c] = o]
  /\ UNCHANGED <<op, buffer, sent, mine, next, listed, provider, network, found>>

\* The body stream is read to its end or fails.
Stream(c) ==
  /\ pc[c] = "stream"
  /\ \E r \in {"ok", "io"} : Return(c, r)
  /\ UNCHANGED <<op, buffer, sent, mine, next, listed, provider, network, seen, found>>

\* head_blob and blob_exists; an empty range is served whether or not there is
\* a blob.
HeadBlob(c) ==
  /\ pc[c] = "head"
  /\ Return(c, IF objects[Key(c)] = None /\ Kind(c) = "head" THEN "missing" ELSE "ok")
  /\ UNCHANGED <<op, buffer, sent, mine, next, listed, provider, network, seen, found>>

CopyBlob(c) ==
  /\ pc[c] = "copy"
  /\ Execute(Sent(c))
  /\ Return(c, IF objects[op[c].from] = None THEN "missing" ELSE "ok")
  /\ UNCHANGED <<op, buffer, sent, mine, next, listed, network, seen, found>>

DeleteBlob(c) ==
  /\ pc[c] = "delete"
  /\ Execute(Sent(c))
  /\ Return(c, "ok")
  /\ UNCHANGED <<op, buffer, sent, mine, next, listed, network, seen, found>>

provider_key(k) == IF Prefix = <<>> THEN k ELSE Prefix \o <<Slash>> \o k

\* Mutant: the prefix is cut off without its slash.
strip_prefix_only(name) ==
  IF IsPrefix(Prefix, name) THEN SubSeq(name, Len(Prefix) + 1, Len(name)) ELSE name

\* A key that is not under the prefix is returned as it is.
strip_provider_prefix(name) ==
  IF IsPrefix(Prefix \o <<Slash>>, name) THEN SubSeq(name, Len(Prefix) + 2, Len(name)) ELSE name

\* list_blobs_page("") asks for the names that begin with the bare prefix.
ListPage(c) ==
  /\ pc[c] = "list"
  /\ LET names == {provider_key(k) : k \in {j \in Keys : objects[j] # None}} \cup Foreign
     IN found' = [found EXCEPT ![c] =
          {strip_provider_prefix(n) : n \in {m \in names : IsPrefix(Prefix, m)}} \ {<<>>}]
  /\ Return(c, "ok")
  /\ UNCHANGED <<op, buffer, sent, mine, next, listed, provider, network, seen>>

-----------------------------------------------------------------------------

\* The future of a call is dropped; a request on its way may still arrive.
Interrupt(c) ==
  /\ pc[c] \notin {"idle", "done"}
  /\ faults < MaxFaults /\ faults' = faults + 1
  /\ Return(c, "dropped")
  /\ late' \in {late, IF pc[c] \in WriteSteps THEN late \cup {Sent(c)} ELSE late}
  /\ UNCHANGED <<op, buffer, sent, mine, next, listed, provider, seen, found>>

Step(c) ==
  \/ Refuse(c) \/ ReadChunk(c) \/ StreamFails(c) \/ EndOfStream(c)
  \/ CreateUpload(c) \/ UploadPart(c) \/ PartRefused(c) \/ PutSingle(c) \/ Complete(c) \/ Abort(c)
  \/ GetObject(c) \/ Stream(c) \/ HeadBlob(c) \/ CopyBlob(c) \/ DeleteBlob(c) \/ ListPage(c)
  \/ NoReply(c)

Quiescent == (\A c \in Calls : pc[c] = "done") /\ UNCHANGED vars

Next == (\E c \in Calls : Invoke(c) \/ Step(c) \/ Interrupt(c)) \/ Land \/ Quiescent

Spec == Init /\ [][Next]_vars

-----------------------------------------------------------------------------
Labels == {"idle", "refuse", "read", "stream", "done"} \cup WriteSteps \cup ReadSteps
Results == {"none", "ok", "exists", "missing", "precondition", "io", "dropped"}

\* Every variable has its type; part numbers are given out once each, and only
\* acknowledged parts are listed for completion.
TypeOK ==
  /\ op \in [Calls -> Requests \cup {None}]
  /\ pc \in [Calls -> Labels]
  /\ res \in [Calls -> Results]
  /\ tries \in [Calls -> 1..MaxTries]
  /\ buffer \in [Calls -> Nat] /\ sent \in [Calls -> Nat]
  /\ mine \in [Calls -> Ids \cup {None}]
  /\ next \in [Calls -> Nat \ {0}]
  /\ listed \in [Calls -> Seq(Nat)]
  /\ \A c \in Calls : Len(listed[c]) + 1 = next[c] /\ \A i \in DOMAIN listed[c] : listed[c][i] = i
  /\ objects \in [Keys -> Objects \cup {None}]
  /\ uploads \subseteq Ids
  /\ parts \in [Calls -> Seq(Nat \X Nat)]
  /\ landed \subseteq Calls
  /\ \A r \in late : r.call \in Calls /\ r.step \in WriteSteps
  /\ faults \in 0..MaxFaults
  /\ seen \in [Calls -> Objects \cup {None}]

\* Pieces that follow one another from the first byte of a body to its last.
Whole(o) ==
  LET n == Len(o.pieces) IN
  /\ n > 0 /\ o.pieces[1][1] = 0 /\ o.pieces[n][2] = Size(o.by)
  /\ \A i \in 2..n : o.pieces[i][1] = o.pieces[i - 1][2]

\* put_blob_inner cuts the body into parts and the provider puts them together
\* again: whatever is retried, lost or late, a key holds and a reader gets the
\* bytes of one body, all of them and in order.
ObjectsAreWhole ==
  /\ \A k \in Keys : objects[k] # None => Whole(objects[k])
  /\ \A c \in Calls : seen[c] # None => Whole(seen[c])

\* When only conditional writes address a key, the key keeps the body of the
\* one that is acknowledged, and Ok(None) is only returned for a key that
\* keeps a body, although requests are retried and arrive late.
OneConditionalWinner ==
  \A c \in Calls :
    /\ op[c] # None /\ Kind(c) = "create" /\ res[c] \in {"ok", "exists"}
    /\ \A d \in Calls : op[d] # None /\ Kind(d) \in {"put", "copy", "delete"} => Key(d) # Key(c)
    => objects[Key(c)] # None /\ (res[c] = "ok" => objects[Key(c)].by = c)

\* A put that succeeds, or that returns Ok(None), leaves no upload of its own
\* at the provider unless its abort got no reply; a put that fails may, and
\* so may an attempt to create the upload that got no reply.
UploadsAccounted ==
  \A c \in Calls : pc[c] = "done" /\ res[c] \in {"ok", "exists"} /\ mine[c] \in uploads =>
    \E r \in late : r.call = c /\ r.step = "abort"

\* list_blobs("") names blobs of this store by their keys, except that it also
\* names, unshortened, what others keep under names that merely begin with
\* the prefix.
ListingNamesBlobs ==
  \A c \in Calls : \A k \in found[c] :
    \/ k \in Keys
    \/ k \in Foreign /\ IsPrefix(Prefix, k) /\ ~IsPrefix(Prefix \o <<Slash>>, k)

-----------------------------------------------------------------------------
(* Refinement.  An empty range only observes.                               *)

AbsRequest(c) ==
  IF op[c] = None THEN None
  ELSE IF Kind(c) = "range" /\ Empty(op[c].range) THEN [kind |-> "head", key |-> Key(c)]
  ELSE IF Kind(c) \in {"put", "create"} THEN [kind |-> Kind(c), key |-> Key(c)]
  ELSE op[c]

Abstract(o) == IF o = None THEN None ELSE IF Whole(o) THEN o.by ELSE "torn"

R == INSTANCE RemoteStoreSpec WITH
  Absent <- None, Requests <- AbsRequests,
  store <- [k \in Keys |-> Abstract(objects[k])],
  req <- [c \in Calls |-> AbsRequest(c)],
  got <- [c \in Calls |-> Abstract(seen[c])],
  ans <- res

\* The S3 backend is a remote store: its effects are whole and stay within
\* what each call asked for, success is reported only for an effect, Ok(None)
\* only for an occupied key, and readers get a body that was there.
ImplementsRemoteStore == R!AbsSpec

====
