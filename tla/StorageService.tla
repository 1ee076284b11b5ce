--------------------------- MODULE StorageService ---------------------------
(***************************************************************************)
(* StorageService (service.rs) over a backend that keeps the promises of   *)
(* RemoteStoreSpec, the weakest that the backends of this crate make: the  *)
(* key of a new object (key.rs) and its validation, the locator that the   *)
(* application keeps, and every operation by locator.  Its backends are    *)
(* the ObjectStorage implementations, local and S3; a range is cut by      *)
(* their own get_blob_range.                                               *)
(*                                                                         *)
(* Strings are sequences of characters; some characters stand for longer   *)
(* pieces of text, and the uuid of an object is the call that stores it.   *)
(* Bytes of a body are named by their positions in it.                     *)
(***************************************************************************)
EXTENDS Naturals, SequencesExt, FiniteSetsExt, ByteRange

CONSTANTS Calls,     \* service calls, each made at most once
          FileNames, \* original file names, sequences of characters
          Sizes,     \* body lengths
          Ranges,    \* ranges asked for, as <<start, end>>
          MaxChunk,  \* the longest chunk a body stream yields
          None

ASSUME ServiceAssumption ==
  /\ FileNames \subseteq Seq(STRING)
  /\ Sizes \subseteq Nat /\ Ranges \subseteq Nat \X Nat /\ MaxChunk \in Nat \ {0}
  /\ None \notin Calls \cup FileNames
  /\ Calls \cap {"/", "\\", "NUL", "."} = {}

-----------------------------------------------------------------------------
(* Keys.                                                                    *)

Lower(ch) == CASE ch = "A" -> "a" [] ch = "UPLOADING" -> "uploading" [] OTHER -> ch
to_ascii_lowercase(s) == [i \in DOMAIN s |-> Lower(s[i])]

Has(s, ch) == \E i \in DOMAIN s : s[i] = ch

trim(s) ==
  LET inner == {i \in DOMAIN s : s[i] # "BLANK"}
  IN IF inner = {} THEN <<>> ELSE SubSeq(s, Min(inner), Max(inner))

\* What follows the last dot.
LastSegment(s) == SubSeq(s, Max({i \in DOMAIN s : s[i] = "."}) + 1, Len(s))

\* Mutant: path separators in the extension are not refused.
file_extension_unchecked(name) ==
  IF name = None \/ ~Has(name, ".") \/ trim(LastSegment(name)) = <<>> THEN None
  ELSE trim(LastSegment(name))

file_extension(name) ==
  IF name = None \/ ~Has(name, ".") THEN None
  ELSE LET candidate == trim(LastSegment(name))
       IN IF candidate = <<>> \/ \E ch \in {"/", "\\", "NUL"} : Has(candidate, ch)
            THEN None ELSE candidate

build_storage_key(id, ext) ==
  <<"ns", "/", "s1", "/", "s2", "/", id>>
    \o (IF ext = None THEN <<>> ELSE <<".">> \o to_ascii_lowercase(ext))

\* The pieces between the slashes of a key.
Components(key) ==
  LET cuts == {0, Len(key) + 1} \cup {i \in DOMAIN key : key[i] = "/"}
  IN {SubSeq(key, i + 1, Min({j \in cuts : j > i}) - 1) : i \in cuts \ {Len(key) + 1}}

validate_blob_key(key) ==
  /\ ~Has(key, "\\") /\ ~Has(key, "NUL")
  /\ Components(key) \cap {<<>>, <<".">>, <<".", ".">>} = {}

\* The sweep of the local backend takes such a blob for a temporary file.
is_uploading_temp_file(key) == IsSuffix(<<".", "uploading">>, key)

\* build_stream_stored_object: a fresh uuid and the extension of the file name.
NewKey(c, name) == build_storage_key(c, file_extension(name))

AllKeys == {NewKey(c, n) : c \in Calls, n \in FileNames \cup {None}}

Locators == [key : AllKeys, size : Sizes, by : Calls]
BackendRequests == [kind : {"put", "get", "range", "head", "delete"}, key : AllKeys]
Operations ==
  [kind : {"put"}, key : AllKeys, size : Sizes]
    \cup [kind : {"get", "delete", "head"}, object : Locators]
    \cup [kind : {"range"}, object : Locators, range : Ranges]

ASSUME NoneAssumption == None \notin Locators \cup BackendRequests \cup Operations

-----------------------------------------------------------------------------
VARIABLES op,   \* op[c]: the service call: put, or by locator with kind and object
          pc,
          result,
          loc,  \* loc[c]: the StoredObject that put call c returned
          pos,  \* pos[c]: where the backend's stream has got to in the body
          out,  \* out[c]: the bytes delivered, by position
          store, req, landed, got, ans  \* the backend: see RemoteStoreSpec

stream == <<pos, out>>
backend == <<store, req, landed, got, ans>>
vars == <<op, pc, result, loc, stream, backend>>

B == INSTANCE RemoteStoreSpec WITH Keys <- AllKeys, Requests <- BackendRequests, Absent <- None

Init ==
  /\ op = [c \in Calls |-> None]
  /\ pc = [c \in Calls |-> "idle"]
  /\ result = [c \in Calls |-> "none"]
  /\ loc = [c \in Calls |-> None]
  /\ pos = [c \in Calls |-> 0]
  /\ out = [c \in Calls |-> <<>>]
  /\ B!AbsInit

Goto(c, label) == pc' = [pc EXCEPT ![c] = label]
Return(c, r) == Goto(c, "done") /\ result' = [result EXCEPT ![c] = r]

\* The call reaches the backend, or is refused before with r.
Ask(c, kind, key) ==
  /\ Goto(c, "backend") /\ result' = result
  /\ B!Invoke(c) /\ req'[c] = [kind |-> kind, key |-> key]
Refuse(c, r) == Return(c, r) /\ UNCHANGED backend

\* put_object and put_object_stream; put_blob validates the key.
PutObject(c) ==
  /\ pc[c] = "idle"
  /\ \E name \in FileNames \cup {None}, n \in Sizes :
       LET key == NewKey(c, name) IN
       /\ op' = [op EXCEPT ![c] = [kind |-> "put", key |-> key, size |-> n]]
       /\ IF validate_blob_key(key) THEN Ask(c, "put", key) ELSE Refuse(c, "invalid")
  /\ UNCHANGED <<loc, stream>>

\* get_object, get_object_stream, delete_object, object_exists and
\* object_backend_metadata, of an object whose put has returned.
ByLocator(c) ==
  /\ pc[c] = "idle"
  /\ \E kind \in {"get", "delete", "head"}, d \in {d \in Calls : loc[d] # None} :
       /\ op' = [op EXCEPT ![c] = [kind |-> kind, object |-> loc[d]]]
       /\ Ask(c, kind, loc[d].key)
  /\ UNCHANGED <<loc, stream>>

\* get_object_range_stream: both backends refuse an inverted range before
\* anything else, and S3 answers an empty one by a head_blob.
GetRange(c) ==
  /\ pc[c] = "idle"
  /\ \E r \in Ranges, d \in {d \in Calls : loc[d] # None} :
       /\ op' = [op EXCEPT ![c] = [kind |-> "range", object |-> loc[d], range |-> r]]
       /\ \/ r[2] < r[1] /\ Refuse(c, "precondition")
          \/ r[2] >= r[1] /\ Ask(c, "range", loc[d].key)
          \/ r[2] = r[1] /\ Ask(c, "head", loc[d].key)
  /\ UNCHANGED <<loc, stream>>

-----------------------------------------------------------------------------
(* The backend works on the call, and may also carry out its write late or  *)
(* again, and sweep.                                                        *)

Backend(c) ==
  /\ pc[c] = "backend"
  /\ B!Look(c) \/ B!Answer(c)
  /\ Goto(c, IF ans'[c] = "none" THEN "backend" ELSE "answered")
  /\ UNCHANGED <<op, result, loc, stream>>

BackendLate(c) == B!Land(c) /\ UNCHANGED <<op, pc, result, loc, stream>>

\* sweep_temp_files on the local backend.
Sweep ==
  /\ \E k \in AllKeys : /\ is_uploading_temp_file(k) /\ store[k] # None
                        /\ store' = [store EXCEPT ![k] = None]
  /\ UNCHANGED <<op, pc, result, loc, stream, req, landed, got, ans>>

-----------------------------------------------------------------------------
(* The answer, and the stream of a reader.                                  *)

\* Mutant: the locator is returned whatever the backend answers.
StoredUnchecked(c) ==
  /\ loc' = [loc EXCEPT ![c] = [key |-> op[c].key, size |-> op[c].size, by |-> c]]
  /\ Return(c, "ok") /\ UNCHANGED stream

\* Size and checksum of the locator are those of the write outcome.
Stored(c) ==
  /\ loc' = IF ans[c] = "ok"
              THEN [loc EXCEPT ![c] = [key |-> op[c].key, size |-> op[c].size, by |-> c]] ELSE loc
  /\ Return(c, ans[c]) /\ UNCHANGED stream

BodySize(c) == op[got[c]].size

\* Mutant: the end of a range is taken as inclusive.
ServedInclusive(r, n) == <<AtMost(r[1], n), AtMost(r[2] + 1, n)>>

\* The part of a body of n bytes that a range selects.  The local backend
\* seeks and takes; S3 sends a range header, and its provider refuses a range
\* that starts past the end (one of the errors that Answer gives).
Served(r, n) == <<AtMost(r[1], n), AtMost(r[2], n)>>

\* Where the stream of a reader begins and ends.  An empty range that S3 has
\* answered by a head_blob has no body behind it.
Extent(c) ==
  IF got[c] = None THEN <<0, 0>>
  ELSE IF op[c].kind = "range" THEN Served(op[c].range, BodySize(c))
  ELSE <<0, BodySize(c)>>

OpenStream(c) ==
  /\ pos' = [pos EXCEPT ![c] = Extent(c)[1]]
  /\ Goto(c, "stream") /\ UNCHANGED <<result, loc, out>>

Answered(c) ==
  /\ pc[c] = "answered"
  /\ CASE op[c].kind = "put" -> Stored(c)
       [] op[c].kind \in {"get", "range"} /\ ans[c] = "ok" -> OpenStream(c)
       [] OTHER -> Return(c, ans[c]) /\ UNCHANGED <<loc, stream>>
  /\ UNCHANGED <<op, backend>>

\* collect_storage_stream asks for the next chunk.
NextChunk(c) ==
  /\ pc[c] = "stream"
  /\ \E n \in 1..MaxChunk : /\ pos[c] + n <= Extent(c)[2]
                            /\ out' = [out EXCEPT ![c] = @ \o Bytes(pos[c], n)]
                            /\ pos' = [pos EXCEPT ![c] = @ + n]
  /\ UNCHANGED <<op, pc, result, loc, backend>>

EndOfStream(c) ==
  /\ pc[c] = "stream" /\ pos[c] >= Extent(c)[2]
  /\ Return(c, "ok")
  /\ UNCHANGED <<op, loc, stream, backend>>

StreamFails(c) ==
  /\ pc[c] = "stream" /\ got[c] # None
  /\ Return(c, "io")
  /\ UNCHANGED <<op, loc, stream, backend>>

\* The future of a call is dropped; the backend may still act on it.
Interrupt(c) ==
  /\ pc[c] \in {"backend", "answered", "stream"}
  /\ Return(c, "dropped")
  /\ UNCHANGED <<op, loc, stream, backend>>

Step(c) ==
  \/ PutObject(c) \/ ByLocator(c) \/ GetRange(c) \/ Backend(c) \/ BackendLate(c)
  \/ Answered(c) \/ NextChunk(c) \/ EndOfStream(c) \/ StreamFails(c) \/ Interrupt(c)

Quiescent == (\A c \in Calls : pc[c] = "done") /\ UNCHANGED vars

Next == (\E c \in Calls : Step(c)) \/ Sweep \/ Quiescent

Spec == Init /\ [][Next]_vars

-----------------------------------------------------------------------------
Results == {"none", "ok", "missing", "precondition", "io", "dropped"}

\* Every variable has its type; no key that the service builds is refused as
\* invalid, whatever the file name, so "invalid" is no result.
TypeOK ==
  /\ op \in [Calls -> Operations \cup {None}]
  /\ pc \in [Calls -> {"idle", "backend", "answered", "stream", "done"}]
  /\ result \in [Calls -> Results]
  /\ loc \in [Calls -> Locators \cup {None}]
  /\ pos \in [Calls -> Nat]
  /\ out \in [Calls -> Seq(Nat)]
  /\ store \in [AllKeys -> Calls \cup {None}]
  /\ req \in [Calls -> BackendRequests \cup {None}]
  /\ landed \subseteq Calls
  /\ got \in [Calls -> Calls \cup {None}]

DeleteAsked(object) ==
  \E c \in Calls : op[c] # None /\ op[c].kind = "delete" /\ op[c].object = object

\* A locator that put_object has returned leads to the bytes of its own put,
\* with their size, for as long as nobody asks for its deletion, although the
\* backend may repeat or delay requests and calls may fail or be dropped.  The
\* exception are objects whose file name ended in ".uploading": their blobs
\* are temporary files to the local sweep.
LocatorsDescribeBlobs ==
  \A c \in Calls : loc[c] # None /\ ~DeleteAsked(loc[c]) =>
    \/ store[loc[c].key] = c /\ loc[c].size = op[c].size
    \/ is_uploading_temp_file(loc[c].key)

\* A reader that ends well has been given, in order and once each, exactly the
\* bytes it asked for of the object that its locator describes: all of them,
\* or those of the range that lie within the object, however the body is cut
\* into chunks and whatever happened to other objects.  Only an empty range
\* can end well without the object's bytes.
RangeIsSlice ==
  \A c \in Calls : op[c] # None /\ op[c].kind \in {"get", "range"} /\ result[c] = "ok" =>
    LET size == op[c].object.size
        part == IF op[c].kind = "range" THEN op[c].range ELSE <<0, size>>
        from == AtMost(part[1], size)
    IN /\ out[c] = Bytes(from, AtMost(part[2], size) - from)
       /\ got[c] = op[c].object.by \/ part[1] = part[2]
=============================================================================
