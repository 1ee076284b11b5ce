------------------------- MODULE SmbBlobStoreProofs -------------------------
(***************************************************************************)
(* Proofs about SmbBlobStore, for any finite set of calls, any keys and    *)
(* sizes and any number of permits.                                        *)
(***************************************************************************)
EXTENDS SmbBlobStore, SequenceLemmas, FiniteSetTheorems

\* The three parts of TypeOK: the types, the queue, and the permits.
Shape ==
  /\ op \in [Calls -> Requests \cup {None}]
  /\ pc \in [Calls -> Labels]
  /\ res \in [Calls -> {"none", "ok", "exists", "missing", "precondition", "io", "dropped"}]
  /\ held \in [Calls -> 0..2]
  /\ names \in [Keys -> Calls \cup {None}]
  /\ temps \subseteq Calls
  /\ content \in [Calls -> [body : Calls \cup {None}, len : Nat]]
  /\ handle \in [Calls -> Calls \cup {None}]
  /\ victim \in [Calls -> Calls \cup {None}]
  /\ size \in [Calls -> Nat] /\ pos \in [Calls -> Nat]
  /\ skip \in [Calls -> Nat] /\ rest \in [Calls -> Nat]
  /\ leaked \subseteq Calls
QueueOK ==
  /\ queue \in Seq(Calls) /\ OnceEach(queue)
  /\ \A c \in Calls : pc[c] = "waiting" <=> Waits(queue, c)
PermitsFit == Used <= MaxTransfers

\* A range that is not inverted.
Proper(r) == r.kind = "range" => r.range[1] <= r.range[2]

\* What the program counter of a call says of its request, its result and the
\* file that it reads.
CallOK(c) ==
  /\ pc[c] = "idle" <=> op[c] = None
  /\ op[c] # None /\ Kind(c) = "copy" => c \in Copiers
  /\ pc[c] \in {"permit", "waiting"} =>
       Kind(c) \in {"put", "create", "get", "range", "copy"}
  /\ pc[c] \in {"create", "write"} => Kind(c) \in {"put", "create", "copy"}
  /\ pc[c] \in {"rename", "rmPart", "rmTemp"} => Kind(c) \in {"put", "copy"}
  /\ pc[c] \in {"rmOpen", "rmDelete"} => Kind(c) \in {"create", "delete"}
  /\ pc[c] \in {"open", "stat"} => Kind(c) \in {"get", "range", "copy"}
  /\ pc[c] = "stream" => Kind(c) \in {"get", "range"}
  /\ op[c] # None /\ pc[c] # "done" => Proper(op[c])
  /\ pc[c] = "head" => Kind(c) = "head"
  /\ pc[c] \in {"idle", "open"} => handle[c] = None
  /\ pc[c] \in {"permit", "waiting"} /\ Kind(c) # "copy" => handle[c] = None
  /\ pc[c] \in {"stat", "stream"} => handle[c] # None
  /\ pc[c] \in {"create", "write"} /\ Kind(c) = "copy" => handle[c] # None
  /\ pc[c] \notin {"stream", "done"} => pos[c] = 0
  /\ res[c] = "ok" => pc[c] = "done"

\* Bytes are delivered by streams only.
OutOK ==
  /\ out \in [Calls -> Seq(Nat)]
  /\ \A c \in Calls : pc[c] \notin {"stream", "done"} => out[c] = <<>>

\* The permits of a call, by its program counter: a copy that waits for its
\* second permit holds one, a call that has ended holds none.
PermitsOK(c) ==
  /\ pc[c] \in {"idle", "head", "rename", "rmTemp", "done"} => held[c] = 0
  /\ pc[c] \in {"permit", "waiting"} => held[c] = IF handle[c] = None THEN 0 ELSE 1
  /\ pc[c] \in {"open", "stat", "stream"} => held[c] = 1
  /\ pc[c] \in {"create", "write"} => held[c] = IF Kind(c) = "copy" THEN 2 ELSE 1

\* The file of an upload that has been renamed is finished: its call has no
\* step left that would change it.
Finished(f) == pc[f] \in {"rmTemp", "done"} /\ content[f].len = Length(f)
Uploads(f) == op[f] # None /\ Kind(f) \in {"put", "copy"}

\* Files at keys are where their calls wanted them, and uploads come there, to
\* readers and to copies finished.
FilesOK ==
  /\ \A k \in Keys : names[k] # None =>
       /\ op[names[k]] # None /\ Kind(names[k]) \in {"put", "copy", "create"}
       /\ op[names[k]].key = k
       /\ Uploads(names[k]) => Finished(names[k])
  /\ \A c \in Calls : handle[c] # None =>
       op[handle[c]] # None /\ (Uploads(handle[c]) => Finished(handle[c]))
  /\ \A c \in Calls : pc[c] = "rename" => content[c].len = Length(c)

\* The first byte that a request r asks for and how many, of a file of n bytes.
First(r) == IF r.kind = "range" THEN r.range[1] ELSE 0
Count(r, n) == IF r.kind = "range" THEN r.range[2] - r.range[1] ELSE n

\* How far the stream of a reader is that asked for l bytes from byte a on, of
\* a file of z bytes: p have been read, s are to be skipped, d to be delivered
\* yet, and b has been.
Streamed(a, l, z, p, s, d, b) ==
  /\ p <= z
  /\ p <= a => s = a - p /\ d = l /\ b = <<>>
  /\ p > a => s = 0 /\ d = l - AtMost(p - a, l) /\ b = Bytes(a, AtMost(p - a, l))
InStep(r, z, p, s, d, b) == Streamed(First(r), Count(r, z), z, p, s, d, b)

\* The bytes b and the size hint for a file of z bytes are those of request r.
Exact(r, z, b) ==
  LET from == AtMost(First(r), z)
      to == AtMost(First(r) + Count(r, z), z)
  IN b = Bytes(from, to - from) /\ AtMost(Minus(z, First(r)), Count(r, z)) = to - from

\* How far a reader is, and in a finished file, what it was given of it.
ReaderOK(c) ==
  /\ pc[c] = "stream" => InStep(op[c], size[c], pos[c], skip[c], rest[c], out[c])
  /\ handle[c] # None /\ Uploads(handle[c]) =>
       /\ pc[c] = "stream" => size[c] = Length(handle[c])
       /\ Kind(c) \in {"get", "range"} /\ res[c] = "ok" =>
            size[c] = Length(handle[c]) /\ Exact(op[c], size[c], out[c])

\* Only conditional writes, and readers, have been asked for at key k.
Exclusive(k) ==
  \A d \in Calls : op[d] # None /\ op[d].key = k => Kind(d) \in {"create", "get", "range", "head"}

\* From its FILE_CREATE to its answer or the end of its cleanup a conditional
\* write has its file at such a key.
OwnerOK(c) ==
  op[c] # None /\ Kind(c) = "create" /\ Exclusive(op[c].key) =>
    /\ pc[c] \in {"write", "rmOpen", "rmDelete"} \/ res[c] = "ok" => names[op[c].key] = c
    /\ pc[c] = "rmDelete" => victim[c] = c
    /\ res[c] = "ok" => content[c].len = Length(c)

\* Where an upload is when its temporary file exists.
TempOK(f) ==
  f \in temps =>
    /\ Uploads(f)
    /\ pc[f] \in {"write", "rename", "rmPart", "rmTemp", "done"}
    /\ pc[f] = "done" => f \in leaked

IInv ==
  /\ Shape /\ QueueOK /\ PermitsFit /\ OutOK
  /\ \A c \in Calls : CallOK(c) /\ PermitsOK(c) /\ ReaderOK(c) /\ OwnerOK(c) /\ TempOK(c)
  /\ FilesOK
-----------------------------------------------------------------------------
(* Permits.                                                                 *)

Slots(h) == {p \in Calls \X (1..2) : p[2] <= h[p[1]]}

\* There are finitely many permits to hand out twice to every call.
LEMMA SlotsFinite ==
  ASSUME NEW h PROVE IsFiniteSet(Slots(h)) /\ Cardinality(Slots(h)) \in Nat
<1>1. IsFiniteSet(Calls \X (1..2))
  <2>1. IsFiniteSet(Calls) BY SmbAssumption
  <2>2. IsFiniteSet({1} \cup {2}) BY FS_Singleton, FS_AddElement
  <2>3. 1..2 = {1} \cup {2} OBVIOUS
  <2> QED BY <2>1, <2>2, <2>3, FS_Product
<1>2. Slots(h) \subseteq Calls \X (1..2) BY DEF Slots
<1> QED BY <1>1, <1>2, FS_Subset, FS_CardinalityType

\* When no call holds more permits than before, no more are out than before.
LEMMA UsedFalls ==
  ASSUME held \in [Calls -> 0..2], held' \in [Calls -> 0..2],
         \A c \in Calls : held'[c] <= held[c], Used <= MaxTransfers
  PROVE  Used' <= MaxTransfers
<1>1. Slots(held') \subseteq Slots(held) BY DEF Slots
<1>2. Cardinality(Slots(held')) <= Cardinality(Slots(held)) BY <1>1, SlotsFinite, FS_Subset
<1>3. Cardinality(Slots(held)) \in Nat /\ Cardinality(Slots(held')) \in Nat BY SlotsFinite
<1>4. Used = Cardinality(Slots(held)) /\ Used' = Cardinality(Slots(held')) BY DEF Used, Slots
<1> QED BY <1>2, <1>3, <1>4, SmbAssumption

\* A call that is granted one more permit takes one.
LEMMA UsedGrows ==
  ASSUME NEW c \in Calls, held \in [Calls -> 0..2], held' = [held EXCEPT ![c] = @ + 1],
         held[c] \in 0..1, Used < MaxTransfers
  PROVE  Used' <= MaxTransfers
<1> DEFINE S == Slots(held)
           one == <<c, held[c] + 1>>
<1>1. Slots(held') \subseteq S \cup {one} BY DEF Slots
<1>2. Used = Cardinality(S) /\ Used' = Cardinality(Slots(held')) BY DEF Used, Slots
<1>3. IsFiniteSet(S) /\ Cardinality(S) \in Nat /\ Cardinality(Slots(held')) \in Nat
  BY SlotsFinite
<1> HIDE DEF S, one
<1>4. /\ IsFiniteSet(S \cup {one})
      /\ Cardinality(S \cup {one}) = IF one \in S THEN Cardinality(S) ELSE Cardinality(S) + 1
  BY <1>3, FS_AddElement
<1>5. Cardinality(Slots(held')) <= Cardinality(S \cup {one}) BY <1>1, <1>4, FS_Subset
<1> QED BY <1>2, <1>3, <1>4, <1>5, SmbAssumption

-----------------------------------------------------------------------------
(* Streams.                                                                 *)

\* Reading m more bytes of the file, of which ranged_storage_stream delivers
\* what is neither before the range nor behind it, keeps a stream in step.
LEMMA DeliverStreamed ==
  ASSUME NEW a \in Nat, NEW l \in Nat, NEW z \in Nat, NEW p \in Nat, NEW s \in Nat,
         NEW d \in Nat, NEW b \in Seq(Nat), NEW m \in Nat, m > 0, p + m <= z, d > 0,
         Streamed(a, l, z, p, s, d, b)
  PROVE  /\ s >= m => Streamed(a, l, z, p + m, s - m, d, b)
         /\ s < m => LET take == AtMost(m - s, d)
                    IN Streamed(a, l, z, p + m, 0, d - take, b \o Bytes(p + s, take))
<1>1. CASE p <= a
  <2>1. s = a - p /\ d = l /\ b = <<>> BY <1>1 DEF Streamed
  <2>2. ASSUME s >= m PROVE Streamed(a, l, z, p + m, s - m, d, b)
    <3>1. p + m <= a /\ s - m = a - (p + m) BY <2>1, <2>2
    <3> QED BY <2>1, <3>1 DEF Streamed
  <2>3. ASSUME s < m, NEW take, take = AtMost(m - s, d)
        PROVE  Streamed(a, l, z, p + m, 0, d - take, b \o Bytes(p + s, take))
    <3>1. p + m > a /\ m - s = p + m - a /\ p + s = a BY <2>1, <2>3
    <3>2. take = AtMost(p + m - a, l) /\ take \in Nat BY <2>1, <2>3, <3>1 DEF AtMost
    <3>3. b \o Bytes(p + s, take) = Bytes(a, take)
      BY <2>1, <3>1, <3>2, BytesShape, ConcatEmptySeq
    <3> QED BY <2>1, <3>1, <3>2, <3>3 DEF Streamed
  <2> QED BY <2>2, <2>3
<1>2. CASE p > a
  <2>1. s = 0 /\ d = l - AtMost(p - a, l) /\ b = Bytes(a, AtMost(p - a, l))
    BY <1>2 DEF Streamed
  <2>2. AtMost(p - a, l) = p - a /\ d = l - (p - a) /\ b = Bytes(a, p - a)
    BY <1>2, <2>1 DEF AtMost
  <2>3. ASSUME NEW take, take = AtMost(m - s, d)
        PROVE  Streamed(a, l, z, p + m, 0, d - take, b \o Bytes(p + s, take))
    <3> DEFINE n == p - a
    <3>1. n \in Nat /\ a + n = p + s /\ b = Bytes(a, n) BY <1>2, <2>1, <2>2
    <3>2. take \in Nat /\ n + take = AtMost(p + m - a, l) /\ d - take = l - (n + take)
      BY <1>2, <2>1, <2>2, <2>3 DEF AtMost
    <3> HIDE DEF n
    <3>3. b \o Bytes(p + s, take) = Bytes(a, n + take)
      <4>0. n \in Nat /\ take \in Nat BY <3>1, <3>2
      <4>1. Bytes(a, n) \o Bytes(a + n, take) = Bytes(a, n + take)
        BY <4>0, BytesJoin, ZenonT(60)
      <4> QED BY <3>1, <4>1
    <3>4. p + m > a BY <1>2
    <3> QED BY <3>2, <3>3, <3>4 DEF Streamed
  <2> QED BY <2>1, <2>3
<1> QED BY <1>1, <1>2

\* A stream that has delivered all it was to, or has come to the end of the
\* file, has delivered exactly the range, and as much as the size hint says.
LEMMA StreamedExact ==
  ASSUME NEW a \in Nat, NEW l \in Nat, NEW z \in Nat, NEW p \in Nat, NEW s, NEW d,
         NEW b, Streamed(a, l, z, p, s, d, b), d = 0 \/ p >= z
  PROVE  LET from == AtMost(a, z)
             to == AtMost(a + l, z)
         IN b = Bytes(from, to - from) /\ AtMost(Minus(z, a), l) = to - from
<1> DEFINE from == AtMost(a, z)
           to == AtMost(a + l, z)
<1>1. AtMost(Minus(z, a), l) = to - from /\ from \in Nat /\ to - from \in Nat
  BY DEF AtMost, Minus
<1>2. CASE p <= a
  <2>1. d = l /\ b = <<>> BY <1>2 DEF Streamed
  <2>2. to - from = 0 BY <1>2, <2>1 DEF Streamed, AtMost
  <2>3. Bytes(from, 0) = <<>> BY <1>1, BytesShape
  <2> QED BY <1>1, <2>1, <2>2, <2>3
<1>3. CASE p > a
  <2> DEFINE n == AtMost(p - a, l)
  <2>1. d = l - n /\ b = Bytes(a, n) /\ p <= z BY <1>3 DEF Streamed
  <2>2. from = a /\ to - from = n BY <1>3, <2>1 DEF AtMost
  <2> QED BY <1>1, <2>1, <2>2
<1> QED BY <1>2, <1>3

-----------------------------------------------------------------------------
(* The invariant holds.                                                     *)

\* The fields that each kind of request has.
LEMMA RequestShape ==
  ASSUME NEW r \in Requests
  PROVE  /\ r # None /\ r.key \in Keys
         /\ r.kind \in {"put", "create", "get", "range", "head", "delete", "copy"}
         /\ r.kind \in {"put", "create"} => r.size \in Nat
         /\ r.kind = "copy" => r.from \in Keys
BY SmbAssumption DEF Requests

\* A range is a pair of naturals.
LEMMA RangeShape ==
  ASSUME NEW r \in Requests, r.kind = "range"
  PROVE  r.range[1] \in Nat /\ r.range[2] \in Nat
BY SmbAssumption DEF Requests

\* None is neither a call nor a key nor a request.
LEMMA NoneApart == None \notin Calls /\ None \notin Keys /\ None \notin Requests
BY SmbAssumption

\* A step that writes no finished file, opens none and puts none at a key leaves
\* finished files as they were.
LEMMA FilesKept ==
  ASSUME Shape, FilesOK, UNCHANGED <<op, size, handle>>,
         \A d \in Calls : pc[d] \in {"rename", "rmTemp", "done"} => content'[d] = content[d],
         \A k \in Keys : names'[k] \in {names[k], None},
         \A d \in Calls :
           \/ pc'[d] = pc[d]
           \/ /\ pc'[d] = "rename" => content'[d].len = Length(d)
              /\ pc[d] \in {"rmTemp", "done"} => pc'[d] \in {"rmTemp", "done"}
  PROVE  FilesOK'
<1>1. ASSUME NEW f \in Calls
      PROVE  /\ (op'[f] # None /\ op'[f].kind \in {"put", "copy"}) = Uploads(f)
             /\ Length(f)' = Length(f)
             /\ Finished(f) => Finished(f)'
  <2>1. Length(f)' = Length(f) BY DEF Length, Kind
  <2> QED BY <2>1 DEF Uploads, Finished, Kind
<1>2. ASSUME NEW k \in Keys, names'[k] # None
      PROVE  (/\ op[names[k]] # None /\ Kind(names[k]) \in {"put", "copy", "create"}
              /\ op[names[k]].key = k
              /\ Uploads(names[k]) => Finished(names[k]))'
  <2>1. names'[k] = names[k] /\ names[k] \in Calls BY <1>2 DEF Shape
  <2>2. /\ op[names[k]] # None /\ Kind(names[k]) \in {"put", "copy", "create"}
        /\ op[names[k]].key = k
        /\ Uploads(names[k]) => Finished(names[k])
    BY <1>2, <2>1 DEF FilesOK
  <2> QED BY <1>1, <2>1, <2>2 DEF Uploads, Finished, Kind, Length
<1>3. ASSUME NEW d \in Calls, handle'[d] # None
      PROVE  (op[handle[d]] # None /\ (Uploads(handle[d]) => Finished(handle[d])))'
  <2>1. handle[d] \in Calls BY <1>3 DEF Shape
  <2>2. op[handle[d]] # None /\ (Uploads(handle[d]) => Finished(handle[d]))
    BY <1>3 DEF FilesOK
  <2> QED BY <1>1, <2>1, <2>2 DEF Uploads, Finished, Kind, Length
<1>4. ASSUME NEW d \in Calls, pc'[d] = "rename" PROVE (content[d].len = Length(d))'
  <2>1. CASE pc[d] = "rename" BY <1>1, <2>1 DEF FilesOK
  <2>2. CASE pc[d] # "rename" BY <1>1, <1>4, <2>2
  <2> QED BY <2>1, <2>2
<1> QED BY <1>2, <1>3, <1>4 DEF FilesOK

\* What a reader asks for is a number of bytes from some byte on.
LEMMA StreamBounds ==
  ASSUME IInv, NEW c \in Calls, pc[c] \in {"stat", "stream"}, NEW z \in Nat
  PROVE  First(op[c]) \in Nat /\ Count(op[c], z) \in Nat
<1>1. op[c] \in Requests /\ Proper(op[c]) BY DEF IInv, Shape, CallOK
<1>2. CASE op[c].kind = "range"
  <2>1. op[c].range[1] \in Nat /\ op[c].range[2] \in Nat BY <1>1, <1>2, RangeShape
  <2> QED BY <1>1, <1>2, <2>1 DEF Proper, First, Count
<1>3. CASE op[c].kind # "range" BY <1>3 DEF First, Count
<1> QED BY <1>2, <1>3

\* Writing changes the length of one file, to a number.
LEMMA GrowShape ==
  ASSUME IInv, NEW c \in Calls, pc[c] = "write", NEW n \in Nat, Grow(c, n)
  PROVE  /\ content' \in [Calls -> [body : Calls \cup {None}, len : Nat]]
         /\ \A d \in Calls : d # c => content'[d] = content[d]
<1>1. op[c] \in Requests /\ Kind(c) \in {"put", "create", "copy"}
  BY DEF IInv, Shape, CallOK
<1>2. Length(c) \in Nat
  BY <1>1, RequestShape DEF Length, Kind, IInv, Shape
<1>3. content[c].len \in Nat BY DEF IInv, Shape
<1>4. AtMost(content[c].len + n, Length(c)) \in Nat BY <1>2, <1>3 DEF AtMost
<1> HIDE DEF IInv
<1> DEFINE m == AtMost(content[c].len + n, Length(c))
<1>5. content' = [content EXCEPT ![c] = [content[c] EXCEPT !.len = m]] BY DEF Grow
<1>6. content \in [Calls -> [body : Calls \cup {None}, len : Nat]] BY DEF IInv, Shape
<1> HIDE DEF m
<1>7. m \in Nat BY <1>4 DEF m
<1> QED BY <1>5, <1>6, <1>7

\* A step that delivers nothing.
LEMMA OutKept ==
  ASSUME OutOK, out' = out,
         \A d \in Calls : pc[d] \in {"stream", "done"} => pc'[d] \in {"stream", "done"}
  PROVE  OutOK'
BY Zenon DEF OutOK

\* An empty share with no calls satisfies the invariant.
LEMMA InitIInv == Init => IInv
<1> SUFFICES ASSUME Init PROVE IInv
  OBVIOUS
<1> USE SmbAssumption DEF Init
<1>1. Shape BY DEF Shape, Labels
<1>2. QueueOK BY DEF QueueOK, OnceEach, Waits
<1>3. PermitsFit
  <2>1. Slots(held) = {} BY DEF Slots
  <2>2. Used = Cardinality(Slots(held)) BY DEF Used, Slots
  <2> QED BY <2>1, <2>2, FS_EmptySet DEF PermitsFit
<1>4. \A c \in Calls : CallOK(c) /\ PermitsOK(c) BY DEF CallOK, PermitsOK
<1>5. \A c \in Calls : ReaderOK(c) /\ OwnerOK(c) /\ TempOK(c) BY DEF ReaderOK, OwnerOK, TempOK
<1>6. FilesOK BY DEF FilesOK
<1>7. OutOK
  <2>1. <<>> \in Seq(Nat) OBVIOUS
  <2> QED BY <2>1 DEF OutOK
<1> QED BY <1>1, <1>2, <1>3, <1>4, <1>5, <1>6, <1>7 DEF IInv

\* Every step keeps the invariant: one case per request to the server, and in
\* each the types, the queue, the permits, and what is known of calls, readers,
\* owners of keys, temporary files and files.
LEMMA NextIInv == IInv /\ [Next]_vars => IInv'
<1> SUFFICES ASSUME IInv, [Next]_vars PROVE IInv'
  OBVIOUS
<1> USE NoneApart, RequestShape DEF Kind, Goto, Decide, Holds, Return, Fail, server, reads, permits
<1>1. ASSUME NEW c \in Calls, Invoke(c) PROVE IInv'
  <2>a. /\ pc[c] = "idle" /\ op[c] = None
        /\ UNCHANGED <<queue, held, names, temps, content, handle, size, pos, skip, rest, out>>
        /\ UNCHANGED <<victim, leaked>>
    BY <1>1 DEF Invoke, IInv, CallOK
  <2>b. PICK r \in Requests :
          /\ r.kind = "copy" => c \in Copiers
          /\ op' = [op EXCEPT ![c] = r]
          /\ IF r.kind = "range" /\ r.range[2] < r.range[1]
               THEN /\ pc' = [pc EXCEPT ![c] = "done"]
                    /\ res' = [res EXCEPT ![c] = "precondition"]
               ELSE pc' = [pc EXCEPT ![c] = FirstStep(r.kind)] /\ res' = res
    BY <1>1 DEF Invoke
  <2>c. Proper(r) \/ (r.kind = "range" /\ r.range[2] < r.range[1])
    BY RangeShape DEF Proper
  <2>d. /\ r.kind = "delete" => FirstStep(r.kind) = "rmOpen"
        /\ r.kind = "head" => FirstStep(r.kind) = "head"
        /\ r.kind \notin {"delete", "head"} => FirstStep(r.kind) = "permit"
    BY DEF FirstStep
  <2>e. \/ pc'[c] = "done" /\ res'[c] = "precondition"
        \/ pc'[c] = "rmOpen" /\ r.kind = "delete" /\ res'[c] = res[c] /\ Proper(r)
        \/ pc'[c] = "head" /\ r.kind = "head" /\ res'[c] = res[c] /\ Proper(r)
        \/ /\ pc'[c] = "permit" /\ r.kind \in {"put", "create", "get", "range", "copy"}
           /\ res'[c] = res[c] /\ Proper(r)
    BY <2>b, <2>c, <2>d DEF IInv, Shape
  <2>f. /\ op'[c] = r
        /\ \A d \in Calls : d # c => op'[d] = op[d] /\ pc'[d] = pc[d] /\ res'[d] = res[d]
    BY <2>b DEF IInv, Shape
  <2>1. Shape'
    <3>1. op' \in [Calls -> Requests \cup {None}] BY <2>b DEF IInv, Shape
    <3>2. pc' \in [Calls -> Labels] BY <2>b, <2>e DEF IInv, Shape, Labels
    <3>3. res' \in [Calls -> {"none", "ok", "exists", "missing", "precondition", "io", "dropped"}]
      BY <2>b DEF IInv, Shape
    <3> QED BY <2>a, <3>1, <3>2, <3>3 DEF IInv, Shape
  <2>2. QueueOK' BY <2>a, <2>e, <2>f DEF IInv, QueueOK
  <2>3. PermitsFit'
    <3>1. \A d \in Calls : held'[d] <= held[d] BY <2>a DEF IInv, Shape
    <3> QED BY <2>1, <3>1, UsedFalls DEF IInv, Shape, PermitsFit
  <2>g. /\ handle[c] = None /\ pos[c] = 0 /\ held[c] = 0 /\ res[c] # "ok" /\ c \notin temps
        /\ \A k \in Keys : names[k] # c
        /\ \A d \in Calls : handle[d] # c
    BY <2>a DEF IInv, CallOK, PermitsOK, TempOK, FilesOK, Uploads
  <2>4. ASSUME NEW d \in Calls PROVE CallOK(d)'
    <3>1. CASE d # c BY <2>a, <2>f, <3>1 DEF IInv, CallOK
    <3>2. CASE d = c BY <2>a, <2>b, <2>e, <2>f, <2>g, <3>2 DEF CallOK
    <3> QED BY <3>1, <3>2
  <2>5. ASSUME NEW d \in Calls PROVE PermitsOK(d)'
    <3>1. CASE d # c BY <2>a, <2>f, <3>1 DEF IInv, PermitsOK
    <3>2. CASE d = c BY <2>a, <2>e, <2>g, <3>2 DEF PermitsOK
    <3> QED BY <3>1, <3>2
  <2>6. ASSUME NEW d \in Calls PROVE ReaderOK(d)'
    <3>1. CASE d # c
      <4>1. handle[d] # c /\ (handle[d] # None => handle[d] \in Calls) BY <2>g DEF IInv, Shape
      <4> QED BY <2>a, <2>f, <3>1, <4>1 DEF IInv, ReaderOK, Uploads, Length
    <3>2. CASE d = c BY <2>a, <2>e, <2>g, <3>2 DEF ReaderOK
    <3> QED BY <3>1, <3>2
  <2>7. ASSUME NEW d \in Calls PROVE OwnerOK(d)'
    <3>1. CASE d # c
      <4>1. op'[d] # None /\ Exclusive(op[d].key)' => Exclusive(op[d].key)
        BY <2>a, <2>f, <3>1 DEF Exclusive
      <4> QED BY <2>a, <2>f, <3>1, <4>1 DEF IInv, OwnerOK, Length
    <3>2. CASE d = c BY <2>e, <2>f, <2>g, <3>2 DEF OwnerOK
    <3> QED BY <3>1, <3>2
  <2>8. ASSUME NEW d \in Calls PROVE TempOK(d)'
    <3>1. CASE d # c BY <2>a, <2>f, <3>1 DEF IInv, TempOK, Uploads
    <3>2. CASE d = c BY <2>a, <2>g, <3>2 DEF TempOK
    <3> QED BY <3>1, <3>2
  <2>9. FilesOK'
    <3>1. ASSUME NEW f \in Calls, f # c
          PROVE  /\ op'[f] = op[f] /\ Uploads(f)' = Uploads(f) /\ Finished(f)' = Finished(f)
                 /\ Length(f)' = Length(f)
      BY <2>a, <2>f, <3>1 DEF Uploads, Finished, Length
    <3>2. ASSUME NEW k \in Keys, names[k] # None
          PROVE  /\ op'[names[k]] # None /\ op'[names[k]].kind \in {"put", "copy", "create"}
                 /\ op'[names[k]].key = k
                 /\ (Uploads(names[k]) => Finished(names[k]))'
      <4>1. names[k] \in Calls /\ names[k] # c BY <2>g, <3>2 DEF IInv, Shape
      <4> QED BY <2>a, <2>f, <3>1, <3>2, <4>1 DEF IInv, FilesOK, Uploads, Finished, Length
    <3>3. ASSUME NEW d \in Calls, handle[d] # None
          PROVE  op'[handle[d]] # None /\ (Uploads(handle[d]) => Finished(handle[d]))'
      <4>1. handle[d] \in Calls /\ handle[d] # c BY <2>g, <3>3 DEF IInv, Shape
      <4> QED BY <2>a, <2>f, <3>1, <3>3, <4>1 DEF IInv, FilesOK, Uploads, Finished, Length
    <3>4. ASSUME NEW d \in Calls, pc'[d] = "rename" PROVE (content[d].len = Length(d))'
      <4>1. d # c /\ pc[d] = "rename" BY <2>e, <2>f, <3>4
      <4> QED BY <2>a, <3>1, <4>1 DEF IInv, FilesOK
    <3> QED BY <2>a, <3>2, <3>3, <3>4 DEF FilesOK
  <2>10. OutOK'
    <3>1. \A d \in Calls : pc[d] \in {"stream", "done"} => pc'[d] \in {"stream", "done"}
      BY <2>a, <2>f
    <3> QED BY <2>a, <3>1, OutKept DEF IInv
  <2> QED BY <2>1, <2>2, <2>3, <2>4, <2>5, <2>6, <2>7, <2>8, <2>9, <2>10 DEF IInv
<1>2. ASSUME NEW c \in Calls, AskPermit(c) PROVE IInv'
  <2>1. Shape'
    BY <1>2 DEF AskPermit, IInv, Shape, CallOK, Labels, PermitsOK
  <2>2. QueueOK'
    <3>1. c \in Calls /\ ~Waits(queue, c) BY <1>2 DEF AskPermit, IInv, QueueOK
    <3>2. /\ queue' \in Seq(Calls) /\ OnceEach(queue')
          /\ \A d : Waits(queue', d) <=> Waits(queue, d) \/ d = c
      BY <1>2, <3>1, JoinQueue DEF AskPermit, IInv, QueueOK
    <3> QED BY <1>2, <3>2 DEF AskPermit, IInv, Shape, QueueOK
  <2>3. PermitsFit'
    <3>1. \A d \in Calls : held'[d] <= held[d]
      <4>1. held' = held BY <1>2 DEF AskPermit
      <4> QED BY <4>1 DEF IInv, Shape
    <3> QED BY <2>1, <3>1, UsedFalls DEF IInv, Shape, PermitsFit
  <2>4. ASSUME NEW d \in Calls PROVE CallOK(d)'
    BY <1>2 DEF AskPermit, IInv, Shape, CallOK
  <2>5. ASSUME NEW d \in Calls PROVE PermitsOK(d)'
    BY <1>2 DEF AskPermit, IInv, Shape, CallOK, PermitsOK
  <2>6. ASSUME NEW d \in Calls PROVE ReaderOK(d)'
    BY <1>2 DEF AskPermit, IInv, Shape, CallOK, ReaderOK, FilesOK, Finished, Uploads, Length
  <2>7. ASSUME NEW d \in Calls PROVE OwnerOK(d)'
    BY <1>2 DEF AskPermit, IInv, Shape, CallOK, OwnerOK, Exclusive, Length, FilesOK
  <2>8. ASSUME NEW d \in Calls PROVE TempOK(d)'
    BY <1>2 DEF AskPermit, IInv, Shape, CallOK, TempOK, Uploads
  <2>9. FilesOK'
    <3>1. UNCHANGED <<op, content, size, handle>> BY <1>2 DEF AskPermit
    <3>2. \A k \in Keys : names'[k] \in {names[k], None}
      BY <1>2 DEF AskPermit, IInv, Shape, CallOK
    <3>3. \A d \in Calls :
            \/ pc'[d] = pc[d]
            \/ pc'[d] # "rename" /\ (pc[d] \in {"rmTemp", "done"} => pc'[d] \in {"rmTemp", "done"})
      BY <1>2 DEF AskPermit, IInv, Shape, CallOK
    <3> QED BY <3>1, <3>2, <3>3, FilesKept DEF IInv
  <2>10. OutOK'
    <3>1. out' = out BY <1>2 DEF AskPermit
    <3>2. \A d \in Calls : pc[d] \in {"stream", "done"} => pc'[d] \in {"stream", "done"}
      BY <1>2 DEF AskPermit, IInv, Shape
    <3> QED BY <3>1, <3>2, OutKept DEF IInv
  <2> QED BY <2>1, <2>2, <2>3, <2>4, <2>5, <2>6, <2>7, <2>8, <2>9, <2>10 DEF IInv
<1>3. ASSUME NEW c \in Calls, Grant(c) PROVE IInv'
  <2>1. Shape'
    BY <1>3 DEF Grant, Granted, IInv, Shape, CallOK, Labels, PermitsOK
  <2>2. QueueOK'
    <3>1. queue # <<>> BY <1>3, EmptyQueue DEF Grant, IInv, QueueOK
    <3>2. /\ queue' \in Seq(Calls) /\ OnceEach(queue')
          /\ \A d : Waits(queue', d) <=> Waits(queue, d) /\ d # c
      BY <1>3, <3>1, ServeQueue DEF Grant, IInv, QueueOK
    <3> QED BY <1>3, <3>2 DEF Grant, Granted, IInv, Shape, QueueOK
  <2>3. PermitsFit'
    <3>1. held[c] \in 0..1 BY <1>3 DEF Grant, IInv, PermitsOK
    <3> QED BY <1>3, <3>1, UsedGrows DEF Grant, IInv, Shape, PermitsFit
  <2>4. ASSUME NEW d \in Calls PROVE CallOK(d)'
    BY <1>3 DEF Grant, Granted, IInv, Shape, CallOK
  <2>5. ASSUME NEW d \in Calls PROVE PermitsOK(d)'
    BY <1>3 DEF Grant, Granted, IInv, Shape, CallOK, PermitsOK
  <2>6. ASSUME NEW d \in Calls PROVE ReaderOK(d)'
    BY <1>3 DEF Grant, Granted, IInv, Shape, CallOK, ReaderOK, FilesOK, Finished, Uploads,
       Length
  <2>7. ASSUME NEW d \in Calls PROVE OwnerOK(d)'
    <3>1. UNCHANGED <<op, res, names, victim, content, size>> BY <1>3 DEF Grant
    <3>2. pc'[d] = pc[d] \/ pc'[d] \in {"open", "create"}
      BY <1>3 DEF Grant, Granted, IInv, Shape
    <3> QED BY <3>1, <3>2 DEF IInv, OwnerOK, Exclusive, Length
  <2>8. ASSUME NEW d \in Calls PROVE TempOK(d)'
    BY <1>3 DEF Grant, Granted, IInv, Shape, CallOK, TempOK, Uploads
  <2>9. FilesOK'
    <3>1. UNCHANGED <<op, content, size, handle>> BY <1>3 DEF Grant
    <3>2. \A k \in Keys : names'[k] \in {names[k], None}
      BY <1>3 DEF Grant, Granted, IInv, Shape, CallOK
    <3>3. \A d \in Calls :
            \/ pc'[d] = pc[d]
            \/ pc'[d] # "rename" /\ (pc[d] \in {"rmTemp", "done"} => pc'[d] \in {"rmTemp", "done"})
      BY <1>3 DEF Grant, Granted, IInv, Shape, CallOK
    <3> QED BY <3>1, <3>2, <3>3, FilesKept DEF IInv
  <2>10. OutOK'
    <3>1. out' = out BY <1>3 DEF Grant
    <3>2. \A d \in Calls : pc[d] \in {"stream", "done"} => pc'[d] \in {"stream", "done"}
      BY <1>3 DEF Grant, Granted, IInv, Shape
    <3> QED BY <3>1, <3>2, OutKept DEF IInv
  <2> QED BY <2>1, <2>2, <2>3, <2>4, <2>5, <2>6, <2>7, <2>8, <2>9, <2>10 DEF IInv
<1>4. ASSUME NEW c \in Calls, CreateTemp(c) PROVE IInv'
  <2>1. Shape'
    <3>1. op[c] \in Requests /\ op[c].key \in Keys BY <1>4 DEF CreateTemp, IInv, Shape, CallOK
    <3>2. pc' \in [Calls -> Labels]
      BY <1>4, <3>1 DEF CreateTemp, Fresh, Body, IInv, Shape, CallOK, PermitsOK, Labels
    <3>3. res' \in [Calls -> {"none", "ok", "exists", "missing", "precondition", "io", "dropped"}]
      BY <1>4, <3>1 DEF CreateTemp, Fresh, Body, IInv, Shape, CallOK, PermitsOK, Labels
    <3>4. held' \in [Calls -> 0..2]
      BY <1>4, <3>1 DEF CreateTemp, Fresh, Body, IInv, Shape, CallOK, PermitsOK, Labels
    <3>5. content' \in [Calls -> [body : Calls \cup {None}, len : Nat]]
      BY <1>4, <3>1 DEF CreateTemp, Fresh, Body, IInv, Shape, CallOK, PermitsOK, Labels
    <3>6. temps' \subseteq Calls
      BY <1>4, <3>1 DEF CreateTemp, Fresh, Body, IInv, Shape, CallOK, PermitsOK, Labels
    <3> QED BY <1>4, <3>2, <3>3, <3>4, <3>5, <3>6 DEF CreateTemp, IInv, Shape
  <2>2. QueueOK'
    BY <1>4 DEF CreateTemp, Fresh, Body, IInv, Shape, CallOK, QueueOK
  <2>3. PermitsFit'
    <3>1. \A d \in Calls : held'[d] <= held[d]
      BY <1>4 DEF CreateTemp, Fresh, Body, IInv, Shape, CallOK, PermitsOK
    <3> QED BY <2>1, <3>1, UsedFalls DEF IInv, Shape, PermitsFit
  <2>4. ASSUME NEW d \in Calls PROVE CallOK(d)'
    BY <1>4 DEF CreateTemp, Fresh, Body, IInv, Shape, CallOK
  <2>5. ASSUME NEW d \in Calls PROVE PermitsOK(d)'
    BY <1>4 DEF CreateTemp, Fresh, Body, IInv, Shape, CallOK, PermitsOK
  <2>6. ASSUME NEW d \in Calls PROVE ReaderOK(d)'
    BY <1>4 DEF CreateTemp, Fresh, Body, IInv, Shape, CallOK, ReaderOK, FilesOK, Finished,
       Uploads, Length
  <2>7. ASSUME NEW d \in Calls PROVE OwnerOK(d)'
    BY <1>4 DEF CreateTemp, Fresh, Body, IInv, Shape, CallOK, OwnerOK, Exclusive, Length,
       FilesOK
  <2>8. ASSUME NEW d \in Calls PROVE TempOK(d)'
    BY <1>4 DEF CreateTemp, Fresh, Body, IInv, Shape, CallOK, TempOK, Uploads
  <2>9. FilesOK'
    BY <1>4 DEF CreateTemp, Fresh, Body, IInv, Shape, CallOK, FilesOK, Finished, Uploads,
       Length, ReaderOK
  <2>10. OutOK'
    <3>1. out' = out BY <1>4 DEF CreateTemp
    <3>2. \A d \in Calls : pc[d] \in {"stream", "done"} => pc'[d] \in {"stream", "done"}
      BY <1>4 DEF CreateTemp, IInv, Shape
    <3> QED BY <3>1, <3>2, OutKept DEF IInv
  <2> QED BY <2>1, <2>2, <2>3, <2>4, <2>5, <2>6, <2>7, <2>8, <2>9, <2>10 DEF IInv
<1>5. ASSUME NEW c \in Calls, CreateKey(c) PROVE IInv'
  <2>1. Shape'
    <3>1. op[c] \in Requests /\ op[c].key \in Keys BY <1>5 DEF CreateKey, IInv, Shape, CallOK
    <3>2. pc' \in [Calls -> Labels]
      BY <1>5, <3>1, ZenonT(60) DEF CreateKey, Fresh, Body, IInv, Shape, CallOK, PermitsOK, Labels
    <3>3. res' \in [Calls -> {"none", "ok", "exists", "missing", "precondition", "io", "dropped"}]
      BY <1>5, <3>1 DEF CreateKey, Fresh, Body, IInv, Shape, CallOK, PermitsOK, Labels
    <3>4. held' \in [Calls -> 0..2]
      BY <1>5, <3>1 DEF CreateKey, Fresh, Body, IInv, Shape, CallOK, PermitsOK, Labels
    <3>5. content' \in [Calls -> [body : Calls \cup {None}, len : Nat]]
      BY <1>5, <3>1 DEF CreateKey, Fresh, Body, IInv, Shape, CallOK, PermitsOK, Labels
    <3>6. names' = names \/ names' = [names EXCEPT ![op[c].key] = c]
      BY <1>5, <3>1 DEF CreateKey, Fresh, Body, IInv, Shape, CallOK, PermitsOK, Labels
    <3>7. names' \in [Keys -> Calls \cup {None}] BY <3>1, <3>6 DEF IInv, Shape
    <3> QED BY <1>5, <3>2, <3>3, <3>4, <3>5, <3>6, <3>7 DEF CreateKey, IInv, Shape
  <2>2. QueueOK'
    BY <1>5 DEF CreateKey, Fresh, Body, IInv, Shape, CallOK, QueueOK
  <2>3. PermitsFit'
    <3>1. \A d \in Calls : held'[d] <= held[d]
      BY <1>5, SMTT(30) DEF CreateKey, Fresh, Body, IInv, Shape, CallOK, PermitsOK
    <3> QED BY <2>1, <3>1, UsedFalls DEF IInv, Shape, PermitsFit
  <2>4. ASSUME NEW d \in Calls PROVE CallOK(d)'
    BY <1>5 DEF CreateKey, Fresh, Body, IInv, Shape, CallOK
  <2>5. ASSUME NEW d \in Calls PROVE PermitsOK(d)'
    BY <1>5 DEF CreateKey, Fresh, Body, IInv, Shape, CallOK, PermitsOK
  <2>6. ASSUME NEW d \in Calls PROVE ReaderOK(d)'
    BY <1>5 DEF CreateKey, Fresh, Body, IInv, Shape, CallOK, ReaderOK, FilesOK, Finished,
       Uploads, Length
  <2>7. ASSUME NEW d \in Calls PROVE OwnerOK(d)'
    BY <1>5 DEF CreateKey, Fresh, Body, IInv, Shape, CallOK, OwnerOK, Exclusive, Length,
       FilesOK
  <2>8. ASSUME NEW d \in Calls PROVE TempOK(d)'
    BY <1>5 DEF CreateKey, Fresh, Body, IInv, Shape, CallOK, TempOK, Uploads
  <2>9. FilesOK'
    BY <1>5 DEF CreateKey, Fresh, Body, IInv, Shape, CallOK, FilesOK, Finished, Uploads,
       Length, ReaderOK
  <2>10. OutOK'
    <3>1. out' = out BY <1>5 DEF CreateKey
    <3>2. \A d \in Calls : pc[d] \in {"stream", "done"} => pc'[d] \in {"stream", "done"}
      BY <1>5 DEF CreateKey, IInv, Shape
    <3> QED BY <3>1, <3>2, OutKept DEF IInv
  <2> QED BY <2>1, <2>2, <2>3, <2>4, <2>5, <2>6, <2>7, <2>8, <2>9, <2>10 DEF IInv
<1>6. ASSUME NEW c \in Calls, WriteChunk(c) PROVE IInv'
  <2>a. /\ pc[c] = "write"
        /\ UNCHANGED <<op, pc, res, queue, held, names, temps>>
        /\ UNCHANGED <<handle, size, pos, skip, rest, out, victim, leaked>>
    BY <1>6 DEF WriteChunk
  <2>b. /\ content' \in [Calls -> [body : Calls \cup {None}, len : Nat]]
        /\ \A d \in Calls : d # c => content'[d] = content[d]
    BY <1>6, <2>a, GrowShape, SmbAssumption DEF WriteChunk
  <2>c. \A f \in Calls : Length(f)' = Length(f) BY <2>a DEF Length
  <2>1. Shape' BY <2>a, <2>b DEF IInv, Shape
  <2>2. QueueOK' BY <2>a DEF IInv, QueueOK
  <2>3. PermitsFit' BY <2>a DEF IInv, PermitsFit, Used
  <2>4. ASSUME NEW d \in Calls PROVE CallOK(d)' BY <2>a DEF IInv, CallOK
  <2>5. ASSUME NEW d \in Calls PROVE PermitsOK(d)' BY <2>a DEF IInv, PermitsOK
  <2>6. ASSUME NEW d \in Calls PROVE ReaderOK(d)' BY <2>a DEF IInv, ReaderOK, Uploads, Length
  <2>7. ASSUME NEW d \in Calls PROVE OwnerOK(d)'
    <3>1. res[d] = "ok" => d # c BY <2>a DEF IInv, CallOK
    <3> QED BY <2>a, <2>b, <2>c, <3>1 DEF IInv, OwnerOK, Exclusive
  <2>8. ASSUME NEW d \in Calls PROVE TempOK(d)' BY <2>a DEF IInv, TempOK, Uploads
  <2>9. FilesOK' BY <2>a, <2>b, FilesKept DEF IInv
  <2>10. OutOK' BY <2>a, OutKept DEF IInv
  <2> QED BY <2>1, <2>2, <2>3, <2>4, <2>5, <2>6, <2>7, <2>8, <2>9, <2>10 DEF IInv
<1>7. ASSUME NEW c \in Calls, WriteFails(c) PROVE IInv'
  <2>a. /\ pc[c] = "write" /\ op[c] # None
        /\ UNCHANGED <<op, names, temps, handle, size, pos, skip, rest, out, victim, leaked>>
    BY <1>7 DEF WriteFails, IInv, CallOK
  <2>b. /\ pc' = [pc EXCEPT ![c] = IF Kind(c) = "create" THEN "rmOpen" ELSE "rmPart"]
        /\ res' = [res EXCEPT ![c] = "io"]
    BY <1>7 DEF WriteFails, CleanUp
  <2>c. /\ content' \in [Calls -> [body : Calls \cup {None}, len : Nat]]
        /\ \A d \in Calls : d # c => content'[d] = content[d]
    <3>1. CASE content' = content BY <3>1 DEF IInv, Shape
    <3>2. ASSUME NEW n \in {0, ChunkSize}, Grow(c, n)
          PROVE  /\ content' \in [Calls -> [body : Calls \cup {None}, len : Nat]]
                 /\ \A d \in Calls : d # c => content'[d] = content[d]
      <4>1. n \in Nat BY SmbAssumption
      <4> QED BY <2>a, <3>2, <4>1, GrowShape
    <3> QED BY <1>7, <3>1, <3>2 DEF WriteFails
  <2>d. /\ pc'[c] \in {"rmOpen", "rmPart"} /\ (pc'[c] = "rmOpen" <=> Kind(c) = "create")
        /\ res'[c] = "io"
        /\ \A d \in Calls : d # c => pc'[d] = pc[d] /\ res'[d] = res[d]
    BY <2>b DEF IInv, Shape
  <2>1. Shape'
    <3>1. op[c] \in Requests /\ op[c].key \in Keys BY <1>7 DEF WriteFails, IInv, Shape, CallOK
    <3>2. pc' \in [Calls -> Labels]
      BY <1>7, <3>1 DEF WriteFails, Length, CleanUp, IInv, Shape, CallOK, PermitsOK, Labels
    <3>3. res' \in [Calls -> {"none", "ok", "exists", "missing", "precondition", "io", "dropped"}]
      BY <1>7, <3>1 DEF WriteFails, Length, CleanUp, IInv, Shape, CallOK, PermitsOK, Labels
    <3>4. held' \in [Calls -> 0..2]
      BY <1>7, <3>1 DEF WriteFails, Length, CleanUp, IInv, Shape, CallOK, PermitsOK, Labels
    <3> QED BY <1>7, <2>c, <3>2, <3>3, <3>4 DEF WriteFails, IInv, Shape
  <2>2. QueueOK'
    BY <1>7 DEF WriteFails, Length, CleanUp, IInv, Shape, CallOK, QueueOK
  <2>3. PermitsFit'
    <3>1. \A d \in Calls : held'[d] <= held[d]
      BY <1>7 DEF WriteFails, Length, CleanUp, IInv, Shape, CallOK, PermitsOK
    <3> QED BY <2>1, <3>1, UsedFalls DEF IInv, Shape, PermitsFit
  <2>4. ASSUME NEW d \in Calls PROVE CallOK(d)'
    BY <2>a, <2>d DEF IInv, CallOK
  <2>5. ASSUME NEW d \in Calls PROVE PermitsOK(d)'
    BY <1>7 DEF WriteFails, Length, CleanUp, IInv, Shape, CallOK, PermitsOK
  <2>6. ASSUME NEW d \in Calls PROVE ReaderOK(d)'
    BY <2>a, <2>d DEF IInv, ReaderOK, Uploads, Length
  <2>7. ASSUME NEW d \in Calls PROVE OwnerOK(d)'
    <3>1. Length(d)' = Length(d) BY <2>a DEF Length
    <3>2. CASE d # c BY <2>a, <2>c, <2>d, <3>1, <3>2 DEF IInv, OwnerOK, Exclusive
    <3>3. CASE d = c
      <4>1. OwnerOK(c) BY DEF IInv
      <4> QED BY <2>a, <2>d, <3>3, <4>1 DEF OwnerOK, Exclusive
    <3> QED BY <3>2, <3>3
  <2>8. ASSUME NEW d \in Calls PROVE TempOK(d)'
    BY <2>a, <2>d DEF IInv, CallOK, TempOK, Uploads
  <2>9. FilesOK'
    BY <2>a, <2>c, <2>d, FilesKept DEF IInv
  <2>10. OutOK'
    <3>1. out' = out BY <1>7 DEF WriteFails
    <3>2. \A d \in Calls : pc[d] \in {"stream", "done"} => pc'[d] \in {"stream", "done"}
      BY <1>7 DEF WriteFails, CleanUp, IInv, Shape
    <3> QED BY <3>1, <3>2, OutKept DEF IInv
  <2> QED BY <2>1, <2>2, <2>3, <2>4, <2>5, <2>6, <2>7, <2>8, <2>9, <2>10 DEF IInv
<1>8. ASSUME NEW c \in Calls, EndWrite(c) PROVE IInv'
  <2>1. Shape'
    <3>1. op[c] \in Requests /\ op[c].key \in Keys BY <1>8 DEF EndWrite, IInv, Shape, CallOK
    <3>2. pc' \in [Calls -> Labels]
      BY <1>8, <3>1 DEF EndWrite, Length, CleanUp, IInv, Shape, CallOK, PermitsOK, Labels
    <3>3. res' \in [Calls -> {"none", "ok", "exists", "missing", "precondition", "io", "dropped"}]
      BY <1>8, <3>1, SMTT(30) DEF EndWrite, Length, CleanUp, IInv, Shape, CallOK, PermitsOK, Labels
    <3>4. held' \in [Calls -> 0..2]
      BY <1>8, <3>1 DEF EndWrite, Length, CleanUp, IInv, Shape, CallOK, PermitsOK, Labels
    <3> QED BY <1>8, <3>2, <3>3, <3>4 DEF EndWrite, IInv, Shape
  <2>2. QueueOK'
    BY <1>8 DEF EndWrite, Length, CleanUp, IInv, Shape, CallOK, QueueOK
  <2>3. PermitsFit'
    <3>1. \A d \in Calls : held'[d] <= held[d]
      BY <1>8 DEF EndWrite, Length, CleanUp, IInv, Shape, CallOK, PermitsOK
    <3> QED BY <2>1, <3>1, UsedFalls DEF IInv, Shape, PermitsFit
  <2>4. ASSUME NEW d \in Calls PROVE CallOK(d)'
    BY <1>8 DEF EndWrite, Length, CleanUp, IInv, Shape, CallOK
  <2>5. ASSUME NEW d \in Calls PROVE PermitsOK(d)'
    BY <1>8 DEF EndWrite, Length, CleanUp, IInv, Shape, CallOK, PermitsOK
  <2>6. ASSUME NEW d \in Calls PROVE ReaderOK(d)'
    BY <1>8 DEF EndWrite, Length, CleanUp, IInv, Shape, CallOK, ReaderOK, FilesOK, Finished,
       Uploads
  <2>7. ASSUME NEW d \in Calls PROVE OwnerOK(d)'
    BY <1>8 DEF EndWrite, Length, CleanUp, IInv, Shape, CallOK, OwnerOK, Exclusive, FilesOK
  <2>8. ASSUME NEW d \in Calls PROVE TempOK(d)'
    BY <1>8 DEF EndWrite, Length, CleanUp, IInv, Shape, CallOK, TempOK, Uploads
  <2>9. FilesOK'
    <3>1. UNCHANGED <<op, content, size, handle, names>> /\ pc[c] = "write" /\ content[c].len = Length(c)
      BY <1>8 DEF EndWrite
    <3>2. PICK label : pc' = [pc EXCEPT ![c] = label] BY <1>8 DEF EndWrite, CleanUp
    <3>3. \A d \in Calls :
            \/ pc'[d] = pc[d]
            \/ /\ pc'[d] = "rename" => content'[d].len = Length(d)
               /\ pc[d] \in {"rmTemp", "done"} => pc'[d] \in {"rmTemp", "done"}
      BY <3>1, <3>2 DEF IInv, Shape
    <3>4. \A k \in Keys : names'[k] \in {names[k], None} BY <3>1
    <3> QED BY <3>1, <3>3, <3>4, FilesKept DEF IInv
  <2>10. OutOK'
    <3>1. out' = out BY <1>8 DEF EndWrite
    <3>2. \A d \in Calls : pc[d] \in {"stream", "done"} => pc'[d] \in {"stream", "done"}
      BY <1>8 DEF EndWrite, CleanUp, IInv, Shape
    <3> QED BY <3>1, <3>2, OutKept DEF IInv
  <2> QED BY <2>1, <2>2, <2>3, <2>4, <2>5, <2>6, <2>7, <2>8, <2>9, <2>10 DEF IInv
<1>9. ASSUME NEW c \in Calls, Rename(c) PROVE IInv'
  <2>1. Shape'
    BY <1>9, SMTT(30) DEF Rename, IInv, Shape, CallOK, Labels, PermitsOK
  <2>2. QueueOK'
    BY <1>9 DEF Rename, IInv, Shape, CallOK, QueueOK
  <2>3. PermitsFit'
    <3>1. \A d \in Calls : held'[d] <= held[d]
      BY <1>9 DEF Rename, IInv, Shape, CallOK, PermitsOK
    <3> QED BY <2>1, <3>1, UsedFalls DEF IInv, Shape, PermitsFit
  <2>4. ASSUME NEW d \in Calls PROVE CallOK(d)'
    BY <1>9 DEF Rename, IInv, Shape, CallOK
  <2>5. ASSUME NEW d \in Calls PROVE PermitsOK(d)'
    BY <1>9 DEF Rename, IInv, Shape, CallOK, PermitsOK
  <2>6. ASSUME NEW d \in Calls PROVE ReaderOK(d)'
    BY <1>9 DEF Rename, IInv, Shape, CallOK, ReaderOK, FilesOK, Finished, Uploads, Length
  <2>7. ASSUME NEW d \in Calls PROVE OwnerOK(d)'
    <3>1. /\ UNCHANGED <<op, size, content, victim>>
          /\ names' = [names EXCEPT ![op[c].key] = c] \/ names' = names
      BY <1>9 DEF Rename
    <3>2. Kind(c) \in {"put", "copy"} /\ op[c] # None BY <1>9 DEF Rename, IInv, CallOK
    <3>3. SUFFICES ASSUME op[d] # None, Kind(d) = "create", Exclusive(op[d].key)
                   PROVE  /\ pc'[d] \in {"write", "rmOpen", "rmDelete"} \/ res'[d] = "ok"
                               => names'[op[d].key] = d
                          /\ pc'[d] = "rmDelete" => victim[d] = d
                          /\ res'[d] = "ok" => content[d].len = Length(d)
      BY <3>1 DEF OwnerOK, Exclusive, Kind, Length
    <3>4. d # c /\ op[d].key # op[c].key BY <3>2, <3>3 DEF Exclusive, Kind
    <3>5. pc'[d] = pc[d] /\ res'[d] = res[d] BY <1>9, <3>4 DEF Rename, IInv, Shape
    <3>6. names'[op[d].key] = names[op[d].key]
      <4>1. op[d].key \in Keys BY <3>3, RequestShape DEF IInv, Shape, Kind
      <4> QED BY <3>1, <3>4, <4>1 DEF IInv, Shape
    <3> QED BY <3>3, <3>5, <3>6 DEF IInv, OwnerOK
  <2>8. ASSUME NEW d \in Calls PROVE TempOK(d)'
    BY <1>9 DEF Rename, IInv, Shape, CallOK, TempOK, Uploads
  <2>9. FilesOK'
    BY <1>9, SMTT(30) DEF Rename, IInv, Shape, CallOK, FilesOK, Finished, Uploads, Length, ReaderOK
  <2>10. OutOK'
    <3>1. out' = out BY <1>9 DEF Rename
    <3>2. \A d \in Calls : pc[d] \in {"stream", "done"} => pc'[d] \in {"stream", "done"}
      BY <1>9 DEF Rename, IInv, Shape
    <3> QED BY <3>1, <3>2, OutKept DEF IInv
  <2> QED BY <2>1, <2>2, <2>3, <2>4, <2>5, <2>6, <2>7, <2>8, <2>9, <2>10 DEF IInv
<1>10. ASSUME NEW c \in Calls, RemoveTemp(c) PROVE IInv'
  <2>1. Shape'
    BY <1>10 DEF RemoveTemp, IInv, Shape, CallOK, Labels, PermitsOK
  <2>2. QueueOK'
    BY <1>10 DEF RemoveTemp, IInv, Shape, CallOK, QueueOK
  <2>3. PermitsFit'
    <3>1. \A d \in Calls : held'[d] <= held[d]
      BY <1>10 DEF RemoveTemp, IInv, Shape, CallOK, PermitsOK
    <3> QED BY <2>1, <3>1, UsedFalls DEF IInv, Shape, PermitsFit
  <2>4. ASSUME NEW d \in Calls PROVE CallOK(d)'
    BY <1>10 DEF RemoveTemp, IInv, Shape, CallOK
  <2>5. ASSUME NEW d \in Calls PROVE PermitsOK(d)'
    BY <1>10 DEF RemoveTemp, IInv, Shape, CallOK, PermitsOK
  <2>6. ASSUME NEW d \in Calls PROVE ReaderOK(d)'
    BY <1>10 DEF RemoveTemp, IInv, Shape, CallOK, ReaderOK, FilesOK, Finished, Uploads,
       Length
  <2>7. ASSUME NEW d \in Calls PROVE OwnerOK(d)'
    BY <1>10 DEF RemoveTemp, IInv, Shape, CallOK, OwnerOK, Exclusive, Length, FilesOK
  <2>8. ASSUME NEW d \in Calls PROVE TempOK(d)'
    BY <1>10 DEF RemoveTemp, IInv, Shape, CallOK, TempOK, Uploads
  <2>9. FilesOK'
    <3>1. UNCHANGED <<op, content, size, handle, names>> BY <1>10 DEF RemoveTemp
    <3>2. \A d \in Calls :
            \/ pc'[d] = pc[d]
            \/ pc'[d] # "rename" /\ (pc[d] \in {"rmTemp", "done"} => pc'[d] \in {"rmTemp", "done"})
      BY <1>10 DEF RemoveTemp, IInv, Shape
    <3> QED BY <3>1, <3>2, FilesKept DEF IInv
  <2>10. OutOK'
    <3>1. out' = out BY <1>10 DEF RemoveTemp
    <3>2. \A d \in Calls : pc[d] \in {"stream", "done"} => pc'[d] \in {"stream", "done"}
      BY <1>10 DEF RemoveTemp, IInv, Shape
    <3> QED BY <3>1, <3>2, OutKept DEF IInv
  <2> QED BY <2>1, <2>2, <2>3, <2>4, <2>5, <2>6, <2>7, <2>8, <2>9, <2>10 DEF IInv
<1>11. ASSUME NEW c \in Calls, RemoveOpen(c) PROVE IInv'
  <2>1. Shape'
    <3>1. op[c] \in Requests /\ op[c].key \in Keys BY <1>11 DEF RemoveOpen, IInv, Shape, CallOK
    <3>2. pc' \in [Calls -> Labels]
      <4>1. PICK label \in {"rmDelete", "done"} : pc' = [pc EXCEPT ![c] = label]
        BY <1>11 DEF RemoveOpen, Removed
      <4> QED BY <4>1 DEF IInv, Shape, Labels
    <3>3. res' \in [Calls -> {"none", "ok", "exists", "missing", "precondition", "io", "dropped"}]
      BY <1>11, <3>1 DEF RemoveOpen, Removed, IInv, Shape, CallOK, PermitsOK, Labels
    <3>4. held' \in [Calls -> 0..2]
      BY <1>11, <3>1 DEF RemoveOpen, Removed, IInv, Shape, CallOK, PermitsOK, Labels
    <3>5. victim' \in [Calls -> Calls \cup {None}]
      BY <1>11, <3>1 DEF RemoveOpen, Removed, IInv, Shape, CallOK, PermitsOK, Labels
    <3> QED BY <1>11, <3>2, <3>3, <3>4, <3>5 DEF RemoveOpen, IInv, Shape
  <2>2. QueueOK'
    BY <1>11 DEF RemoveOpen, Removed, IInv, Shape, CallOK, QueueOK
  <2>3. PermitsFit'
    <3>1. held' = held \/ held' = [held EXCEPT ![c] = 0] BY <1>11 DEF RemoveOpen, Removed
    <3>2. \A d \in Calls : held'[d] <= held[d] BY <3>1, SMTT(30) DEF IInv, Shape
    <3> QED BY <2>1, <3>2, UsedFalls DEF IInv, Shape, PermitsFit
  <2>4. ASSUME NEW d \in Calls PROVE CallOK(d)'
    BY <1>11 DEF RemoveOpen, Removed, IInv, Shape, CallOK
  <2>5. ASSUME NEW d \in Calls PROVE PermitsOK(d)'
    BY <1>11 DEF RemoveOpen, Removed, IInv, Shape, CallOK, PermitsOK
  <2>6. ASSUME NEW d \in Calls PROVE ReaderOK(d)'
    BY <1>11 DEF RemoveOpen, Removed, IInv, Shape, CallOK, ReaderOK, FilesOK, Finished,
       Uploads, Length
  <2>7. ASSUME NEW d \in Calls PROVE OwnerOK(d)'
    BY <1>11 DEF RemoveOpen, Removed, IInv, Shape, CallOK, OwnerOK, Exclusive, Length,
       FilesOK
  <2>8. ASSUME NEW d \in Calls PROVE TempOK(d)'
    BY <1>11 DEF RemoveOpen, Removed, IInv, Shape, CallOK, TempOK, Uploads
  <2>9. FilesOK'
    <3>1. UNCHANGED <<op, content, size, handle>> BY <1>11 DEF RemoveOpen
    <3>2. \A k \in Keys : names'[k] \in {names[k], None}
      BY <1>11 DEF RemoveOpen, Removed, IInv, Shape, CallOK
    <3>3. \A d \in Calls :
            \/ pc'[d] = pc[d]
            \/ pc'[d] # "rename" /\ (pc[d] \in {"rmTemp", "done"} => pc'[d] \in {"rmTemp", "done"})
      BY <1>11 DEF RemoveOpen, Removed, IInv, Shape, CallOK
    <3> QED BY <3>1, <3>2, <3>3, FilesKept DEF IInv
  <2>10. OutOK'
    <3>1. out' = out BY <1>11 DEF RemoveOpen
    <3>2. \A d \in Calls : pc[d] \in {"stream", "done"} => pc'[d] \in {"stream", "done"}
      BY <1>11 DEF RemoveOpen, Removed, IInv, Shape
    <3> QED BY <3>1, <3>2, OutKept DEF IInv
  <2> QED BY <2>1, <2>2, <2>3, <2>4, <2>5, <2>6, <2>7, <2>8, <2>9, <2>10 DEF IInv
<1>12. ASSUME NEW c \in Calls, RemoveDelete(c) PROVE IInv'
  <2>1. Shape'
    <3>1. op[c] \in Requests /\ op[c].key \in Keys BY <1>12 DEF RemoveDelete, IInv, Shape, CallOK
    <3>2. pc' \in [Calls -> Labels]
      <4>1. PICK label \in {"rmDelete", "done"} : pc' = [pc EXCEPT ![c] = label]
        BY <1>12 DEF RemoveDelete, Removed
      <4> QED BY <4>1 DEF IInv, Shape, Labels
    <3>3. res' \in [Calls -> {"none", "ok", "exists", "missing", "precondition", "io", "dropped"}]
      BY <1>12, <3>1 DEF RemoveDelete, Removed, IInv, Shape, CallOK, PermitsOK, Labels
    <3>4. held' \in [Calls -> 0..2]
      BY <1>12, <3>1 DEF RemoveDelete, Removed, IInv, Shape, CallOK, PermitsOK, Labels
    <3>5. names' \in [Keys -> Calls \cup {None}]
      <4>1. \/ names' = names
            \/ names' = [names EXCEPT ![op[c].key] = IF @ = victim[c] THEN None ELSE @]
        BY <1>12 DEF RemoveDelete
      <4> QED BY <3>1, <4>1 DEF IInv, Shape
    <3> QED BY <1>12, <3>2, <3>3, <3>4, <3>5 DEF RemoveDelete, IInv, Shape
  <2>2. QueueOK'
    BY <1>12 DEF RemoveDelete, Removed, IInv, Shape, CallOK, QueueOK
  <2>3. PermitsFit'
    <3>1. \A d \in Calls : held'[d] <= held[d]
      BY <1>12 DEF RemoveDelete, Removed, IInv, Shape, CallOK, PermitsOK
    <3> QED BY <2>1, <3>1, UsedFalls DEF IInv, Shape, PermitsFit
  <2>4. ASSUME NEW d \in Calls PROVE CallOK(d)'
    BY <1>12 DEF RemoveDelete, Removed, IInv, Shape, CallOK
  <2>5. ASSUME NEW d \in Calls PROVE PermitsOK(d)'
    BY <1>12 DEF RemoveDelete, Removed, IInv, Shape, CallOK, PermitsOK
  <2>6. ASSUME NEW d \in Calls PROVE ReaderOK(d)'
    BY <1>12 DEF RemoveDelete, Removed, IInv, Shape, CallOK, ReaderOK, FilesOK, Finished,
       Uploads, Length
  <2>7. ASSUME NEW d \in Calls PROVE OwnerOK(d)'
    BY <1>12 DEF RemoveDelete, Removed, IInv, Shape, CallOK, OwnerOK, Exclusive, Length,
       FilesOK
  <2>8. ASSUME NEW d \in Calls PROVE TempOK(d)'
    BY <1>12 DEF RemoveDelete, Removed, IInv, Shape, CallOK, TempOK, Uploads
  <2>9. FilesOK'
    <3>1. UNCHANGED <<op, content, size, handle>> BY <1>12 DEF RemoveDelete
    <3>2. \A k \in Keys : names'[k] \in {names[k], None}
      BY <1>12 DEF RemoveDelete, Removed, IInv, Shape, CallOK
    <3>3. \A d \in Calls :
            \/ pc'[d] = pc[d]
            \/ pc'[d] # "rename" /\ (pc[d] \in {"rmTemp", "done"} => pc'[d] \in {"rmTemp", "done"})
      BY <1>12 DEF RemoveDelete, Removed, IInv, Shape, CallOK
    <3> QED BY <3>1, <3>2, <3>3, FilesKept DEF IInv
  <2>10. OutOK'
    <3>1. out' = out BY <1>12 DEF RemoveDelete
    <3>2. \A d \in Calls : pc[d] \in {"stream", "done"} => pc'[d] \in {"stream", "done"}
      BY <1>12 DEF RemoveDelete, Removed, IInv, Shape
    <3> QED BY <3>1, <3>2, OutKept DEF IInv
  <2> QED BY <2>1, <2>2, <2>3, <2>4, <2>5, <2>6, <2>7, <2>8, <2>9, <2>10 DEF IInv
<1>13. ASSUME NEW c \in Calls, OpenFile(c) PROVE IInv'
  <2>1. Shape'
    <3>1. op[c] \in Requests /\ op[c].key \in Keys BY <1>13 DEF OpenFile, IInv, Shape, CallOK
    <3>2. pc' \in [Calls -> Labels]
      BY <1>13, <3>1 DEF OpenFile, IInv, Shape, CallOK, PermitsOK, Labels
    <3>3. res' \in [Calls -> {"none", "ok", "exists", "missing", "precondition", "io", "dropped"}]
      BY <1>13, <3>1 DEF OpenFile, IInv, Shape, CallOK, PermitsOK, Labels
    <3>4. held' \in [Calls -> 0..2]
      BY <1>13, <3>1 DEF OpenFile, IInv, Shape, CallOK, PermitsOK, Labels
    <3>5. handle' \in [Calls -> Calls \cup {None}]
      BY <1>13, <3>1 DEF OpenFile, IInv, Shape, CallOK, PermitsOK, Labels
    <3> QED BY <1>13, <3>2, <3>3, <3>4, <3>5 DEF OpenFile, IInv, Shape
  <2>2. QueueOK'
    BY <1>13 DEF OpenFile, IInv, Shape, CallOK, QueueOK
  <2>3. PermitsFit'
    <3>1. \A d \in Calls : held'[d] <= held[d]
      BY <1>13 DEF OpenFile, IInv, Shape, CallOK, PermitsOK
    <3> QED BY <2>1, <3>1, UsedFalls DEF IInv, Shape, PermitsFit
  <2>4. ASSUME NEW d \in Calls PROVE CallOK(d)'
    BY <1>13 DEF OpenFile, IInv, Shape, CallOK
  <2>5. ASSUME NEW d \in Calls PROVE PermitsOK(d)'
    BY <1>13 DEF OpenFile, IInv, Shape, CallOK, PermitsOK
  <2>6. ASSUME NEW d \in Calls PROVE ReaderOK(d)'
    BY <1>13 DEF OpenFile, IInv, Shape, CallOK, ReaderOK, FilesOK, Finished, Uploads, Length
  <2>7. ASSUME NEW d \in Calls PROVE OwnerOK(d)'
    BY <1>13 DEF OpenFile, IInv, Shape, CallOK, OwnerOK, Exclusive, Length, FilesOK
  <2>8. ASSUME NEW d \in Calls PROVE TempOK(d)'
    BY <1>13 DEF OpenFile, IInv, Shape, CallOK, TempOK, Uploads
  <2>9. FilesOK'
    BY <1>13 DEF OpenFile, IInv, Shape, CallOK, FilesOK, Finished, Uploads, Length, ReaderOK
  <2>10. OutOK'
    <3>1. out' = out BY <1>13 DEF OpenFile
    <3>2. \A d \in Calls : pc[d] \in {"stream", "done"} => pc'[d] \in {"stream", "done"}
      BY <1>13 DEF OpenFile, IInv, Shape
    <3> QED BY <3>1, <3>2, OutKept DEF IInv
  <2> QED BY <2>1, <2>2, <2>3, <2>4, <2>5, <2>6, <2>7, <2>8, <2>9, <2>10 DEF IInv
<1>14. ASSUME NEW c \in Calls, Stat(c) PROVE IInv'
  <2> DEFINE n == content[handle[c]].len
             Opened == /\ size' = [size EXCEPT ![c] = n]
                       /\ skip' = [skip EXCEPT ![c] = First(op[c])]
                       /\ rest' = [rest EXCEPT ![c] = Count(op[c], n)]
                       /\ pc' = [pc EXCEPT ![c] = IF Kind(c) = "copy" THEN "permit" ELSE "stream"]
                       /\ UNCHANGED <<res, queue, held>>
             Failed == /\ pc' = [pc EXCEPT ![c] = "done"] /\ res' = [res EXCEPT ![c] = "io"]
                       /\ held' = [held EXCEPT ![c] = 0]
                       /\ UNCHANGED <<size, skip, rest, queue>>
  <2>a. /\ pc[c] = "stat" /\ handle[c] \in Calls
        /\ UNCHANGED <<op, names, temps, content, handle, pos, out, victim, leaked>>
    BY <1>14 DEF Stat, IInv, Shape, CallOK
  <2>b. n \in Nat BY <2>a DEF IInv, Shape
  <2>c. Opened \/ Failed BY <1>14 DEF Stat, Lo, Wanted, First, Count
  <2>d. First(op[c]) \in Nat /\ Count(op[c], n) \in Nat BY <2>a, <2>b, StreamBounds
  <2> HIDE DEF n
  <2>1. Shape'
    <3>1. CASE Failed BY <2>a, <3>1 DEF IInv, Shape, Labels
    <3>2. CASE Opened
      <4>1. size' \in [Calls -> Nat] /\ skip' \in [Calls -> Nat] /\ rest' \in [Calls -> Nat]
        BY <2>b, <2>d, <3>2 DEF IInv, Shape
      <4>2. pc' \in [Calls -> Labels] BY <3>2 DEF IInv, Shape, Labels
      <4> QED BY <2>a, <3>2, <4>1, <4>2 DEF IInv, Shape
    <3> QED BY <2>c, <3>1, <3>2
  <2>2. QueueOK'
    BY <1>14 DEF Stat, IInv, Shape, CallOK, QueueOK
  <2>3. PermitsFit'
    <3>1. \A d \in Calls : held'[d] <= held[d]
      BY <1>14 DEF Stat, IInv, Shape, CallOK, PermitsOK
    <3> QED BY <2>1, <3>1, UsedFalls DEF IInv, Shape, PermitsFit
  <2>4. ASSUME NEW d \in Calls PROVE CallOK(d)'
    BY <1>14 DEF Stat, IInv, Shape, CallOK
  <2>5. ASSUME NEW d \in Calls PROVE PermitsOK(d)'
    BY <1>14 DEF Stat, IInv, Shape, CallOK, PermitsOK
  <2>6. ASSUME NEW d \in Calls PROVE ReaderOK(d)'
    <3>1. ASSUME handle[d] # None, Uploads(handle[d])
          PROVE  handle[d] # c /\ Length(handle[d])' = Length(handle[d])
      <4>1. handle[d] \in Calls /\ Finished(handle[d]) BY <3>1 DEF IInv, Shape, FilesOK
      <4>2. handle[d] # c BY <2>a, <4>1 DEF Finished
      <4>3. size'[handle[d]] = size[handle[d]] BY <2>c, <4>1, <4>2 DEF IInv, Shape
      <4> QED BY <2>a, <4>2, <4>3 DEF Length
    <3>2. Uploads(handle[d])' = Uploads(handle[d]) BY <2>a DEF Uploads
    <3>3. CASE d # c
      <4>1. /\ pc'[d] = pc[d] /\ res'[d] = res[d] /\ size'[d] = size[d] /\ skip'[d] = skip[d]
            /\ rest'[d] = rest[d]
        BY <2>c, <3>3 DEF IInv, Shape
      <4> QED BY <2>a, <3>1, <3>2, <4>1 DEF IInv, ReaderOK
    <3>4. CASE d = c /\ Failed
      <4>1. pc'[c] = "done" /\ res'[c] = "io" BY <3>4 DEF IInv, Shape
      <4> QED BY <3>4, <4>1 DEF ReaderOK
    <3>5. CASE d = c /\ Opened
      <4>1. /\ size'[c] = n /\ skip'[c] = First(op[c]) /\ rest'[c] = Count(op[c], n)
            /\ res'[c] # "ok"
        BY <2>a, <3>5 DEF IInv, Shape, CallOK
      <4>2. pos[c] = 0 /\ out[c] = <<>> BY <2>a DEF IInv, CallOK, OutOK
      <4>3. InStep(op[c], n, 0, First(op[c]), Count(op[c], n), <<>>)
        BY <2>b, <2>d DEF InStep, Streamed
      <4>4. handle[c] # None /\ Uploads(handle[c]) => n = Length(handle[c])
        BY DEF n, IInv, FilesOK, Finished
      <4> QED BY <2>a, <3>1, <3>2, <3>5, <4>1, <4>2, <4>3, <4>4 DEF ReaderOK
    <3> QED BY <2>c, <3>3, <3>4, <3>5
  <2>7. ASSUME NEW d \in Calls PROVE OwnerOK(d)'
    BY <1>14 DEF Stat, IInv, Shape, CallOK, OwnerOK, Exclusive, Length, FilesOK
  <2>8. ASSUME NEW d \in Calls PROVE TempOK(d)'
    BY <1>14 DEF Stat, IInv, Shape, CallOK, TempOK, Uploads
  <2>9. FilesOK'
    <3>1. /\ UNCHANGED <<op, content, handle, names>> /\ pc[c] = "stat"
          /\ \A d \in Calls : d # c => pc'[d] = pc[d] /\ size'[d] = size[d]
          /\ pc'[c] # "rename"
      BY <1>14 DEF Stat, IInv, Shape
    <3>2. \A f \in Calls : f # c => Length(f)' = Length(f) BY <3>1 DEF Length, Kind
    <3>3. \A f \in Calls : Uploads(f)' = Uploads(f) BY <3>1 DEF Uploads, Kind
    <3>4. ASSUME NEW f \in Calls, Finished(f) PROVE Finished(f)'
      <4>1. f # c BY <3>1, <3>4 DEF Finished
      <4> QED BY <3>1, <3>2, <3>4, <4>1 DEF Finished
    <3>5. ASSUME NEW k \in Keys, names'[k] # None
          PROVE  (/\ op[names[k]] # None /\ Kind(names[k]) \in {"put", "copy", "create"}
                  /\ op[names[k]].key = k
                  /\ Uploads(names[k]) => Finished(names[k]))'
      <4>1. names[k] \in Calls BY <3>1, <3>5 DEF IInv, Shape
      <4>2. /\ op[names[k]] # None /\ Kind(names[k]) \in {"put", "copy", "create"}
            /\ op[names[k]].key = k
            /\ Uploads(names[k]) => Finished(names[k])
        BY <3>1, <3>5 DEF IInv, FilesOK
      <4> QED BY <3>1, <3>3, <3>4, <4>1, <4>2 DEF Uploads, Finished, Kind, Length
    <3>6. ASSUME NEW d \in Calls, handle'[d] # None
          PROVE  (op[handle[d]] # None /\ (Uploads(handle[d]) => Finished(handle[d])))'
      <4>1. handle[d] \in Calls BY <3>1, <3>6 DEF IInv, Shape
      <4>2. op[handle[d]] # None /\ (Uploads(handle[d]) => Finished(handle[d]))
        BY <3>1, <3>6 DEF IInv, FilesOK
      <4> QED BY <3>1, <3>3, <3>4, <4>1, <4>2 DEF Uploads, Finished, Kind, Length
    <3>7. ASSUME NEW d \in Calls, pc'[d] = "rename" PROVE (content[d].len = Length(d))'
      <4>1. d # c /\ pc[d] = "rename" BY <3>1, <3>7
      <4> QED BY <3>1, <3>2, <4>1 DEF IInv, FilesOK
    <3> QED BY <3>5, <3>6, <3>7 DEF FilesOK
  <2>10. OutOK'
    <3>1. out' = out BY <1>14 DEF Stat
    <3>2. \A d \in Calls : pc[d] \in {"stream", "done"} => pc'[d] \in {"stream", "done"}
      BY <1>14 DEF Stat, IInv, Shape
    <3> QED BY <3>1, <3>2, OutKept DEF IInv
  <2> QED BY <2>1, <2>2, <2>3, <2>4, <2>5, <2>6, <2>7, <2>8, <2>9, <2>10 DEF IInv
<1>15. ASSUME NEW c \in Calls, ReadChunk(c) PROVE IInv'
  <2> DEFINE take(m) == AtMost(m - skip[c], rest[c])
             Skipped(m) == /\ skip[c] >= m
                           /\ skip' = [skip EXCEPT ![c] = skip[c] - m]
                           /\ rest' = rest /\ out' = out
             Given(m) == /\ skip[c] < m
                         /\ skip' = [skip EXCEPT ![c] = 0]
                         /\ rest' = [rest EXCEPT ![c] = rest[c] - take(m)]
                         /\ out' = [out EXCEPT ![c] = out[c] \o Bytes(pos[c] + skip[c], take(m))]
             Read(m) == /\ m \in Nat /\ m > 0 /\ pos[c] + m <= size[c]
                        /\ pos' = [pos EXCEPT ![c] = pos[c] + m]
                        /\ Skipped(m) \/ Given(m)
                        /\ UNCHANGED <<pc, res, queue, held>>
             Failed == /\ pc' = [pc EXCEPT ![c] = "done"] /\ res' = [res EXCEPT ![c] = "io"]
                       /\ held' = [held EXCEPT ![c] = 0]
                       /\ UNCHANGED <<queue, pos, skip, rest, out>>
  <2>a. /\ pc[c] = "stream" /\ rest[c] > 0
        /\ UNCHANGED <<op, names, temps, content, handle, size, victim, leaked>>
    BY <1>15 DEF ReadChunk
  <2>b. /\ op[c] \in Requests /\ skip[c] \in Nat /\ rest[c] \in Nat /\ pos[c] \in Nat
        /\ size[c] \in Nat /\ out[c] \in Seq(Nat)
    BY <2>a DEF IInv, Shape, CallOK, OutOK
  <2>c. Failed \/ \E m : Read(m)
    <3>1. CASE UNCHANGED <<pos, skip, rest, out>> /\ Return(c, "io") BY <3>1
    <3>2. CASE \E n \in 1..ChunkSize : /\ pos[c] + n <= size[c]
                                        /\ Deliver(c, n)
                                        /\ pos' = [pos EXCEPT ![c] = @ + n]
                                        /\ UNCHANGED <<pc, res, permits>>
      <4>1. PICK n \in 1..ChunkSize : /\ pos[c] + n <= size[c]
                                      /\ Deliver(c, n)
                                      /\ pos' = [pos EXCEPT ![c] = @ + n]
                                      /\ UNCHANGED <<pc, res, permits>>
        BY <3>2
      <4>2. n \in Nat /\ n > 0 BY SmbAssumption
      <4>3. skip[c] >= n \/ skip[c] < n BY <2>b, <4>2
      <4>4. Skipped(n) \/ Given(n) BY <2>b, <4>1, <4>2, <4>3 DEF Deliver
      <4>5. Read(n) BY <4>1, <4>2, <4>4
      <4> QED BY <4>5
    <3> QED BY <1>15, <3>1, <3>2 DEF ReadChunk
  <2>d. \A m : Read(m) /\ skip[c] < m => take(m) \in Nat /\ rest[c] - take(m) \in Nat
    BY <2>b DEF AtMost
  <2> HIDE DEF take, Skipped, Given, Read, Failed
  <2>1. Shape'
    <3>1. CASE Failed
      BY <2>a, <3>1 DEF Failed, IInv, Shape, Labels
    <3>2. ASSUME NEW m, Read(m) PROVE Shape'
      <4>1. pos' \in [Calls -> Nat] BY <2>b, <3>2 DEF Read, IInv, Shape
      <4>2. skip' \in [Calls -> Nat]
        <5>1. CASE Skipped(m)
          <6>1. skip[c] - m \in Nat BY <2>b, <3>2, <5>1 DEF Read, Skipped
          <6> QED BY <5>1, <6>1 DEF Skipped, IInv, Shape
        <5>2. CASE Given(m) BY <5>2 DEF Given, IInv, Shape
        <5> QED BY <3>2, <5>1, <5>2 DEF Read
      <4>3. rest' \in [Calls -> Nat]
        <5>1. CASE Skipped(m) BY <5>1 DEF Skipped, IInv, Shape
        <5>2. CASE Given(m)
          <6>1. rest[c] - take(m) \in Nat BY <2>d, <3>2, <5>2 DEF Given
          <6> QED BY <5>2, <6>1 DEF Given, IInv, Shape
        <5> QED BY <3>2, <5>1, <5>2 DEF Read
      <4> QED BY <2>a, <3>2, <4>1, <4>2, <4>3 DEF Read, IInv, Shape
    <3> QED BY <2>c, <3>1, <3>2
  <2>x. /\ \A d \in Calls : d # c => /\ pc'[d] = pc[d] /\ res'[d] = res[d] /\ pos'[d] = pos[d]
                                      /\ held'[d] = held[d] /\ skip'[d] = skip[d]
                                      /\ rest'[d] = rest[d] /\ out'[d] = out[d]
        /\ pc'[c] \in {"stream", "done"} /\ queue' = queue
        /\ pc'[c] = "done" => res'[c] = "io" /\ held'[c] = 0
        /\ pc'[c] = "stream" => res'[c] = res[c] /\ held'[c] = held[c]
    <3>1. CASE Failed BY <2>a, <3>1 DEF Failed, IInv, Shape
    <3>2. ASSUME NEW m, Read(m)
          PROVE  /\ UNCHANGED <<pc, res, queue, held>>
                 /\ \A d \in Calls : d # c => /\ pos'[d] = pos[d] /\ skip'[d] = skip[d]
                                               /\ rest'[d] = rest[d]
      BY <3>2 DEF Read, Skipped, Given, IInv, Shape
    <3>3. ASSUME NEW m, Read(m), NEW d \in Calls, d # c PROVE out'[d] = out[d]
      BY <3>3, Zenon DEF Read, Skipped, Given, IInv, OutOK
    <3> QED BY <2>a, <2>c, <3>1, <3>2, <3>3
  <2>2. QueueOK' BY <2>a, <2>x DEF IInv, QueueOK
  <2>3. PermitsFit'
    <3>1. \A d \in Calls : held'[d] <= held[d] BY <2>x DEF IInv, Shape
    <3> QED BY <2>1, <3>1, UsedFalls DEF IInv, Shape, PermitsFit
  <2>4. ASSUME NEW d \in Calls PROVE CallOK(d)' BY <2>a, <2>x DEF IInv, CallOK
  <2>5. ASSUME NEW d \in Calls PROVE PermitsOK(d)' BY <2>a, <2>x DEF IInv, PermitsOK
  <2>6. ASSUME NEW d \in Calls PROVE ReaderOK(d)'
    <3>1. handle[d] # None => Length(handle[d])' = Length(handle[d]) BY <2>a DEF Length
    <3>2. CASE d # c
      BY <2>a, <2>x, <3>1, <3>2 DEF IInv, ReaderOK, Uploads
    <3>3. CASE d = c /\ Failed
      <4>1. pc'[c] = "done" /\ res'[c] = "io" BY <3>3 DEF Failed, IInv, Shape
      <4> QED BY <3>3, <4>1 DEF ReaderOK
    <3>4. ASSUME d = c, NEW m, Read(m) PROVE ReaderOK(d)'
      <4>1. InStep(op[c], size[c], pos'[c], skip'[c], rest'[c], out'[c])
        <5> DEFINE f == First(op[c])
                   n == Count(op[c], size[c])
        <5>1. f \in Nat /\ n \in Nat BY <2>a, <2>b, StreamBounds
        <5>2. Streamed(f, n, size[c], pos[c], skip[c], rest[c], out[c])
          BY <2>a DEF IInv, ReaderOK, InStep
        <5> HIDE DEF f, n
        <5>3. m \in Nat /\ m > 0 /\ pos[c] + m <= size[c] /\ pos'[c] = pos[c] + m
          BY <3>4 DEF Read, IInv, Shape
        <5>4. /\ skip[c] >= m => Streamed(f, n, size[c], pos[c] + m, skip[c] - m, rest[c], out[c])
              /\ skip[c] < m => Streamed(f, n, size[c], pos[c] + m, 0, rest[c] - take(m),
                                         out[c] \o Bytes(pos[c] + skip[c], take(m)))
          BY <2>a, <2>b, <5>1, <5>2, <5>3, DeliverStreamed DEF take
        <5>5. CASE Skipped(m)
          <6>1. skip'[c] = skip[c] - m /\ rest'[c] = rest[c] BY <5>5 DEF Skipped, IInv, Shape
          <6>2. skip[c] >= m /\ out'[c] = out[c] BY <5>5 DEF Skipped
          <6> QED BY <5>3, <5>4, <6>1, <6>2 DEF InStep, f, n
        <5>6. CASE Given(m)
          <6>1. skip'[c] = 0 /\ rest'[c] = rest[c] - take(m) BY <5>6 DEF Given, IInv, Shape
          <6>2. skip[c] < m BY <5>6 DEF Given
          <6>3. out'[c] = out[c] \o Bytes(pos[c] + skip[c], take(m))
            BY <5>6, Zenon DEF Given, IInv, OutOK
          <6> QED BY <5>3, <5>4, <6>1, <6>2, <6>3 DEF InStep, f, n
        <5> QED BY <3>4, <5>5, <5>6 DEF Read
      <4>2. pc'[c] = "stream" /\ res'[c] # "ok" BY <2>a, <3>4 DEF Read, IInv, CallOK
      <4> QED BY <2>a, <3>1, <3>4, <4>1, <4>2 DEF IInv, ReaderOK, Uploads
    <3> QED BY <2>c, <3>2, <3>3, <3>4
  <2>7. ASSUME NEW d \in Calls PROVE OwnerOK(d)'
    <3>1. Length(d)' = Length(d) BY <2>a DEF Length
    <3> QED BY <2>a, <2>x, <3>1 DEF IInv, CallOK, OwnerOK, Exclusive
  <2>8. ASSUME NEW d \in Calls PROVE TempOK(d)'
    BY <2>a, <2>x DEF IInv, TempOK, Uploads
  <2>9. FilesOK'
    <3>2. \A k \in Keys : names'[k] \in {names[k], None} BY <2>a
    <3>3. \A d \in Calls :
            \/ pc'[d] = pc[d]
            \/ pc'[d] # "rename" /\ (pc[d] \in {"rmTemp", "done"} => pc'[d] \in {"rmTemp", "done"})
      BY <2>a, <2>x
    <3> QED BY <2>a, <3>2, <3>3, FilesKept DEF IInv
  <2>10. OutOK'
    <3>1. out' \in [Calls -> Seq(Nat)]
      <4>1. CASE out' = out BY <4>1 DEF IInv, OutOK
      <4>2. ASSUME NEW m, Read(m), Given(m) PROVE out' \in [Calls -> Seq(Nat)]
        <5>1. Bytes(pos[c] + skip[c], take(m)) \in Seq(Nat)
          <6>1. pos[c] + skip[c] \in Nat /\ take(m) \in Nat BY <2>b, <2>d, <4>2 DEF Given
          <6> QED BY <6>1, BytesShape
        <5>2. out[c] \o Bytes(pos[c] + skip[c], take(m)) \in Seq(Nat)
          BY <2>b, <5>1, ConcatProperties
        <5> QED BY <4>2, <5>2, Zenon DEF Given, IInv, OutOK
      <4> QED BY <2>c, <4>1, <4>2 DEF Read, Skipped, Failed
    <3>2. ASSUME NEW d \in Calls, pc'[d] \notin {"stream", "done"} PROVE out'[d] = <<>>
      <4>1. d # c /\ pc[d] \notin {"stream", "done"} BY <2>x, <3>2
      <4> QED BY <2>x, <4>1 DEF IInv, OutOK
    <3> QED BY <3>1, <3>2 DEF OutOK
  <2> QED BY <2>1, <2>2, <2>3, <2>4, <2>5, <2>6, <2>7, <2>8, <2>9, <2>10 DEF IInv
<1>16. ASSUME NEW c \in Calls, EndRead(c) PROVE IInv'
  <2>a. /\ pc[c] = "stream" /\ (rest[c] = 0 \/ pos[c] >= size[c])
        /\ UNCHANGED <<op, names, temps, content, handle, size, pos, skip, rest, out>>
        /\ UNCHANGED <<queue, victim, leaked>>
    BY <1>16 DEF EndRead
  <2>b. /\ pc' = [pc EXCEPT ![c] = "done"] /\ held' = [held EXCEPT ![c] = 0]
        /\ \E r \in {"ok", "io"} : res' = [res EXCEPT ![c] = r]
    BY <1>16 DEF EndRead
  <2>1. Shape' BY <2>a, <2>b DEF IInv, Shape, Labels
  <2>2. QueueOK'
    BY <1>16 DEF EndRead, IInv, Shape, CallOK, QueueOK
  <2>3. PermitsFit'
    <3>1. \A d \in Calls : held'[d] <= held[d]
      BY <1>16 DEF EndRead, IInv, Shape, CallOK, PermitsOK
    <3> QED BY <2>1, <3>1, UsedFalls DEF IInv, Shape, PermitsFit
  <2>4. ASSUME NEW d \in Calls PROVE CallOK(d)'
    BY <1>16 DEF EndRead, IInv, Shape, CallOK
  <2>5. ASSUME NEW d \in Calls PROVE PermitsOK(d)'
    BY <1>16 DEF EndRead, IInv, Shape, CallOK, PermitsOK
  <2>6. ASSUME NEW d \in Calls PROVE ReaderOK(d)'
    <3>1. /\ Uploads(handle[d])' = Uploads(handle[d])
          /\ handle[d] # None => Length(handle[d])' = Length(handle[d])
      BY <2>a DEF Uploads, Length
    <3>2. CASE d # c
      <4>1. pc'[d] = pc[d] /\ res'[d] = res[d] BY <2>b, <3>2 DEF IInv, Shape
      <4> QED BY <2>a, <3>1, <4>1 DEF IInv, ReaderOK
    <3>3. CASE d = c
      <4>1. pc'[c] = "done" BY <2>b DEF IInv, Shape
      <4>2. Exact(op[c], size[c], out[c])
        <5>1. InStep(op[c], size[c], pos[c], skip[c], rest[c], out[c]) BY <2>a DEF IInv, ReaderOK
        <5>2. size[c] \in Nat /\ pos[c] \in Nat BY DEF IInv, Shape
        <5>3. First(op[c]) \in Nat /\ Count(op[c], size[c]) \in Nat
          BY <2>a, <5>2, StreamBounds
        <5> QED BY <2>a, <5>1, <5>2, <5>3, StreamedExact DEF InStep, Exact
      <4>3. handle[c] # None /\ Uploads(handle[c]) => size[c] = Length(handle[c])
        BY <2>a DEF IInv, ReaderOK
      <4> QED BY <2>a, <3>1, <3>3, <4>1, <4>2, <4>3 DEF ReaderOK
    <3> QED BY <3>2, <3>3
  <2>7. ASSUME NEW d \in Calls PROVE OwnerOK(d)'
    BY <1>16 DEF EndRead, IInv, Shape, CallOK, OwnerOK, Exclusive, Length, FilesOK
  <2>8. ASSUME NEW d \in Calls PROVE TempOK(d)'
    BY <1>16 DEF EndRead, IInv, Shape, CallOK, TempOK, Uploads
  <2>9. FilesOK'
    <3>1. UNCHANGED <<op, content, size, handle>> BY <1>16 DEF EndRead
    <3>2. \A k \in Keys : names'[k] \in {names[k], None}
      BY <1>16 DEF EndRead, IInv, Shape, CallOK
    <3>3. \A d \in Calls :
            \/ pc'[d] = pc[d]
            \/ pc'[d] # "rename" /\ (pc[d] \in {"rmTemp", "done"} => pc'[d] \in {"rmTemp", "done"})
      BY <1>16 DEF EndRead, IInv, Shape, CallOK
    <3> QED BY <3>1, <3>2, <3>3, FilesKept DEF IInv
  <2>10. OutOK'
    <3>1. out' = out BY <1>16 DEF EndRead
    <3>2. \A d \in Calls : pc[d] \in {"stream", "done"} => pc'[d] \in {"stream", "done"}
      BY <1>16 DEF EndRead, IInv, Shape
    <3> QED BY <3>1, <3>2, OutKept DEF IInv
  <2> QED BY <2>1, <2>2, <2>3, <2>4, <2>5, <2>6, <2>7, <2>8, <2>9, <2>10 DEF IInv
<1>17. ASSUME NEW c \in Calls, HeadBlob(c) PROVE IInv'
  <2>1. Shape'
    BY <1>17 DEF HeadBlob, IInv, Shape, CallOK, Labels, PermitsOK
  <2>2. QueueOK'
    BY <1>17 DEF HeadBlob, IInv, Shape, CallOK, QueueOK
  <2>3. PermitsFit'
    <3>1. \A d \in Calls : held'[d] <= held[d]
      BY <1>17 DEF HeadBlob, IInv, Shape, CallOK, PermitsOK
    <3> QED BY <2>1, <3>1, UsedFalls DEF IInv, Shape, PermitsFit
  <2>4. ASSUME NEW d \in Calls PROVE CallOK(d)'
    BY <1>17 DEF HeadBlob, IInv, Shape, CallOK
  <2>5. ASSUME NEW d \in Calls PROVE PermitsOK(d)'
    BY <1>17 DEF HeadBlob, IInv, Shape, CallOK, PermitsOK
  <2>6. ASSUME NEW d \in Calls PROVE ReaderOK(d)'
    BY <1>17 DEF HeadBlob, IInv, Shape, CallOK, ReaderOK, FilesOK, Finished, Uploads, Length
  <2>7. ASSUME NEW d \in Calls PROVE OwnerOK(d)'
    BY <1>17 DEF HeadBlob, IInv, Shape, CallOK, OwnerOK, Exclusive, Length, FilesOK
  <2>8. ASSUME NEW d \in Calls PROVE TempOK(d)'
    BY <1>17 DEF HeadBlob, IInv, Shape, CallOK, TempOK, Uploads
  <2>9. FilesOK'
    <3>1. UNCHANGED <<op, content, size, handle>> BY <1>17 DEF HeadBlob
    <3>2. \A k \in Keys : names'[k] \in {names[k], None}
      BY <1>17 DEF HeadBlob, IInv, Shape, CallOK
    <3>3. \A d \in Calls :
            \/ pc'[d] = pc[d]
            \/ pc'[d] # "rename" /\ (pc[d] \in {"rmTemp", "done"} => pc'[d] \in {"rmTemp", "done"})
      BY <1>17 DEF HeadBlob, IInv, Shape, CallOK
    <3> QED BY <3>1, <3>2, <3>3, FilesKept DEF IInv
  <2>10. OutOK'
    <3>1. out' = out BY <1>17 DEF HeadBlob
    <3>2. \A d \in Calls : pc[d] \in {"stream", "done"} => pc'[d] \in {"stream", "done"}
      BY <1>17 DEF HeadBlob, IInv, Shape
    <3> QED BY <3>1, <3>2, OutKept DEF IInv
  <2> QED BY <2>1, <2>2, <2>3, <2>4, <2>5, <2>6, <2>7, <2>8, <2>9, <2>10 DEF IInv
<1>18. ASSUME NEW c \in Calls, Interrupt(c) PROVE IInv'
  <2>1. Shape'
    BY <1>18 DEF Interrupt, IInv, Shape, CallOK, Labels, PermitsOK
  <2>2. QueueOK'
    <3>1. /\ queue' \in Seq(Calls) /\ OnceEach(queue')
          /\ \A d : Waits(queue', d) <=> Waits(queue, d) /\ d # c
      BY <1>18, LeaveQueue DEF Interrupt, IInv, QueueOK
    <3> QED BY <1>18, <3>1 DEF Interrupt, IInv, Shape, QueueOK
  <2>3. PermitsFit'
    <3>1. \A d \in Calls : held'[d] <= held[d]
      BY <1>18 DEF Interrupt, IInv, Shape, CallOK, PermitsOK
    <3> QED BY <2>1, <3>1, UsedFalls DEF IInv, Shape, PermitsFit
  <2>4. ASSUME NEW d \in Calls PROVE CallOK(d)'
    BY <1>18 DEF Interrupt, IInv, Shape, CallOK
  <2>5. ASSUME NEW d \in Calls PROVE PermitsOK(d)'
    BY <1>18 DEF Interrupt, IInv, Shape, CallOK, PermitsOK
  <2>6. ASSUME NEW d \in Calls PROVE ReaderOK(d)'
    BY <1>18 DEF Interrupt, IInv, Shape, CallOK, ReaderOK, FilesOK, Finished, Uploads,
       Length
  <2>7. ASSUME NEW d \in Calls PROVE OwnerOK(d)'
    BY <1>18 DEF Interrupt, IInv, Shape, CallOK, OwnerOK, Exclusive, Length, FilesOK
  <2>8. ASSUME NEW d \in Calls PROVE TempOK(d)'
    BY <1>18 DEF Interrupt, IInv, Shape, CallOK, TempOK, Uploads
  <2>9. FilesOK'
    BY <1>18 DEF Interrupt, IInv, Shape, CallOK, FilesOK, Finished, Uploads, Length,
       ReaderOK
  <2>10. OutOK'
    <3>1. out' = out BY <1>18 DEF Interrupt
    <3>2. \A d \in Calls : pc[d] \in {"stream", "done"} => pc'[d] \in {"stream", "done"}
      BY <1>18 DEF Interrupt, IInv, Shape
    <3> QED BY <3>1, <3>2, OutKept DEF IInv
  <2> QED BY <2>1, <2>2, <2>3, <2>4, <2>5, <2>6, <2>7, <2>8, <2>9, <2>10 DEF IInv
<1>19. CASE UNCHANGED vars
  <2>1. Shape' /\ QueueOK' /\ PermitsFit' /\ FilesOK'
    BY <1>19 DEF vars, IInv, Shape, QueueOK, PermitsFit, Used, FilesOK, Finished, Uploads, Length
  <2>2. ASSUME NEW d \in Calls PROVE (CallOK(d) /\ PermitsOK(d) /\ TempOK(d))'
    BY <1>19 DEF vars, IInv, CallOK, PermitsOK, TempOK, Uploads
  <2>3. ASSUME NEW d \in Calls PROVE (ReaderOK(d) /\ OwnerOK(d))'
    BY <1>19 DEF vars, IInv, ReaderOK, OwnerOK, Exclusive, Finished, Uploads, Length
  <2>4. OutOK' BY <1>19, OutKept DEF vars, IInv
  <2> QED BY <2>1, <2>2, <2>3, <2>4 DEF IInv
<1> QED
  BY <1>1, <1>2, <1>3, <1>4, <1>5, <1>6, <1>7, <1>8, <1>9, <1>10, <1>11, <1>12, <1>13,
     <1>14, <1>15, <1>16, <1>17, <1>18, <1>19 DEF Next, Step, Quiescent

-----------------------------------------------------------------------------
(* What follows.                                                            *)

\* While every permit is with a call that waits or has ended, at most the
\* copies hold one each.
LEMMA WaitersHoldFew ==
  ASSUME IInv, \A c \in Calls : held[c] > 0 => pc[c] \in {"waiting", "done"}
  PROVE  Used <= Cardinality(Copiers)
<1>1. ASSUME NEW c \in Calls, held[c] > 0 PROVE c \in Copiers /\ held[c] = 1
  <2>1. pc[c] = "waiting" /\ handle[c] # None /\ held[c] = 1
    BY <1>1 DEF IInv, Shape, PermitsOK
  <2>2. Kind(c) = "copy" /\ op[c] # None BY <2>1 DEF IInv, CallOK
  <2> QED BY <2>1, <2>2 DEF IInv, CallOK
<1>2. Slots(held) \subseteq Copiers \X {1} BY <1>1 DEF Slots, IInv, Shape
<1>3. IsFiniteSet(Copiers) /\ Cardinality(Copiers) \in Nat
  BY SmbAssumption, FS_Subset, FS_CardinalityType
<1>4. IsFiniteSet({1}) /\ Cardinality({1}) = 1 BY FS_Singleton
<1>5. IsFiniteSet(Copiers \X {1}) /\ Cardinality(Copiers \X {1}) = Cardinality(Copiers)
  <2>1. /\ IsFiniteSet(Copiers \X {1})
        /\ Cardinality(Copiers \X {1}) = Cardinality(Copiers) * Cardinality({1})
    BY <1>3, <1>4, FS_Product
  <2> QED BY <1>3, <1>4, <2>1
<1>6. Cardinality(Slots(held)) <= Cardinality(Copiers \X {1}) BY <1>2, <1>5, FS_Subset
<1>7. Used = Cardinality(Slots(held)) BY DEF Used, Slots
<1> QED BY <1>5, <1>6, <1>7

\* The invariant implies the properties.
LEMMA IInvImplies ==
  IInv => TypeOK /\ RenamedFilesAreWhole /\ OneConditionalWinner /\ TempsAccounted
<1> SUFFICES ASSUME IInv
             PROVE  TypeOK /\ RenamedFilesAreWhole /\ OneConditionalWinner /\ TempsAccounted
  OBVIOUS
<1>1. TypeOK
  <2>1. \A v \in {size, pos, skip, rest} : v \in [Calls -> Nat] BY DEF IInv, Shape
  <2> QED BY <2>1 DEF IInv, Shape, QueueOK, PermitsFit, OutOK, TypeOK
<1>2. RenamedFilesAreWhole
  <2>1. ASSUME NEW f \in Calls, Uploads(f), NEW k \in Keys, names[k] = f
        PROVE  content[f].len = Length(f)
    BY <2>1, SmbAssumption DEF IInv, FilesOK, Finished
  <2>2. ASSUME NEW f \in Calls, Uploads(f), NEW c \in Calls, handle[c] = f,
               Kind(c) \in {"get", "range"}, res[c] = "ok"
        PROVE  LET from == AtMost(Lo(c), Length(f))
                   to == AtMost(Lo(c) + Wanted(c, Length(f)), Length(f))
               IN out[c] = Bytes(from, to - from) /\ SizeHint(c) = to - from
    <3>1. size[c] = Length(f) /\ Exact(op[c], size[c], out[c])
      BY <2>2, SmbAssumption DEF IInv, ReaderOK
    <3> QED BY <3>1 DEF Exact, First, Count, Lo, Wanted, SizeHint, Kind
  <2> QED BY <2>1, <2>2 DEF RenamedFilesAreWhole, Uploads
<1>3. OneConditionalWinner
  BY DEF IInv, OwnerOK, Exclusive, OneConditionalWinner, Kind
<1>4. TempsAccounted BY DEF IInv, Shape, TempOK, TempsAccounted
<1> QED BY <1>1, <1>2, <1>3, <1>4

\* The invariant holds in every reachable state.
LEMMA Invariant == Spec => []IInv
BY InitIInv, NextIInv, PTL DEF Spec

\* Every variable of the SMB store has its type, transfer_permit's queue has
\* exactly the calls that wait, once each, and no more than
\* max_transfer_concurrency permits are out.
THEOREM TypeCorrect == Spec => []TypeOK
BY Invariant, IInvImplies, PTL

\* put_blob and copy_blob publish whole files, get_blob streams all of one, and
\* get_blob_range the bytes asked for, however the reads cut the file.
THEOREM RenamesWhole == Spec => []RenamedFilesAreWhole
BY Invariant, IInvImplies, PTL

\* put_blob_if_not_exists is a lock on a key that only conditional writes
\* address: whoever is acknowledged has its whole file there.
THEOREM ConditionalWinner == Spec => []OneConditionalWinner
BY Invariant, IInvImplies, PTL

\* Upload files of ended calls are in leaked: their removal failed or the call
\* was dropped.
THEOREM TempsNotForgotten == Spec => []TempsAccounted
BY Invariant, IInvImplies, PTL

\* With fewer copies than permits some permit is free or with a call that can
\* go on, however calls and copies interleave at the semaphore.
THEOREM TransfersProgress ==
  ASSUME Cardinality(Copiers) < MaxTransfers
  PROVE  Spec => []NoTransferDeadlock
<1>1. ASSUME IInv PROVE NoTransferDeadlock
  <2>1. CASE \A c \in Calls : held[c] > 0 => pc[c] \in {"waiting", "done"}
    <3>1. Used <= Cardinality(Copiers) BY <1>1, <2>1, WaitersHoldFew
    <3>2. Cardinality(Copiers) \in Nat BY SmbAssumption, FS_Subset, FS_CardinalityType
    <3>3. Used \in Nat
      <4>1. Used = Cardinality(Slots(held)) BY DEF Used, Slots
      <4> QED BY <4>1, SlotsFinite
    <3> QED BY <3>1, <3>2, <3>3, SmbAssumption DEF NoTransferDeadlock
  <2>2. CASE \E c \in Calls : held[c] > 0 /\ pc[c] \notin {"waiting", "done"}
    BY <2>2 DEF NoTransferDeadlock
  <2> QED BY <2>1, <2>2
<1> QED BY <1>1, Invariant, PTL
=============================================================================
