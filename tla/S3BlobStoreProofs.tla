-------------------------- MODULE S3BlobStoreProofs -------------------------
(***************************************************************************)
(* Proofs about S3BlobStore, for any calls, keys, prefix, part size, body  *)
(* lengths, number of attempts and number of lost replies.                 *)
(***************************************************************************)
EXTENDS S3BlobStore, SequenceTheorems, TLAPS

Puts(c) == op[c] # None /\ Kind(c) \in {"put", "create"}
Reads(c) == Kind(c) = "get" \/ (Kind(c) = "range" /\ ~Empty(op[c].range))
PutSteps == {"read", "upload", "part", "tail", "complete", "abort", "single"}

\* What the program counter of a call says of its request and its result.
CallOK(c) ==
  /\ pc[c] = "idle" <=> op[c] = None
  /\ pc[c] \in PutSteps => Puts(c)
  /\ pc[c] = "copy" => Kind(c) = "copy"
  /\ pc[c] = "delete" => Kind(c) = "delete"
  /\ pc[c] = "list" => Kind(c) = "list"
  /\ pc[c] = "head" => Kind(c) = "head" \/ (Kind(c) = "range" /\ Empty(op[c].range))
  /\ pc[c] \in {"get", "stream"} => Reads(c)
  /\ pc[c] = "refuse" => Kind(c) = "range" /\ Inverted(op[c].range)
  /\ pc[c] = "stream" => seen[c] # None
  /\ pc[c] \notin {"abort", "done"} => res[c] = "none"
  /\ pc[c] = "abort" => res[c] \in {"exists", "io"}

\* The bookkeeping of put_blob_inner: what has been read is in the buffer or in
\* acknowledged parts, and whole parts leave the buffer before the next read.
BodyOK(c) ==
  /\ ~Puts(c) => mine[c] = None /\ buffer[c] = 0
  /\ mine[c] = None => sent[c] = 0 /\ next[c] = 1
  /\ mine[c] # None => mine[c][1] = c
  /\ Puts(c) => sent[c] + buffer[c] <= Size(c)
  /\ pc[c] = "read" => buffer[c] < PartSize /\ (mine[c] # None => next[c] > 1)
  /\ pc[c] = "upload" => mine[c] = None /\ buffer[c] >= PartSize
  /\ pc[c] = "part" => mine[c] # None /\ buffer[c] >= PartSize
  /\ pc[c] \in {"single", "tail"} => buffer[c] < PartSize /\ sent[c] + buffer[c] = Size(c)
  /\ pc[c] = "single" => mine[c] = None
  /\ pc[c] = "tail" => mine[c] # None
  /\ pc[c] \in {"complete", "abort"} => mine[c] # None /\ sent[c] = Size(c) /\ next[c] > 1

\* The first n of the pieces p follow one another from byte 0 to byte s.
Chain(p, n, s) ==
  /\ n <= Len(p)
  /\ IF n = 0 THEN s = 0 ELSE p[1][1] = 0 /\ p[n][2] = s
  /\ \A i \in 2..n : p[i][1] = p[i - 1][2]

\* The acknowledged parts follow one another to the last byte that was sent.
PartsOK(c) == Chain(parts[c], next[c] - 1, sent[c])

LateRequests ==
  [call : Calls, step : WriteSteps, try : Nat, id : Ids \cup {None},
   n : Nat \ {0}, piece : Nat \X Nat]

\* What a request without reply would do if it were carried out now: repeat an
\* acknowledged part or the part that is being sent, complete an upload that
\* has all of its parts, abort one that is not needed any more.
LateOK(r) ==
  LET c == r.call IN
  /\ op[c] # None
  /\ r.step = "upload" =>
       /\ r.id = <<c, r.try>> /\ r.id # mine[c]
       /\ mine[c] # None \/ pc[c] \in {"upload", "done"}
       /\ pc[c] = "upload" => r.try < tries[c]
  /\ r.step \in {"part", "tail"} =>
       /\ r.n <= next[c]
       /\ r.n < next[c] => parts[c][r.n] = r.piece
       /\ r.n = next[c] =>
            \/ pc[c] = "done"
            \/ pc[c] \in {"part", "tail"} /\ r.piece = <<sent[c], sent[c] + PartLen(c)>>
  /\ r.step = "complete" =>
       /\ Puts(c) /\ pc[c] \in {"complete", "abort", "done"}
       /\ r.id = mine[c] /\ mine[c] # None /\ sent[c] = Size(c) /\ next[c] > 1
  /\ r.step = "abort" => r.id = mine[c] /\ mine[c] # None /\ pc[c] \in {"abort", "done"}
  /\ r.step = "single" => Puts(c) /\ r.piece = <<0, Size(c)>>
  /\ r.step \in {"copy", "delete"} => Kind(c) = r.step

\* An upload is open as long as parts may be sent to it; when it is gone at the
\* completion, the completion has been carried out before.
OpenOK(c) ==
  /\ mine[c] # None /\ pc[c] \in {"read", "part", "tail"} => mine[c] \in uploads
  /\ pc[c] = "complete" => mine[c] \in uploads \/ c \in landed

\* An object holds the whole body of a put.
Cut(o, s) == Len(o.pieces) > 0 /\ Chain(o.pieces, Len(o.pieces), s)
ObjectOK(o) == o # None => o \in Objects /\ Puts(o.by) /\ Cut(o, Size(o.by))

\* Nobody but conditional puts has been asked to change key k.
Exclusive(k) ==
  \A d \in Calls : op[d] # None /\ Kind(d) \in {"put", "copy", "delete"} => Key(d) # k

\* A conditional put that has been carried out at such a key still holds it.
WinnerOK(c) ==
  /\ op[c] # None /\ Kind(c) = "create" /\ Exclusive(Key(c)) =>
       /\ c \in landed => objects[Key(c)] # None /\ objects[Key(c)].by = c
       /\ res[c] = "exists" => objects[Key(c)] # None
  /\ Puts(c) /\ res[c] = "ok" => c \in landed
  /\ c \in landed => op[c] # None

IInv ==
  /\ TypeOK /\ late \subseteq LateRequests
  /\ \A c \in Calls : CallOK(c) /\ BodyOK(c) /\ PartsOK(c) /\ OpenOK(c) /\ WinnerOK(c)
  /\ \A r \in late : LateOK(r)
  /\ \A k \in Keys : ObjectOK(objects[k])
  /\ \A c \in Calls : ObjectOK(seen[c])
  /\ UploadsAccounted
-----------------------------------------------------------------------------
(* Pieces.                                                                  *)

\* The part list with x as part number n, as StorePart leaves it.
Stored(p, n, x) == [i \in 1..(IF n > Len(p) THEN n ELSE Len(p)) |-> IF i = n THEN x ELSE p[i]]

\* Storing a part, old or next, leaves a part list with the others unchanged.
LEMMA StoredSeq ==
  ASSUME NEW p \in Seq(Nat \X Nat), NEW n \in 1..(Len(p) + 1), NEW x \in Nat \X Nat
  PROVE  /\ Stored(p, n, x) \in Seq(Nat \X Nat)
         /\ Len(Stored(p, n, x)) >= n /\ Len(Stored(p, n, x)) >= Len(p)
         /\ Stored(p, n, x)[n] = x
         /\ \A i \in 1..Len(p) : i # n => Stored(p, n, x)[i] = p[i]
<1> DEFINE m == IF n > Len(p) THEN n ELSE Len(p)
<1>1. m \in Nat /\ Len(p) \in Nat /\ \A i \in 1..Len(p) : p[i] \in Nat \X Nat OBVIOUS
<1>2. \A i \in 1..m : (IF i = n THEN x ELSE p[i]) \in Nat \X Nat BY <1>1
<1>3. Stored(p, n, x) = [i \in 1..m |-> IF i = n THEN x ELSE p[i]] BY DEF Stored
<1>4. m >= n /\ m >= Len(p) /\ n \in 1..m BY <1>1
<1> HIDE DEF m
<1>5. Stored(p, n, x) \in Seq(Nat \X Nat) /\ Len(Stored(p, n, x)) = m
  BY <1>1, <1>2, <1>3, IsASeq, LenProperties
<1>6. Stored(p, n, x)[n] = x BY <1>3, <1>4
<1>7. ASSUME NEW i \in 1..Len(p), i # n PROVE Stored(p, n, x)[i] = p[i]
  <2>1. i \in 1..m BY <1>1, <1>4
  <2> QED BY <1>3, <1>7, <2>1
<1> QED BY <1>4, <1>5, <1>6, <1>7

\* Storing a part once more changes nothing.
LEMMA StoredAgain ==
  ASSUME NEW p \in Seq(Nat \X Nat), NEW n \in 1..Len(p), NEW x, p[n] = x
  PROVE  Stored(p, n, x) = p
<1>1. Len(p) \in Nat /\ DOMAIN p = 1..Len(p) OBVIOUS
<1>2. p = [i \in 1..Len(p) |-> p[i]] BY <1>1
<1>3. ~(n > Len(p)) BY <1>1
<1>4. Stored(p, n, x) = [i \in 1..Len(p) |-> IF i = n THEN x ELSE p[i]] BY <1>3 DEF Stored
<1>5. \A i \in 1..Len(p) : (IF i = n THEN x ELSE p[i]) = p[i] OBVIOUS
<1> QED BY <1>2, <1>4, <1>5

\* A part beyond the acknowledged ones does not disturb them.
LEMMA ChainBeyond ==
  ASSUME NEW p \in Seq(Nat \X Nat), NEW n \in Nat \ {0}, NEW s \in Nat, Chain(p, n - 1, s),
         NEW x \in Nat \X Nat
  PROVE  /\ n \in 1..(Len(p) + 1)
         /\ Chain(Stored(p, n, x), n - 1, s)
         /\ \A i \in 1..(n - 1) : Stored(p, n, x)[i] = p[i]
<1> DEFINE q == Stored(p, n, x)
<1>1. Len(p) \in Nat /\ n - 1 <= Len(p) BY DEF Chain
<1>2. n \in 1..(Len(p) + 1) BY <1>1
<1>3. q \in Seq(Nat \X Nat) /\ Len(q) >= n /\ \A i \in 1..Len(p) : i # n => q[i] = p[i]
  BY <1>2, StoredSeq
<1> HIDE DEF q
<1>4. Len(q) \in Nat /\ Len(q) >= n /\ \A i \in 1..(n - 1) : q[i] = p[i] BY <1>1, <1>3
<1>5. n - 1 # 0 => q[1] = p[1] /\ q[n - 1] = p[n - 1] BY <1>4
<1>6. ASSUME NEW i \in 2..(n - 1) PROVE q[i][1] = q[i - 1][2]
  <2>1. i \in 1..(n - 1) /\ i - 1 \in 1..(n - 1) OBVIOUS
  <2> QED BY <1>4, <2>1 DEF Chain
<1>7. Chain(q, n - 1, s) BY <1>4, <1>5, <1>6 DEF Chain
<1> QED BY <1>2, <1>4, <1>7 DEF q

\* The next part, from where the last one ended, extends them.
LEMMA ChainNext ==
  ASSUME NEW p \in Seq(Nat \X Nat), NEW n \in Nat \ {0}, NEW s \in Nat, Chain(p, n - 1, s),
         NEW t \in Nat
  PROVE  Chain(Stored(p, n, <<s, t>>), n, t)
<1> DEFINE x == <<s, t>>
           q == Stored(p, n, x)
<1>1. x[1] = s /\ x[2] = t OBVIOUS
<1>9. x \in Nat \X Nat OBVIOUS
<1> HIDE DEF x
<1>2. Len(p) \in Nat /\ n - 1 <= Len(p) BY DEF Chain
<1>3. n \in 1..(Len(p) + 1) BY <1>2
<1>4. q \in Seq(Nat \X Nat) /\ Len(q) >= n /\ q[n] = x
  <2>1. ASSUME NEW m \in 1..(Len(p) + 1), NEW y \in Nat \X Nat
        PROVE  Stored(p, m, y) \in Seq(Nat \X Nat) /\ Len(Stored(p, m, y)) >= m /\ Stored(p, m, y)[m] = y
    BY StoredSeq
  <2> QED BY <1>3, <1>9, <2>1
<1>5. \A i \in 1..(n - 1) : q[i] = p[i] BY <1>9, ChainBeyond
<1> HIDE DEF q
<1>6. q[1][1] = 0
  <2>1. CASE n = 1 BY <1>1, <1>4, <2>1 DEF Chain
  <2>2. CASE n # 1
    <3>1. q[1] = p[1] /\ n - 1 # 0 BY <1>5, <2>2
    <3> QED BY <3>1 DEF Chain
  <2> QED BY <2>1, <2>2
<1>7. ASSUME NEW i \in 2..n PROVE q[i][1] = q[i - 1][2]
  <2>1. CASE i = n
    <3>1. n - 1 # 0 /\ q[i - 1] = p[n - 1] BY <1>5, <2>1
    <3>2. p[n - 1][2] = s BY <3>1 DEF Chain
    <3> QED BY <1>1, <1>4, <2>1, <3>1, <3>2
  <2>2. CASE i # n
    <3>1. i \in 2..(n - 1) /\ i \in 1..(n - 1) /\ i - 1 \in 1..(n - 1) BY <2>2
    <3> QED BY <1>5, <3>1 DEF Chain
  <2> QED BY <2>1, <2>2
<1>8. Chain(q, n, t) BY <1>1, <1>4, <1>6, <1>7 DEF Chain
<1> QED BY <1>8 DEF q, x

\* A completed upload is put together from its acknowledged parts.
LEMMA ChainCut ==
  ASSUME NEW p \in Seq(Nat \X Nat), NEW n \in Nat \ {0}, NEW s \in Nat, Chain(p, n, s),
         NEW l \in Seq(Nat), Len(l) = n, \A i \in DOMAIN l : l[i] = i, NEW c \in Calls
  PROVE  LET o == [by |-> c, pieces |-> [i \in DOMAIN l |-> p[l[i]]]]
         IN  o \in Objects /\ Cut(o, s)
<1> DEFINE q == [i \in DOMAIN l |-> p[l[i]]]
           o == [by |-> c, pieces |-> q]
<1>1. Len(p) \in Nat /\ n <= Len(p) BY DEF Chain
<1>2. DOMAIN l = 1..n OBVIOUS
<1>3. q = [i \in 1..n |-> p[i]] BY <1>2
<1> HIDE DEF q
<1>4. \A i \in 1..n : p[i] \in Nat \X Nat BY <1>1
<1>5. q \in Seq(Nat \X Nat) /\ Len(q) = n /\ \A i \in 1..n : q[i] = p[i]
  <2>1. q \in [1..n -> Nat \X Nat] BY <1>3, <1>4
  <2>2. q \in Seq(Nat \X Nat) BY <2>1, IsASeq
  <2>3. Len(q) = n BY <2>1, <2>2
  <2> QED BY <1>3, <2>2, <2>3
<1>6. Chain(q, n, s)
  <2>1. q[1] = p[1] /\ q[n] = p[n] BY <1>5
  <2>2. ASSUME NEW i \in 2..n PROVE q[i][1] = q[i - 1][2]
    <3>1. i \in 1..n /\ i - 1 \in 1..n OBVIOUS
    <3> QED BY <1>5, <3>1 DEF Chain
  <2> QED BY <1>5, <2>1, <2>2 DEF Chain
<1>7. o \in Objects BY <1>5 DEF Objects
<1>8. Cut(o, s) BY <1>5, <1>6 DEF Cut
<1> QED BY <1>7, <1>8 DEF q

\* A body in one piece is whole.
LEMMA SingleCut ==
  ASSUME NEW c \in Calls, NEW s \in Nat
  PROVE  LET o == [by |-> c, pieces |-> <<<<0, s>>>>] IN o \in Objects /\ Cut(o, s)
<1> DEFINE q == <<<<0, s>>>>
<1>1. q \in Seq(Nat \X Nat) /\ Len(q) = 1 /\ q[1] = <<0, s>> OBVIOUS
<1> HIDE DEF q
<1>2. Chain(q, 1, s) BY <1>1 DEF Chain
<1> QED BY <1>1, <1>2 DEF Cut, Objects, q

-----------------------------------------------------------------------------
(* The invariant holds.                                                     *)

\* The fields that each kind of request has.
LEMMA RequestShape ==
  ASSUME NEW r \in Requests
  PROVE  /\ r # None
         /\ r.kind \in {"put", "create", "get", "head", "delete", "list", "range", "copy"}
         /\ r.kind # "list" => r.key \in Keys
         /\ r.kind \in {"put", "create"} => r.size \in Nat
         /\ r.kind = "range" => r.range[1] \in Nat /\ r.range[2] \in Nat
         /\ r.kind = "copy" => r.from \in Keys
BY S3Assumption DEF Requests, AbsRequests

\* An empty bucket with no calls satisfies the invariant.
LEMMA InitIInv == Init => IInv
<1> SUFFICES ASSUME Init PROVE IInv
  OBVIOUS
<1> USE S3Assumption DEF Init
<1>1. TypeOK BY DEF TypeOK, Labels, Results
<1>2. \A c \in Calls : CallOK(c) /\ BodyOK(c) /\ OpenOK(c) /\ WinnerOK(c)
  BY DEF CallOK, BodyOK, OpenOK, WinnerOK, Puts, PutSteps
<1>3. \A c \in Calls : PartsOK(c) BY DEF PartsOK, Chain
<1>4. late \subseteq LateRequests /\ \A r \in late : LateOK(r) OBVIOUS
<1>5. \A k \in Keys : ObjectOK(objects[k]) BY DEF ObjectOK
<1>6. \A c \in Calls : ObjectOK(seen[c]) BY DEF ObjectOK
<1>7. UploadsAccounted BY DEF UploadsAccounted
<1> QED BY <1>1, <1>2, <1>3, <1>4, <1>5, <1>6, <1>7 DEF IInv

\* What the write of call c leaves when it is carried out: whole objects, and
\* conditional puts that still hold their keys.
LEMMA WriteKeeps ==
  ASSUME IInv, NEW c \in Calls, NEW o, ObjectOK(o),
         op[c] # None, Kind(c) \in {"put", "create", "copy", "delete"},
         Kind(c) = "create" => objects[Key(c)] = None /\ o # None /\ o.by = c,
         Store(c, o)
  PROVE  /\ objects' \in [Keys -> Objects \cup {None}] /\ landed' \subseteq Calls
         /\ \A k \in Keys : ObjectOK(objects'[k])
         /\ \A d \in Calls :
              op[d] # None /\ Kind(d) = "create" /\ Exclusive(Key(d)) =>
                /\ d \in landed' => objects'[Key(d)] # None /\ objects'[Key(d)].by = d
                /\ objects[Key(d)] # None => objects'[Key(d)] # None
         /\ \A d \in landed' : op[d] # None
<1>1. op[c] \in Requests /\ Key(c) \in Keys BY RequestShape DEF IInv, TypeOK, Kind, Key
<1>2. \A k \in Keys : objects'[k] = IF k = Key(c) THEN o ELSE objects[k]
  BY <1>1 DEF IInv, TypeOK, Store
<1>3. objects' \in [Keys -> Objects \cup {None}] /\ landed' \subseteq Calls
  BY <1>1 DEF IInv, TypeOK, Store, ObjectOK
<1>4. \A k \in Keys : ObjectOK(objects'[k]) BY <1>2 DEF IInv
<1>5. ASSUME NEW d \in Calls, op[d] # None, Kind(d) = "create", Exclusive(Key(d))
      PROVE  /\ d \in landed' => objects'[Key(d)] # None /\ objects'[Key(d)].by = d
             /\ objects[Key(d)] # None => objects'[Key(d)] # None
  <2>1. op[d] \in Requests /\ Key(d) \in Keys BY <1>5, RequestShape DEF IInv, TypeOK, Kind, Key
  <2>2. CASE Key(d) # Key(c)
    <3>1. objects'[Key(d)] = objects[Key(d)] BY <1>2, <2>1, <2>2
    <3>2. d # c BY <2>2
    <3>3. d \in landed' => d \in landed BY <3>2 DEF Store
    <3> QED BY <1>5, <3>1, <3>3 DEF IInv, WinnerOK
  <2>3. CASE Key(d) = Key(c)
    <3>1. Kind(c) = "create" BY <1>5, <2>3 DEF Exclusive
    <3>2. objects[Key(d)] = None /\ objects'[Key(d)] = o BY <1>2, <2>1, <2>3, <3>1
    <3>3. d \notin landed BY <1>5, <3>2 DEF IInv, WinnerOK
    <3>4. d \in landed' => d = c BY <3>3 DEF Store
    <3> QED BY <3>1, <3>2, <3>4
  <2> QED BY <2>2, <2>3
<1>6. \A d \in landed' : op[d] # None BY <1>3 DEF IInv, TypeOK, WinnerOK, Store
<1> QED BY <1>3, <1>4, <1>5, <1>6

\* Calls without a body to send have no upload.
LEMMA NoUpload ==
  ASSUME IInv, NEW c \in Calls, mine[c] = None PROVE mine[c] \notin uploads
BY S3Assumption DEF IInv, TypeOK

\* A step that ends no put successfully accounts for the same uploads.
LEMMA UploadsKept ==
  ASSUME IInv, UNCHANGED <<mine, uploads>>, late \subseteq late',
         \A d \in Calls : pc'[d] = "done" /\ res'[d] \in {"ok", "exists"} =>
           (pc[d] = "done" /\ res'[d] = res[d]) \/ mine[d] \notin uploads
  PROVE  UploadsAccounted'
BY DEF IInv, UploadsAccounted

\* The step of a call that sends no part and opens no upload leaves every
\* request without reply what it was.
LEMMA LateKept ==
  ASSUME IInv, NEW c \in Calls, UNCHANGED <<op, sent, mine, next, parts>>,
         \A d \in Calls \ {c} : pc'[d] = pc[d] /\ tries'[d] = tries[d] /\ buffer'[d] = buffer[d],
         \/ pc'[c] = "done"
         \/ pc'[c] = pc[c] /\ tries'[c] >= tries[c] /\ buffer'[c] = buffer[c]
         \/ pc[c] \in {"read", "get"} /\ (pc'[c] = "upload" => mine[c] = None)
         \/ pc[c] = "complete" /\ pc'[c] = "abort",
         tries' \in [Calls -> Nat], NEW r \in late
  PROVE  LateOK(r)'
<1> DEFINE b == r.call
<1>1. b \in Calls /\ r.n \in Nat /\ r.try \in Nat BY DEF IInv, LateRequests
<1>2. tries[b] \in Nat /\ tries'[b] \in Nat /\ next[b] \in Nat
  <2>1. tries[b] \in 1..MaxTries /\ next[b] \in Nat \ {0} BY <1>1 DEF IInv, TypeOK
  <2> QED BY <1>1, <2>1, S3Assumption
<1>3. LateOK(r) BY DEF IInv
<1>4. CASE b # c
  <2>1. pc'[b] = pc[b] /\ tries'[b] = tries[b] /\ buffer'[b] = buffer[b] BY <1>1, <1>4
  <2> QED BY <1>3, <2>1 DEF LateOK, Puts, Kind, Size, PartLen
<1>5. CASE b = c
  <2>1. CASE pc'[c] = "done"
    BY <1>3, <1>5, <2>1 DEF LateOK, Puts, Kind, Size, PartLen
  <2>2. CASE pc'[c] = pc[c] /\ tries'[c] >= tries[c] /\ buffer'[c] = buffer[c]
    <3>1. pc[c] = "upload" /\ r.try < tries[c] => r.try < tries'[c] BY <1>1, <1>2, <1>5, <2>2
    <3> QED BY <1>3, <1>5, <2>2, <3>1 DEF LateOK, Puts, Kind, Size, PartLen
  <2>3. CASE pc[c] \in {"read", "get"} /\ (pc'[c] = "upload" => mine[c] = None)
    BY <1>1, <1>2, <1>3, <1>5, <2>3 DEF LateOK, Puts, Kind, Size, PartLen
  <2>4. CASE pc[c] = "complete" /\ pc'[c] = "abort"
    BY <1>1, <1>2, <1>3, <1>5, <2>4 DEF LateOK, Puts, Kind, Size, PartLen
  <2> QED BY <2>1, <2>2, <2>3, <2>4
<1> QED BY <1>4, <1>5

\* A request that gets no reply joins them: it is tried again, or the call goes
\* on without it.
LEMMA SentLate ==
  ASSUME IInv, NEW c \in Calls, pc[c] \in WriteSteps,
         UNCHANGED <<op, sent, mine, next, parts, buffer>>,
         \/ pc'[c] = "done"
         \/ pc'[c] = pc[c] /\ tries'[c] = tries[c] + 1
         \/ pc[c] = "complete" /\ pc'[c] = "abort",
         NEW r, r = Sent(c)
  PROVE  r \in LateRequests /\ LateOK(r)'
<1>1. /\ op[c] # None /\ op[c] \in Requests
      /\ tries[c] \in Nat /\ next[c] \in Nat \ {0} /\ sent[c] \in Nat /\ buffer[c] \in Nat
      /\ mine[c] \in Ids \cup {None}
  BY S3Assumption DEF IInv, TypeOK, CallOK, WriteSteps
<1>2. PartLen(c) \in Nat BY <1>1, S3Assumption DEF PartLen
<1>3. /\ r.call = c /\ r.step = pc[c] /\ r.try = tries[c] /\ r.n = next[c]
      /\ r.piece = <<sent[c], sent[c] + PartLen(c)>>
      /\ r.id = IF pc[c] = "upload" THEN <<c, tries[c]>> ELSE mine[c]
  BY DEF Sent
<1>4. r \in LateRequests
  <2>1. r.id \in Ids \cup {None} /\ r.piece \in Nat \X Nat BY <1>1, <1>2, <1>3 DEF Ids
  <2>2. r = [call |-> c, step |-> pc[c], try |-> tries[c], id |-> r.id, n |-> next[c],
             piece |-> r.piece]
    BY DEF Sent
  <2> QED BY <1>1, <2>1, <2>2 DEF LateRequests
<1>5. CallOK(c) /\ BodyOK(c) BY DEF IInv
<1> SUFFICES LateOK(r)'
  BY <1>4
<1>6. CASE pc[c] = "upload"
  <2>1. mine[c] = None /\ r.id # mine[c] /\ pc'[c] \in {"upload", "done"}
    <3>1. r.id \in Ids BY <1>1, <1>3, <1>6 DEF Ids
    <3> QED BY <1>5, <1>6, <3>1, S3Assumption DEF BodyOK
  <2> QED BY <1>1, <1>3, <1>6, <2>1 DEF LateOK, Kind, Puts, Size, PartLen
<1>7. CASE pc[c] \in {"part", "tail"}
  <2>1. pc'[c] \in {"part", "tail", "done"} BY <1>7
  <2> QED BY <1>1, <1>3, <1>7, <2>1 DEF LateOK, Kind, Puts, Size, PartLen
<1>8. CASE pc[c] = "complete"
  BY <1>1, <1>3, <1>5, <1>8 DEF LateOK, Kind, Puts, Size, PartLen, CallOK, BodyOK, PutSteps
<1>9. CASE pc[c] = "abort"
  BY <1>1, <1>3, <1>5, <1>9 DEF LateOK, Kind, Puts, Size, PartLen, BodyOK
<1>10. CASE pc[c] = "single"
  <2>1. sent[c] = 0 /\ buffer[c] = Size(c) /\ PartLen(c) = buffer[c]
    BY <1>1, <1>5, <1>10, S3Assumption DEF BodyOK, PartLen
  <2> QED BY <1>1, <1>3, <1>5, <1>10, <2>1 DEF LateOK, Kind, Puts, Size, PartLen, CallOK, PutSteps
<1>11. CASE pc[c] \in {"copy", "delete"}
  BY <1>1, <1>3, <1>5, <1>11 DEF LateOK, Kind, Puts, Size, PartLen, CallOK
<1> QED BY <1>6, <1>7, <1>8, <1>9, <1>10, <1>11 DEF WriteSteps

\* The next part is stored behind the acknowledged ones.
LEMMA NextPart ==
  ASSUME IInv, NEW c \in Calls, NEW t \in Nat, parts'[c] = Stored(parts[c], next[c], <<sent[c], t>>)
  PROVE  /\ next[c] \in 1..(Len(parts[c]) + 1) /\ parts'[c] \in Seq(Nat \X Nat)
         /\ parts'[c][next[c]] = <<sent[c], t>>
         /\ \A i \in 1..(next[c] - 1) : parts'[c][i] = parts[c][i]
         /\ Chain(parts'[c], next[c], t)
<1> DEFINE p == parts[c]
           n == next[c]
           s == sent[c]
           x == <<s, t>>
           q == parts'[c]
<1>1. /\ p \in Seq(Nat \X Nat) /\ n \in Nat \ {0} /\ s \in Nat /\ x \in Nat \X Nat
      /\ Chain(p, n - 1, s) /\ q = Stored(p, n, x) /\ q = Stored(p, n, <<s, t>>)
  BY DEF IInv, TypeOK, PartsOK
<1> HIDE DEF p, n, s, x, q
<1>2. n \in 1..(Len(p) + 1) /\ \A i \in 1..(n - 1) : Stored(p, n, x)[i] = p[i]
  BY <1>1, ChainBeyond
<1>3. p \in Seq(Nat \X Nat) /\ x \in Nat \X Nat BY <1>1
<1>4. n \in 1..(Len(p) + 1) BY <1>2
<1>5. Stored(p, n, x) \in Seq(Nat \X Nat) /\ Stored(p, n, x)[n] = x BY <1>3, <1>4, StoredSeq
<1>6. Chain(q, n, t) BY <1>1, ChainNext
<1> QED BY <1>1, <1>2, <1>5, <1>6 DEF p, n, s, x, q

\* What carrying out a request does, by its step.
LEMMA Executed ==
  ASSUME NEW r, Execute(r)
  PROVE  LET c == r.call IN
         /\ r.step = "upload" => uploads' = uploads \cup {r.id} /\ UNCHANGED <<objects, parts, landed>>
         /\ r.step \in {"part", "tail"} =>
              /\ UNCHANGED <<objects, uploads, landed>>
              /\ IF r.id \in uploads /\ r.n <= MaxParts
                   THEN parts' = [parts EXCEPT ![c] = Stored(parts[c], r.n, r.piece)]
                   ELSE parts' = parts
         /\ r.step = "complete" =>
              IF r.id \in uploads /\ ~Blocked(c)
                THEN /\ Store(c, [by |-> c, pieces |-> Assemble(c)])
                     /\ uploads' = uploads \ {r.id} /\ parts' = parts
                ELSE UNCHANGED provider
         /\ r.step = "abort" => uploads' = uploads \ {r.id} /\ UNCHANGED <<objects, parts, landed>>
         /\ r.step = "single" =>
              IF ~Blocked(c)
                THEN Store(c, [by |-> c, pieces |-> <<r.piece>>]) /\ UNCHANGED <<uploads, parts>>
                ELSE UNCHANGED provider
         /\ r.step = "copy" =>
              IF objects[op[c].from] # None
                THEN Store(c, objects[op[c].from]) /\ UNCHANGED <<uploads, parts>>
                ELSE UNCHANGED provider
         /\ r.step = "delete" => Store(c, None) /\ UNCHANGED <<uploads, parts>>
<1> DEFINE c == r.call
<1>1. CASE r.step = "upload" BY <1>1 DEF Execute
<1>2. CASE r.step \in {"part", "tail"}
  <2>1. CASE r.id \in uploads /\ r.n <= MaxParts
    <3>1. StorePart(c, r.n, r.piece) /\ UNCHANGED <<objects, uploads, landed>>
      BY <1>2, <2>1 DEF Execute
    <3>2. parts' = [parts EXCEPT ![c] = Stored(parts[c], r.n, r.piece)]
      BY <3>1 DEF StorePart, Stored
    <3> QED BY <1>2, <2>1, <3>1, <3>2
  <2>2. CASE ~(r.id \in uploads /\ r.n <= MaxParts)
    <3>1. UNCHANGED provider BY <1>2, <2>2 DEF Execute
    <3> QED BY <1>2, <2>2, <3>1 DEF provider
  <2> QED BY <2>1, <2>2
<1>3. CASE r.step = "complete" BY <1>3 DEF Execute
<1>4. CASE r.step = "abort" BY <1>4 DEF Execute
<1>5. CASE r.step = "single" BY <1>5 DEF Execute
<1>6. CASE r.step = "copy" BY <1>6 DEF Execute
<1>7. CASE r.step = "delete" BY <1>7 DEF Execute
<1>8. CASE r.step \notin {"upload", "part", "tail", "complete", "abort", "single", "copy", "delete"}
  BY <1>8
<1> QED BY <1>1, <1>2, <1>3, <1>4, <1>5, <1>6, <1>7, <1>8

\* A write that is carried out leaves whole objects and rightful winners,
\* whether its call is answered with it or has gone on.
LEMMA WriteLands ==
  ASSUME IInv, NEW c \in Calls, NEW o, ObjectOK(o),
         op[c] # None, Kind(c) \in {"put", "create", "copy", "delete"},
         Kind(c) = "create" => objects[Key(c)] = None /\ o # None /\ o.by = c,
         Store(c, o), op' = op,
         \A d \in Calls : res'[d] = res[d] \/ (d = c /\ res'[d] # "exists")
  PROVE  /\ objects' \in [Keys -> Objects \cup {None}] /\ landed' \subseteq Calls
         /\ \A k \in Keys : ObjectOK(objects[k])'
         /\ \A d \in Calls : WinnerOK(d)'
<1>1. /\ objects' \in [Keys -> Objects \cup {None}] /\ landed' \subseteq Calls
      /\ \A k \in Keys : ObjectOK(objects'[k])
      /\ \A d \in Calls :
           op[d] # None /\ Kind(d) = "create" /\ Exclusive(Key(d)) =>
             /\ d \in landed' => objects'[Key(d)] # None /\ objects'[Key(d)].by = d
             /\ objects[Key(d)] # None => objects'[Key(d)] # None
      /\ \A d \in landed' : op[d] # None
  BY WriteKeeps
<1>2. \A k \in Keys : ObjectOK(objects[k])' BY <1>1 DEF ObjectOK, Puts, Kind, Size
<1>3. ASSUME NEW d \in Calls PROVE WinnerOK(d)'
  <2>1. c \in landed' /\ (d \in landed => d \in landed') BY DEF Store
  <2>2. WinnerOK(d) BY DEF IInv
  <2>3. CASE d # c
    <3>1. res'[d] = res[d] BY <2>3
    <3> QED BY <1>1, <2>1, <2>2, <3>1 DEF WinnerOK, Exclusive, Puts, Kind, Key
  <2>4. CASE d = c
    <3>1. res'[d] = "exists" => res[d] = "exists" BY <2>4
    <3> QED BY <1>1, <2>1, <2>2, <2>4, <3>1 DEF WinnerOK, Exclusive, Puts, Kind, Key
  <2> QED BY <2>3, <2>4
<1> QED BY <1>1, <1>2, <1>3

\* Uploads are not shared: the id names the call.
LEMMA OwnUpload ==
  ASSUME IInv, NEW c \in Calls, NEW d \in Calls, mine[c] # None, mine[d] = mine[c]
  PROVE  c = d
BY DEF IInv, BodyOK

\* A call that is answered without a write says nothing false.
LEMMA Unwritten ==
  ASSUME IInv, NEW c \in Calls, UNCHANGED <<op, objects, landed>>,
         \A d \in Calls : d # c => res'[d] = res[d],
         \/ op[c] = None \/ Kind(c) \notin {"put", "create"}
         \/ /\ res'[c] = "exists" => objects[Key(c)] # None
            /\ res'[c] = "ok" => c \in landed
  PROVE  /\ objects' \in [Keys -> Objects \cup {None}] /\ landed' \subseteq Calls
         /\ \A k \in Keys : ObjectOK(objects[k])'
         /\ \A d \in Calls : WinnerOK(d)'
<1>1. objects' \in [Keys -> Objects \cup {None}] /\ landed' \subseteq Calls BY DEF IInv, TypeOK
<1>2. \A k \in Keys : ObjectOK(objects[k])' BY DEF IInv, ObjectOK, Puts, Kind, Size
<1>3. ASSUME NEW d \in Calls PROVE WinnerOK(d)'
  <2>1. WinnerOK(d) BY DEF IInv
  <2>2. CASE d # c BY <2>1, <2>2 DEF WinnerOK, Exclusive, Puts, Kind, Key
  <2>3. CASE d = c BY <2>1, <2>3 DEF WinnerOK, Exclusive, Puts, Kind, Key
  <2> QED BY <2>2, <2>3
<1> QED BY <1>1, <1>2, <1>3

\* The object that a single put or a completion would leave.
LEMMA SentObject ==
  ASSUME IInv, NEW c \in Calls, Puts(c)
  PROVE  /\ LET o == [by |-> c, pieces |-> <<<<0, Size(c)>>>>] IN o # None /\ ObjectOK(o)
         /\ sent[c] = Size(c) /\ next[c] > 1 =>
              LET o == [by |-> c, pieces |-> Assemble(c)] IN o # None /\ ObjectOK(o)
<1>1. Size(c) \in Nat BY RequestShape DEF IInv, TypeOK, Puts, Kind, Size
<1>2. LET o == [by |-> c, pieces |-> <<<<0, Size(c)>>>>] IN o # None /\ ObjectOK(o)
  <2> DEFINE o == [by |-> c, pieces |-> <<<<0, Size(c)>>>>]
  <2>1. o \in Objects /\ Cut(o, Size(c)) BY <1>1, SingleCut
  <2>2. o.by = c OBVIOUS
  <2> HIDE DEF o
  <2>3. o # None /\ ObjectOK(o) BY <2>1, <2>2, S3Assumption DEF ObjectOK
  <2> QED BY <2>3 DEF o
<1>3. ASSUME sent[c] = Size(c), next[c] > 1
      PROVE  LET o == [by |-> c, pieces |-> Assemble(c)] IN o # None /\ ObjectOK(o)
  <2> DEFINE n == next[c] - 1
             o == [by |-> c, pieces |-> Assemble(c)]
  <2>1. n \in Nat \ {0} /\ parts[c] \in Seq(Nat \X Nat) /\ listed[c] \in Seq(Nat)
    BY <1>3 DEF IInv, TypeOK
  <2>2. Chain(parts[c], n, Size(c)) BY <1>3 DEF IInv, PartsOK
  <2>3. Len(listed[c]) = n /\ \A i \in DOMAIN listed[c] : listed[c][i] = i
    BY <2>1 DEF IInv, TypeOK
  <2> HIDE DEF n
  <2>4. o \in Objects /\ Cut(o, Size(c)) BY <1>1, <2>1, <2>2, <2>3, ChainCut DEF Assemble
  <2>5. o.by = c OBVIOUS
  <2> HIDE DEF o
  <2>6. o # None /\ ObjectOK(o) BY <2>4, <2>5, S3Assumption DEF ObjectOK
  <2> QED BY <2>6 DEF o
<1> QED BY <1>2, <1>3

\* A call is made.
LEMMA InvokeKeeps ==
  ASSUME IInv, NEW c \in Calls, Invoke(c)
  PROVE  IInv'
<1> USE S3Assumption, RequestShape DEF Kind, Key, Size, Goto, Decide, Return, body, provider, network
<1>1. PICK q \in Requests :
        op' = [op EXCEPT ![c] = q] /\ pc' = [pc EXCEPT ![c] = FirstStep(q)]
  BY DEF Invoke
<1>2. /\ op[c] = None /\ pc[c] = "idle" /\ op'[c] = q /\ pc'[c] = FirstStep(q)
      /\ \A d \in Calls : d # c => op'[d] = op[d] /\ pc'[d] = pc[d] /\ tries'[d] = tries[d]
  BY <1>1 DEF Invoke, IInv, TypeOK, CallOK
<1>3. UNCHANGED <<res, buffer, sent, mine, next, listed, provider, network, seen, found>>
  BY DEF Invoke
<1>4. \A d \in Calls : op[d] # None => op'[d] = op[d] /\ pc'[d] = pc[d] /\ d # c
  BY <1>2
<1>5. FirstStep(q) \in {"read", "refuse", "head", "get", "delete", "list", "copy"}
  BY DEF FirstStep
<1>6. TypeOK'
  <2>1. op' \in [Calls -> Requests \cup {None}] /\ pc' \in [Calls -> Labels]
    BY <1>1, <1>5 DEF IInv, TypeOK, Labels, WriteSteps, ReadSteps
  <2>2. tries' \in [Calls -> 1..MaxTries] BY DEF Invoke, IInv, TypeOK
  <2> QED BY <1>3, <2>1, <2>2 DEF IInv, TypeOK
<1>7. late' \subseteq LateRequests
  BY DEF Invoke, IInv, TypeOK
<1>8. ASSUME NEW d \in Calls PROVE CallOK(d)'
  <2>1. CASE d # c BY <1>2, <1>3, <2>1 DEF IInv, CallOK, Puts, Reads
  <2>2. CASE d = c
    <3>1. res[c] = "none" BY <1>2 DEF IInv, CallOK
    <3> QED BY <1>2, <1>3, <1>5, <2>2, <3>1 DEF CallOK, FirstStep, Puts, Reads, PutSteps
  <2> QED BY <2>1, <2>2
<1>9. ASSUME NEW d \in Calls PROVE BodyOK(d)'
  <2>1. CASE d # c BY <1>2, <1>3, <2>1 DEF IInv, BodyOK, Puts
  <2>2. CASE d = c
    <3>1. mine[c] = None /\ buffer[c] = 0 /\ sent[c] = 0 /\ next[c] = 1
      BY <1>2 DEF IInv, BodyOK, Puts
    <3> QED BY <1>2, <1>3, <1>5, <2>2, <3>1 DEF BodyOK, Puts
  <2> QED BY <2>1, <2>2
<1>10. ASSUME NEW d \in Calls PROVE PartsOK(d)'
  BY DEF Invoke, IInv, TypeOK, PartsOK
<1>11. ASSUME NEW d \in Calls PROVE OpenOK(d)'
  <2>1. CASE d # c BY <1>2, <1>3, <2>1 DEF IInv, OpenOK
  <2>2. CASE d = c
    <3>1. mine[c] = None BY <1>2 DEF IInv, BodyOK, Puts
    <3> QED BY <1>2, <1>3, <1>5, <2>2, <3>1 DEF OpenOK
  <2> QED BY <2>1, <2>2
<1>12. ASSUME NEW d \in Calls PROVE WinnerOK(d)'
  <2>1. CASE op[d] # None
    <3>1. Exclusive(op[d].key)' => Exclusive(op[d].key)
      BY <1>4, <2>1 DEF Exclusive
    <3> QED BY <1>3, <1>4, <2>1, <3>1 DEF IInv, WinnerOK, Puts
  <2>2. CASE op[d] = None
    <3>1. d \notin landed /\ res[d] = "none" BY <2>2 DEF IInv, WinnerOK, CallOK
    <3> QED BY <1>3, <3>1 DEF WinnerOK
  <2> QED BY <2>1, <2>2
<1>13. ASSUME NEW r \in late' PROVE LateOK(r)'
  <2> DEFINE b == r.call
  <2>1. r \in late /\ b \in Calls /\ op[b] # None BY <1>3 DEF IInv, LateRequests, LateOK
  <2>2. op'[b] = op[b] /\ pc'[b] = pc[b] /\ tries'[b] = tries[b] BY <1>2, <1>4, <2>1
  <2> QED BY <1>3, <2>1, <2>2 DEF IInv, LateOK, Puts, PartLen
<1>14. ASSUME NEW k \in Keys PROVE ObjectOK(objects[k])'
  <2>1. CASE objects[k] = None BY <1>3, <2>1 DEF ObjectOK
  <2>2. CASE objects[k] # None
    <3>1. objects[k].by \in Calls /\ Puts(objects[k].by) BY <2>2 DEF IInv, ObjectOK, Objects
    <3> QED BY <1>3, <1>4, <3>1 DEF IInv, ObjectOK, Puts
  <2> QED BY <2>1, <2>2
<1>15. ASSUME NEW d \in Calls PROVE ObjectOK(seen[d])'
  <2>1. CASE seen[d] = None BY <1>3, <2>1 DEF ObjectOK
  <2>2. CASE seen[d] # None
    <3>1. seen[d].by \in Calls /\ Puts(seen[d].by) BY <2>2 DEF IInv, ObjectOK, Objects
    <3> QED BY <1>3, <1>4, <3>1 DEF IInv, ObjectOK, Puts
  <2> QED BY <2>1, <2>2
<1>16. UploadsAccounted'
  BY <1>2, <1>3, <1>5, UploadsKept
<1> QED BY <1>6, <1>7, <1>8, <1>9, <1>10, <1>11, <1>12, <1>13, <1>14, <1>15, <1>16 DEF IInv

\* An inverted range is refused.
LEMMA RefuseKeeps ==
  ASSUME IInv, NEW c \in Calls, Refuse(c)
  PROVE  IInv'
<1> USE S3Assumption, RequestShape DEF Kind, Key, Size, Goto, Decide, Return, body, provider, network
<1>1. TypeOK'
  BY DEF Refuse, IInv, TypeOK, Labels, Results, WriteSteps, ReadSteps
<1>2. late' \subseteq LateRequests
  BY DEF Refuse, IInv, TypeOK
<1>3. ASSUME NEW d \in Calls PROVE CallOK(d)'
  BY DEF Refuse, IInv, TypeOK, CallOK, Puts, Reads, PutSteps
<1>4. ASSUME NEW d \in Calls PROVE BodyOK(d)'
  BY DEF Refuse, IInv, TypeOK, CallOK, BodyOK, Puts, PutSteps
<1>5. ASSUME NEW d \in Calls PROVE PartsOK(d)'
  BY DEF Refuse, IInv, TypeOK, PartsOK
<1>6. ASSUME NEW d \in Calls PROVE OpenOK(d)'
  BY DEF Refuse, IInv, TypeOK, OpenOK
<1>7. ASSUME NEW d \in Calls PROVE WinnerOK(d)'
  BY DEF Refuse, IInv, TypeOK, CallOK, WinnerOK, Exclusive, Puts, PutSteps
<1>8. ASSUME NEW r \in late' PROVE LateOK(r)'
  <2>1. /\ r \in late /\ UNCHANGED <<op, sent, mine, next, parts>>
        /\ \A d \in Calls \ {c} :
             pc'[d] = pc[d] /\ tries'[d] = tries[d] /\ buffer'[d] = buffer[d]
    BY DEF Refuse, IInv, TypeOK
  <2>2. pc'[c] = "done"
    BY DEF Refuse, IInv, TypeOK
  <2>3. tries' \in [Calls -> Nat] BY <1>1 DEF TypeOK
  <2> QED BY <2>1, <2>2, <2>3, LateKept
<1>9. ASSUME NEW k \in Keys PROVE ObjectOK(objects[k])'
  BY DEF Refuse, IInv, TypeOK, ObjectOK, Puts
<1>10. ASSUME NEW d \in Calls PROVE ObjectOK(seen[d])'
  BY DEF Refuse, IInv, TypeOK, ObjectOK, Puts
<1>11. UploadsAccounted'
  BY DEF Refuse, IInv, TypeOK, UploadsAccounted
<1> QED BY <1>1, <1>2, <1>3, <1>4, <1>5, <1>6, <1>7, <1>8, <1>9, <1>10, <1>11 DEF IInv

\* The body stream yields a chunk.
LEMMA ReadChunkKeeps ==
  ASSUME IInv, NEW c \in Calls, ReadChunk(c)
  PROVE  IInv'
<1> USE S3Assumption, RequestShape DEF Kind, Key, Size, Goto, Decide, Return, body, provider, network
<1>1. PICK m \in 1..MaxChunk :
        sent[c] + buffer[c] + m <= Size(c) /\ buffer' = [buffer EXCEPT ![c] = @ + m]
  BY DEF ReadChunk
<1>2. buffer'[c] = buffer[c] + m /\ m \in Nat /\ \A d \in Calls : d # c => buffer'[d] = buffer[d]
  BY <1>1 DEF IInv, TypeOK
<1>3. pc'[c] \in {"read", "upload", "part"} /\ \A d \in Calls : d # c => pc'[d] = pc[d]
  BY DEF ReadChunk, IInv, TypeOK
<1>4. TypeOK'
  <2>1. buffer' \in [Calls -> Nat] BY <1>1, <1>2 DEF IInv, TypeOK
  <2>2. pc' \in [Calls -> Labels] /\ tries' \in [Calls -> 1..MaxTries]
    BY DEF ReadChunk, IInv, TypeOK, Labels, WriteSteps
  <2> QED BY <2>1, <2>2 DEF ReadChunk, IInv, TypeOK
<1>5. late' \subseteq LateRequests
  BY DEF ReadChunk, IInv, TypeOK
<1>6. ASSUME NEW d \in Calls PROVE CallOK(d)'
  BY DEF ReadChunk, IInv, TypeOK, CallOK, Puts, Reads, PutSteps
<1>7. ASSUME NEW d \in Calls PROVE BodyOK(d)'
  <2>1. CASE d # c BY <1>2, <1>3, <2>1 DEF ReadChunk, IInv, BodyOK, Puts
  <2>2. CASE d = c
    <3>1. Puts(c) /\ BodyOK(c) BY DEF ReadChunk, IInv, CallOK, PutSteps
    <3>2. Size(c) \in Nat /\ buffer[c] \in Nat /\ sent[c] \in Nat
      BY <3>1 DEF IInv, TypeOK, Puts
    <3>3. pc'[c] = (IF buffer'[c] < PartSize THEN "read" ELSE IF mine[c] = None THEN "upload" ELSE "part")
      BY DEF ReadChunk, IInv, TypeOK
    <3>4. UNCHANGED <<op, sent, mine, next>> /\ pc[c] = "read" BY DEF ReadChunk
    <3> QED BY <1>1, <1>2, <2>2, <3>1, <3>2, <3>3, <3>4 DEF BodyOK, Puts
  <2> QED BY <2>1, <2>2
<1>8. ASSUME NEW d \in Calls PROVE PartsOK(d)'
  BY DEF ReadChunk, IInv, TypeOK, PartsOK
<1>9. ASSUME NEW d \in Calls PROVE OpenOK(d)'
  BY DEF ReadChunk, IInv, TypeOK, OpenOK
<1>10. ASSUME NEW d \in Calls PROVE WinnerOK(d)'
  BY DEF ReadChunk, IInv, TypeOK, CallOK, WinnerOK, Exclusive, Puts, PutSteps
<1>11. ASSUME NEW r \in late' PROVE LateOK(r)'
  <2>1. /\ r \in late /\ UNCHANGED <<op, sent, mine, next, parts>>
        /\ \A d \in Calls \ {c} :
             pc'[d] = pc[d] /\ tries'[d] = tries[d] /\ buffer'[d] = buffer[d]
    BY DEF ReadChunk, IInv, TypeOK
  <2>2. pc[c] \in {"read", "get"} /\ (pc'[c] = "upload" => mine[c] = None)
    BY DEF ReadChunk, IInv, TypeOK
  <2>3. tries' \in [Calls -> Nat] BY <1>4 DEF TypeOK
  <2> QED BY <2>1, <2>2, <2>3, LateKept
<1>12. ASSUME NEW k \in Keys PROVE ObjectOK(objects[k])'
  BY DEF ReadChunk, IInv, TypeOK, ObjectOK, Puts
<1>13. ASSUME NEW d \in Calls PROVE ObjectOK(seen[d])'
  BY DEF ReadChunk, IInv, TypeOK, ObjectOK, Puts
<1>14. UploadsAccounted'
  BY DEF ReadChunk, IInv, TypeOK, UploadsAccounted
<1> QED BY <1>4, <1>5, <1>6, <1>7, <1>8, <1>9, <1>10, <1>11, <1>12, <1>13, <1>14 DEF IInv

\* The body stream fails.
LEMMA StreamFailsKeeps ==
  ASSUME IInv, NEW c \in Calls, StreamFails(c)
  PROVE  IInv'
<1> USE S3Assumption, RequestShape DEF Kind, Key, Size, Goto, Decide, Return, body, provider, network
<1>1. TypeOK'
  BY DEF StreamFails, IInv, TypeOK, Labels, Results, WriteSteps, ReadSteps
<1>2. late' \subseteq LateRequests
  BY DEF StreamFails, IInv, TypeOK
<1>3. ASSUME NEW d \in Calls PROVE CallOK(d)'
  BY DEF StreamFails, IInv, TypeOK, CallOK, Puts, Reads, PutSteps
<1>4. ASSUME NEW d \in Calls PROVE BodyOK(d)'
  BY DEF StreamFails, IInv, TypeOK, CallOK, BodyOK, Puts, PutSteps
<1>5. ASSUME NEW d \in Calls PROVE PartsOK(d)'
  BY DEF StreamFails, IInv, TypeOK, PartsOK
<1>6. ASSUME NEW d \in Calls PROVE OpenOK(d)'
  BY DEF StreamFails, IInv, TypeOK, OpenOK
<1>7. ASSUME NEW d \in Calls PROVE WinnerOK(d)'
  BY DEF StreamFails, IInv, TypeOK, CallOK, WinnerOK, Exclusive, Puts, PutSteps
<1>8. ASSUME NEW r \in late' PROVE LateOK(r)'
  <2>1. /\ r \in late /\ UNCHANGED <<op, sent, mine, next, parts>>
        /\ \A d \in Calls \ {c} :
             pc'[d] = pc[d] /\ tries'[d] = tries[d] /\ buffer'[d] = buffer[d]
    BY DEF StreamFails, IInv, TypeOK
  <2>2. pc'[c] = "done"
    BY DEF StreamFails, IInv, TypeOK
  <2>3. tries' \in [Calls -> Nat] BY <1>1 DEF TypeOK
  <2> QED BY <2>1, <2>2, <2>3, LateKept
<1>9. ASSUME NEW k \in Keys PROVE ObjectOK(objects[k])'
  BY DEF StreamFails, IInv, TypeOK, ObjectOK, Puts
<1>10. ASSUME NEW d \in Calls PROVE ObjectOK(seen[d])'
  BY DEF StreamFails, IInv, TypeOK, ObjectOK, Puts
<1>11. UploadsAccounted'
  BY DEF StreamFails, IInv, TypeOK, UploadsAccounted
<1> QED BY <1>1, <1>2, <1>3, <1>4, <1>5, <1>6, <1>7, <1>8, <1>9, <1>10, <1>11 DEF IInv

\* The body stream ends.
LEMMA EndOfStreamKeeps ==
  ASSUME IInv, NEW c \in Calls, EndOfStream(c)
  PROVE  IInv'
<1> USE S3Assumption, RequestShape DEF Kind, Key, Size, Goto, Decide, Return, body, provider, network
<1>1. TypeOK'
  BY DEF EndOfStream, IInv, TypeOK, Labels, Results, WriteSteps, ReadSteps
<1>2. late' \subseteq LateRequests
  BY DEF EndOfStream, IInv, TypeOK
<1>3. ASSUME NEW d \in Calls PROVE CallOK(d)'
  BY DEF EndOfStream, IInv, TypeOK, CallOK, Puts, Reads, PutSteps
<1>4. ASSUME NEW d \in Calls PROVE BodyOK(d)'
  BY SMTT(30) DEF EndOfStream, IInv, TypeOK, CallOK, BodyOK, Puts, PutSteps
<1>5. ASSUME NEW d \in Calls PROVE PartsOK(d)'
  BY DEF EndOfStream, IInv, TypeOK, PartsOK
<1>6. ASSUME NEW d \in Calls PROVE OpenOK(d)'
  BY DEF EndOfStream, IInv, TypeOK, OpenOK
<1>7. ASSUME NEW d \in Calls PROVE WinnerOK(d)'
  BY DEF EndOfStream, IInv, TypeOK, CallOK, WinnerOK, Exclusive, Puts, PutSteps
<1>8. ASSUME NEW r \in late' PROVE LateOK(r)'
  <2>1. /\ r \in late /\ UNCHANGED <<op, sent, mine, next, parts>>
        /\ \A d \in Calls \ {c} :
             pc'[d] = pc[d] /\ tries'[d] = tries[d] /\ buffer'[d] = buffer[d]
    BY DEF EndOfStream, IInv, TypeOK
  <2>2. pc[c] \in {"read", "get"} /\ (pc'[c] = "upload" => mine[c] = None)
    BY DEF EndOfStream, IInv, TypeOK
  <2>3. tries' \in [Calls -> Nat] BY <1>1 DEF TypeOK
  <2> QED BY <2>1, <2>2, <2>3, LateKept
<1>9. ASSUME NEW k \in Keys PROVE ObjectOK(objects[k])'
  BY DEF EndOfStream, IInv, TypeOK, ObjectOK, Puts
<1>10. ASSUME NEW d \in Calls PROVE ObjectOK(seen[d])'
  BY DEF EndOfStream, IInv, TypeOK, ObjectOK, Puts
<1>11. UploadsAccounted'
  BY DEF EndOfStream, IInv, TypeOK, UploadsAccounted
<1> QED BY <1>1, <1>2, <1>3, <1>4, <1>5, <1>6, <1>7, <1>8, <1>9, <1>10, <1>11 DEF IInv

\* The provider refuses a part number.
LEMMA PartRefusedKeeps ==
  ASSUME IInv, NEW c \in Calls, PartRefused(c)
  PROVE  IInv'
<1> USE S3Assumption, RequestShape DEF Kind, Key, Size, Goto, Decide, Return, body, provider, network
<1>1. TypeOK'
  BY DEF PartRefused, IInv, TypeOK, Labels, Results, WriteSteps, ReadSteps
<1>2. late' \subseteq LateRequests
  BY DEF PartRefused, IInv, TypeOK
<1>3. ASSUME NEW d \in Calls PROVE CallOK(d)'
  BY DEF PartRefused, IInv, TypeOK, CallOK, Puts, Reads, PutSteps
<1>4. ASSUME NEW d \in Calls PROVE BodyOK(d)'
  BY DEF PartRefused, IInv, TypeOK, CallOK, BodyOK, Puts, PutSteps
<1>5. ASSUME NEW d \in Calls PROVE PartsOK(d)'
  BY DEF PartRefused, IInv, TypeOK, PartsOK
<1>6. ASSUME NEW d \in Calls PROVE OpenOK(d)'
  BY DEF PartRefused, IInv, TypeOK, OpenOK
<1>7. ASSUME NEW d \in Calls PROVE WinnerOK(d)'
  BY DEF PartRefused, IInv, TypeOK, CallOK, WinnerOK, Exclusive, Puts, PutSteps
<1>8. ASSUME NEW r \in late' PROVE LateOK(r)'
  <2>1. /\ r \in late /\ UNCHANGED <<op, sent, mine, next, parts>>
        /\ \A d \in Calls \ {c} :
             pc'[d] = pc[d] /\ tries'[d] = tries[d] /\ buffer'[d] = buffer[d]
    BY DEF PartRefused, IInv, TypeOK
  <2>2. pc'[c] = "done"
    BY DEF PartRefused, IInv, TypeOK
  <2>3. tries' \in [Calls -> Nat] BY <1>1 DEF TypeOK
  <2> QED BY <2>1, <2>2, <2>3, LateKept
<1>9. ASSUME NEW k \in Keys PROVE ObjectOK(objects[k])'
  BY DEF PartRefused, IInv, TypeOK, ObjectOK, Puts
<1>10. ASSUME NEW d \in Calls PROVE ObjectOK(seen[d])'
  BY DEF PartRefused, IInv, TypeOK, ObjectOK, Puts
<1>11. UploadsAccounted'
  BY DEF PartRefused, IInv, TypeOK, UploadsAccounted
<1> QED BY <1>1, <1>2, <1>3, <1>4, <1>5, <1>6, <1>7, <1>8, <1>9, <1>10, <1>11 DEF IInv

\* A get or a range request is answered.
LEMMA GetObjectKeeps ==
  ASSUME IInv, NEW c \in Calls, GetObject(c)
  PROVE  IInv'
<1> USE S3Assumption, RequestShape DEF Kind, Key, Size, Goto, Decide, Return, body, provider, network
<1>1. Key(c) \in Keys /\ op[c] \in Requests /\ ~Puts(c)
  BY DEF GetObject, IInv, TypeOK, CallOK, Reads, Puts
<1>2. \/ pc'[c] = "done" /\ seen' = seen /\ res'[c] \in {"missing", "io"}
      \/ /\ pc'[c] = "stream" /\ res' = res /\ objects[Key(c)] # None
         /\ seen' = [seen EXCEPT ![c] = objects[Key(c)]]
  BY DEF GetObject, IInv, TypeOK
<1>3. /\ pc[c] = "get" /\ UNCHANGED <<op, buffer, sent, mine, next, listed, provider, network, found>>
      /\ \A d \in Calls : d # c => pc'[d] = pc[d] /\ res'[d] = res[d]
  BY DEF GetObject, IInv, TypeOK
<1>4. TypeOK'
  <2>1. pc' \in [Calls -> Labels]
    <3>1. \E l \in {"done", "stream"} : pc' = [pc EXCEPT ![c] = l] BY DEF GetObject
    <3> QED BY <3>1 DEF IInv, TypeOK, Labels
  <2>4. tries' \in [Calls -> 1..MaxTries]
    <3>1. tries' = [tries EXCEPT ![c] = 1] BY DEF GetObject
    <3> QED BY <3>1 DEF IInv, TypeOK
  <2>2. res' \in [Calls -> Results] BY DEF GetObject, IInv, TypeOK, Results
  <2>3. seen' \in [Calls -> Objects \cup {None}] BY <1>1, <1>2 DEF IInv, TypeOK
  <2> QED BY <1>3, <2>1, <2>2, <2>3, <2>4 DEF IInv, TypeOK
<1>5. late' \subseteq LateRequests
  BY DEF GetObject, IInv, TypeOK
<1>6. ASSUME NEW d \in Calls PROVE CallOK(d)'
  <2>1. CASE d # c
    <3>1. seen'[d] = seen[d] BY <1>2, <2>1 DEF IInv, TypeOK
    <3> QED BY <1>3, <2>1, <3>1 DEF IInv, CallOK, Puts, Reads
  <2>2. CASE d = c
    <3>1. pc'[c] = "stream" => seen'[c] # None /\ res'[c] = res[c] BY <1>2 DEF IInv, TypeOK
    <3> QED BY <1>2, <1>3, <2>2, <3>1 DEF IInv, CallOK, Puts, Reads, PutSteps
  <2> QED BY <2>1, <2>2
<1>7. ASSUME NEW d \in Calls PROVE BodyOK(d)'
  BY <1>1, <1>2, <1>3 DEF IInv, BodyOK, Puts
<1>8. ASSUME NEW d \in Calls PROVE PartsOK(d)'
  BY DEF GetObject, IInv, TypeOK, PartsOK
<1>9. ASSUME NEW d \in Calls PROVE OpenOK(d)'
  BY <1>2, <1>3 DEF IInv, OpenOK
<1>10. ASSUME NEW d \in Calls PROVE WinnerOK(d)'
  BY DEF GetObject, IInv, TypeOK, CallOK, WinnerOK, Exclusive, Puts, PutSteps
<1>11. ASSUME NEW r \in late' PROVE LateOK(r)'
  <2>1. /\ r \in late /\ UNCHANGED <<op, sent, mine, next, parts>>
        /\ \A d \in Calls \ {c} :
             pc'[d] = pc[d] /\ tries'[d] = tries[d] /\ buffer'[d] = buffer[d]
    BY DEF GetObject, IInv, TypeOK
  <2>2. pc'[c] = "done" \/ (pc[c] \in {"read", "get"} /\ (pc'[c] = "upload" => mine[c] = None))
    BY DEF GetObject, IInv, TypeOK
  <2>3. tries' \in [Calls -> Nat] BY <1>4 DEF TypeOK
  <2> QED BY <2>1, <2>2, <2>3, LateKept
<1>12. ASSUME NEW k \in Keys PROVE ObjectOK(objects[k])'
  BY DEF GetObject, IInv, TypeOK, ObjectOK, Puts
<1>13. ASSUME NEW d \in Calls PROVE ObjectOK(seen[d])'
  <2>1. ObjectOK(seen'[d]) BY <1>1, <1>2 DEF IInv, TypeOK
  <2> QED BY <1>3, <2>1 DEF ObjectOK, Puts
<1>14. UploadsAccounted'
  BY <1>2, <1>3, UploadsKept
<1> QED BY <1>4, <1>5, <1>6, <1>7, <1>8, <1>9, <1>10, <1>11, <1>12, <1>13, <1>14 DEF IInv

\* A reader's stream ends.
LEMMA StreamKeeps ==
  ASSUME IInv, NEW c \in Calls, Stream(c)
  PROVE  IInv'
<1> USE S3Assumption, RequestShape DEF Kind, Key, Size, Goto, Decide, Return, body, provider, network
<1>1. TypeOK'
  BY DEF Stream, IInv, TypeOK, Labels, Results, WriteSteps, ReadSteps
<1>2. late' \subseteq LateRequests
  BY DEF Stream, IInv, TypeOK
<1>3. ASSUME NEW d \in Calls PROVE CallOK(d)'
  BY DEF Stream, IInv, TypeOK, CallOK, Puts, Reads, PutSteps
<1>4. ASSUME NEW d \in Calls PROVE BodyOK(d)'
  BY DEF Stream, IInv, TypeOK, CallOK, BodyOK, Puts, PutSteps
<1>5. ASSUME NEW d \in Calls PROVE PartsOK(d)'
  BY DEF Stream, IInv, TypeOK, PartsOK
<1>6. ASSUME NEW d \in Calls PROVE OpenOK(d)'
  BY DEF Stream, IInv, TypeOK, OpenOK
<1>7. ASSUME NEW d \in Calls PROVE WinnerOK(d)'
  <2>1. ~Puts(c) /\ (Kind(c) # "create" \/ op[c] = None) BY DEF Stream, IInv, CallOK, Reads, Puts
  <2>2. /\ UNCHANGED <<op, objects, landed>>
        /\ \A b \in Calls : b # c => res'[b] = res[b]
    BY DEF Stream, IInv, TypeOK
  <2> QED BY <2>1, <2>2 DEF IInv, WinnerOK, Exclusive, Puts
<1>8. ASSUME NEW r \in late' PROVE LateOK(r)'
  <2>1. /\ r \in late /\ UNCHANGED <<op, sent, mine, next, parts>>
        /\ \A d \in Calls \ {c} :
             pc'[d] = pc[d] /\ tries'[d] = tries[d] /\ buffer'[d] = buffer[d]
    BY DEF Stream, IInv, TypeOK
  <2>2. pc'[c] = "done"
    BY DEF Stream, IInv, TypeOK
  <2>3. tries' \in [Calls -> Nat] BY <1>1 DEF TypeOK
  <2> QED BY <2>1, <2>2, <2>3, LateKept
<1>9. ASSUME NEW k \in Keys PROVE ObjectOK(objects[k])'
  BY DEF Stream, IInv, TypeOK, ObjectOK, Puts
<1>10. ASSUME NEW d \in Calls PROVE ObjectOK(seen[d])'
  BY DEF Stream, IInv, TypeOK, ObjectOK, Puts
<1>11. UploadsAccounted'
  <2>1. mine[c] = None BY DEF Stream, Reads, IInv, CallOK, BodyOK, Puts
  <2>2. mine[c] \notin uploads BY <2>1, NoUpload
  <2> QED BY <2>2 DEF Stream, IInv, TypeOK, UploadsAccounted
<1> QED BY <1>1, <1>2, <1>3, <1>4, <1>5, <1>6, <1>7, <1>8, <1>9, <1>10, <1>11 DEF IInv

\* A head request is answered.
LEMMA HeadBlobKeeps ==
  ASSUME IInv, NEW c \in Calls, HeadBlob(c)
  PROVE  IInv'
<1> USE S3Assumption, RequestShape DEF Kind, Key, Size, Goto, Decide, Return, body, provider, network
<1>1. TypeOK'
  BY DEF HeadBlob, IInv, TypeOK, Labels, Results, WriteSteps, ReadSteps
<1>2. late' \subseteq LateRequests
  BY DEF HeadBlob, IInv, TypeOK
<1>3. ASSUME NEW d \in Calls PROVE CallOK(d)'
  BY DEF HeadBlob, IInv, TypeOK, CallOK, Puts, Reads, PutSteps
<1>4. ASSUME NEW d \in Calls PROVE BodyOK(d)'
  BY DEF HeadBlob, IInv, TypeOK, CallOK, BodyOK, Puts, PutSteps
<1>5. ASSUME NEW d \in Calls PROVE PartsOK(d)'
  BY DEF HeadBlob, IInv, TypeOK, PartsOK
<1>6. ASSUME NEW d \in Calls PROVE OpenOK(d)'
  BY DEF HeadBlob, IInv, TypeOK, OpenOK
<1>7. ASSUME NEW d \in Calls PROVE WinnerOK(d)'
  BY DEF HeadBlob, IInv, TypeOK, CallOK, WinnerOK, Exclusive, Puts, PutSteps
<1>8. ASSUME NEW r \in late' PROVE LateOK(r)'
  <2>1. /\ r \in late /\ UNCHANGED <<op, sent, mine, next, parts>>
        /\ \A d \in Calls \ {c} :
             pc'[d] = pc[d] /\ tries'[d] = tries[d] /\ buffer'[d] = buffer[d]
    BY DEF HeadBlob, IInv, TypeOK
  <2>2. pc'[c] = "done"
    BY DEF HeadBlob, IInv, TypeOK
  <2>3. tries' \in [Calls -> Nat] BY <1>1 DEF TypeOK
  <2> QED BY <2>1, <2>2, <2>3, LateKept
<1>9. ASSUME NEW k \in Keys PROVE ObjectOK(objects[k])'
  BY DEF HeadBlob, IInv, TypeOK, ObjectOK, Puts
<1>10. ASSUME NEW d \in Calls PROVE ObjectOK(seen[d])'
  BY DEF HeadBlob, IInv, TypeOK, ObjectOK, Puts
<1>11. UploadsAccounted'
  <2>1. mine[c] = None BY DEF HeadBlob, IInv, CallOK, BodyOK, Puts
  <2>2. mine[c] \notin uploads BY <2>1, NoUpload
  <2> QED BY <2>2 DEF HeadBlob, IInv, TypeOK, UploadsAccounted
<1> QED BY <1>1, <1>2, <1>3, <1>4, <1>5, <1>6, <1>7, <1>8, <1>9, <1>10, <1>11 DEF IInv

\* A list page is answered.
LEMMA ListPageKeeps ==
  ASSUME IInv, NEW c \in Calls, ListPage(c)
  PROVE  IInv'
<1> USE S3Assumption, RequestShape DEF Kind, Key, Size, Goto, Decide, Return, body, provider, network
<1>1. TypeOK'
  BY DEF ListPage, IInv, TypeOK, Labels, Results, WriteSteps, ReadSteps
<1>2. late' \subseteq LateRequests
  BY DEF ListPage, IInv, TypeOK
<1>3. ASSUME NEW d \in Calls PROVE CallOK(d)'
  BY DEF ListPage, IInv, TypeOK, CallOK, Puts, Reads, PutSteps
<1>4. ASSUME NEW d \in Calls PROVE BodyOK(d)'
  BY DEF ListPage, IInv, TypeOK, CallOK, BodyOK, Puts, PutSteps
<1>5. ASSUME NEW d \in Calls PROVE PartsOK(d)'
  BY DEF ListPage, IInv, TypeOK, PartsOK
<1>6. ASSUME NEW d \in Calls PROVE OpenOK(d)'
  BY DEF ListPage, IInv, TypeOK, OpenOK
<1>7. ASSUME NEW d \in Calls PROVE WinnerOK(d)'
  BY DEF ListPage, IInv, TypeOK, CallOK, WinnerOK, Exclusive, Puts, PutSteps
<1>8. ASSUME NEW r \in late' PROVE LateOK(r)'
  <2>1. /\ r \in late /\ UNCHANGED <<op, sent, mine, next, parts>>
        /\ \A d \in Calls \ {c} :
             pc'[d] = pc[d] /\ tries'[d] = tries[d] /\ buffer'[d] = buffer[d]
    BY DEF ListPage, IInv, TypeOK
  <2>2. pc'[c] = "done"
    BY DEF ListPage, IInv, TypeOK
  <2>3. tries' \in [Calls -> Nat] BY <1>1 DEF TypeOK
  <2> QED BY <2>1, <2>2, <2>3, LateKept
<1>9. ASSUME NEW k \in Keys PROVE ObjectOK(objects[k])'
  BY DEF ListPage, IInv, TypeOK, ObjectOK, Puts
<1>10. ASSUME NEW d \in Calls PROVE ObjectOK(seen[d])'
  BY DEF ListPage, IInv, TypeOK, ObjectOK, Puts
<1>11. UploadsAccounted'
  <2>1. mine[c] = None BY DEF ListPage, IInv, CallOK, BodyOK, Puts
  <2>2. mine[c] \notin uploads BY <2>1, NoUpload
  <2> QED BY <2>2 DEF ListPage, IInv, TypeOK, UploadsAccounted
<1> QED BY <1>1, <1>2, <1>3, <1>4, <1>5, <1>6, <1>7, <1>8, <1>9, <1>10, <1>11 DEF IInv

\* A request gets no reply.
LEMMA NoReplyKeeps ==
  ASSUME IInv, NEW c \in Calls, NoReply(c)
  PROVE  IInv'
<1> USE S3Assumption, RequestShape DEF Kind, Key, Size, Goto, Decide, Return, body, provider, network
<1>1. UNCHANGED <<op, buffer, sent, mine, next, listed, objects, uploads, parts, landed, seen>>
  BY DEF NoReply
<1>2. \A d \in Calls : d # c => pc'[d] = pc[d] /\ res'[d] = res[d] /\ tries'[d] = tries[d]
  BY SMTT(30) DEF NoReply, GiveUp, IInv, TypeOK
<1>3. \/ pc'[c] = pc[c] /\ tries'[c] = tries[c] + 1 /\ res'[c] = res[c]
      \/ pc[c] = "complete" /\ pc'[c] = "abort" /\ res'[c] = "io"
      \/ pc[c] = "abort" /\ pc'[c] = "done" /\ res'[c] = res[c]
      \/ pc[c] \notin {"complete", "abort"} /\ pc'[c] = "done" /\ res'[c] = "io"
  BY DEF NoReply, GiveUp, IInv, TypeOK
<1>4. \/ pc[c] \in ReadSteps /\ late' = late
      \/ pc[c] \in WriteSteps /\ late' = late \cup {Sent(c)}
  BY DEF NoReply
<1>5. pc[c] \in WriteSteps \cup ReadSteps /\ tries[c] \in Nat /\ tries'[c] \in Nat
  BY <1>3, SMTT(30) DEF NoReply, GiveUp, IInv, TypeOK
<1>6. TypeOK'
  <2>1. \A r \in late' : r.call \in Calls /\ r.step \in WriteSteps BY <1>4 DEF IInv, TypeOK, Sent
  <2>2. faults' \in 0..MaxFaults BY DEF NoReply, IInv, TypeOK
  <2>3. \E l \in {"abort", "done", pc[c]} : pc' = [pc EXCEPT ![c] = l]
    BY DEF NoReply, GiveUp, IInv, TypeOK
  <2>4. pc' \in [Calls -> Labels] BY <2>3 DEF IInv, TypeOK, Labels, WriteSteps
  <2>5. tries' \in [Calls -> 1..MaxTries] /\ res' \in [Calls -> Results]
    <3>1. \E q \in 1..MaxTries : tries' = [tries EXCEPT ![c] = q]
      <4>1. tries[c] \in 1..MaxTries BY DEF IInv, TypeOK
      <4>2. CASE tries[c] < MaxTries /\ tries' = [tries EXCEPT ![c] = @ + 1]
        <5>1. tries[c] + 1 \in 1..MaxTries BY <4>1, <4>2
        <5> QED BY <4>2, <5>1
      <4>3. CASE tries' = [tries EXCEPT ![c] = 1]
        <5>1. 1 \in 1..MaxTries OBVIOUS
        <5> QED BY <4>3, <5>1
      <4> QED BY <4>2, <4>3 DEF NoReply, GiveUp
    <3>2. res' = res \/ res' = [res EXCEPT ![c] = "io"] BY DEF NoReply, GiveUp
    <3>3. tries' \in [Calls -> 1..MaxTries] BY <3>1 DEF IInv, TypeOK
    <3>4. res' \in [Calls -> Results] BY <3>2 DEF IInv, TypeOK, Results
    <3> QED BY <3>3, <3>4
  <2> QED BY <1>1, <2>1, <2>2, <2>3, <2>4, <2>5 DEF IInv, TypeOK
<1>7. late' \subseteq LateRequests
  <2>1. ASSUME pc[c] \in WriteSteps PROVE Sent(c) \in LateRequests
    BY <1>1, <1>3, <2>1, SentLate
  <2> QED BY <1>4, <2>1 DEF IInv
<1>8. ASSUME NEW d \in Calls PROVE CallOK(d)'
  BY <1>1, <1>2, <1>3, <1>5 DEF IInv, CallOK, Puts, Reads, PutSteps, WriteSteps, ReadSteps
<1>9. ASSUME NEW d \in Calls PROVE BodyOK(d)'
  BY <1>1, <1>2, <1>3, <1>5 DEF IInv, BodyOK, Puts, WriteSteps, ReadSteps
<1>10. ASSUME NEW d \in Calls PROVE PartsOK(d)'
  BY <1>1 DEF IInv, PartsOK
<1>11. ASSUME NEW d \in Calls PROVE OpenOK(d)'
  BY <1>1, <1>2, <1>3, <1>5 DEF IInv, OpenOK
<1>12. ASSUME NEW d \in Calls PROVE WinnerOK(d)'
  BY <1>1, <1>2, <1>3, <1>5 DEF IInv, WinnerOK, CallOK, Exclusive, Puts
<1>13. ASSUME NEW r \in late' PROVE LateOK(r)'
  <2>1. tries' \in [Calls -> Nat] BY <1>6 DEF TypeOK
  <2>2. CASE r \in late BY <1>1, <1>2, <1>3, <1>5, <2>1, <2>2, LateKept
  <2>3. CASE r \notin late
    <3>1. r = Sent(c) /\ pc[c] \in WriteSteps BY <1>4, <2>3
    <3> QED BY <1>1, <1>3, <3>1, SentLate
  <2> QED BY <2>2, <2>3
<1>14. ASSUME NEW k \in Keys PROVE ObjectOK(objects[k])'
  BY <1>1 DEF IInv, ObjectOK, Puts
<1>15. ASSUME NEW d \in Calls PROVE ObjectOK(seen[d])'
  BY <1>1 DEF IInv, ObjectOK, Puts
<1>16. UploadsAccounted'
  <2> SUFFICES ASSUME NEW d \in Calls, pc'[d] = "done", res'[d] \in {"ok", "exists"}, mine[d] \in uploads
               PROVE  \E r \in late' : r.call = d /\ r.step = "abort"
    BY <1>1 DEF UploadsAccounted
  <2>1. CASE d # c BY <1>1, <1>2, <1>4, <2>1 DEF IInv, UploadsAccounted
  <2>2. CASE d = c
    <3>1. pc[c] = "abort" BY <1>3, <1>5, <2>2 DEF WriteSteps, ReadSteps
    <3>2. Sent(c) \in late' BY <1>4, <3>1 DEF ReadSteps
    <3> QED BY <2>2, <3>1, <3>2 DEF Sent
  <2> QED BY <2>1, <2>2
<1> QED BY <1>6, <1>7, <1>8, <1>9, <1>10, <1>11, <1>12, <1>13, <1>14, <1>15, <1>16 DEF IInv

\* The future of a call is dropped.
LEMMA InterruptKeeps ==
  ASSUME IInv, NEW c \in Calls, Interrupt(c)
  PROVE  IInv'
<1> USE S3Assumption, RequestShape DEF Kind, Key, Size, Goto, Decide, Return, body, provider, network
<1>1. UNCHANGED <<op, buffer, sent, mine, next, listed, objects, uploads, parts, landed, seen>>
  BY DEF Interrupt
<1>2. \A d \in Calls : d # c => pc'[d] = pc[d] /\ res'[d] = res[d] /\ tries'[d] = tries[d]
  BY DEF Interrupt, IInv, TypeOK
<1>3. pc[c] \notin {"idle", "done"} /\ pc'[c] = "done" /\ res'[c] = "dropped"
  BY DEF Interrupt, IInv, TypeOK
<1>4. late' = late \/ (pc[c] \in WriteSteps /\ late' = late \cup {Sent(c)})
  BY DEF Interrupt
<1>5. TypeOK'
  <2>1. \A r \in late' : r.call \in Calls /\ r.step \in WriteSteps BY <1>4 DEF IInv, TypeOK, Sent
  <2>2. faults' \in 0..MaxFaults BY DEF Interrupt, IInv, TypeOK
  <2>3. pc' = [pc EXCEPT ![c] = "done"] /\ tries' = [tries EXCEPT ![c] = 1]
        /\ res' = [res EXCEPT ![c] = "dropped"]
    BY DEF Interrupt
  <2>4. pc' \in [Calls -> Labels] BY <2>3 DEF IInv, TypeOK, Labels
  <2>5. tries' \in [Calls -> 1..MaxTries] /\ res' \in [Calls -> Results]
    BY <2>3 DEF IInv, TypeOK, Results
  <2> QED BY <1>1, <2>1, <2>2, <2>3, <2>4, <2>5 DEF IInv, TypeOK
<1>6. late' \subseteq LateRequests
  <2>1. ASSUME pc[c] \in WriteSteps PROVE Sent(c) \in LateRequests
    BY <1>1, <1>3, <2>1, SentLate
  <2> QED BY <1>4, <2>1 DEF IInv
<1>7. ASSUME NEW d \in Calls PROVE CallOK(d)'
  BY <1>1, <1>2, <1>3 DEF IInv, CallOK, Puts, Reads, PutSteps
<1>8. ASSUME NEW d \in Calls PROVE BodyOK(d)'
  BY <1>1, <1>2, <1>3 DEF IInv, BodyOK, Puts
<1>9. ASSUME NEW d \in Calls PROVE PartsOK(d)'
  BY <1>1 DEF IInv, PartsOK
<1>10. ASSUME NEW d \in Calls PROVE OpenOK(d)'
  BY <1>1, <1>2, <1>3 DEF IInv, OpenOK
<1>11. ASSUME NEW d \in Calls PROVE WinnerOK(d)'
  BY <1>1, <1>2, <1>3 DEF IInv, WinnerOK, Exclusive, Puts
<1>12. ASSUME NEW r \in late' PROVE LateOK(r)'
  <2>1. tries' \in [Calls -> Nat] BY <1>5 DEF TypeOK
  <2>2. CASE r \in late BY <1>1, <1>2, <1>3, <2>1, <2>2, LateKept
  <2>3. CASE r \notin late
    <3>1. r = Sent(c) /\ pc[c] \in WriteSteps BY <1>4, <2>3
    <3> QED BY <1>1, <1>3, <3>1, SentLate
  <2> QED BY <2>2, <2>3
<1>13. ASSUME NEW k \in Keys PROVE ObjectOK(objects[k])'
  BY <1>1 DEF IInv, ObjectOK, Puts
<1>14. ASSUME NEW d \in Calls PROVE ObjectOK(seen[d])'
  BY <1>1 DEF IInv, ObjectOK, Puts
<1>15. UploadsAccounted'
  BY <1>1, <1>2, <1>3, <1>4, UploadsKept
<1> QED BY <1>5, <1>6, <1>7, <1>8, <1>9, <1>10, <1>11, <1>12, <1>13, <1>14, <1>15 DEF IInv

\* The upload is created.
LEMMA CreateUploadKeeps ==
  ASSUME IInv, NEW c \in Calls, CreateUpload(c)
  PROVE  IInv'
<1> USE S3Assumption, RequestShape DEF Kind, Key, Size, Goto, Decide, Return, body, provider, network
<1>1. /\ Sent(c).call = c /\ Sent(c).step = pc[c] /\ Sent(c).n = next[c]
      /\ Sent(c).piece = <<sent[c], sent[c] + PartLen(c)>>
      /\ Sent(c).id = IF pc[c] = "upload" THEN <<c, tries[c]>> ELSE mine[c]
  BY DEF Sent
<1>2. /\ pc[c] = "upload" /\ pc'[c] = "part" /\ mine'[c] = <<c, tries[c]>>
      /\ \A d \in Calls : d # c => pc'[d] = pc[d] /\ tries'[d] = tries[d] /\ mine'[d] = mine[d]
  BY DEF CreateUpload, IInv, TypeOK
<1>3. uploads' = uploads \cup {<<c, tries[c]>>} /\ UNCHANGED <<objects, parts, landed>>
  <2> DEFINE q == Sent(c)
  <2>1. Execute(q) BY DEF CreateUpload
  <2>2. q.step = "upload" /\ q.id = <<c, tries[c]>> BY <1>1, <1>2
  <2> HIDE DEF q
  <2> QED BY <2>1, <2>2, Executed
<1>4. UNCHANGED <<op, res, buffer, sent, next, listed, late, faults, seen>>
  BY DEF CreateUpload
<1>5. mine[c] = None /\ tries[c] \in Nat /\ <<c, tries[c]>> \in Ids /\ mine'[c] # None
  BY <1>2 DEF IInv, TypeOK, BodyOK, Ids
<1>6. TypeOK'
  <2>1. pc' \in [Calls -> Labels] /\ tries' \in [Calls -> 1..MaxTries]
    BY DEF CreateUpload, IInv, TypeOK, Labels, WriteSteps
  <2>2. mine' \in [Calls -> Ids \cup {None}] /\ uploads' \subseteq Ids
    BY <1>3, <1>5 DEF CreateUpload, IInv, TypeOK
  <2> QED BY <1>3, <1>4, <2>1, <2>2 DEF IInv, TypeOK
<1>7. late' \subseteq LateRequests
  BY <1>4 DEF IInv
<1>8. ASSUME NEW d \in Calls PROVE CallOK(d)'
  BY <1>2, <1>4 DEF IInv, CallOK, Puts, Reads, PutSteps
<1>9. ASSUME NEW d \in Calls PROVE BodyOK(d)'
  BY <1>2, <1>4, <1>5 DEF IInv, CallOK, BodyOK, Puts, PutSteps
<1>10. ASSUME NEW d \in Calls PROVE PartsOK(d)'
  BY <1>3, <1>4 DEF IInv, PartsOK
<1>11. ASSUME NEW d \in Calls PROVE OpenOK(d)'
  BY <1>2, <1>3 DEF IInv, OpenOK
<1>12. ASSUME NEW d \in Calls PROVE WinnerOK(d)'
  BY <1>3, <1>4 DEF IInv, WinnerOK, Exclusive, Puts
<1>13. ASSUME NEW r \in late' PROVE LateOK(r)'
  <2> DEFINE b == r.call
  <2>1. r \in late /\ b \in Calls /\ LateOK(r) /\ r.n \in Nat \ {0} /\ r.try \in Nat
    BY <1>4 DEF IInv, LateRequests
  <2>2. CASE b # c
    <3>1. pc'[b] = pc[b] /\ tries'[b] = tries[b] /\ mine'[b] = mine[b] BY <1>2, <2>1, <2>2
    <3> QED BY <1>3, <1>4, <2>1, <3>1 DEF LateOK, Puts, PartLen
  <2>3. CASE b = c
    <3>1. next[c] = 1 BY <1>5 DEF IInv, BodyOK
    <3>2. r.step \notin {"part", "tail", "complete", "abort"} BY <1>2, <2>1, <2>3, <3>1 DEF LateOK
    <3>3. r.step = "upload" => r.id # mine'[c] BY <1>2, <1>5, <2>1, <2>3 DEF LateOK
    <3> QED BY <1>2, <1>4, <1>5, <2>1, <2>3, <3>2, <3>3 DEF LateOK, Puts
  <2> QED BY <2>2, <2>3
<1>14. ASSUME NEW k \in Keys PROVE ObjectOK(objects[k])'
  BY <1>3, <1>4 DEF IInv, ObjectOK, Puts
<1>15. ASSUME NEW d \in Calls PROVE ObjectOK(seen[d])'
  BY <1>4 DEF IInv, ObjectOK, Puts
<1>16. UploadsAccounted'
  <2> SUFFICES ASSUME NEW d \in Calls, pc'[d] = "done", res[d] \in {"ok", "exists"}, mine'[d] \in uploads'
               PROVE  \E r \in late : r.call = d /\ r.step = "abort"
    BY <1>4 DEF UploadsAccounted
  <2>1. d # c /\ pc[d] = "done" /\ mine[d] \in uploads \cup {<<c, tries[c]>>} BY <1>2, <1>3
  <2>2. mine[d] # <<c, tries[c]>> BY <1>5, <2>1 DEF IInv, BodyOK
  <2> QED BY <2>1, <2>2 DEF IInv, UploadsAccounted
<1> QED BY <1>6, <1>7, <1>8, <1>9, <1>10, <1>11, <1>12, <1>13, <1>14, <1>15, <1>16 DEF IInv

\* A part is acknowledged.
LEMMA UploadPartKeeps ==
  ASSUME IInv, NEW c \in Calls, UploadPart(c)
  PROVE  IInv'
<1> USE S3Assumption, RequestShape DEF Kind, Key, Size, Goto, Decide, Return, body, provider, network
<1>1. /\ Sent(c).call = c /\ Sent(c).step = pc[c] /\ Sent(c).n = next[c]
      /\ Sent(c).piece = <<sent[c], sent[c] + PartLen(c)>>
      /\ Sent(c).id = IF pc[c] = "upload" THEN <<c, tries[c]>> ELSE mine[c]
  BY DEF Sent
<1>2. /\ pc[c] \in {"part", "tail"} /\ next[c] <= MaxParts /\ CallOK(c) /\ BodyOK(c) /\ PartsOK(c)
      /\ mine[c] # None /\ mine[c] \in uploads
  BY DEF UploadPart, IInv, BodyOK, OpenOK
<1>3. /\ next[c] \in Nat \ {0} /\ sent[c] \in Nat /\ buffer[c] \in Nat
      /\ parts[c] \in Seq(Nat \X Nat) /\ Size(c) \in Nat
  BY <1>2 DEF IInv, TypeOK, CallOK, PutSteps, Puts
<1>4. /\ PartLen(c) \in Nat /\ PartLen(c) <= buffer[c]
      /\ pc[c] = "tail" => PartLen(c) = buffer[c]
  BY <1>2, <1>3 DEF PartLen, BodyOK
<1>5. PICK t \in Nat : t = sent[c] + PartLen(c)
  BY <1>3, <1>4
<1>6. /\ parts' = [parts EXCEPT ![c] = Stored(parts[c], next[c], <<sent[c], t>>)]
      /\ UNCHANGED <<objects, uploads, landed>>
  BY <1>1, <1>2, <1>5, Executed DEF UploadPart
<1>7. /\ next'[c] = next[c] + 1 /\ sent'[c] = t /\ buffer'[c] = buffer[c] - PartLen(c)
      /\ pc'[c] = IF pc[c] = "tail" THEN "complete"
                  ELSE IF buffer'[c] >= PartSize THEN "part" ELSE "read"
  BY <1>5 DEF UploadPart, IInv, TypeOK
<1>8. UNCHANGED <<op, res, mine, late, faults, seen>>
  BY DEF UploadPart
<1>9. \A d \in Calls : d # c =>
        /\ pc'[d] = pc[d] /\ tries'[d] = tries[d] /\ buffer'[d] = buffer[d]
        /\ sent'[d] = sent[d] /\ next'[d] = next[d] /\ listed'[d] = listed[d] /\ parts'[d] = parts[d]
  BY <1>6 DEF UploadPart, IInv, TypeOK
<1>10. /\ parts'[c] = Stored(parts[c], next[c], <<sent[c], t>>) /\ <<sent[c], t>> \in Nat \X Nat
      /\ next[c] \in 1..(Len(parts[c]) + 1) /\ parts'[c] \in Seq(Nat \X Nat)
      /\ parts'[c][next[c]] = <<sent[c], t>>
      /\ \A i \in 1..(next[c] - 1) : parts'[c][i] = parts[c][i]
  <2>1. parts'[c] = Stored(parts[c], next[c], <<sent[c], t>>) BY <1>6 DEF IInv, TypeOK
  <2>2. <<sent[c], t>> \in Nat \X Nat BY <1>3
  <2> QED BY <2>1, <2>2, NextPart
<1>11. TypeOK'
  <2>1. pc' \in [Calls -> Labels] /\ tries' \in [Calls -> 1..MaxTries]
    BY DEF UploadPart, IInv, TypeOK, Labels, WriteSteps
  <2>2. next' \in [Calls -> Nat \ {0}]
    <3>1. next' = [next EXCEPT ![c] = next[c] + 1] BY DEF UploadPart
    <3>2. next[c] + 1 \in Nat \ {0} BY <1>3
    <3> QED BY <3>1, <3>2 DEF IInv, TypeOK
  <2>3. buffer' \in [Calls -> Nat] /\ sent' \in [Calls -> Nat]
    <3>1. buffer[c] - PartLen(c) \in Nat /\ sent[c] + PartLen(c) \in Nat BY <1>3, <1>4
    <3> QED BY <3>1 DEF UploadPart, IInv, TypeOK
  <2>4. parts' \in [Calls -> Seq(Nat \X Nat)] BY <1>6, <1>10 DEF IInv, TypeOK
  <2>5. listed' \in [Calls -> Seq(Nat)] /\ listed'[c] = Append(listed[c], next[c])
    BY <1>3 DEF UploadPart, IInv, TypeOK
  <2>6. ASSUME NEW d \in Calls
        PROVE  Len(listed'[d]) + 1 = next'[d] /\ \A i \in DOMAIN listed'[d] : listed'[d][i] = i
    <3>1. CASE d # c BY <1>9, <3>1 DEF IInv, TypeOK
    <3>2. CASE d = c
      <4>1. /\ listed[c] \in Seq(Nat) /\ Len(listed[c]) + 1 = next[c]
            /\ \A i \in DOMAIN listed[c] : listed[c][i] = i
        BY DEF IInv, TypeOK
      <4>2. /\ Len(listed'[c]) = Len(listed[c]) + 1 /\ DOMAIN listed'[c] = 1..next[c]
            /\ DOMAIN listed[c] = 1..(next[c] - 1)
        BY <1>3, <2>5, <4>1
      <4>3. \A i \in 1..next[c] : listed'[c][i] = IF i = next[c] THEN next[c] ELSE listed[c][i]
        BY <1>3, <2>5, <4>1
      <4>4. Len(listed'[c]) + 1 = next'[c] BY <1>3, <1>7, <4>1, <4>2
      <4>5. ASSUME NEW i \in 1..next[c] PROVE listed'[c][i] = i
        <5>1. i # next[c] => i \in 1..(next[c] - 1) BY <1>3
        <5> QED BY <4>1, <4>2, <4>3, <5>1
      <4> QED BY <3>2, <4>2, <4>4, <4>5
    <3> QED BY <3>1, <3>2
  <2> QED BY <1>6, <1>8, <2>1, <2>2, <2>3, <2>4, <2>5, <2>6 DEF IInv, TypeOK
<1>12. late' \subseteq LateRequests
  BY <1>8 DEF IInv
<1>13. ASSUME NEW d \in Calls PROVE CallOK(d)'
  BY <1>2, <1>7, <1>8, <1>9 DEF IInv, CallOK, Puts, Reads, PutSteps
<1>14. ASSUME NEW d \in Calls PROVE BodyOK(d)'
  <2>1. CASE d # c BY <1>8, <1>9, <2>1 DEF IInv, BodyOK, Puts
  <2>2. CASE d = c
    <3>1. t + buffer'[c] = sent[c] + buffer[c] /\ t \in Nat /\ buffer'[c] \in Nat
      BY <1>3, <1>4, <1>5, <1>7
    <3>2. Puts(c) BY <1>2 DEF CallOK, PutSteps
    <3>3. pc[c] = "tail" => t = Size(c) BY <1>2, <1>3, <1>4, <1>5 DEF BodyOK
    <3> QED BY <1>2, <1>3, <1>7, <1>8, <2>2, <3>1, <3>2, <3>3 DEF BodyOK, Puts
  <2> QED BY <2>1, <2>2
<1>15. ASSUME NEW d \in Calls PROVE PartsOK(d)'
  <2>1. CASE d # c BY <1>9, <2>1 DEF IInv, PartsOK
  <2>2. CASE d = c
    <3>2. Chain(parts'[c], next[c], t) BY <1>10, NextPart
    <3>3. next'[c] - 1 = next[c] BY <1>3, <1>7
    <3> QED BY <1>7, <2>2, <3>2, <3>3 DEF PartsOK
  <2> QED BY <2>1, <2>2
<1>16. ASSUME NEW d \in Calls PROVE OpenOK(d)'
  BY <1>2, <1>6, <1>7, <1>8, <1>9 DEF IInv, OpenOK
<1>17. ASSUME NEW d \in Calls PROVE WinnerOK(d)'
  BY <1>6, <1>8 DEF IInv, WinnerOK, Exclusive, Puts
<1>18. ASSUME NEW r \in late' PROVE LateOK(r)'
  <2> DEFINE b == r.call
  <2>1. r \in late /\ b \in Calls /\ LateOK(r) /\ r.n \in Nat \ {0}
    BY <1>8 DEF IInv, LateRequests
  <2>2. CASE b # c
    <3>1. /\ pc'[b] = pc[b] /\ tries'[b] = tries[b] /\ buffer'[b] = buffer[b]
          /\ sent'[b] = sent[b] /\ next'[b] = next[b] /\ parts'[b] = parts[b]
      BY <1>9, <2>1, <2>2
    <3> QED BY <1>8, <2>1, <3>1 DEF LateOK, Puts, PartLen
  <2>3. CASE b = c
    <3>1. r.step \notin {"complete", "abort"} BY <1>2, <2>1, <2>3 DEF LateOK
    <3>2. ASSUME r.step \in {"part", "tail"} PROVE r.n < next'[c] /\ parts'[c][r.n] = r.piece
      <4>1. r.n <= next[c] BY <2>1, <2>3, <3>2 DEF LateOK
      <4>2. CASE r.n = next[c]
        <5>1. r.piece = <<sent[c], t>> BY <1>2, <1>5, <2>1, <2>3, <3>2, <4>2 DEF LateOK
        <5>2. parts'[c][r.n] = r.piece BY <1>10, <4>2, <5>1
        <5>3. next[c] < next[c] + 1 BY <1>3
        <5> QED BY <1>7, <4>2, <5>2, <5>3
      <4>3. CASE r.n # next[c]
        <5>1. r.n < next[c] /\ r.n \in 1..(next[c] - 1) BY <1>3, <2>1, <4>1, <4>3
        <5>2. parts[c][r.n] = r.piece BY <2>1, <2>3, <3>2, <5>1 DEF LateOK
        <5>3. parts'[c][r.n] = r.piece BY <1>10, <5>1, <5>2
        <5>4. r.n < next[c] + 1 BY <1>3, <2>1, <5>1
        <5> QED BY <1>7, <5>3, <5>4
      <4> QED BY <4>2, <4>3
    <3>3. r.step \in {"part", "tail"} => r.n <= next'[c] /\ r.n # next'[c]
      BY <1>3, <1>7, <2>1, <3>2
    <3> QED BY <1>2, <1>7, <1>8, <2>1, <2>3, <3>1, <3>2, <3>3 DEF LateOK, Puts
  <2> QED BY <2>2, <2>3
<1>19. ASSUME NEW k \in Keys PROVE ObjectOK(objects[k])'
  BY <1>6, <1>8 DEF IInv, ObjectOK, Puts
<1>20. ASSUME NEW d \in Calls PROVE ObjectOK(seen[d])'
  BY <1>8 DEF IInv, ObjectOK, Puts
<1>21. UploadsAccounted'
  BY <1>6, <1>7, <1>8, <1>9 DEF IInv, UploadsAccounted
<1> QED BY <1>11, <1>12, <1>13, <1>14, <1>15, <1>16, <1>17, <1>18, <1>19, <1>20, <1>21 DEF IInv

\* A put in one request is answered.
LEMMA PutSingleKeeps ==
  ASSUME IInv, NEW c \in Calls, PutSingle(c)
  PROVE  IInv'
<1> USE S3Assumption, RequestShape DEF Kind, Key, Size, Goto, Decide, Return, body, provider, network
<1>1. /\ Sent(c).call = c /\ Sent(c).step = pc[c] /\ Sent(c).n = next[c]
      /\ Sent(c).piece = <<sent[c], sent[c] + PartLen(c)>>
      /\ Sent(c).id = IF pc[c] = "upload" THEN <<c, tries[c]>> ELSE mine[c]
  BY DEF Sent
<1>2. pc[c] = "single" /\ pc'[c] = "done" /\ res'[c] = IF Blocked(c) THEN "exists" ELSE "ok"
  BY DEF PutSingle, IInv, TypeOK
<1>3. Execute(Sent(c))
  BY DEF PutSingle
<1>4. /\ UNCHANGED <<op, buffer, sent, mine, next, listed, late, faults, seen>>
      /\ tries' \in [Calls -> 1..MaxTries]
  <2>1. tries' = [tries EXCEPT ![c] = 1] BY DEF PutSingle
  <2>2. UNCHANGED <<op, buffer, sent, mine, next, listed, late, faults, seen>> BY DEF PutSingle
  <2> QED BY <2>1, <2>2 DEF IInv, TypeOK
<1>5. \A d \in Calls : d # c => pc'[d] = pc[d] /\ res'[d] = res[d] /\ tries'[d] = tries[d]
  BY DEF PutSingle, IInv, TypeOK
<1>6. /\ IF Blocked(c) THEN UNCHANGED <<objects, landed>>
         ELSE Store(c, [by |-> c, pieces |-> <<Sent(c).piece>>])
      /\ UNCHANGED <<uploads, parts>>
  <2> DEFINE q == Sent(c)
  <2>1. Execute(q) /\ q.call = c /\ q.step = "single" BY <1>1, <1>2, <1>3
  <2> HIDE DEF q
  <2>2. /\ IF Blocked(c) THEN UNCHANGED <<objects, landed>>
           ELSE Store(c, [by |-> c, pieces |-> <<q.piece>>])
        /\ UNCHANGED <<uploads, parts>>
    BY <2>1, Executed
  <2> QED BY <2>2 DEF q
<1>7. /\ objects' \in [Keys -> Objects \cup {None}] /\ landed' \subseteq Calls
      /\ \A k \in Keys : ObjectOK(objects[k])'
      /\ \A d \in Calls : WinnerOK(d)'
  <2>1. Puts(c) /\ op[c] \in Requests BY <1>2 DEF IInv, TypeOK, CallOK, PutSteps, Puts
  <2>2. CASE Blocked(c)
    <3>1. UNCHANGED <<op, objects, landed>> /\ res'[c] = "exists" BY <1>2, <1>4, <1>6, <2>2
    <3> QED BY <1>5, <2>2, <3>1, Unwritten DEF Blocked
  <2>3. CASE ~Blocked(c)
    <3>1. Sent(c).piece = <<0, Size(c)>>
      BY <1>1, <1>2, <2>1 DEF IInv, TypeOK, BodyOK, PartLen, Puts
    <3> DEFINE o == [by |-> c, pieces |-> <<<<0, Size(c)>>>>]
    <3>2. Store(c, o) BY <1>6, <2>3, <3>1
    <3>3. ObjectOK(o) /\ o # None /\ o.by = c BY <2>1, SentObject
    <3> HIDE DEF o
    <3>4. Kind(c) = "create" => objects[Key(c)] = None BY <1>6, <2>3 DEF Blocked
    <3>5. Kind(c) \in {"put", "create"} /\ op[c] # None BY <2>1 DEF Puts
    <3>6. \A d \in Calls : res'[d] = res[d] \/ (d = c /\ res'[d] # "exists") BY <1>2, <1>5, <2>3
    <3> QED BY <1>4, <3>2, <3>3, <3>4, <3>5, <3>6, WriteLands
  <2> QED BY <2>2, <2>3
<1>8. TypeOK'
  <2>1. pc' \in [Calls -> Labels] /\ res' \in [Calls -> Results]
    BY DEF PutSingle, IInv, TypeOK, Labels, Results, WriteSteps
  <2>2. objects' \in [Keys -> Objects \cup {None}] /\ landed' \subseteq Calls /\ uploads' \subseteq Ids
    BY <1>6, <1>7 DEF IInv, TypeOK
  <2> QED BY <1>4, <1>6, <2>1, <2>2 DEF IInv, TypeOK
<1>9. late' \subseteq LateRequests
  BY <1>4 DEF IInv
<1>10. ASSUME NEW d \in Calls PROVE CallOK(d)'
  BY <1>2, <1>4, <1>5 DEF IInv, CallOK, Puts, Reads, PutSteps
<1>11. ASSUME NEW d \in Calls PROVE BodyOK(d)'
  BY <1>2, <1>4, <1>5 DEF IInv, BodyOK, Puts
<1>12. ASSUME NEW d \in Calls PROVE PartsOK(d)'
  BY <1>4, <1>6 DEF IInv, PartsOK
<1>13. ASSUME NEW d \in Calls PROVE OpenOK(d)'
  BY <1>2, <1>4, <1>5, <1>6 DEF IInv, OpenOK, Store
<1>14. ASSUME NEW d \in Calls PROVE WinnerOK(d)'
  BY <1>7
<1>15. ASSUME NEW r \in late' PROVE LateOK(r)'
  <2>1. r \in late /\ UNCHANGED <<op, sent, mine, next, parts>> BY <1>4, <1>6
  <2>2. tries' \in [Calls -> Nat] BY <1>4
  <2>3. \A d \in Calls \ {c} : pc'[d] = pc[d] /\ tries'[d] = tries[d] /\ buffer'[d] = buffer[d]
    BY <1>4, <1>5
  <2> QED BY <1>2, <2>1, <2>2, <2>3, LateKept
<1>16. ASSUME NEW k \in Keys PROVE ObjectOK(objects[k])'
  BY <1>7
<1>17. ASSUME NEW d \in Calls PROVE ObjectOK(seen[d])'
  BY <1>4 DEF IInv, ObjectOK, Puts
<1>18. UploadsAccounted'
  <2>1. mine[c] = None BY <1>2 DEF IInv, BodyOK
  <2>2. mine[c] \notin uploads BY <2>1, NoUpload
  <2> QED BY <1>4, <1>5, <1>6, <2>2 DEF IInv, UploadsAccounted
<1> QED BY <1>8, <1>9, <1>10, <1>11, <1>12, <1>13, <1>14, <1>15, <1>16, <1>17, <1>18 DEF IInv

\* A completion is answered.
LEMMA CompleteKeeps ==
  ASSUME IInv, NEW c \in Calls, Complete(c)
  PROVE  IInv'
<1> USE S3Assumption, RequestShape DEF Kind, Key, Size, Goto, Decide, Return, body, provider, network
<1>1. /\ Sent(c).call = c /\ Sent(c).step = pc[c] /\ Sent(c).n = next[c]
      /\ Sent(c).piece = <<sent[c], sent[c] + PartLen(c)>>
      /\ Sent(c).id = IF pc[c] = "upload" THEN <<c, tries[c]>> ELSE mine[c]
  BY DEF Sent
<1>2. /\ pc[c] = "complete"
      /\ \/ mine[c] \in uploads /\ ~Blocked(c) /\ pc'[c] = "done" /\ res'[c] = "ok"
         \/ Blocked(c) /\ pc'[c] = "abort" /\ res'[c] = "exists"
         \/ mine[c] \notin uploads /\ pc'[c] = "done" /\ res'[c] = "ok"
         \/ mine[c] \notin uploads /\ pc'[c] = "abort" /\ res'[c] = "io"
  BY DEF Complete, IInv, TypeOK
<1>3. Execute(Sent(c))
  BY DEF Complete
<1>4. /\ UNCHANGED <<op, buffer, sent, mine, next, listed, late, faults, seen>>
      /\ tries' \in [Calls -> 1..MaxTries]
  <2>1. tries' = [tries EXCEPT ![c] = 1] BY DEF Complete
  <2>2. UNCHANGED <<op, buffer, sent, mine, next, listed, late, faults, seen>> BY DEF Complete
  <2> QED BY <2>1, <2>2 DEF IInv, TypeOK
<1>5. \A d \in Calls : d # c => pc'[d] = pc[d] /\ res'[d] = res[d] /\ tries'[d] = tries[d]
  BY DEF Complete, IInv, TypeOK
<1>6. /\ IF mine[c] \in uploads /\ ~Blocked(c)
           THEN Store(c, [by |-> c, pieces |-> Assemble(c)]) /\ uploads' = uploads \ {mine[c]}
           ELSE UNCHANGED <<objects, landed, uploads>>
      /\ parts' = parts
  <2> DEFINE q == Sent(c)
  <2>1. Execute(q) /\ q.call = c /\ q.step = "complete" /\ q.id = mine[c] BY <1>1, <1>2, <1>3
  <2> HIDE DEF q
  <2> QED BY <2>1, Executed
<1>7. /\ objects' \in [Keys -> Objects \cup {None}] /\ landed' \subseteq Calls
      /\ \A k \in Keys : ObjectOK(objects[k])'
      /\ \A d \in Calls : WinnerOK(d)'
  <2>1. /\ Puts(c) /\ op[c] \in Requests /\ sent[c] = Size(c) /\ next[c] > 1
        /\ mine[c] \in uploads \/ c \in landed
    BY <1>2 DEF IInv, TypeOK, CallOK, BodyOK, OpenOK, PutSteps, Puts
  <2>2. CASE ~(mine[c] \in uploads /\ ~Blocked(c))
    <3>1. UNCHANGED <<op, objects, landed>> BY <1>4, <1>6, <2>2
    <3>2. res'[c] = "exists" => objects[Key(c)] # None BY <1>2 DEF Blocked
    <3>3. res'[c] = "ok" => c \in landed BY <1>2, <2>1, <2>2
    <3> QED BY <1>5, <2>1, <3>1, <3>2, <3>3, Unwritten
  <2>3. CASE mine[c] \in uploads /\ ~Blocked(c)
    <3> DEFINE o == [by |-> c, pieces |-> Assemble(c)]
    <3>2. Store(c, o) BY <1>6, <2>3
    <3>3. ObjectOK(o) /\ o # None /\ o.by = c BY <2>1, SentObject
    <3> HIDE DEF o
    <3>4. Kind(c) = "create" => objects[Key(c)] = None BY <1>6, <2>3 DEF Blocked
    <3>5. Kind(c) \in {"put", "create"} /\ op[c] # None BY <2>1 DEF Puts
    <3>6. \A d \in Calls : res'[d] = res[d] \/ (d = c /\ res'[d] # "exists") BY <1>2, <1>5, <2>3
    <3> QED BY <1>4, <3>2, <3>3, <3>4, <3>5, <3>6, WriteLands
  <2> QED BY <2>2, <2>3
<1>8. TypeOK'
  <2>1. pc' \in [Calls -> Labels] /\ res' \in [Calls -> Results]
    <3>1. \E l \in {"done", "abort"}, a \in {"ok", "exists", "io"} :
            pc' = [pc EXCEPT ![c] = l] /\ res' = [res EXCEPT ![c] = a]
      BY DEF Complete
    <3>2. {"done", "abort"} \subseteq Labels /\ {"ok", "exists", "io"} \subseteq Results
      BY DEF Labels, Results, WriteSteps
    <3> QED BY <3>1, <3>2 DEF IInv, TypeOK
  <2>2. objects' \in [Keys -> Objects \cup {None}] /\ landed' \subseteq Calls /\ uploads' \subseteq Ids
    BY <1>6, <1>7 DEF IInv, TypeOK
  <2> QED BY <1>4, <1>6, <2>1, <2>2 DEF IInv, TypeOK
<1>9. late' \subseteq LateRequests
  BY <1>4 DEF IInv
<1>10. ASSUME NEW d \in Calls PROVE CallOK(d)'
  BY <1>2, <1>4, <1>5 DEF IInv, CallOK, Puts, Reads, PutSteps
<1>11. ASSUME NEW d \in Calls PROVE BodyOK(d)'
  BY <1>2, <1>4, <1>5 DEF IInv, BodyOK, Puts
<1>12. ASSUME NEW d \in Calls PROVE PartsOK(d)'
  BY <1>4, <1>6 DEF IInv, PartsOK
<1>13. ASSUME NEW d \in Calls PROVE OpenOK(d)'
  <2>1. CASE d = c BY <1>2, <2>1 DEF OpenOK
  <2>2. CASE d # c
    <3>1. /\ pc'[d] = pc[d] /\ mine' = mine /\ (d \in landed => d \in landed')
          /\ mine[d] # None /\ mine[d] \in uploads => mine[d] \in uploads'
      BY <1>4, <1>5, <1>6, <2>2, OwnUpload DEF Store
    <3> QED BY <3>1 DEF IInv, OpenOK, BodyOK
  <2> QED BY <2>1, <2>2
<1>14. ASSUME NEW d \in Calls PROVE WinnerOK(d)'
  BY <1>7
<1>15. ASSUME NEW r \in late' PROVE LateOK(r)'
  <2>1. r \in late /\ UNCHANGED <<op, sent, mine, next, parts>> BY <1>4, <1>6
  <2>2. tries' \in [Calls -> Nat] BY <1>4
  <2>3. \A d \in Calls \ {c} : pc'[d] = pc[d] /\ tries'[d] = tries[d] /\ buffer'[d] = buffer[d]
    BY <1>4, <1>5
  <2> QED BY <1>2, <2>1, <2>2, <2>3, LateKept
<1>16. ASSUME NEW k \in Keys PROVE ObjectOK(objects[k])'
  BY <1>7
<1>17. ASSUME NEW d \in Calls PROVE ObjectOK(seen[d])'
  BY <1>4 DEF IInv, ObjectOK, Puts
<1>18. UploadsAccounted'
  <2>1. mine'[c] \notin uploads' \/ pc'[c] # "done" BY <1>2, <1>4, <1>6
  <2>2. \A d \in Calls : mine'[d] = mine[d] /\ (mine[d] \in uploads' => mine[d] \in uploads) BY <1>4, <1>6
  <2> QED BY <1>4, <1>5, <2>1, <2>2 DEF IInv, UploadsAccounted
<1> QED BY <1>8, <1>9, <1>10, <1>11, <1>12, <1>13, <1>14, <1>15, <1>16, <1>17, <1>18 DEF IInv

\* An abort is answered.
LEMMA AbortKeeps ==
  ASSUME IInv, NEW c \in Calls, Abort(c)
  PROVE  IInv'
<1> USE S3Assumption, RequestShape DEF Kind, Key, Size, Goto, Decide, Return, body, provider, network
<1>1. /\ Sent(c).call = c /\ Sent(c).step = pc[c] /\ Sent(c).n = next[c]
      /\ Sent(c).piece = <<sent[c], sent[c] + PartLen(c)>>
      /\ Sent(c).id = IF pc[c] = "upload" THEN <<c, tries[c]>> ELSE mine[c]
  BY DEF Sent
<1>2. pc[c] = "abort" /\ pc'[c] = "done" /\ res'[c] = res[c]
  BY DEF Abort, IInv, TypeOK
<1>3. Execute(Sent(c))
  BY DEF Abort
<1>4. /\ UNCHANGED <<op, buffer, sent, mine, next, listed, late, faults, seen>>
      /\ tries' \in [Calls -> 1..MaxTries]
  <2>1. tries' = [tries EXCEPT ![c] = 1] BY DEF Abort
  <2>2. UNCHANGED <<op, buffer, sent, mine, next, listed, late, faults, seen>> BY DEF Abort
  <2> QED BY <2>1, <2>2 DEF IInv, TypeOK
<1>5. \A d \in Calls : d # c => pc'[d] = pc[d] /\ res'[d] = res[d] /\ tries'[d] = tries[d]
  BY DEF Abort, IInv, TypeOK
<1>6. uploads' = uploads \ {mine[c]} /\ UNCHANGED <<objects, parts, landed>>
  <2> DEFINE q == Sent(c)
  <2>1. Execute(q) /\ q.step = "abort" /\ q.id = mine[c] BY <1>1, <1>2, <1>3
  <2> HIDE DEF q
  <2> QED BY <2>1, Executed
<1>7. res' = res
  BY DEF Abort
<1>8. TypeOK'
  <2>1. pc' \in [Calls -> Labels] /\ res' \in [Calls -> Results]
    BY DEF Abort, IInv, TypeOK, Labels, Results, WriteSteps
  <2>2. objects' \in [Keys -> Objects \cup {None}] /\ landed' \subseteq Calls /\ uploads' \subseteq Ids
    BY <1>6, <1>7 DEF IInv, TypeOK
  <2> QED BY <1>4, <1>6, <2>1, <2>2 DEF IInv, TypeOK
<1>9. late' \subseteq LateRequests
  BY <1>4 DEF IInv
<1>10. ASSUME NEW d \in Calls PROVE CallOK(d)'
  BY <1>2, <1>4, <1>5 DEF IInv, CallOK, Puts, Reads, PutSteps
<1>11. ASSUME NEW d \in Calls PROVE BodyOK(d)'
  BY <1>2, <1>4, <1>5 DEF IInv, BodyOK, Puts
<1>12. ASSUME NEW d \in Calls PROVE PartsOK(d)'
  BY <1>4, <1>6 DEF IInv, PartsOK
<1>13. ASSUME NEW d \in Calls PROVE OpenOK(d)'
  <2>1. CASE d = c BY <1>2, <2>1 DEF OpenOK
  <2>2. CASE d # c
    <3>1. mine[c] # None BY <1>2 DEF IInv, BodyOK
    <3>2. mine[d] # mine[c] BY <2>2, <3>1, OwnUpload
    <3> QED BY <1>4, <1>5, <1>6, <2>2, <3>2 DEF IInv, OpenOK
  <2> QED BY <2>1, <2>2
<1>14. ASSUME NEW d \in Calls PROVE WinnerOK(d)'
  BY <1>4, <1>6, <1>7 DEF IInv, WinnerOK, Exclusive, Puts
<1>15. ASSUME NEW r \in late' PROVE LateOK(r)'
  <2>1. r \in late /\ UNCHANGED <<op, sent, mine, next, parts>> BY <1>4, <1>6
  <2>2. tries' \in [Calls -> Nat] BY <1>4
  <2>3. \A d \in Calls \ {c} : pc'[d] = pc[d] /\ tries'[d] = tries[d] /\ buffer'[d] = buffer[d]
    BY <1>4, <1>5
  <2> QED BY <1>2, <2>1, <2>2, <2>3, LateKept
<1>16. ASSUME NEW k \in Keys PROVE ObjectOK(objects[k])'
  BY <1>4, <1>6 DEF IInv, ObjectOK, Puts
<1>17. ASSUME NEW d \in Calls PROVE ObjectOK(seen[d])'
  BY <1>4 DEF IInv, ObjectOK, Puts
<1>18. UploadsAccounted'
  <2>1. mine'[c] \notin uploads' BY <1>4, <1>6
  <2>2. \A d \in Calls : mine'[d] = mine[d] /\ (mine[d] \in uploads' => mine[d] \in uploads) BY <1>4, <1>6
  <2> QED BY <1>4, <1>5, <2>1, <2>2 DEF IInv, UploadsAccounted
<1> QED BY <1>8, <1>9, <1>10, <1>11, <1>12, <1>13, <1>14, <1>15, <1>16, <1>17, <1>18 DEF IInv

\* A copy is answered.
LEMMA CopyBlobKeeps ==
  ASSUME IInv, NEW c \in Calls, CopyBlob(c)
  PROVE  IInv'
<1> USE S3Assumption, RequestShape DEF Kind, Key, Size, Goto, Decide, Return, body, provider, network
<1>1. /\ Sent(c).call = c /\ Sent(c).step = pc[c] /\ Sent(c).n = next[c]
      /\ Sent(c).piece = <<sent[c], sent[c] + PartLen(c)>>
      /\ Sent(c).id = IF pc[c] = "upload" THEN <<c, tries[c]>> ELSE mine[c]
  BY DEF Sent
<1>2. pc[c] = "copy" /\ pc'[c] = "done" /\ res'[c] \in {"missing", "ok"}
  BY DEF CopyBlob, IInv, TypeOK
<1>3. Execute(Sent(c))
  BY DEF CopyBlob
<1>4. /\ UNCHANGED <<op, buffer, sent, mine, next, listed, late, faults, seen>>
      /\ tries' \in [Calls -> 1..MaxTries]
  <2>1. tries' = [tries EXCEPT ![c] = 1] BY DEF CopyBlob
  <2>2. UNCHANGED <<op, buffer, sent, mine, next, listed, late, faults, seen>> BY DEF CopyBlob
  <2> QED BY <2>1, <2>2 DEF IInv, TypeOK
<1>5. \A d \in Calls : d # c => pc'[d] = pc[d] /\ res'[d] = res[d] /\ tries'[d] = tries[d]
  BY DEF CopyBlob, IInv, TypeOK
<1>6. /\ IF objects[op[c].from] = None THEN UNCHANGED <<objects, landed>>
         ELSE Store(c, objects[op[c].from])
      /\ UNCHANGED <<uploads, parts>>
  <2> DEFINE q == Sent(c)
  <2>1. Execute(q) /\ q.call = c /\ q.step = "copy" BY <1>1, <1>2, <1>3
  <2> HIDE DEF q
  <2> QED BY <2>1, Executed
<1>7. /\ objects' \in [Keys -> Objects \cup {None}] /\ landed' \subseteq Calls
      /\ \A k \in Keys : ObjectOK(objects[k])'
      /\ \A d \in Calls : WinnerOK(d)'
  <2>1. op[c] \in Requests /\ op[c] # None /\ Kind(c) = "copy" /\ ~Puts(c) /\ op[c].from \in Keys
    BY <1>2 DEF IInv, TypeOK, CallOK, Puts
  <2>2. CASE objects[op[c].from] = None
    <3>1. UNCHANGED <<op, objects, landed>> BY <1>4, <1>6, <2>2
    <3> QED BY <1>2, <1>5, <2>1, <3>1, Unwritten
  <2>3. CASE objects[op[c].from] # None
    <3> DEFINE o == objects[op[c].from]
    <3>2. Store(c, o) BY <1>6, <2>3
    <3>3. ObjectOK(o) BY <2>1 DEF IInv
    <3> HIDE DEF o
    <3>4. Kind(c) # "create" BY <2>1
    <3>5. Kind(c) \in {"copy", "delete"} /\ op[c] # None BY <2>1
    <3>6. \A d \in Calls : res'[d] = res[d] \/ (d = c /\ res'[d] # "exists") BY <1>2, <1>5, <2>3
    <3> QED BY <1>4, <3>2, <3>3, <3>4, <3>5, <3>6, WriteLands
  <2> QED BY <2>2, <2>3
<1>8. TypeOK'
  <2>1. pc' \in [Calls -> Labels] /\ res' \in [Calls -> Results]
    BY DEF CopyBlob, IInv, TypeOK, Labels, Results, WriteSteps
  <2>2. objects' \in [Keys -> Objects \cup {None}] /\ landed' \subseteq Calls /\ uploads' \subseteq Ids
    BY <1>6, <1>7 DEF IInv, TypeOK
  <2> QED BY <1>4, <1>6, <2>1, <2>2 DEF IInv, TypeOK
<1>9. late' \subseteq LateRequests
  BY <1>4 DEF IInv
<1>10. ASSUME NEW d \in Calls PROVE CallOK(d)'
  BY <1>2, <1>4, <1>5 DEF IInv, CallOK, Puts, Reads, PutSteps
<1>11. ASSUME NEW d \in Calls PROVE BodyOK(d)'
  BY <1>2, <1>4, <1>5 DEF IInv, BodyOK, Puts
<1>12. ASSUME NEW d \in Calls PROVE PartsOK(d)'
  BY <1>4, <1>6 DEF IInv, PartsOK
<1>13. ASSUME NEW d \in Calls PROVE OpenOK(d)'
  BY <1>2, <1>4, <1>5, <1>6 DEF IInv, OpenOK, Store
<1>14. ASSUME NEW d \in Calls PROVE WinnerOK(d)'
  BY <1>7
<1>15. ASSUME NEW r \in late' PROVE LateOK(r)'
  <2>1. r \in late /\ UNCHANGED <<op, sent, mine, next, parts>> BY <1>4, <1>6
  <2>2. tries' \in [Calls -> Nat] BY <1>4
  <2>3. \A d \in Calls \ {c} : pc'[d] = pc[d] /\ tries'[d] = tries[d] /\ buffer'[d] = buffer[d]
    BY <1>4, <1>5
  <2> QED BY <1>2, <2>1, <2>2, <2>3, LateKept
<1>16. ASSUME NEW k \in Keys PROVE ObjectOK(objects[k])'
  BY <1>7
<1>17. ASSUME NEW d \in Calls PROVE ObjectOK(seen[d])'
  BY <1>4 DEF IInv, ObjectOK, Puts
<1>18. UploadsAccounted'
  <2>1. mine[c] = None BY <1>2 DEF IInv, CallOK, BodyOK, Puts
  <2>2. mine[c] \notin uploads BY <2>1, NoUpload
  <2> QED BY <1>4, <1>5, <1>6, <2>2 DEF IInv, UploadsAccounted
<1> QED BY <1>8, <1>9, <1>10, <1>11, <1>12, <1>13, <1>14, <1>15, <1>16, <1>17, <1>18 DEF IInv

\* A delete is answered.
LEMMA DeleteBlobKeeps ==
  ASSUME IInv, NEW c \in Calls, DeleteBlob(c)
  PROVE  IInv'
<1> USE S3Assumption, RequestShape DEF Kind, Key, Size, Goto, Decide, Return, body, provider, network
<1>1. /\ Sent(c).call = c /\ Sent(c).step = pc[c] /\ Sent(c).n = next[c]
      /\ Sent(c).piece = <<sent[c], sent[c] + PartLen(c)>>
      /\ Sent(c).id = IF pc[c] = "upload" THEN <<c, tries[c]>> ELSE mine[c]
  BY DEF Sent
<1>2. pc[c] = "delete" /\ pc'[c] = "done" /\ res'[c] = "ok"
  BY DEF DeleteBlob, IInv, TypeOK
<1>3. Execute(Sent(c))
  BY DEF DeleteBlob
<1>4. /\ UNCHANGED <<op, buffer, sent, mine, next, listed, late, faults, seen>>
      /\ tries' \in [Calls -> 1..MaxTries]
  <2>1. tries' = [tries EXCEPT ![c] = 1] BY DEF DeleteBlob
  <2>2. UNCHANGED <<op, buffer, sent, mine, next, listed, late, faults, seen>> BY DEF DeleteBlob
  <2> QED BY <2>1, <2>2 DEF IInv, TypeOK
<1>5. \A d \in Calls : d # c => pc'[d] = pc[d] /\ res'[d] = res[d] /\ tries'[d] = tries[d]
  BY DEF DeleteBlob, IInv, TypeOK
<1>6. Store(c, None) /\ UNCHANGED <<uploads, parts>>
  <2> DEFINE q == Sent(c)
  <2>1. Execute(q) /\ q.call = c /\ q.step = "delete" BY <1>1, <1>2, <1>3
  <2> HIDE DEF q
  <2> QED BY <2>1, Executed
<1>7. /\ objects' \in [Keys -> Objects \cup {None}] /\ landed' \subseteq Calls
      /\ \A k \in Keys : ObjectOK(objects[k])'
      /\ \A d \in Calls : WinnerOK(d)'
  <2>1. op[c] # None /\ Kind(c) = "delete" BY <1>2 DEF IInv, CallOK
  <2>2. ObjectOK(None) BY DEF ObjectOK
  <2>3. \A d \in Calls : res'[d] = res[d] \/ (d = c /\ res'[d] # "exists") BY <1>2, <1>5
  <2> QED BY <1>4, <1>6, <2>1, <2>2, <2>3, WriteLands
<1>8. TypeOK'
  <2>1. pc' \in [Calls -> Labels] /\ res' \in [Calls -> Results]
    BY DEF DeleteBlob, IInv, TypeOK, Labels, Results, WriteSteps
  <2>2. objects' \in [Keys -> Objects \cup {None}] /\ landed' \subseteq Calls /\ uploads' \subseteq Ids
    BY <1>6, <1>7 DEF IInv, TypeOK
  <2> QED BY <1>4, <1>6, <2>1, <2>2 DEF IInv, TypeOK
<1>9. late' \subseteq LateRequests
  BY <1>4 DEF IInv
<1>10. ASSUME NEW d \in Calls PROVE CallOK(d)'
  BY <1>2, <1>4, <1>5 DEF IInv, CallOK, Puts, Reads, PutSteps
<1>11. ASSUME NEW d \in Calls PROVE BodyOK(d)'
  BY <1>2, <1>4, <1>5 DEF IInv, BodyOK, Puts
<1>12. ASSUME NEW d \in Calls PROVE PartsOK(d)'
  BY <1>4, <1>6 DEF IInv, PartsOK
<1>13. ASSUME NEW d \in Calls PROVE OpenOK(d)'
  BY <1>2, <1>4, <1>5, <1>6 DEF IInv, OpenOK, Store
<1>14. ASSUME NEW d \in Calls PROVE WinnerOK(d)'
  BY <1>7
<1>15. ASSUME NEW r \in late' PROVE LateOK(r)'
  <2>1. r \in late /\ UNCHANGED <<op, sent, mine, next, parts>> BY <1>4, <1>6
  <2>2. tries' \in [Calls -> Nat] BY <1>4
  <2>3. \A d \in Calls \ {c} : pc'[d] = pc[d] /\ tries'[d] = tries[d] /\ buffer'[d] = buffer[d]
    BY <1>4, <1>5
  <2> QED BY <1>2, <2>1, <2>2, <2>3, LateKept
<1>16. ASSUME NEW k \in Keys PROVE ObjectOK(objects[k])'
  BY <1>7
<1>17. ASSUME NEW d \in Calls PROVE ObjectOK(seen[d])'
  BY <1>4 DEF IInv, ObjectOK, Puts
<1>18. UploadsAccounted'
  <2>1. mine[c] = None BY <1>2 DEF IInv, CallOK, BodyOK, Puts
  <2>2. mine[c] \notin uploads BY <2>1, NoUpload
  <2> QED BY <1>4, <1>5, <1>6, <2>2 DEF IInv, UploadsAccounted
<1> QED BY <1>8, <1>9, <1>10, <1>11, <1>12, <1>13, <1>14, <1>15, <1>16, <1>17, <1>18 DEF IInv

\* A part that arrives late is the one that is kept, or the one that has not
\* been acknowledged.
LEMMA LatePart ==
  ASSUME IInv, NEW r \in late, r.step \in {"part", "tail"},
         parts' = [parts EXCEPT ![r.call] = Stored(parts[r.call], r.n, r.piece)],
         UNCHANGED <<next, sent>>
  PROVE  /\ parts' \in [Calls -> Seq(Nat \X Nat)]
         /\ \A d \in Calls : PartsOK(d)'
         /\ \A d \in Calls : \A i \in 1..(next[d] - 1) : parts'[d][i] = parts[d][i]
<1> DEFINE c == r.call
           p == parts[c]
           n == r.n
           m == next[c]
           s == sent[c]
           x == r.piece
<1>1. /\ c \in Calls /\ p \in Seq(Nat \X Nat) /\ n \in Nat \ {0} /\ x \in Nat \X Nat
      /\ m \in Nat \ {0} /\ s \in Nat /\ n <= m /\ (n < m => p[n] = x) /\ Chain(p, m - 1, s)
  BY DEF IInv, TypeOK, PartsOK, LateRequests, LateOK
<1>2. parts'[c] = Stored(p, n, x) /\ \A d \in Calls : d # c => parts'[d] = parts[d]
  BY <1>1 DEF IInv, TypeOK
<1>3. \A d \in Calls : PartsOK(d) BY DEF IInv
<1> HIDE DEF c, p, n, m, s, x
<1>4. /\ Stored(p, n, x) \in Seq(Nat \X Nat) /\ Chain(Stored(p, n, x), m - 1, s)
      /\ \A i \in 1..(m - 1) : Stored(p, n, x)[i] = p[i]
  <2>1. CASE n < m
    <3>1. n \in 1..Len(p) /\ p[n] = x BY <1>1, <2>1 DEF Chain
    <3>2. p \in Seq(Nat \X Nat) BY <1>1
    <3>3. Stored(p, n, x) = p BY <3>1, <3>2, StoredAgain
    <3> QED BY <1>1, <3>3
  <2>2. CASE n = m
    <3>1. n \in 1..(Len(p) + 1) /\ Chain(Stored(p, n, x), n - 1, s)
          /\ \A i \in 1..(n - 1) : Stored(p, n, x)[i] = p[i]
      BY <1>1, <2>2, ChainBeyond
    <3>2. p \in Seq(Nat \X Nat) /\ x \in Nat \X Nat BY <1>1
    <3>3. n \in 1..(Len(p) + 1) BY <3>1
    <3>4. Stored(p, n, x) \in Seq(Nat \X Nat) BY <3>2, <3>3, StoredSeq
    <3> QED BY <2>2, <3>1, <3>4
  <2> QED BY <1>1, <2>1, <2>2
<1>5. parts' \in [Calls -> Seq(Nat \X Nat)]
  <2>1. parts' = [parts EXCEPT ![c] = Stored(p, n, x)] BY DEF c, p, n, x
  <2> QED BY <1>4, <2>1, ZenonT(60) DEF IInv, TypeOK
<1>6. ASSUME NEW d \in Calls
      PROVE  PartsOK(d)' /\ \A i \in 1..(next[d] - 1) : parts'[d][i] = parts[d][i]
  <2>1. CASE d # c BY <1>2, <1>3, <2>1 DEF PartsOK
  <2>2. CASE d = c
    <3>1. /\ Chain(parts'[d], next[d] - 1, sent[d])
          /\ \A i \in 1..(next[d] - 1) : parts'[d][i] = parts[d][i]
      BY <1>2, <1>4, <2>2 DEF m, s, p
    <3> QED BY <3>1 DEF PartsOK
  <2> QED BY <2>1, <2>2
<1> QED BY <1>5, <1>6

\* A request that nobody waits for is carried out.
LEMMA LandKeeps ==
  ASSUME IInv, Land
  PROVE  IInv'
<1>1. PICK r \in late : Execute(r) /\ late' = late \ {r} BY DEF Land
<1>2. UNCHANGED <<op, pc, res, tries, buffer, sent, mine, next, listed, faults, seen>>
  BY DEF Land, body
<1> DEFINE c == r.call
<1>3. /\ c \in Calls /\ r.step \in WriteSteps /\ LateOK(r) /\ op[c] # None /\ op[c] \in Requests
      /\ r.id \in Ids \cup {None}
  BY DEF IInv, TypeOK, LateRequests, LateOK
<1>4. /\ objects' \in [Keys -> Objects \cup {None}] /\ landed' \subseteq Calls
      /\ \A k \in Keys : ObjectOK(objects[k])'
      /\ \A d \in Calls : WinnerOK(d)'
  <2>1. CASE UNCHANGED <<objects, landed>>
    <3>1. res'[c] = "ok" /\ Puts(c) => c \in landed BY <1>2, <1>3 DEF IInv, WinnerOK
    <3>2. \A d \in Calls : WinnerOK(d)'
      BY <1>2, <2>1 DEF IInv, WinnerOK, Exclusive, Puts, Kind, Key
    <3>3. \A k \in Keys : ObjectOK(objects[k])'
      BY <1>2, <2>1 DEF IInv, ObjectOK, Puts, Kind, Size
    <3> QED BY <2>1, <3>2, <3>3 DEF IInv, TypeOK
  <2> DEFINE Effect(o) ==
        /\ ObjectOK(o) /\ Store(c, o) /\ Kind(c) \in {"put", "create", "copy", "delete"}
        /\ Kind(c) = "create" => objects[Key(c)] = None /\ o # None /\ o.by = c
  <2>3. CASE r.step = "complete" /\ r.id \in uploads /\ ~Blocked(c)
    <3> DEFINE o == [by |-> c, pieces |-> Assemble(c)]
    <3>1. Store(c, o) BY <1>1, <2>3, Executed
    <3>2. Puts(c) /\ sent[c] = Size(c) /\ next[c] > 1 BY <1>3, <2>3 DEF LateOK
    <3>3. o # None /\ ObjectOK(o) /\ o.by = c BY <1>3, <3>2, SentObject
    <3> HIDE DEF o
    <3>4. Effect(o) BY <2>3, <3>1, <3>2, <3>3 DEF Blocked, Puts
    <3> QED BY <1>2, <1>3, <3>4, WriteLands
  <2>4. CASE r.step = "single" /\ ~Blocked(c)
    <3> DEFINE o == [by |-> c, pieces |-> <<<<0, Size(c)>>>>]
    <3>1. Puts(c) /\ r.piece = <<0, Size(c)>> BY <1>3, <2>4 DEF LateOK
    <3>2. Store(c, o)
      <4>1. Store(c, [by |-> c, pieces |-> <<r.piece>>]) BY <1>1, <2>4, Executed
      <4> QED BY <3>1, <4>1
    <3>3. o # None /\ ObjectOK(o) /\ o.by = c BY <1>3, <3>1, SentObject
    <3> HIDE DEF o
    <3>4. Effect(o) BY <2>4, <3>1, <3>2, <3>3 DEF Blocked, Puts
    <3> QED BY <1>2, <1>3, <3>4, WriteLands
  <2>5. CASE r.step = "copy" /\ objects[op[c].from] # None
    <3> DEFINE o == objects[op[c].from]
    <3>1. Store(c, o) BY <1>1, <2>5, Executed
    <3>2. Kind(c) = "copy" /\ op[c].from \in Keys
      BY <1>3, <2>5, RequestShape DEF LateOK, Kind
    <3>3. ObjectOK(o) BY <3>2 DEF IInv
    <3> HIDE DEF o
    <3>4. Effect(o) BY <3>1, <3>2, <3>3
    <3> QED BY <1>2, <1>3, <3>4, WriteLands
  <2>6. CASE r.step = "delete"
    <3>1. Store(c, None) /\ Kind(c) = "delete" BY <1>1, <1>3, <2>6, Executed DEF LateOK
    <3>2. Effect(None) BY <3>1 DEF ObjectOK
    <3> QED BY <1>2, <1>3, <3>2, WriteLands
  <2>7. \/ r.step = "complete" /\ r.id \in uploads /\ ~Blocked(c)
        \/ r.step = "single" /\ ~Blocked(c)
        \/ r.step = "copy" /\ objects[op[c].from] # None
        \/ r.step = "delete"
        \/ UNCHANGED <<objects, landed>>
    BY <1>1, <1>3, Executed DEF WriteSteps, provider
  <2> QED BY <2>1, <2>3, <2>4, <2>5, <2>6, <2>7
<1>5. /\ parts' \in [Calls -> Seq(Nat \X Nat)]
      /\ \A d \in Calls : PartsOK(d)'
      /\ \A d \in Calls : \A i \in 1..(next[d] - 1) : parts'[d][i] = parts[d][i]
  <2>1. CASE parts' = parts BY <1>2, <2>1 DEF IInv, TypeOK, PartsOK
  <2>2. CASE parts' # parts
    <3>1. r.step \in {"part", "tail"} /\ parts' = [parts EXCEPT ![c] = Stored(parts[c], r.n, r.piece)]
      BY <1>1, <1>3, <2>2, Executed DEF WriteSteps, provider
    <3> QED BY <1>2, <3>1, LatePart
  <2> QED BY <2>1, <2>2
<1>6. /\ \/ uploads' = uploads
         \/ r.step = "upload" /\ uploads' = uploads \cup {r.id}
         \/ r.step \in {"complete", "abort"} /\ uploads' = uploads \ {r.id}
      /\ r.step = "complete" => uploads' = uploads \/ c \in landed'
      /\ r.step = "abort" => uploads' = uploads \ {r.id}
      /\ landed \subseteq landed'
  BY <1>1, <1>3, Executed DEF WriteSteps, provider, Store
<1>7. uploads' \subseteq Ids
  <2>1. r.step = "upload" => r.id \in Ids
    <3>1. r.try \in Nat BY DEF IInv, LateRequests
    <3> QED BY <1>3, <3>1 DEF LateOK, Ids
  <2> QED BY <1>6, <2>1 DEF IInv, TypeOK
<1>8. ASSUME NEW d \in Calls PROVE OpenOK(d)'
  <2>1. OpenOK(d) BY DEF IInv
  <2>2. CASE mine[d] \in uploads => mine[d] \in uploads'
    BY <1>2, <1>6, <2>1, <2>2 DEF OpenOK
  <2>3. CASE mine[d] \in uploads /\ mine[d] \notin uploads'
    <3>1. r.step \in {"complete", "abort"} /\ mine[d] = r.id BY <1>6, <2>3
    <3>2. mine[c] = r.id /\ mine[c] # None BY <1>3, <3>1 DEF LateOK
    <3>3. d = c BY <1>3, <3>1, <3>2, OwnUpload
    <3>4. pc[c] \notin {"read", "part", "tail"} BY <1>3, <3>1 DEF LateOK
    <3>5. pc[c] = "complete" => c \in landed' BY <1>3, <1>6, <2>3, <3>1 DEF LateOK
    <3> QED BY <1>2, <3>3, <3>4, <3>5 DEF OpenOK
  <2> QED BY <2>2, <2>3
<1>9. ASSUME NEW q \in late' PROVE LateOK(q)'
  <2> DEFINE b == q.call
  <2>1. q \in late /\ b \in Calls /\ q.n \in Nat \ {0} /\ LateOK(q) /\ next[b] \in Nat
    BY <1>1 DEF IInv, TypeOK, LateRequests
  <2>2. q.n < next[b] => parts'[b][q.n] = parts[b][q.n]
    <3>1. q.n < next[b] => q.n \in 1..(next[b] - 1) BY <2>1
    <3> QED BY <1>5, <2>1, <3>1
  <2> QED BY <1>2, <2>1, <2>2 DEF LateOK, Puts, Kind, Size, PartLen
<1>10. UploadsAccounted'
  <2> SUFFICES ASSUME NEW d \in Calls, pc[d] = "done", res[d] \in {"ok", "exists"}, mine[d] \in uploads'
               PROVE  \E q \in late' : q.call = d /\ q.step = "abort"
    BY <1>2 DEF UploadsAccounted
  <2>1. mine[d] # None BY <1>7, S3Assumption
  <2>2. mine[d] \in uploads
    <3>1. ASSUME r.step = "upload" PROVE mine[d] # r.id
      <4>1. r.id = <<c, r.try>> /\ r.id # mine[c] BY <1>3, <3>1 DEF LateOK
      <4>2. mine[d][1] = d BY <2>1 DEF IInv, BodyOK
      <4> QED BY <4>1, <4>2
    <3> QED BY <1>6, <3>1
  <2>3. PICK q \in late : q.call = d /\ q.step = "abort" BY <2>2 DEF IInv, UploadsAccounted
  <2>4. q # r
    <3>1. ASSUME q = r PROVE FALSE
      <4>1. r.id = mine[d] /\ uploads' = uploads \ {r.id} BY <1>3, <1>6, <2>3, <3>1 DEF LateOK
      <4> QED BY <4>1
    <3> QED BY <3>1
  <2> QED BY <1>1, <2>3, <2>4
<1>11. ASSUME NEW d \in Calls PROVE CallOK(d)' /\ BodyOK(d)' /\ ObjectOK(seen[d])'
  <2>1. CallOK(d)' BY <1>2 DEF IInv, CallOK, Puts, Reads, Kind
  <2>2. BodyOK(d)' BY <1>2 DEF IInv, BodyOK, Puts, Kind, Size
  <2>3. ObjectOK(seen[d])' BY <1>2 DEF IInv, ObjectOK, Puts, Kind, Size
  <2> QED BY <2>1, <2>2, <2>3
<1>12. TypeOK' /\ late' \subseteq LateRequests
  BY <1>1, <1>2, <1>4, <1>5, <1>7 DEF IInv, TypeOK
<1> QED BY <1>4, <1>5, <1>8, <1>9, <1>10, <1>11, <1>12 DEF IInv

\* The invariant is inductive: every step of the S3 backend keeps it.
LEMMA NextIInv ==
  ASSUME IInv, [Next]_vars
  PROVE  IInv'
<1>1. ASSUME UNCHANGED vars PROVE IInv'
  <2>1. UNCHANGED <<op, pc, res, tries, buffer, sent, mine, next, listed, objects, uploads, parts,
                    landed, late, faults, seen>>
    BY <1>1 DEF vars, body, provider, network
  <2>2. TypeOK' /\ late' \subseteq LateRequests /\ UploadsAccounted'
    BY <2>1 DEF IInv, TypeOK, UploadsAccounted
  <2>3. ASSUME NEW c \in Calls PROVE CallOK(c)' /\ BodyOK(c)' /\ PartsOK(c)' /\ OpenOK(c)' /\ WinnerOK(c)'
    <3>1. CallOK(c)' BY <2>1 DEF IInv, CallOK, Puts, Reads, Kind
    <3>2. BodyOK(c)' BY <2>1 DEF IInv, BodyOK, Puts, Kind, Size
    <3>3. PartsOK(c)' /\ OpenOK(c)' BY <2>1 DEF IInv, PartsOK, OpenOK
    <3>4. WinnerOK(c)' BY <2>1 DEF IInv, WinnerOK, Exclusive, Puts, Kind, Key
    <3> QED BY <3>1, <3>2, <3>3, <3>4
  <2>4. \A r \in late' : LateOK(r)' BY <2>1 DEF IInv, LateOK, Puts, Kind, Size, PartLen
  <2>5. \A k \in Keys : ObjectOK(objects[k])' BY <2>1 DEF IInv, ObjectOK, Puts, Kind, Size
  <2>6. \A c \in Calls : ObjectOK(seen[c])' BY <2>1 DEF IInv, ObjectOK, Puts, Kind, Size
  <2> QED BY <2>2, <2>3, <2>4, <2>5, <2>6 DEF IInv
<1>2. ASSUME NEW c \in Calls, Invoke(c) \/ Step(c) \/ Interrupt(c) PROVE IInv'
  BY <1>2, InvokeKeeps, RefuseKeeps, ReadChunkKeeps, StreamFailsKeeps, EndOfStreamKeeps,
     CreateUploadKeeps, UploadPartKeeps, PartRefusedKeeps, PutSingleKeeps, CompleteKeeps, AbortKeeps,
     GetObjectKeeps, StreamKeeps, HeadBlobKeeps, CopyBlobKeeps, DeleteBlobKeeps, ListPageKeeps,
     NoReplyKeeps, InterruptKeeps
  DEF Step
<1> QED BY <1>1, <1>2, LandKeeps DEF Next, Quiescent

LEMMA Invariance == Spec => []IInv
BY InitIInv, NextIInv, PTL DEF Spec

\* What is whole in pieces is whole.
LEMMA ObjectWhole ==
  ASSUME NEW o, o # None, ObjectOK(o)
  PROVE  Whole(o)
BY DEF ObjectOK, Objects, Cut, Chain, Whole

\* The invariant has the properties that the model checker looks at.
LEMMA IInvImplies ==
  IInv => TypeOK /\ ObjectsAreWhole /\ OneConditionalWinner /\ UploadsAccounted
<1> SUFFICES ASSUME IInv PROVE ObjectsAreWhole /\ OneConditionalWinner
  BY DEF IInv
<1>1. ObjectsAreWhole BY ObjectWhole DEF IInv, ObjectsAreWhole
<1>2. OneConditionalWinner
  BY DEF IInv, WinnerOK, Exclusive, Puts, OneConditionalWinner, Kind, Key
<1> QED BY <1>1, <1>2

\* Part numbers are given out once each, only acknowledged parts are listed for
\* completion, and every other variable has its type, in every run of
\* put_blob_inner and of the other operations.
THEOREM TypeCorrect == Spec => []TypeOK
BY Invariance, IInvImplies, PTL

\* What put_blob_inner leaves at a key, and what a reader is given, is one whole
\* body in order, however many requests are retried, lost or late.
THEOREM ObjectsWhole == Spec => []ObjectsAreWhole
BY Invariance, IInvImplies, PTL

\* put_blob_if_not_exists keeps its word at a key that only conditional puts
\* address: the acknowledged body stays, Ok(None) means that there is a body.
THEOREM ConditionalWinner == Spec => []OneConditionalWinner
BY Invariance, IInvImplies, PTL

\* A put that returns Ok leaves no upload open, except when its abort got no
\* reply.
THEOREM UploadsAccountedFor == Spec => []UploadsAccounted
BY Invariance, IInvImplies, PTL

-----------------------------------------------------------------------------
(* Listing.                                                                 *)

\* strip_provider_prefix undoes provider_key.
LEMMA StripsKey ==
  ASSUME NEW k \in Keys
  PROVE  strip_provider_prefix(provider_key(k)) = k
<1>1. k \in Seq(Chars) /\ Prefix \in Seq(Chars) /\ <<Slash>> \in Seq(Chars) /\ Slash \in Chars
      /\ k # <<>> /\ k[1] # Slash
  BY S3Assumption
<1> DEFINE q == Prefix \o <<Slash>>
           l == Len(Prefix) + 1
<1>2. q \in Seq(Chars) /\ Len(q) = l /\ Len(k) \in Nat \ {0} /\ l \in Nat \ {0}
  BY <1>1, EmptySeq
<1>3. CASE Prefix = <<>>
  <2>1. provider_key(k) = k /\ l = 1 BY <1>3 DEF provider_key
  <2>2. q[1] = Slash BY <1>3
  <2>3. ~IsPrefix(q, k)
    <3>1. SubSeq(q, 1, 1)[1] = Slash /\ SubSeq(k, 1, 1)[1] = k[1] BY <1>1, <1>2, <2>1, <2>2
    <3> QED BY <1>1, <1>2, <2>1, <3>1 DEF IsPrefix
  <2> QED BY <2>1, <2>3 DEF strip_provider_prefix
<1>4. CASE Prefix # <<>>
  <2> HIDE DEF q
  <2>1. provider_key(k) = q \o k BY <1>4 DEF provider_key, q
  <2> DEFINE t == q \o k
  <2>2. t \in Seq(Chars) /\ Len(t) = l + Len(k) BY <1>1, <1>2
  <2>3. SubSeq(t, 1, l) = SubSeq(q, 1, l) BY <1>1, <1>2, SubSeqOfConcat1
  <2>4. IsPrefix(q, t) BY <1>2, <2>2, <2>3 DEF IsPrefix
  <2>5. SubSeq(t, l + 1, l + Len(k)) = SubSeq(k, 1, Len(k))
    <3> DEFINE a == l + 1
               z == l + Len(k)
    <3>1. a \in Len(q) + 1 .. Len(q) + Len(k) /\ z \in Len(q) + 1 .. Len(q) + Len(k)
          /\ a - Len(q) = 1 /\ z - Len(q) = Len(k)
      BY <1>2
    <3> HIDE DEF a, z
    <3>2. SubSeq(t, a, z) = SubSeq(k, a - Len(q), z - Len(q)) BY <1>1, <1>2, <3>1, SubSeqOfConcat2
    <3> QED BY <3>1, <3>2 DEF a, z
  <2>6. SubSeq(k, 1, Len(k)) = k BY <1>1, SubSeqFull
  <2>7. l + 1 = Len(Prefix) + 2 BY <1>1
  <2>8. strip_provider_prefix(t) = SubSeq(t, Len(Prefix) + 2, Len(t))
    BY <2>4 DEF strip_provider_prefix, q
  <2> QED BY <2>1, <2>2, <2>5, <2>6, <2>7, <2>8
<1> QED BY <1>3, <1>4

\* list_blobs names a blob by its key, or what is not in the store by its own
\* name when that begins with the prefix.
THEOREM ListingNames == Spec => []ListingNamesBlobs
<1>1. Init => ListingNamesBlobs BY DEF Init, ListingNamesBlobs
<1>2. ListingNamesBlobs /\ [Next]_vars => ListingNamesBlobs'
  <2> SUFFICES ASSUME ListingNamesBlobs, [Next]_vars
               PROVE  ListingNamesBlobs'
    OBVIOUS
  <2>1. CASE UNCHANGED found BY <2>1 DEF ListingNamesBlobs
  <2>2. ASSUME NEW c \in Calls, ListPage(c) PROVE ListingNamesBlobs'
    <3> DEFINE names == {provider_key(k) : k \in {j \in Keys : objects[j] # None}} \cup Foreign
               page == {strip_provider_prefix(n) : n \in {m \in names : IsPrefix(Prefix, m)}} \ {<<>>}
    <3>1. found' = [found EXCEPT ![c] = page] BY <2>2 DEF ListPage
    <3>2. ASSUME NEW n \in names, IsPrefix(Prefix, n)
          PROVE  \/ strip_provider_prefix(n) \in Keys
                 \/ /\ strip_provider_prefix(n) = n /\ n \in Foreign
                    /\ ~IsPrefix(Prefix \o <<Slash>>, n)
      <4>1. CASE n \in Foreign BY <4>1, S3Assumption DEF strip_provider_prefix
      <4>2. CASE n \notin Foreign
        <5>1. PICK k \in Keys : n = provider_key(k) BY <4>2
        <5> QED BY <5>1, StripsKey
      <4> QED BY <4>1, <4>2
    <3>3. \A k \in page :
            \/ k \in Keys
            \/ k \in Foreign /\ IsPrefix(Prefix, k) /\ ~IsPrefix(Prefix \o <<Slash>>, k)
      BY <3>2
    <3> HIDE DEF page
    <3>4. ASSUME NEW d \in Calls PROVE found'[d] \subseteq found[d] \/ found'[d] \subseteq page
      BY <3>1
    <3> QED BY <3>3, <3>4 DEF ListingNamesBlobs
  <2>3. \/ UNCHANGED found
        \/ \E c \in Calls : ListPage(c)
    BY DEF vars, Next, Quiescent, Land, Step, Interrupt, Invoke, Refuse, ReadChunk, StreamFails,
       EndOfStream, CreateUpload, UploadPart, PartRefused, PutSingle, Complete, Abort, GetObject,
       Stream, HeadBlob, CopyBlob, DeleteBlob, NoReply
  <2> QED BY <2>1, <2>2, <2>3
<1> QED BY <1>1, <1>2, PTL DEF Spec

-----------------------------------------------------------------------------
(* Refinement.                                                              *)

absStore == [k \in Keys |-> Abstract(objects[k])]
absReq == [c \in Calls |-> AbsRequest(c)]
absGot == [c \in Calls |-> Abstract(seen[c])]

\* Whose body an object holds.
Holder(o) == IF o = None THEN None ELSE o.by

\* Objects stand for the calls whose bodies they hold.
LEMMA Shown ==
  ASSUME IInv
  PROVE  /\ absStore = [k \in Keys |-> Holder(objects[k])]
         /\ absGot = [c \in Calls |-> Holder(seen[c])]
         /\ \A k \in Keys : Holder(objects[k]) = None <=> objects[k] = None
         /\ \A c \in Calls : Holder(seen[c]) = None <=> seen[c] = None
<1>1. ASSUME NEW o, ObjectOK(o)
      PROVE  Abstract(o) = Holder(o) /\ (Holder(o) = None <=> o = None)
  <2>1. CASE o = None BY <2>1 DEF Abstract, Holder
  <2>2. CASE o # None
    <3>1. Whole(o) /\ o.by \in Calls BY <1>1, <2>2, ObjectWhole DEF ObjectOK, Objects
    <3> QED BY <2>2, <3>1, S3Assumption DEF Abstract, Holder
  <2> QED BY <2>1, <2>2
<1>2. /\ \A k \in Keys : ObjectOK(objects[k])
      /\ \A c \in Calls : ObjectOK(seen[c])
  BY DEF IInv
<1> QED BY <1>1, <1>2 DEF absStore, absGot

\* ... and so they do after a step.
LEMMA ShownNext ==
  ASSUME IInv'
  PROVE  /\ absStore' = [k \in Keys |-> Holder(objects'[k])]
         /\ absGot' = [c \in Calls |-> Holder(seen'[c])]
<1>1. ASSUME NEW k \in Keys PROVE Abstract(objects[k])' = Holder(objects'[k])
  <2>1. ObjectOK(objects[k])' BY DEF IInv
  <2>2. objects'[k] # None => Whole(objects[k])'
    BY <2>1 DEF ObjectOK, Objects, Cut, Chain, Whole, Size
  <2> QED BY <2>2 DEF Abstract, Holder
<1>2. ASSUME NEW c \in Calls PROVE Abstract(seen[c])' = Holder(seen'[c])
  <2>1. ObjectOK(seen[c])' BY DEF IInv
  <2>2. seen'[c] # None => Whole(seen[c])'
    BY <2>1 DEF ObjectOK, Objects, Cut, Chain, Whole, Size
  <2> QED BY <2>2 DEF Abstract, Holder
<1> QED BY <1>1, <1>2 DEF absStore, absGot

\* What a call asks for, without the length of its body; an empty range asks
\* as a head does.
LEMMA Asked ==
  ASSUME IInv, NEW c \in Calls, op[c] # None
  PROVE  /\ absReq[c] # None /\ absReq[c] \in AbsRequests
         /\ Kind(c) # "list" => Key(c) \in Keys /\ absReq[c].key = Key(c)
         /\ Kind(c) # "range" => absReq[c].kind = Kind(c)
         /\ Kind(c) = "range" => absReq[c].kind = IF Empty(op[c].range) THEN "head" ELSE "range"
         /\ Kind(c) = "copy" => absReq[c].from = op[c].from /\ op[c].from \in Keys
<1>1. op[c] \in Requests BY DEF IInv, TypeOK
<1>2. absReq[c] = AbsRequest(c) BY DEF absReq
<1>3. absReq[c] \in AbsRequests BY <1>1, <1>2 DEF AbsRequest, AbsRequests, Requests, Kind, Key
<1>4. absReq[c] # None BY <1>3, S3Assumption
<1> QED BY <1>1, <1>2, <1>3, <1>4, RequestShape DEF AbsRequest, Kind, Key

\* A write that is carried out is the effect of its call.
LEMMA Effects ==
  ASSUME IInv, IInv', NEW c \in Calls, NEW o,
         op[c] # None, Kind(c) \in {"put", "create", "copy", "delete"}, op' = op, Store(c, o),
         Kind(c) \in {"put", "create"} => o # None /\ o.by = c,
         Kind(c) = "create" => objects[Key(c)] = None,
         Kind(c) = "copy" => o = objects[op[c].from] /\ o # None,
         Kind(c) = "delete" => o = None
  PROVE  R!Effect(c)
<1>1. /\ absReq[c] # None /\ absReq[c].kind = Kind(c)
      /\ Key(c) \in Keys /\ absReq[c].key = Key(c)
      /\ Kind(c) = "copy" => absReq[c].from = op[c].from /\ op[c].from \in Keys
  BY Asked
<1>2. \A k \in Keys : objects'[k] = IF k = Key(c) THEN o ELSE objects[k]
  BY <1>1 DEF IInv, TypeOK, Store
<1> DEFINE h == CASE Kind(c) = "copy" -> absStore[op[c].from] [] Kind(c) = "delete" -> None [] OTHER -> c
<1>3. /\ absStore = [k \in Keys |-> Holder(objects[k])] /\ absStore' = [k \in Keys |-> Holder(objects'[k])]
      /\ \A k \in Keys : Holder(objects[k]) = None <=> objects[k] = None
  BY Shown, ShownNext
<1>4. Holder(o) = h
  <2>1. CASE Kind(c) \in {"put", "create"} BY <2>1 DEF Holder
  <2>2. CASE Kind(c) = "copy" BY <1>1, <1>3, <2>2
  <2>3. CASE Kind(c) = "delete" BY <2>3 DEF Holder
  <2> QED BY <2>1, <2>2, <2>3
<1>5. /\ Kind(c) = "create" => absStore[Key(c)] = None
      /\ Kind(c) = "copy" => absStore[op[c].from] # None
  BY <1>1, <1>3
<1>6. absStore' = [absStore EXCEPT ![Key(c)] = h]
  <2> HIDE DEF h
  <2> QED BY <1>1, <1>2, <1>3, <1>4
<1>7. landed' = landed \cup {c} BY DEF Store
<1>8. R!Effect(c)
  <2>1. absReq[c] # None /\ absReq[c].kind \in R!Writers BY <1>1 DEF R!Writers
  <2>2. absReq[c].kind = "create" => absStore[absReq[c].key] = None BY <1>1, <1>5
  <2>3. absReq[c].kind = "copy" => absStore[absReq[c].from] # None BY <1>1, <1>5
  <2>4. absStore' = [absStore EXCEPT ![absReq[c].key] =
                       CASE absReq[c].kind = "copy"   -> absStore[absReq[c].from]
                         [] absReq[c].kind = "delete" -> None
                         [] OTHER                     -> c]
    BY <1>1, <1>6
  <2> QED BY <1>7, <2>1, <2>2, <2>3, <2>4 DEF R!Effect, R!Kind, R!Source, absStore, absReq
<1> QED BY <1>8

\* The answers that the abstract store allows.
LEMMA Answers ==
  ASSUME IInv, IInv', NEW c \in Calls, op[c] # None, res[c] = "none",
         op' = op, seen' = seen,
         NEW a \in {"ok", "exists", "missing", "precondition", "io"}, res' = [res EXCEPT ![c] = a],
         R!Effect(c) \/ UNCHANGED <<objects, landed>>,
         a = "ok" /\ Kind(c) \in {"put", "create", "copy", "delete"} => c \in landed',
         a = "ok" /\ Reads(c) => seen[c] # None,
         a = "exists" => Kind(c) = "create" /\ objects[Key(c)] # None,
         a = "missing" => \/ (Kind(c) = "head" \/ Reads(c)) /\ objects[Key(c)] = None
                          \/ Kind(c) = "copy" /\ objects[op[c].from] = None,
         a = "precondition" => Kind(c) = "range" /\ ~Empty(op[c].range)
  PROVE  R!Answer(c)
<1>1. /\ absReq[c] # None
      /\ Kind(c) # "list" => Key(c) \in Keys /\ absReq[c].key = Key(c)
      /\ Kind(c) # "range" => absReq[c].kind = Kind(c)
      /\ Kind(c) = "range" => absReq[c].kind = IF Empty(op[c].range) THEN "head" ELSE "range"
      /\ Kind(c) = "copy" => absReq[c].from = op[c].from /\ op[c].from \in Keys
  BY Asked
<1>2. /\ absStore = [k \in Keys |-> Holder(objects[k])] /\ absStore' = [k \in Keys |-> Holder(objects'[k])]
      /\ absGot = [d \in Calls |-> Holder(seen[d])] /\ absGot' = [d \in Calls |-> Holder(seen'[d])]
      /\ \A k \in Keys : Holder(objects[k]) = None <=> objects[k] = None
      /\ \A d \in Calls : Holder(seen[d]) = None <=> seen[d] = None
  BY Shown, ShownNext
<1>3. R!Effect(c) \/ UNCHANGED <<absStore, landed>> BY <1>2
<1>4. absReq' = absReq /\ absGot' = absGot
  <2>1. absReq' = absReq BY DEF absReq, AbsRequest, Kind, Key
  <2> QED BY <1>2, <2>1
<1>5. a = "ok" /\ absReq[c].kind \in R!Writers => c \in landed' BY <1>1 DEF R!Writers
<1>6. a = "ok" /\ absReq[c].kind \in {"get", "range"} => absGot[c] # None BY <1>1, <1>2 DEF Reads
<1>7. a = "exists" => absReq[c].kind = "create" /\ absStore[absReq[c].key] # None BY <1>1, <1>2
<1>8. a = "missing" => /\ absReq[c].kind \notin {"put", "create", "delete"}
                       /\ absStore[IF absReq[c].kind = "copy" THEN absReq[c].from ELSE absReq[c].key] = None
  BY <1>1, <1>2 DEF Reads
<1>9. a = "precondition" => absReq[c].kind = "range" BY <1>1
<1> HIDE DEF absReq, absStore, absGot
<1>10. /\ a = "ok" /\ absReq[c].kind \in R!Writers => c \in landed'
       /\ a = "ok" /\ absReq[c].kind \in {"get", "range"} => absGot[c] # None
       /\ a = "exists" => absReq[c].kind = "create" /\ absStore[absReq[c].key] # None
       /\ a = "missing" => /\ absReq[c].kind \notin {"put", "create", "delete"}
                           /\ absStore[IF absReq[c].kind = "copy" THEN absReq[c].from ELSE absReq[c].key] = None
       /\ a = "precondition" => absReq[c].kind = "range"
  BY <1>5, <1>6, <1>7, <1>8, <1>9
<1> QED BY <1>1, <1>3, <1>4, <1>10 DEF R!Answer, R!Kind, R!Source, absReq, absStore, absGot

\* An empty bucket stands for the empty map.
LEMMA InitRefines == Init => R!AbsInit
<1> SUFFICES ASSUME Init PROVE R!AbsInit
  OBVIOUS
<1>1. \A k \in Keys : Abstract(objects[k]) = None BY DEF Init, Abstract
<1>2. \A c \in Calls : Abstract(seen[c]) = None /\ AbsRequest(c) = None
  BY DEF Init, Abstract, AbsRequest
<1> QED BY <1>1, <1>2 DEF Init, R!AbsInit

\* Every step of the S3 backend is a step of the remote store, or invisible.
LEMMA StepRefines ==
  ASSUME IInv, IInv', [Next]_vars
  PROVE  R!AbsNext \/ UNCHANGED R!absVars
<1> USE DEF Goto, Decide, Return
<1>1. ASSUME UNCHANGED <<op, objects, landed, seen, res>> PROVE UNCHANGED R!absVars
  <2>1. absStore' = absStore /\ absGot' = absGot BY <1>1, Shown, ShownNext
  <2>2. absReq' = absReq BY <1>1 DEF absReq, AbsRequest, Kind, Key
  <2> QED BY <1>1, <2>1, <2>2 DEF R!absVars, absStore, absGot, absReq
<1>2. ASSUME NEW c \in Calls, R!Answer(c) PROVE R!AbsNext
  BY <1>2 DEF R!AbsNext
<1>3. ASSUME NEW c \in Calls, op[c] # None, res[c] = "none", UNCHANGED <<op, objects, landed, seen>>,
             res' = [res EXCEPT ![c] = "io"]
      PROVE  R!AbsNext
  BY <1>2, <1>3, Answers
<1>4. ASSUME NEW c \in Calls, Invoke(c) PROVE R!AbsNext
  <2>1. PICK r \in Requests : op' = [op EXCEPT ![c] = r] BY <1>4 DEF Invoke
  <2>2. UNCHANGED <<objects, landed, seen, res>> /\ op[c] = None
    BY <1>4 DEF Invoke, provider, IInv, CallOK
  <2>3. absStore' = absStore /\ absGot' = absGot BY <2>2, Shown, ShownNext
  <2>4. op'[c] = r /\ \A d \in Calls : d # c => op'[d] = op[d] BY <2>1 DEF IInv, TypeOK
  <2>5. absReq'[c] \in AbsRequests
    <3>1. absReq'[c] = AbsRequest(c)' BY DEF absReq
    <3>2. op'[c] \in Requests /\ op'[c] # None BY <2>4, RequestShape
    <3> QED BY <3>1, <3>2 DEF AbsRequest, AbsRequests, Requests, Kind, Key
  <2>6. absReq' = [absReq EXCEPT ![c] = absReq'[c]]
    BY <2>4 DEF absReq, AbsRequest, Kind, Key
  <2>7. absReq[c] = None BY <2>2 DEF absReq, AbsRequest
  <2>8. \E q \in AbsRequests : absReq' = [absReq EXCEPT ![c] = q] BY <2>5, <2>6
  <2>9. R!Invoke(c)
    BY <2>2, <2>3, <2>7, <2>8 DEF R!Invoke, absReq, absStore, absGot
  <2> QED BY <2>9 DEF R!AbsNext
<1>5. ASSUME NEW c \in Calls, Refuse(c) PROVE R!AbsNext
  <2>1. /\ UNCHANGED <<op, objects, landed, seen>> /\ res' = [res EXCEPT ![c] = "precondition"]
        /\ op[c] # None /\ res[c] = "none" /\ Kind(c) = "range" /\ Inverted(op[c].range)
    BY <1>5 DEF Refuse, provider, IInv, CallOK
  <2>2. ~Empty(op[c].range)
    <3>1. op[c] \in Requests BY <2>1 DEF IInv, TypeOK
    <3>2. op[c].range[1] \in Nat /\ op[c].range[2] \in Nat BY <2>1, <3>1, RequestShape DEF Kind
    <3> QED BY <2>1, <3>2 DEF Inverted, Empty
  <2> QED BY <1>2, <2>1, <2>2, Answers
<1>6. ASSUME NEW c \in Calls, StreamFails(c) \/ PartRefused(c) PROVE R!AbsNext
  <2>1. /\ UNCHANGED <<op, objects, landed, seen>> /\ res' = [res EXCEPT ![c] = "io"]
        /\ op[c] # None /\ res[c] = "none"
    BY <1>6 DEF StreamFails, PartRefused, provider, IInv, CallOK
  <2> QED BY <1>3, <2>1
<1>7. ASSUME NEW c \in Calls, ReadChunk(c) \/ EndOfStream(c) \/ CreateUpload(c) \/ UploadPart(c) \/ Abort(c)
      PROVE  UNCHANGED <<op, objects, landed, seen, res>>
  <2>1. CASE ReadChunk(c) \/ EndOfStream(c) BY <2>1 DEF ReadChunk, EndOfStream, provider
  <2>2. CASE CreateUpload(c) \/ UploadPart(c) \/ Abort(c)
    <3> DEFINE q == Sent(c)
    <3>1. Execute(q) /\ q.step \in {"upload", "part", "tail", "abort"}
      BY <2>2 DEF CreateUpload, UploadPart, Abort, Sent
    <3>2. UNCHANGED <<op, seen, res>> BY <2>2 DEF CreateUpload, UploadPart, Abort
    <3> HIDE DEF q
    <3> QED BY <3>1, <3>2, Executed
  <2> QED BY <1>7, <2>1, <2>2
<1>8. ASSUME NEW c \in Calls, PutSingle(c) PROVE R!AbsNext
  <2>1. /\ Puts(c) /\ op[c] # None /\ res[c] = "none" /\ sent[c] = 0 /\ pc[c] = "single"
        /\ UNCHANGED <<op, seen>>
        /\ res' = [res EXCEPT ![c] = IF Blocked(c) THEN "exists" ELSE "ok"]
    BY <1>8 DEF PutSingle, IInv, CallOK, BodyOK, PutSteps, Puts
  <2>2. Kind(c) \in {"put", "create"} BY <2>1 DEF Puts
  <2>3. IF Blocked(c) THEN UNCHANGED <<objects, landed>>
        ELSE Store(c, [by |-> c, pieces |-> <<Sent(c).piece>>])
    <3> DEFINE q == Sent(c)
    <3>1. Execute(q) /\ q.call = c /\ q.step = "single" BY <1>8 DEF PutSingle, Sent
    <3> HIDE DEF q
    <3>2. IF Blocked(c) THEN UNCHANGED <<objects, landed>> ELSE Store(c, [by |-> c, pieces |-> <<q.piece>>])
      BY <3>1, Executed DEF provider
    <3> QED BY <3>2 DEF q
  <2>4. CASE Blocked(c) BY <1>2, <2>1, <2>3, <2>4, Answers DEF Blocked
  <2>5. CASE ~Blocked(c)
    <3> DEFINE o == [by |-> c, pieces |-> <<Sent(c).piece>>]
    <3>1. Store(c, o) /\ o.by = c BY <2>3, <2>5
    <3>2. o # None
      <4>1. buffer[c] = Size(c) /\ buffer[c] < PartSize /\ buffer[c] \in Nat
        BY <2>1 DEF IInv, TypeOK, BodyOK
      <4>2. PartLen(c) = buffer[c] BY <4>1, S3Assumption DEF PartLen
      <4>3. Sent(c).piece = <<0, Size(c)>> BY <2>1, <4>1, <4>2 DEF Sent
      <4> QED BY <2>1, <4>3, SentObject
    <3> HIDE DEF o
    <3>3. R!Effect(c) BY <2>1, <2>2, <2>5, <3>1, <3>2, Effects DEF Blocked
    <3>4. c \in landed' BY <3>1 DEF Store
    <3>5. res' = [res EXCEPT ![c] = "ok"] BY <2>1, <2>5
    <3> QED BY <1>2, <2>1, <2>2, <3>3, <3>4, <3>5, Answers DEF Reads
  <2> QED BY <2>4, <2>5
<1>9. ASSUME NEW c \in Calls, Complete(c) PROVE R!AbsNext
  <2>1. /\ Puts(c) /\ op[c] # None /\ res[c] = "none" /\ sent[c] = Size(c) /\ next[c] > 1
        /\ UNCHANGED <<op, seen>> /\ (mine[c] \in uploads \/ c \in landed)
    BY <1>9 DEF Complete, IInv, CallOK, BodyOK, OpenOK, PutSteps, Puts
  <2>2. Kind(c) \in {"put", "create"} BY <2>1 DEF Puts
  <2>3. IF mine[c] \in uploads /\ ~Blocked(c) THEN Store(c, [by |-> c, pieces |-> Assemble(c)])
        ELSE UNCHANGED <<objects, landed>>
    <3> DEFINE q == Sent(c)
    <3>1. Execute(q) /\ q.call = c /\ q.step = "complete" /\ q.id = mine[c]
      BY <1>9 DEF Complete, Sent
    <3> HIDE DEF q
    <3> QED BY <3>1, Executed DEF provider
  <2>4. CASE mine[c] \in uploads /\ ~Blocked(c)
    <3> DEFINE o == [by |-> c, pieces |-> Assemble(c)]
    <3>1. Store(c, o) /\ o.by = c BY <2>3, <2>4
    <3>2. o # None BY <2>1, SentObject
    <3> HIDE DEF o
    <3>3. R!Effect(c) BY <2>1, <2>2, <2>4, <3>1, <3>2, Effects DEF Blocked
    <3>4. c \in landed' BY <3>1 DEF Store
    <3>5. res' = [res EXCEPT ![c] = "ok"] BY <1>9, <2>4 DEF Complete
    <3> QED BY <1>2, <2>1, <2>2, <3>3, <3>4, <3>5, Answers DEF Reads
  <2>5. CASE ~(mine[c] \in uploads /\ ~Blocked(c))
    <3>1. UNCHANGED <<objects, landed>> BY <2>3, <2>5
    <3>2. \/ Blocked(c) /\ res' = [res EXCEPT ![c] = "exists"]
          \/ mine[c] \notin uploads /\ res' = [res EXCEPT ![c] = "ok"]
          \/ res' = [res EXCEPT ![c] = "io"]
      BY <1>9, <2>5 DEF Complete
    <3>3. CASE Blocked(c) /\ res' = [res EXCEPT ![c] = "exists"]
      BY <1>2, <2>1, <3>1, <3>3, Answers DEF Blocked
    <3>4. CASE mine[c] \notin uploads /\ res' = [res EXCEPT ![c] = "ok"]
      <4>1. c \in landed' /\ ~Reads(c) BY <2>1, <2>2, <3>1, <3>4 DEF Reads
      <4> QED BY <1>2, <2>1, <3>1, <3>4, <4>1, Answers
    <3>5. CASE res' = [res EXCEPT ![c] = "io"] BY <1>3, <2>1, <3>1, <3>5
    <3> QED BY <3>2, <3>3, <3>4, <3>5
  <2> QED BY <2>4, <2>5
<1>10. ASSUME NEW c \in Calls, GetObject(c) PROVE R!AbsNext
  <2>1. /\ UNCHANGED <<op, objects, landed>> /\ op[c] # None /\ res[c] = "none" /\ Reads(c)
    BY <1>10 DEF GetObject, provider, IInv, CallOK
  <2>2. \/ objects[Key(c)] = None /\ res' = [res EXCEPT ![c] = "missing"] /\ seen' = seen
        \/ res' = [res EXCEPT ![c] = "io"] /\ seen' = seen
        \/ objects[Key(c)] # None /\ res' = res /\ seen' = [seen EXCEPT ![c] = objects[Key(c)]]
    BY <1>10 DEF GetObject
  <2>3. CASE objects[Key(c)] = None /\ res' = [res EXCEPT ![c] = "missing"] /\ seen' = seen
    BY <1>2, <2>1, <2>3, Answers
  <2>4. CASE res' = [res EXCEPT ![c] = "io"] /\ seen' = seen BY <1>3, <2>1, <2>4
  <2>5. CASE objects[Key(c)] # None /\ res' = res /\ seen' = [seen EXCEPT ![c] = objects[Key(c)]]
    <3>1. /\ absReq[c] # None /\ absReq[c].kind \in {"get", "range"}
          /\ Key(c) \in Keys /\ absReq[c].key = Key(c)
      BY <2>1, Asked DEF Reads
    <3>2. /\ absStore = [k \in Keys |-> Holder(objects[k])] /\ absStore' = absStore
          /\ absGot = [d \in Calls |-> Holder(seen[d])] /\ absGot' = [d \in Calls |-> Holder(seen'[d])]
          /\ \A k \in Keys : Holder(objects[k]) = None <=> objects[k] = None
      BY <2>1, Shown, ShownNext
    <3>3. \A d \in Calls : seen'[d] = IF d = c THEN objects[Key(c)] ELSE seen[d]
      BY <2>5 DEF IInv, TypeOK
    <3>4. absGot' = [absGot EXCEPT ![c] = absStore[Key(c)]] BY <3>1, <3>2, <3>3
    <3>5. absReq' = absReq BY <2>1 DEF absReq, AbsRequest, Kind, Key
    <3>6. absStore[Key(c)] # None BY <2>5, <3>1, <3>2
    <3>7. absReq[c].kind \in {"get", "range"} /\ absStore[absReq[c].key] # None
          /\ absGot' = [absGot EXCEPT ![c] = absStore[absReq[c].key]]
      BY <3>1, <3>4, <3>6
    <3>8. R!Look(c)
      BY <2>1, <2>5, <3>1, <3>2, <3>5, <3>7 DEF R!Look, R!Kind, absReq, absStore, absGot
    <3> QED BY <3>8 DEF R!AbsNext
  <2> QED BY <2>2, <2>3, <2>4, <2>5
<1>11. ASSUME NEW c \in Calls, Stream(c) PROVE R!AbsNext
  <2>1. /\ UNCHANGED <<op, objects, landed, seen>> /\ op[c] # None /\ res[c] = "none"
        /\ seen[c] # None /\ Reads(c)
    BY <1>11 DEF Stream, provider, IInv, CallOK
  <2>2. PICK a \in {"ok", "io"} : res' = [res EXCEPT ![c] = a] BY <1>11 DEF Stream
  <2>3. Kind(c) \notin {"put", "create", "copy", "delete"} BY <2>1 DEF Reads
  <2>4. CASE a = "io" BY <1>3, <2>1, <2>2, <2>4
  <2>5. CASE a = "ok" BY <1>2, <2>1, <2>2, <2>3, <2>5, Answers
  <2> QED BY <2>4, <2>5
<1>12. ASSUME NEW c \in Calls, HeadBlob(c) PROVE R!AbsNext
  <2>1. /\ UNCHANGED <<op, objects, landed, seen>> /\ op[c] # None /\ res[c] = "none"
        /\ Kind(c) \in {"head", "range"} /\ ~Reads(c)
        /\ res' = [res EXCEPT ![c] = IF objects[Key(c)] = None /\ Kind(c) = "head" THEN "missing" ELSE "ok"]
    BY <1>12 DEF HeadBlob, provider, IInv, CallOK, Reads
  <2>2. CASE objects[Key(c)] = None /\ Kind(c) = "head" BY <1>2, <2>1, <2>2, Answers
  <2>3. CASE ~(objects[Key(c)] = None /\ Kind(c) = "head") BY <1>2, <2>1, <2>3, Answers
  <2> QED BY <2>2, <2>3
<1>13. ASSUME NEW c \in Calls, CopyBlob(c) PROVE R!AbsNext
  <2>1. /\ UNCHANGED <<op, seen>> /\ op[c] # None /\ res[c] = "none" /\ Kind(c) = "copy"
        /\ res' = [res EXCEPT ![c] = IF objects[op[c].from] = None THEN "missing" ELSE "ok"]
    BY <1>13 DEF CopyBlob, IInv, CallOK
  <2>2. IF objects[op[c].from] # None THEN Store(c, objects[op[c].from]) ELSE UNCHANGED <<objects, landed>>
    <3> DEFINE q == Sent(c)
    <3>1. Execute(q) /\ q.call = c /\ q.step = "copy" BY <1>13 DEF CopyBlob, Sent
    <3> HIDE DEF q
    <3> QED BY <3>1, Executed DEF provider
  <2>3. CASE objects[op[c].from] = None BY <1>2, <2>1, <2>2, <2>3, Answers
  <2>4. CASE objects[op[c].from] # None
    <3>1. R!Effect(c) BY <2>1, <2>2, <2>4, Effects
    <3>2. c \in landed' BY <2>2, <2>4 DEF Store
    <3>3. res' = [res EXCEPT ![c] = "ok"] /\ ~Reads(c) BY <2>1, <2>4 DEF Reads
    <3> QED BY <1>2, <2>1, <3>1, <3>2, <3>3, Answers
  <2> QED BY <2>3, <2>4
<1>14. ASSUME NEW c \in Calls, DeleteBlob(c) PROVE R!AbsNext
  <2>1. /\ UNCHANGED <<op, seen>> /\ op[c] # None /\ res[c] = "none" /\ Kind(c) = "delete"
        /\ res' = [res EXCEPT ![c] = "ok"]
    BY <1>14 DEF DeleteBlob, IInv, CallOK
  <2>2. Store(c, None)
    <3> DEFINE q == Sent(c)
    <3>1. Execute(q) /\ q.call = c /\ q.step = "delete" BY <1>14 DEF DeleteBlob, Sent
    <3> HIDE DEF q
    <3> QED BY <3>1, Executed
  <2>3. R!Effect(c) BY <2>1, <2>2, Effects
  <2>4. c \in landed' /\ ~Reads(c) BY <2>1, <2>2 DEF Store, Reads
  <2> QED BY <1>2, <2>1, <2>3, <2>4, Answers
<1>15. ASSUME NEW c \in Calls, ListPage(c) PROVE R!AbsNext
  <2>1. /\ UNCHANGED <<op, objects, landed, seen>> /\ op[c] # None /\ res[c] = "none"
        /\ Kind(c) = "list" /\ ~Reads(c) /\ res' = [res EXCEPT ![c] = "ok"]
    BY <1>15 DEF ListPage, provider, IInv, CallOK, Reads
  <2> QED BY <1>2, <2>1, Answers
<1>16. ASSUME NEW c \in Calls, NoReply(c)
       PROVE  R!AbsNext \/ UNCHANGED <<op, objects, landed, seen, res>>
  <2>1. UNCHANGED <<op, objects, landed, seen>> BY <1>16 DEF NoReply, provider
  <2>2. \/ res' = res
        \/ pc[c] # "abort" /\ res' = [res EXCEPT ![c] = "io"]
    BY <1>16 DEF NoReply, GiveUp
  <2>3. pc[c] # "abort" => op[c] # None /\ res[c] = "none"
    BY <1>16 DEF NoReply, WriteSteps, ReadSteps, IInv, CallOK
  <2> QED BY <1>3, <2>1, <2>2, <2>3
<1>17. ASSUME NEW c \in Calls, Interrupt(c) PROVE R!AbsNext
  <2>1. /\ UNCHANGED <<op, objects, landed, seen>> /\ op[c] # None
        /\ res' = [res EXCEPT ![c] = "dropped"]
    BY <1>17 DEF Interrupt, provider, IInv, CallOK
  <2>2. absReq[c] # None BY <2>1, Asked
  <2>3. absStore' = absStore /\ absGot' = absGot BY <2>1, Shown, ShownNext
  <2>4. absReq' = absReq BY <2>1 DEF absReq, AbsRequest, Kind, Key
  <2>5. R!Drop(c) BY <2>1, <2>2, <2>3, <2>4 DEF R!Drop, absReq, absStore, absGot
  <2> QED BY <2>5 DEF R!AbsNext
<1>18. ASSUME Land PROVE R!AbsNext \/ UNCHANGED <<op, objects, landed, seen, res>>
  <2>1. PICK r \in late : Execute(r) BY <1>18 DEF Land
  <2>2. UNCHANGED <<op, seen, res>> BY <1>18 DEF Land
  <2> DEFINE c == r.call
  <2>3. c \in Calls /\ op[c] # None /\ r.step \in WriteSteps /\ LateOK(r)
    BY DEF IInv, TypeOK, LateOK
  <2>4. ASSUME R!Effect(c) PROVE R!AbsNext
    <3>1. absGot' = absGot BY <2>2, Shown, ShownNext
    <3>2. absReq' = absReq BY <2>2 DEF absReq, AbsRequest, Kind, Key
    <3>3. R!Land(c) BY <2>2, <2>4, <3>1, <3>2 DEF R!Land, absReq, absGot
    <3> QED BY <2>3, <3>3 DEF R!AbsNext
  <2>5. CASE r.step = "complete" /\ r.id \in uploads /\ ~Blocked(c)
    <3> DEFINE o == [by |-> c, pieces |-> Assemble(c)]
    <3>1. Store(c, o) /\ o.by = c BY <2>1, <2>5, Executed
    <3>2. Puts(c) /\ sent[c] = Size(c) /\ next[c] > 1 BY <2>3, <2>5 DEF LateOK
    <3>3. o # None BY <2>3, <3>2, SentObject
    <3> HIDE DEF o
    <3>4. Kind(c) \in {"put", "create"} BY <3>2 DEF Puts
    <3>5. R!Effect(c) BY <2>2, <2>3, <2>5, <3>1, <3>3, <3>4, Effects DEF Blocked
    <3> QED BY <2>4, <3>5
  <2>6. CASE r.step = "single" /\ ~Blocked(c)
    <3> DEFINE o == [by |-> c, pieces |-> <<<<0, Size(c)>>>>]
    <3>1. Puts(c) /\ r.piece = <<0, Size(c)>> BY <2>3, <2>6 DEF LateOK
    <3>2. Store(c, o) /\ o.by = c
      <4>1. Store(c, [by |-> c, pieces |-> <<r.piece>>]) BY <2>1, <2>6, Executed
      <4> QED BY <3>1, <4>1
    <3>3. o # None BY <2>3, <3>1, SentObject
    <3> HIDE DEF o
    <3>4. Kind(c) \in {"put", "create"} BY <3>1 DEF Puts
    <3>5. R!Effect(c) BY <2>2, <2>3, <2>6, <3>2, <3>3, <3>4, Effects DEF Blocked
    <3> QED BY <2>4, <3>5
  <2>7. CASE r.step = "copy" /\ objects[op[c].from] # None
    <3>1. Store(c, objects[op[c].from]) BY <2>1, <2>7, Executed
    <3>2. Kind(c) = "copy" BY <2>3, <2>7 DEF LateOK
    <3>3. R!Effect(c) BY <2>2, <2>3, <2>7, <3>1, <3>2, Effects
    <3> QED BY <2>4, <3>3
  <2>8. CASE r.step = "delete"
    <3>1. Store(c, None) /\ Kind(c) = "delete" BY <2>1, <2>3, <2>8, Executed DEF LateOK
    <3>2. R!Effect(c) BY <2>2, <2>3, <3>1, Effects
    <3> QED BY <2>4, <3>2
  <2>9. \/ r.step = "complete" /\ r.id \in uploads /\ ~Blocked(c)
        \/ r.step = "single" /\ ~Blocked(c)
        \/ r.step = "copy" /\ objects[op[c].from] # None
        \/ r.step = "delete"
        \/ UNCHANGED <<objects, landed>>
    BY <2>1, <2>3, Executed DEF WriteSteps, provider
  <2> QED BY <2>2, <2>5, <2>6, <2>7, <2>8, <2>9
<1>19. ASSUME UNCHANGED vars PROVE UNCHANGED <<op, objects, landed, seen, res>>
  BY <1>19 DEF vars, provider
<1>20. ASSUME NEW c \in Calls, Step(c)
       PROVE  R!AbsNext \/ UNCHANGED <<op, objects, landed, seen, res>>
  BY <1>5, <1>6, <1>7, <1>8, <1>9, <1>10, <1>11, <1>12, <1>13, <1>14, <1>15, <1>16, <1>20 DEF Step
<1> QED BY <1>1, <1>4, <1>17, <1>18, <1>19, <1>20 DEF Next, Quiescent

\* The S3 backend is a remote store: the effects of its requests, retried, lost
\* or late, are whole, are those that the calls asked for, and are what the
\* answers say.
THEOREM S3RefinesRemoteStore == Spec => ImplementsRemoteStore
<1>1. IInv /\ IInv' /\ [Next]_vars => [R!AbsNext]_(R!absVars)
  BY StepRefines
<1> QED BY <1>1, InitRefines, Invariance, PTL DEF Spec, ImplementsRemoteStore, R!AbsSpec

=============================================================================
