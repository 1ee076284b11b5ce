--------------------------- MODULE SequenceLemmas ---------------------------
(***************************************************************************)
(* What joining, being served and leaving do to a queue in which every     *)
(* waiter is once, and how runs of bytes follow one another.               *)
(***************************************************************************)
EXTENDS WaitQueue, ByteRange, SequenceTheorems, TLAPS

-----------------------------------------------------------------------------
(* Queues.                                                                  *)


\* A call that does not wait yet joins: it waits, once, and so does everyone
\* who did.
LEMMA JoinQueue ==
  ASSUME NEW S, NEW q \in Seq(S), NEW c \in S, OnceEach(q), ~Waits(q, c)
  PROVE  /\ Append(q, c) \in Seq(S) /\ OnceEach(Append(q, c))
         /\ \A d : Waits(Append(q, c), d) <=> Waits(q, d) \/ d = c
BY AppendProperties DEF OnceEach, Waits

\* The first waiter is served: it no longer waits, and everyone else does.
LEMMA ServeQueue ==
  ASSUME NEW S, NEW q \in Seq(S), q # <<>>, OnceEach(q)
  PROVE  /\ Tail(q) \in Seq(S) /\ OnceEach(Tail(q))
         /\ \A d : Waits(Tail(q), d) <=> Waits(q, d) /\ d # Head(q)
<1>1. /\ Tail(q) \in Seq(S) /\ Len(Tail(q)) = Len(q) - 1 /\ Len(q) \in Nat \ {0}
      /\ \A i \in 1..(Len(q) - 1) : Tail(q)[i] = q[i + 1]
      /\ Head(q) = q[1] /\ DOMAIN q = 1..Len(q) /\ DOMAIN Tail(q) = 1..(Len(q) - 1)
  BY HeadTailProperties
<1>2. OnceEach(Tail(q)) BY <1>1 DEF OnceEach
<1>3. ASSUME NEW d PROVE Waits(Tail(q), d) <=> Waits(q, d) /\ d # Head(q)
  <2>1. ASSUME Waits(Tail(q), d) PROVE Waits(q, d) /\ d # Head(q)
    <3>1. PICK i \in 1..(Len(q) - 1) : q[i + 1] = d BY <1>1, <2>1 DEF Waits
    <3> QED BY <1>1, <3>1 DEF Waits, OnceEach
  <2>2. ASSUME Waits(q, d), d # Head(q) PROVE Waits(Tail(q), d)
    <3>1. PICK i \in 1..Len(q) : q[i] = d BY <1>1, <2>2 DEF Waits
    <3>2. i - 1 \in 1..(Len(q) - 1) /\ (i - 1) + 1 = i BY <1>1, <2>2, <3>1
    <3> QED BY <1>1, <3>1, <3>2 DEF Waits
  <2> QED BY <2>1, <2>2
<1> QED BY <1>1, <1>2, <1>3

\* The head of a queue waits.
LEMMA HeadWaits ==
  ASSUME NEW S, NEW q \in Seq(S), q # <<>>
  PROVE  Head(q) \in S /\ Waits(q, Head(q))
BY DEF Waits

\* A queue is empty when nobody waits.
LEMMA EmptyQueue ==
  ASSUME NEW S, NEW q \in Seq(S)
  PROVE  q = <<>> <=> \A d \in S : ~Waits(q, d)
<1>1. q = <<>> => \A d \in S : ~Waits(q, d) BY DEF Waits
<1>2. ASSUME q # <<>> PROVE \E d \in S : Waits(q, d) BY <1>2, HeadWaits
<1> QED BY <1>1, <1>2

\* A call leaves, wherever it is: it no longer waits, and everyone else does,
\* in the same order.
LEMMA LeaveQueue ==
  ASSUME NEW S, NEW q \in Seq(S), NEW c, OnceEach(q)
  PROVE  /\ Leave(q, c) \in Seq(S) /\ OnceEach(Leave(q, c))
         /\ \A d : Waits(Leave(q, c), d) <=> Waits(q, d) /\ d # c
<1>1. CASE ~Waits(q, c)
  <2>1. Leave(q, c) = q BY <1>1 DEF Leave, RemoveFirst, Waits
  <2> QED BY <1>1, <2>1
<1>2. CASE Waits(q, c)
  <2>1. PICK i \in 1..Len(q) : q[i] = c BY <1>2 DEF Waits
  <2> DEFINE a == SubSeq(q, 1, i - 1)
             b == SubSeq(q, i + 1, Len(q))
  <2>2. Len(q) \in Nat /\ DOMAIN q = 1..Len(q) OBVIOUS
  <2>3. {j \in 1..Len(q) : q[j] = c} = {i} BY <2>1, <2>2 DEF OnceEach
  <2>4. Min({i}) = i BY <2>1 DEF Min
  <2>5. SelectInSeq(q, LAMBDA v : v = c) = i BY <2>3, <2>4 DEF SelectInSeq
  <2>6. Leave(q, c) = a \o b BY <2>1, <2>5 DEF Leave, RemoveFirst, RemoveAt
  <2>7. /\ a \in Seq(S) /\ Len(a) = i - 1 /\ \A j \in 1..(i - 1) : a[j] = q[j]
    BY <2>2, SubSeqProperties
  <2>8. /\ b \in Seq(S) /\ Len(b) = Len(q) - i /\ \A j \in 1..(Len(q) - i) : b[j] = q[i + j]
    <3>1. i + 1 \in Int /\ Len(q) \in Int /\ \A j \in (i + 1)..Len(q) : q[j] \in S BY <2>2
    <3>2. /\ b \in Seq(S)
          /\ Len(b) = IF i + 1 <= Len(q) THEN Len(q) - (i + 1) + 1 ELSE 0
          /\ \A j \in 1..(Len(q) - (i + 1) + 1) : b[j] = q[(i + 1) + j - 1]
      BY <3>1, SubSeqProperties
    <3> HIDE DEF b
    <3>3. Len(b) = Len(q) - i BY <2>2, <3>2
    <3>4. ASSUME NEW j \in 1..(Len(q) - i) PROVE b[j] = q[i + j]
      <4>1. j \in 1..(Len(q) - (i + 1) + 1) /\ (i + 1) + j - 1 = i + j BY <2>2
      <4> QED BY <3>2, <4>1
    <3> QED BY <3>2, <3>3, <3>4
  <2> DEFINE r == a \o b
  <2> HIDE DEF a, b
  <2>9. /\ r \in Seq(S) /\ DOMAIN r = 1..(Len(q) - 1)
        /\ \A j \in 1..(Len(q) - 1) : j < i => r[j] = q[j]
        /\ \A j \in 1..(Len(q) - 1) : j >= i => r[j] = q[j + 1]
    <3>1. /\ r \in Seq(S) /\ Len(r) = Len(a) + Len(b)
          /\ \A j \in 1..(Len(a) + Len(b)) : r[j] = IF j <= Len(a) THEN a[j] ELSE b[j - Len(a)]
      BY <2>7, <2>8, ConcatProperties
    <3> HIDE DEF r
    <3>2. Len(r) = Len(q) - 1 /\ DOMAIN r = 1..Len(r) BY <2>2, <2>7, <2>8, <3>1
    <3>3. ASSUME NEW j \in 1..(Len(q) - 1), j < i PROVE r[j] = q[j]
      <4>1. j \in 1..(i - 1) BY <2>2, <3>3
      <4>2. j \in 1..(Len(a) + Len(b)) /\ j <= Len(a) BY <2>2, <2>7, <2>8, <3>3
      <4> QED BY <2>7, <3>1, <4>1, <4>2
    <3>4. ASSUME NEW j \in 1..(Len(q) - 1), j >= i PROVE r[j] = q[j + 1]
      <4>1. j - (i - 1) \in 1..(Len(q) - i) /\ i + (j - (i - 1)) = j + 1 BY <2>2, <3>4
      <4>2. j \in 1..(Len(a) + Len(b)) /\ ~(j <= Len(a)) /\ j - Len(a) = j - (i - 1)
        BY <2>2, <2>7, <2>8, <3>4
      <4>3. r[j] = b[j - (i - 1)] BY <3>1, <4>2
      <4> QED BY <2>8, <4>1, <4>3
    <3> QED BY <3>1, <3>2, <3>3, <3>4
  <2> HIDE DEF r
  <2>10. OnceEach(r) BY <2>2, <2>9 DEF OnceEach
  <2>11. ASSUME NEW d PROVE Waits(r, d) <=> Waits(q, d) /\ d # c
    <3>1. ASSUME Waits(r, d) PROVE Waits(q, d) /\ d # c
      <4>1. PICK j \in 1..(Len(q) - 1) : r[j] = d BY <2>9, <3>1 DEF Waits
      <4>2. CASE j < i
        <5>1. j \in DOMAIN q /\ q[j] = d /\ j # i BY <2>2, <2>9, <4>1, <4>2
        <5> QED BY <2>1, <2>2, <5>1 DEF Waits, OnceEach
      <4>3. CASE j >= i
        <5>1. j + 1 \in DOMAIN q /\ q[j + 1] = d /\ j + 1 # i BY <2>2, <2>9, <4>1, <4>3
        <5> QED BY <2>1, <2>2, <5>1 DEF Waits, OnceEach
      <4> QED BY <4>2, <4>3
    <3>2. ASSUME Waits(q, d), d # c PROVE Waits(r, d)
      <4>1. PICK j \in 1..Len(q) : q[j] = d BY <2>2, <3>2 DEF Waits
      <4>2. j # i BY <2>1, <3>2, <4>1
      <4>3. CASE j < i
        <5>1. j \in 1..(Len(q) - 1) /\ r[j] = d BY <2>2, <2>9, <4>1, <4>3
        <5> QED BY <2>9, <5>1 DEF Waits
      <4>4. CASE j > i
        <5>1. j - 1 \in 1..(Len(q) - 1) /\ j - 1 >= i /\ (j - 1) + 1 = j BY <2>2, <4>4
        <5>2. r[j - 1] = d BY <2>9, <4>1, <5>1
        <5> QED BY <2>9, <5>1, <5>2 DEF Waits
      <4> QED BY <4>2, <4>3, <4>4
    <3> QED BY <3>1, <3>2
  <2> QED BY <2>6, <2>9, <2>10, <2>11 DEF r
<1> QED BY <1>1, <1>2

-----------------------------------------------------------------------------
(* Bytes.                                                                   *)

\* A run of bytes is a sequence of its length.
LEMMA BytesShape ==
  ASSUME NEW a \in Nat, NEW m \in Nat
  PROVE  Bytes(a, m) \in Seq(Nat) /\ Len(Bytes(a, m)) = m /\ Bytes(a, 0) = <<>>
BY DEF Bytes

\* A run of bytes after a run of bytes is a run of bytes.
LEMMA BytesJoin ==
  ASSUME NEW a \in Nat, NEW m \in Nat, NEW n \in Nat
  PROVE  Bytes(a, m) \o Bytes(a + m, n) = Bytes(a, m + n)
<1>1. \A b, k \in Nat : Bytes(b, k) \in Seq(Nat) /\ Len(Bytes(b, k)) = k
                        /\ \A i \in 1..k : Bytes(b, k)[i] = b + i - 1
  BY DEF Bytes
<1> DEFINE x == Bytes(a, m)
           y == Bytes(a + m, n)
           z == Bytes(a, m + n)
<1>3. /\ x \in Seq(Nat) /\ Len(x) = m /\ \A i \in 1..m : x[i] = a + i - 1
      /\ y \in Seq(Nat) /\ Len(y) = n /\ \A i \in 1..n : y[i] = (a + m) + i - 1
      /\ z \in Seq(Nat) /\ Len(z) = m + n /\ \A i \in 1..(m + n) : z[i] = a + i - 1
  <2>1. a + m \in Nat /\ m + n \in Nat OBVIOUS
  <2>2. x \in Seq(Nat) /\ Len(x) = m /\ \A i \in 1..m : x[i] = a + i - 1 BY <1>1
  <2>3. y \in Seq(Nat) /\ Len(y) = n /\ \A i \in 1..n : y[i] = (a + m) + i - 1
    BY <1>1, <2>1 DEF y
  <2>4. z \in Seq(Nat) /\ Len(z) = m + n /\ \A i \in 1..(m + n) : z[i] = a + i - 1
    BY <1>1, <2>1
  <2> QED BY <2>2, <2>3, <2>4
<1> HIDE DEF x, y, z
<1>4. x \o y \in Seq(Nat) /\ Len(x \o y) = m + n
  BY <1>3, ConcatProperties
<1>5. ASSUME NEW i \in 1..(m + n) PROVE (x \o y)[i] = z[i]
  <2>1. (x \o y)[i] = IF i <= m THEN x[i] ELSE y[i - m] BY <1>3, ConcatProperties
  <2>2. CASE i <= m BY <1>3, <2>1, <2>2
  <2>3. CASE ~(i <= m)
    <3>1. i - m \in 1..n BY <2>3
    <3> QED BY <1>3, <2>1, <2>3, <3>1
  <2> QED BY <2>2, <2>3
<1>6. x \o y = z BY <1>3, <1>4, <1>5, SeqEqual
<1> QED BY <1>6 DEF x, y, z
=============================================================================
