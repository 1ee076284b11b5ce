------------------------- MODULE LocalListingProofs -------------------------
(***************************************************************************)
(* Proofs about LocalListing, for any tree, page size and number of edits. *)
(* That nothing is lost and everything is in order needs OrdersAgree: the  *)
(* walk and the token order the keys alike.                                *)
(***************************************************************************)
EXTENDS LocalListing, SequenceTheorems, FiniteSetTheorems, TLAPS

\* p is k or one of its directories.
Leads(p, k) == Len(p) <= Len(k) /\ \A i \in 1..Len(p) : p[i] = k[i]

Nodes == Paths \cup Dirs \cup {Prefix}

\* The types, and who may be on a page: only keys that have been there.
BlobsOK ==
  /\ TypeOK
  /\ files \cap Keys \subseteq ever /\ steady \subseteq files
  /\ \A i \in DOMAIN page : page[i] \in ever
  /\ \A i \in DOMAIN out : out[i] \in ever

\* The walk is in order: what is on the page, then what is on the stack, from
\* its top.
WalkOK ==
  /\ \A i, j \in DOMAIN stack : i < j => WalkedBefore(stack[j], stack[i])
  /\ \A i \in DOMAIN page : \A j \in DOMAIN stack : WalkedBefore(page[i], stack[j])
  /\ \A i, j \in DOMAIN page : i < j => WalkedBefore(page[i], page[j])

\* The token is between what has been listed and what is on the page.
TokenOK ==
  /\ \A i \in DOMAIN page : token # <<>> => SeqLess(token, Key(page[i]))
  /\ pc \in {"page", "walk"} =>
       /\ token = <<>> => out = <<>>
       /\ \A i \in DOMAIN out : Key(out[i]) = token \/ SeqLess(Key(out[i]), token)

\* A steady key has been listed, or is after the token; and the walk has
\* collected it or has it, or a directory of it, still to visit.
FoundOK ==
  \A k \in steady : Leads(Prefix, k) =>
    /\ pc \in {"page", "walk"} => Contains(out, k) \/ token = <<>> \/ SeqLess(token, Key(k))
    /\ pc = "walk" =>
         Contains(out, k) \/ Contains(page, k) \/ \E i \in DOMAIN stack : Leads(stack[i], k)
    /\ pc = "done" => Contains(out, k)

IInv == BlobsOK /\ WalkOK /\ TokenOK /\ ListedInOrder /\ FoundOK

-----------------------------------------------------------------------------
(* The orders.                                                              *)

\* Names and keys are ordered strictly ...
LEMMA LessAsymmetric ==
  ASSUME NEW s \in Seq(Nat), NEW t \in Seq(Nat), SeqLess(s, t)
  PROVE  ~SeqLess(t, s)
<1> SUFFICES ASSUME SeqLess(t, s) PROVE FALSE OBVIOUS
<1>1. PICK i \in 1..Len(t) : /\ \A h \in 1..(i - 1) : h <= Len(s) /\ s[h] = t[h]
                             /\ i > Len(s) \/ s[i] < t[i]
  BY DEF SeqLess
<1>2. PICK j \in 1..Len(s) : /\ \A h \in 1..(j - 1) : h <= Len(t) /\ t[h] = s[h]
                             /\ j > Len(t) \/ t[j] < s[j]
  BY DEF SeqLess
<1>3. Len(s) \in Nat /\ Len(t) \in Nat OBVIOUS
<1>4. CASE i < j
  <2>1. i \in 1..(j - 1) /\ i <= Len(s) BY <1>3, <1>4
  <2>2. t[i] = s[i] /\ s[i] \in Nat BY <1>2, <1>3, <2>1
  <2> QED BY <1>1, <1>3, <2>1, <2>2
<1>5. CASE j < i
  <2>1. j \in 1..(i - 1) /\ j <= Len(t) BY <1>3, <1>5
  <2>2. t[j] = s[j] /\ t[j] \in Nat BY <1>1, <1>3, <2>1
  <2> QED BY <1>2, <1>3, <2>1, <2>2
<1>6. CASE i = j
  <2>1. s[i] \in Nat /\ t[i] \in Nat BY <1>3, <1>6
  <2> QED BY <1>1, <1>2, <1>3, <1>6, <2>1
<1> QED BY <1>3, <1>4, <1>5, <1>6

\* ... transitively ...
LEMMA LessTransitive ==
  ASSUME NEW s \in Seq(Nat), NEW t \in Seq(Nat), NEW u \in Seq(Nat), SeqLess(s, t), SeqLess(t, u)
  PROVE  SeqLess(s, u)
<1>1. PICK i \in 1..Len(t) : /\ \A h \in 1..(i - 1) : h <= Len(s) /\ s[h] = t[h]
                             /\ i > Len(s) \/ s[i] < t[i]
  BY DEF SeqLess
<1>2. PICK j \in 1..Len(u) : /\ \A h \in 1..(j - 1) : h <= Len(t) /\ t[h] = u[h]
                             /\ j > Len(t) \/ t[j] < u[j]
  BY DEF SeqLess
<1>3. Len(s) \in Nat /\ Len(t) \in Nat /\ Len(u) \in Nat OBVIOUS
<1>4. CASE i < j
  <2>1. i \in 1..(j - 1) /\ i \in 1..Len(u) BY <1>3, <1>4
  <2>2. t[i] = u[i] BY <1>2, <2>1
  <2>3. \A h \in 1..(i - 1) : h <= Len(s) /\ s[h] = u[h]
    <3>1. \A h \in 1..(i - 1) : h \in 1..(j - 1) BY <1>3, <1>4
    <3> QED BY <1>1, <1>2, <3>1
  <2> QED BY <1>1, <2>1, <2>2, <2>3 DEF SeqLess
<1>5. CASE j < i
  <2>1. j \in 1..(i - 1) /\ j <= Len(t) BY <1>3, <1>5
  <2>2. s[j] = t[j] BY <1>1, <2>1
  <2>3. \A h \in 1..(j - 1) : h <= Len(s) /\ s[h] = u[h]
    <3>1. \A h \in 1..(j - 1) : h \in 1..(i - 1) BY <1>3, <1>5
    <3> QED BY <1>1, <1>2, <3>1
  <2>4. s[j] < u[j] BY <1>2, <1>3, <2>1, <2>2
  <2> QED BY <2>3, <2>4 DEF SeqLess
<1>6. CASE i = j
  <2>1. \A h \in 1..(j - 1) : h <= Len(s) /\ s[h] = u[h] BY <1>1, <1>2, <1>6
  <2>2. j > Len(s) \/ s[j] < u[j]
    <3>1. CASE j > Len(s) BY <3>1
    <3>2. CASE ~(j > Len(s))
      <4> j \in Nat \ {0} /\ j <= Len(u) /\ j <= Len(t) /\ j <= Len(s) BY <1>3, <1>6, <3>2
      <4>1. s[j] \in Nat /\ t[j] \in Nat /\ u[j] \in Nat
        <5>1. s[j] \in Nat BY <1>3
        <5>2. t[j] \in Nat BY <1>3
        <5>3. u[j] \in Nat BY <1>3
        <5> QED BY <5>1, <5>2, <5>3
      <4>2. s[j] < t[j] BY <1>1, <1>6, <3>2
      <4>3. t[j] < u[j] BY <1>2, <1>3, <1>6
      <4> DEFINE a == s[j]
                 b == t[j]
                 c == u[j]
      <4>4. a \in Nat /\ b \in Nat /\ c \in Nat /\ a < b /\ b < c BY <4>1, <4>2, <4>3
      <4> HIDE DEF a, b, c
      <4>5. a < c BY <4>4
      <4> QED BY <4>5 DEF a, c
    <3> QED BY <3>1, <3>2
  <2> QED BY <2>1, <2>2 DEF SeqLess
<1> QED BY <1>3, <1>4, <1>5, <1>6

\* A set of positions has a first one.
LEMMA FirstExists ==
  ASSUME NEW T \in SUBSET Nat, T # {}
  PROVE  \E x \in T : \A y \in T : x <= y
<1> DEFINE R == {ss \in Nat \X Nat : ss[1] < ss[2]}
<1>1. IsWellFoundedOn(R, Nat) BY NatLessThanWellFounded DEF OpToRel
<1>2. PICK x \in T : \A y \in T : ~(<<y, x>> \in R)
  <2> HIDE DEF R
  <2> QED BY <1>1, WFMin
<1>3. ASSUME NEW y \in T PROVE x <= y
  <2>1. y < x => <<y, x>> \in R OBVIOUS
  <2> HIDE DEF R
  <2> QED BY <1>2, <2>1
<1> QED BY <1>3

\* ... and totally.
LEMMA LessTotal ==
  ASSUME NEW s \in Seq(Nat), NEW t \in Seq(Nat), s # t
  PROVE  SeqLess(s, t) \/ SeqLess(t, s)
<1> DEFINE D == {i \in Nat \ {0} : i > Len(s) \/ i > Len(t) \/ s[i] # t[i]}
<1>1. Len(s) \in Nat /\ Len(t) \in Nat OBVIOUS
<1>2. D \in SUBSET Nat /\ Len(s) + 1 \in D BY <1>1
<1>3. PICK i \in D : \A j \in D : i <= j
  <2> HIDE DEF D
  <2> QED BY <1>2, FirstExists
<1>4. i \in Nat \ {0} /\ (i > Len(s) \/ i > Len(t) \/ s[i] # t[i]) OBVIOUS
<1>5. ASSUME NEW h \in 1..(i - 1) PROVE h <= Len(s) /\ h <= Len(t) /\ s[h] = t[h]
  <2>1. h \in Nat \ {0} /\ ~(i <= h) BY <1>4
  <2>2. h \notin D BY <1>3, <2>1
  <2> QED BY <1>1, <2>1, <2>2
<1> HIDE DEF D
<1>6. CASE i <= Len(t) /\ (i > Len(s) \/ s[i] < t[i])
  <2>1. i \in 1..Len(t) BY <1>1, <1>4, <1>6
  <2> QED BY <1>5, <1>6, <2>1 DEF SeqLess
<1>7. CASE i <= Len(s) /\ (i > Len(t) \/ t[i] < s[i])
  <2>1. i \in 1..Len(s) BY <1>1, <1>4, <1>7
  <2> QED BY <1>5, <1>7, <2>1 DEF SeqLess
<1>8. CASE i > Len(s) /\ i > Len(t)
  <2>1. Len(s) = Len(t)
    <3>1. ~(Len(s) < Len(t))
      <4>1. ASSUME Len(s) < Len(t) PROVE FALSE
        <5>1. Len(t) \in 1..(i - 1) BY <1>1, <1>4, <1>8, <4>1
        <5> QED BY <1>1, <1>5, <4>1, <5>1
      <4> QED BY <4>1
    <3>2. ~(Len(t) < Len(s))
      <4>1. ASSUME Len(t) < Len(s) PROVE FALSE
        <5>1. Len(s) \in 1..(i - 1) BY <1>1, <1>4, <1>8, <4>1
        <5> QED BY <1>1, <1>5, <4>1, <5>1
      <4> QED BY <4>1
    <3> QED BY <1>1, <3>1, <3>2
  <2>2. \A h \in 1..Len(s) : s[h] = t[h]
    <3>1. \A h \in 1..Len(s) : h \in 1..(i - 1) BY <1>1, <1>4, <1>8
    <3> QED BY <1>5, <3>1
  <2> QED BY <2>1, <2>2, SeqEqual
<1>9. CASE i <= Len(s) /\ i <= Len(t) /\ s[i] # t[i]
  <2>1. s[i] \in Nat /\ t[i] \in Nat BY <1>1, <1>4, <1>9
  <2>2. s[i] < t[i] \/ t[i] < s[i] BY <1>9, <2>1
  <2> QED BY <1>6, <1>7, <1>9, <2>2
<1>10. i <= Len(s) \/ i > Len(s) BY <1>1, <1>4
<1>11. i <= Len(t) \/ i > Len(t) BY <1>1, <1>4
<1> QED BY <1>4, <1>6, <1>7, <1>8, <1>9, <1>10, <1>11

\* The walk never meets two paths in both orders.
LEMMA WalkAsymmetric ==
  ASSUME NEW p \in Seq(Seq(Nat)), NEW q \in Seq(Seq(Nat)), WalkedBefore(p, q)
  PROVE  ~WalkedBefore(q, p)
<1> SUFFICES ASSUME WalkedBefore(q, p) PROVE FALSE OBVIOUS
<1>1. PICK n \in 1..Len(p) : n <= Len(q) /\ SeqLess(p[n], q[n]) /\ \A i \in 1..(n - 1) : p[i] = q[i]
  BY DEF WalkedBefore
<1>2. PICK m \in 1..Len(q) : m <= Len(p) /\ SeqLess(q[m], p[m]) /\ \A i \in 1..(m - 1) : q[i] = p[i]
  BY DEF WalkedBefore
<1>3. /\ Len(p) \in Nat /\ Len(q) \in Nat /\ n \in 1..Len(q) /\ m \in 1..Len(p)
      /\ p[n] \in Seq(Nat) /\ q[n] \in Seq(Nat) /\ p[m] \in Seq(Nat) /\ q[m] \in Seq(Nat)
  <2>1. Len(p) \in Nat /\ Len(q) \in Nat OBVIOUS
  <2>2. n \in 1..Len(q) /\ m \in 1..Len(p) BY <1>1, <1>2, <2>1
  <2> QED BY <2>1, <2>2, ElementOfSeq
<1>4. CASE n < m
  <2>1. p[n] = q[n]
    <3>1. n \in 1..(m - 1) BY <1>3, <1>4
    <3> QED BY <1>2, <3>1
  <2> QED BY <1>1, <1>3, <2>1, LessAsymmetric
<1>5. CASE m < n
  <2>1. p[m] = q[m]
    <3>1. m \in 1..(n - 1) BY <1>3, <1>5
    <3> QED BY <1>1, <3>1
  <2> QED BY <1>2, <1>3, <2>1, LessAsymmetric
<1>6. CASE n = m BY <1>1, <1>2, <1>3, <1>6, LessAsymmetric
<1> QED BY <1>3, <1>4, <1>5, <1>6

\* What is below two paths is in the order of the two.
LEMMA WalkBelow ==
  ASSUME NEW p \in Seq(Seq(Nat)), NEW q \in Seq(Seq(Nat)), WalkedBefore(p, q),
         NEW p2 \in Seq(Seq(Nat)), NEW q2 \in Seq(Seq(Nat)), Leads(p, p2), Leads(q, q2)
  PROVE  WalkedBefore(p2, q2)
<1>1. PICK n \in 1..Len(p) : n <= Len(q) /\ SeqLess(p[n], q[n]) /\ \A i \in 1..(n - 1) : p[i] = q[i]
  BY DEF WalkedBefore
<1>2. Len(p) \in Nat /\ Len(q) \in Nat /\ Len(p2) \in Nat /\ Len(q2) \in Nat OBVIOUS
<1>3. Len(p) <= Len(p2) /\ Len(q) <= Len(q2) BY DEF Leads
<1>4. ASSUME NEW i \in 1..n PROVE p2[i] = p[i] /\ q2[i] = q[i]
  <2>1. i \in 1..Len(p) /\ i \in 1..Len(q) BY <1>1, <1>2
  <2> QED BY <2>1 DEF Leads
<1>5. n \in 1..Len(p2) /\ n <= Len(q2)
  <2> DEFINE a == Len(p)
             b == Len(q)
             c == Len(p2)
             d == Len(q2)
  <2>1. /\ n \in 1..a /\ n <= b /\ a <= c /\ b <= d
        /\ a \in Nat /\ b \in Nat /\ c \in Nat /\ d \in Nat
    BY <1>1, <1>2, <1>3
  <2> HIDE DEF a, b, c, d
  <2>2. n \in 1..c /\ n <= d BY <2>1
  <2> QED BY <2>2 DEF c, d
<1>6. SeqLess(p2[n], q2[n])
  <2>1. n \in 1..n BY <1>1
  <2> QED BY <1>1, <1>4, <2>1
<1>7. ASSUME NEW i \in 1..(n - 1) PROVE p2[i] = q2[i]
  <2>1. i \in 1..n BY <1>1
  <2> QED BY <1>1, <1>4, <2>1
<1> QED BY <1>5, <1>6, <1>7 DEF WalkedBefore

\* When the orders agree, keys are compared as they are met.
LEMMA WalkedKeys ==
  ASSUME OrdersAgree, NEW p \in Keys, NEW q \in Keys, WalkedBefore(p, q)
  PROVE  SeqLess(Key(p), Key(q))
<1>1. p \in Seq(Seq(Nat)) /\ q \in Seq(Seq(Nat)) BY ListingAssumption DEF Paths
<1>2. ~WalkedBefore(q, p) /\ p # q
  <2>1. ~WalkedBefore(q, p) BY <1>1, WalkAsymmetric
  <2> QED BY <2>1
<1>3. ~SeqLess(Key(q), Key(p)) BY <1>2 DEF OrdersAgree
<1>4. Key(p) # Key(q) /\ Key(p) \in Seq(Nat) /\ Key(q) \in Seq(Nat) BY <1>2, KeyAssumption
<1> QED BY <1>3, <1>4, LessTotal

-----------------------------------------------------------------------------
(* The tree.                                                                *)

LEMMA PrefixLeads ==
  ASSUME NEW p \in Seq(Seq(Nat)), NEW q \in Seq(Seq(Nat))
  PROVE  IsPrefix(p, q) <=> Leads(p, q)
<1>1. Len(p) \in Nat /\ Len(q) \in Nat OBVIOUS
<1>2. SubSeq(p, 1, Len(p)) = p BY SubSeqFull
<1>3. CASE Len(p) <= Len(q)
  <2> DEFINE s == SubSeq(q, 1, Len(p))
  <2>1. \A i \in 1..Len(p) : q[i] \in Seq(Nat) BY <1>1, <1>3
  <2>2. /\ s \in Seq(Seq(Nat)) /\ Len(s) = Len(p)
        /\ \A i \in 1..Len(p) : s[i] = q[i]
    <3>1. /\ s \in Seq(Seq(Nat)) /\ Len(s) = IF 1 <= Len(p) THEN Len(p) - 1 + 1 ELSE 0
          /\ \A i \in 1..(Len(p) - 1 + 1) : s[i] = q[1 + i - 1]
      BY <1>1, <2>1, SubSeqProperties
    <3> HIDE DEF s
    <3>2. ASSUME NEW i \in 1..Len(p) PROVE s[i] = q[i]
      <4>1. i \in 1..(Len(p) - 1 + 1) /\ 1 + i - 1 = i BY <1>1
      <4> QED BY <3>1, <4>1
    <3> QED BY <1>1, <3>1, <3>2
  <2> HIDE DEF s
  <2>3. p = s <=> \A i \in 1..Len(p) : p[i] = s[i] BY <2>2, SeqEqual
  <2> QED BY <1>2, <1>3, <2>2, <2>3 DEF IsPrefix, Leads, s
<1>4. CASE ~(Len(p) <= Len(q)) BY <1>4 DEF IsPrefix, Leads
<1> QED BY <1>3, <1>4

LEMMA PathType == Paths \subseteq Seq(Seq(Nat)) /\ Keys \subseteq Paths /\ <<>> \notin Paths
BY ListingAssumption DEF Paths

\* The first names of a path.
LEMMA Ancestor ==
  ASSUME NEW p \in Seq(Seq(Nat)), NEW n \in 0..Len(p)
  PROVE  SubSeq(p, 1, n) \in Seq(Seq(Nat)) /\ Len(SubSeq(p, 1, n)) = n /\ Leads(SubSeq(p, 1, n), p)
<1> DEFINE s == SubSeq(p, 1, n)
<1>1. n \in Int /\ n <= Len(p) /\ n >= 0 /\ Len(p) \in Nat OBVIOUS
<1>2. \A i \in 1..n : p[i] \in Seq(Nat) BY <1>1
<1>3. /\ s \in Seq(Seq(Nat)) /\ Len(s) = IF 1 <= n THEN n - 1 + 1 ELSE 0
      /\ \A i \in 1..(n - 1 + 1) : s[i] = p[1 + i - 1]
  BY <1>1, <1>2, SubSeqProperties
<1> HIDE DEF s
<1>4. Len(s) = n BY <1>1, <1>3
<1>5. ASSUME NEW i \in 1..n PROVE s[i] = p[i]
  <2>1. i \in 1..(n - 1 + 1) /\ 1 + i - 1 = i BY <1>1
  <2> QED BY <1>3, <2>1
<1>6. Leads(s, p) BY <1>1, <1>4, <1>5 DEF Leads
<1> QED BY <1>3, <1>4, <1>6 DEF s

\* A directory is above a path.
LEMMA DirAbove ==
  ASSUME NEW d \in Dirs
  PROVE  d \in Seq(Seq(Nat)) /\ d \notin Paths /\ \E p \in Paths : Len(d) < Len(p) /\ Leads(d, p)
<1>1. PICK p \in Paths : \E i \in 0..(Len(p) - 1) : d = SubSeq(p, 1, i) BY DEF Dirs
<1>2. PICK i \in 0..(Len(p) - 1) : d = SubSeq(p, 1, i) BY <1>1
<1>3. p \in Seq(Seq(Nat)) /\ Len(p) \in Nat BY PathType
<1>4. i \in 0..Len(p) /\ i < Len(p) BY <1>3
<1>5. d \in Seq(Seq(Nat)) /\ Len(d) = i /\ Leads(d, p) BY <1>2, <1>3, <1>4, Ancestor
<1>6. d \notin Paths
  <2>1. IsPrefix(d, p) /\ d # p BY <1>3, <1>4, <1>5, PrefixLeads
  <2> QED BY <2>1, ListingAssumption DEF IsStrictPrefix
<1> QED BY <1>4, <1>5, <1>6

LEMMA NodeType == Nodes \subseteq Seq(Seq(Nat))
BY PathType, DirAbove, ListingAssumption DEF Nodes

\* No file is above another.
LEMMA SamePath ==
  ASSUME NEW p \in Paths, NEW k \in Paths, Leads(p, k)
  PROVE  p = k
<1>1. IsPrefix(p, k) BY PathType, PrefixLeads
<1> QED BY <1>1, ListingAssumption DEF IsStrictPrefix

\* The tree is finite.
LEMMA TreeFinite == IsFiniteSet(Paths) /\ IsFiniteSet(Dirs)
<1>1. IsFiniteSet(Paths) BY ListingAssumption
<1> DEFINE above(p) == {SubSeq(p, 1, i) : i \in 0..(Len(p) - 1)}
<1>2. ASSUME NEW p \in Paths PROVE IsFiniteSet(above(p))
  <2> DEFINE D == 0..(Len(p) - 1)
             f == [i \in D |-> SubSeq(p, 1, i)]
  <2>1. Len(p) \in Nat /\ Len(p) - 1 \in Int BY PathType
  <2>2. IsFiniteSet(D) BY <2>1, FS_Interval
  <2>3. above(p) = {f[i] : i \in D} OBVIOUS
  <2>4. f \in Surjection(D, {f[i] : i \in D}) BY DEF Surjection
  <2> HIDE DEF f, D
  <2> QED BY <2>2, <2>3, <2>4, FS_Surjection
<1>3. IsFiniteSet({above(p) : p \in Paths})
  <2> DEFINE f == [p \in Paths |-> above(p)]
  <2>1. {above(p) : p \in Paths} = {f[p] : p \in Paths} OBVIOUS
  <2>2. f \in Surjection(Paths, {f[p] : p \in Paths}) BY DEF Surjection
  <2> HIDE DEF f
  <2> QED BY <1>1, <2>1, <2>2, FS_Surjection
<1>4. IsFiniteSet(UNION {above(p) : p \in Paths})
  <2> DEFINE U == {above(p) : p \in Paths}
  <2>1. IsFiniteSet(U) /\ \A T \in U : IsFiniteSet(T) BY <1>2, <1>3
  <2> HIDE DEF U
  <2> QED BY <2>1, FS_UNION DEF U
<1> QED BY <1>1, <1>4 DEF Dirs

\* The entries of a directory have one more name, and differ in it.
LEMMA EntryShape ==
  ASSUME files \subseteq Paths, NEW dir \in Seq(Seq(Nat)), NEW p \in Entries(dir)
  PROVE  /\ p \in Seq(Seq(Nat)) /\ p \in Nodes /\ Leads(dir, p)
         /\ Len(p) = Len(dir) + 1 /\ Last(p) = p[Len(dir) + 1] /\ Last(p) \in Seq(Nat)
<1>1. p \in Nodes /\ Len(p) = Len(dir) + 1 /\ IsPrefix(dir, p) BY DEF Entries, Nodes
<1>2. p \in Seq(Seq(Nat)) BY <1>1, NodeType
<1>3. Leads(dir, p) BY <1>1, <1>2, PrefixLeads
<1>4. Last(p) = p[Len(dir) + 1] BY <1>1 DEF Last
<1>5. Len(dir) \in Nat /\ Len(dir) + 1 \in 1..Len(p) BY <1>1
<1> QED BY <1>1, <1>2, <1>3, <1>4, <1>5, ElementOfSeq

LEMMA SiblingsDiffer ==
  ASSUME files \subseteq Paths, NEW dir \in Seq(Seq(Nat)), NEW p \in Entries(dir), NEW q \in Entries(dir)
  PROVE  /\ p # q => SeqLess(Last(p), Last(q)) \/ SeqLess(Last(q), Last(p))
         /\ SeqLess(Last(p), Last(q)) => WalkedBefore(p, q)
<1>1. /\ p \in Seq(Seq(Nat)) /\ Leads(dir, p)
      /\ Len(p) = Len(dir) + 1 /\ Last(p) = p[Len(dir) + 1] /\ Last(p) \in Seq(Nat)
  BY EntryShape
<1>2. /\ q \in Seq(Seq(Nat)) /\ Leads(dir, q)
      /\ Len(q) = Len(dir) + 1 /\ Last(q) = q[Len(dir) + 1] /\ Last(q) \in Seq(Nat)
  BY EntryShape
<1>3. Len(dir) \in Nat OBVIOUS
<1>4. \A i \in 1..Len(dir) : p[i] = q[i] BY <1>1, <1>2 DEF Leads
<1>5. ASSUME Last(p) = Last(q) PROVE p = q
  <2>1. ASSUME NEW i \in 1..Len(p) PROVE p[i] = q[i]
    <3>1. i \in 1..Len(dir) \/ i = Len(dir) + 1 BY <1>1, <1>3
    <3> QED BY <1>1, <1>2, <1>4, <1>5, <3>1
  <2> QED BY <1>1, <1>2, <2>1, SeqEqual
<1>6. p # q => SeqLess(Last(p), Last(q)) \/ SeqLess(Last(q), Last(p)) BY <1>1, <1>2, <1>5, LessTotal
<1>7. ASSUME SeqLess(Last(p), Last(q)) PROVE WalkedBefore(p, q)
  <2> DEFINE n == Len(dir) + 1
  <2>1. n \in 1..Len(p) /\ n <= Len(q) /\ SeqLess(p[n], q[n]) BY <1>1, <1>2, <1>3, <1>7
  <2>2. \A i \in 1..(n - 1) : i \in 1..Len(dir) BY <1>3
  <2> HIDE DEF n
  <2> QED BY <1>4, <2>1, <2>2 DEF WalkedBefore
<1> QED BY <1>6, <1>7

\* sorted_child_paths returns every entry, in the order of the walk: an entry's
\* place is the number of those before it.
LEMMA ChildrenSorted ==
  ASSUME files \subseteq Paths, NEW dir \in Seq(Seq(Nat)), NEW s, s = Children(dir)
  PROVE  /\ s \in Seq(Entries(dir)) /\ \A e \in Entries(dir) : \E i \in DOMAIN s : s[i] = e
         /\ \A i, j \in DOMAIN s : i < j => WalkedBefore(s[i], s[j])
<1> DEFINE E == Entries(dir)
           n == Cardinality(E)
           before(p) == {q \in E : SeqLess(Last(q), Last(p))}
           r == [p \in E |-> Cardinality(before(p))]
<1>1. IsFiniteSet(E) /\ n \in Nat
  <2>1. IsFiniteSet(Paths \cup Dirs) BY TreeFinite, FS_Union
  <2>2. E \in SUBSET (Paths \cup Dirs) BY DEF Entries
  <2>3. IsFiniteSet(E) BY <2>1, <2>2, FS_Subset
  <2> QED BY <2>3, FS_CardinalityType
<1>2. s = [i \in 1..n |-> CHOOSE p \in E : Cardinality(before(p)) = i - 1] BY DEF Children
<1>3. \A p \in E : Last(p) \in Seq(Nat) BY EntryShape
<1>4. \A p, q \in E : /\ p # q => SeqLess(Last(p), Last(q)) \/ SeqLess(Last(q), Last(p))
                      /\ SeqLess(Last(p), Last(q)) => WalkedBefore(p, q)
  BY SiblingsDiffer
<1> HIDE DEF E, n
<1>5. ASSUME NEW p \in E
      PROVE  /\ before(p) \in SUBSET E /\ IsFiniteSet(before(p)) /\ Cardinality(before(p)) \in Nat
             /\ p \notin before(p) /\ Cardinality(before(p)) \in 0..(n - 1)
  <2>1. before(p) \in SUBSET E OBVIOUS
  <2>2. p \notin before(p) BY <1>3, LessAsymmetric
  <2> HIDE DEF before
  <2>3. /\ IsFiniteSet(before(p)) /\ Cardinality(before(p)) <= n
        /\ n = Cardinality(before(p)) => E = before(p)
    BY <1>1, <2>1, FS_Subset DEF n
  <2>4. Cardinality(before(p)) \in Nat BY <2>3, FS_CardinalityType
  <2>5. n # Cardinality(before(p)) BY <2>2, <2>3
  <2>6. Cardinality(before(p)) \in 0..(n - 1)
    <3> DEFINE m == Cardinality(before(p))
    <3>1. m \in Nat /\ m <= n /\ n # m BY <2>3, <2>4, <2>5
    <3> HIDE DEF m
    <3>2. m \in 0..(n - 1) BY <1>1, <3>1
    <3> QED BY <3>2 DEF m
  <2> QED BY <2>1, <2>2, <2>3, <2>4, <2>6
<1>6. ASSUME NEW p \in E, NEW q \in E, SeqLess(Last(p), Last(q)) PROVE r[p] < r[q]
  <2>1. before(p) \in SUBSET before(q)
    <3>1. ASSUME NEW x \in before(p) PROVE x \in before(q)
      <4>1. x \in E /\ SeqLess(Last(x), Last(p)) OBVIOUS
      <4>2. SeqLess(Last(x), Last(q)) BY <1>3, <1>6, <4>1, LessTransitive
      <4> QED BY <4>1, <4>2
    <3> QED BY <3>1
  <2>2. p \in before(q) BY <1>6
  <2>3. p \notin before(p) /\ IsFiniteSet(before(q)) /\ Cardinality(before(p)) \in Nat /\ Cardinality(before(q)) \in Nat
    BY <1>5
  <2>4. r[p] = Cardinality(before(p)) /\ r[q] = Cardinality(before(q)) OBVIOUS
  <2> HIDE DEF before, r
  <2>5. Cardinality(before(p)) <= Cardinality(before(q)) /\ Cardinality(before(p)) # Cardinality(before(q))
    BY <2>1, <2>2, <2>3, FS_Subset
  <2> QED BY <2>3, <2>4, <2>5
<1>7. r \in [E -> 0..(n - 1)] BY <1>5
<1>8. ASSUME NEW p \in E, NEW q \in E, r[p] = r[q] PROVE p = q
  <2>1. r[p] \in 0..(n - 1) BY <1>7
  <2>2. ~(r[p] < r[q]) /\ ~(r[q] < r[p])
    <3> HIDE DEF r
    <3> QED BY <1>1, <1>8, <2>1
  <2> HIDE DEF r
  <2> QED BY <1>4, <1>6, <2>2
<1>9. \A i \in 0..(n - 1) : \E p \in E : r[p] = i
  <2> HIDE DEF r
  <2>1. r \in Injection(E, 0..(n - 1)) BY <1>7, <1>8 DEF Injection, IsInjective
  <2>2. IsFiniteSet(0..(n - 1)) /\ Cardinality(0..(n - 1)) = n
    <3>1. 0 \in Int /\ n - 1 \in Int BY <1>1
    <3>2. IsFiniteSet(0..(n - 1)) /\ Cardinality(0..(n - 1)) = IF 0 > n - 1 THEN 0 ELSE (n - 1) - 0 + 1
      BY <3>1, FS_Interval
    <3>3. (IF 0 > n - 1 THEN 0 ELSE (n - 1) - 0 + 1) = n BY <1>1
    <3> QED BY <3>2, <3>3
  <2>3. r \in Surjection(E, 0..(n - 1)) BY <2>1, <2>2, FS_Injection DEF n
  <2> QED BY <2>3 DEF Surjection
<1>10. ASSUME NEW i \in 1..n PROVE s[i] \in E /\ r[s[i]] = i - 1
  <2>1. i - 1 \in 0..(n - 1) BY <1>1
  <2>2. \E p \in E : r[p] = i - 1 BY <1>9, <2>1
  <2>3. \E p \in E : Cardinality(before(p)) = i - 1 BY <2>2
  <2>4. s[i] = CHOOSE p \in E : Cardinality(before(p)) = i - 1 BY <1>2
  <2> HIDE DEF before
  <2>5. s[i] \in E /\ Cardinality(before(s[i])) = i - 1 BY <2>3, <2>4
  <2> QED BY <2>5
<1>11. DOMAIN s = 1..n BY <1>2
<1>12. s \in Seq(E)
  <2>1. s = [i \in 1..n |-> s[i]] BY <1>2
  <2>2. \A i \in 1..n : s[i] \in E BY <1>10
  <2>3. [i \in 1..n |-> s[i]] \in Seq(E) BY <1>1, <2>2
  <2> QED BY <2>1, <2>3
<1> HIDE DEF r
<1>13. ASSUME NEW e \in E PROVE \E i \in DOMAIN s : s[i] = e
  <2>1. r[e] \in 0..(n - 1) BY <1>7
  <2>2. r[e] + 1 \in 1..n /\ (r[e] + 1) - 1 = r[e] BY <1>1, <2>1
  <2>3. s[r[e] + 1] \in E /\ r[s[r[e] + 1]] = r[e] BY <1>10, <2>2
  <2>4. s[r[e] + 1] = e BY <1>8, <2>3
  <2> QED BY <1>11, <2>2, <2>4
<1>14. ASSUME NEW i \in 1..n, NEW j \in 1..n, i < j PROVE WalkedBefore(s[i], s[j])
  <2>1. s[i] \in E /\ s[j] \in E /\ r[s[i]] = i - 1 /\ r[s[j]] = j - 1 BY <1>10
  <2>2. r[s[i]] # r[s[j]] /\ ~(r[s[j]] < r[s[i]]) BY <1>1, <1>14, <2>1
  <2>3. s[i] # s[j] BY <2>2
  <2>4. ~SeqLess(Last(s[j]), Last(s[i])) BY <1>6, <2>1, <2>2
  <2> QED BY <1>4, <2>1, <2>3, <2>4
<1> QED BY <1>11, <1>12, <1>13, <1>14 DEF E

\* They are pushed last first.
LEMMA PushedSorted ==
  ASSUME files \subseteq Paths, NEW dir \in Seq(Seq(Nat)), NEW t, t = Pushed(dir)
  PROVE  /\ t \in Seq(Entries(dir)) /\ \A e \in Entries(dir) : \E i \in DOMAIN t : t[i] = e
         /\ \A i, j \in DOMAIN t : i < j => WalkedBefore(t[j], t[i])
<1> DEFINE s == Children(dir)
           m == Len(s)
<1>1. /\ s \in Seq(Entries(dir)) /\ \A e \in Entries(dir) : \E i \in DOMAIN s : s[i] = e
      /\ \A i, j \in DOMAIN s : i < j => WalkedBefore(s[i], s[j])
  BY ChildrenSorted
<1>2. t = [i \in 1..m |-> s[(m - i) + 1]] BY DEF Pushed, Reverse
<1> HIDE DEF s
<1>3. m \in Nat /\ DOMAIN s = 1..m BY <1>1
<1> HIDE DEF m
<1>4. ASSUME NEW i \in 1..m PROVE (m - i) + 1 \in 1..m /\ (m - ((m - i) + 1)) + 1 = i BY <1>3
<1>5. DOMAIN t = 1..m /\ \A i \in 1..m : t[i] = s[(m - i) + 1] BY <1>2
<1>6. t \in Seq(Entries(dir))
  <2>1. \A i \in 1..m : s[(m - i) + 1] \in Entries(dir) BY <1>1, <1>3, <1>4
  <2>2. [i \in 1..m |-> s[(m - i) + 1]] \in Seq(Entries(dir)) BY <1>3, <2>1
  <2> QED BY <1>2, <2>2
<1>7. ASSUME NEW e \in Entries(dir) PROVE \E i \in DOMAIN t : t[i] = e
  <2>1. PICK i \in 1..m : s[i] = e BY <1>1, <1>3
  <2>2. (m - i) + 1 \in 1..m /\ t[(m - i) + 1] = s[i]
    <3> DEFINE h == (m - i) + 1
    <3>1. h \in 1..m /\ (m - h) + 1 = i BY <1>4
    <3> HIDE DEF h
    <3>2. t[h] = s[i] BY <1>5, <3>1
    <3> QED BY <3>1, <3>2 DEF h
  <2> QED BY <1>5, <2>1, <2>2
<1>8. ASSUME NEW i \in 1..m, NEW j \in 1..m, i < j PROVE WalkedBefore(t[j], t[i])
  <2>1. (m - j) + 1 \in 1..m /\ (m - i) + 1 \in 1..m /\ (m - j) + 1 < (m - i) + 1 BY <1>3, <1>8
  <2>2. WalkedBefore(s[(m - j) + 1], s[(m - i) + 1]) BY <1>1, <1>3, <2>1
  <2> QED BY <1>5, <2>2
<1> QED BY <1>5, <1>6, <1>7, <1>8

-----------------------------------------------------------------------------
(* The steps.                                                               *)

\* The stack without its top.
LEMMA Popped ==
  ASSUME NEW S, NEW q \in Seq(S), q # <<>>
  PROVE  /\ Len(q) \in Nat \ {0} /\ DOMAIN q = 1..Len(q) /\ Last(q) = q[Len(q)] /\ Last(q) \in S
         /\ Front(q) \in Seq(S) /\ Len(Front(q)) = Len(q) - 1 /\ DOMAIN Front(q) = 1..(Len(q) - 1)
         /\ \A i \in 1..(Len(q) - 1) : Front(q)[i] = q[i]
<1> DEFINE n == Len(q)
           f == Front(q)
<1>1. n \in Nat \ {0} /\ DOMAIN q = 1..n BY EmptySeq
<1>2. Last(q) = q[n] /\ q[n] \in S BY <1>1 DEF Last
<1>3. f = SubSeq(q, 1, n - 1) BY DEF Front
<1>4. /\ f \in Seq(S) /\ Len(f) = IF 1 <= n - 1 THEN (n - 1) - 1 + 1 ELSE 0
      /\ \A i \in 1..((n - 1) - 1 + 1) : f[i] = q[1 + i - 1]
  <2>1. n - 1 \in Int /\ \A i \in 1..(n - 1) : q[i] \in S BY <1>1
  <2> HIDE DEF n
  <2> QED BY <1>3, <2>1, SubSeqProperties
<1> HIDE DEF f, n
<1>5. Len(f) = n - 1 BY <1>1, <1>4
<1>6. ASSUME NEW i \in 1..(n - 1) PROVE f[i] = q[i]
  <2>1. i \in 1..((n - 1) - 1 + 1) /\ 1 + i - 1 = i BY <1>1
  <2> QED BY <1>4, <2>1
<1>7. DOMAIN f = 1..(n - 1) BY <1>4, <1>5
<1> QED BY <1>1, <1>2, <1>4, <1>5, <1>6, <1>7 DEF f, n

\* A file that is collected is a key.
LEMMA CollectedKey ==
  ASSUME BlobsOK, NEW path \in files, ~PassedOver(path)
  PROVE  path \in Keys /\ path \in ever
<1>1. path \in Paths BY DEF BlobsOK, TypeOK
<1>2. path \notin Hidden BY <1>1, PathType, ListingAssumption DEF PassedOver, IsInternal
<1>3. path \notin Temps BY DEF PassedOver, IsTemp
<1> QED BY <1>1, <1>2, <1>3 DEF Paths, BlobsOK

\* The page is appended to the listing, without the key too many if it has one.
LEMMA PageEnds ==
  ASSUME BlobsOK, EndPage
  PROVE  \E m \in 0..Len(page) :
           /\ out' \in Seq(Paths) /\ Len(out') = Len(out) + m
           /\ \A i \in 1..Len(out) : out'[i] = out[i]
           /\ \A i \in 1..m : out'[Len(out) + i] = page[i]
           /\ \/ /\ m = PageLimit /\ Len(page) = PageLimit + 1
                 /\ token' = Key(page[PageLimit]) /\ pc' = "page"
              \/ m = Len(page) /\ token' = <<>> /\ pc' = "done" /\ stack = <<>>
<1>1. /\ page \in Seq(Paths) /\ out \in Seq(Paths) /\ Len(page) \in Nat /\ Len(out) \in Nat
      /\ Len(page) <= PageLimit + 1 /\ PageLimit \in Nat \ {0} /\ DOMAIN page = 1..Len(page)
  BY ListingAssumption DEF BlobsOK, TypeOK
<1> DEFINE m == IF Len(page) > PageLimit THEN PageLimit ELSE Len(page)
           s == SubSeq(page, 1, m)
<1>2. m \in 0..Len(page) /\ m \in Nat BY <1>1
<1>3. /\ Len(page) > PageLimit => Len(page) = PageLimit + 1
      /\ ~(Len(page) > PageLimit) => Len(page) # PageLimit + 1
  <2> DEFINE n == Len(page)
  <2>1. n \in Nat /\ n <= PageLimit + 1 /\ PageLimit \in Nat BY <1>1
  <2> HIDE DEF n
  <2>2. (n > PageLimit => n = PageLimit + 1) /\ (~(n > PageLimit) => n # PageLimit + 1) BY <2>1
  <2> QED BY <2>2 DEF n
<1>4. ~(Len(page) > PageLimit) => stack = <<>>
  <2>1. PageFull \/ stack = <<>> BY DEF EndPage
  <2>2. PageFull => Len(page) = PageLimit + 1 BY DEF PageFull
  <2> HIDE DEF m, s
  <2> QED BY <1>3, <2>1, <2>2
<1>5. s = IF Len(page) > PageLimit THEN SubSeq(page, 1, PageLimit) ELSE page BY <1>1, SubSeqFull
<1>6. out' = out \o s BY <1>5 DEF EndPage
<1>7. /\ Len(page) > PageLimit => token' = Key(page[PageLimit]) /\ pc' = "page"
      /\ ~(Len(page) > PageLimit) => token' = <<>> /\ pc' = "done"
  BY DEF EndPage
<1>8. \/ m = PageLimit /\ Len(page) = PageLimit + 1 /\ token' = Key(page[PageLimit]) /\ pc' = "page"
      \/ m = Len(page) /\ token' = <<>> /\ pc' = "done" /\ stack = <<>>
  BY <1>3, <1>4, <1>7
<1> HIDE DEF m
<1>9. s \in Seq(Paths) /\ Len(s) = m /\ \A i \in 1..m : s[i] = page[i]
  <2>1. \A i \in 1..m : page[i] \in Paths BY <1>1, <1>2
  <2>2. /\ s \in Seq(Paths) /\ Len(s) = IF 1 <= m THEN m - 1 + 1 ELSE 0
        /\ \A i \in 1..(m - 1 + 1) : s[i] = page[1 + i - 1]
    BY <1>2, <2>1, SubSeqProperties
  <2> HIDE DEF s
  <2>3. ASSUME NEW i \in 1..m PROVE s[i] = page[i]
    <3>1. i \in 1..(m - 1 + 1) /\ 1 + i - 1 = i BY <1>2
    <3> QED BY <2>2, <3>1
  <2> QED BY <1>2, <2>2, <2>3
<1> HIDE DEF s
<1>10. /\ out' \in Seq(Paths) /\ Len(out') = Len(out) + m
       /\ \A i \in 1..(Len(out) + m) : out'[i] = IF i <= Len(out) THEN out[i] ELSE s[i - Len(out)]
  BY <1>1, <1>6, <1>9, ConcatProperties
<1>11. \A i \in 1..Len(out) : out'[i] = out[i] BY <1>1, <1>2, <1>10
<1>12. ASSUME NEW i \in 1..m PROVE out'[Len(out) + i] = page[i]
  <2>1. Len(out) + i \in 1..(Len(out) + m) /\ ~(Len(out) + i <= Len(out)) /\ (Len(out) + i) - Len(out) = i
    BY <1>1, <1>2
  <2>2. out'[Len(out) + i] = s[i] BY <1>10, <2>1
  <2> QED BY <1>9, <2>2
<1> QED BY <1>2, <1>8, <1>10, <1>11, <1>12

\* The positions of a concatenation.
IsJoin(c, a, b) ==
  /\ DOMAIN c = 1..(Len(a) + Len(b))
  /\ \A i \in 1..Len(a) : i \in DOMAIN c /\ c[i] = a[i]
  /\ \A i \in 1..Len(b) : Len(a) + i \in DOMAIN c /\ c[Len(a) + i] = b[i]
  /\ \A i \in DOMAIN c : i \in 1..Len(a) \/ \E j \in 1..Len(b) : i = Len(a) + j

LEMMA Joined ==
  ASSUME NEW S, NEW a \in Seq(S), NEW b \in Seq(S), NEW c, c = a \o b
  PROVE  IsJoin(c, a, b)
<1> DEFINE n == Len(a)
           m == Len(b)
<1>1. n \in Nat /\ m \in Nat OBVIOUS
<1>2. /\ Len(c) = n + m /\ DOMAIN c = 1..Len(c)
      /\ \A i \in 1..(n + m) : c[i] = IF i <= n THEN a[i] ELSE b[i - n]
  BY ConcatProperties
<1>3. DOMAIN c = 1..(n + m) BY <1>2
<1> HIDE DEF n, m
<1>4. ASSUME NEW i \in 1..n PROVE i \in 1..(n + m) /\ c[i] = a[i]
  <2>1. i \in 1..(n + m) /\ i <= n BY <1>1
  <2> QED BY <1>2, <2>1
<1>5. ASSUME NEW i \in 1..m PROVE n + i \in 1..(n + m) /\ c[n + i] = b[i]
  <2>1. n + i \in 1..(n + m) /\ ~(n + i <= n) /\ (n + i) - n = i BY <1>1
  <2> QED BY <1>2, <2>1
<1>6. ASSUME NEW i \in 1..(n + m), i \notin 1..n PROVE \E j \in 1..m : i = n + j
  <2>1. i - n \in 1..m /\ i = n + (i - n) BY <1>1, <1>6
  <2> QED BY <2>1
<1> QED BY <1>3, <1>4, <1>5, <1>6 DEF IsJoin, n, m

\* A turn of the loop: the path popped, what it leaves of the stack, what it
\* adds to the stack and to the page.
Kind(path, new, add) ==
  \/ path \in files /\ ~PassedOver(path) /\ path \in ever /\ add = <<path>> /\ new = <<>>
  \/ path \in files /\ PassedOver(path) /\ add = <<>> /\ new = <<>>
  \/ path \in Dirs /\ ~IsInternal(path) /\ add = <<>> /\ new = Pushed(path)
  \/ path \notin files /\ (path \notin Dirs \/ IsInternal(path)) /\ add = <<>> /\ new = <<>>

Turns(path, rest, new, add) ==
  /\ Len(stack) = Len(rest) + 1 /\ stack[Len(rest) + 1] = path
  /\ \A i \in 1..Len(rest) : stack[i] = rest[i]
  /\ stack' = rest \o new /\ IsJoin(stack', rest, new)
  /\ page' = page \o add /\ IsJoin(page', page, add)
  /\ pc = "walk" /\ Len(page) <= PageLimit
  /\ Kind(path, new, add)

LEMMA Turn ==
  ASSUME BlobsOK, Visit
  PROVE  \E path \in Nodes : \E rest \in Seq(Nodes) : \E new \in Seq(Nodes) : \E add \in Seq(Keys) :
           Turns(path, rest, new, add)
<1> DEFINE path == Last(stack)
           rest == Front(stack)
<1>1. /\ stack \in Seq(Nodes) /\ page \in Seq(Paths) /\ Len(page) <= PageLimit + 1 /\ PageLimit \in Nat
      /\ files \subseteq Paths
  BY ListingAssumption DEF BlobsOK, TypeOK, Nodes
<1>2. stack # <<>> /\ pc = "walk" /\ ~PageFull BY DEF Visit
<1>3. /\ path \in Nodes /\ rest \in Seq(Nodes) /\ Len(stack) = Len(rest) + 1 /\ stack[Len(rest) + 1] = path
      /\ \A i \in 1..Len(rest) : stack[i] = rest[i]
  <2> DEFINE n == Len(stack)
             l == Len(rest)
  <2>1. n \in Nat \ {0} /\ path = stack[n] /\ path \in Nodes /\ rest \in Seq(Nodes) /\ l = n - 1
        /\ \A i \in 1..(n - 1) : rest[i] = stack[i]
    BY <1>1, <1>2, Popped
  <2>2. n = l + 1
    <3> HIDE DEF n, l
    <3> QED BY <2>1
  <2> HIDE DEF path, rest
  <2> QED BY <2>1, <2>2
<1>4. Len(page) <= PageLimit
  <2> DEFINE n == Len(page)
  <2>1. n \in Nat /\ n <= PageLimit + 1 /\ n # PageLimit + 1 BY <1>1, <1>2 DEF PageFull
  <2> HIDE DEF n
  <2>2. n <= PageLimit BY <1>1, <2>1
  <2> QED BY <2>2 DEF n
<1>5. page \o <<>> = page /\ rest \o <<>> = rest BY <1>1, <1>3, ConcatEmptySeq
<1> SUFFICES \E new \in Seq(Nodes) : \E add \in Seq(Keys) :
               stack' = rest \o new /\ page' = page \o add /\ Kind(path, new, add)
  <2>1. \A new \in Seq(Nodes) : stack' = rest \o new => IsJoin(stack', rest, new) BY <1>3, Joined, Zenon
  <2>2. \A add \in Seq(Keys) : page' = page \o add => IsJoin(page', page, add)
    <3>1. \A add \in Seq(Keys) : add \in Seq(Paths) BY PathType
    <3> QED BY <1>1, <3>1, Joined, Zenon
  <2> HIDE DEF path, rest
  <2> QED BY <1>2, <1>3, <1>4, <2>1, <2>2 DEF Turns
<1>6. <<>> \in Seq(Nodes) /\ <<>> \in Seq(Keys) OBVIOUS
<1>7. \/ path \in files /\ ~PassedOver(path) /\ page' = Append(page, path) /\ stack' = rest
      \/ path \in files /\ PassedOver(path) /\ stack' = rest /\ page' = page
      \/ path \in Dirs /\ ~IsInternal(path) /\ stack' = rest \o Pushed(path) /\ page' = page
      \/ /\ path \notin files /\ (path \notin Dirs \/ IsInternal(path))
         /\ stack' = rest /\ page' = page
  BY DEF Visit
<1> HIDE DEF path, rest
<1>8. CASE path \in files /\ ~PassedOver(path) /\ page' = Append(page, path) /\ stack' = rest
  <2>1. path \in Keys /\ path \in ever BY <1>8, CollectedKey
  <2>2. <<path>> \in Seq(Keys) BY <2>1
  <2>3. page' = page \o <<path>> BY <1>1, <1>8, <2>1, AppendIsConcat, PathType
  <2> QED BY <1>2, <1>3, <1>4, <1>5, <1>6, <1>8, <2>1, <2>2, <2>3 DEF Kind
<1>9. CASE path \in files /\ PassedOver(path) /\ stack' = rest /\ page' = page
  BY <1>2, <1>3, <1>4, <1>5, <1>6, <1>9 DEF Kind
<1>10. CASE path \in Dirs /\ ~IsInternal(path) /\ stack' = rest \o Pushed(path) /\ page' = page
  <2>1. path \in Seq(Seq(Nat)) BY <1>3, NodeType
  <2>2. Pushed(path) \in Seq(Entries(path)) BY <1>1, <2>1, PushedSorted
  <2>3. Entries(path) \subseteq Nodes BY <1>1 DEF Entries, Nodes
  <2>4. Pushed(path) \in Seq(Nodes) BY <2>2, <2>3
  <2> QED BY <1>2, <1>3, <1>4, <1>5, <1>6, <1>10, <2>4 DEF Kind
<1>11. CASE path \notin files /\ (path \notin Dirs \/ IsInternal(path)) /\ stack' = rest /\ page' = page
  BY <1>2, <1>3, <1>4, <1>5, <1>6, <1>11 DEF Kind
<1> QED BY <1>7, <1>8, <1>9, <1>10, <1>11

-----------------------------------------------------------------------------
(* What is on the pages.                                                    *)

\* The continuation tokens: none, or the key of a blob.
Tokens == {<<>>} \cup {Key(p) : p \in Keys}

LEMMA TokenType == Tokens \subseteq Seq(Nat)
<1>1. <<>> \in Seq(Nat) OBVIOUS
<1>2. \A p \in Keys : Key(p) \in Seq(Nat) BY KeyAssumption
<1> QED BY <1>1, <1>2 DEF Tokens

LEMMA BlobsInit == Init => BlobsOK
<1> SUFFICES ASSUME Init PROVE BlobsOK OBVIOUS
<1>1. PICK fs \in SUBSET Keys : files = fs \cup Hidden \cup Temps BY DEF Init
<1>2. files \in SUBSET Paths BY <1>1 DEF Paths
<1>3. <<>> \in Seq(Paths) /\ <<>> \in Seq(Paths \cup Dirs \cup {Prefix})
      /\ Len(<<>>) = 0 /\ DOMAIN <<>> = {}
  OBVIOUS
<1>4. 0 <= PageLimit + 1 /\ 0 \in 0..MaxEdits BY ListingAssumption
<1>5. token \in Tokens BY DEF Init, Tokens
<1>6. TypeOK BY <1>2, <1>3, <1>4, <1>5 DEF Init, TypeOK, Tokens
<1> QED BY <1>3, <1>6 DEF Init, BlobsOK

LEMMA BlobsVisit ==
  ASSUME BlobsOK, Visit
  PROVE  BlobsOK'
<1>1. UNCHANGED <<files, pc, token, out, edits, steady, ever>> BY DEF Visit
<1>2. PICK path \in Nodes : \E rest \in Seq(Nodes) : \E new \in Seq(Nodes) : \E add \in Seq(Keys) :
        Turns(path, rest, new, add)
  BY Turn
<1>3. PICK rest \in Seq(Nodes), new \in Seq(Nodes), add \in Seq(Keys) : Turns(path, rest, new, add) BY <1>2
<1>4. /\ stack' = rest \o new /\ page' = page \o add /\ IsJoin(page', page, add) /\ Len(page) <= PageLimit
      /\ (path \in ever /\ add = <<path>>) \/ add = <<>>
  BY <1>3 DEF Turns, Kind
<1>5. page \in Seq(Paths) /\ add \in Seq(Paths) /\ PageLimit \in Nat BY PathType, ListingAssumption DEF BlobsOK, TypeOK
<1>6. stack' \in Seq(Nodes) BY <1>4
<1>7. page' \in Seq(Paths) BY <1>4, <1>5
<1>8. Len(page') <= PageLimit + 1
  <2>1. Len(add) \in 0..1 BY <1>4
  <2>2. Len(page') = Len(page) + Len(add) /\ Len(page) \in Nat BY <1>4, <1>5
  <2> DEFINE n == Len(page)
             m == Len(add)
  <2>3. n \in Nat /\ n <= PageLimit /\ m \in 0..1 BY <1>4, <2>1, <2>2
  <2> HIDE DEF n, m
  <2>4. n + m <= PageLimit + 1 BY <1>5, <2>3
  <2> QED BY <2>2, <2>4 DEF n, m
<1>9. \A i \in 1..Len(add) : add[i] \in ever BY <1>4
<1>10. \A i \in 1..Len(page) : page[i] \in ever BY <1>5 DEF BlobsOK
<1>11. \A i \in DOMAIN page' : page'[i] \in ever BY <1>4, <1>9, <1>10 DEF IsJoin
<1>12. TypeOK' BY <1>1, <1>6, <1>7, <1>8 DEF BlobsOK, TypeOK, Nodes
<1> QED BY <1>1, <1>11, <1>12 DEF BlobsOK

LEMMA BlobsEndPage ==
  ASSUME BlobsOK, EndPage
  PROVE  BlobsOK'
<1>1. page' = <<>> /\ stack' = <<>> /\ UNCHANGED <<files, edits, steady, ever>> BY DEF EndPage
<1>2. PICK m \in 0..Len(page) :
           /\ out' \in Seq(Paths) /\ Len(out') = Len(out) + m
           /\ \A i \in 1..Len(out) : out'[i] = out[i]
           /\ \A i \in 1..m : out'[Len(out) + i] = page[i]
           /\ \/ m = PageLimit /\ token' = Key(page[PageLimit]) /\ pc' = "page"
              \/ token' = <<>> /\ pc' = "done"
  BY PageEnds
<1>3. /\ Len(page) \in Nat /\ Len(out) \in Nat /\ DOMAIN page = 1..Len(page) /\ DOMAIN out = 1..Len(out)
      /\ \A i \in 1..Len(page) : page[i] \in ever
      /\ \A i \in 1..Len(out) : out[i] \in ever
      /\ ever \subseteq Keys /\ PageLimit \in Nat \ {0}
  <2>1. /\ page \in Seq(Paths) /\ out \in Seq(Paths) /\ ever \subseteq Keys
        /\ \A i \in DOMAIN page : page[i] \in ever
        /\ \A i \in DOMAIN out : out[i] \in ever
    BY DEF BlobsOK, TypeOK
  <2>2. /\ Len(page) \in Nat /\ DOMAIN page = 1..Len(page)
        /\ Len(out) \in Nat /\ DOMAIN out = 1..Len(out)
    BY <2>1
  <2>3. PageLimit \in Nat \ {0} BY ListingAssumption
  <2> QED BY <2>1, <2>2, <2>3, Zenon
<1>4. token' \in Tokens
  <2>1. m = PageLimit => page[PageLimit] \in Keys
    <3>1. m = PageLimit => PageLimit \in 1..Len(page) BY <1>2, <1>3
    <3> QED BY <1>3, <3>1
  <2>2. page[PageLimit] \in Keys => Key(page[PageLimit]) \in Tokens BY Zenon DEF Tokens
  <2>3. <<>> \in Tokens BY DEF Tokens
  <2> QED BY <1>2, <2>1, <2>2, <2>3
<1>5. ASSUME NEW i \in DOMAIN out' PROVE out'[i] \in ever
  <2>1. i \in 1..(Len(out) + m) BY <1>2
  <2>2. CASE i \in 1..Len(out) BY <1>2, <1>3, <2>2
  <2>3. CASE i \notin 1..Len(out)
    <3> DEFINE j == i - Len(out)
    <3>1. j \in 1..m /\ j \in 1..Len(page) /\ i = Len(out) + j BY <1>2, <1>3, <2>1, <2>3
    <3> HIDE DEF j
    <3> QED BY <1>2, <1>3, <3>1
  <2> QED BY <2>2, <2>3
<1>6. <<>> \in Seq(Paths) /\ <<>> \in Seq(Paths \cup Dirs \cup {Prefix}) /\ Len(<<>>) = 0 /\ DOMAIN <<>> = {} OBVIOUS
<1>7. 0 <= PageLimit + 1 BY <1>3
<1>8. pc' \in {"page", "walk", "done", "failed"} BY <1>2
<1>9. TypeOK' BY <1>1, <1>2, <1>4, <1>6, <1>7, <1>8 DEF BlobsOK, TypeOK, Tokens
<1> QED BY <1>1, <1>5, <1>6, <1>9 DEF BlobsOK

LEMMA BlobsStep == BlobsOK /\ [Next]_vars => BlobsOK'
<1> SUFFICES ASSUME BlobsOK, [Next]_vars PROVE BlobsOK' OBVIOUS
<1>1. CASE StartPage
  <2>1. <<Prefix>> \in Seq(Paths \cup Dirs \cup {Prefix}) /\ <<>> \in Seq(Paths) /\ Len(<<>>) = 0 /\ DOMAIN <<>> = {}
    OBVIOUS
  <2>2. 0 <= PageLimit + 1 BY ListingAssumption
  <2>3. TypeOK' BY <1>1, <2>1, <2>2 DEF StartPage, BlobsOK, TypeOK
  <2> QED BY <1>1, <2>1, <2>3 DEF StartPage, BlobsOK
<1>2. CASE Visit BY <1>2, BlobsVisit
<1>3. CASE VisitFails BY <1>3 DEF VisitFails, BlobsOK, TypeOK
<1>4. CASE EndPage BY <1>4, BlobsEndPage
<1>5. ASSUME NEW k \in Keys, Put(k) PROVE BlobsOK'
  <2>1. files' \in SUBSET Paths /\ ever' \subseteq Keys BY <1>5, PathType DEF Put, BlobsOK, TypeOK
  <2>2. edits' \in 0..MaxEdits BY <1>5, ListingAssumption DEF Put, BlobsOK, TypeOK
  <2>3. TypeOK' BY <1>5, <2>1, <2>2 DEF Put, BlobsOK, TypeOK
  <2> QED BY <1>5, <2>3 DEF Put, BlobsOK
<1>6. ASSUME NEW k \in Keys, Delete(k) PROVE BlobsOK'
  <2>1. files' \in SUBSET Paths /\ steady' \subseteq Keys BY <1>6 DEF Delete, BlobsOK, TypeOK
  <2>2. edits' \in 0..MaxEdits BY <1>6, ListingAssumption DEF Delete, BlobsOK, TypeOK
  <2>3. TypeOK' BY <1>6, <2>1, <2>2 DEF Delete, BlobsOK, TypeOK
  <2> QED BY <1>6, <2>3 DEF Delete, BlobsOK
<1>7. CASE UNCHANGED vars BY <1>7 DEF vars, BlobsOK, TypeOK
<1> QED BY <1>1, <1>2, <1>3, <1>4, <1>5, <1>6, <1>7 DEF Next, List, Edit, Finished

\* Every variable keeps its type: no page holds more than the one key it looks
\* ahead, and every token it is given is the key of a blob.
THEOREM TypeCorrect == Spec => []TypeOK
<1>1. BlobsOK => TypeOK BY DEF BlobsOK
<1> QED BY <1>1, BlobsInit, BlobsStep, PTL DEF Spec

\* collect_blob_page never lists a temporary or an internal file, and no key
\* that has not been there during the listing, whatever is written meanwhile.
THEOREM OnlyBlobs == Spec => []OnlyBlobsListed
<1>1. BlobsOK => OnlyBlobsListed BY DEF BlobsOK, TypeOK, OnlyBlobsListed
<1> QED BY <1>1, BlobsInit, BlobsStep, PTL DEF Spec

-----------------------------------------------------------------------------
(* The order of the walk.                                                   *)

\* What lies below a path lies in an entry of it.
LEMMA Below ==
  ASSUME NEW p \in Seq(Seq(Nat)), NEW k \in Paths, Leads(p, k), p # k
  PROVE  /\ p \in Dirs
         /\ k \in files => \E e \in Entries(p) : Leads(e, k)
<1> DEFINE n == Len(p)
           l == Len(k)
           e == SubSeq(k, 1, n + 1)
<1>1. k \in Seq(Seq(Nat)) /\ n \in Nat /\ l \in Nat BY PathType
<1>2. n <= l /\ \A i \in 1..n : p[i] = k[i] BY DEF Leads
<1>3. n < l
  <2>1. n # l BY <1>1, <1>2, SeqEqual
  <2> HIDE DEF n, l
  <2> QED BY <1>1, <1>2, <2>1
<1>4. n \in 0..l /\ n + 1 \in 0..l /\ n \in 0..(l - 1)
  <2> HIDE DEF n, l
  <2> QED BY <1>1, <1>3
<1>5. p \in Dirs
  <2> DEFINE d == SubSeq(k, 1, n)
  <2>1. d \in Seq(Seq(Nat)) /\ Len(d) = n /\ Leads(d, k) BY <1>1, <1>4, Ancestor
  <2>2. \A i \in 1..n : d[i] = p[i] BY <1>2, <2>1 DEF Leads
  <2>3. d = p
    <3> HIDE DEF d
    <3> QED BY <2>1, <2>2, SeqEqual
  <2>4. d \in Dirs BY <1>4 DEF Dirs
  <2> QED BY <2>3, <2>4
<1>6. e \in Seq(Seq(Nat)) /\ Len(e) = n + 1 /\ Leads(e, k) BY <1>1, <1>4, Ancestor
<1>7. e \in Dirs \/ e = k
  <2>1. CASE n + 1 = l
    <3>1. SubSeq(k, 1, l) = k BY <1>1, SubSeqFull
    <3> HIDE DEF n, l
    <3> QED BY <2>1, <3>1
  <2>2. CASE n + 1 # l
    <3>1. n + 1 \in 0..(l - 1)
      <4> HIDE DEF n, l
      <4> QED BY <1>1, <1>3, <2>2
    <3> QED BY <3>1 DEF Dirs
  <2> QED BY <2>1, <2>2
<1> HIDE DEF e
<1>8. IsPrefix(p, e)
  <2>1. ASSUME NEW i \in 1..n PROVE p[i] = e[i]
    <3>1. i \in 1..(n + 1)
      <4> HIDE DEF n, l
      <4> QED BY <1>1
    <3>2. e[i] = k[i] BY <1>6, <3>1 DEF Leads
    <3> QED BY <1>2, <3>2
  <2>2. Len(p) <= Len(e)
    <3> HIDE DEF l
    <3> QED BY <1>1, <1>6
  <2>3. Leads(p, e) BY <2>1, <2>2 DEF Leads
  <2> QED BY <1>6, <2>3, PrefixLeads
<1>9. k \in files => e \in Entries(p) BY <1>6, <1>7, <1>8 DEF Entries
<1> QED BY <1>5, <1>6, <1>9

\* What a turn adds: the path itself to the page, or its entries to the stack.
LEMMA TurnAdds ==
  ASSUME BlobsOK, NEW path \in Nodes, NEW new \in Seq(Nodes), NEW add \in Seq(Keys), Kind(path, new, add)
  PROVE  /\ \A i \in 1..Len(new) : Leads(path, new[i])
         /\ \A i, j \in 1..Len(new) : i < j => WalkedBefore(new[j], new[i])
         /\ \A i \in 1..Len(add) : i = 1 /\ add[i] = path
         /\ \A i \in 1..Len(add) : ~\E j \in 1..Len(new) : TRUE
<1>1. path \in Seq(Seq(Nat)) /\ files \subseteq Paths BY NodeType DEF BlobsOK, TypeOK
<1>2. CASE new = <<>>
  <2>1. add = <<path>> \/ add = <<>> BY DEF Kind
  <2>2. Len(new) = 0 /\ \A i \in 1..Len(add) : i = 1 /\ add[i] = path BY <1>2, <2>1
  <2> QED BY <2>2
<1>3. CASE new = Pushed(path) /\ add = <<>>
  <2>1. /\ new \in Seq(Entries(path))
        /\ \A i, j \in DOMAIN new : i < j => WalkedBefore(new[j], new[i])
    BY <1>1, <1>3, PushedSorted
  <2>2. \A i \in 1..Len(new) : new[i] \in Entries(path) BY <2>1
  <2>3. \A i \in 1..Len(new) : Leads(path, new[i]) BY <1>1, <2>2, EntryShape
  <2>4. DOMAIN new = 1..Len(new) /\ Len(add) = 0 BY <1>3
  <2> QED BY <2>1, <2>3, <2>4
<1> QED BY <1>2, <1>3 DEF Kind

LEMMA LeadsSelf == \A p \in Seq(Seq(Nat)) : Leads(p, p)
BY DEF Leads

\* A turn keeps the walk in order.
LEMMA WalkVisit ==
  ASSUME BlobsOK, WalkOK, NEW path \in Nodes, NEW rest \in Seq(Nodes), NEW new \in Seq(Nodes),
         NEW add \in Seq(Keys), Turns(path, rest, new, add)
  PROVE  WalkOK'
<1> DEFINE n == Len(rest)
           m == Len(page)
<1>1. n \in Nat /\ m \in Nat /\ Len(new) \in Nat /\ Len(add) \in Nat BY DEF BlobsOK, TypeOK
<1>2. DOMAIN stack = 1..(n + 1) /\ DOMAIN page = 1..m
  <2>1. stack \in Seq(Nodes) /\ page \in Seq(Paths) /\ Len(stack) = n + 1 BY DEF BlobsOK, TypeOK, Nodes, Turns
  <2> QED BY <2>1
<1>3. stack[n + 1] = path /\ \A i \in 1..n : stack[i] = rest[i] BY DEF Turns
<1>4. /\ \A i \in 1..Len(new) : Leads(path, new[i])
      /\ \A i, j \in 1..Len(new) : i < j => WalkedBefore(new[j], new[i])
      /\ \A i \in 1..Len(add) : i = 1 /\ add[i] = path
      /\ \A i \in 1..Len(add) : ~\E j \in 1..Len(new) : TRUE
  BY TurnAdds DEF Turns
<1>5. /\ \A i \in 1..n : rest[i] \in Seq(Seq(Nat))
      /\ \A i \in 1..Len(new) : new[i] \in Seq(Seq(Nat))
      /\ \A i \in 1..m : page[i] \in Seq(Seq(Nat))
      /\ path \in Seq(Seq(Nat))
  BY NodeType, PathType DEF BlobsOK, TypeOK
<1>6. IsJoin(stack', rest, new) /\ IsJoin(page', page, add) BY DEF Turns
<1> HIDE DEF n, m
<1>7. \A i \in 1..n : i \in 1..(n + 1) /\ n + 1 \in 1..(n + 1) /\ i < n + 1 BY <1>1
<1>8. n + 1 \in 1..(n + 1) BY <1>1
<1>9. \A i, j \in 1..n : i < j => WalkedBefore(rest[j], rest[i]) BY <1>2, <1>3, <1>7 DEF WalkOK
<1>10. \A i \in 1..n : WalkedBefore(path, rest[i]) BY <1>2, <1>3, <1>7 DEF WalkOK
<1>11. \A i \in 1..m : WalkedBefore(page[i], path) BY <1>2, <1>3, <1>8 DEF WalkOK
<1>12. \A i \in 1..m : \A j \in 1..n : WalkedBefore(page[i], rest[j]) BY <1>2, <1>3, <1>7 DEF WalkOK
<1>13. \A i \in 1..n : \A j \in 1..Len(new) : WalkedBefore(new[j], rest[i])
  BY <1>4, <1>5, <1>10, LeadsSelf, WalkBelow
<1>14. \A i \in 1..m : \A j \in 1..Len(new) : WalkedBefore(page[i], new[j])
  BY <1>4, <1>5, <1>11, LeadsSelf, WalkBelow
<1>15. /\ \A i \in 1..n : stack'[i] = rest[i]
       /\ \A i \in 1..Len(new) : stack'[n + i] = new[i]
       /\ \A i \in DOMAIN stack' : i \in 1..n \/ \E j \in 1..Len(new) : i = n + j
  BY <1>6 DEF IsJoin, n
<1>16. /\ \A i \in 1..m : page'[i] = page[i]
       /\ \A i \in 1..Len(add) : page'[m + i] = add[i]
       /\ \A i \in DOMAIN page' : i \in 1..m \/ \E j \in 1..Len(add) : i = m + j
  BY <1>6 DEF IsJoin, m
<1>17. ASSUME NEW i \in DOMAIN stack', NEW j \in DOMAIN stack', i < j
       PROVE  WalkedBefore(stack'[j], stack'[i])
  <2>1. CASE i \in 1..n /\ j \in 1..n BY <1>9, <1>15, <1>17, <2>1
  <2>2. CASE i \in 1..n /\ \E h \in 1..Len(new) : j = n + h BY <1>13, <1>15, <2>2
  <2>3. ASSUME NEW g \in 1..Len(new), i = n + g, NEW h \in 1..Len(new), j = n + h
        PROVE  WalkedBefore(stack'[j], stack'[i])
    <3>1. g < h BY <1>1, <1>17, <2>3
    <3> QED BY <1>4, <1>15, <2>3, <3>1
  <2>4. ASSUME NEW g \in 1..Len(new), i = n + g, j \in 1..n PROVE FALSE BY <1>1, <1>17, <2>4
  <2> QED BY <1>15, <2>1, <2>2, <2>3, <2>4
<1>18. ASSUME NEW i \in DOMAIN page', NEW j \in DOMAIN stack' PROVE WalkedBefore(page'[i], stack'[j])
  <2>1. CASE i \in 1..m /\ j \in 1..n BY <1>12, <1>15, <1>16, <2>1
  <2>2. CASE i \in 1..m /\ \E h \in 1..Len(new) : j = n + h BY <1>14, <1>15, <1>16, <2>2
  <2>3. CASE (\E g \in 1..Len(add) : i = m + g) /\ j \in 1..n
    <3>1. page'[i] = path BY <1>4, <1>16, <2>3
    <3> QED BY <1>10, <1>15, <2>3, <3>1
  <2>4. CASE (\E g \in 1..Len(add) : i = m + g) /\ \E h \in 1..Len(new) : j = n + h BY <1>4, <2>4
  <2> QED BY <1>15, <1>16, <2>1, <2>2, <2>3, <2>4
<1>19. ASSUME NEW i \in DOMAIN page', NEW j \in DOMAIN page', i < j PROVE WalkedBefore(page'[i], page'[j])
  <2>1. CASE i \in 1..m /\ j \in 1..m BY <1>2, <1>16, <1>19, <2>1 DEF WalkOK
  <2>2. CASE i \in 1..m /\ \E h \in 1..Len(add) : j = m + h
    <3>1. page'[j] = path BY <1>4, <1>16, <2>2
    <3> QED BY <1>11, <1>16, <2>2, <3>1
  <2>3. ASSUME NEW g \in 1..Len(add), i = m + g PROVE FALSE
    <3>1. g = 1 BY <1>4
    <3>2. ASSUME NEW h \in 1..Len(add), j = m + h PROVE FALSE
      <4>1. h = 1 BY <1>4
      <4> QED BY <1>1, <1>19, <2>3, <3>1, <3>2, <4>1
    <3>3. j \notin 1..m BY <1>1, <1>19, <2>3
    <3> QED BY <1>16, <3>2, <3>3
  <2> QED BY <1>16, <2>1, <2>2, <2>3
<1> QED BY <1>17, <1>18, <1>19 DEF WalkOK

\* A turn collects only what is after the token.
LEMMA TokenVisit ==
  ASSUME BlobsOK, TokenOK, Visit, NEW path \in Nodes, NEW rest \in Seq(Nodes), NEW new \in Seq(Nodes),
         NEW add \in Seq(Keys), Turns(path, rest, new, add)
  PROVE  TokenOK'
<1>1. UNCHANGED <<token, pc, out>> BY DEF Visit
<1>2. IsJoin(page', page, add) /\ Kind(path, new, add) BY DEF Turns
<1>3. \A i \in 1..Len(page) : token # <<>> => SeqLess(token, Key(page[i]))
  <2>1. DOMAIN page = 1..Len(page) BY DEF BlobsOK, TypeOK
  <2> QED BY <2>1 DEF TokenOK
<1>4. ASSUME NEW i \in 1..Len(add), token # <<>> PROVE SeqLess(token, Key(add[i]))
  <2>1. CASE add = <<>> BY <2>1
  <2>2. CASE add = <<path>> /\ ~PassedOver(path)
    <3>1. add[i] = path BY <2>2
    <3> QED BY <1>4, <2>2, <3>1 DEF PassedOver, Skipped
  <2> QED BY <1>2, <2>1, <2>2 DEF Kind
<1>5. ASSUME NEW i \in DOMAIN page', token # <<>> PROVE SeqLess(token, Key(page'[i]))
  <2>1. CASE i \in 1..Len(page)
    <3>1. page'[i] = page[i] BY <1>2, <2>1 DEF IsJoin
    <3> QED BY <1>3, <1>5, <2>1, <3>1
  <2>2. ASSUME NEW j \in 1..Len(add), i = Len(page) + j PROVE SeqLess(token, Key(page'[i]))
    <3>1. page'[i] = add[j] BY <1>2, <2>2 DEF IsJoin
    <3> QED BY <1>4, <1>5, <3>1
  <2> QED BY <1>2, <2>1, <2>2 DEF IsJoin
<1> QED BY <1>1, <1>5 DEF TokenOK

\* A turn loses no steady key.
LEMMA FoundVisit ==
  ASSUME BlobsOK, FoundOK, Visit, NEW path \in Nodes, NEW rest \in Seq(Nodes), NEW new \in Seq(Nodes),
         NEW add \in Seq(Keys), Turns(path, rest, new, add)
  PROVE  FoundOK'
<1>1. UNCHANGED <<files, token, pc, out, steady>> /\ pc = "walk" BY DEF Visit
<1>2. IsJoin(page', page, add) /\ IsJoin(stack', rest, new) /\ Kind(path, new, add) BY DEF Turns
<1>3. files \subseteq Paths /\ steady \subseteq files /\ steady \subseteq Keys BY DEF BlobsOK, TypeOK
<1> SUFFICES ASSUME NEW k \in steady, Leads(Prefix, k)
             PROVE  /\ Contains(out, k) \/ token = <<>> \/ SeqLess(token, Key(k))
                    /\ Contains(out, k) \/ Contains(page', k) \/ \E i \in DOMAIN stack' : Leads(stack'[i], k)
  BY <1>1 DEF FoundOK
<1>4. Contains(out, k) \/ token = <<>> \/ SeqLess(token, Key(k)) BY <1>1 DEF FoundOK
<1>5. Contains(out, k) \/ Contains(page, k) \/ \E i \in DOMAIN stack : Leads(stack[i], k) BY <1>1 DEF FoundOK
<1>6. page' \in Seq(Paths) /\ DOMAIN page' = 1..Len(page')
  <2>1. BlobsOK' BY BlobsVisit
  <2> QED BY <2>1 DEF BlobsOK, TypeOK
<1>7. ASSUME Contains(page, k) PROVE Contains(page', k)
  <2>1. PICK i \in 1..Len(page) : page[i] = k BY <1>7 DEF Contains
  <2>2. i \in DOMAIN page' /\ page'[i] = k BY <1>2, <2>1 DEF IsJoin
  <2> QED BY <1>6, <2>2 DEF Contains
<1>8. ASSUME NEW j \in 1..Len(add), add[j] = k PROVE Contains(page', k)
  <2>1. Len(page) + j \in DOMAIN page' /\ page'[Len(page) + j] = k BY <1>2, <1>8 DEF IsJoin
  <2> QED BY <1>6, <2>1 DEF Contains
<1>9. ASSUME NEW j \in 1..Len(rest), Leads(rest[j], k) PROVE \E i \in DOMAIN stack' : Leads(stack'[i], k)
  <2>1. j \in DOMAIN stack' /\ stack'[j] = rest[j] BY <1>2 DEF IsJoin
  <2> QED BY <1>9, <2>1
<1>10. ASSUME NEW j \in 1..Len(new), Leads(new[j], k) PROVE \E i \in DOMAIN stack' : Leads(stack'[i], k)
  <2>1. Len(rest) + j \in DOMAIN stack' /\ stack'[Len(rest) + j] = new[j] BY <1>2 DEF IsJoin
  <2> QED BY <1>10, <2>1
<1>11. ASSUME Leads(path, k)
       PROVE  Contains(out, k) \/ Contains(page', k) \/ \E i \in DOMAIN stack' : Leads(stack'[i], k)
  <2>1. path \in Seq(Seq(Nat)) /\ k \in Paths /\ k \in Keys /\ k \in files /\ k \in Seq(Seq(Nat))
    BY <1>3, NodeType, PathType
  <2>2. ~IsInternal(path) /\ ~IsTemp(k)
    <3>1. ~IsTemp(k) BY <2>1, ListingAssumption DEF IsTemp
    <3>2. ASSUME IsInternal(path) PROVE FALSE
      <4>1. path # <<>> /\ path[1] = InternalDir BY <3>2 DEF IsInternal
      <4>2. 1 \in 1..Len(path) BY <2>1, <4>1, EmptySeq
      <4>3. k[1] = InternalDir BY <1>11, <4>1, <4>2 DEF Leads
      <4> QED BY <2>1, <4>3, ListingAssumption
    <3> QED BY <3>1, <3>2
  <2>3. CASE path \in files /\ ~PassedOver(path) /\ add = <<path>>
    <3>1. path = k BY <1>3, <1>11, <2>1, <2>3, SamePath
    <3>2. 1 \in 1..Len(add) /\ add[1] = k BY <2>3, <3>1
    <3> QED BY <1>8, <3>2
  <2>4. CASE path \in files /\ PassedOver(path)
    <3>1. path = k BY <1>3, <1>11, <2>1, <2>4, SamePath
    <3>2. Skipped(k) BY <2>2, <2>4, <3>1 DEF PassedOver
    <3> QED BY <1>4, <3>2 DEF Skipped
  <2>5. CASE path \in Dirs /\ new = Pushed(path)
    <3>1. path # k BY <2>1, <2>5, DirAbove
    <3>2. PICK e \in Entries(path) : Leads(e, k) BY <1>11, <2>1, <3>1, Below
    <3>3. PICK j \in DOMAIN new : new[j] = e BY <1>3, <2>1, <2>5, PushedSorted
    <3>4. j \in 1..Len(new) OBVIOUS
    <3> QED BY <1>10, <3>2, <3>3, <3>4
  <2>6. CASE path \notin files /\ path \notin Dirs
    BY <1>11, <2>1, <2>6, Below
  <2> QED BY <1>2, <2>2, <2>3, <2>4, <2>5, <2>6 DEF Kind
<1>12. ASSUME NEW i \in DOMAIN stack, Leads(stack[i], k)
       PROVE  Leads(path, k) \/ \E j \in 1..Len(rest) : Leads(rest[j], k)
  <2> DEFINE n == Len(rest)
  <2>1. n \in Nat /\ DOMAIN stack = 1..(n + 1) /\ stack[n + 1] = path /\ \A j \in 1..n : stack[j] = rest[j]
    <3>1. stack \in Seq(Nodes) BY DEF BlobsOK, TypeOK, Nodes
    <3> QED BY <3>1 DEF Turns
  <2> HIDE DEF n
  <2>2. i \in 1..n \/ i = n + 1 BY <2>1
  <2> QED BY <1>12, <2>1, <2>2 DEF n
<1>13. Contains(out, k) \/ Contains(page', k) \/ \E i \in DOMAIN stack' : Leads(stack'[i], k)
  BY <1>5, <1>7, <1>9, <1>11, <1>12
<1> QED BY <1>4, <1>13

\* The end of a page: its keys follow those listed before, and the next token
\* is between them and all that is still to be found.
LEMMA OrderEndPage ==
  ASSUME OrdersAgree, IInv, EndPage
  PROVE  WalkOK' /\ TokenOK' /\ ListedInOrder' /\ FoundOK'
<1>1. page' = <<>> /\ stack' = <<>> /\ UNCHANGED <<files, edits, steady, ever>> /\ pc = "walk" BY DEF EndPage
<1> DEFINE n == Len(out)
           l == Len(page)
<1>2. PICK m \in 0..Len(page) :
           /\ out' \in Seq(Paths) /\ Len(out') = Len(out) + m
           /\ \A i \in 1..Len(out) : out'[i] = out[i]
           /\ \A i \in 1..m : out'[Len(out) + i] = page[i]
           /\ \/ /\ m = PageLimit /\ Len(page) = PageLimit + 1
                 /\ token' = Key(page[PageLimit]) /\ pc' = "page"
              \/ m = Len(page) /\ token' = <<>> /\ pc' = "done" /\ stack = <<>>
  BY PageEnds DEF IInv
<1>3. /\ n \in Nat /\ l \in Nat /\ DOMAIN page = 1..l /\ DOMAIN out = 1..n /\ DOMAIN stack = 1..Len(stack)
      /\ \A i \in 1..l : page[i] \in Keys
      /\ \A i \in 1..n : out[i] \in Keys
      /\ token \in Seq(Nat) /\ PageLimit \in Nat \ {0}
      /\ stack \in Seq(Nodes) /\ steady \subseteq Keys
  <2>1. /\ page \in Seq(Paths) /\ out \in Seq(Paths) /\ stack \in Seq(Nodes) /\ token \in Tokens
        /\ ever \subseteq Keys /\ steady \subseteq Keys
        /\ \A i \in DOMAIN page : page[i] \in ever
        /\ \A i \in DOMAIN out : out[i] \in ever
    BY DEF IInv, BlobsOK, TypeOK, Nodes, Tokens
  <2>6. token \in Seq(Nat) BY <2>1, TokenType
  <2>2. /\ l \in Nat /\ DOMAIN page = 1..l /\ n \in Nat /\ DOMAIN out = 1..n
        /\ DOMAIN stack = 1..Len(stack)
    BY <2>1
  <2>3. \A i \in 1..l : page[i] \in Keys
    <3> HIDE DEF l
    <3> QED BY <2>1, <2>2
  <2>4. \A i \in 1..n : out[i] \in Keys
    <3> HIDE DEF n
    <3> QED BY <2>1, <2>2
  <2>5. PageLimit \in Nat \ {0} BY ListingAssumption
  <2> QED BY <2>1, <2>2, <2>3, <2>4, <2>5, <2>6, Zenon
<1>4. /\ \A i \in 1..l : Key(page[i]) \in Seq(Nat) /\ Key(page[i]) # <<>>
      /\ \A i \in 1..n : Key(out[i]) \in Seq(Nat)
  BY <1>3, KeyAssumption
<1>5. /\ m \in 0..l /\ m \in Nat /\ DOMAIN out' = 1..(n + m) /\ Len(out') = n + m
      /\ \A i \in 1..n : out'[i] = out[i]
      /\ \A i \in 1..m : out'[n + i] = page[i]
  <2>1. m \in 0..l /\ m \in Nat BY <1>3
  <2>2. Len(out') = n + m /\ DOMAIN out' = 1..Len(out') BY <1>2
  <2> QED BY <1>2, <2>1, <2>2, Zenon
<1>6. \A i, j \in 1..l : i < j => SeqLess(Key(page[i]), Key(page[j]))
  BY <1>3, WalkedKeys DEF IInv, WalkOK
<1>7. /\ \A i \in 1..l : token # <<>> => SeqLess(token, Key(page[i]))
      /\ token = <<>> => out = <<>>
      /\ \A i \in 1..n : Key(out[i]) = token \/ SeqLess(Key(out[i]), token)
  BY <1>1, <1>3 DEF IInv, TokenOK
<1>8. ASSUME NEW i \in 1..n, NEW j \in 1..l PROVE SeqLess(Key(out[i]), Key(page[j]))
  <2>1. out # <<>> BY <1>3
  <2>2. SeqLess(token, Key(page[j])) BY <1>7, <2>1
  <2>3. CASE Key(out[i]) = token BY <2>2, <2>3
  <2>4. CASE SeqLess(Key(out[i]), token) BY <1>3, <1>4, <2>2, <2>4, LessTransitive
  <2> QED BY <1>7, <2>3, <2>4
<1> HIDE DEF n, l
<1>9. ASSUME NEW i \in DOMAIN out' PROVE i \in 1..n \/ \E j \in 1..m : j \in 1..l /\ i = n + j
  <2>1. CASE i \in 1..n BY <2>1
  <2>2. CASE i \notin 1..n
    <3>1. i - n \in 1..m /\ i - n \in 1..l /\ i = n + (i - n) BY <1>3, <1>5, <2>2
    <3> QED BY <3>1
  <2> QED BY <2>1, <2>2
<1>10. WalkOK'
  <2>1. DOMAIN <<>> = {} OBVIOUS
  <2> QED BY <1>1, <2>1 DEF WalkOK
<1>11. ListedInOrder'
  <2>1. ASSUME NEW i \in DOMAIN out', NEW j \in DOMAIN out', i < j
        PROVE  SeqLess(Key(out'[i]), Key(out'[j]))
    <3>1. CASE i \in 1..n /\ j \in 1..n
      <4>1. SeqLess(Key(out[i]), Key(out[j])) BY <2>1, <3>1 DEF IInv, ListedInOrder, n
      <4> QED BY <1>5, <3>1, <4>1
    <3>2. ASSUME i \in 1..n, NEW h \in 1..m, h \in 1..l, j = n + h PROVE SeqLess(Key(out'[i]), Key(out'[j]))
      <4>1. out'[i] = out[i] /\ out'[j] = page[h] BY <1>5, <3>2
      <4> QED BY <1>8, <3>2, <4>1
    <3>3. ASSUME NEW g \in 1..m, g \in 1..l, i = n + g, NEW h \in 1..m, h \in 1..l, j = n + h
          PROVE  SeqLess(Key(out'[i]), Key(out'[j]))
      <4>1. g < h BY <1>3, <1>5, <2>1, <3>3
      <4>2. out'[i] = page[g] /\ out'[j] = page[h] BY <1>5, <3>3
      <4> QED BY <1>6, <3>3, <4>1, <4>2
    <3>4. ASSUME NEW g \in 1..m, i = n + g, j \in 1..n PROVE FALSE BY <1>3, <1>5, <2>1, <3>4
    <3> QED BY <1>9, <3>1, <3>2, <3>3, <3>4
  <2>2. DOMAIN out' = 1..Len(out') BY <1>5
  <2> QED BY <2>1, <2>2 DEF ListedInOrder
<1>12. \A k : Contains(out, k) => Contains(out', k)
  <2>1. ASSUME NEW k, NEW i \in 1..n, out[i] = k PROVE Contains(out', k)
    <3>1. i \in 1..(n + m) BY <1>3, <1>5
    <3> QED BY <1>5, <2>1, <3>1 DEF Contains
  <2> QED BY <2>1 DEF Contains, n
<1>13. ASSUME NEW i \in 1..m PROVE Contains(out', page[i])
  <2>1. n + i \in 1..(n + m) BY <1>3, <1>5
  <2> QED BY <1>5, <2>1 DEF Contains
<1>14. CASE m = l /\ token' = <<>> /\ pc' = "done" /\ stack = <<>>
  <2>1. TokenOK' BY <1>1, <1>14 DEF TokenOK
  <2>2. ASSUME NEW k \in steady, Leads(Prefix, k) PROVE Contains(out', k)
    <3>1. Contains(out, k) \/ Contains(page, k) \/ \E i \in DOMAIN stack : Leads(stack[i], k)
      BY <1>1, <2>2 DEF IInv, FoundOK
    <3>2. ~\E i \in DOMAIN stack : Leads(stack[i], k)
      <4>1. Len(stack) = 0 BY <1>14
      <4> QED BY <1>3, <4>1
    <3>3. Contains(page, k) => Contains(out', k) BY <1>13, <1>14 DEF Contains, l
    <3> QED BY <1>12, <3>1, <3>2, <3>3
  <2>3. FoundOK' BY <1>1, <1>14, <2>2 DEF FoundOK
  <2> QED BY <1>10, <1>11, <2>1, <2>3
<1>15. CASE m = PageLimit /\ l = PageLimit + 1 /\ token' = Key(page[PageLimit]) /\ pc' = "page"
  <2> DEFINE b == page[m]
  <2>1. m \in 1..l /\ m + 1 = l /\ l \in 1..l BY <1>3, <1>15
  <2>2. token' = Key(b) /\ b \in Keys /\ Key(b) # <<>> /\ b \in Seq(Seq(Nat)) /\ Key(b) \in Seq(Nat)
    BY <1>3, <1>4, <1>15, <2>1, PathType
  <2>3. ASSUME NEW i \in DOMAIN out' PROVE Key(out'[i]) = token' \/ SeqLess(Key(out'[i]), token')
    <3>1. CASE i \in 1..n
      <4>1. out'[i] = out[i] BY <1>5, <3>1
      <4> QED BY <1>8, <2>1, <2>2, <3>1, <4>1
    <3>2. ASSUME NEW j \in 1..m, j \in 1..l, i = n + j
          PROVE  Key(out'[i]) = token' \/ SeqLess(Key(out'[i]), token')
      <4>1. out'[i] = page[j] BY <1>5, <3>2
      <4>2. j = m \/ j < m BY <1>5
      <4> QED BY <1>6, <2>1, <2>2, <3>2, <4>1, <4>2
    <3> QED BY <1>9, <3>1, <3>2
  <2>4. TokenOK'
    <3>1. DOMAIN <<>> = {} OBVIOUS
    <3> QED BY <1>1, <1>15, <2>2, <2>3, <3>1 DEF TokenOK
  <2>5. ASSUME NEW k \in steady, Leads(Prefix, k) PROVE Contains(out', k) \/ SeqLess(token', Key(k))
    <3>1. Contains(out, k) \/ Contains(page, k) \/ \E i \in DOMAIN stack : Leads(stack[i], k)
      BY <1>1, <2>5 DEF IInv, FoundOK
    <3>2. ASSUME NEW i \in 1..l, page[i] = k PROVE Contains(out', k) \/ SeqLess(token', Key(k))
      <4>1. i \in 1..m \/ i = l BY <1>3, <1>5, <2>1
      <4>2. CASE i \in 1..m BY <1>13, <3>2, <4>2
      <4>3. CASE i = l
        <5>1. m < l BY <1>3, <1>5, <2>1
        <5>2. SeqLess(Key(page[m]), Key(page[l])) BY <1>6, <2>1, <5>1
        <5> QED BY <2>2, <3>2, <4>3, <5>2
      <4> QED BY <4>1, <4>2, <4>3
    <3>3. ASSUME NEW i \in DOMAIN stack, Leads(stack[i], k) PROVE SeqLess(token', Key(k))
      <4>1. k \in Keys /\ k \in Seq(Seq(Nat)) BY <1>3, PathType
      <4>2. stack[i] \in Seq(Seq(Nat)) BY <1>3, NodeType
      <4>3. WalkedBefore(b, stack[i]) BY <1>3, <2>1 DEF IInv, WalkOK
      <4> HIDE DEF b
      <4>4. WalkedBefore(b, k) BY <2>2, <3>3, <4>1, <4>2, <4>3, LeadsSelf, WalkBelow
      <4> QED BY <2>2, <4>1, <4>4, WalkedKeys
    <3> QED BY <1>12, <3>1, <3>2, <3>3 DEF Contains, l
  <2>6. FoundOK' BY <1>1, <1>15, <2>5 DEF FoundOK
  <2> QED BY <1>10, <1>11, <2>4, <2>6
<1> QED BY <1>2, <1>14, <1>15 DEF l

LEMMA OrderInit == Init => IInv
<1> SUFFICES ASSUME Init PROVE IInv OBVIOUS
<1>1. DOMAIN <<>> = {} /\ Len(<<>>) = 0 OBVIOUS
<1>2. WalkOK /\ TokenOK BY <1>1 DEF Init, WalkOK, TokenOK
<1>3. ListedInOrder BY <1>1 DEF Init, ListedInOrder
<1>4. FoundOK BY DEF Init, FoundOK
<1> QED BY <1>2, <1>3, <1>4, BlobsInit DEF IInv

LEMMA OrderStep == OrdersAgree /\ IInv /\ [Next]_vars => IInv'
<1> SUFFICES ASSUME OrdersAgree, IInv, [Next]_vars PROVE IInv' OBVIOUS
<1>1. BlobsOK' BY BlobsStep DEF IInv
<1>2. CASE StartPage
  <2>1. DOMAIN <<>> = {} /\ DOMAIN <<Prefix>> = {1} /\ <<Prefix>>[1] = Prefix OBVIOUS
  <2>2. /\ stack' = <<Prefix>> /\ page' = <<>> /\ pc = "page" /\ pc' = "walk"
        /\ UNCHANGED <<token, out, steady>>
    BY <1>2 DEF StartPage
  <2>3. WalkOK' BY <2>1, <2>2 DEF WalkOK
  <2>4. TokenOK' BY <2>1, <2>2 DEF IInv, TokenOK
  <2>5. ListedInOrder' BY <2>2 DEF IInv, ListedInOrder
  <2>6. FoundOK' BY <2>1, <2>2 DEF IInv, FoundOK
  <2> QED BY <1>1, <2>3, <2>4, <2>5, <2>6 DEF IInv
<1>3. CASE Visit
  <2>1. PICK path \in Nodes : \E rest \in Seq(Nodes) : \E new \in Seq(Nodes) : \E add \in Seq(Keys) :
          Turns(path, rest, new, add)
    BY <1>3, Turn DEF IInv
  <2>2. PICK rest \in Seq(Nodes), new \in Seq(Nodes), add \in Seq(Keys) : Turns(path, rest, new, add) BY <2>1
  <2>3. WalkOK' BY <2>2, WalkVisit DEF IInv
  <2>4. TokenOK' BY <1>3, <2>2, TokenVisit DEF IInv
  <2>5. FoundOK' BY <1>3, <2>2, FoundVisit DEF IInv
  <2>6. ListedInOrder' BY <1>3 DEF Visit, IInv, ListedInOrder
  <2> QED BY <1>1, <2>3, <2>4, <2>5, <2>6 DEF IInv
<1>4. CASE VisitFails
  <2>1. pc' = "failed" /\ UNCHANGED <<stack, page, token, out, steady>> BY <1>4 DEF VisitFails
  <2>2. WalkOK' BY <2>1 DEF IInv, WalkOK
  <2>3. TokenOK' BY <2>1 DEF IInv, TokenOK
  <2>4. ListedInOrder' BY <2>1 DEF IInv, ListedInOrder
  <2>5. FoundOK' BY <2>1 DEF IInv, FoundOK
  <2> QED BY <1>1, <2>2, <2>3, <2>4, <2>5 DEF IInv
<1>5. CASE EndPage BY <1>1, <1>5, OrderEndPage DEF IInv
<1>6. CASE UNCHANGED <<pc, stack, page, token, out>> /\ steady' \subseteq steady
  <2>1. WalkOK' BY <1>6 DEF IInv, WalkOK
  <2>2. TokenOK' BY <1>6 DEF IInv, TokenOK
  <2>3. ListedInOrder' BY <1>6 DEF IInv, ListedInOrder
  <2>4. FoundOK' BY <1>6 DEF IInv, FoundOK
  <2> QED BY <1>1, <2>1, <2>2, <2>3, <2>4 DEF IInv
<1>7. ASSUME NEW k \in Keys, Put(k) \/ Delete(k) PROVE IInv' BY <1>6, <1>7 DEF Put, Delete
<1>8. CASE UNCHANGED vars BY <1>6, <1>8 DEF vars
<1> QED BY <1>2, <1>3, <1>4, <1>5, <1>7, <1>8 DEF Next, List, Edit, Finished

\* list_blobs returns every key once and in order, across all its pages and
\* whatever is written meanwhile, when the walk and the token order the keys
\* alike.
THEOREM InOrder == ASSUME OrdersAgree PROVE Spec => []ListedInOrder
<1>1. IInv /\ [Next]_vars => IInv' BY OrderStep
<1>2. IInv => ListedInOrder BY DEF IInv
<1> QED BY <1>1, <1>2, OrderInit, PTL DEF Spec

\* list_blobs loses no key that is there all along, when the walk and the token
\* order the keys alike: what the look-ahead key and the stack stand for comes
\* after the token of the next page.
THEOREM NothingLost == ASSUME OrdersAgree PROVE Spec => []NoKeyLost
<1>1. IInv /\ [Next]_vars => IInv' BY OrderStep
<1>2. IInv => NoKeyLost
  <2> SUFFICES ASSUME IInv, pc = "done", NEW k \in steady, IsPrefix(Prefix, k) PROVE Contains(out, k)
    BY DEF NoKeyLost
  <2>1. k \in Seq(Seq(Nat)) /\ Prefix \in Seq(Seq(Nat))
    BY PathType, ListingAssumption DEF IInv, BlobsOK, TypeOK
  <2>2. Leads(Prefix, k) BY <2>1, PrefixLeads
  <2> QED BY <2>2 DEF IInv, FoundOK
<1> QED BY <1>1, <1>2, OrderInit, PTL DEF Spec
=============================================================================
