------------------------ MODULE StorageServiceProofs ------------------------
(***************************************************************************)
(* Proofs about StorageService, for any set of calls, file names, body     *)
(* lengths and ranges, over any backend that keeps RemoteStoreSpec.        *)
(***************************************************************************)
EXTENDS StorageService, SequenceLemmas, WellFoundedInduction

-----------------------------------------------------------------------------
(* Keys.                                                                    *)

\* Sets of positions in a sequence have a least and a greatest element.
LEMMA MinExists ==
  ASSUME NEW T \in SUBSET Nat, T # {}
  PROVE  Min(T) \in T /\ \A y \in T : Min(T) <= y
<1> DEFINE R == {ss \in Nat \X Nat : ss[1] < ss[2]}
<1>1. IsWellFoundedOn(R, Nat)
  BY NatLessThanWellFounded DEF OpToRel
<1>2. PICK x \in T : \A y \in T : ~(<<y, x>> \in R)
  <2> HIDE DEF R
  <2> QED BY <1>1, WFMin
<1>3. \A y \in T : x <= y
  <2> SUFFICES ASSUME NEW y \in T PROVE x <= y
    OBVIOUS
  <2>1. y < x => <<y, x>> \in R OBVIOUS
  <2> HIDE DEF R
  <2> QED BY <1>2, <2>1
<1> QED BY <1>3 DEF Min

\* The greatest, for positions up to n.
LEMMA MaxExists ==
  ASSUME NEW n \in Nat, NEW T \in SUBSET (1..n), T # {}
  PROVE  Max(T) \in T /\ \A y \in T : y <= Max(T)
<1> DEFINE U == {n - y : y \in T}
<1>1. U \in SUBSET Nat /\ U # {}
  <2>1. \A y \in T : n - y \in Nat OBVIOUS
  <2> QED BY <2>1
<1>2. Min(U) \in U /\ \A u \in U : Min(U) <= u
  BY <1>1, MinExists
<1>3. PICK x \in T : Min(U) = n - x
  BY <1>2
<1>4. \A y \in T : x >= y
  <2> SUFFICES ASSUME NEW y \in T PROVE x >= y OBVIOUS
  <2>1. n - y \in U OBVIOUS
  <2>2. Min(U) <= n - y BY <2>1, <1>2
  <2> QED BY <2>2, <1>3
<1> QED BY <1>4 DEF Max

\* The extension of a file name is a string.
LEMMA ExtensionIsString ==
  ASSUME NEW name \in FileNames \cup {None}, file_extension(name) # None
  PROVE  file_extension(name) \in Seq(STRING)
<1>1. name \in Seq(STRING) /\ Has(name, ".")
  BY ServiceAssumption DEF file_extension
<1>2. LastSegment(name) \in Seq(STRING)
  <2> DEFINE dots == {i \in DOMAIN name : name[i] = "."}
  <2>1. Len(name) \in Nat /\ DOMAIN name = 1..Len(name) BY <1>1, LenProperties
  <2>2. dots \in SUBSET (1..Len(name)) /\ dots # {} BY <1>1, <2>1 DEF Has
  <2>3. Max(dots) \in 1..Len(name) BY <2>1, <2>2, MaxExists
  <2>4. \A i \in (Max(dots) + 1)..Len(name) : name[i] \in STRING BY <1>1, <2>3, ElementOfSeq
  <2>5. SubSeq(name, Max(dots) + 1, Len(name)) \in Seq(STRING)
    BY <2>1, <2>3, <2>4, SubSeqProperties
  <2> QED BY <2>5 DEF LastSegment
<1>3. ASSUME NEW s \in Seq(STRING) PROVE trim(s) \in Seq(STRING)
  <2> DEFINE inner == {i \in DOMAIN s : s[i] # "BLANK"}
  <2>1. Len(s) \in Nat /\ DOMAIN s = 1..Len(s) BY LenProperties
  <2>2. CASE inner = {} BY <2>2 DEF trim
  <2>3. CASE inner # {}
    <3>1. inner \in SUBSET (1..Len(s)) /\ inner \in SUBSET Nat BY <2>1
    <3>2. Max(inner) \in 1..Len(s) /\ Min(inner) \in 1..Len(s)
      BY <2>1, <2>3, <3>1, MaxExists, MinExists
    <3>3. \A i \in Min(inner)..Max(inner) : s[i] \in STRING BY <2>1, <3>2, ElementOfSeq
    <3>4. SubSeq(s, Min(inner), Max(inner)) \in Seq(STRING) BY <3>2, <3>3, SubSeqProperties
    <3> QED BY <2>3, <3>4 DEF trim
  <2> QED BY <2>2, <2>3
<1> QED BY <1>1, <1>2, <1>3 DEF file_extension

\* The uuid is the seventh piece of every key, whatever the file name.
LEMMA KeyHoldsId ==
  ASSUME NEW c \in Calls, NEW name \in FileNames \cup {None}
  PROVE  NewKey(c, name)[7] = c
<1> DEFINE head == <<"ns", "/", "s1", "/", "s2", "/", c>>
           ext == file_extension(name)
           tail == IF ext = None THEN <<>> ELSE <<".">> \o to_ascii_lowercase(ext)
           Chars == Calls \cup {"ns", "s1", "s2", "/", "."} \cup {Lower(ch) : ch \in STRING}
<1>a. /\ {c, "ns", "s1", "s2", "/", "."} \subseteq Chars
      /\ \A ch \in STRING : Lower(ch) \in Chars
  OBVIOUS
<1> HIDE DEF Chars
<1>1. head \in Seq(Chars) /\ Len(head) = 7 /\ head[7] = c
  <2>1. \A i \in 1..7 : head[i] \in Chars BY <1>a
  <2>2. DOMAIN head = 1..7 /\ Len(head) = 7 /\ head[7] = c OBVIOUS
  <2>3. head = [i \in 1..7 |-> head[i]] OBVIOUS
  <2> HIDE DEF head
  <2>4. [i \in 1..7 |-> head[i]] \in Seq(Chars) BY <2>1
  <2> QED BY <2>2, <2>3, <2>4
<1>2. tail \in Seq(Chars)
  <2>1. CASE ext = None BY <2>1
  <2>2. CASE ext # None
    <3>1. ext \in Seq(STRING) BY <2>2, ExtensionIsString
    <3>2. to_ascii_lowercase(ext) \in Seq(Chars)
      <4> HIDE DEF ext
      <4>1. Len(ext) \in Nat /\ DOMAIN ext = 1..Len(ext) /\ \A i \in 1..Len(ext) : ext[i] \in STRING
        BY <3>1, LenProperties
      <4>2. \A i \in 1..Len(ext) : Lower(ext[i]) \in Chars BY <1>a, <4>1
      <4> QED BY <4>1, <4>2 DEF to_ascii_lowercase
    <3>3. <<".">> \in Seq(Chars)
      <4>1. "." \in Chars BY <1>a
      <4> QED BY <4>1
    <3> QED BY <2>2, <3>2, <3>3, ConcatProperties
  <2> QED BY <2>1, <2>2
<1>3. (head \o tail)[7] = head[7]
  <2>1. Len(tail) \in Nat BY <1>2, LenProperties
  <2>2. 7 \in 1..Len(head) + Len(tail) BY <1>1, <2>1
  <2> QED BY <1>1, <1>2, <2>2, ConcatProperties
<1>4. NewKey(c, name) = head \o tail BY DEF NewKey, build_storage_key
<1> QED BY <1>1, <1>3, <1>4

\* Keys of different puts differ.
LEMMA KeysDiffer ==
  ASSUME NEW c \in Calls, NEW d \in Calls,
         NEW m \in FileNames \cup {None}, NEW n \in FileNames \cup {None},
         NewKey(c, m) = NewKey(d, n)
  PROVE  c = d
BY KeyHoldsId

-----------------------------------------------------------------------------
(* Locators.                                                                *)

Types ==
  /\ op \in [Calls -> Operations \cup {None}]
  /\ pc \in [Calls -> {"idle", "backend", "answered", "stream", "done"}]
  /\ loc \in [Calls -> Locators \cup {None}]
  /\ store \in [AllKeys -> Calls \cup {None}]
  /\ req \in [Calls -> BackendRequests \cup {None}]
  /\ ans \in [Calls -> {"none", "ok", "exists", "missing", "precondition", "io"}]
  /\ landed \subseteq Calls
  /\ got \in [Calls -> Calls \cup {None}]

\* What a call asks of the backend is what the service was asked for.
Asked(c) ==
  /\ pc[c] = "idle" <=> op[c] = None
  /\ pc[c] = "idle" => req[c] = None /\ ans[c] = "none"
  /\ pc[c] \in {"backend", "answered"} => req[c] # None
  /\ req[c] # None => /\ req[c].kind = "put" <=> op[c].kind = "put"
                      /\ req[c].kind = "delete" <=> op[c].kind = "delete"
                      /\ op[c].kind = "put" => req[c].key = op[c].key
                      /\ op[c].kind # "put" => req[c].key = op[c].object.key

\* Objects that are asked for have been returned by a put, and keys are those
\* of the put that made them.
Known(c) ==
  op[c] # None =>
    /\ op[c].kind = "put" => \E name \in FileNames \cup {None} : op[c].key = NewKey(c, name)
    /\ op[c].kind # "put" => \E d \in Calls : loc[d] # None /\ op[c].object = loc[d]

DeleteSent(key) == \E d \in Calls : req[d] # None /\ req[d].kind = "delete" /\ req[d].key = key

\* A put that has taken effect is at its key, unless a deletion of the key has
\* been sent or the sweep may take it; a locator is of such a put.
Kept(c) ==
  /\ c \in landed => req[c] # None
  /\ c \in landed /\ op[c].kind = "put" =>
       \/ store[op[c].key] = c
       \/ is_uploading_temp_file(op[c].key)
       \/ DeleteSent(op[c].key)
  /\ ans[c] = "ok" /\ op[c].kind = "put" => c \in landed
  /\ loc[c] # None => /\ op[c] # None /\ op[c].kind = "put" /\ c \in landed
                      /\ loc[c] = [key |-> op[c].key, size |-> op[c].size, by |-> c]

LInv == Types /\ \A c \in Calls : Asked(c) /\ Known(c) /\ Kept(c)

\* The fields that each kind of operation has.
LEMMA OperationShape ==
  ASSUME NEW o \in Operations
  PROVE  /\ o # None
         /\ o.kind \in {"put", "get", "delete", "head", "range"}
         /\ o.kind = "put" => o.key \in AllKeys /\ o.size \in Sizes
         /\ o.kind # "put" => o.object \in Locators
         /\ o.kind = "range" => o.range \in Ranges
BY NoneAssumption DEF Operations

\* The invariant of the locators holds before any call is made.
LEMMA InitLInv == Init => LInv
BY DEF Init, B!AbsInit, LInv, Types, Asked, Known, Kept

\* Different puts have different keys.
LEMMA PutKeysDiffer ==
  ASSUME LInv, NEW c \in Calls, NEW d \in Calls, op[c] # None, op[d] # None,
         op[c].kind = "put", op[d].kind = "put", op[c].key = op[d].key
  PROVE  c = d
<1>1. PICK m \in FileNames \cup {None} : op[c].key = NewKey(c, m) BY DEF LInv, Known
<1>2. PICK n \in FileNames \cup {None} : op[d].key = NewKey(d, n) BY DEF LInv, Known
<1> QED BY <1>1, <1>2, KeysDiffer

\* A call made: its operation and its request are new, all else is as before.
LEMMA InvokeLInv ==
  ASSUME LInv, NEW c \in Calls, pc[c] = "idle",
         NEW o \in Operations, op' = [op EXCEPT ![c] = o],
         o.kind = "put" => \E name \in FileNames \cup {None} : o.key = NewKey(c, name),
         o.kind # "put" => \E d \in Calls : loc[d] # None /\ o.object = loc[d],
         \/ pc' = [pc EXCEPT ![c] = "done"] /\ req' = req
         \/ /\ pc' = [pc EXCEPT ![c] = "backend"]
            /\ \E r \in BackendRequests :
                 /\ req' = [req EXCEPT ![c] = r]
                 /\ r.kind = "put" <=> o.kind = "put"
                 /\ r.kind = "delete" <=> o.kind = "delete"
                 /\ r.key = IF o.kind = "put" THEN o.key ELSE o.object.key,
         UNCHANGED <<loc, store, landed, got, ans>>
  PROVE  LInv'
<1> USE DEF LInv
<1>0. o # None /\ op[c] = None /\ req[c] = None /\ ans[c] = "none" /\ c \notin landed /\ loc[c] = None
  BY OperationShape DEF Asked, Kept
<1>1. Types' BY DEF Types
<1>2. \A d \in Calls : Asked(d)'
  <2> SUFFICES ASSUME NEW d \in Calls PROVE Asked(d)' OBVIOUS
  <2>1. CASE d = c BY <2>1, <1>0, NoneAssumption DEF Asked, Types
  <2>2. CASE d # c BY <2>2 DEF Asked, Types
  <2> QED BY <2>1, <2>2
<1>3. \A d \in Calls : Known(d)'
  <2> SUFFICES ASSUME NEW d \in Calls PROVE Known(d)' OBVIOUS
  <2>1. CASE d = c BY <2>1 DEF Known, Types
  <2>2. CASE d # c BY <2>2 DEF Known, Types
  <2> QED BY <2>1, <2>2
<1>4. \A k : DeleteSent(k) => DeleteSent(k)'
  <2> SUFFICES ASSUME NEW k, DeleteSent(k) PROVE DeleteSent(k)' OBVIOUS
  <2>1. PICK d \in Calls : req[d] # None /\ req[d].kind = "delete" /\ req[d].key = k BY DEF DeleteSent
  <2>2. req'[d] = req[d] BY <2>1, <1>0 DEF Types
  <2> QED BY <2>1, <2>2 DEF DeleteSent
<1>5. \A d \in Calls : Kept(d)'
  <2> SUFFICES ASSUME NEW d \in Calls PROVE Kept(d)' OBVIOUS
  <2>1. CASE d = c BY <2>1, <1>0 DEF Kept, Types
  <2>2. CASE d # c
    <3>1. op'[d] = op[d] /\ req'[d] = req[d] BY <2>2 DEF Types
    <3> QED BY <3>1, <1>4 DEF Kept
  <2> QED BY <2>1, <2>2
<1> QED BY <1>1, <1>2, <1>3, <1>5

\* The effect of a write at the backend, at whatever time it comes.
LEMMA EffectLInv ==
  ASSUME LInv, NEW c \in Calls, B!Effect(c), UNCHANGED <<op, req>>
  PROVE  /\ store' \in [AllKeys -> Calls \cup {None}] /\ landed' = landed \cup {c}
         /\ req[c] # None
         /\ \A d \in Calls : d \in landed' /\ op[d].kind = "put" =>
              \/ store'[op[d].key] = d
              \/ is_uploading_temp_file(op[d].key)
              \/ DeleteSent(op[d].key)
<1>1. req[c] # None /\ req[c] \in BackendRequests /\ op[c] \in Operations
  BY DEF LInv, Types, Asked, B!Effect
<1>2. /\ req[c].kind \in {"put", "delete"} /\ req[c].key \in AllKeys
      /\ store' = [store EXCEPT ![req[c].key] = IF req[c].kind = "delete" THEN None ELSE c]
      /\ landed' = landed \cup {c}
  BY <1>1 DEF B!Effect, B!Kind, B!Writers, BackendRequests
<1>3. ASSUME NEW d \in Calls, d \in landed', op[d].kind = "put"
      PROVE  store'[op[d].key] = d \/ is_uploading_temp_file(op[d].key) \/ DeleteSent(op[d].key)
  <2>1. req[d] # None /\ op[d] \in Operations /\ op[d] # None
    BY <1>1, <1>2, <1>3, OperationShape DEF LInv, Types, Asked, Kept
  <2>2. op[d].key \in AllKeys BY <2>1, <1>3, OperationShape
  <2>3. CASE req[c].kind = "delete" /\ req[c].key = op[d].key
    BY <2>3, <1>1 DEF DeleteSent
  <2>4. CASE req[c].kind = "put" /\ req[c].key = op[d].key
    <3>1. op[c].kind = "put" /\ op[c].key = op[d].key /\ op[c] # None
      BY <1>1, <2>4, OperationShape DEF LInv, Asked
    <3>2. c = d BY <3>1, <2>1, <1>3, PutKeysDiffer
    <3> QED BY <3>2, <1>2, <2>2, <2>4 DEF LInv, Types
  <2>5. CASE req[c].key # op[d].key
    <3>1. store'[op[d].key] = store[op[d].key] BY <1>2, <2>2, <2>5 DEF LInv, Types
    <3>2. d \in landed
      <4>1. CASE d = c BY <4>1, <2>1, <2>5, <1>3 DEF LInv, Asked
      <4>2. CASE d # c BY <4>2, <1>2, <1>3
      <4> QED BY <4>1, <4>2
    <3> QED BY <3>1, <3>2, <1>3 DEF LInv, Kept
  <2> QED BY <1>2, <2>3, <2>4, <2>5
<1> QED BY <1>1, <1>2, <1>3 DEF LInv, Types

\* Nothing that the invariant speaks of changes but the position of a call.
LEMMA QuietLInv ==
  ASSUME LInv, NEW c \in Calls, pc[c] # "idle",
         NEW label \in {"stream", "done"}, pc' = [pc EXCEPT ![c] = label],
         UNCHANGED <<op, loc, store, req, landed, got, ans>>
  PROVE  LInv'
<1>1. Types' BY DEF LInv, Types
<1>2. \A d \in Calls : Asked(d)' BY DEF LInv, Types, Asked
<1>3. \A d \in Calls : Known(d)' /\ Kept(d)'
  BY DEF LInv, Known, Kept, DeleteSent
<1> QED BY <1>1, <1>2, <1>3 DEF LInv

\* Every step keeps the invariant.
LEMMA NextLInv == LInv /\ [Next]_vars => LInv'
<1> SUFFICES ASSUME LInv, [Next]_vars PROVE LInv' OBVIOUS
<1> USE DEF Return, Goto
<1>1. ASSUME NEW c \in Calls, PutObject(c) PROVE LInv'
  <2>1. PICK name \in FileNames \cup {None}, n \in Sizes :
          /\ op' = [op EXCEPT ![c] = [kind |-> "put", key |-> NewKey(c, name), size |-> n]]
          /\ Ask(c, "put", NewKey(c, name)) \/ Refuse(c, "invalid")
    BY <1>1 DEF PutObject
  <2> DEFINE o == [kind |-> "put", key |-> NewKey(c, name), size |-> n]
             r == [kind |-> "put", key |-> NewKey(c, name)]
  <2>2. NewKey(c, name) \in AllKeys BY DEF AllKeys
  <2>3. o \in Operations /\ r \in BackendRequests BY <2>2 DEF Operations, BackendRequests
  <2>4. \/ pc' = [pc EXCEPT ![c] = "done"] /\ req' = req
        \/ pc' = [pc EXCEPT ![c] = "backend"] /\ req' = [req EXCEPT ![c] = r]
    BY <2>1 DEF Ask, Refuse, B!Invoke, backend, LInv, Types
  <2>5. pc[c] = "idle" /\ UNCHANGED <<loc, store, landed, got, ans>>
    BY <1>1, <2>1 DEF PutObject, Ask, Refuse, B!Invoke, backend
  <2>6. o.kind = "put" /\ o.key = NewKey(c, name) /\ r.kind = "put" /\ r.key = NewKey(c, name)
    OBVIOUS
  <2>7. op' = [op EXCEPT ![c] = o] BY <2>1
  <2> HIDE DEF o, r
  <2> QED BY <2>3, <2>4, <2>5, <2>6, <2>7, InvokeLInv
<1>2. ASSUME NEW c \in Calls, ByLocator(c) PROVE LInv'
  <2>1. PICK kind \in {"get", "delete", "head"}, d \in {d \in Calls : loc[d] # None} :
          /\ op' = [op EXCEPT ![c] = [kind |-> kind, object |-> loc[d]]]
          /\ Ask(c, kind, loc[d].key)
    BY <1>2 DEF ByLocator
  <2> DEFINE o == [kind |-> kind, object |-> loc[d]]
             r == [kind |-> kind, key |-> loc[d].key]
  <2>2. loc[d] \in Locators /\ loc[d].key \in AllKeys BY DEF LInv, Types, Locators
  <2>3. o \in Operations /\ r \in BackendRequests BY <2>2 DEF Operations, BackendRequests
  <2>4. pc' = [pc EXCEPT ![c] = "backend"] /\ req' = [req EXCEPT ![c] = r]
    BY <2>1 DEF Ask, B!Invoke, LInv, Types
  <2>5. pc[c] = "idle" /\ UNCHANGED <<loc, store, landed, got, ans>>
    BY <1>2, <2>1 DEF ByLocator, Ask, B!Invoke
  <2>6. o.kind = kind /\ o.object = loc[d] /\ r.kind = kind /\ r.key = loc[d].key OBVIOUS
  <2>7. op' = [op EXCEPT ![c] = o] BY <2>1
  <2> HIDE DEF o, r
  <2> QED BY <2>3, <2>4, <2>5, <2>6, <2>7, InvokeLInv
<1>3. ASSUME NEW c \in Calls, GetRange(c) PROVE LInv'
  <2>1. PICK q \in Ranges, d \in {d \in Calls : loc[d] # None} :
          /\ op' = [op EXCEPT ![c] = [kind |-> "range", object |-> loc[d], range |-> q]]
          /\ (\E kind \in {"range", "head"} : Ask(c, kind, loc[d].key)) \/ Refuse(c, "precondition")
    BY <1>3 DEF GetRange
  <2>0. PICK kind \in {"range", "head"} : Ask(c, kind, loc[d].key) \/ Refuse(c, "precondition")
    BY <2>1
  <2> DEFINE o == [kind |-> "range", object |-> loc[d], range |-> q]
             r == [kind |-> kind, key |-> loc[d].key]
  <2>2. loc[d] \in Locators /\ loc[d].key \in AllKeys BY DEF LInv, Types, Locators
  <2>3. o \in Operations /\ r \in BackendRequests BY <2>2 DEF Operations, BackendRequests
  <2>4. \/ pc' = [pc EXCEPT ![c] = "done"] /\ req' = req
        \/ pc' = [pc EXCEPT ![c] = "backend"] /\ req' = [req EXCEPT ![c] = r]
    BY <2>0 DEF Ask, Refuse, B!Invoke, backend, LInv, Types
  <2>5. pc[c] = "idle" /\ UNCHANGED <<loc, store, landed, got, ans>>
    BY <1>3, <2>0 DEF GetRange, Ask, Refuse, B!Invoke, backend
  <2>6. o.kind = "range" /\ o.object = loc[d] /\ r.kind = kind /\ r.key = loc[d].key OBVIOUS
  <2>7. op' = [op EXCEPT ![c] = o] BY <2>1
  <2> HIDE DEF o, r
  <2> QED BY <2>3, <2>4, <2>5, <2>6, <2>7, InvokeLInv
<1>4. ASSUME NEW c \in Calls, Backend(c) PROVE LInv'
  <2>1. /\ pc[c] = "backend" /\ UNCHANGED <<op, loc, req>>
        /\ pc' = [pc EXCEPT ![c] = IF ans'[c] = "none" THEN "backend" ELSE "answered"]
    BY <1>4 DEF Backend, B!Look, B!Answer
  <2>2. Asked(c) /\ req[c] # None BY <2>1 DEF LInv, Asked
  <2>3. CASE B!Look(c)
    <3>1. /\ UNCHANGED <<store, landed, ans>> /\ req[c].key \in AllKeys
          /\ got' = [got EXCEPT ![c] = store[req[c].key]]
      BY <2>2, <2>3 DEF B!Look, LInv, Types, BackendRequests
    <3>2. Types' BY <2>1, <3>1 DEF LInv, Types
    <3>3. \A d \in Calls : Asked(d)' BY <2>1, <2>2, <3>1 DEF LInv, Types, Asked
    <3>4. \A d \in Calls : Known(d)' /\ Kept(d)' BY <2>1, <3>1 DEF LInv, Known, Kept, DeleteSent
    <3> QED BY <3>2, <3>3, <3>4 DEF LInv
  <2>4. CASE B!Answer(c)
    <3>1. /\ B!Effect(c) \/ UNCHANGED <<store, landed>>
          /\ got' = got
      BY <2>4 DEF B!Answer
    <3>2. PICK a \in {"ok", "exists", "missing", "precondition", "io"} :
            /\ ans' = [ans EXCEPT ![c] = a]
            /\ a = "ok" /\ req[c].kind \in {"put", "create", "copy", "delete"} => c \in landed'
      BY <2>4 DEF B!Answer, B!Kind, B!Writers
    <3>3. /\ store' \in [AllKeys -> Calls \cup {None}] /\ landed' \in {landed, landed \cup {c}}
          /\ \A d \in Calls : d \in landed' /\ op[d].kind = "put" =>
               \/ store'[op[d].key] = d
               \/ is_uploading_temp_file(op[d].key)
               \/ DeleteSent(op[d].key)
      <4>1. CASE B!Effect(c) BY <4>1, <2>1, EffectLInv
      <4>2. CASE UNCHANGED <<store, landed>> BY <4>2 DEF LInv, Types, Kept
      <4> QED BY <3>1, <4>1, <4>2
    <3>4. Types' BY <2>1, <3>1, <3>2, <3>3 DEF LInv, Types
    <3>5. \A d \in Calls : Asked(d)' BY <2>1, <2>2, <3>2 DEF LInv, Types, Asked
    <3>6. \A d \in Calls : Known(d)' BY <2>1 DEF LInv, Known
    <3>7. \A k : DeleteSent(k)' <=> DeleteSent(k) BY <2>1 DEF DeleteSent
    <3>8. \A d \in Calls : Kept(d)'
      <4> SUFFICES ASSUME NEW d \in Calls PROVE Kept(d)' OBVIOUS
      <4>1. op'[d] = op[d] /\ req'[d] = req[d] /\ loc'[d] = loc[d] BY <2>1
      <4>2. d \in landed' => req[d] # None
        <5>1. d \in landed' => d \in landed \/ d = c BY <3>3
        <5>2. d \in landed => req[d] # None BY DEF LInv, Kept
        <5> QED BY <2>2, <5>1, <5>2
      <4>3. d \in landed => d \in landed' BY <3>3
      <4>4. ans'[d] = "ok" /\ op[d].kind = "put" => d \in landed'
        <5>1. CASE d = c BY <5>1, <2>2, <3>2 DEF LInv, Types, Asked
        <5>2. CASE d # c BY <5>2, <3>2, <4>3 DEF LInv, Types, Kept
        <5> QED BY <5>1, <5>2
      <4> QED BY <3>3, <3>7, <4>1, <4>2, <4>3, <4>4 DEF LInv, Kept
    <3> QED BY <3>4, <3>5, <3>6, <3>8 DEF LInv
  <2> QED BY <1>4, <2>3, <2>4 DEF Backend
<1>5. ASSUME NEW c \in Calls, BackendLate(c) PROVE LInv'
  <2>1. B!Effect(c) /\ UNCHANGED <<op, pc, loc, req, got, ans>>
    BY <1>5 DEF BackendLate, B!Land
  <2>2. /\ store' \in [AllKeys -> Calls \cup {None}] /\ landed' = landed \cup {c}
        /\ req[c] # None
        /\ \A d \in Calls : d \in landed' /\ op[d].kind = "put" =>
             \/ store'[op[d].key] = d
             \/ is_uploading_temp_file(op[d].key)
             \/ DeleteSent(op[d].key)
    BY <2>1, EffectLInv
  <2>3. Types' BY <2>1, <2>2 DEF LInv, Types
  <2>4. \A d \in Calls : Asked(d)' /\ Known(d)' BY <2>1 DEF LInv, Asked, Known
  <2>5. \A k : DeleteSent(k)' <=> DeleteSent(k) BY <2>1 DEF DeleteSent
  <2>6. \A d \in Calls : Kept(d)' BY <2>1, <2>2, <2>5 DEF LInv, Kept
  <2> QED BY <2>3, <2>4, <2>6 DEF LInv
<1>6. ASSUME Sweep PROVE LInv'
  <2>1. PICK k \in AllKeys : is_uploading_temp_file(k) /\ store' = [store EXCEPT ![k] = None]
    BY <1>6 DEF Sweep
  <2>2. UNCHANGED <<op, pc, loc, req, landed, got, ans>> BY <1>6 DEF Sweep
  <2>3. Types' BY <2>1, <2>2 DEF LInv, Types
  <2>4. \A d \in Calls : Asked(d)' /\ Known(d)' BY <2>2 DEF LInv, Asked, Known
  <2>5. \A j : DeleteSent(j)' <=> DeleteSent(j) BY <2>2 DEF DeleteSent
  <2>6. ASSUME NEW d \in Calls PROVE Kept(d)'
    <3>1. d \in landed /\ op[d].kind = "put" => op[d].key \in AllKeys
      BY OperationShape DEF LInv, Types, Asked, Kept
    <3> QED BY <2>1, <2>2, <2>5, <3>1 DEF LInv, Types, Kept
  <2> QED BY <2>3, <2>4, <2>6 DEF LInv
<1>7. ASSUME NEW c \in Calls, Answered(c) PROVE LInv'
  <2>1. pc[c] = "answered" /\ UNCHANGED <<op, store, req, landed, got, ans>>
    BY <1>7 DEF Answered, backend
  <2>2. op[c] \in Operations BY <2>1 DEF LInv, Types, Asked
  <2>3. CASE op[c].kind = "put"
    <3>1. Stored(c) BY <1>7, <2>3 DEF Answered
    <3>2. pc' = [pc EXCEPT ![c] = "done"] BY <3>1 DEF Stored
    <3>3. CASE ans[c] # "ok"
      <4>1. loc' = loc BY <3>1, <3>3 DEF Stored
      <4> QED BY <2>1, <3>2, <4>1, QuietLInv
    <3>4. CASE ans[c] = "ok"
      <4> DEFINE l == [key |-> op[c].key, size |-> op[c].size, by |-> c]
      <4>1. loc' = [loc EXCEPT ![c] = l] BY <3>1, <3>4 DEF Stored
      <4>2. l \in Locators BY <2>2, <2>3, OperationShape DEF Locators
      <4>3. c \in landed /\ op[c] # None BY <2>2, <2>3, <3>4, OperationShape DEF LInv, Kept
      <4>4. l # None BY <4>2, NoneAssumption
      <4> HIDE DEF l
      <4>5. Types' BY <2>1, <3>2, <4>1, <4>2 DEF LInv, Types
      <4>6. \A d \in Calls : Asked(d)' BY <2>1, <3>2 DEF LInv, Types, Asked
      <4>7. loc[c] # None => loc[c] = l BY DEF LInv, Kept, l
      <4>8. \A d \in Calls : loc[d] # None => loc'[d] # None /\ loc'[d] = loc[d]
        BY <4>1, <4>4, <4>7 DEF LInv, Types
      <4>9. ASSUME NEW d \in Calls PROVE Known(d)'
        BY <2>1, <4>8 DEF LInv, Known
      <4>10. ASSUME NEW d \in Calls PROVE Kept(d)'
        <5>1. DeleteSent(op[d].key)' <=> DeleteSent(op[d].key) BY <2>1 DEF DeleteSent
        <5>2. CASE d = c BY <2>1, <2>3, <4>1, <4>3, <5>1, <5>2 DEF LInv, Types, Kept, l
        <5>3. CASE d # c BY <2>1, <4>1, <5>1, <5>3 DEF LInv, Types, Kept
        <5> QED BY <5>2, <5>3
      <4> QED BY <4>5, <4>6, <4>9, <4>10 DEF LInv
    <3> QED BY <3>3, <3>4
  <2>4. CASE op[c].kind # "put"
    <3>1. loc' = loc /\ \E label \in {"stream", "done"} : pc' = [pc EXCEPT ![c] = label]
      BY <1>7, <2>4 DEF Answered, OpenStream
    <3> QED BY <2>1, <3>1, QuietLInv
  <2> QED BY <2>3, <2>4
<1>8. ASSUME NEW c \in Calls, NextChunk(c) PROVE LInv'
  <2>1. UNCHANGED <<op, pc, loc, store, req, landed, got, ans>> BY <1>8 DEF NextChunk, backend
  <2> QED BY <2>1 DEF LInv, Types, Asked, Known, Kept, DeleteSent
<1>9. ASSUME NEW c \in Calls, EndOfStream(c) \/ StreamFails(c) \/ Interrupt(c) PROVE LInv'
  <2>1. /\ pc[c] # "idle" /\ pc' = [pc EXCEPT ![c] = "done"]
        /\ UNCHANGED <<op, loc, store, req, landed, got, ans>>
    BY <1>9 DEF EndOfStream, StreamFails, Interrupt, backend
  <2> QED BY <2>1, QuietLInv
<1>10. ASSUME UNCHANGED vars PROVE LInv'
  BY <1>10 DEF vars, backend, LInv, Types, Asked, Known, Kept, DeleteSent
<1> QED
  BY <1>1, <1>2, <1>3, <1>4, <1>5, <1>6, <1>7, <1>8, <1>9, <1>10 DEF Next, Step, Quiescent

\* What a locator says of its put.
LEMMA LocatorShape ==
  ASSUME LInv, NEW c \in Calls, loc[c] # None
  PROVE  /\ op[c] # None /\ op[c].kind = "put" /\ c \in landed
         /\ loc[c].key = op[c].key /\ loc[c].size = op[c].size /\ loc[c].by = c
<1>1. Kept(c) BY DEF LInv
<1>2. loc[c] = [key |-> op[c].key, size |-> op[c].size, by |-> c] BY <1>1 DEF Kept
<1>3. loc[c].key = op[c].key /\ loc[c].size = op[c].size /\ loc[c].by = c BY <1>2
<1> QED BY <1>1, <1>3 DEF Kept

\* The invariant implies what is promised of locators: a deletion that was
\* sent for the key of an object was asked for with its locator.
LEMMA LInvImplies == LInv => LocatorsDescribeBlobs
<1> SUFFICES ASSUME LInv, NEW c \in Calls, loc[c] # None, ~DeleteAsked(loc[c]),
                    ~is_uploading_temp_file(loc[c].key)
             PROVE  store[loc[c].key] = c /\ loc[c].size = op[c].size
  BY DEF LocatorsDescribeBlobs
<1>1. /\ op[c] # None /\ op[c].kind = "put" /\ c \in landed
      /\ loc[c].key = op[c].key /\ loc[c].size = op[c].size
  BY LocatorShape
<1>2. ASSUME DeleteSent(op[c].key) PROVE FALSE
  <2>1. PICK d \in Calls : req[d] # None /\ req[d].kind = "delete" /\ req[d].key = op[c].key
    BY <1>2 DEF DeleteSent
  <2>2. op[d] # None /\ op[d].kind = "delete" /\ op[d].object.key = op[c].key
    BY <2>1 DEF LInv, Asked
  <2>3. PICK e \in Calls : loc[e] # None /\ op[d].object = loc[e] BY <2>2 DEF LInv, Known
  <2>4. op[e] # None /\ op[e].kind = "put" /\ op[e].key = op[c].key
    BY <2>2, <2>3, LocatorShape
  <2>5. e = c BY <1>1, <2>4, PutKeysDiffer
  <2> QED BY <2>2, <2>3, <2>5 DEF DeleteAsked
<1> QED BY <1>1, <1>2 DEF LInv, Kept

\* Whatever the backend repeats or delays and whichever calls fail or are
\* dropped, a locator that put_object has returned leads to its own bytes
\* until its deletion is asked for, or until the local sweep takes a blob
\* whose name ends in .uploading.
THEOREM LocatorsLead == Spec => []LocatorsDescribeBlobs
BY InitLInv, NextLInv, LInvImplies, PTL DEF Spec

-----------------------------------------------------------------------------
(* Ranges.                                                                  *)

\* The bytes that an operation asks for, within the object.
Part(o) == IF o.kind = "range" THEN o.range ELSE <<0, o.object.size>>
From(o) == AtMost(Part(o)[1], o.object.size)
To(o) == AtMost(Part(o)[2], o.object.size)

\* What a stream that has got to position p has delivered.
Streamed(o, p, bytes) ==
  From(o) <= p /\ p <= To(o) /\ bytes = Bytes(From(o), p - From(o))

IsRead(o) == o \in Operations /\ o.kind \in {"get", "range"}
Proper(o) == Part(o)[1] <= Part(o)[2]
EmptyRange(o) == o.kind = "range" /\ o.range[1] = o.range[2]

\* What RangeIsSlice says of one reader.
Slice(o, bytes) == bytes = Bytes(From(o), To(o) - From(o))

\* What a reader has been served and given.
Reader(c) ==
  /\ pc[c] # "done" => result[c] = "none"
  /\ got[c] # None => IsRead(op[c]) /\ got[c] = op[c].object.by
  /\ req[c] # None =>
       /\ req[c].kind \in {"get", "range"} => IsRead(op[c])
       /\ IsRead(op[c]) => /\ Proper(op[c])
                           /\ req[c].kind \in {"get", "range"} \/ EmptyRange(op[c])
  /\ ans[c] = "ok" /\ IsRead(op[c]) => got[c] # None \/ EmptyRange(op[c])
  /\ pc[c] \in {"idle", "backend", "answered"} => pos[c] = 0 /\ out[c] = <<>>
  /\ pc[c] = "stream" =>
       /\ IsRead(op[c]) /\ req[c] # None
       /\ got[c] # None => Streamed(op[c], pos[c], out[c])
       /\ got[c] = None => EmptyRange(op[c]) /\ out[c] = <<>>
  /\ result[c] = "ok" /\ IsRead(op[c]) =>
       Slice(op[c], out[c]) /\ (got[c] # None \/ EmptyRange(op[c]))

StreamTypes ==
  /\ pos \in [Calls -> Nat]
  /\ out \in [Calls -> Seq(Nat)]
  /\ DOMAIN result = Calls

\* A key only ever holds the body of the put that made it.
StoreOK ==
  \A k \in AllKeys : store[k] # None =>
    op[store[k]] # None /\ op[store[k]].kind = "put" /\ op[store[k]].key = k

Readers == StreamTypes /\ \A c \in Calls : Reader(c)

RInv == LInv /\ StoreOK /\ Readers

\* The numbers of an operation that reads.
LEMMA ReadShape ==
  ASSUME NEW o, IsRead(o)
  PROVE  /\ o.object \in Locators /\ o.object.size \in Nat /\ o.object.by \in Calls
         /\ o.kind = "range" => o.range[1] \in Nat /\ o.range[2] \in Nat
         /\ Part(o)[1] \in Nat /\ Part(o)[2] \in Nat
         /\ From(o) \in Nat /\ To(o) \in Nat
         /\ From(o) <= o.object.size /\ To(o) <= o.object.size
         /\ Proper(o) => From(o) <= To(o)
         /\ EmptyRange(o) => From(o) = To(o)
<1>1. o.object \in Locators /\ (o.kind = "range" => o.range \in Ranges)
  BY OperationShape DEF IsRead
<1>2. o.object.size \in Nat /\ o.object.by \in Calls BY <1>1, ServiceAssumption DEF Locators
<1>3. o.kind = "range" => o.range[1] \in Nat /\ o.range[2] \in Nat BY <1>1, ServiceAssumption
<1>4. Part(o)[1] \in Nat /\ Part(o)[2] \in Nat BY <1>2, <1>3 DEF Part
<1>5. /\ From(o) \in Nat /\ To(o) \in Nat
      /\ From(o) <= o.object.size /\ To(o) <= o.object.size
  BY <1>2, <1>4 DEF From, To, AtMost
<1>6. Proper(o) => From(o) <= To(o) BY <1>2, <1>4 DEF Proper, From, To, AtMost
<1>7. EmptyRange(o) => From(o) = To(o) BY DEF EmptyRange, From, To, Part
<1> QED BY <1>1, <1>2, <1>3, <1>4, <1>5, <1>6, <1>7

\* A chunk of m bytes keeps Streamed.
LEMMA ChunkStreamed ==
  ASSUME NEW o, IsRead(o), NEW p \in Nat, NEW bytes \in Seq(Nat), Streamed(o, p, bytes),
         NEW m \in Nat, p + m <= To(o)
  PROVE  /\ bytes \o Bytes(p, m) \in Seq(Nat)
         /\ Streamed(o, p + m, bytes \o Bytes(p, m))
<1> DEFINE a == From(o)
           n == p - a
<1>1. a \in Nat /\ To(o) \in Nat /\ n \in Nat /\ a + n = p /\ bytes = Bytes(a, n)
  BY ReadShape DEF Streamed
<1> HIDE DEF a, n
<1>2. Bytes(a, n) \o Bytes(a + n, m) = Bytes(a, n + m)
  BY <1>1, BytesJoin, ZenonT(60)
<1>3. bytes \o Bytes(p, m) = Bytes(a, n + m) BY <1>1, <1>2
<1>4. n + m = (p + m) - a /\ n + m \in Nat /\ a <= p + m BY <1>1
<1>5. Bytes(a, n + m) \in Seq(Nat) BY <1>1, <1>4, BytesShape
<1> QED BY <1>3, <1>4, <1>5 DEF Streamed, a

\* A reader is as it was when nothing of its call changes.
LEMMA ReaderFrame ==
  ASSUME NEW d \in Calls, Reader(d),
         op'[d] = op[d], pc'[d] = pc[d], result'[d] = result[d], got'[d] = got[d],
         req'[d] = req[d], ans'[d] = ans[d], pos'[d] = pos[d], out'[d] = out[d]
  PROVE  Reader(d)'
BY DEF Reader

\* The invariant of the readers holds before any call is made.
LEMMA InitRInv == Init => RInv
<1> SUFFICES ASSUME Init PROVE StoreOK /\ Readers
  BY InitLInv DEF RInv
<1>1. StoreOK BY DEF Init, B!AbsInit, StoreOK
<1>2. StreamTypes BY DEF Init, StreamTypes
<1>3. ~IsRead(None) BY NoneAssumption DEF IsRead
<1>4. ASSUME NEW c \in Calls PROVE Reader(c)
  BY <1>3 DEF Init, B!AbsInit, Reader
<1> QED BY <1>1, <1>2, <1>4 DEF Readers

\* A call made.
LEMMA InvokeRInv ==
  ASSUME RInv, NEW c \in Calls, PutObject(c) \/ ByLocator(c) \/ GetRange(c)
  PROVE  StoreOK' /\ Readers'
<1> USE DEF Return, Goto
<1>1. /\ pc[c] = "idle" /\ op[c] = None /\ req[c] = None /\ ans[c] = "none"
      /\ got[c] = None
  <2>1. pc[c] = "idle" BY DEF PutObject, ByLocator, GetRange
  <2>2. op[c] = None /\ req[c] = None /\ ans[c] = "none" BY <2>1 DEF RInv, LInv, Asked
  <2>3. ~IsRead(op[c]) BY <2>2, NoneAssumption DEF IsRead
  <2> QED BY <2>1, <2>2, <2>3 DEF RInv, Readers, Reader
<1>2. UNCHANGED <<stream, store, landed, got, ans>>
  BY DEF PutObject, ByLocator, GetRange, Ask, Refuse, B!Invoke, backend
<1> DEFINE SentFor(r, o) ==
             /\ r.kind \in {"get", "range"} => IsRead(o)
             /\ IsRead(o) => Proper(o) /\ (r.kind \in {"get", "range"} \/ EmptyRange(o))
<1>3. PICK o :
        /\ op' = [op EXCEPT ![c] = o]
        /\ \/ /\ pc' = [pc EXCEPT ![c] = "backend"] /\ result' = result
              /\ \E r : /\ req' = [req EXCEPT ![c] = r]
                        /\ SentFor(r, o)
           \/ /\ pc' = [pc EXCEPT ![c] = "done"] /\ req' = req
              /\ \E e \in {"invalid", "precondition"} : result' = [result EXCEPT ![c] = e]
  <2>1. CASE PutObject(c)
    <3>1. PICK name \in FileNames \cup {None}, n \in Sizes :
            /\ op' = [op EXCEPT ![c] = [kind |-> "put", key |-> NewKey(c, name), size |-> n]]
            /\ Ask(c, "put", NewKey(c, name)) \/ Refuse(c, "invalid")
      BY <2>1 DEF PutObject
    <3> DEFINE o == [kind |-> "put", key |-> NewKey(c, name), size |-> n]
               r == [kind |-> "put", key |-> NewKey(c, name)]
    <3>2. SentFor(r, o) BY DEF IsRead
    <3>3. \/ /\ pc' = [pc EXCEPT ![c] = "done"] /\ req' = req
             /\ result' = [result EXCEPT ![c] = "invalid"]
          \/ /\ pc' = [pc EXCEPT ![c] = "backend"] /\ result' = result
             /\ req' = [req EXCEPT ![c] = r]
      BY <3>1 DEF Ask, Refuse, B!Invoke, backend, RInv, LInv, Types
    <3> HIDE DEF o, r
    <3> QED BY <3>1, <3>2, <3>3 DEF o
  <2>2. CASE ByLocator(c)
    <3>1. PICK kind \in {"get", "delete", "head"}, d \in {d \in Calls : loc[d] # None} :
            /\ op' = [op EXCEPT ![c] = [kind |-> kind, object |-> loc[d]]]
            /\ Ask(c, kind, loc[d].key)
      BY <2>2 DEF ByLocator
    <3> DEFINE o == [kind |-> kind, object |-> loc[d]]
               r == [kind |-> kind, key |-> loc[d].key]
    <3>2. loc[d] \in Locators BY DEF RInv, LInv, Types
    <3>3. o \in Operations BY <3>2 DEF Operations
    <3>4. SentFor(r, o)
      <4>1. o.kind = kind /\ r.kind = kind /\ (kind = "get" => Part(o) = <<0, o.object.size>>)
        BY DEF Part
      <4>2. o.object.size \in Nat BY <3>2, ServiceAssumption DEF Locators
      <4>3. kind = "get" => Proper(o) BY <4>1, <4>2 DEF Proper
      <4> HIDE DEF o, r
      <4> QED BY <3>3, <4>1, <4>3 DEF IsRead
    <3>5. /\ pc' = [pc EXCEPT ![c] = "backend"] /\ result' = result
          /\ req' = [req EXCEPT ![c] = r]
      BY <3>1 DEF Ask, B!Invoke, RInv, LInv, Types
    <3> HIDE DEF o, r
    <3> QED BY <3>1, <3>4, <3>5 DEF o
  <2>3. CASE GetRange(c)
    <3>1. PICK q \in Ranges, d \in {d \in Calls : loc[d] # None} :
            /\ op' = [op EXCEPT ![c] = [kind |-> "range", object |-> loc[d], range |-> q]]
            /\ \/ q[2] < q[1] /\ Refuse(c, "precondition")
               \/ q[2] >= q[1] /\ Ask(c, "range", loc[d].key)
               \/ q[2] = q[1] /\ Ask(c, "head", loc[d].key)
      BY <2>3 DEF GetRange
    <3>a. PICK kind \in {"range", "head"} :
            \/ Refuse(c, "precondition")
            \/ Ask(c, kind, loc[d].key) /\ q[2] >= q[1] /\ (kind = "head" => q[2] = q[1])
      BY <3>1, ServiceAssumption
    <3> DEFINE o == [kind |-> "range", object |-> loc[d], range |-> q]
               r == [kind |-> kind, key |-> loc[d].key]
    <3>2. loc[d] \in Locators BY DEF RInv, LInv, Types
    <3>3. o \in Operations BY <3>2 DEF Operations
    <3>4. r.kind = kind /\ IsRead(o) /\ o.kind = "range" /\ o.range = q BY <3>3 DEF IsRead
    <3>5. q[2] >= q[1] /\ (kind = "head" => q[2] = q[1]) => SentFor(r, o)
      <4>1. q[1] \in Nat /\ q[2] \in Nat BY ServiceAssumption
      <4> HIDE DEF o, r
      <4> QED BY <3>4, <4>1 DEF Proper, Part, EmptyRange
    <3>6. \/ /\ pc' = [pc EXCEPT ![c] = "done"] /\ req' = req
             /\ result' = [result EXCEPT ![c] = "precondition"]
          \/ /\ pc' = [pc EXCEPT ![c] = "backend"] /\ result' = result
             /\ req' = [req EXCEPT ![c] = r]
             /\ q[2] >= q[1] /\ (kind = "head" => q[2] = q[1])
      BY <3>a DEF Ask, Refuse, B!Invoke, backend, RInv, LInv, Types
    <3> HIDE DEF o, r
    <3> QED BY <3>1, <3>5, <3>6 DEF o
  <2> QED BY <2>1, <2>2, <2>3
<1>4. StoreOK'
  <2> SUFFICES ASSUME NEW k \in AllKeys, store[k] # None
               PROVE  op'[store[k]] # None /\ op'[store[k]].kind = "put" /\ op'[store[k]].key = k
    BY <1>2 DEF StoreOK
  <2>1. store[k] \in Calls /\ op[store[k]] # None BY DEF RInv, LInv, Types, StoreOK
  <2>2. op'[store[k]] = op[store[k]] BY <1>1, <1>3, <2>1 DEF RInv, LInv, Types
  <2> QED BY <2>2 DEF RInv, StoreOK
<1>5. StreamTypes' BY <1>2, <1>3 DEF stream, RInv, Readers, StreamTypes
<1>6. ASSUME NEW d \in Calls PROVE Reader(d)'
  <2>1. Reader(d) BY DEF RInv, Readers
  <2>2. CASE d # c
    <3>1. op'[d] = op[d] /\ pc'[d] = pc[d] /\ result'[d] = result[d] /\ req'[d] = req[d]
      BY <1>3, <2>2 DEF RInv, LInv, Types, Readers, StreamTypes
    <3> QED BY <1>2, <2>1, <3>1, ReaderFrame DEF stream
  <2>3. CASE d = c
    <3>1. op'[c] = o BY <1>3 DEF RInv, LInv, Types
    <3>2. \/ /\ pc'[c] = "backend" /\ result'[c] = result[c]
             /\ SentFor(req'[c], o)
          \/ pc'[c] = "done" /\ req'[c] = req[c] /\ result'[c] \in {"invalid", "precondition"}
      BY <1>3 DEF RInv, LInv, Types, Readers, StreamTypes
    <3> QED BY <1>1, <1>2, <2>1, <2>3, <3>1, <3>2 DEF stream, Reader
  <2> QED BY <2>2, <2>3
<1> QED BY <1>4, <1>5, <1>6 DEF Readers

\* What a reader is served is the body of the put that its locator is of.
LEMMA ServedBody ==
  ASSUME RInv, NEW c \in Calls, req[c] # None, req[c].kind \in {"get", "range"},
         NEW d, store[req[c].key] = d, d # None
  PROVE  IsRead(op[c]) /\ d = op[c].object.by
<1>1. IsRead(op[c]) BY DEF RInv, Readers, Reader
<1>2. op[c] # None /\ op[c].kind # "put" /\ req[c].key = op[c].object.key /\ req[c].key \in AllKeys
  BY <1>1, OperationShape DEF IsRead, RInv, LInv, Types, Asked, BackendRequests
<1>3. PICK e \in Calls : loc[e] # None /\ op[c].object = loc[e] BY <1>2 DEF RInv, LInv, Known
<1>4. op[e] # None /\ op[e].kind = "put" /\ op[e].key = req[c].key /\ loc[e].by = e
  BY <1>2, <1>3, LocatorShape DEF RInv
<1>5. d \in Calls /\ op[d] # None /\ op[d].kind = "put" /\ op[d].key = req[c].key
  BY <1>2 DEF RInv, LInv, Types, StoreOK
<1>6. d = e BY <1>4, <1>5, PutKeysDiffer DEF RInv
<1> QED BY <1>1, <1>3, <1>4, <1>6

\* The body that is streamed has the size that the locator says.
LEMMA BodySizeKnown ==
  ASSUME RInv, NEW c \in Calls, got[c] # None
  PROVE  IsRead(op[c]) /\ BodySize(c) = op[c].object.size
<1>1. IsRead(op[c]) /\ got[c] = op[c].object.by BY DEF RInv, Readers, Reader
<1>2. op[c] # None /\ op[c].kind # "put" BY <1>1, OperationShape DEF IsRead
<1>3. PICK e \in Calls : loc[e] # None /\ op[c].object = loc[e] BY <1>2 DEF RInv, LInv, Known
<1>4. loc[e].by = e /\ loc[e].size = op[e].size BY <1>3, LocatorShape DEF RInv
<1> QED BY <1>1, <1>3, <1>4 DEF BodySize

\* An effect of the backend leaves at a key only the put that made the key.
LEMMA EffectStoreOK ==
  ASSUME RInv, NEW c \in Calls, B!Effect(c), op' = op
  PROVE  StoreOK'
<1>1. /\ req[c] # None /\ req[c] \in BackendRequests
      /\ store' = [store EXCEPT ![req[c].key] = IF req[c].kind = "delete" THEN None ELSE c]
      /\ req[c].kind \in {"put", "delete"} /\ req[c].key \in AllKeys
  BY DEF B!Effect, B!Kind, B!Writers, BackendRequests, RInv, LInv, Types
<1>2. req[c].kind = "put" => op[c] # None /\ op[c].kind = "put" /\ op[c].key = req[c].key
  BY <1>1 DEF RInv, LInv, Asked
<1> SUFFICES ASSUME NEW k \in AllKeys, store'[k] # None
             PROVE  op[store'[k]] # None /\ op[store'[k]].kind = "put" /\ op[store'[k]].key = k
  BY DEF StoreOK
<1>3. CASE k = req[c].key
  <2>1. store'[k] = IF req[c].kind = "delete" THEN None ELSE c
    BY <1>1, <1>3 DEF RInv, LInv, Types
  <2> QED BY <1>1, <1>2, <1>3, <2>1
<1>4. CASE k # req[c].key
  <2>1. store'[k] = store[k] BY <1>1, <1>4 DEF RInv, LInv, Types
  <2> QED BY <2>1 DEF RInv, StoreOK
<1> QED BY <1>3, <1>4

\* A step of the backend for a call.
LEMMA BackendRInv ==
  ASSUME RInv, NEW c \in Calls, Backend(c)
  PROVE  StoreOK' /\ Readers'
<1>1. /\ pc[c] = "backend" /\ UNCHANGED <<op, result, stream, req>>
      /\ \E label \in {"backend", "answered"} : pc' = [pc EXCEPT ![c] = label]
  BY DEF Backend, Goto, B!Look, B!Answer
<1>2. req[c] # None BY <1>1 DEF RInv, LInv, Asked
<1>3. StoreOK'
  <2>1. CASE B!Effect(c) BY <1>1, <2>1, EffectStoreOK
  <2>2. CASE store' = store BY <1>1, <2>2 DEF RInv, StoreOK
  <2> QED BY <2>1, <2>2 DEF Backend, B!Look, B!Answer
<1>4. StreamTypes' BY <1>1 DEF stream, RInv, Readers, StreamTypes
<1>5. /\ \A d \in Calls \ {c} : got'[d] = got[d] /\ ans'[d] = ans[d] /\ pc'[d] = pc[d]
      /\ got'[c] # None => IsRead(op[c]) /\ got'[c] = op[c].object.by
      /\ ans'[c] = "ok" /\ IsRead(op[c]) => got'[c] # None \/ EmptyRange(op[c])
  <2>0. \A d \in Calls \ {c} : pc'[d] = pc[d] BY <1>1 DEF RInv, LInv, Types
  <2>1. Reader(c) BY DEF RInv, Readers
  <2>2. CASE B!Look(c)
    <3>1. /\ req[c].kind \in {"get", "range"} /\ store[req[c].key] # None /\ ans' = ans
          /\ got' = [got EXCEPT ![c] = store[req[c].key]]
      BY <1>2, <2>2 DEF B!Look, B!Kind, RInv, LInv, Types, BackendRequests
    <3>2. IsRead(op[c]) /\ store[req[c].key] = op[c].object.by BY <1>2, <3>1, ServedBody
    <3> QED BY <2>0, <3>1, <3>2 DEF RInv, LInv, Types
  <2>3. CASE B!Answer(c)
    <3>1. PICK a : /\ ans' = [ans EXCEPT ![c] = a]
                   /\ a = "ok" /\ req[c].kind \in {"get", "range"} => got[c] # None
      BY <2>3 DEF B!Answer, B!Kind
    <3>2. got' = got BY <2>3 DEF B!Answer
    <3> QED BY <1>2, <2>0, <2>1, <3>1, <3>2 DEF RInv, LInv, Types, Reader
  <2> QED BY <2>2, <2>3 DEF Backend
<1>6. ASSUME NEW d \in Calls PROVE Reader(d)'
  <2>1. Reader(d) BY DEF RInv, Readers
  <2>2. CASE d # c BY <1>1, <1>5, <2>1, <2>2, ReaderFrame DEF stream
  <2>3. CASE d = c
    <3>1. pc'[c] \in {"backend", "answered"} BY <1>1 DEF RInv, LInv, Types
    <3>2. result[c] = "none" /\ pos[c] = 0 /\ out[c] = <<>> BY <1>1, <2>1, <2>3 DEF Reader
    <3> QED BY <1>1, <1>5, <2>1, <2>3, <3>1, <3>2 DEF stream, Reader
  <2> QED BY <2>2, <2>3
<1> QED BY <1>3, <1>4, <1>6 DEF Readers

\* A call ends: only a reader that ends well has anything to show.
LEMMA ReturnRInv ==
  ASSUME RInv, NEW c \in Calls, NEW e, Return(c, e), UNCHANGED <<op, stream, backend>>,
         e = "ok" /\ IsRead(op[c]) =>
           Slice(op[c], out[c]) /\ (got[c] # None \/ EmptyRange(op[c]))
  PROVE  StoreOK' /\ Readers'
<1>1. pc' = [pc EXCEPT ![c] = "done"] /\ result' = [result EXCEPT ![c] = e]
  BY DEF Return, Goto
<1>2. StoreOK' BY DEF RInv, StoreOK, backend
<1>3. StreamTypes' BY <1>1 DEF stream, RInv, Readers, StreamTypes
<1>4. ASSUME NEW d \in Calls PROVE Reader(d)'
  <2>1. Reader(d) BY DEF RInv, Readers
  <2>2. CASE d # c
    <3>1. pc'[d] = pc[d] /\ result'[d] = result[d]
      BY <1>1, <2>2 DEF RInv, LInv, Types, Readers, StreamTypes
    <3> QED BY <2>1, <3>1, ReaderFrame DEF stream, backend
  <2>3. CASE d = c
    <3>1. pc'[c] = "done" /\ result'[c] = e
      BY <1>1 DEF RInv, LInv, Types, Readers, StreamTypes
    <3> QED BY <2>1, <2>3, <3>1 DEF Reader, stream, backend
  <2> QED BY <2>2, <2>3
<1> QED BY <1>2, <1>3, <1>4 DEF Readers

\* Where the backend's stream begins and ends, in terms of the operation.
LEMMA ExtentKnown ==
  ASSUME RInv, NEW c \in Calls
  PROVE  /\ got[c] # None => Extent(c) = <<From(op[c]), To(op[c])>>
         /\ got[c] = None => Extent(c) = <<0, 0>>
<1>1. CASE got[c] = None BY <1>1 DEF Extent
<1>2. CASE got[c] # None
  <2> DEFINE o == op[c]
  <2>1. IsRead(o) /\ BodySize(c) = o.object.size BY <1>2, BodySizeKnown
  <2>2. o.object.size \in Nat BY <2>1, ReadShape
  <2>3. CASE o.kind = "range" BY <1>2, <2>1, <2>3 DEF Extent, Served, From, To, Part
  <2>4. CASE o.kind # "range"
    <3>1. Extent(c) = <<0, o.object.size>> BY <1>2, <2>1, <2>4 DEF Extent
    <3>2. From(o) = 0 /\ To(o) = o.object.size BY <2>2, <2>4 DEF From, To, Part, AtMost
    <3> QED BY <1>2, <3>1, <3>2
  <2> QED BY <2>3, <2>4
<1> QED BY <1>1, <1>2

\* The reader's stream begins with nothing delivered.
LEMMA OpenRInv ==
  ASSUME RInv, NEW c \in Calls, pc[c] = "answered", IsRead(op[c]), ans[c] = "ok",
         OpenStream(c), UNCHANGED <<op, backend>>
  PROVE  StoreOK' /\ Readers'
<1> DEFINE o == op[c]
           first == Extent(c)[1]
<1>0. /\ Reader(c) /\ req[c] # None /\ Proper(o) /\ (got[c] # None \/ EmptyRange(o))
      /\ result[c] = "none" /\ out[c] = <<>>
  BY DEF RInv, Readers, Reader, LInv, Asked
<1>1. pos' = [pos EXCEPT ![c] = first] /\ pc' = [pc EXCEPT ![c] = "stream"]
      /\ UNCHANGED <<result, out>>
  BY DEF OpenStream, Goto
<1>2. first \in Nat /\ (got[c] # None => first = From(o)) BY ExtentKnown, ReadShape
<1>3. Streamed(o, From(o), <<>>)
  <2>1. From(o) \in Nat /\ To(o) \in Nat /\ From(o) <= To(o) BY <1>0, ReadShape
  <2>2. From(o) - From(o) = 0 /\ From(o) <= From(o) BY <2>1
  <2>3. Bytes(From(o), 0) = <<>> BY <2>1, BytesShape
  <2> HIDE DEF o
  <2> QED BY <2>1, <2>2, <2>3 DEF Streamed
<1> HIDE DEF first
<1>4. StoreOK' BY DEF RInv, StoreOK, backend
<1>5. StreamTypes' BY <1>1, <1>2 DEF RInv, Readers, StreamTypes
<1>6. ASSUME NEW d \in Calls PROVE Reader(d)'
  <2>1. Reader(d) BY DEF RInv, Readers
  <2>2. CASE d # c
    <3>1. pc'[d] = pc[d] /\ pos'[d] = pos[d]
      BY <1>1, <2>2 DEF RInv, LInv, Types, Readers, StreamTypes
    <3> QED BY <1>1, <2>1, <3>1, ReaderFrame DEF backend
  <2>3. CASE d = c
    <3>1. pc'[c] = "stream" /\ pos'[c] = first
      BY <1>1 DEF RInv, LInv, Types, Readers, StreamTypes
    <3>2. /\ op'[c] = op[c] /\ out'[c] = <<>> /\ result'[c] = "none" /\ got'[c] = got[c]
          /\ req'[c] = req[c] /\ ans'[c] = ans[c]
      BY <1>0, <1>1 DEF backend
    <3>3. got[c] # None => Streamed(op[c], first, <<>>) BY <1>2, <1>3
    <3> QED BY <1>0, <2>3, <3>1, <3>2, <3>3 DEF Reader
  <2> QED BY <2>2, <2>3
<1> QED BY <1>4, <1>5, <1>6 DEF Readers

\* A chunk of the body keeps the invariant of the stream.
LEMMA ChunkRInv ==
  ASSUME RInv, NEW c \in Calls, NextChunk(c)
  PROVE  StoreOK' /\ Readers'
<1>0. pc[c] = "stream" /\ UNCHANGED <<op, pc, result, backend>> BY DEF NextChunk
<1>1. PICK m \in 1..MaxChunk : /\ pos[c] + m <= Extent(c)[2]
                               /\ out' = [out EXCEPT ![c] = out[c] \o Bytes(pos[c], m)]
                               /\ pos' = [pos EXCEPT ![c] = pos[c] + m]
  BY DEF NextChunk
<1>2. m \in Nat /\ m > 0 /\ pos[c] \in Nat /\ out[c] \in Seq(Nat)
  BY ServiceAssumption DEF RInv, Readers, StreamTypes
<1>3. Reader(c) BY DEF RInv, Readers
<1>4. got[c] # None /\ pos[c] + m <= To(op[c]) BY <1>1, <1>2, ExtentKnown
<1>5. IsRead(op[c]) /\ Streamed(op[c], pos[c], out[c]) BY <1>0, <1>3, <1>4 DEF Reader
<1> DEFINE bytes == out[c] \o Bytes(pos[c], m)
           p == pos[c] + m
<1>6. bytes \in Seq(Nat) /\ Streamed(op[c], p, bytes) BY <1>2, <1>4, <1>5, ChunkStreamed
<1>7. p \in Nat BY <1>2
<1>8. out' = [out EXCEPT ![c] = bytes] /\ pos' = [pos EXCEPT ![c] = p] BY <1>1
<1> HIDE DEF bytes, p
<1>9. StreamTypes' BY <1>0, <1>6, <1>7, <1>8 DEF RInv, Readers, StreamTypes
<1>10. StoreOK' BY <1>0 DEF RInv, StoreOK, backend
<1>11. ASSUME NEW d \in Calls PROVE Reader(d)'
  <2>1. Reader(d) BY DEF RInv, Readers
  <2>2. CASE d # c
    <3>1. out'[d] = out[d] /\ pos'[d] = pos[d]
      BY <1>8, <2>2 DEF RInv, Readers, StreamTypes
    <3> QED BY <1>0, <2>1, <3>1, ReaderFrame DEF backend
  <2>3. CASE d = c
    <3>1. out'[c] = bytes /\ pos'[c] = p BY <1>8 DEF RInv, Readers, StreamTypes
    <3>2. /\ op'[c] = op[c] /\ pc'[c] = "stream" /\ result'[c] = "none" /\ got'[c] = got[c]
          /\ req'[c] = req[c] /\ ans'[c] = ans[c]
      BY <1>0, <1>3 DEF backend, Reader
    <3> QED BY <1>0, <1>3, <1>4, <1>6, <2>3, <3>1, <3>2 DEF Reader
  <2> QED BY <2>2, <2>3
<1> QED BY <1>9, <1>10, <1>11 DEF Readers

\* A reader that comes to the end of its stream has been given its slice.
LEMMA EndRInv ==
  ASSUME RInv, NEW c \in Calls, EndOfStream(c)
  PROVE  StoreOK' /\ Readers'
<1>1. /\ pc[c] = "stream" /\ pos[c] >= Extent(c)[2]
      /\ Return(c, "ok") /\ UNCHANGED <<op, stream, backend>>
  BY DEF EndOfStream
<1>2. Reader(c) /\ IsRead(op[c]) BY <1>1 DEF RInv, Readers, Reader
<1>3. pos[c] \in Nat /\ From(op[c]) \in Nat /\ To(op[c]) \in Nat
  BY <1>2, ReadShape DEF RInv, Readers, StreamTypes
<1>4. Slice(op[c], out[c]) /\ (got[c] # None \/ EmptyRange(op[c]))
  <2>1. CASE got[c] # None
    <3>1. Streamed(op[c], pos[c], out[c]) BY <1>1, <1>2, <2>1 DEF Reader
    <3>2. pos[c] >= To(op[c]) BY <1>1, <2>1, ExtentKnown
    <3>3. pos[c] <= To(op[c]) /\ out[c] = Bytes(From(op[c]), pos[c] - From(op[c]))
      BY <3>1 DEF Streamed
    <3>4. pos[c] = To(op[c]) BY <1>3, <3>2, <3>3
    <3> QED BY <2>1, <3>3, <3>4 DEF Slice
  <2>2. CASE got[c] = None
    <3>1. EmptyRange(op[c]) /\ out[c] = <<>> BY <1>1, <1>2, <2>2 DEF Reader
    <3>2. To(op[c]) - From(op[c]) = 0 BY <1>2, <1>3, <3>1, ReadShape
    <3>3. Bytes(From(op[c]), 0) = <<>> BY <1>3, BytesShape
    <3> QED BY <3>1, <3>2, <3>3 DEF Slice
  <2> QED BY <2>1, <2>2
<1> QED BY <1>1, <1>2, <1>4, ReturnRInv

\* Every step keeps the invariant of the readers.
LEMMA NextRInv == RInv /\ [Next]_vars => RInv'
<1> SUFFICES ASSUME RInv, [Next]_vars PROVE StoreOK' /\ Readers'
  BY NextLInv DEF RInv
<1>1. ASSUME NEW c \in Calls, PutObject(c) \/ ByLocator(c) \/ GetRange(c)
      PROVE  StoreOK' /\ Readers'
  BY <1>1, InvokeRInv
<1>2. ASSUME NEW c \in Calls, Backend(c) PROVE StoreOK' /\ Readers'
  BY <1>2, BackendRInv
<1>3. ASSUME NEW c \in Calls, BackendLate(c) PROVE StoreOK' /\ Readers'
  <2>1. B!Effect(c) /\ UNCHANGED <<op, pc, result, stream, req, got, ans>>
    BY <1>3 DEF BackendLate, B!Land
  <2>2. StoreOK' BY <2>1, EffectStoreOK
  <2>3. StreamTypes' BY <2>1 DEF stream, RInv, Readers, StreamTypes
  <2>4. ASSUME NEW d \in Calls PROVE Reader(d)'
    BY <2>1, ReaderFrame DEF stream, RInv, Readers
  <2> QED BY <2>2, <2>3, <2>4 DEF Readers
<1>4. ASSUME Sweep PROVE StoreOK' /\ Readers'
  <2>1. PICK k \in AllKeys : store' = [store EXCEPT ![k] = None] BY <1>4 DEF Sweep
  <2>2. UNCHANGED <<op, pc, result, stream, req, got, ans>> BY <1>4 DEF Sweep
  <2>3. StoreOK' BY <2>1, <2>2 DEF RInv, LInv, Types, StoreOK
  <2>4. StreamTypes' BY <2>2 DEF stream, RInv, Readers, StreamTypes
  <2>5. ASSUME NEW d \in Calls PROVE Reader(d)'
    BY <2>2, ReaderFrame DEF stream, RInv, Readers
  <2> QED BY <2>3, <2>4, <2>5 DEF Readers
<1>5. ASSUME NEW c \in Calls, Answered(c) PROVE StoreOK' /\ Readers'
  <2>1. pc[c] = "answered" /\ UNCHANGED <<op, backend>> BY <1>5 DEF Answered
  <2>2. op[c] \in Operations BY <2>1 DEF RInv, LInv, Types, Asked
  <2>3. CASE IsRead(op[c]) /\ ans[c] = "ok"
    <3>1. OpenStream(c) BY <1>5, <2>3 DEF Answered, IsRead
    <3> QED BY <2>1, <2>3, <3>1, OpenRInv
  <2>4. CASE ~(IsRead(op[c]) /\ ans[c] = "ok")
    <3>1. Return(c, ans[c]) /\ UNCHANGED stream
      BY <1>5, <2>2, <2>4 DEF Answered, Stored, IsRead
    <3> QED BY <2>1, <2>4, <3>1, ReturnRInv
  <2> QED BY <2>3, <2>4
<1>6. ASSUME NEW c \in Calls, NextChunk(c) PROVE StoreOK' /\ Readers'
  BY <1>6, ChunkRInv
<1>7. ASSUME NEW c \in Calls, EndOfStream(c) PROVE StoreOK' /\ Readers'
  BY <1>7, EndRInv
<1>8. ASSUME NEW c \in Calls, StreamFails(c) \/ Interrupt(c) PROVE StoreOK' /\ Readers'
  <2>1. PICK e \in {"io", "dropped"} : Return(c, e) /\ UNCHANGED <<op, stream, backend>>
    BY <1>8 DEF StreamFails, Interrupt
  <2>2. e # "ok" OBVIOUS
  <2> QED BY <2>1, <2>2, ReturnRInv
<1>9. ASSUME UNCHANGED vars PROVE StoreOK' /\ Readers'
  <2>1. StoreOK' BY <1>9 DEF vars, backend, RInv, StoreOK
  <2>2. StreamTypes' BY <1>9 DEF vars, stream, RInv, Readers, StreamTypes
  <2>3. ASSUME NEW d \in Calls PROVE Reader(d)'
    BY <1>9, ReaderFrame DEF vars, stream, backend, RInv, Readers
  <2> QED BY <2>1, <2>2, <2>3 DEF Readers
<1> QED
  BY <1>1, <1>2, <1>3, <1>4, <1>5, <1>6, <1>7, <1>8, <1>9 DEF Next, Step, Quiescent

\* The invariant implies what is promised of readers.
LEMMA RInvImplies == RInv => RangeIsSlice
<1> SUFFICES ASSUME RInv, NEW c \in Calls, op[c] # None, op[c].kind \in {"get", "range"},
                    result[c] = "ok"
             PROVE  LET size == op[c].object.size
                        part == IF op[c].kind = "range" THEN op[c].range ELSE <<0, size>>
                        from == AtMost(part[1], size)
                    IN /\ out[c] = Bytes(from, AtMost(part[2], size) - from)
                       /\ got[c] = op[c].object.by \/ part[1] = part[2]
  BY DEF RangeIsSlice
<1>1. IsRead(op[c]) BY DEF IsRead, RInv, LInv, Types
<1>2. /\ out[c] = Bytes(From(op[c]), To(op[c]) - From(op[c]))
      /\ got[c] = op[c].object.by \/ EmptyRange(op[c])
  BY <1>1 DEF RInv, Readers, Reader, Slice
<1> QED BY <1>2 DEF From, To, Part, EmptyRange

\* However the backend cuts the body into chunks, and whatever else happens to
\* the store meanwhile, a read by locator that ends well has delivered exactly
\* the bytes asked for that lie within the object stored by the locator's own
\* put; the one read that may do without the object is an empty range.
THEOREM RangesExact == Spec => []RangeIsSlice
BY InitRInv, NextRInv, RInvImplies, PTL DEF Spec

-----------------------------------------------------------------------------
(* Types, and the validity of keys.                                         *)

\* The characters that separate or end paths.
Separators == {"/", "\\", "NUL"}

\* A key from its beginning: namespace, shards and uuid, and no separator in
\* what follows them.
LEMMA KeyText ==
  ASSUME NEW c \in Calls, NEW name \in FileNames \cup {None}, NEW k, k = NewKey(c, name)
  PROVE  /\ \E S : k \in Seq(S)
         /\ Len(k) \in Nat /\ Len(k) >= 7 /\ DOMAIN k = 1..Len(k)
         /\ k[1] = "ns" /\ k[2] = "/" /\ k[3] = "s1" /\ k[4] = "/" /\ k[5] = "s2" /\ k[6] = "/" /\ k[7] = c
         /\ \A i \in 8..Len(k) : k[i] \notin Separators
<1> DEFINE head == <<"ns", "/", "s1", "/", "s2", "/", c>>
           ext == file_extension(name)
           low == to_ascii_lowercase(ext)
           tail == IF ext = None THEN <<>> ELSE <<".">> \o low
           Chars == Calls \cup {"ns", "s1", "s2", "/", "."} \cup {Lower(ch) : ch \in STRING}
<1>1. /\ {c, "ns", "s1", "s2", "/", "."} \subseteq Chars
      /\ \A ch \in STRING : Lower(ch) \in Chars
  OBVIOUS
<1> HIDE DEF Chars
<1>2. /\ head \in Seq(Chars) /\ Len(head) = 7
      /\ head[1] = "ns" /\ head[2] = "/" /\ head[3] = "s1" /\ head[4] = "/" /\ head[5] = "s2"
      /\ head[6] = "/" /\ head[7] = c
  <2>1. \A i \in 1..7 : head[i] \in Chars BY <1>1
  <2>2. /\ DOMAIN head = 1..7 /\ Len(head) = 7
        /\ head[1] = "ns" /\ head[2] = "/" /\ head[3] = "s1" /\ head[4] = "/" /\ head[5] = "s2"
        /\ head[6] = "/" /\ head[7] = c
    OBVIOUS
  <2>3. head = [i \in 1..7 |-> head[i]] OBVIOUS
  <2> HIDE DEF head
  <2>4. [i \in 1..7 |-> head[i]] \in Seq(Chars) BY <2>1
  <2> QED BY <2>2, <2>3, <2>4
<1>3. tail \in Seq(Chars) /\ Len(tail) \in Nat /\ \A i \in 1..Len(tail) : tail[i] \notin Separators
  <2>1. CASE ext = None BY <2>1
  <2>2. CASE ext # None
    <3>1. ext \in Seq(STRING) BY <2>2, ExtensionIsString
    <3>2. \A ch \in Separators : ~Has(ext, ch)
      BY <2>2 DEF file_extension, Separators
    <3> HIDE DEF ext
    <3>3. Len(ext) \in Nat /\ DOMAIN ext = 1..Len(ext) /\ \A i \in 1..Len(ext) : ext[i] \in STRING
      BY <3>1, LenProperties
    <3>4. \A i \in 1..Len(ext) : ext[i] \notin Separators BY <3>2, <3>3 DEF Has
    <3>5. \A i \in 1..Len(ext) : Lower(ext[i]) \in Chars /\ Lower(ext[i]) \notin Separators
      BY <1>1, <3>3, <3>4 DEF Lower, Separators
    <3>6. low = [i \in 1..Len(ext) |-> Lower(ext[i])] BY <3>3 DEF to_ascii_lowercase
    <3>7. low \in Seq(Chars) /\ Len(low) = Len(ext) /\ \A i \in 1..Len(ext) : low[i] \notin Separators
      BY <3>3, <3>5, <3>6
    <3> HIDE DEF low
    <3> DEFINE dot == <<".">>
    <3>8. dot \in Seq(Chars) /\ Len(dot) = 1 /\ dot[1] \notin Separators
      <4>1. "." \in Chars BY <1>1
      <4> QED BY <4>1 DEF Separators
    <3>9. tail = dot \o low BY <2>2
    <3> HIDE DEF dot
    <3>10. /\ dot \o low \in Seq(Chars) /\ Len(dot \o low) = Len(dot) + Len(low)
           /\ \A i \in 1..(Len(dot) + Len(low)) :
                (dot \o low)[i] = IF i <= Len(dot) THEN dot[i] ELSE low[i - Len(dot)]
      BY <3>7, <3>8, ConcatProperties
    <3>11. ASSUME NEW i \in 1..(1 + Len(ext)) PROVE (dot \o low)[i] \notin Separators
      <4>1. CASE i = 1 BY <3>3, <3>7, <3>8, <3>10, <4>1
      <4>2. CASE i # 1
        <5>1. i - 1 \in 1..Len(ext) /\ ~(i <= 1) BY <3>3, <4>2
        <5>2. (dot \o low)[i] = low[i - 1] BY <3>7, <3>8, <3>10, <5>1
        <5> QED BY <3>7, <5>1, <5>2
      <4> QED BY <4>1, <4>2
    <3> QED BY <3>3, <3>7, <3>8, <3>9, <3>10, <3>11
  <2> QED BY <2>1, <2>2
<1>4. k = head \o tail BY DEF NewKey, build_storage_key
<1> HIDE DEF head, tail
<1>5. /\ k \in Seq(Chars) /\ Len(k) = 7 + Len(tail)
      /\ \A i \in 1..(7 + Len(tail)) : k[i] = IF i <= 7 THEN head[i] ELSE tail[i - 7]
  <2>1. /\ head \o tail \in Seq(Chars) /\ Len(head \o tail) = Len(head) + Len(tail)
        /\ \A i \in 1..(Len(head) + Len(tail)) :
             (head \o tail)[i] = IF i <= Len(head) THEN head[i] ELSE tail[i - Len(head)]
    BY <1>2, <1>3, ConcatProperties
  <2>2. Len(head) = 7 BY <1>2
  <2> QED BY <1>4, <2>1, <2>2
<1>6. \A i \in 1..7 : k[i] = head[i] BY <1>3, <1>5
<1>7. ASSUME NEW i \in 8..Len(k) PROVE k[i] \notin Separators
  <2>1. i - 7 \in 1..Len(tail) /\ i \in 1..(7 + Len(tail)) /\ ~(i <= 7) BY <1>3, <1>5
  <2>2. k[i] = tail[i - 7] BY <1>5, <2>1
  <2> QED BY <1>3, <2>1, <2>2
<1>8. Len(k) \in Nat /\ Len(k) >= 7 /\ DOMAIN k = 1..Len(k) BY <1>3, <1>5
<1>9. \A i \in {1, 2, 3, 4, 5, 6, 7} : k[i] = head[i] BY <1>6
<1> QED BY <1>2, <1>5, <1>7, <1>8, <1>9

\* Whatever the file name, put_object builds a key that validate_blob_key
\* accepts: its components begin with the namespace, a shard or the uuid.
LEMMA KeysValid ==
  ASSUME NEW c \in Calls, NEW name \in FileNames \cup {None}
  PROVE  validate_blob_key(NewKey(c, name))
<1> DEFINE k == NewKey(c, name)
           n == Len(k)
           cuts == {0, n + 1} \cup {i \in DOMAIN k : k[i] = "/"}
<1>1. /\ \E S : k \in Seq(S)
      /\ n \in Nat /\ n >= 7 /\ DOMAIN k = 1..n
      /\ k[1] = "ns" /\ k[2] = "/" /\ k[3] = "s1" /\ k[4] = "/" /\ k[5] = "s2" /\ k[6] = "/" /\ k[7] = c
      /\ \A i \in 8..n : k[i] \notin Separators
  BY KeyText
<1> HIDE DEF k
<1>2. c \notin {"/", "\\", "NUL", "."} BY ServiceAssumption
<1>3. ASSUME NEW i \in 1..n PROVE i \in {1, 2, 3, 4, 5, 6, 7} \/ i \in 8..n BY <1>1
<1>4. ~Has(k, "\\") /\ ~Has(k, "NUL")
  <2>1. ASSUME NEW i \in 1..n PROVE k[i] # "\\" /\ k[i] # "NUL"
    BY <1>1, <1>2, <1>3 DEF Separators
  <2> QED BY <1>1, <2>1 DEF Has
<1>5. ASSUME NEW i \in cuts \ {n + 1} PROVE i \in {0, 2, 4, 6}
  BY <1>1, <1>2, <1>3 DEF Separators
<1>6. ASSUME NEW i \in {0, 2, 4, 6}
      PROVE  SubSeq(k, i + 1, Min({j \in cuts : j > i}) - 1) \notin {<<>>, <<".">>, <<".", ".">>}
  <2> DEFINE later == {j \in cuts : j > i}
             m == Min(later)
             part == SubSeq(k, i + 1, m - 1)
  <2>1. later \in SUBSET Nat /\ n + 1 \in later BY <1>1
  <2>2. m \in later /\ m <= n + 1
    <3>1. m \in later /\ \A j \in later : m <= j
      <4> HIDE DEF later
      <4> QED BY <2>1, MinExists
    <3> HIDE DEF m
    <3> QED BY <2>1, <3>1
  <2>3. i + 1 \notin cuts
    <3>1. i + 1 \in {1, 3, 5, 7} /\ i + 1 # 0 /\ i + 1 # n + 1 BY <1>1
    <3>2. k[i + 1] # "/" BY <1>1, <1>2, <3>1
    <3> QED BY <3>1, <3>2
  <2>4. m \in Nat /\ m > i + 1
    <3>1. m \in Nat /\ m > i /\ m # i + 1 BY <2>1, <2>2, <2>3
    <3> HIDE DEF m
    <3> QED BY <3>1
  <2>5. k[i + 1] # "." BY <1>1, <1>2
  <2> HIDE DEF m
  <2>6. PICK S : k \in Seq(S) BY <1>1
  <2>7. i + 1 \in Nat /\ m - 1 \in Nat /\ 1 <= i + 1 /\ i + 1 <= m - 1 /\ m - 1 <= n BY <1>1, <2>2, <2>4
  <2>8. \A j \in (i + 1)..(m - 1) : k[j] \in S
    <3>1. \A j \in 1..n : k[j] \in S BY <1>1, <2>6
    <3> QED BY <1>1, <2>7, <3>1
  <2>9. /\ part \in Seq(S) /\ Len(part) = (m - 1) - (i + 1) + 1
        /\ \A j \in 1..((m - 1) - (i + 1) + 1) : part[j] = k[(i + 1) + j - 1]
    BY <2>7, <2>8, SubSeqProperties
  <2> HIDE DEF part
  <2>10. part[1] = k[i + 1]
    <3>1. 1 \in 1..((m - 1) - (i + 1) + 1) /\ (i + 1) + 1 - 1 = i + 1 BY <2>7
    <3> QED BY <2>9, <3>1
  <2>11. part # <<>> BY <2>7, <2>9
  <2>12. part # <<".">> /\ part # <<".", ".">> BY <2>5, <2>10
  <2> QED BY <2>11, <2>12 DEF part, m
<1>7. Components(k) \cap {<<>>, <<".">>, <<".", ".">>} = {}
  BY <1>5, <1>6 DEF Components
<1> QED BY <1>4, <1>7 DEF validate_blob_key, k

\* What the calls return; "exists" is an answer to conditional writes only,
\* which the service never makes.
ResultsOK == result \in [Calls -> Results] /\ ans \in [Calls -> Results]

\* A call made is refused for its range, or not at all.
LEMMA InvokeResults ==
  ASSUME ResultsOK, NEW c \in Calls, PutObject(c) \/ ByLocator(c) \/ GetRange(c)
  PROVE  ResultsOK'
<1> USE DEF Return, Goto
<1>1. ASSUME NEW kind, NEW key, Ask(c, kind, key) PROVE result' = result /\ ans' = ans
  BY <1>1 DEF Ask, B!Invoke
<1>2. CASE PutObject(c)
  <2>1. PICK name \in FileNames \cup {None} :
          IF validate_blob_key(NewKey(c, name)) THEN Ask(c, "put", NewKey(c, name)) ELSE Refuse(c, "invalid")
    BY <1>2 DEF PutObject
  <2>2. Ask(c, "put", NewKey(c, name)) BY <2>1, KeysValid
  <2> QED BY <1>1, <2>2 DEF ResultsOK
<1>3. CASE ByLocator(c)
  <2>1. PICK kind, key : Ask(c, kind, key) BY <1>3 DEF ByLocator
  <2> QED BY <1>1, <2>1 DEF ResultsOK
<1>4. CASE GetRange(c)
  <2>1. PICK kind, key : Refuse(c, "precondition") \/ Ask(c, kind, key) BY <1>4 DEF GetRange
  <2>2. CASE Ask(c, kind, key) BY <1>1, <2>2 DEF ResultsOK
  <2>3. CASE Refuse(c, "precondition") BY <2>3 DEF ResultsOK, Refuse, backend, Results
  <2> QED BY <2>1, <2>2, <2>3
<1> QED BY <1>2, <1>3, <1>4

\* Every step keeps the types of results and answers.
LEMMA NextResults ==
  ASSUME LInv, ResultsOK, [Next]_vars
  PROVE  ResultsOK'
<1> USE DEF Return, Goto
<1>1. ASSUME NEW c \in Calls, PutObject(c) \/ ByLocator(c) \/ GetRange(c) PROVE ResultsOK'
  BY <1>1, InvokeResults
<1>2. ASSUME NEW c \in Calls, Backend(c) PROVE ResultsOK'
  <2>1. result' = result /\ pc[c] = "backend" BY <1>2 DEF Backend
  <2>2. CASE B!Look(c) BY <2>1, <2>2 DEF B!Look, ResultsOK
  <2>3. CASE B!Answer(c)
    <3>1. PICK a \in {"ok", "exists", "missing", "precondition", "io"} :
            ans' = [ans EXCEPT ![c] = a] /\ (a = "exists" => req[c].kind = "create")
      BY <2>3 DEF B!Answer, B!Kind
    <3>2. req[c] \in BackendRequests BY <2>1 DEF LInv, Types, Asked
    <3>3. req[c].kind # "create" BY <3>2 DEF BackendRequests
    <3>4. a \in Results BY <3>1, <3>3 DEF Results
    <3> QED BY <2>1, <3>1, <3>4 DEF ResultsOK
  <2> QED BY <1>2, <2>2, <2>3 DEF Backend
<1>3. ASSUME NEW c \in Calls, Answered(c) PROVE ResultsOK'
  <2>1. ans' = ans /\ (result' = result \/ result' = [result EXCEPT ![c] = ans[c]])
    BY <1>3 DEF Answered, Stored, OpenStream, backend
  <2> QED BY <2>1 DEF ResultsOK
<1>4. ASSUME NEW c \in Calls, EndOfStream(c) \/ StreamFails(c) \/ Interrupt(c) PROVE ResultsOK'
  <2>1. ans' = ans /\ \E r \in {"ok", "io", "dropped"} : result' = [result EXCEPT ![c] = r]
    BY <1>4 DEF EndOfStream, StreamFails, Interrupt, backend
  <2> QED BY <2>1 DEF ResultsOK, Results
<1>5. ASSUME NEW c \in Calls, BackendLate(c) \/ NextChunk(c) PROVE ResultsOK'
  BY <1>5 DEF BackendLate, B!Land, NextChunk, backend, ResultsOK
<1>6. ASSUME Sweep \/ UNCHANGED vars PROVE ResultsOK'
  BY <1>6 DEF Sweep, vars, backend, ResultsOK
<1> QED BY <1>1, <1>2, <1>3, <1>4, <1>5, <1>6 DEF Next, Step, Quiescent

\* Every variable of the service keeps its type, and no put is ever refused
\* for its key, whatever the name of the file that is stored.
THEOREM TypeCorrect == Spec => []TypeOK
<1>1. Init => RInv /\ ResultsOK
  BY InitRInv DEF Init, B!AbsInit, ResultsOK, Results
<1>2. RInv /\ ResultsOK /\ [Next]_vars => (RInv /\ ResultsOK)'
  BY NextRInv, NextResults DEF RInv
<1>3. RInv /\ ResultsOK => TypeOK
  BY DEF RInv, LInv, Types, Readers, StreamTypes, ResultsOK, TypeOK
<1> QED BY <1>1, <1>2, <1>3, PTL DEF Spec
=============================================================================
