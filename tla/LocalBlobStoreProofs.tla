------------------------ MODULE LocalBlobStoreProofs ------------------------
(***************************************************************************)
(* Proofs about LocalBlobStore, for any set of calls, keys, body lengths   *)
(* and ranges.                                                             *)
(***************************************************************************)
EXTENDS LocalBlobStore, TLAPS

Undecided == {"idle", "prepare", "create", "write", "publish", "open", "stat",
              "stream", "single", "readdir", "scan", "unlink"}

\* What the program counter of a call says of its request, its result and the
\* file it has open.
CallOK(c) ==
  /\ pc[c] = "idle" => op[c] = None
  /\ pc[c] # "idle" => op[c] \in Requests
  /\ pc[c] \in {"prepare", "create", "write", "publish", "cleanup"} => Kind(c) \in Writers
  /\ pc[c] = "open" => Kind(c) \in Readers \cup {"copy"}
  /\ pc[c] \in {"stat", "stream"} => Kind(c) \in Readers
  /\ pc[c] = "single" => Kind(c) \in {"head", "delete"}
  /\ pc[c] \in {"readdir", "scan", "unlink"} => Kind(c) = "sweep"
  /\ pc[c] \in Undecided => res[c] = "none"
  /\ pc[c] \in {"idle", "prepare", "open"} => handle[c] = None
  /\ pc[c] \in {"create", "write", "publish"} /\ Kind(c) = "copy" => handle[c] \in Calls
  /\ pc[c] \in {"stat", "stream"} => handle[c] \in Calls
  /\ pc[c] = "unlink" => target[c] \in Calls \cup UploadingKeys

\* A file that a key names or that someone has open.
Frozen(i) == Linked(i) \/ \E c \in Calls : handle[c] = i

\* A file that holds the whole of the body of a put_blob or
\* put_blob_if_not_exists call.
Ready(i) ==
  /\ content[i].body \in Calls
  /\ op[content[i].body] \in Requests
  /\ Kind(content[i].body) \in {"put", "create"}
  /\ content[i].len = op[content[i].body].size

FileOK(i) ==
  /\ pc[i] \in {"write", "publish"} => content[i].body = Source(i).body
  /\ pc[i] = "publish" => content[i].len = Source(i).len
  /\ Frozen(i) => Ready(i) /\ res[i] = "ok" /\ op[i] \in Requests /\ Kind(i) \in Writers
  /\ i \in temps => pc[i] \in {"write", "publish", "cleanup", "dropped", "done"}
                    /\ (pc[i] = "done" => i \in leaked)

IInv == TypeOK /\ (\A c \in Calls : CallOK(c)) /\ (\A i \in Calls : FileOK(i))

-----------------------------------------------------------------------------
\* The fields that each kind of request has.
LEMMA RequestShape ==
  ASSUME NEW r \in Requests
  PROVE  /\ r.kind \in {"put", "create", "get", "head", "delete", "range", "copy", "sweep"}
         /\ r.kind \in {"put", "create"} => r.key \in Keys /\ r.size \in Nat
         /\ r.kind \in {"get", "head", "delete", "range", "copy"} => r.key \in Keys
         /\ r.kind = "range" => r.range \in Nat \X Nat
         /\ r.kind = "copy" => r.from \in Keys
         /\ r # None
BY ConstantsAssumption DEF Requests

\* An empty tree and calls not yet made satisfy the inductive invariant.
LEMMA InitIInv == Init => IInv
BY ConstantsAssumption
   DEF Init, IInv, TypeOK, CallOK, FileOK, Frozen, Linked, Labels, Results,
       Undecided, Requests

\* Every step preserves the inductive invariant: one case per file-system
\* call, and in each the types, the callers and the files.
LEMMA NextIInv == IInv /\ [Next]_vars => IInv'
<1> SUFFICES ASSUME IInv, [Next]_vars PROVE IInv'
  OBVIOUS
<1> USE ConstantsAssumption, RequestShape
    DEF Kind, Writers, Readers, Goto, Decide, Return, CleanUp
<1>1. ASSUME NEW c \in Calls, Invoke(c) PROVE IInv'
  <2>1. TypeOK'
    BY <1>1 DEF IInv, TypeOK, Labels, Results, CallOK, Invoke, FirstStep
  <2>2. ASSUME NEW d \in Calls PROVE CallOK(d)'
    BY <1>1 DEF IInv, TypeOK, CallOK, Undecided, Invoke, FirstStep
  <2>3. ASSUME NEW i \in Calls PROVE FileOK(i)'
    BY <1>1 DEF IInv, TypeOK, CallOK, FileOK, Frozen, Linked, Ready, Undecided,
           Invoke, FirstStep, Source
  <2>4. QED
    BY <2>1, <2>2, <2>3 DEF IInv
<1>2. ASSUME NEW c \in Calls, Prepare(c) PROVE IInv'
  <2>1. TypeOK'
    <3>1. pc' \in [Calls -> Labels] /\ res' \in [Calls -> Results]
      BY <1>2 DEF IInv, TypeOK, Labels, Results, Prepare
    <3>2. QED
      BY <1>2, <3>1 DEF IInv, TypeOK, Prepare
  <2>2. ASSUME NEW d \in Calls PROVE CallOK(d)'
    BY <1>2 DEF IInv, TypeOK, CallOK, Undecided, Prepare
  <2>3. ASSUME NEW i \in Calls PROVE FileOK(i)'
    BY <1>2 DEF IInv, TypeOK, CallOK, FileOK, Frozen, Linked, Ready, Undecided,
           Prepare, Source
  <2>4. QED
    BY <2>1, <2>2, <2>3 DEF IInv
<1>3. ASSUME NEW c \in Calls, CreateTemp(c) PROVE IInv'
  <2>1. TypeOK'
    BY <1>3 DEF IInv, TypeOK, Labels, Results, CallOK, CreateTemp, Source
  <2>2. ASSUME NEW d \in Calls PROVE CallOK(d)'
    BY <1>3 DEF IInv, TypeOK, CallOK, Undecided, CreateTemp, Source
  <2>3. ASSUME NEW i \in Calls PROVE FileOK(i)'
    BY <1>3 DEF IInv, TypeOK, CallOK, FileOK, Frozen, Linked, Ready, Undecided,
           CreateTemp, Source
  <2>4. QED
    BY <2>1, <2>2, <2>3 DEF IInv
<1>4. ASSUME NEW c \in Calls, WriteChunk(c) PROVE IInv'
  <2>1. TypeOK'
    BY <1>4 DEF IInv, TypeOK, Labels, Results, CallOK, WriteChunk, Source
  <2>2. ASSUME NEW d \in Calls PROVE CallOK(d)'
    BY <1>4 DEF IInv, TypeOK, CallOK, Undecided, WriteChunk, Source
  <2>3. ASSUME NEW i \in Calls PROVE FileOK(i)'
    BY <1>4 DEF IInv, TypeOK, CallOK, FileOK, Frozen, Linked, Ready, Undecided,
           WriteChunk, Source
  <2>4. QED
    BY <2>1, <2>2, <2>3 DEF IInv
<1>5. ASSUME NEW c \in Calls, EndWrite(c) PROVE IInv'
  <2>1. TypeOK'
    BY <1>5 DEF IInv, TypeOK, Labels, Results, CallOK, EndWrite, Source
  <2>2. ASSUME NEW d \in Calls PROVE CallOK(d)'
    BY <1>5 DEF IInv, TypeOK, CallOK, Undecided, EndWrite, Source
  <2>3. ASSUME NEW i \in Calls PROVE FileOK(i)'
    BY <1>5 DEF IInv, TypeOK, CallOK, FileOK, Frozen, Linked, Ready, Undecided,
           EndWrite, Source
  <2>4. QED
    BY <2>1, <2>2, <2>3 DEF IInv
<1>6. ASSUME NEW c \in Calls, Rename(c) PROVE IInv'
  <2>1. TypeOK'
    <3>1. op[c].key \in Keys
      BY <1>6 DEF IInv, CallOK, Rename
    <3>2. names' \in [Keys -> Calls \cup {None}]
      BY <1>6, <3>1 DEF IInv, TypeOK, Rename
    <3>3. pc' \in [Calls -> Labels] /\ res' \in [Calls -> Results]
      BY <1>6 DEF IInv, TypeOK, Labels, Results, Rename
    <3>4. QED
      BY <1>6, <3>2, <3>3 DEF IInv, TypeOK, Rename
  <2>2. ASSUME NEW d \in Calls PROVE CallOK(d)'
    BY <1>6 DEF IInv, TypeOK, CallOK, Undecided, Rename
  <2>3. ASSUME NEW i \in Calls PROVE FileOK(i)'
    BY <1>6 DEF IInv, TypeOK, CallOK, FileOK, Frozen, Linked, Ready, Undecided,
           Rename, Source
  <2>4. QED
    BY <2>1, <2>2, <2>3 DEF IInv
<1>7. ASSUME NEW c \in Calls, HardLink(c) PROVE IInv'
  <2>1. TypeOK'
    <3>1. op[c].key \in Keys
      BY <1>7 DEF IInv, CallOK, HardLink
    <3>2. pc' \in [Calls -> Labels] /\ res' \in [Calls -> Results]
      <4>1. PICK r \in {"ok", "exists", "io"} :
              pc' = [pc EXCEPT ![c] = "cleanup"] /\ res' = [res EXCEPT ![c] = r]
        BY <1>7 DEF HardLink
      <4>2. "cleanup" \in Labels /\ r \in Results
        BY DEF Labels, Results
      <4>3. QED
        BY <4>1, <4>2 DEF IInv, TypeOK
    <3>3. names' \in [Keys -> Calls \cup {None}]
      BY <1>7, <3>1 DEF IInv, TypeOK, HardLink
    <3>4. QED
      BY <1>7, <3>2, <3>3 DEF IInv, TypeOK, HardLink
  <2>2. ASSUME NEW d \in Calls PROVE CallOK(d)'
    BY <1>7 DEF IInv, TypeOK, CallOK, Undecided, HardLink
  <2>3. ASSUME NEW i \in Calls PROVE FileOK(i)'
    BY <1>7 DEF IInv, TypeOK, CallOK, FileOK, Frozen, Linked, Ready, Undecided,
           HardLink, Source
  <2>4. QED
    BY <2>1, <2>2, <2>3 DEF IInv
<1>8. ASSUME NEW c \in Calls, WriteFails(c) PROVE IInv'
  <2>1. TypeOK'
    BY <1>8 DEF IInv, TypeOK, Labels, Results, CallOK, WriteFails
  <2>2. ASSUME NEW d \in Calls PROVE CallOK(d)'
    BY <1>8 DEF IInv, TypeOK, CallOK, Undecided, WriteFails
  <2>3. ASSUME NEW i \in Calls PROVE FileOK(i)'
    BY <1>8 DEF IInv, TypeOK, CallOK, FileOK, Frozen, Linked, Ready, Undecided,
           WriteFails, Source
  <2>4. QED
    BY <2>1, <2>2, <2>3 DEF IInv
<1>9. ASSUME NEW c \in Calls, RemoveTemp(c) PROVE IInv'
  <2>1. TypeOK'
    BY <1>9 DEF IInv, TypeOK, Labels, Results, CallOK, RemoveTemp
  <2>2. ASSUME NEW d \in Calls PROVE CallOK(d)'
    BY <1>9 DEF IInv, TypeOK, CallOK, Undecided, RemoveTemp
  <2>3. ASSUME NEW i \in Calls PROVE FileOK(i)'
    BY <1>9 DEF IInv, TypeOK, CallOK, FileOK, Frozen, Linked, Ready, Undecided,
           RemoveTemp, Source
  <2>4. QED
    BY <2>1, <2>2, <2>3 DEF IInv
<1>10. ASSUME NEW c \in Calls, OpenFile(c) PROVE IInv'
  <2>1. TypeOK'
    <3>1. SourceKey(c) \in Keys /\ Bounds(c)[1] \in Nat
      BY <1>10 DEF IInv, CallOK, OpenFile, SourceKey, Bounds
    <3>2. handle' \in [Calls -> Calls \cup {None}] /\ pos' \in [Calls -> Nat]
      BY <1>10, <3>1 DEF IInv, TypeOK, OpenFile
    <3>3. pc' \in [Calls -> Labels]
      BY <1>10 DEF IInv, TypeOK, Labels, OpenFile, OpenFails
    <3>4. res' \in [Calls -> Results]
      BY <1>10 DEF IInv, TypeOK, Results, OpenFile, OpenFails
    <3>5. QED
      BY <1>10, <3>2, <3>3, <3>4 DEF IInv, TypeOK, OpenFile
  <2>2. ASSUME NEW d \in Calls PROVE CallOK(d)'
    BY <1>10 DEF IInv, TypeOK, CallOK, Undecided, OpenFile, OpenFails,
           SourceKey, Bounds, Inverted
  <2>3. ASSUME NEW i \in Calls PROVE FileOK(i)'
    BY <1>10 DEF IInv, TypeOK, CallOK, FileOK, Frozen, Linked, Ready,
           Undecided, OpenFile, OpenFails, SourceKey, Bounds, Inverted, Source
  <2>4. QED
    BY <2>1, <2>2, <2>3 DEF IInv
<1>11. ASSUME NEW c \in Calls, Stat(c) PROVE IInv'
  <2>1. TypeOK'
    <3>1. op[c].key \in Keys
      BY <1>11 DEF IInv, CallOK, Stat
    <3>2. pc' \in [Calls -> Labels] /\ res' \in [Calls -> Results]
      BY <1>11 DEF IInv, TypeOK, Labels, Results, Stat
    <3>3. meta' \in [Calls -> Calls \cup {None}]
      BY <1>11, <3>1 DEF IInv, TypeOK, Stat
    <3>4. QED
      BY <1>11, <3>2, <3>3 DEF IInv, TypeOK, Stat
  <2>2. ASSUME NEW d \in Calls PROVE CallOK(d)'
    BY <1>11 DEF IInv, TypeOK, CallOK, Undecided, Stat
  <2>3. ASSUME NEW i \in Calls PROVE FileOK(i)'
    BY <1>11 DEF IInv, TypeOK, CallOK, FileOK, Frozen, Linked, Ready,
           Undecided, Stat, Source
  <2>4. QED
    BY <2>1, <2>2, <2>3 DEF IInv
<1>12. ASSUME NEW c \in Calls, ReadChunk(c) PROVE IInv'
  <2>1. TypeOK'
    BY <1>12 DEF IInv, TypeOK, Labels, Results, CallOK, ReadChunk
  <2>2. ASSUME NEW d \in Calls PROVE CallOK(d)'
    BY <1>12 DEF IInv, TypeOK, CallOK, Undecided, ReadChunk
  <2>3. ASSUME NEW i \in Calls PROVE FileOK(i)'
    BY <1>12 DEF IInv, TypeOK, CallOK, FileOK, Frozen, Linked, Ready,
           Undecided, ReadChunk, Source
  <2>4. QED
    BY <2>1, <2>2, <2>3 DEF IInv
<1>13. ASSUME NEW c \in Calls, HeadBlob(c) PROVE IInv'
  <2>1. TypeOK'
    <3>1. op[c].key \in Keys
      BY <1>13 DEF IInv, CallOK, HeadBlob
    <3>2. pc' \in [Calls -> Labels] /\ res' \in [Calls -> Results]
      BY <1>13 DEF IInv, TypeOK, Labels, Results, HeadBlob
    <3>3. meta' \in [Calls -> Calls \cup {None}]
      BY <1>13, <3>1 DEF IInv, TypeOK, HeadBlob
    <3>4. QED
      BY <1>13, <3>2, <3>3 DEF IInv, TypeOK, HeadBlob
  <2>2. ASSUME NEW d \in Calls PROVE CallOK(d)'
    BY <1>13 DEF IInv, TypeOK, CallOK, Undecided, HeadBlob
  <2>3. ASSUME NEW i \in Calls PROVE FileOK(i)'
    BY <1>13 DEF IInv, TypeOK, CallOK, FileOK, Frozen, Linked, Ready,
           Undecided, HeadBlob, Source
  <2>4. QED
    BY <2>1, <2>2, <2>3 DEF IInv
<1>14. ASSUME NEW c \in Calls, DeleteBlob(c) PROVE IInv'
  <2>1. TypeOK'
    <3>1. op[c].key \in Keys
      BY <1>14 DEF IInv, CallOK, DeleteBlob
    <3>2. names' \in [Keys -> Calls \cup {None}]
      BY <1>14, <3>1 DEF IInv, TypeOK, DeleteBlob
    <3>3. pc' \in [Calls -> Labels] /\ res' \in [Calls -> Results]
      <4>1. PICK r \in {"ok", "io"} :
              pc' = [pc EXCEPT ![c] = "done"] /\ res' = [res EXCEPT ![c] = r]
        BY <1>14 DEF DeleteBlob
      <4>2. "done" \in Labels /\ r \in Results
        BY DEF Labels, Results
      <4>3. QED
        BY <4>1, <4>2 DEF IInv, TypeOK
    <3>4. QED
      BY <1>14, <3>2, <3>3 DEF IInv, TypeOK, DeleteBlob
  <2>2. ASSUME NEW d \in Calls PROVE CallOK(d)'
    BY <1>14 DEF IInv, TypeOK, CallOK, Undecided, DeleteBlob
  <2>3. ASSUME NEW i \in Calls PROVE FileOK(i)'
    BY <1>14 DEF IInv, TypeOK, CallOK, FileOK, Frozen, Linked, Ready,
           Undecided, DeleteBlob, Source
  <2>4. QED
    BY <2>1, <2>2, <2>3 DEF IInv
<1>15. ASSUME NEW c \in Calls, SweepList(c) PROVE IInv'
  <2>1. TypeOK'
    <3> DEFINE listed == {e \in Calls \cup UploadingKeys : Exists(e)}
    <3>1. listed \in SUBSET (Calls \cup UploadingKeys)
      OBVIOUS
    <3>2. todo' = todo \/ todo' = [todo EXCEPT ![c] = listed]
      BY <1>15 DEF SweepList
    <3> HIDE DEF listed
    <3>3. todo' \in [Calls -> SUBSET (Calls \cup UploadingKeys)]
      BY <3>1, <3>2 DEF IInv, TypeOK
    <3>4. pc' \in [Calls -> Labels] /\ res' \in [Calls -> Results]
      BY <1>15 DEF IInv, TypeOK, Labels, Results, SweepList
    <3>5. QED
      BY <1>15, <3>3, <3>4 DEF IInv, TypeOK, SweepList
  <2>2. ASSUME NEW d \in Calls PROVE CallOK(d)'
    BY <1>15 DEF IInv, TypeOK, CallOK, Undecided, SweepList
  <2>3. ASSUME NEW i \in Calls PROVE FileOK(i)'
    BY <1>15 DEF IInv, TypeOK, CallOK, FileOK, Frozen, Linked, Ready,
           Undecided, SweepList, Source
  <2>4. QED
    BY <2>1, <2>2, <2>3 DEF IInv
<1>16. ASSUME NEW c \in Calls, SweepStat(c) PROVE IInv'
  <2>1. TypeOK'
    <3>1. pc' \in [Calls -> Labels] /\ res' \in [Calls -> Results]
      BY <1>16 DEF IInv, TypeOK, Labels, Results, SweepStat
    <3>2. PICK e \in todo[c] :
            /\ todo' = [todo EXCEPT ![c] = @ \ {e}]
            /\ target' \in {target, [target EXCEPT ![c] = e]}
      BY <1>16 DEF SweepStat
    <3>3. e \in Calls \cup UploadingKeys
      BY <3>2 DEF IInv, TypeOK
    <3>4. /\ todo' \in [Calls -> SUBSET (Calls \cup UploadingKeys)]
          /\ target' \in [Calls -> Calls \cup UploadingKeys \cup {None}]
      BY <3>2, <3>3 DEF IInv, TypeOK
    <3>5. QED
      BY <1>16, <3>1, <3>4 DEF IInv, TypeOK, SweepStat
  <2>2. ASSUME NEW d \in Calls PROVE CallOK(d)'
    BY <1>16 DEF IInv, TypeOK, CallOK, Undecided, SweepStat, Exists
  <2>3. ASSUME NEW i \in Calls PROVE FileOK(i)'
    BY <1>16 DEF IInv, TypeOK, CallOK, FileOK, Frozen, Linked, Ready,
           Undecided, SweepStat, Exists, Source
  <2>4. QED
    BY <2>1, <2>2, <2>3 DEF IInv
<1>17. ASSUME NEW c \in Calls, SweepRemove(c) PROVE IInv'
  <2>1. TypeOK'
    BY <1>17 DEF IInv, TypeOK, Labels, Results, CallOK, SweepRemove, Exists
  <2>2. ASSUME NEW d \in Calls PROVE CallOK(d)'
    BY <1>17 DEF IInv, TypeOK, CallOK, Undecided, SweepRemove, Exists
  <2>3. ASSUME NEW i \in Calls PROVE FileOK(i)'
    BY <1>17 DEF IInv, TypeOK, CallOK, FileOK, Frozen, Linked, Ready,
           Undecided, SweepRemove, Exists, Source
  <2>4. QED
    BY <2>1, <2>2, <2>3 DEF IInv
<1>18. ASSUME NEW c \in Calls, SweepEnd(c) PROVE IInv'
  <2>1. TypeOK'
    BY <1>18 DEF IInv, TypeOK, Labels, Results, CallOK, SweepEnd
  <2>2. ASSUME NEW d \in Calls PROVE CallOK(d)'
    BY <1>18 DEF IInv, TypeOK, CallOK, Undecided, SweepEnd
  <2>3. ASSUME NEW i \in Calls PROVE FileOK(i)'
    BY <1>18 DEF IInv, TypeOK, CallOK, FileOK, Frozen, Linked, Ready,
           Undecided, SweepEnd, Source
  <2>4. QED
    BY <2>1, <2>2, <2>3 DEF IInv
<1>19. ASSUME NEW c \in Calls, Interrupt(c) PROVE IInv'
  <2>1. TypeOK'
    BY <1>19 DEF IInv, TypeOK, Labels, Results, CallOK, Interrupt, Running
  <2>2. ASSUME NEW d \in Calls PROVE CallOK(d)'
    BY <1>19 DEF IInv, TypeOK, CallOK, Undecided, Interrupt, Running
  <2>3. ASSUME NEW i \in Calls PROVE FileOK(i)'
    BY <1>19 DEF IInv, TypeOK, CallOK, FileOK, Frozen, Linked, Ready,
           Undecided, Interrupt, Running, Source
  <2>4. QED
    BY <2>1, <2>2, <2>3 DEF IInv
<1>20. CASE UNCHANGED vars
  BY <1>20 DEF IInv, TypeOK, CallOK, FileOK, Frozen, Linked, Ready, Source, vars
<1>21. QED
  BY <1>1, <1>2, <1>3, <1>4, <1>5, <1>6, <1>7, <1>8, <1>9, <1>10, <1>11, <1>12,
         <1>13, <1>14, <1>15, <1>16, <1>17, <1>18, <1>19, <1>20 DEF Next, Step,
         Quiescent

\* The inductive invariant holds throughout.
THEOREM Invariance == Spec => []IInv
BY InitIInv, NextIInv, PTL DEF Spec

\* Type correctness of the local blob store, for any calls and keys.
THEOREM TypeCorrect == Spec => []TypeOK
BY Invariance, PTL DEF IInv

\* Readers, listings and copies never meet a partially written blob: put_blob,
\* put_blob_if_not_exists and copy_blob publish whole bodies only.
THEOREM CompleteVisible == Spec => []OnlyCompleteVisible
<1>1. IInv => OnlyCompleteVisible
  BY DEF IInv, TypeOK, FileOK, Frozen, Linked, Ready, OnlyCompleteVisible, Complete
<1>2. QED
  BY <1>1, Invariance, PTL

\* A local write that returns an error or Ok(None) has published nothing.
THEOREM ErrorsUnpublished == Spec => []ErrorMeansUnpublished
<1>1. IInv => ErrorMeansUnpublished
  BY DEF IInv, FileOK, Frozen, ErrorMeansUnpublished
<1>2. QED
  BY <1>1, Invariance, PTL

\* No return path of a local write forgets its temporary file.
THEOREM TempsNotForgotten == Spec => []TempsAccounted
<1>1. IInv => TempsAccounted
  BY DEF IInv, TypeOK, FileOK, TempsAccounted, Running
<1>2. QED
  BY <1>1, Invariance, PTL

-----------------------------------------------------------------------------
\* Only the call that is writing a file changes it, and it has not decided.
LEMMA FrozenStep ==
  ASSUME IInv, [Next]_vars, NEW i \in Calls, Frozen(i)
  PROVE  content'[i] = content[i]
<1>1. res[i] = "ok"
  BY DEF IInv, FileOK
<1>2. ASSUME NEW c \in Calls, CreateTemp(c) \/ WriteChunk(c)
      PROVE  content'[i] = content[i]
  BY <1>1, <1>2 DEF IInv, TypeOK, CallOK, Undecided, CreateTemp, WriteChunk
<1>3. content' = content \/ \E c \in Calls : CreateTemp(c) \/ WriteChunk(c)
  BY DEF Next, Step, Quiescent, vars, Invoke, Prepare, EndWrite, Rename, HardLink,
         WriteFails, RemoveTemp, OpenFile, Stat, ReadChunk, HeadBlob, DeleteBlob,
         SweepList, SweepStat, SweepRemove, SweepEnd, Interrupt
<1>4. QED
  BY <1>2, <1>3

\* Once a key names it or a reader has it open, a local file never changes.
THEOREM Immutable == Spec => PublishedImmutable
<1>1. IInv /\ [Next]_vars =>
        [\A i \in Calls : Linked(i) \/ (\E c \in Calls : handle[c] = i)
                            => content'[i] = content[i]]_vars
  BY FrozenStep DEF Frozen
<1>2. QED
  BY <1>1, Invariance, PTL DEF Spec, PublishedImmutable

\* A key loses its blob only to a successful put_blob, copy_blob or
\* delete_blob of that very key, or to a sweep of an ".uploading" key.
THEOREM NothingLost == Spec => BlobsAreNotLost
<1> DEFINE Lost(k) ==
      names[k] # None /\ names'[k] # names[k] =>
         \/ k \in UploadingKeys
         \/ \E c \in Calls :
              /\ res[c] = "none" /\ res'[c] = "ok" /\ op[c].key = k
              /\ Kind(c) \in (IF names'[k] = None THEN {"delete"}
                                                  ELSE {"put", "copy"})
<1>1. ASSUME IInv, [Next]_vars, NEW k \in Keys PROVE Lost(k)
  <2> USE <1>1, ConstantsAssumption, RequestShape
  <2>1. ASSUME NEW c \in Calls, Rename(c) PROVE Lost(k)
    BY <2>1 DEF IInv, TypeOK, CallOK, Undecided, Rename, Return, Goto, Decide, Kind, CleanUp
  <2>2. ASSUME NEW c \in Calls, HardLink(c) PROVE Lost(k)
    BY <2>2 DEF IInv, TypeOK, CallOK, HardLink, Kind, Writers
  <2>3. ASSUME NEW c \in Calls, DeleteBlob(c) PROVE Lost(k)
    BY <2>3 DEF IInv, TypeOK, CallOK, Undecided, DeleteBlob, Return, Goto, Decide, Kind
  <2>4. ASSUME NEW c \in Calls, SweepRemove(c) PROVE Lost(k)
    BY <2>4 DEF IInv, TypeOK, CallOK, SweepRemove
  <2>5. CASE names' = names
    BY <2>5
  <2>6. QED
    BY <2>1, <2>2, <2>3, <2>4, <2>5
       DEF Next, Step, Quiescent, vars, Invoke, Prepare, CreateTemp, WriteChunk,
           EndWrite, WriteFails, RemoveTemp, OpenFile, Stat, ReadChunk, HeadBlob,
           SweepList, SweepStat, SweepEnd, Interrupt
<1>2. IInv /\ [Next]_vars => [\A k \in Keys : Lost(k)]_vars
  BY <1>1
<1>3. QED
  BY <1>2, Invariance, PTL DEF Spec, BlobsAreNotLost

-----------------------------------------------------------------------------
(* Readers                                                                  *)

Low(c) == Bounds(c)[1]

\* How far a reader has got in the file it has open, and what the metadata it
\* was given is about.
ReaderOK(c) ==
  /\ Kind(c) \in Readers /\ pc[c] = "stat" => pos[c] = Low(c)
  /\ Kind(c) \in Readers /\ (pc[c] = "stream" \/ (pc[c] = "done" /\ res[c] = "ok")) =>
       /\ handle[c] \in Calls
       /\ pos[c] = Low(c) \/ pos[c] <= Limit(c)
       /\ pos[c] >= Low(c)
       /\ pc[c] = "done" => pos[c] >= Limit(c)
  /\ Kind(c) \in Readers /\ pc[c] \in {"stream", "done"} /\ handle[c] # None
       /\ res[c] # "io" /\ meta[c] # handle[c] => names[op[c].key] # handle[c]

ReaderInv == \A c \in Calls : Kind(c) \in Readers => ReaderOK(c)

\* Whatever other calls do, a reader's file, range and limit stay the same.
LEMMA LimitStable ==
  ASSUME IInv, [Next]_vars, NEW c \in Calls, pc[c] # "idle", handle[c] \in Calls,
         handle'[c] = handle[c]
  PROVE  op'[c] = op[c] /\ Bounds(c)' = Bounds(c) /\ Limit(c)' = Limit(c)
<1>1. content'[handle[c]] = content[handle[c]]
  BY FrozenStep DEF Frozen
<1>2. op'[c] = op[c]
  BY DEF Next, Step, Quiescent, vars, Invoke, Prepare, CreateTemp, WriteChunk,
         EndWrite, Rename, HardLink, WriteFails, RemoveTemp, OpenFile, Stat,
         ReadChunk, HeadBlob, DeleteBlob, SweepList, SweepStat, SweepRemove,
         SweepEnd, Interrupt, IInv, TypeOK
<1>3. QED
  BY <1>1, <1>2 DEF Bounds, Limit, Kind

\* A file is published once: no step gives a name to a file that has, or had,
\* a reader or another name.
LEMMA NoRelink ==
  ASSUME IInv, [Next]_vars, NEW k \in Keys, NEW i \in Calls, Frozen(i), names'[k] = i
  PROVE  names[k] = i
<1>1. res[i] = "ok"
  BY DEF IInv, FileOK
<1>2. ASSUME NEW c \in Calls, Rename(c) \/ HardLink(c) PROVE names[k] = i
  BY <1>1, <1>2 DEF IInv, TypeOK, CallOK, Undecided, Rename, HardLink
<1>3. ASSUME NEW c \in Calls, DeleteBlob(c) \/ SweepRemove(c) PROVE names[k] = i
  BY <1>3, ConstantsAssumption DEF IInv, TypeOK, DeleteBlob, SweepRemove
<1>4. QED
  BY <1>2, <1>3
     DEF Next, Step, Quiescent, vars, Invoke, Prepare, CreateTemp, WriteChunk,
         EndWrite, WriteFails, RemoveTemp, OpenFile, Stat, ReadChunk, HeadBlob,
         SweepList, SweepStat, SweepEnd, Interrupt

\* No reader has a file open initially.
LEMMA InitReaderInv == Init => ReaderInv
BY DEF Init, ReaderInv, ReaderOK

\* Every step preserves what readers have been served so far.
LEMMA NextReaderInv == IInv /\ ReaderInv /\ [Next]_vars => ReaderInv'
<1> SUFFICES ASSUME IInv, ReaderInv, [Next]_vars, NEW d \in Calls, (Kind(d) \in Readers)'
             PROVE  ReaderOK(d)'
  BY DEF ReaderInv
<1> USE ConstantsAssumption, RequestShape DEF Goto, Decide, Return
<1>1. ASSUME NEW c \in Calls, Invoke(c), c = d PROVE ReaderOK(d)'
  BY <1>1 DEF IInv, TypeOK, ReaderOK, Invoke, FirstStep, Kind, Readers, Writers
<1>2. CASE OpenFile(d)
  <2>1. op' = op /\ Kind(d) \in Readers /\ Low(d) \in Nat
    BY <1>2 DEF OpenFile, Kind, IInv, CallOK, Low, Bounds
  <2>2. pc'[d] \in {"done", "stat"} /\ (pc'[d] = "done" => res'[d] # "ok")
    BY <1>2, <2>1 DEF OpenFile, OpenFails, Kind, Readers, IInv, TypeOK
  <2>3. pc'[d] = "stat" => pos'[d] = Low(d)
    BY <1>2, <2>1 DEF OpenFile, OpenFails, Low, Kind, Readers, IInv, TypeOK
  <2>4. pc'[d] = "done" => handle'[d] = None
    BY <1>2, <2>1 DEF OpenFile, OpenFails, Kind, Readers, IInv, TypeOK, CallOK
  <2>5. Low(d)' = Low(d)
    BY <2>1 DEF Low, Bounds, Kind
  <2>6. QED
    BY <2>2, <2>3, <2>4, <2>5 DEF ReaderOK
<1>3. CASE Stat(d)
  <2>1. handle' = handle /\ handle[d] \in Calls /\ pc[d] # "idle" /\ op' = op /\ Kind(d) \in Readers
    BY <1>3 DEF Stat, IInv, CallOK
  <2>2. Limit(d)' = Limit(d) /\ Low(d)' = Low(d)
    BY <2>1, LimitStable DEF Low
  <2>3. pos'[d] = Low(d) /\ Low(d) \in Nat
    BY <1>3, <2>1 DEF Stat, ReaderInv, ReaderOK, Low, Bounds, IInv, CallOK, Kind
  <2>4. pc'[d] \in {"stream", "done"} /\ (pc'[d] = "done" => res'[d] = "io")
    BY <1>3 DEF Stat, IInv, TypeOK
  <2>5. pc'[d] = "stream" => meta'[d] = names'[op'[d].key]
    BY <1>3 DEF Stat, IInv, TypeOK
  <2>6. QED
    BY <2>1, <2>2, <2>3, <2>4, <2>5 DEF ReaderOK
<1>4. CASE ReadChunk(d)
  <2>1. /\ handle' = handle /\ handle[d] \in Calls /\ pc[d] = "stream" /\ op' = op
        /\ Kind(d) \in Readers /\ meta' = meta /\ names' = names
    BY <1>4 DEF ReadChunk, IInv, CallOK
  <2>2. Limit(d)' = Limit(d) /\ Low(d)' = Low(d)
    BY <2>1, LimitStable DEF Low
  <2>3. Limit(d) \in Nat /\ Low(d) \in Nat /\ pos[d] \in Nat
    BY <2>1 DEF Limit, Low, Bounds, IInv, TypeOK, CallOK, Kind
  <2>4. ReaderOK(d)
    BY <2>1 DEF ReaderInv
  <2>5. \/ pos[d] < Limit(d) /\ pos'[d] = pos[d] + 1 /\ pc' = pc /\ res' = res
        \/ pos[d] >= Limit(d) /\ pos' = pos /\ pc'[d] = "done" /\ res'[d] = "ok"
        \/ pos' = pos /\ pc'[d] = "done" /\ res'[d] = "io"
    BY <1>4 DEF ReadChunk, IInv, TypeOK
  <2>6. res[d] = "none"
    BY <2>1 DEF IInv, CallOK, Undecided
  <2>7. QED
    BY <2>1, <2>2, <2>3, <2>4, <2>5, <2>6 DEF ReaderOK
<1>5. CASE Interrupt(d)
  BY <1>5 DEF ReaderOK, Interrupt, IInv, TypeOK
<1>6. CASE /\ op'[d] = op[d] /\ pc'[d] = pc[d] /\ res'[d] = res[d] /\ pos'[d] = pos[d]
           /\ handle'[d] = handle[d] /\ meta'[d] = meta[d]
  <2>1. ReaderOK(d) /\ Kind(d)' = Kind(d) /\ Low(d)' = Low(d)
    BY <1>6 DEF ReaderInv, Kind, Low, Bounds
  <2>2. CASE handle[d] \in Calls /\ pc[d] # "idle"
    <3>1. Limit(d)' = Limit(d)
      BY <1>6, <2>2, LimitStable
    <3>2. op[d].key \in Keys
      BY <1>6, <2>2 DEF IInv, CallOK, Kind, Readers
    <3>3. names'[op[d].key] = handle[d] => names[op[d].key] = handle[d]
      BY <2>2, <3>2, NoRelink DEF Frozen
    <3>4. QED
      BY <1>6, <2>1, <3>1, <3>3 DEF ReaderOK
  <2>3. CASE handle[d] = None \/ pc[d] = "idle"
    BY <1>6, <2>1, <2>3 DEF ReaderOK, IInv, TypeOK
  <2>4. QED
    BY <2>2, <2>3 DEF IInv, TypeOK
<1>7. ASSUME NEW c \in Calls, c # d, Invoke(c) \/ Step(c) \/ Interrupt(c)
      PROVE  ReaderOK(d)'
  <2>1. /\ op'[d] = op[d] /\ pc'[d] = pc[d] /\ res'[d] = res[d] /\ pos'[d] = pos[d]
        /\ handle'[d] = handle[d] /\ meta'[d] = meta[d]
    BY <1>7
       DEF Step, Invoke, Prepare, CreateTemp, WriteChunk, EndWrite, Rename,
           HardLink, WriteFails, RemoveTemp, OpenFile, OpenFails, Stat, ReadChunk,
           HeadBlob, DeleteBlob, SweepList, SweepStat, SweepRemove, SweepEnd,
           Interrupt, CleanUp, IInv, TypeOK
  <2>2. QED
    BY <2>1, <1>6
<1>8. CASE Step(d) /\ ~OpenFile(d) /\ ~Stat(d) /\ ~ReadChunk(d)
  <2>1. pc[d] \notin {"idle", "open", "stat", "stream", "done"} /\ op' = op
    BY <1>8 DEF Step, Prepare, CreateTemp, WriteChunk, EndWrite, Rename,
           HardLink, WriteFails, RemoveTemp, HeadBlob, DeleteBlob, SweepList,
           SweepStat, SweepRemove, SweepEnd
  <2>2. Kind(d) \notin Readers
    BY <1>8, <2>1 DEF IInv, CallOK, Readers, Writers, Step, Prepare, CreateTemp,
           WriteChunk, EndWrite, Rename, HardLink, WriteFails, RemoveTemp, HeadBlob,
           DeleteBlob, SweepList, SweepStat, SweepRemove, SweepEnd, OpenFile
  <2>3. QED
    BY <2>1, <2>2 DEF Kind
<1>9. CASE UNCHANGED vars
  BY <1>6, <1>9 DEF vars
<1>10. QED
  BY <1>1, <1>2, <1>3, <1>4, <1>5, <1>7, <1>8, <1>9 DEF Next, Step, Quiescent

\* The readers' invariant holds throughout.
LEMMA ReaderInvariance == Spec => []ReaderInv
BY InitReaderInv, NextReaderInv, Invariance, PTL DEF Spec

\* A local reader that reaches the end of its stream has been served the
\* bytes of exactly one body, or of the requested part of it.
THEOREM StreamsAreWhole == Spec => []StreamsOneBody
<1>1. ASSUME IInv, ReaderInv, NEW c \in Calls,
             pc[c] = "done", res[c] = "ok", Kind(c) \in Readers
      PROVE  LET size == op[content[handle[c]].body].size
                 lo   == Bounds(c)[1]
                 hi   == IF Kind(c) = "get" \/ Bounds(c)[2] > size THEN size
                                                                   ELSE Bounds(c)[2]
             IN  pos[c] = IF lo > hi THEN lo ELSE hi
  <2>1. /\ handle[c] \in Calls /\ pos[c] >= Limit(c) /\ pos[c] >= Low(c)
        /\ pos[c] = Low(c) \/ pos[c] <= Limit(c)
    BY <1>1 DEF ReaderInv, ReaderOK
  <2>2. Ready(handle[c])
    BY <1>1, <2>1 DEF IInv, FileOK, Frozen
  <2>3. /\ pos[c] \in Nat /\ content[handle[c]].len \in Nat
        /\ Bounds(c)[1] \in Nat /\ Bounds(c)[2] \in Nat
    BY <1>1, <2>1, RequestShape DEF IInv, TypeOK, CallOK, Bounds, Kind
  <2>4. Kind(c) \in {"get", "range"}
    BY <1>1 DEF Readers
  <2>5. QED
    BY <2>1, <2>2, <2>3, <2>4 DEF Limit, Low, Ready
<1>2. IInv /\ ReaderInv => StreamsOneBody
  BY <1>1 DEF StreamsOneBody
<1>3. QED
  BY <1>2, Invariance, ReaderInvariance, PTL

\* get_blob's metadata is of a newer file than its body, never of an older one.
THEOREM StaleBodies == Spec => []StaleBodyIsReplaced
<1>1. ReaderInv => StaleBodyIsReplaced
  BY DEF ReaderInv, ReaderOK, StaleBodyIsReplaced
<1>2. QED
  BY <1>1, ReaderInvariance, PTL

-----------------------------------------------------------------------------
(* Refinement                                                               *)

absStore == [k \in Keys |-> Whole(names[k])]
absSeen == [c \in Calls |-> Whole(handle[c])]

\* A file that can be reached stands for a body, and for the same one after
\* any step.
LEMMA WholeFrozen ==
  ASSUME IInv, NEW i \in Calls, Frozen(i)
  PROVE  Whole(i) = content[i].body /\ Whole(i) \in Calls
BY ConstantsAssumption DEF IInv, FileOK, Ready, Whole, Complete

\* A file that can be reached stands for the same body after any step: its
\* bytes do not change, nor does the request of the call they came from.
LEMMA WholeStable ==
  ASSUME IInv, [Next]_vars, NEW i \in Calls, Frozen(i)
  PROVE  Whole(i)' = Whole(i)
<1>1. content'[i] = content[i]
  BY FrozenStep
<1>2. Ready(i)
  BY DEF IInv, FileOK
<1>3. op'[content[i].body] = op[content[i].body]
  <2>1. pc[content[i].body] # "idle"
    BY <1>2, RequestShape DEF Ready, IInv, CallOK
  <2>2. QED
    BY <1>2, <2>1
       DEF Ready, Next, Step, Quiescent, vars, Invoke, Prepare, CreateTemp,
         WriteChunk, EndWrite, Rename, HardLink, WriteFails, RemoveTemp, OpenFile,
         Stat, ReadChunk, HeadBlob, DeleteBlob, SweepList, SweepStat, SweepRemove,
         SweepEnd, Interrupt, IInv, TypeOK
<1>4. QED
  BY <1>1, <1>3 DEF Whole, Complete

\* The abstract state changes only where a name or an open file does.
LEMMA StoreStable ==
  ASSUME IInv, [Next]_vars, NEW k \in Keys, names'[k] = names[k]
  PROVE  Whole(names[k])' = Whole(names[k])
<1>1. CASE names[k] = None
  BY <1>1 DEF Whole
<1>2. CASE names[k] \in Calls
  BY <1>2, WholeStable DEF Frozen, Linked
<1>3. QED
  BY <1>1, <1>2 DEF IInv, TypeOK

\* ... and so with what readers and copies have looked up.
LEMMA SeenStable ==
  ASSUME IInv, [Next]_vars, NEW c \in Calls, handle'[c] = handle[c]
  PROVE  Whole(handle[c])' = Whole(handle[c])
<1>1. CASE handle[c] = None
  BY <1>1 DEF Whole
<1>2. CASE handle[c] \in Calls
  BY <1>2, WholeStable DEF Frozen
<1>3. QED
  BY <1>1, <1>2 DEF IInv, TypeOK

\* The empty tree stands for the empty map.
LEMMA InitRefines == Init => Abs!AbsInit
BY DEF Init, Abs!AbsInit, Whole

\* Every step of the local store is a step of the abstract one, or invisible.
LEMMA StepRefines ==
  ASSUME UploadingKeys = {}, IInv, [Next]_vars
  PROVE  [Abs!AbsNext]_(Abs!absVars)
<1> USE ConstantsAssumption, RequestShape
<1>1. names' = names => absStore' = absStore
  BY StoreStable DEF absStore
<1>2. handle' = handle => absSeen' = absSeen
  BY SeenStable DEF absSeen
<1>3. ASSUME op' = op, names' = names, handle' = handle, res' = res
      PROVE  UNCHANGED Abs!absVars
  BY <1>1, <1>2, <1>3 DEF Abs!absVars, absStore, absSeen
<1>4. ASSUME NEW c \in Calls, op' = op, names' = names, handle' = handle,
             pc[c] \in Undecided, pc[c] # "idle", res' = [res EXCEPT ![c] = "io"]
      PROVE  Abs!AbsStep(c)
  <2>1. res[c] = "none" /\ op[c] # None
    BY <1>4 DEF IInv, CallOK
  <2>2. Abs!Fail(c)
    BY <1>1, <1>2, <1>4, <2>1 DEF Abs!Fail, Abs!Open, Abs!Answer, absStore, absSeen
  <2>3. QED
    BY <2>2 DEF Abs!AbsStep
<1>5. ASSUME NEW c \in Calls, Invoke(c) PROVE Abs!AbsStep(c)
  <2>1. Abs!Invoke(c)
    BY <1>1, <1>2, <1>5 DEF Invoke, Abs!Invoke, IInv, CallOK, absStore, absSeen
  <2>2. QED
    BY <2>1 DEF Abs!AbsStep
<1>6. ASSUME NEW c \in Calls, Rename(c) PROVE Abs!AbsStep(c)
  <2>1. CASE c \notin temps
    BY <1>4, <1>6, <2>1 DEF Rename, CleanUp, Decide, Undecided
  <2>2. CASE c \in temps
    <3>1. /\ res[c] = "none" /\ op[c] # None /\ op[c].key \in Keys
          /\ Kind(c) = "put" \/ (Kind(c) = "copy" /\ handle[c] \in Calls)
      BY <1>6 DEF Rename, IInv, CallOK, Undecided, Kind, Writers
    <3>2. IInv'
      BY NextIInv
    <3>3. names' = [names EXCEPT ![op[c].key] = c] /\ handle' = handle /\ content' = content
          /\ op' = op /\ res' = [res EXCEPT ![c] = "ok"]
      BY <1>6, <2>2 DEF Rename, Return, Decide
    <3>4. content[c] = [body |-> content[c].body, len |-> content[c].len]
      BY DEF IInv, TypeOK
    <3>5. content[c].body = Source(c).body
      BY <1>6 DEF Rename, IInv, FileOK
    <3>6. Whole(c)' = content[c].body
      <4>1. Frozen(c)'
        BY <3>1, <3>3 DEF Frozen, Linked, IInv, TypeOK
      <4>2. QED
        BY <3>2, <3>3, <4>1 DEF IInv, FileOK, Ready, Whole, Complete
    <3>7. absStore' = [absStore EXCEPT ![op[c].key] = content[c].body]
      <4>1. ASSUME NEW k \in Keys
            PROVE  absStore'[k] = [absStore EXCEPT ![op[c].key] = content[c].body][k]
        <5>1. CASE k = op[c].key
          BY <3>1, <3>3, <3>6, <5>1 DEF absStore, IInv, TypeOK
        <5>2. CASE k # op[c].key
          BY <3>1, <3>3, <5>2, StoreStable DEF absStore, IInv, TypeOK
        <5>3. QED
          BY <5>1, <5>2
      <4>2. QED
        BY <4>1 DEF absStore
    <3>8. CASE Kind(c) = "put"
      <4>1. content[c].body = c
        BY <3>5, <3>8 DEF Source
      <4>2. Abs!Put(c)
        BY <1>2, <3>1, <3>3, <3>7, <3>8, <4>1
           DEF Abs!Put, Abs!Open, Abs!Kind, Abs!Answer, Kind, absStore, absSeen
      <4>3. QED
        BY <4>2 DEF Abs!AbsStep
    <3>9. CASE Kind(c) = "copy" /\ handle[c] \in Calls
      <4>1. content[c].body = Whole(handle[c]) /\ Whole(handle[c]) \in Calls
        BY <3>5, <3>9, WholeFrozen DEF Source, Frozen
      <4>2. Abs!CopyTo(c)
        BY <1>2, <3>1, <3>3, <3>7, <3>9, <4>1
           DEF Abs!CopyTo, Abs!Open, Abs!Kind, Abs!Answer, Kind, absStore, absSeen
      <4>3. QED
        BY <4>2 DEF Abs!AbsStep
    <3>10. QED
      BY <3>1, <3>8, <3>9
  <2>3. QED
    BY <2>1, <2>2
<1>7. ASSUME NEW c \in Calls, HardLink(c) PROVE Abs!AbsStep(c)
  <2>1. /\ res[c] = "none" /\ op[c] # None /\ op[c].key \in Keys /\ Kind(c) = "create"
        /\ handle' = handle /\ op' = op /\ content' = content
    BY <1>7 DEF HardLink, IInv, CallOK, Undecided, Kind, Writers
  <2>2. CASE c \notin temps
    BY <1>4, <1>7, <2>2 DEF HardLink, CleanUp, Decide, Undecided
  <2>3. CASE c \in temps /\ names[op[c].key] # None
    <3>1. absStore[op[c].key] # None
      BY <2>1, <2>3, WholeFrozen DEF Frozen, Linked, absStore, IInv, TypeOK
    <3>2. Abs!PutIfAbsent(c)
      BY <1>1, <1>2, <1>7, <2>1, <2>3, <3>1
         DEF HardLink, CleanUp, Decide, Abs!PutIfAbsent, Abs!Open, Abs!Kind,
             Abs!Answer, Kind, absStore, absSeen
    <3>3. QED
      BY <3>2 DEF Abs!AbsStep
  <2>4. CASE c \in temps /\ names[op[c].key] = None
    <3>1. names' = [names EXCEPT ![op[c].key] = c] /\ res' = [res EXCEPT ![c] = "ok"]
      BY <1>7, <2>4 DEF HardLink, CleanUp, Decide
    <3>2. content[c].body = c
      BY <1>7, <2>1 DEF HardLink, IInv, FileOK, Source
    <3>3. Whole(c)' = c
      <4>1. Frozen(c)'
        BY <2>1, <3>1 DEF Frozen, Linked, IInv, TypeOK
      <4>2. QED
        BY NextIInv, <2>1, <3>2, <4>1 DEF IInv, FileOK, Ready, Whole, Complete
    <3>4. absStore' = [absStore EXCEPT ![op[c].key] = c]
      <4>1. ASSUME NEW k \in Keys
            PROVE  absStore'[k] = [absStore EXCEPT ![op[c].key] = c][k]
        <5>1. CASE k = op[c].key
          BY <2>1, <3>1, <3>3, <5>1 DEF absStore, IInv, TypeOK
        <5>2. CASE k # op[c].key
          BY <2>1, <3>1, <5>2, StoreStable DEF absStore, IInv, TypeOK
        <5>3. QED
          BY <5>1, <5>2
      <4>2. QED
        BY <4>1 DEF absStore
    <3>5. absStore[op[c].key] = None
      BY <2>1, <2>4 DEF absStore, Whole
    <3>6. Abs!PutIfAbsent(c)
      BY <1>2, <2>1, <3>1, <3>4, <3>5
         DEF Abs!PutIfAbsent, Abs!Open, Abs!Kind, Abs!Answer, Kind, absStore, absSeen
    <3>7. QED
      BY <3>6 DEF Abs!AbsStep
  <2>5. QED
    BY <2>2, <2>3, <2>4
<1>8. ASSUME NEW c \in Calls, OpenFile(c) PROVE Abs!AbsStep(c)
  <2>1. /\ res[c] = "none" /\ op[c] # None /\ SourceKey(c) \in Keys /\ handle[c] = None
        /\ Kind(c) \in {"get", "range", "copy"} /\ SourceKey(c) = Abs!Source(c)
        /\ names' = names /\ op' = op
    BY <1>8 DEF OpenFile, IInv, CallOK, Undecided, Kind, Readers, SourceKey,
                Abs!Source, Abs!Kind
  <2>2. CASE Inverted(c)
    <3>1. Kind(c) = "range" /\ handle' = handle /\ res' = [res EXCEPT ![c] = "precondition"]
      BY <1>8, <2>2, <2>1
         DEF OpenFile, Inverted, Bounds, Return, Decide
    <3>2. Abs!Fail(c)
      BY <1>1, <1>2, <2>1, <3>1
         DEF Abs!Fail, Abs!Open, Abs!Kind, Abs!Answer, Kind, absStore, absSeen
    <3>3. QED
      BY <3>2 DEF Abs!AbsStep
  <2>3. CASE handle' = handle /\ res' = [res EXCEPT ![c] = "io"]
    BY <1>4, <1>8, <2>1, <2>3 DEF OpenFile, Undecided
  <2>4. CASE names[SourceKey(c)] = None /\ handle' = handle
             /\ res' = [res EXCEPT ![c] = "missing"]
    <3>1. absStore[SourceKey(c)] = None /\ absSeen[c] = None
      BY <2>1, <2>4 DEF absStore, absSeen, Whole
    <3>2. Abs!Look(c)
      BY <1>1, <1>2, <2>1, <2>4, <3>1
         DEF Abs!Look, Abs!Open, Abs!Kind, Abs!Answer, Kind, absStore, absSeen
    <3>3. QED
      BY <3>2 DEF Abs!AbsStep
  <2>5. CASE names[SourceKey(c)] # None /\ res' = res
             /\ handle' = [handle EXCEPT ![c] = names[SourceKey(c)]]
    <3>1. names[SourceKey(c)] \in Calls /\ Frozen(names[SourceKey(c)])
      BY <2>1, <2>5 DEF IInv, TypeOK, Frozen, Linked
    <3>2. absStore[SourceKey(c)] # None /\ absSeen[c] = None
      BY <2>1, <3>1, WholeFrozen DEF absStore, absSeen, Whole
    <3>3. absSeen' = [absSeen EXCEPT ![c] = absStore[SourceKey(c)]]
      <4>1. ASSUME NEW d \in Calls
            PROVE  absSeen'[d] = [absSeen EXCEPT ![c] = absStore[SourceKey(c)]][d]
        <5>1. CASE d = c
          <6>1. Whole(names[SourceKey(c)])' = Whole(names[SourceKey(c)])
            BY <2>1, StoreStable DEF SourceKey, Kind
          <6>2. handle'[c] = names'[SourceKey(c)]
            BY <2>1, <2>5 DEF IInv, TypeOK
          <6>3. QED
            BY <2>1, <5>1, <6>1, <6>2 DEF absSeen, absStore, SourceKey, Kind
        <5>2. CASE d # c
          BY <2>5, <5>2, SeenStable DEF absSeen, IInv, TypeOK
        <5>3. QED
          BY <5>1, <5>2
      <4>2. QED
        BY <4>1 DEF absSeen
    <3>4. Abs!Look(c)
      BY <1>1, <2>1, <2>5, <3>2, <3>3
         DEF Abs!Look, Abs!Open, Abs!Kind, Abs!Answer, Kind, absStore, absSeen
    <3>5. QED
      BY <3>4 DEF Abs!AbsStep
  <2>6. QED
    BY <1>8, <2>2, <2>3, <2>4, <2>5 DEF OpenFile, OpenFails, CleanUp, Return, Decide
<1>9. ASSUME NEW c \in Calls, ReadChunk(c), res' = [res EXCEPT ![c] = "ok"]
      PROVE  Abs!AbsStep(c)
  <2>1. /\ res[c] = "none" /\ op[c] # None /\ handle[c] \in Calls
        /\ Kind(c) \in {"get", "range"} /\ op' = op /\ names' = names /\ handle' = handle
    BY <1>9 DEF ReadChunk, IInv, CallOK, Undecided, Kind, Readers
  <2>2. absSeen[c] # None
    BY <2>1, WholeFrozen DEF absSeen, Frozen
  <2>3. Abs!Serve(c)
    BY <1>1, <1>2, <1>9, <2>1, <2>2
       DEF Abs!Serve, Abs!Open, Abs!Kind, Abs!Answer, Kind, absStore, absSeen
  <2>4. QED
    BY <2>3 DEF Abs!AbsStep
<1>10. ASSUME NEW c \in Calls, HeadBlob(c) \/ SweepEnd(c), res' = [res EXCEPT ![c] = "ok"]
       PROVE  Abs!AbsStep(c)
  <2>1. /\ res[c] = "none" /\ op[c] # None /\ Kind(c) \in {"head", "sweep"}
        /\ op' = op /\ names' = names /\ handle' = handle
    BY <1>10 DEF HeadBlob, SweepEnd, IInv, CallOK, Undecided, Kind
  <2>2. Abs!Observe(c)
    BY <1>1, <1>2, <1>10, <2>1
       DEF Abs!Observe, Abs!Open, Abs!Kind, Abs!Answer, Kind, absStore, absSeen
  <2>3. QED
    BY <2>2 DEF Abs!AbsStep
<1>11. ASSUME NEW c \in Calls, DeleteBlob(c), res' = [res EXCEPT ![c] = "ok"],
              names' = [names EXCEPT ![op[c].key] = None]
       PROVE  Abs!AbsStep(c)
  <2>1. /\ res[c] = "none" /\ op[c] # None /\ Kind(c) = "delete" /\ op[c].key \in Keys
        /\ op' = op /\ handle' = handle
    BY <1>11 DEF DeleteBlob, IInv, CallOK, Undecided, Kind
  <2>2. absStore' = [absStore EXCEPT ![op[c].key] = None]
    <3>1. ASSUME NEW k \in Keys
          PROVE  absStore'[k] = [absStore EXCEPT ![op[c].key] = None][k]
      <4>1. CASE k = op[c].key
        BY <1>11, <2>1, <4>1 DEF absStore, IInv, TypeOK, Whole
      <4>2. CASE k # op[c].key
        BY <1>11, <2>1, <4>2, StoreStable DEF absStore, IInv, TypeOK
      <4>3. QED
        BY <4>1, <4>2
    <3>2. QED
      BY <3>1 DEF absStore
  <2>3. Abs!Delete(c)
    BY <1>2, <1>11, <2>1, <2>2
       DEF Abs!Delete, Abs!Open, Abs!Kind, Abs!Answer, Kind, absStore, absSeen
  <2>4. QED
    BY <2>3 DEF Abs!AbsStep
<1>12. ASSUME NEW c \in Calls, SweepRemove(c)
       PROVE  names' = names
  BY <1>12 DEF SweepRemove, IInv, TypeOK, CallOK
<1>13. ASSUME NEW c \in Calls,
              \/ Prepare(c) \/ CreateTemp(c) \/ WriteChunk(c) \/ EndWrite(c)
              \/ WriteFails(c) \/ RemoveTemp(c) \/ Stat(c) \/ ReadChunk(c)
              \/ HeadBlob(c) \/ DeleteBlob(c) \/ SweepList(c) \/ SweepStat(c)
              \/ SweepRemove(c) \/ SweepEnd(c) \/ Interrupt(c)
       PROVE  Abs!AbsStep(c) \/ UNCHANGED Abs!absVars
  <2>1. op' = op /\ handle' = handle
    BY <1>13 DEF Prepare, CreateTemp, WriteChunk, EndWrite, WriteFails, RemoveTemp,
           Stat, ReadChunk, HeadBlob, DeleteBlob, SweepList, SweepStat, SweepRemove,
           SweepEnd, Interrupt
  <2>2. \/ names' = names /\ res' = res
        \/ /\ names' = names /\ res' = [res EXCEPT ![c] = "io"]
           /\ pc[c] \in Undecided /\ pc[c] # "idle"
        \/ (HeadBlob(c) \/ SweepEnd(c) \/ ReadChunk(c)) /\ res' = [res EXCEPT ![c] = "ok"]
        \/ /\ DeleteBlob(c) /\ res' = [res EXCEPT ![c] = "ok"]
           /\ names' = [names EXCEPT ![op[c].key] = None]
    BY <1>12, <1>13
       DEF Prepare, CreateTemp, WriteChunk, EndWrite, WriteFails, RemoveTemp,
           Stat, ReadChunk, HeadBlob, DeleteBlob, SweepList, SweepStat, SweepRemove,
           SweepEnd, Interrupt, Return, CleanUp, Decide, Undecided
  <2>3. QED
    BY <1>3, <1>4, <1>9, <1>10, <1>11, <2>1, <2>2
<1>14. CASE UNCHANGED vars
  BY <1>3, <1>14 DEF vars
<1>15. QED
  BY <1>5, <1>6, <1>7, <1>8, <1>13, <1>14 DEF Next, Step, Quiescent, Abs!AbsNext

\* When no key ends with ".uploading", the local store implements the atomic
\* key-to-body map: every call takes effect at one instant, entirely or, when
\* it returns an error, not at all.
THEOREM LocalRefinesBlobStore == UploadingKeys = {} => (Spec => ImplementsBlobStore)
<1> SUFFICES ASSUME UploadingKeys = {} PROVE Spec => ImplementsBlobStore
  OBVIOUS
<1>1. IInv /\ [Next]_vars => [Abs!AbsNext]_(Abs!absVars)
  BY StepRefines
<1>2. QED
  BY <1>1, InitRefines, Invariance, PTL DEF Spec, ImplementsBlobStore, Abs!AbsSpec
=============================================================================
