------------------------ MODULE LocalStreamingProofs ------------------------
(***************************************************************************)
(* Proofs about LocalStreaming, for any set of calls and keys, any ranges  *)
(* and any number of chunks.                                               *)
(***************************************************************************)
EXTENDS LocalStreaming, TLAPS

UploadSteps == {"create", "open", "sidecar", "renameObj", "renameMeta", "rmObj", "rmMeta"}

\* What the program counter of a call says of its request and its result.
CallOK(c) ==
  /\ pc[c] = "idle" <=> op[c] = None
  /\ pc[c] \in UploadSteps => Kind(c) = "upload"
  /\ pc[c] \in {"delObj", "delMeta"} => Kind(c) = "delete"
  /\ pc[c] = "info" => Kind(c) \in {"meta", "range"}
  /\ pc[c] \in {"openObj", "read"} => Kind(c) = "range"
  /\ pc[c] \in {"readdir", "list", "listInfo"} => Kind(c) = "list"
  /\ pc[c] = "listInfo" => at[c] \in Keys
  /\ res[c] = "ok" => pc[c] = "done"

\* complete() of upload u has succeeded: u takes no further step, so its files
\* and its ObjectInfo are what they will always be.
Completed(u) == op[u] # None /\ Kind(u) = "upload" /\ res[u] = "ok"

\* Sidecars, and what was read from them, are of completed uploads.
SidecarsOK ==
  /\ \A k \in Keys : side[k] # None => Completed(side[k])
  /\ \A c \in Calls : /\ info[c] # None => Completed(info[c])
                      /\ \A u \in listed[c] : Completed(u)

\* Where an upload is when one of its temporary files exists.
TempOK(u) ==
  /\ u \in otemps => \/ pc[u] \in {"open", "sidecar", "renameObj", "rmObj", "dropped"}
                     \/ pc[u] \in {"rmMeta", "done"} /\ u \in leaked
  /\ u \in mtemps => \/ pc[u] \in {"renameObj", "renameMeta", "rmObj", "rmMeta", "dropped"}
                     \/ pc[u] = "done" /\ u \in leaked

\* What a call between its two steps has left at the object path: its own
\* upload, or nothing, unless the key has been disturbed since or the upload's
\* bytes have been swept.
Left(c) == IF pc[c] = "renameMeta" THEN c ELSE None
WindowOK(k) ==
  k \notin disturbed => \A c \in InWindow(k) :
    obj[k] = Left(c) \/ (k \in UploadingKeys /\ obj[k] = None)

\* How far a range reader is.
ReaderOK(c) ==
  /\ pc[c] = "openObj" => info[c] # None /\ Lo(c) <= RangeEnd(c)
  /\ pc[c] = "read" => info[c] # None /\ handle[c] # None /\ pos[c] <= RangeEnd(c)
  /\ pc[c] = "done" /\ res[c] = "ok" /\ Kind(c) = "range" =>
       /\ info[c] # None
       /\ handle[c] = info[c] /\ written[info[c]] = counted[info[c]] => pos[c] = RangeEnd(c)

IInv ==
  /\ TypeOK
  /\ \A c \in Calls : CallOK(c) /\ TempOK(c) /\ ReaderOK(c)
  /\ SidecarsOK
  /\ WholeUnlessDisturbed
  /\ \A k \in Keys : WindowOK(k)
-----------------------------------------------------------------------------
(* The invariant holds.                                                     *)

\* The fields that each kind of request has.
LEMMA RequestShape ==
  ASSUME NEW r \in Requests
  PROVE  /\ r # None
         /\ r.kind \in {"upload", "meta", "delete", "range", "list"}
         /\ r.kind # "list" => r.key \in Keys
         /\ r.kind = "range" => r.range[1] \in Nat /\ r.range[2] \in Nat
BY StreamingAssumption DEF Requests

\* An empty bucket satisfies the invariant.
LEMMA InitIInv == Init => IInv
BY StreamingAssumption
   DEF Init, IInv, TypeOK, CallOK, TempOK, ReaderOK, SidecarsOK, WholeUnlessDisturbed,
       WindowOK, InWindow, Labels, Results, UploadSteps

\* Every step keeps the invariant: one case per file-system call, and in each
\* the types, the callers, the temporary files, the readers, the sidecars and
\* the pairs of files.
LEMMA NextIInv == IInv /\ [Next]_vars => IInv'
<1> SUFFICES ASSUME IInv, [Next]_vars PROVE IInv'
  OBVIOUS
<1> USE StreamingAssumption, RequestShape DEF Kind, Goto, Return, Fail, files, reads
<1>1. ASSUME NEW c \in Calls, Invoke(c) PROVE IInv'
  <2>1. TypeOK'
    BY <1>1 DEF Invoke, FirstStep, IInv, TypeOK, CallOK, Labels, Results
  <2>2. ASSUME NEW d \in Calls PROVE CallOK(d)'
    BY <1>1 DEF Invoke, FirstStep, IInv, TypeOK, CallOK, UploadSteps
  <2>3. ASSUME NEW d \in Calls PROVE TempOK(d)'
    BY <1>1 DEF Invoke, FirstStep, IInv, TypeOK, CallOK, TempOK
  <2>4. ASSUME NEW d \in Calls PROVE ReaderOK(d)'
    BY <1>1 DEF Invoke, FirstStep, IInv, TypeOK, CallOK, ReaderOK, SidecarsOK, Completed,
       Lo, Hi, RangeEnd
  <2>5. SidecarsOK'
    BY <1>1 DEF Invoke, FirstStep, IInv, TypeOK, CallOK, SidecarsOK, Completed
  <2>6. WholeUnlessDisturbed'
    BY <1>1 DEF Invoke, FirstStep, IInv, TypeOK, CallOK, WholeUnlessDisturbed, WindowOK,
       InWindow, Left
  <2>7. ASSUME NEW k \in Keys PROVE WindowOK(k)'
    BY <1>1 DEF Invoke, FirstStep, IInv, TypeOK, CallOK, WindowOK, InWindow, Left
  <2> QED BY <2>1, <2>2, <2>3, <2>4, <2>5, <2>6, <2>7 DEF IInv
<1>2. ASSUME NEW c \in Calls, CreateWriter(c) PROVE IInv'
  <2>1. TypeOK'
    BY <1>2 DEF CreateWriter, IInv, TypeOK, CallOK, Labels, Results
  <2>2. ASSUME NEW d \in Calls PROVE CallOK(d)'
    BY <1>2 DEF CreateWriter, IInv, TypeOK, CallOK, UploadSteps
  <2>3. ASSUME NEW d \in Calls PROVE TempOK(d)'
    BY <1>2 DEF CreateWriter, IInv, TypeOK, CallOK, TempOK
  <2>4. ASSUME NEW d \in Calls PROVE ReaderOK(d)'
    BY <1>2 DEF CreateWriter, IInv, TypeOK, CallOK, ReaderOK, SidecarsOK, Completed, Lo, Hi,
       RangeEnd
  <2>5. SidecarsOK'
    BY <1>2 DEF CreateWriter, IInv, TypeOK, CallOK, SidecarsOK, Completed
  <2>6. WholeUnlessDisturbed'
    BY <1>2 DEF CreateWriter, IInv, TypeOK, CallOK, WholeUnlessDisturbed, WindowOK,
       InWindow, Left
  <2>7. ASSUME NEW k \in Keys PROVE WindowOK(k)'
    BY <1>2 DEF CreateWriter, IInv, TypeOK, CallOK, WindowOK, InWindow, Left
  <2> QED BY <2>1, <2>2, <2>3, <2>4, <2>5, <2>6, <2>7 DEF IInv
<1>3. ASSUME NEW c \in Calls, WriteChunk(c) PROVE IInv'
  <2>1. TypeOK'
    BY <1>3 DEF WriteChunk, IInv, TypeOK, CallOK, Labels, Results, TempOK
  <2>2. ASSUME NEW d \in Calls PROVE CallOK(d)'
    BY <1>3 DEF WriteChunk, IInv, TypeOK, CallOK, UploadSteps
  <2>3. ASSUME NEW d \in Calls PROVE TempOK(d)'
    BY <1>3 DEF WriteChunk, IInv, TypeOK, CallOK, TempOK
  <2>4. ASSUME NEW d \in Calls PROVE ReaderOK(d)'
    BY <1>3 DEF WriteChunk, IInv, TypeOK, CallOK, ReaderOK, SidecarsOK, Completed, Lo, Hi,
       RangeEnd
  <2>5. SidecarsOK'
    BY <1>3 DEF WriteChunk, IInv, TypeOK, CallOK, SidecarsOK, Completed
  <2>6. WholeUnlessDisturbed'
    BY <1>3 DEF WriteChunk, IInv, TypeOK, CallOK, WholeUnlessDisturbed, WindowOK, InWindow,
       Left
  <2>7. ASSUME NEW k \in Keys PROVE WindowOK(k)'
    BY <1>3 DEF WriteChunk, IInv, TypeOK, CallOK, WindowOK, InWindow, Left
  <2> QED BY <2>1, <2>2, <2>3, <2>4, <2>5, <2>6, <2>7 DEF IInv
<1>4. ASSUME NEW c \in Calls, Abort(c) PROVE IInv'
  <2>1. TypeOK'
    BY <1>4 DEF Abort, IInv, TypeOK, CallOK, Labels, Results
  <2>2. ASSUME NEW d \in Calls PROVE CallOK(d)'
    BY <1>4 DEF Abort, IInv, TypeOK, CallOK, UploadSteps
  <2>3. ASSUME NEW d \in Calls PROVE TempOK(d)'
    BY <1>4 DEF Abort, IInv, TypeOK, CallOK, TempOK
  <2>4. ASSUME NEW d \in Calls PROVE ReaderOK(d)'
    BY <1>4 DEF Abort, IInv, TypeOK, CallOK, ReaderOK, SidecarsOK, Completed, Lo, Hi,
       RangeEnd
  <2>5. SidecarsOK'
    BY <1>4 DEF Abort, IInv, TypeOK, CallOK, SidecarsOK, Completed
  <2>6. WholeUnlessDisturbed'
    BY <1>4 DEF Abort, IInv, TypeOK, CallOK, WholeUnlessDisturbed, WindowOK, InWindow, Left
  <2>7. ASSUME NEW k \in Keys PROVE WindowOK(k)'
    BY <1>4 DEF Abort, IInv, TypeOK, CallOK, WindowOK, InWindow, Left
  <2> QED BY <2>1, <2>2, <2>3, <2>4, <2>5, <2>6, <2>7 DEF IInv
<1>5. ASSUME NEW c \in Calls, Complete(c) PROVE IInv'
  <2>1. TypeOK'
    BY <1>5 DEF Complete, IInv, TypeOK, CallOK, Labels, Results
  <2>2. ASSUME NEW d \in Calls PROVE CallOK(d)'
    BY <1>5 DEF Complete, IInv, TypeOK, CallOK, UploadSteps
  <2>3. ASSUME NEW d \in Calls PROVE TempOK(d)'
    BY <1>5 DEF Complete, IInv, TypeOK, CallOK, TempOK
  <2>4. ASSUME NEW d \in Calls PROVE ReaderOK(d)'
    BY <1>5 DEF Complete, IInv, TypeOK, CallOK, ReaderOK, SidecarsOK, Completed, Lo, Hi,
       RangeEnd
  <2>5. SidecarsOK'
    BY <1>5 DEF Complete, IInv, TypeOK, CallOK, SidecarsOK, Completed
  <2>6. WholeUnlessDisturbed'
    BY <1>5 DEF Complete, IInv, TypeOK, CallOK, WholeUnlessDisturbed, WindowOK, InWindow,
       Left
  <2>7. ASSUME NEW k \in Keys PROVE WindowOK(k)'
    BY <1>5 DEF Complete, IInv, TypeOK, CallOK, WindowOK, InWindow, Left
  <2> QED BY <2>1, <2>2, <2>3, <2>4, <2>5, <2>6, <2>7 DEF IInv
<1>6. ASSUME NEW c \in Calls, WriteSidecar(c) PROVE IInv'
  <2>1. TypeOK'
    BY <1>6, SMTT(30) DEF WriteSidecar, IInv, TypeOK, CallOK, Labels, Results
  <2>2. ASSUME NEW d \in Calls PROVE CallOK(d)'
    BY <1>6 DEF WriteSidecar, IInv, TypeOK, CallOK, UploadSteps
  <2>3. ASSUME NEW d \in Calls PROVE TempOK(d)'
    BY <1>6 DEF WriteSidecar, IInv, TypeOK, CallOK, TempOK
  <2>4. ASSUME NEW d \in Calls PROVE ReaderOK(d)'
    BY <1>6 DEF WriteSidecar, IInv, TypeOK, CallOK, ReaderOK, SidecarsOK, Completed, Lo, Hi,
       RangeEnd
  <2>5. SidecarsOK'
    BY <1>6 DEF WriteSidecar, IInv, TypeOK, CallOK, SidecarsOK, Completed
  <2>6. WholeUnlessDisturbed'
    BY <1>6 DEF WriteSidecar, IInv, TypeOK, CallOK, WholeUnlessDisturbed, WindowOK,
       InWindow, Left
  <2>7. ASSUME NEW k \in Keys PROVE WindowOK(k)'
    BY <1>6 DEF WriteSidecar, IInv, TypeOK, CallOK, WindowOK, InWindow, Left
  <2> QED BY <2>1, <2>2, <2>3, <2>4, <2>5, <2>6, <2>7 DEF IInv
<1>7. ASSUME NEW c \in Calls, RenameObject(c) PROVE IInv'
  <2>1. TypeOK'
    <3>1. op[c].key \in Keys BY <1>7 DEF RenameObject, IInv, CallOK, UploadSteps, TypeOK
    <3>2. obj' \in [Keys -> Calls \cup {None}] /\ disturbed' \subseteq Keys
      BY <1>7, <3>1 DEF RenameObject, IInv, TypeOK
    <3>3. pc' \in [Calls -> Labels] /\ res' \in [Calls -> Results]
      BY <1>7 DEF RenameObject, IInv, TypeOK, Labels, Results
    <3> QED BY <1>7, <3>2, <3>3 DEF RenameObject, IInv, TypeOK
  <2>2. ASSUME NEW d \in Calls PROVE CallOK(d)'
    BY <1>7 DEF RenameObject, IInv, TypeOK, CallOK, UploadSteps
  <2>3. ASSUME NEW d \in Calls PROVE TempOK(d)'
    BY <1>7 DEF RenameObject, IInv, TypeOK, CallOK, TempOK
  <2>4. ASSUME NEW d \in Calls PROVE ReaderOK(d)'
    BY <1>7 DEF RenameObject, IInv, TypeOK, CallOK, ReaderOK, SidecarsOK, Completed, Lo, Hi,
       RangeEnd
  <2>5. SidecarsOK'
    BY <1>7 DEF RenameObject, IInv, TypeOK, CallOK, SidecarsOK, Completed
  <2>6. WholeUnlessDisturbed'
    BY <1>7 DEF RenameObject, IInv, TypeOK, CallOK, WholeUnlessDisturbed, WindowOK,
       InWindow, Left
  <2>7. ASSUME NEW k \in Keys PROVE WindowOK(k)'
    BY <1>7 DEF RenameObject, IInv, TypeOK, CallOK, WindowOK, InWindow, Left
  <2> QED BY <2>1, <2>2, <2>3, <2>4, <2>5, <2>6, <2>7 DEF IInv
<1>8. ASSUME NEW c \in Calls, RenameSidecar(c) PROVE IInv'
  <2>1. TypeOK'
    <3>1. op[c].key \in Keys BY <1>8 DEF RenameSidecar, IInv, CallOK, UploadSteps, TypeOK
    <3>2. side' \in [Keys -> Calls \cup {None}] /\ disturbed' \subseteq Keys
      BY <1>8, <3>1 DEF RenameSidecar, Settle, IInv, TypeOK
    <3>3. pc' \in [Calls -> Labels] /\ res' \in [Calls -> Results]
      BY <1>8 DEF RenameSidecar, IInv, TypeOK, Labels, Results
    <3> QED BY <1>8, <3>2, <3>3 DEF RenameSidecar, IInv, TypeOK
  <2>2. ASSUME NEW d \in Calls PROVE CallOK(d)'
    BY <1>8 DEF RenameSidecar, IInv, TypeOK, CallOK, UploadSteps
  <2>3. ASSUME NEW d \in Calls PROVE TempOK(d)'
    BY <1>8 DEF RenameSidecar, IInv, TypeOK, CallOK, TempOK
  <2>4. ASSUME NEW d \in Calls PROVE ReaderOK(d)'
    <3>1. UNCHANGED <<op, info, handle, pos, written, counted>> BY <1>8 DEF RenameSidecar
    <3>2. Kind(c) = "upload" /\ pc[c] = "renameMeta"
      BY <1>8 DEF RenameSidecar, IInv, CallOK, UploadSteps
    <3>3. (pc'[d] = pc[d] /\ res'[d] = res[d]) \/ (d = c /\ pc'[d] \in {"done", "rmMeta"})
      BY <1>8 DEF RenameSidecar, IInv, TypeOK
    <3> QED BY <3>1, <3>2, <3>3 DEF IInv, ReaderOK, Lo, Hi, RangeEnd
  <2>5. SidecarsOK'
    <3>1. UNCHANGED <<op, info, listed>> BY <1>8 DEF RenameSidecar
    <3>2. CallOK(c) /\ Kind(c) = "upload" /\ op[c] # None /\ op[c] \in Requests
      BY <1>8 DEF RenameSidecar, IInv, TypeOK, CallOK, UploadSteps
    <3> DEFINE Ended(u) == op'[u] # None /\ op'[u].kind = "upload" /\ res'[u] = "ok"
    <3>3. ASSUME NEW u \in Calls, Completed(u) PROVE Ended(u)
      BY <1>8, <3>3 DEF RenameSidecar, IInv, TypeOK, CallOK, Completed
    <3>4. ASSUME NEW k \in Keys, side'[k] # None PROVE Ended(side'[k])
      <4>1. CASE side'[k] = side[k]
        <5>1. side[k] \in Calls /\ Completed(side[k]) BY <3>4, <4>1 DEF IInv, TypeOK, SidecarsOK
        <5> QED BY <3>3, <4>1, <5>1
      <4>2. CASE side'[k] # side[k]
        <5>1. side'[k] = c /\ res'[c] = "ok" BY <1>8, <4>2 DEF RenameSidecar, IInv, TypeOK
        <5> QED BY <3>1, <3>2, <5>1
      <4> QED BY <4>1, <4>2
    <3>5. ASSUME NEW d \in Calls
          PROVE  /\ info'[d] # None => Ended(info'[d])
                 /\ \A u \in listed'[d] : Ended(u)
      <4>1. /\ info[d] # None => info[d] \in Calls /\ Completed(info[d])
            /\ \A u \in listed[d] : u \in Calls /\ Completed(u)
        BY DEF IInv, TypeOK, SidecarsOK
      <4> QED BY <3>1, <3>3, <4>1
    <3> QED BY <3>4, <3>5 DEF SidecarsOK, Completed
  <2>6. WholeUnlessDisturbed'
    BY <1>8 DEF RenameSidecar, IInv, TypeOK, CallOK, WholeUnlessDisturbed, WindowOK,
       InWindow, Left, Settle
  <2>7. ASSUME NEW k \in Keys PROVE WindowOK(k)'
    BY <1>8 DEF RenameSidecar, IInv, TypeOK, CallOK, WindowOK, InWindow, Left, Settle
  <2> QED BY <2>1, <2>2, <2>3, <2>4, <2>5, <2>6, <2>7 DEF IInv
<1>9. ASSUME NEW c \in Calls, RemoveObjectTemp(c) PROVE IInv'
  <2>1. TypeOK'
    BY <1>9 DEF RemoveObjectTemp, IInv, TypeOK, CallOK, Labels, Results
  <2>2. ASSUME NEW d \in Calls PROVE CallOK(d)'
    BY <1>9 DEF RemoveObjectTemp, IInv, TypeOK, CallOK, UploadSteps
  <2>3. ASSUME NEW d \in Calls PROVE TempOK(d)'
    BY <1>9 DEF RemoveObjectTemp, IInv, TypeOK, CallOK, TempOK
  <2>4. ASSUME NEW d \in Calls PROVE ReaderOK(d)'
    BY <1>9 DEF RemoveObjectTemp, IInv, TypeOK, CallOK, ReaderOK, SidecarsOK, Completed, Lo,
       Hi, RangeEnd
  <2>5. SidecarsOK'
    BY <1>9 DEF RemoveObjectTemp, IInv, TypeOK, CallOK, SidecarsOK, Completed
  <2>6. WholeUnlessDisturbed'
    BY <1>9 DEF RemoveObjectTemp, IInv, TypeOK, CallOK, WholeUnlessDisturbed, WindowOK,
       InWindow, Left
  <2>7. ASSUME NEW k \in Keys PROVE WindowOK(k)'
    BY <1>9 DEF RemoveObjectTemp, IInv, TypeOK, CallOK, WindowOK, InWindow, Left
  <2> QED BY <2>1, <2>2, <2>3, <2>4, <2>5, <2>6, <2>7 DEF IInv
<1>10. ASSUME NEW c \in Calls, RemoveSidecarTemp(c) PROVE IInv'
  <2>1. TypeOK'
    BY <1>10 DEF RemoveSidecarTemp, IInv, TypeOK, CallOK, Labels, Results
  <2>2. ASSUME NEW d \in Calls PROVE CallOK(d)'
    BY <1>10 DEF RemoveSidecarTemp, IInv, TypeOK, CallOK, UploadSteps
  <2>3. ASSUME NEW d \in Calls PROVE TempOK(d)'
    BY <1>10 DEF RemoveSidecarTemp, IInv, TypeOK, CallOK, TempOK
  <2>4. ASSUME NEW d \in Calls PROVE ReaderOK(d)'
    BY <1>10 DEF RemoveSidecarTemp, IInv, TypeOK, CallOK, ReaderOK, SidecarsOK, Completed,
       Lo, Hi, RangeEnd
  <2>5. SidecarsOK'
    BY <1>10 DEF RemoveSidecarTemp, IInv, TypeOK, CallOK, SidecarsOK, Completed
  <2>6. WholeUnlessDisturbed'
    BY <1>10 DEF RemoveSidecarTemp, IInv, TypeOK, CallOK, WholeUnlessDisturbed, WindowOK,
       InWindow, Left
  <2>7. ASSUME NEW k \in Keys PROVE WindowOK(k)'
    BY <1>10 DEF RemoveSidecarTemp, IInv, TypeOK, CallOK, WindowOK, InWindow, Left
  <2> QED BY <2>1, <2>2, <2>3, <2>4, <2>5, <2>6, <2>7 DEF IInv
<1>11. ASSUME NEW c \in Calls, DeleteObject(c) PROVE IInv'
  <2>1. TypeOK'
    BY <1>11 DEF DeleteObject, IInv, TypeOK, CallOK, Labels, Results
  <2>2. ASSUME NEW d \in Calls PROVE CallOK(d)'
    BY <1>11 DEF DeleteObject, IInv, TypeOK, CallOK, UploadSteps
  <2>3. ASSUME NEW d \in Calls PROVE TempOK(d)'
    BY <1>11 DEF DeleteObject, IInv, TypeOK, CallOK, TempOK
  <2>4. ASSUME NEW d \in Calls PROVE ReaderOK(d)'
    BY <1>11 DEF DeleteObject, IInv, TypeOK, CallOK, ReaderOK, SidecarsOK, Completed, Lo,
       Hi, RangeEnd
  <2>5. SidecarsOK'
    BY <1>11 DEF DeleteObject, IInv, TypeOK, CallOK, SidecarsOK, Completed
  <2>6. WholeUnlessDisturbed'
    BY <1>11 DEF DeleteObject, IInv, TypeOK, CallOK, WholeUnlessDisturbed, WindowOK,
       InWindow, Left
  <2>7. ASSUME NEW k \in Keys PROVE WindowOK(k)'
    BY <1>11 DEF DeleteObject, IInv, TypeOK, CallOK, WindowOK, InWindow, Left
  <2> QED BY <2>1, <2>2, <2>3, <2>4, <2>5, <2>6, <2>7 DEF IInv
<1>12. ASSUME NEW c \in Calls, DeleteSidecar(c) PROVE IInv'
  <2>1. TypeOK'
    BY <1>12, SMTT(30) DEF DeleteSidecar, IInv, TypeOK, CallOK, Labels, Results, Settle
  <2>2. ASSUME NEW d \in Calls PROVE CallOK(d)'
    BY <1>12 DEF DeleteSidecar, IInv, TypeOK, CallOK, UploadSteps
  <2>3. ASSUME NEW d \in Calls PROVE TempOK(d)'
    BY <1>12 DEF DeleteSidecar, IInv, TypeOK, CallOK, TempOK
  <2>4. ASSUME NEW d \in Calls PROVE ReaderOK(d)'
    BY <1>12 DEF DeleteSidecar, IInv, TypeOK, CallOK, ReaderOK, SidecarsOK, Completed, Lo,
       Hi, RangeEnd
  <2>5. SidecarsOK'
    BY <1>12, SMTT(30) DEF DeleteSidecar, IInv, TypeOK, CallOK, SidecarsOK, Completed
  <2>6. WholeUnlessDisturbed'
    BY <1>12 DEF DeleteSidecar, IInv, TypeOK, CallOK, WholeUnlessDisturbed, WindowOK,
       InWindow, Left, Settle
  <2>7. ASSUME NEW k \in Keys PROVE WindowOK(k)'
    BY <1>12 DEF DeleteSidecar, IInv, TypeOK, CallOK, WindowOK, InWindow, Left, Settle
  <2> QED BY <2>1, <2>2, <2>3, <2>4, <2>5, <2>6, <2>7 DEF IInv
<1>13. ASSUME NEW c \in Calls, ReadSidecar(c) PROVE IInv'
  <2>1. TypeOK'
    <3>1. op[c].key \in Keys BY <1>13 DEF ReadSidecar, IInv, CallOK, TypeOK
    <3>2. info' \in [Calls -> Calls \cup {None}] BY <1>13, <3>1 DEF ReadSidecar, IInv, TypeOK
    <3>3. pc' \in [Calls -> Labels] /\ res' \in [Calls -> Results]
      BY <1>13 DEF ReadSidecar, IInv, TypeOK, Labels, Results
    <3> QED BY <1>13, <3>2, <3>3 DEF ReadSidecar, IInv, TypeOK
  <2>2. ASSUME NEW d \in Calls PROVE CallOK(d)'
    BY <1>13 DEF ReadSidecar, IInv, TypeOK, CallOK, UploadSteps
  <2>3. ASSUME NEW d \in Calls PROVE TempOK(d)'
    BY <1>13 DEF ReadSidecar, IInv, TypeOK, CallOK, TempOK
  <2>4. ASSUME NEW d \in Calls PROVE ReaderOK(d)'
    <3>1. CASE d # c
      BY <1>13, <3>1 DEF ReadSidecar, IInv, TypeOK, ReaderOK, Lo, Hi, RangeEnd
    <3>2. CASE d = c
      <4>1. CallOK(c) /\ op[c] \in Requests /\ Kind(c) \in {"meta", "range"}
        BY <1>13 DEF ReadSidecar, IInv, TypeOK, CallOK
      <4>2. pc'[c] = "openObj" =>
              /\ Kind(c) = "range" /\ Lo(c) <= Hi(c)
              /\ info'[c] \in Calls /\ Lo(c) <= counted[info'[c]]
        BY <1>13, <4>1 DEF ReadSidecar, IInv, TypeOK, Lo, Hi
      <4>3. pc'[c] \in {"openObj", "done"} /\ ~(res'[c] = "ok" /\ Kind(c) = "range")
        BY <1>13, <4>1 DEF ReadSidecar, IInv, TypeOK, CallOK
      <4> QED BY <1>13, <3>2, <4>1, <4>2, <4>3 DEF ReadSidecar, IInv, TypeOK, ReaderOK, Lo, Hi, RangeEnd
    <3> QED BY <3>1, <3>2
  <2>5. SidecarsOK'
    BY <1>13 DEF ReadSidecar, IInv, TypeOK, CallOK, SidecarsOK, Completed
  <2>6. WholeUnlessDisturbed'
    BY <1>13 DEF ReadSidecar, IInv, TypeOK, CallOK, WholeUnlessDisturbed, WindowOK,
       InWindow, Left
  <2>7. ASSUME NEW k \in Keys PROVE WindowOK(k)'
    BY <1>13 DEF ReadSidecar, IInv, TypeOK, CallOK, WindowOK, InWindow, Left
  <2> QED BY <2>1, <2>2, <2>3, <2>4, <2>5, <2>6, <2>7 DEF IInv
<1>14. ASSUME NEW c \in Calls, OpenObject(c) PROVE IInv'
  <2>1. TypeOK'
    BY <1>14 DEF OpenObject, IInv, TypeOK, CallOK, Labels, Results, Lo
  <2>2. ASSUME NEW d \in Calls PROVE CallOK(d)'
    BY <1>14 DEF OpenObject, IInv, TypeOK, CallOK, UploadSteps
  <2>3. ASSUME NEW d \in Calls PROVE TempOK(d)'
    BY <1>14 DEF OpenObject, IInv, TypeOK, CallOK, TempOK
  <2>4. ASSUME NEW d \in Calls PROVE ReaderOK(d)'
    <3>1. CASE d # c
      BY <1>14, <3>1 DEF OpenObject, IInv, TypeOK, ReaderOK, Lo, Hi, RangeEnd
    <3>2. CASE d = c
      <4>1. /\ Kind(c) = "range" /\ op[c].key \in Keys
            /\ info[c] # None /\ Lo(c) <= RangeEnd(c)
        BY <1>14 DEF OpenObject, IInv, TypeOK, CallOK, ReaderOK
      <4>2. \/ pc'[c] = "read" /\ handle'[c] # None /\ pos'[c] = Lo(c)
            \/ pc'[c] = "done" /\ res'[c] # "ok"
        BY <1>14, <4>1 DEF OpenObject, IInv, TypeOK
      <4> QED BY <1>14, <3>2, <4>1, <4>2 DEF OpenObject, ReaderOK, RangeEnd, Lo, Hi
    <3> QED BY <3>1, <3>2
  <2>5. SidecarsOK'
    BY <1>14 DEF OpenObject, IInv, TypeOK, CallOK, SidecarsOK, Completed
  <2>6. WholeUnlessDisturbed'
    BY <1>14 DEF OpenObject, IInv, TypeOK, CallOK, WholeUnlessDisturbed, WindowOK, InWindow,
       Left
  <2>7. ASSUME NEW k \in Keys PROVE WindowOK(k)'
    BY <1>14 DEF OpenObject, IInv, TypeOK, CallOK, WindowOK, InWindow, Left
  <2> QED BY <2>1, <2>2, <2>3, <2>4, <2>5, <2>6, <2>7 DEF IInv
<1>15. ASSUME NEW c \in Calls, ReadChunk(c) PROVE IInv'
  <2>1. TypeOK'
    BY <1>15 DEF ReadChunk, IInv, TypeOK, CallOK, Labels, Results
  <2>2. ASSUME NEW d \in Calls PROVE CallOK(d)'
    BY <1>15 DEF ReadChunk, IInv, TypeOK, CallOK, UploadSteps
  <2>3. ASSUME NEW d \in Calls PROVE TempOK(d)'
    BY <1>15 DEF ReadChunk, IInv, TypeOK, CallOK, TempOK
  <2>4. ASSUME NEW d \in Calls PROVE ReaderOK(d)'
    <3>1. CASE d # c
      BY <1>15, <3>1 DEF ReadChunk, IInv, TypeOK, ReaderOK, Lo, Hi, RangeEnd
    <3>2. CASE d = c
      <4>1. /\ Kind(c) = "range" /\ op[c] \in Requests /\ info[c] \in Calls /\ handle[c] \in Calls
            /\ pos[c] <= RangeEnd(c) /\ pos[c] \in Nat /\ RangeEnd(c) \in Nat
            /\ RangeEnd(c) <= counted[info[c]] /\ counted[info[c]] \in Nat /\ written[handle[c]] \in Nat
        BY <1>15 DEF ReadChunk, IInv, TypeOK, CallOK, ReaderOK, RangeEnd, Hi
      <4>2. \/ pc'[c] = "read" /\ pos'[c] <= RangeEnd(c)
            \/ pc'[c] = "done" /\ res'[c] = "io"
            \/ /\ pc'[c] = "done" /\ pos'[c] = pos[c]
               /\ pos[c] >= RangeEnd(c) \/ pos[c] >= written[handle[c]]
        BY <1>15, <4>1 DEF ReadChunk, IInv, TypeOK
      <4>3. UNCHANGED <<op, info, handle, written, counted>> BY <1>15 DEF ReadChunk
      <4>4. /\ RangeEnd(c)' = RangeEnd(c)
        BY <4>3 DEF RangeEnd, Hi
      <4> QED BY <3>2, <4>1, <4>2, <4>3, <4>4 DEF ReaderOK
    <3> QED BY <3>1, <3>2
  <2>5. SidecarsOK'
    BY <1>15 DEF ReadChunk, IInv, TypeOK, CallOK, SidecarsOK, Completed
  <2>6. WholeUnlessDisturbed'
    BY <1>15 DEF ReadChunk, IInv, TypeOK, CallOK, WholeUnlessDisturbed, WindowOK, InWindow,
       Left
  <2>7. ASSUME NEW k \in Keys PROVE WindowOK(k)'
    BY <1>15 DEF ReadChunk, IInv, TypeOK, CallOK, WindowOK, InWindow, Left
  <2> QED BY <2>1, <2>2, <2>3, <2>4, <2>5, <2>6, <2>7 DEF IInv
<1>16. ASSUME NEW c \in Calls, ListDir(c) PROVE IInv'
  <2>1. TypeOK'
    BY <1>16 DEF ListDir, IInv, TypeOK, CallOK, Labels, Results
  <2>2. ASSUME NEW d \in Calls PROVE CallOK(d)'
    BY <1>16 DEF ListDir, IInv, TypeOK, CallOK, UploadSteps
  <2>3. ASSUME NEW d \in Calls PROVE TempOK(d)'
    BY <1>16 DEF ListDir, IInv, TypeOK, CallOK, TempOK
  <2>4. ASSUME NEW d \in Calls PROVE ReaderOK(d)'
    BY <1>16 DEF ListDir, IInv, TypeOK, CallOK, ReaderOK, SidecarsOK, Completed, Lo, Hi,
       RangeEnd
  <2>5. SidecarsOK'
    BY <1>16 DEF ListDir, IInv, TypeOK, CallOK, SidecarsOK, Completed
  <2>6. WholeUnlessDisturbed'
    BY <1>16 DEF ListDir, IInv, TypeOK, CallOK, WholeUnlessDisturbed, WindowOK, InWindow,
       Left
  <2>7. ASSUME NEW k \in Keys PROVE WindowOK(k)'
    BY <1>16 DEF ListDir, IInv, TypeOK, CallOK, WindowOK, InWindow, Left
  <2> QED BY <2>1, <2>2, <2>3, <2>4, <2>5, <2>6, <2>7 DEF IInv
<1>17. ASSUME NEW c \in Calls, ListStat(c) PROVE IInv'
  <2>1. TypeOK'
    <3>1. PICK k \in todo[c] :
            /\ todo' = [todo EXCEPT ![c] = @ \ {k}]
            /\ at' = at \/ at' = [at EXCEPT ![c] = k]
            /\ pc' = pc \/ \E l \in {"listInfo", "done"} : pc' = [pc EXCEPT ![c] = l]
            /\ res' = res \/ res' = [res EXCEPT ![c] = "io"]
      BY <1>17 DEF ListStat
    <3>2. k \in Keys BY DEF IInv, TypeOK
    <3>3. pc' \in [Calls -> Labels] /\ res' \in [Calls -> Results]
      BY <3>1 DEF IInv, TypeOK, Labels, Results
    <3>4. todo' \in [Calls -> SUBSET Keys] /\ at' \in [Calls -> Keys \cup {None}]
      BY <3>1, <3>2 DEF IInv, TypeOK
    <3> QED BY <1>17, <3>3, <3>4 DEF ListStat, IInv, TypeOK
  <2>2. ASSUME NEW d \in Calls PROVE CallOK(d)'
    BY <1>17 DEF ListStat, IInv, TypeOK, CallOK, UploadSteps
  <2>3. ASSUME NEW d \in Calls PROVE TempOK(d)'
    BY <1>17 DEF ListStat, IInv, TypeOK, CallOK, TempOK
  <2>4. ASSUME NEW d \in Calls PROVE ReaderOK(d)'
    BY <1>17 DEF ListStat, IInv, TypeOK, CallOK, ReaderOK, SidecarsOK, Completed, Lo, Hi,
       RangeEnd
  <2>5. SidecarsOK'
    BY <1>17 DEF ListStat, IInv, TypeOK, CallOK, SidecarsOK, Completed
  <2>6. WholeUnlessDisturbed'
    BY <1>17 DEF ListStat, IInv, TypeOK, CallOK, WholeUnlessDisturbed, WindowOK, InWindow,
       Left
  <2>7. ASSUME NEW k \in Keys PROVE WindowOK(k)'
    BY <1>17 DEF ListStat, IInv, TypeOK, CallOK, WindowOK, InWindow, Left
  <2> QED BY <2>1, <2>2, <2>3, <2>4, <2>5, <2>6, <2>7 DEF IInv
<1>18. ASSUME NEW c \in Calls, ListInfo(c) PROVE IInv'
  <2>1. TypeOK'
    BY <1>18 DEF ListInfo, IInv, TypeOK, CallOK, Labels, Results
  <2>2. ASSUME NEW d \in Calls PROVE CallOK(d)'
    BY <1>18 DEF ListInfo, IInv, TypeOK, CallOK, UploadSteps
  <2>3. ASSUME NEW d \in Calls PROVE TempOK(d)'
    BY <1>18 DEF ListInfo, IInv, TypeOK, CallOK, TempOK
  <2>4. ASSUME NEW d \in Calls PROVE ReaderOK(d)'
    BY <1>18 DEF ListInfo, IInv, TypeOK, CallOK, ReaderOK, SidecarsOK, Completed, Lo, Hi,
       RangeEnd
  <2>5. SidecarsOK'
    BY <1>18 DEF ListInfo, IInv, TypeOK, CallOK, SidecarsOK, Completed
  <2>6. WholeUnlessDisturbed'
    BY <1>18 DEF ListInfo, IInv, TypeOK, CallOK, WholeUnlessDisturbed, WindowOK, InWindow,
       Left
  <2>7. ASSUME NEW k \in Keys PROVE WindowOK(k)'
    BY <1>18 DEF ListInfo, IInv, TypeOK, CallOK, WindowOK, InWindow, Left
  <2> QED BY <2>1, <2>2, <2>3, <2>4, <2>5, <2>6, <2>7 DEF IInv
<1>19. ASSUME NEW c \in Calls, ListEnd(c) PROVE IInv'
  <2>1. TypeOK'
    BY <1>19 DEF ListEnd, IInv, TypeOK, CallOK, Labels, Results
  <2>2. ASSUME NEW d \in Calls PROVE CallOK(d)'
    BY <1>19 DEF ListEnd, IInv, TypeOK, CallOK, UploadSteps
  <2>3. ASSUME NEW d \in Calls PROVE TempOK(d)'
    BY <1>19 DEF ListEnd, IInv, TypeOK, CallOK, TempOK
  <2>4. ASSUME NEW d \in Calls PROVE ReaderOK(d)'
    BY <1>19 DEF ListEnd, IInv, TypeOK, CallOK, ReaderOK, SidecarsOK, Completed, Lo, Hi,
       RangeEnd
  <2>5. SidecarsOK'
    BY <1>19 DEF ListEnd, IInv, TypeOK, CallOK, SidecarsOK, Completed
  <2>6. WholeUnlessDisturbed'
    BY <1>19 DEF ListEnd, IInv, TypeOK, CallOK, WholeUnlessDisturbed, WindowOK, InWindow,
       Left
  <2>7. ASSUME NEW k \in Keys PROVE WindowOK(k)'
    BY <1>19 DEF ListEnd, IInv, TypeOK, CallOK, WindowOK, InWindow, Left
  <2> QED BY <2>1, <2>2, <2>3, <2>4, <2>5, <2>6, <2>7 DEF IInv
<1>20. ASSUME NEW c \in Calls, Interrupt(c) PROVE IInv'
  <2>1. TypeOK'
    BY <1>20 DEF Interrupt, Running, IInv, TypeOK, CallOK, Labels, Results, UploadSteps
  <2>2. ASSUME NEW d \in Calls PROVE CallOK(d)'
    BY <1>20 DEF Interrupt, Running, IInv, TypeOK, CallOK, UploadSteps
  <2>3. ASSUME NEW d \in Calls PROVE TempOK(d)'
    BY <1>20 DEF Interrupt, Running, IInv, TypeOK, CallOK, TempOK
  <2>4. ASSUME NEW d \in Calls PROVE ReaderOK(d)'
    BY <1>20 DEF Interrupt, Running, IInv, TypeOK, CallOK, ReaderOK, SidecarsOK, Completed,
       Lo, Hi, RangeEnd
  <2>5. SidecarsOK'
    BY <1>20 DEF Interrupt, Running, IInv, TypeOK, CallOK, SidecarsOK, Completed
  <2>6. WholeUnlessDisturbed'
    BY <1>20 DEF Interrupt, Running, IInv, TypeOK, CallOK, WholeUnlessDisturbed, WindowOK,
       InWindow, Left
  <2>7. ASSUME NEW k \in Keys PROVE WindowOK(k)'
    BY <1>20 DEF Interrupt, Running, IInv, TypeOK, CallOK, WindowOK, InWindow, Left
  <2> QED BY <2>1, <2>2, <2>3, <2>4, <2>5, <2>6, <2>7 DEF IInv
<1>21. ASSUME Sweep PROVE IInv'
  <2>1. /\ otemps' \subseteq otemps /\ mtemps' \subseteq mtemps
        /\ \A k \in Keys : obj'[k] = obj[k] \/ (k \in UploadingKeys /\ obj'[k] = None)
        /\ obj' \in [Keys -> Calls \cup {None}]
        /\ UNCHANGED <<op, pc, res, side, written, counted, info, handle, pos, todo, at, listed>>
        /\ UNCHANGED <<leaked, disturbed>>
    BY <1>21 DEF Sweep, IInv, TypeOK
  <2>2. TypeOK' BY <2>1 DEF IInv, TypeOK
  <2>3. ASSUME NEW d \in Calls PROVE CallOK(d)' /\ TempOK(d)'
    BY <2>1 DEF IInv, CallOK, TempOK
  <2>4. ASSUME NEW d \in Calls PROVE ReaderOK(d)'
    BY <2>1 DEF IInv, ReaderOK, Lo, Hi, RangeEnd
  <2>5. SidecarsOK' BY <2>1 DEF IInv, SidecarsOK, Completed
  <2>6. WholeUnlessDisturbed' BY <2>1 DEF IInv, WholeUnlessDisturbed, InWindow
  <2>7. ASSUME NEW k \in Keys PROVE WindowOK(k)' BY <2>1 DEF IInv, WindowOK, InWindow, Left
  <2> QED BY <2>2, <2>3, <2>4, <2>5, <2>6, <2>7 DEF IInv
<1>22. ASSUME UNCHANGED vars PROVE IInv'
  BY <1>22 DEF vars, IInv, TypeOK, CallOK, TempOK, ReaderOK, SidecarsOK, Completed,
     WholeUnlessDisturbed, WindowOK, InWindow, Left, Lo, Hi, RangeEnd
<1> QED
  BY <1>1, <1>2, <1>3, <1>4, <1>5, <1>6, <1>7, <1>8, <1>9, <1>10, <1>11, <1>12, <1>13,
     <1>14, <1>15, <1>16, <1>17, <1>18, <1>19, <1>20, <1>21, <1>22 DEF Next, Step, Quiescent

\* The invariant implies the properties of the component.
LEMMA IInvImplies ==
  IInv => TypeOK /\ InfoMeansCompleted /\ WholeUnlessDisturbed /\ RangeServesItsInfo /\ TempsAccounted
<1> SUFFICES ASSUME IInv
             PROVE  InfoMeansCompleted /\ RangeServesItsInfo /\ TempsAccounted
  BY DEF IInv
<1>1. InfoMeansCompleted
  BY StreamingAssumption DEF IInv, SidecarsOK, Completed, InfoMeansCompleted
<1>2. RangeServesItsInfo
  BY DEF IInv, ReaderOK, RangeServesItsInfo, RangeEnd, Hi
<1>3. TempsAccounted
  BY DEF IInv, TypeOK, TempOK, TempsAccounted, Running
<1> QED BY <1>1, <1>2, <1>3

-----------------------------------------------------------------------------

\* Every variable keeps its type, and no object file ever holds more chunks
\* than its upload has counted and hashed.
THEOREM TypeCorrect == Spec => []TypeOK
BY InitIInv, NextIInv, IInvImplies, PTL DEF Spec

\* An ObjectInfo that a reader or a listing is given is of an upload whose
\* complete() succeeded.
THEOREM InfoCompleted == Spec => []InfoMeansCompleted
BY InitIInv, NextIInv, IInvImplies, PTL DEF Spec

\* Outside the window between the two renames or the two removals, the two
\* files of a key are of one upload or both missing, unless finalizations
\* overlapped, failed or were dropped in that window, or a sweep took the bytes
\* because the key itself ends in ".uploading".
THEOREM PairsWhole == Spec => []WholeUnlessDisturbed
BY InitIInv, NextIInv, IInvImplies, PTL DEF Spec

\* A range reader whose two looks at the key met the same upload is served
\* the range clamped to the size of that upload.
THEOREM RangesServed == Spec => []RangeServesItsInfo
BY InitIInv, NextIInv, IInvImplies, PTL DEF Spec

\* No path of complete(), abort() or put_object_stream forgets a temporary
\* file other than by a failed removal, flush or sidecar write.
THEOREM TempsNotForgotten == Spec => []TempsAccounted
BY InitIInv, NextIInv, IInvImplies, PTL DEF Spec
=============================================================================
