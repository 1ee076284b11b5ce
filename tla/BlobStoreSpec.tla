--------------------------- MODULE BlobStoreSpec ---------------------------
(***************************************************************************)
(* What the BlobStore trait (blob.rs) promises its callers, with no files, *)
(* temporary names or partial writes: a map from keys to whole bodies on   *)
(* which every call takes effect in one atomic step.  A body is named by   *)
(* the call that supplied it.                                              *)
(*                                                                         *)
(* A call is made (Invoke), may look a body up (Look), and is answered     *)
(* once.  A call that is answered with an error has had no effect.  A      *)
(* dropped future simply never reaches its answer.                         *)
(***************************************************************************)
CONSTANTS Calls,    \* calls that may be made, each at most once
          Keys,     \* blob keys
          Requests, \* requests a call may carry: records with kind, key, ...
          Absent    \* "no blob" / "no request" / "nothing looked up"

VARIABLES store,    \* store[k]: the body held by key k
          req,      \* req[c]: what call c asks for
          seen,     \* seen[c]: the body call c has looked up
          ans       \* ans[c]: the answer given to call c

absVars == <<store, req, seen, ans>>

Kind(c) == req[c].kind

AbsInit ==
  /\ store = [k \in Keys |-> Absent]
  /\ req = [c \in Calls |-> Absent]
  /\ seen = [c \in Calls |-> Absent]
  /\ ans = [c \in Calls |-> "none"]

Open(c) == req[c] # Absent /\ ans[c] = "none"

Answer(c, a) == ans' = [ans EXCEPT ![c] = a]

Invoke(c) ==
  /\ req[c] = Absent
  /\ \E r \in Requests : req' = [req EXCEPT ![c] = r]
  /\ UNCHANGED <<store, seen, ans>>

\* put_blob: the whole body replaces whatever the key held.
Put(c) ==
  /\ Open(c) /\ Kind(c) = "put"
  /\ store' = [store EXCEPT ![req[c].key] = c]
  /\ Answer(c, "ok")
  /\ UNCHANGED <<req, seen>>

\* put_blob_if_not_exists: Ok(Some) exactly when the key held nothing.
PutIfAbsent(c) ==
  /\ Open(c) /\ Kind(c) = "create"
  /\ IF store[req[c].key] = Absent
       THEN store' = [store EXCEPT ![req[c].key] = c] /\ Answer(c, "ok")
       ELSE store' = store /\ Answer(c, "exists")
  /\ UNCHANGED <<req, seen>>

Source(c) == IF Kind(c) = "copy" THEN req[c].from ELSE req[c].key

\* get_blob, get_blob_range, copy_blob and head_blob look a body up...
Look(c) ==
  /\ Open(c) /\ Kind(c) \in {"get", "range", "copy"}
  /\ seen[c] = Absent
  /\ IF store[Source(c)] = Absent
       THEN Answer(c, "missing") /\ seen' = seen
       ELSE seen' = [seen EXCEPT ![c] = store[Source(c)]] /\ ans' = ans
  /\ UNCHANGED <<store, req>>

\* ... and a reader is served that body, whatever happens to the key meanwhile.
Serve(c) ==
  /\ Open(c) /\ Kind(c) \in {"get", "range"} /\ seen[c] # Absent
  /\ Answer(c, "ok")
  /\ UNCHANGED <<store, req, seen>>

\* copy_blob: the target receives the whole body that was looked up.
CopyTo(c) ==
  /\ Open(c) /\ Kind(c) = "copy" /\ seen[c] # Absent
  /\ store' = [store EXCEPT ![req[c].key] = seen[c]]
  /\ Answer(c, "ok")
  /\ UNCHANGED <<req, seen>>

Delete(c) ==
  /\ Open(c) /\ Kind(c) = "delete"
  /\ store' = [store EXCEPT ![req[c].key] = Absent]
  /\ Answer(c, "ok")
  /\ UNCHANGED <<req, seen>>

\* head_blob, blob_exists and maintenance leave the map alone.
Observe(c) ==
  /\ Open(c) /\ Kind(c) \in {"head", "sweep"}
  /\ Answer(c, "ok")
  /\ UNCHANGED <<store, req, seen>>

\* A call answered with an error leaves the map alone.
Fail(c) ==
  /\ Open(c)
  /\ Answer(c, "io") \/ (Kind(c) = "range" /\ Answer(c, "precondition"))
  /\ UNCHANGED <<store, req, seen>>

AbsStep(c) ==
  \/ Invoke(c) \/ Put(c) \/ PutIfAbsent(c) \/ Look(c) \/ Serve(c)
  \/ CopyTo(c) \/ Delete(c) \/ Observe(c) \/ Fail(c)

AbsNext == \E c \in Calls : AbsStep(c)

AbsSpec == AbsInit /\ [][AbsNext]_absVars
=============================================================================
