-------------------------- MODULE RemoteStoreSpec --------------------------
(***************************************************************************)
(* What a BlobStore (blob.rs) on a remote provider promises when requests  *)
(* and replies can be lost, delayed and retried: a map from keys to whole  *)
(* bodies, as in BlobStoreSpec, but a call's effect is separate from its   *)
(* answer.  The effect may come before the answer, after it (a request     *)
(* that its sender has given up) and more than once (a retry); an error    *)
(* says nothing about it.  Success is only reported for an effect, and     *)
(* Ok(None) only for a key that is occupied, be it by the call's own body. *)
(***************************************************************************)
CONSTANTS Calls,    \* calls that may be made, each at most once
          Keys,     \* blob keys
          Requests, \* requests a call may carry
          Absent    \* "no blob" / "no request" / "nothing read"

VARIABLES store,    \* store[k]: the body held by key k
          req,      \* req[c]: what call c asks for
          landed,   \* the calls whose effect has taken place
          got,      \* got[c]: the body a reader is served
          ans       \* ans[c]: the answer given to call c

absVars == <<store, req, landed, got, ans>>

Kind(c) == req[c].kind
Writers == {"put", "create", "copy", "delete"}
Source(c) == IF Kind(c) = "copy" THEN req[c].from ELSE req[c].key

AbsInit ==
  /\ store = [k \in Keys |-> Absent]
  /\ req = [c \in Calls |-> Absent]
  /\ landed = {}
  /\ got = [c \in Calls |-> Absent]
  /\ ans = [c \in Calls |-> "none"]

Invoke(c) ==
  /\ req[c] = Absent
  /\ \E r \in Requests : req' = [req EXCEPT ![c] = r]
  /\ UNCHANGED <<store, landed, got, ans>>

\* The whole body of a writer replaces what its key holds; a conditional one
\* only ever fills an empty key.
Effect(c) ==
  /\ req[c] # Absent /\ Kind(c) \in Writers
  /\ Kind(c) = "create" => store[req[c].key] = Absent
  /\ Kind(c) = "copy" => store[Source(c)] # Absent
  /\ store' = [store EXCEPT ![req[c].key] =
                 CASE Kind(c) = "copy"   -> store[Source(c)]
                   [] Kind(c) = "delete" -> Absent
                   [] OTHER              -> c]
  /\ landed' = landed \cup {c}

Land(c) == Effect(c) /\ UNCHANGED <<req, got, ans>>

\* The answer, at the effect or at another time.
Answer(c) ==
  /\ req[c] # Absent /\ ans[c] = "none"
  /\ Effect(c) \/ UNCHANGED <<store, landed>>
  /\ \E a \in {"ok", "exists", "missing", "precondition", "io"} :
       /\ ans' = [ans EXCEPT ![c] = a]
       /\ a = "ok" /\ Kind(c) \in Writers => c \in landed'
       /\ a = "ok" /\ Kind(c) \in {"get", "range"} => got[c] # Absent
       /\ a = "exists" => Kind(c) = "create" /\ store[req[c].key] # Absent
       /\ a = "missing" => Kind(c) \notin {"put", "create", "delete"} /\ store[Source(c)] = Absent
       /\ a = "precondition" => Kind(c) = "range"
  /\ UNCHANGED <<req, got>>

\* A future that is dropped delivers no answer.
Drop(c) ==
  /\ req[c] # Absent
  /\ ans' = [ans EXCEPT ![c] = "dropped"]
  /\ UNCHANGED <<store, req, landed, got>>

\* A reader is served the body that its key holds at one moment.
Look(c) ==
  /\ req[c] # Absent /\ ans[c] = "none" /\ Kind(c) \in {"get", "range"}
  /\ store[req[c].key] # Absent
  /\ got' = [got EXCEPT ![c] = store[req[c].key]]
  /\ UNCHANGED <<store, req, landed, ans>>

AbsNext == \E c \in Calls : Invoke(c) \/ Land(c) \/ Answer(c) \/ Drop(c) \/ Look(c)

AbsSpec == AbsInit /\ [][AbsNext]_absVars
=============================================================================
