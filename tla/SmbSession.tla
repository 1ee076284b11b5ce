----------------------------- MODULE SmbSession -----------------------------
(***************************************************************************)
(* The session half of SmbStorageBackend (smb.rs): the client that all     *)
(* calls share, the errors that are worth a reconnect, and who reconnects. *)
(* SmbBlobStore has the files; here a call is the sequence of requests it  *)
(* makes, each on the client that it took when it began the request or on  *)
(* a file that it opened with that client.                                 *)
(*                                                                         *)
(* The server may go away and come back.  That breaks every connection, so *)
(* a request on one fails with a retryable error until the client is       *)
(* replaced; any request may also time out, or fail for good.              *)
(***************************************************************************)
EXTENDS Naturals, WaitQueue

CONSTANTS Calls,       \* API calls, each made at most once
          Attempts,    \* reconnect attempts, the length of delays
          MaxOutages,  \* bound on the server going away
          MaxFaults,   \* bound on other failures of requests
          None

ASSUME SessionAssumption ==
  /\ Attempts \in Nat \ {0} /\ MaxOutages \in Nat /\ MaxFaults \in Nat
  /\ None \notin Calls

VARIABLES kind,    \* kind[c]: the operation
          pc,      \* pc[c]: the request it makes next
          using,   \* using[c]: the client of that request
          again,   \* again[c]: open_file is at its second attempt
          error,   \* error[c]: the error that will be returned
          back,    \* back[c]: where a reconnect goes on
          left,    \* left[c]: connection attempts it still has
          queue,   \* reconnect_lock: its holder and those who wait, in order
          cur,     \* the installed client, counted from the first
          alive,   \* the clients with a working connection
          up,      \* the server can be reached
          outages, faults,
          failedOn, \* history: the client whose failure call c reports
          refused,  \* history: calls whose reconnects did not succeed since
          rounds    \* history: rounds[c], reconnects of call c

call == <<kind, pc, using, again, error, back, left>>
session == <<queue, cur, alive>>
world == <<up, outages, faults>>
history == <<failedOn, refused, rounds>>
vars == <<call, session, world, history>>

Kinds == {"put", "create", "get", "head", "delete", "list"}

Init ==
  /\ kind = [c \in Calls |-> None]
  /\ pc = [c \in Calls |-> "idle"]
  /\ using = [c \in Calls |-> 0]
  /\ again = [c \in Calls |-> FALSE]
  /\ error = [c \in Calls |-> "none"]
  /\ back = [c \in Calls |-> "done"]
  /\ left = [c \in Calls |-> 0]
  /\ queue = <<>> /\ cur = 0 /\ alive = {0}
  /\ up = TRUE /\ outages = 0 /\ faults = 0
  /\ failedOn = [c \in Calls |-> 0]
  /\ refused = {}
  /\ rounds = [c \in Calls |-> 0]

-----------------------------------------------------------------------------
(* The requests of each operation.  "dirs" and "targetDirs" stand for the   *)
(* requests of ensure_directories; "open", "openTemp", "cleanup" (in        *)
(* write_file) and "remove" (in put_blob, delete_blob) begin with           *)
(* open_file; the others are made on the file that was opened.              *)

Opens == {"open", "openTemp", "cleanup", "remove"}
Fetches == {"dirs", "create", "targetDirs", "list"} \cup Opens
OnFile == {"write", "close", "rename", "stat", "stream", "unlink"}

\* map_smb_error and map_io_error: timeouts and lost connections are worth a
\* retry, everything else (not found, denied, protocol...) is not.
Errors == {"retry", "final"}

FirstRequest(k) ==
  CASE k \in {"put", "create"} -> "dirs"
    [] k \in {"get", "head"}   -> "open"
    [] k = "delete"            -> "remove"
    [] OTHER                   -> "list"

\* A step <<"reconnect", l>> goes on with l when the reconnect has ended.
\* This is the error arm of put_blob and of put_blob_if_not_exists; put_blob
\* then removes its temporary file, ignoring the result.
ErrorArm(c, e) ==
  LET next == IF kind[c] = "put" THEN "remove" ELSE "done" IN
  IF e = "retry" THEN <<"reconnect", next>> ELSE <<next, "done">>

\* Mutant: a connection that is lost when the file is created or renamed is
\* left for the next call to find.
AfterErrorNoReconnect(c, l, e) ==
  CASE l \in {"dirs", "create", "targetDirs", "openTemp", "rename"} ->
         <<IF kind[c] = "put" THEN "remove" ELSE "done", "done">>
    [] l = "write"   -> <<"cleanup", "done">>
    [] l = "close"   -> IF e = "retry" THEN <<"reconnect", "cleanup">> ELSE <<"cleanup", "done">>
    [] l = "cleanup" -> ErrorArm(c, error[c])
    [] OTHER         -> <<"done", "done">>

\* Where the error e of request l leads.  Reading, listing and deleting return
\* it; write_file cleans up first, and reconnects before that if it was the
\* close that failed.
AfterError(c, l, e) ==
  CASE l \in {"dirs", "create", "targetDirs", "openTemp", "rename"} -> ErrorArm(c, e)
    [] l = "write"   -> <<"cleanup", "done">>
    [] l = "close"   -> IF e = "retry" THEN <<"reconnect", "cleanup">> ELSE <<"cleanup", "done">>
    [] l = "cleanup" -> ErrorArm(c, error[c])
    [] OTHER         -> <<"done", "done">>

\* Where its success leads.
AfterSuccess(c, l) ==
  CASE l = "dirs"       -> <<"create", "done">>
    [] l = "create"     -> <<"write", "done">>
    [] l = "write"      -> <<"close", "done">>
    [] l = "close"      -> <<IF kind[c] = "put" THEN "targetDirs" ELSE "done", "done">>
    [] l = "targetDirs" -> <<"openTemp", "done">>
    [] l = "openTemp"   -> <<"rename", "done">>
    [] l = "open"       -> <<"stat", "done">>
    [] l = "stat"       -> <<IF kind[c] = "get" THEN "stream" ELSE "done", "done">>
    [] l = "cleanup"    -> ErrorArm(c, error[c])
    [] l = "remove"     -> <<IF kind[c] = "delete" THEN "unlink" ELSE "done", "done">>
    [] OTHER            -> <<"done", "done">>

\* Requests that go by path take the installed client when they begin.
Enter(c, label, client) ==
  /\ pc' = [pc EXCEPT ![c] = label]
  /\ using' = IF label \in Fetches THEN [using EXCEPT ![c] = client] ELSE using

AskReconnect(c, then) ==
  /\ pc' = [pc EXCEPT ![c] = "reconnect"]
  /\ back' = [back EXCEPT ![c] = then]
  /\ left' = [left EXCEPT ![c] = Attempts]
  /\ queue' = Append(queue, c)
  /\ rounds' = [rounds EXCEPT ![c] = @ + 1]
  /\ using' = using

Go(c, step) ==
  /\ again' = [again EXCEPT ![c] = FALSE]
  /\ IF step[1] = "reconnect" THEN AskReconnect(c, step[2])
     ELSE Enter(c, step[1], cur) /\ UNCHANGED <<back, left, queue, rounds>>

Invoke(c) ==
  /\ pc[c] = "idle"
  /\ \E k \in Kinds : kind' = [kind EXCEPT ![c] = k] /\ Enter(c, FirstRequest(k), cur)
  /\ UNCHANGED <<again, error, back, left, session, world, history>>

Succeed(c) ==
  /\ pc[c] \in Fetches \cup OnFile /\ using[c] \in alive
  /\ Go(c, AfterSuccess(c, pc[c]))
  /\ UNCHANGED <<kind, error, cur, alive, world, failedOn, refused>>

\* The first error of a call is the one that it returns.
Report(c, e) ==
  IF error[c] = "none" THEN /\ error' = [error EXCEPT ![c] = e]
                            /\ failedOn' = [failedOn EXCEPT ![c] = using[c]]
  ELSE UNCHANGED <<error, failedOn>>

\* Mutant: open_file tries again after every retryable error.
FailRetriesAlways(c) ==
  /\ pc[c] \in Fetches \cup OnFile
  /\ \E e \in Errors :
       /\ \/ using[c] \notin alive /\ e = "retry" /\ faults' = faults
          \/ using[c] \in alive /\ faults < MaxFaults /\ faults' = faults + 1
       /\ IF pc[c] \in Opens /\ e = "retry"
            THEN /\ again' = [again EXCEPT ![c] = TRUE]
                 /\ AskReconnect(c, pc[c])
                 /\ UNCHANGED <<error, failedOn>>
            ELSE Report(c, e) /\ Go(c, AfterError(c, pc[c], e))
  /\ UNCHANGED <<kind, cur, alive, up, outages, refused>>

\* A request fails: over a broken connection always and with a retryable
\* error, over a working one now and then.  open_file reconnects after its
\* first retryable error and tries once more.
Fail(c) ==
  /\ pc[c] \in Fetches \cup OnFile
  /\ \E e \in Errors :
       /\ \/ using[c] \notin alive /\ e = "retry" /\ faults' = faults
          \/ using[c] \in alive /\ faults < MaxFaults /\ faults' = faults + 1
       /\ IF pc[c] \in Opens /\ e = "retry" /\ ~again[c]
            THEN /\ again' = [again EXCEPT ![c] = TRUE]
                 /\ AskReconnect(c, pc[c])
                 /\ UNCHANGED <<error, failedOn>>
            ELSE Report(c, e) /\ Go(c, AfterError(c, pc[c], e))
  /\ UNCHANGED <<kind, cur, alive, up, outages, refused>>

-----------------------------------------------------------------------------
(* reconnect_with_backoff, under reconnect_lock, whose waiters queue.       *)

\* Mutant: the lock is not released.
ConnectKeepsLock(c) ==
  /\ pc[c] = "reconnect" /\ c = Head(queue)
  /\ up
  /\ cur' = cur + 1 /\ alive' = alive \cup {cur + 1}
  /\ Enter(c, back[c], cur + 1)
  /\ refused' = refused \ {c}
  /\ UNCHANGED <<kind, again, error, back, left, queue, world, failedOn, rounds>>

\* Mutant: the new client is not installed.
ConnectForgets(c) ==
  /\ pc[c] = "reconnect" /\ c = Head(queue)
  /\ up
  /\ queue' = Tail(queue)
  /\ Enter(c, back[c], cur)
  /\ refused' = refused \ {c}
  /\ UNCHANGED <<kind, again, error, back, left, cur, alive, world, failedOn, rounds>>

Connect(c) ==
  /\ pc[c] = "reconnect" /\ c = Head(queue)
  /\ up
  /\ cur' = cur + 1 /\ alive' = alive \cup {cur + 1}
  /\ queue' = Tail(queue)
  /\ Enter(c, back[c], cur + 1)
  /\ refused' = refused \ {c}
  /\ UNCHANGED <<kind, again, error, back, left, world, failedOn, rounds>>

\* The reconnect fails with e; open_file returns that error, the error arms
\* ignore it.
Refused(c, e) ==
  /\ queue' = Tail(queue)
  /\ refused' = refused \cup {c}
  /\ IF again[c] THEN /\ Report(c, e)
                      /\ again' = [again EXCEPT ![c] = FALSE]
                      /\ LET s == AfterError(c, back[c], e) IN
                         IF s[1] = "reconnect"
                           THEN /\ pc' = [pc EXCEPT ![c] = "ask"]
                                /\ back' = [back EXCEPT ![c] = s[2]] /\ using' = using
                           ELSE Enter(c, s[1], cur) /\ back' = back
     ELSE Enter(c, back[c], cur) /\ UNCHANGED <<again, error, back, failedOn>>

\* Mutant: the attempts are not counted.
ConnectFailsForever(c) ==
  /\ pc[c] = "reconnect" /\ c = Head(queue)
  /\ ~up
  /\ UNCHANGED vars

\* An attempt fails: a retryable error is worth another attempt.
ConnectFails(c) ==
  /\ pc[c] = "reconnect" /\ c = Head(queue)
  /\ \E e \in Errors :
       /\ \/ ~up /\ e = "retry" /\ faults' = faults
          \/ up /\ faults < MaxFaults /\ faults' = faults + 1
       /\ IF e = "retry" /\ left[c] > 1
            THEN /\ left' = [left EXCEPT ![c] = @ - 1]
                 /\ UNCHANGED <<pc, using, again, error, back, queue, failedOn, refused>>
            ELSE left' = left /\ Refused(c, e)
  /\ UNCHANGED <<kind, cur, alive, up, outages, rounds>>

\* An error arm that follows a failed reconnect takes its place in the queue.
AskAgain(c) ==
  /\ pc[c] = "ask"
  /\ AskReconnect(c, back[c])
  /\ UNCHANGED <<kind, again, error, cur, alive, world, failedOn, refused>>

-----------------------------------------------------------------------------

\* The future of a call is dropped: it leaves the lock or its queue.
Interrupt(c) ==
  /\ pc[c] \notin {"idle", "done"}
  /\ pc' = [pc EXCEPT ![c] = "done"]
  /\ error' = [error EXCEPT ![c] = "dropped"]
  /\ queue' = Leave(queue, c)
  /\ UNCHANGED <<kind, using, again, back, left, cur, alive, world, history>>

\* The server goes away, or comes back, and no connection survives.
Outage ==
  /\ up /\ outages < MaxOutages
  /\ up' \in BOOLEAN
  /\ outages' = outages + 1 /\ alive' = {}
  /\ UNCHANGED <<call, queue, cur, faults, history>>

Recover == ~up /\ up' = TRUE /\ UNCHANGED <<call, session, outages, faults, history>>

Step(c) == Succeed(c) \/ Fail(c) \/ Connect(c) \/ ConnectFails(c) \/ AskAgain(c)

Quiescent == (\A c \in Calls : pc[c] = "done") /\ UNCHANGED vars

Next == (\E c \in Calls : Invoke(c) \/ Step(c) \/ Interrupt(c)) \/ Outage \/ Recover \/ Quiescent

Spec == Init /\ [][Next]_vars

\* Requests and connection attempts are under timeouts, and the lock is given
\* to its first waiter.  The server need not come back.
FairSpec == Spec /\ \A c \in Calls : WF_vars(Step(c))

-----------------------------------------------------------------------------
Labels == {"idle", "reconnect", "ask", "done"} \cup Fetches \cup OnFile

\* Every variable has its type, and the lock's queue has exactly the calls
\* that reconnect, once each.
TypeOK ==
  /\ kind \in [Calls -> Kinds \cup {None}]
  /\ pc \in [Calls -> Labels] /\ back \in [Calls -> Labels]
  /\ using \in [Calls -> 0..cur] /\ failedOn \in [Calls -> 0..cur]
  /\ again \in [Calls -> BOOLEAN]
  /\ error \in [Calls -> {"none", "retry", "final", "dropped"}]
  /\ left \in [Calls -> 0..Attempts]
  /\ queue \in Seq(Calls) /\ OnceEach(queue)
  /\ \A c \in Calls : pc[c] = "reconnect" <=> Waits(queue, c)
  /\ cur \in Nat /\ alive \subseteq 0..cur
  /\ up \in BOOLEAN /\ outages \in 0..MaxOutages /\ faults \in 0..MaxFaults
  /\ refused \subseteq Calls
  /\ rounds \in [Calls -> Nat]

\* "Callers retry with a fresh stream" (docs/native-smb.md): when a write
\* returns a retryable error, the client it failed on has been replaced, so
\* the retry does not meet the same broken connection, unless the last
\* reconnect of the call failed.
RetryFindsNewClient ==
  \A c \in Calls :
    pc[c] = "done" /\ error[c] = "retry" /\ kind[c] \in {"put", "create"} =>
      cur > failedOn[c] \/ c \in refused

\* Calls that fail together each reconnect for themselves, also when another
\* has already replaced the client, but no call does so more than the error
\* paths of its operation allow: a put up to four times (the close of its
\* file, its removal, the error arm, the second removal), and a listing never.
ReconnectBudget ==
  \A c \in Calls : kind[c] # None =>
    rounds[c] <= CASE kind[c] = "put"    -> 4
                   [] kind[c] = "create" -> 3
                   [] kind[c] = "list"   -> 0
                   [] OTHER              -> 1

\* A broken client does not stay: a call whose request by path is about to
\* fail over one has it replaced, unless the call is a listing, the request is
\* open_file's second, the server stays away, the reconnect fails or the call
\* is dropped.
BrokenClientReplaced ==
  \A c \in Calls :
    pc[c] \in Fetches \ {"list"} /\ ~again[c] /\ using[c] \notin alive ~>
      cur \in alive \/ ~up \/ c \in refused \/ error[c] = "dropped"

\* Every call ends, also when it waits for reconnect_lock behind others whose
\* attempts all fail.
EveryCallEnds == \A c \in Calls : pc[c] # "idle" ~> pc[c] = "done"
=============================================================================
