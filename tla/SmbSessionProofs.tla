-------------------------- MODULE SmbSessionProofs --------------------------
(***************************************************************************)
(* Proofs about SmbSession, for any calls, number of connection attempts,  *)
(* outages and failures.                                                   *)
(***************************************************************************)
EXTENDS SmbSession, SequenceLemmas, TLAPS

Writes == {"put", "create"}

\* The reconnects that ReconnectBudget allows an operation.
Budget(k) == CASE k = "put" -> 4 [] k = "create" -> 3 [] k = "list" -> 0 [] OTHER -> 1

\* What a call may have behind it when it is at request l: its operation, the
\* error it will return, and the reconnects it has made.  open_file is allowed
\* one more for its second attempt.
Place(k, e, a, n, l) ==
  LET more == IF a THEN 1 ELSE 0 IN
  /\ l = "idle" => k = None /\ e = "none" /\ n = 0
  /\ l # "idle" => k \in Kinds /\ n <= Budget(k)
  /\ l \in {"dirs", "create", "write", "close"} => k \in Writes /\ e = "none" /\ n = 0
  /\ l = "targetDirs" => k = "put" /\ e = "none" /\ n = 0
  /\ l = "openTemp" => k = "put" /\ e = "none" /\ n <= more
  /\ l = "rename" => k = "put" /\ e = "none" /\ n <= 1
  /\ l = "cleanup" => k \in Writes /\ e # "none" /\ n <= 1 + more
  /\ l = "remove" => \/ k = "put" /\ e # "none" /\ n <= 3 + more
                     \/ k = "delete" /\ n <= more
  /\ l = "unlink" => k = "delete"
  /\ l = "open" => k \in {"get", "head"} /\ n <= more
  /\ l \in {"stat", "stream"} => k \in {"get", "head"}
  /\ l = "list" => k = "list"
  /\ l \notin {"reconnect", "ask"}

\* Who reconnects on the way to l: open_file before its second attempt, or a
\* write that has failed.
Detour(k, e, a, l) ==
  IF a THEN l \in Opens ELSE k \in Writes /\ e # "none" /\ l \in {"cleanup", "remove", "done"}

CallOK(c) ==
  /\ pc[c] \notin {"reconnect", "ask"} => Place(kind[c], error[c], again[c], rounds[c], pc[c])
  /\ pc[c] = "reconnect" => /\ Place(kind[c], error[c], again[c], rounds[c], back[c])
                            /\ Detour(kind[c], error[c], again[c], back[c])
  /\ pc[c] = "ask" => /\ ~again[c] /\ Place(kind[c], error[c], FALSE, rounds[c] + 1, back[c])
                      /\ Detour(kind[c], error[c], FALSE, back[c])

\* A write that will return a retryable error has the client replaced, or is
\* still on its way to a reconnect.
RetryOK(c) ==
  kind[c] \in Writes /\ error[c] = "retry" =>
    cur > failedOn[c] \/ c \in refused \/ pc[c] \in {"reconnect", "ask", "cleanup"}

IInv == TypeOK /\ \A c \in Calls : CallOK(c) /\ RetryOK(c)

-----------------------------------------------------------------------------
(* Where requests lead, from a place that a call may be at.                 *)

\* The error arm of a write that returns e: the reconnect that it makes, if
\* it makes one, is within the budget.
LEMMA ArmPlace ==
  ASSUME NEW c, NEW e, NEW f, f # "none", kind[c] \in Writes,
         NEW n \in Nat, n <= 2, NEW m \in Nat, m = n + 1
  PROVE  LET s == ErrorArm(c, e) IN
         /\ e = "retry" => s[1] = "reconnect"
         /\ s[1] = "reconnect" => Place(kind[c], f, FALSE, m, s[2]) /\ Detour(kind[c], f, FALSE, s[2])
         /\ s[1] # "reconnect" => Place(kind[c], f, FALSE, n, s[1])
         /\ s[1] \in {"reconnect", "remove", "done"} /\ s[2] \in {"remove", "done"}
<1> DEFINE next == IF kind[c] = "put" THEN "remove" ELSE "done"
<1>1. /\ next \in {"remove", "done"} /\ (next = "remove" => kind[c] = "put")
      /\ n <= 3 /\ m <= 3
  OBVIOUS
<1>2. ASSUME NEW i \in Nat, i <= 3 PROVE Place(kind[c], f, FALSE, i, next)
  BY <1>1, <1>2 DEF Place, Writes, Kinds, Budget
<1>3. Detour(kind[c], f, FALSE, next) BY <1>1 DEF Detour
<1>4. ErrorArm(c, e) = IF e = "retry" THEN <<"reconnect", next>> ELSE <<next, "done">>
  BY DEF ErrorArm
<1>5. Place(kind[c], f, FALSE, n, next) /\ Place(kind[c], f, FALSE, m, next) BY <1>1, <1>2
<1> HIDE DEF next
<1>6. CASE e = "retry"
  <2>1. ErrorArm(c, e)[1] = "reconnect" /\ ErrorArm(c, e)[2] = next BY <1>4, <1>6
  <2> QED BY <1>1, <1>3, <1>5, <2>1, Zenon
<1>7. CASE e # "retry"
  <2>1. ErrorArm(c, e)[1] = next /\ ErrorArm(c, e)[2] = "done" BY <1>4, <1>7
  <2>2. next # "reconnect" BY <1>1
  <2> QED BY <1>1, <1>5, <1>7, <2>1, <2>2, Zenon
<1> QED BY <1>6, <1>7

\* What every step of a call owes: the reconnect it asks for, and where it
\* goes on after that, or the request it makes next, are within the budget.
Leads(k, e, n, s) ==
  /\ s[1] = "reconnect" => Place(k, e, FALSE, n + 1, s[2]) /\ Detour(k, e, FALSE, s[2])
  /\ s[1] # "reconnect" => Place(k, e, FALSE, n, s[1])
  /\ s[1] \in Labels \ {"idle", "ask"} /\ s[2] \in Labels

\* A request made where the call may be leads where it may be, when the
\* request succeeds.
LEMMA SuccessLeads ==
  ASSUME NEW c, NEW a \in BOOLEAN, NEW n \in Nat, NEW l \in Fetches \cup OnFile,
         Place(kind[c], error[c], a, n, l)
  PROVE  /\ Leads(kind[c], error[c], n, AfterSuccess(c, l))
         /\ l = "cleanup" /\ error[c] = "retry" => AfterSuccess(c, l)[1] = "reconnect"
<1> DEFINE k == kind[c]
           e == error[c]
           s == AfterSuccess(c, l)
           go(x) == s = <<x, "done">> /\ Place(k, e, FALSE, n, x) /\ x \in Labels \ {"idle", "ask", "reconnect"}
<1>1. ASSUME NEW x, go(x) PROVE Leads(k, e, n, s)
  <2>1. s[1] = x /\ s[2] = "done" /\ x # "reconnect" /\ "done" \in Labels BY <1>1 DEF Labels
  <2>2. Place(k, e, FALSE, n, s[1]) /\ s[1] \in Labels \ {"idle", "ask"} BY <1>1, <2>1, Zenon
  <2> QED BY <2>1, <2>2, Zenon DEF Leads
<1>2. CASE l = "dirs"
  <2>1. go("create") BY <1>2 DEF Place, AfterSuccess, Labels, Fetches, OnFile
  <2> QED BY <1>1, <1>2, <2>1
<1>3. CASE l = "create"
  <2>1. go("write") BY <1>3 DEF Place, AfterSuccess, Labels, Fetches, OnFile
  <2> QED BY <1>1, <1>3, <2>1
<1>4. CASE l = "write"
  <2>1. go("close") BY <1>4 DEF Place, AfterSuccess, Labels, Fetches, OnFile
  <2> QED BY <1>1, <1>4, <2>1
<1>5. CASE l = "close"
  <2>1. CASE k = "put"
    <3>1. go("targetDirs") BY <1>5, <2>1 DEF Place, AfterSuccess, Labels, Fetches, OnFile
    <3> QED BY <1>1, <1>5, <3>1
  <2>2. CASE k # "put"
    <3>1. go("done") BY <1>5, <2>2 DEF Place, AfterSuccess, Labels, Fetches, OnFile
    <3> QED BY <1>1, <1>5, <3>1
  <2> QED BY <2>1, <2>2
<1>6. CASE l = "targetDirs"
  <2>1. go("openTemp") BY <1>6 DEF Place, AfterSuccess, Labels, Fetches, OnFile, Opens
  <2> QED BY <1>1, <1>6, <2>1
<1>7. CASE l = "openTemp"
  <2>1. go("rename") BY <1>7 DEF Place, AfterSuccess, Labels, Fetches, OnFile
  <2> QED BY <1>1, <1>7, <2>1
<1>8. CASE l = "open"
  <2>1. go("stat") BY <1>8 DEF Place, AfterSuccess, Labels, Fetches, OnFile
  <2> QED BY <1>1, <1>8, <2>1
<1>9. CASE l = "stat"
  <2>1. CASE k = "get"
    <3>1. go("stream") BY <1>9, <2>1 DEF Place, AfterSuccess, Labels, Fetches, OnFile
    <3> QED BY <1>1, <1>9, <3>1
  <2>2. CASE k # "get"
    <3>1. go("done") BY <1>9, <2>2 DEF Place, AfterSuccess, Labels, Fetches, OnFile
    <3> QED BY <1>1, <1>9, <3>1
  <2> QED BY <2>1, <2>2
<1>10. CASE l = "cleanup"
  <2>1. s = ErrorArm(c, error[c]) BY <1>10 DEF AfterSuccess
  <2>2. k \in Writes /\ e # "none" /\ n <= 2 BY <1>10 DEF Place
  <2> HIDE DEF s
  <2>3. n + 1 \in Nat /\ n + 1 = n + 1 OBVIOUS
  <2>4. /\ e = "retry" => s[1] = "reconnect"
        /\ s[1] = "reconnect" => Place(k, e, FALSE, n + 1, s[2]) /\ Detour(k, e, FALSE, s[2])
        /\ s[1] # "reconnect" => Place(k, e, FALSE, n, s[1])
        /\ s[1] \in {"reconnect", "remove", "done"} /\ s[2] \in {"remove", "done"}
    BY <2>1, <2>2, <2>3, ArmPlace
  <2> QED BY <2>4 DEF Leads, Labels, Fetches, Opens, s
<1>11. CASE l = "remove"
  <2>1. CASE k = "delete"
    <3>1. go("unlink") BY <1>11, <2>1 DEF Place, AfterSuccess, Labels, Fetches, OnFile
    <3> QED BY <1>1, <1>11, <3>1
  <2>2. CASE k # "delete"
    <3>1. go("done") BY <1>11, <2>2 DEF Place, AfterSuccess, Labels, Fetches, OnFile
    <3> QED BY <1>1, <1>11, <3>1
  <2> QED BY <2>1, <2>2
<1>12. CASE l \in {"rename", "stream", "unlink", "list"}
  <2>1. go("done") BY <1>12 DEF Place, AfterSuccess, Labels, Fetches, OnFile
  <2> QED BY <1>1, <1>12, <2>1
<1> QED
  BY <1>2, <1>3, <1>4, <1>5, <1>6, <1>7, <1>8, <1>9, <1>10, <1>11, <1>12 DEF Fetches, OnFile, Opens

\* So does its failure with e1; f is the error that the call then returns.  A
\* write that has just met a retryable error is sent to reconnect, or to clean
\* up before that.
LEMMA ErrorLeads ==
  ASSUME NEW c, NEW a \in BOOLEAN, NEW n \in Nat, NEW l \in Fetches \cup OnFile,
         Place(kind[c], error[c], a, n, l), NEW e1 \in Errors,
         NEW f, f = IF error[c] = "none" THEN e1 ELSE error[c]
  PROVE  /\ Leads(kind[c], f, n, AfterError(c, l, e1))
         /\ kind[c] \in Writes /\ f = "retry" /\ (error[c] = "none" \/ l = "cleanup") =>
              AfterError(c, l, e1)[1] \in {"reconnect", "cleanup"}
<1> DEFINE k == kind[c]
           s == AfterError(c, l, e1)
           arm(e) == /\ e = "retry" => s[1] = "reconnect"
                     /\ s[1] = "reconnect" => Place(k, f, FALSE, n + 1, s[2]) /\ Detour(k, f, FALSE, s[2])
                     /\ s[1] # "reconnect" => Place(k, f, FALSE, n, s[1])
                     /\ s[1] \in {"reconnect", "remove", "done"} /\ s[2] \in {"remove", "done"}
<1>1. e1 # "none" /\ f # "none" BY DEF Errors
<1>2. n + 1 \in Nat /\ n + 1 = n + 1 OBVIOUS
<1>3. CASE l \in {"dirs", "create", "targetDirs", "openTemp", "rename"}
  <2>1. k \in Writes /\ error[c] = "none" /\ n <= 2 BY <1>3 DEF Place, Writes
  <2>2. s = ErrorArm(c, e1) /\ f = e1 BY <1>3, <2>1 DEF AfterError
  <2> HIDE DEF s
  <2>3. arm(e1) BY <1>1, <1>2, <2>1, <2>2, ArmPlace
  <2> QED BY <2>2, <2>3 DEF Leads, Labels, Fetches, Opens, s
<1>4. CASE l = "write"
  <2>1. k \in Writes /\ error[c] = "none" /\ n = 0 BY <1>4 DEF Place
  <2>2. s = <<"cleanup", "done">> BY <1>4 DEF AfterError
  <2>3. Place(k, f, FALSE, n, "cleanup") BY <1>1, <2>1 DEF Place, Writes, Kinds, Budget
  <2>4. s[1] = "cleanup" /\ s[2] = "done" BY <2>2
  <2> HIDE DEF s
  <2>5. s[1] # "reconnect" /\ s[1] \in Labels \ {"idle", "ask"} /\ s[2] \in Labels
    BY <2>4 DEF Labels, Fetches, Opens
  <2> QED BY <2>3, <2>4, <2>5, Zenon DEF Leads, s
<1>5. CASE l = "close"
  <2>1. k \in Writes /\ error[c] = "none" /\ n = 0 BY <1>5 DEF Place
  <2>2. s = IF e1 = "retry" THEN <<"reconnect", "cleanup">> ELSE <<"cleanup", "done">>
    BY <1>5 DEF AfterError
  <2>3. Place(k, f, FALSE, n, "cleanup") BY <1>1, <2>1 DEF Place, Writes, Kinds, Budget
  <2>4. Place(k, f, FALSE, n + 1, "cleanup") BY <1>1, <2>1 DEF Place, Writes, Kinds, Budget
  <2>5. Detour(k, f, FALSE, "cleanup") BY <1>1, <2>1 DEF Detour
  <2>6. IF e1 = "retry" THEN s[1] = "reconnect" /\ s[2] = "cleanup" ELSE s[1] = "cleanup" /\ s[2] = "done"
    BY <2>2
  <2> HIDE DEF s
  <2>7. s[1] \in {"reconnect", "cleanup"} /\ s[1] \in Labels \ {"idle", "ask"} /\ s[2] \in Labels
    BY <2>6 DEF Labels, Fetches, Opens
  <2>8. s[1] # "reconnect" => s[1] = "cleanup" BY <2>7
  <2>9. s[1] = "reconnect" => s[2] = "cleanup" BY <2>6
  <2> QED BY <2>3, <2>4, <2>5, <2>7, <2>8, <2>9, Zenon DEF Leads, s
<1>6. CASE l = "cleanup"
  <2>1. k \in Writes /\ error[c] # "none" /\ n <= 2 BY <1>6 DEF Place
  <2>2. s = ErrorArm(c, error[c]) /\ f = error[c] BY <1>6, <2>1 DEF AfterError
  <2> HIDE DEF s
  <2>3. arm(f) BY <1>1, <1>2, <2>1, <2>2, ArmPlace
  <2> QED BY <2>2, <2>3 DEF Leads, Labels, Fetches, Opens, s
<1>7. CASE l \in {"open", "stat", "stream", "unlink", "list", "remove"}
  <2>1. s = <<"done", "done">> BY <1>7 DEF AfterError
  <2>2. Place(k, f, FALSE, n, "done") BY <1>7 DEF Place
  <2>3. ~(k \in Writes /\ (error[c] = "none" \/ l = "cleanup"))
    BY <1>7 DEF Place, Writes
  <2>4. s[1] = "done" /\ s[2] = "done" BY <2>1
  <2> HIDE DEF s
  <2>5. s[1] # "reconnect" /\ s[1] \in Labels \ {"idle", "ask"} /\ s[2] \in Labels BY <2>4 DEF Labels
  <2> QED BY <2>2, <2>3, <2>4, <2>5, Zenon DEF Leads, s
<1> QED BY <1>3, <1>4, <1>5, <1>6, <1>7 DEF Fetches, OnFile, Opens

\* open_file has a reconnect left for its second attempt.
LEMMA OpenAgain ==
  ASSUME NEW k, NEW e, NEW n \in Nat, NEW l \in Opens, Place(k, e, FALSE, n, l)
  PROVE  Place(k, e, TRUE, n + 1, l) /\ Detour(k, e, TRUE, l)
<1>1. CASE l = "open" BY <1>1 DEF Place, Detour, Opens, Budget
<1>2. CASE l = "openTemp" BY <1>2 DEF Place, Detour, Opens, Budget
<1>3. CASE l = "cleanup" BY <1>3 DEF Place, Detour, Opens, Budget, Writes
<1>4. CASE l = "remove" BY <1>4 DEF Place, Detour, Opens, Budget
<1> QED BY <1>1, <1>2, <1>3, <1>4 DEF Opens

-----------------------------------------------------------------------------
(* What the parts of a step do to the variables.                            *)

\* The part of TypeOK that says where the calls are and who waits.
WhereOK ==
  /\ pc \in [Calls -> Labels] /\ back \in [Calls -> Labels]
  /\ again \in [Calls -> BOOLEAN] /\ left \in [Calls -> 0..Attempts]
  /\ using \in [Calls -> 0..cur] /\ rounds \in [Calls -> Nat]
  /\ queue \in Seq(Calls) /\ OnceEach(queue)
  /\ \A c \in Calls : pc[c] = "reconnect" <=> Waits(queue, c)

\* What a step of c leaves alone at d.
Keeps(d) ==
  /\ pc'[d] = pc[d] /\ again'[d] = again[d] /\ back'[d] = back[d] /\ rounds'[d] = rounds[d]

LEMMA EnterStep ==
  ASSUME TypeOK, NEW c \in Calls, NEW l \in Labels, cur' \in Nat, cur <= cur',
         NEW v \in 0..cur', Enter(c, l, v)
  PROVE  /\ pc' \in [Calls -> Labels] /\ using' \in [Calls -> 0..cur']
         /\ pc'[c] = l /\ \A d \in Calls \ {c} : pc'[d] = pc[d]
<1>1. using \in [Calls -> 0..cur'] BY DEF TypeOK
<1>2. using' \in [Calls -> 0..cur'] BY <1>1 DEF Enter
<1> QED BY <1>2 DEF TypeOK, Enter

\* A call that does not wait asks for a reconnect.
LEMMA AskStep ==
  ASSUME TypeOK, NEW c \in Calls, NEW l \in Labels, pc[c] # "reconnect", AskReconnect(c, l),
         again' \in [Calls -> BOOLEAN], \A d \in Calls \ {c} : again'[d] = again[d], cur' = cur
  PROVE  /\ WhereOK' /\ \A d \in Calls \ {c} : Keeps(d)
         /\ pc'[c] = "reconnect" /\ back'[c] = l /\ rounds'[c] = rounds[c] + 1
<1>1. ~Waits(queue, c) BY DEF TypeOK
<1>2. queue \in Seq(Calls) /\ OnceEach(queue) /\ queue' = Append(queue, c) BY DEF TypeOK, AskReconnect
<1>3. /\ Append(queue, c) \in Seq(Calls) /\ OnceEach(Append(queue, c))
      /\ \A d : Waits(Append(queue, c), d) <=> Waits(queue, d) \/ d = c
  BY <1>1, <1>2, JoinQueue
<1>4. /\ queue' \in Seq(Calls) /\ OnceEach(queue)' /\ \A d : Waits(queue, d)' <=> Waits(queue, d) \/ d = c
  BY <1>2, <1>3 DEF OnceEach, Waits
<1>5. /\ pc' \in [Calls -> Labels] /\ back' \in [Calls -> Labels] /\ using' \in [Calls -> 0..cur']
      /\ rounds' \in [Calls -> Nat] /\ pc'[c] = "reconnect" /\ back'[c] = l /\ rounds'[c] = rounds[c] + 1
      /\ \A d \in Calls \ {c} : Keeps(d)
  BY DEF TypeOK, AskReconnect, Keeps, Labels
<1>6. left' \in [Calls -> 0..Attempts]
  <2>1. Attempts \in 0..Attempts BY SessionAssumption
  <2> QED BY <2>1 DEF TypeOK, AskReconnect
<1>7. \A d \in Calls : pc'[d] = "reconnect" <=> Waits(queue, d)'
  <2>1. ASSUME NEW d \in Calls PROVE pc'[d] = "reconnect" <=> Waits(queue, d) \/ d = c
    BY <1>5 DEF TypeOK, Keeps
  <2> QED BY <1>4, <2>1
<1> QED BY <1>4, <1>5, <1>6, <1>7 DEF WhereOK

\* A call that does not wait goes where s says.
LEMMA GoStep ==
  ASSUME TypeOK, NEW c \in Calls, NEW s, s[1] \in Labels, s[2] \in Labels, pc[c] # "reconnect",
         Go(c, s), cur' = cur
  PROVE  /\ WhereOK' /\ \A d \in Calls \ {c} : Keeps(d)
         /\ again'[c] = FALSE
         /\ s[1] = "reconnect" => pc'[c] = "reconnect" /\ back'[c] = s[2] /\ rounds'[c] = rounds[c] + 1
         /\ s[1] # "reconnect" => pc'[c] = s[1] /\ rounds'[c] = rounds[c]
<1>1. again' \in [Calls -> BOOLEAN] /\ (\A d \in Calls \ {c} : again'[d] = again[d]) /\ again'[c] = FALSE
  BY DEF Go, TypeOK
<1>2. CASE s[1] = "reconnect"
  <2>1. AskReconnect(c, s[2]) BY <1>2 DEF Go
  <2> QED BY <1>1, <1>2, <2>1, AskStep
<1>3. CASE s[1] # "reconnect"
  <2>1. Enter(c, s[1], cur) /\ UNCHANGED <<back, left, queue, rounds>> BY <1>3 DEF Go
  <2>2. cur' \in Nat /\ cur <= cur' /\ cur \in 0..cur' BY DEF TypeOK
  <2>3. /\ pc' \in [Calls -> Labels] /\ using' \in [Calls -> 0..cur']
        /\ pc'[c] = s[1] /\ \A d \in Calls \ {c} : pc'[d] = pc[d]
    BY <2>1, <2>2, EnterStep
  <2>4. \A d \in Calls : Waits(queue, d)' <=> Waits(queue, d) BY <2>1 DEF Waits
  <2>5. OnceEach(queue)' BY <2>1 DEF OnceEach, TypeOK
  <2>6. WhereOK' BY <1>1, <1>3, <2>1, <2>3, <2>4, <2>5 DEF WhereOK, TypeOK
  <2>7. \A d \in Calls \ {c} : Keeps(d) BY <1>1, <2>1, <2>3 DEF Keeps
  <2> QED BY <1>1, <1>3, <2>1, <2>3, <2>6, <2>7
<1> QED BY <1>2, <1>3

\* The first error is kept, with the client that it was met on.
LEMMA ReportStep ==
  ASSUME TypeOK, NEW c \in Calls, NEW e \in Errors, Report(c, e)
  PROVE  /\ error' \in [Calls -> {"none", "retry", "final", "dropped"}] /\ failedOn' \in [Calls -> 0..cur]
         /\ error'[c] = (IF error[c] = "none" THEN e ELSE error[c])
         /\ error[c] # "none" => failedOn'[c] = failedOn[c]
         /\ \A d \in Calls \ {c} : error'[d] = error[d] /\ failedOn'[d] = failedOn[d]
<1>1. /\ error \in [Calls -> {"none", "retry", "final", "dropped"}] /\ failedOn \in [Calls -> 0..cur]
      /\ using[c] \in 0..cur /\ e \in {"none", "retry", "final", "dropped"}
  BY DEF TypeOK, Errors
<1>2. CASE error[c] = "none"
  <2>1. error' = [error EXCEPT ![c] = e] /\ failedOn' = [failedOn EXCEPT ![c] = using[c]]
    BY <1>2 DEF Report
  <2> QED BY <1>1, <1>2, <2>1
<1>3. CASE error[c] # "none"
  <2>1. error' = error /\ failedOn' = failedOn BY <1>3 DEF Report
  <2> QED BY <1>1, <1>3, <2>1
<1> QED BY <1>2, <1>3

\* Calls that a step does not concern keep what they have.
LEMMA Others ==
  ASSUME IInv, NEW d \in Calls, Keeps(d), kind'[d] = kind[d], error'[d] = error[d],
         failedOn'[d] = failedOn[d], d \in refused' <=> d \in refused, cur' \in Nat, cur <= cur'
  PROVE  CallOK(d)' /\ RetryOK(d)'
<1>1. CallOK(d) /\ RetryOK(d) /\ cur \in Nat /\ failedOn[d] \in 0..cur BY DEF IInv, TypeOK
<1>2. CallOK(d)' BY <1>1 DEF CallOK, Keeps, Place, Detour
<1>3. RetryOK(d)' BY <1>1 DEF RetryOK, Keeps
<1> QED BY <1>2, <1>3

\* A call that goes where s says is where it may be.
LEMMA Landed ==
  ASSUME NEW c, NEW s, NEW k, NEW e, kind'[c] = k, error'[c] = e, NEW n \in Nat, rounds[c] = n,
         Leads(k, e, n, s), again'[c] = FALSE,
         s[1] = "reconnect" => pc'[c] = "reconnect" /\ back'[c] = s[2] /\ rounds'[c] = rounds[c] + 1,
         s[1] # "reconnect" => pc'[c] = s[1] /\ rounds'[c] = rounds[c]
  PROVE  CallOK(c)'
<1>1. CASE s[1] = "reconnect"
  <2>1. /\ Place(k, e, FALSE, n + 1, s[2]) /\ Detour(k, e, FALSE, s[2]) /\ rounds'[c] = n + 1
    BY <1>1 DEF Leads
  <2> QED BY <1>1, <2>1 DEF CallOK, Place, Detour
<1>2. CASE s[1] # "reconnect"
  <2>1. Place(k, e, FALSE, n, s[1]) /\ s[1] \notin {"reconnect", "ask"} BY <1>2 DEF Leads
  <2> QED BY <1>2, <2>1 DEF CallOK, Place
<1> QED BY <1>1, <1>2

-----------------------------------------------------------------------------
(* One lemma for each action.                                               *)

LEMMA SucceedKeeps ==
  ASSUME IInv, NEW c \in Calls, Succeed(c)
  PROVE  IInv'
<1> DEFINE s == AfterSuccess(c, pc[c])
<1>1. /\ pc[c] \in Fetches \cup OnFile /\ Go(c, s)
      /\ UNCHANGED <<kind, error, cur, alive, up, outages, faults, failedOn, refused>>
  BY DEF Succeed, world
<1>2. TypeOK /\ CallOK(c) /\ RetryOK(c) /\ again[c] \in BOOLEAN /\ rounds[c] \in Nat
  BY DEF IInv, TypeOK
<1>3. pc[c] \notin {"reconnect", "ask", "idle", "done"} BY <1>1 DEF Fetches, OnFile, Opens
<1>4. Place(kind[c], error[c], again[c], rounds[c], pc[c]) BY <1>2, <1>3 DEF CallOK
<1>5. /\ Leads(kind[c], error[c], rounds[c], s)
      /\ pc[c] = "cleanup" /\ error[c] = "retry" => s[1] = "reconnect"
  BY <1>1, <1>2, <1>4, SuccessLeads
<1> HIDE DEF s
<1>6. s[1] \in Labels /\ s[2] \in Labels BY <1>5 DEF Leads
<1>7. /\ WhereOK' /\ \A d \in Calls \ {c} : Keeps(d)
      /\ again'[c] = FALSE
      /\ s[1] = "reconnect" => pc'[c] = "reconnect" /\ back'[c] = s[2] /\ rounds'[c] = rounds[c] + 1
      /\ s[1] # "reconnect" => pc'[c] = s[1] /\ rounds'[c] = rounds[c]
  BY <1>1, <1>2, <1>3, <1>6, GoStep
<1>8. TypeOK' BY <1>1, <1>2, <1>7 DEF TypeOK, WhereOK
<1>9. CallOK(c)' BY <1>1, <1>2, <1>5, <1>7, Landed
<1>10. RetryOK(c)' BY <1>1, <1>2, <1>3, <1>5, <1>7 DEF RetryOK
<1>11. ASSUME NEW d \in Calls \ {c} PROVE CallOK(d)' /\ RetryOK(d)'
  BY <1>1, <1>2, <1>7, Others DEF TypeOK
<1> QED BY <1>8, <1>9, <1>10, <1>11 DEF IInv

LEMMA FailKeeps ==
  ASSUME IInv, NEW c \in Calls, Fail(c)
  PROVE  IInv'
<1>1. PICK e \in Errors :
       /\ \/ using[c] \notin alive /\ e = "retry" /\ faults' = faults
          \/ using[c] \in alive /\ faults < MaxFaults /\ faults' = faults + 1
       /\ IF pc[c] \in Opens /\ e = "retry" /\ ~again[c]
            THEN /\ again' = [again EXCEPT ![c] = TRUE]
                 /\ AskReconnect(c, pc[c])
                 /\ UNCHANGED <<error, failedOn>>
            ELSE Report(c, e) /\ Go(c, AfterError(c, pc[c], e))
  BY DEF Fail
<1>2. pc[c] \in Fetches \cup OnFile /\ UNCHANGED <<kind, cur, alive, up, outages, refused>> BY DEF Fail
<1>3. TypeOK /\ CallOK(c) /\ RetryOK(c) /\ again[c] \in BOOLEAN /\ rounds[c] \in Nat
  BY DEF IInv, TypeOK
<1>4. pc[c] \notin {"reconnect", "ask", "idle", "done"} BY <1>2 DEF Fetches, OnFile, Opens
<1>5. Place(kind[c], error[c], again[c], rounds[c], pc[c]) BY <1>3, <1>4 DEF CallOK
<1>6. faults' \in 0..MaxFaults BY <1>1, <1>3, SessionAssumption DEF TypeOK
<1>7. CASE pc[c] \in Opens /\ e = "retry" /\ ~again[c]
  <2>1. /\ again' = [again EXCEPT ![c] = TRUE] /\ AskReconnect(c, pc[c]) /\ UNCHANGED <<error, failedOn>>
    BY <1>1, <1>7
  <2>2. again' \in [Calls -> BOOLEAN] /\ (\A d \in Calls \ {c} : again'[d] = again[d]) /\ again'[c] = TRUE
    BY <1>3, <2>1 DEF TypeOK
  <2>3. pc[c] \in Labels BY <1>3 DEF TypeOK
  <2>4. /\ WhereOK' /\ \A d \in Calls \ {c} : Keeps(d)
        /\ pc'[c] = "reconnect" /\ back'[c] = pc[c] /\ rounds'[c] = rounds[c] + 1
    BY <1>2, <1>3, <1>4, <2>1, <2>2, <2>3, AskStep
  <2>5. again[c] = FALSE BY <1>3, <1>7
  <2>6. Place(kind[c], error[c], FALSE, rounds[c], pc[c]) BY <1>5, <2>5 DEF Place
  <2>7. Place(kind[c], error[c], TRUE, rounds[c] + 1, pc[c]) /\ Detour(kind[c], error[c], TRUE, pc[c])
    BY <1>3, <1>7, <2>6, OpenAgain
  <2>8. TypeOK' BY <1>2, <1>3, <1>6, <2>1, <2>4 DEF TypeOK, WhereOK
  <2>9. CallOK(c)' BY <1>2, <2>1, <2>2, <2>4, <2>7 DEF CallOK, Place, Detour
  <2>10. RetryOK(c)' BY <2>4 DEF RetryOK
  <2>11. ASSUME NEW d \in Calls \ {c} PROVE CallOK(d)' /\ RetryOK(d)'
    BY <1>2, <1>3, <2>1, <2>4, Others DEF TypeOK
  <2> QED BY <2>8, <2>9, <2>10, <2>11 DEF IInv
<1>8. CASE ~(pc[c] \in Opens /\ e = "retry" /\ ~again[c])
  <2> DEFINE s == AfterError(c, pc[c], e)
             f == IF error[c] = "none" THEN e ELSE error[c]
  <2>1. Report(c, e) /\ Go(c, s) BY <1>1, <1>8
  <2>2. /\ Leads(kind[c], f, rounds[c], s)
        /\ kind[c] \in Writes /\ f = "retry" /\ (error[c] = "none" \/ pc[c] = "cleanup") =>
             s[1] \in {"reconnect", "cleanup"}
    BY <1>2, <1>3, <1>5, ErrorLeads
  <2> HIDE DEF s
  <2>3. s[1] \in Labels /\ s[2] \in Labels BY <2>2 DEF Leads
  <2>4. /\ WhereOK' /\ \A d \in Calls \ {c} : Keeps(d)
        /\ again'[c] = FALSE
        /\ s[1] = "reconnect" => pc'[c] = "reconnect" /\ back'[c] = s[2] /\ rounds'[c] = rounds[c] + 1
        /\ s[1] # "reconnect" => pc'[c] = s[1] /\ rounds'[c] = rounds[c]
    BY <1>2, <1>3, <1>4, <2>1, <2>3, GoStep
  <2>5. /\ error' \in [Calls -> {"none", "retry", "final", "dropped"}] /\ failedOn' \in [Calls -> 0..cur]
        /\ error'[c] = f /\ (error[c] # "none" => failedOn'[c] = failedOn[c])
        /\ \A d \in Calls \ {c} : error'[d] = error[d] /\ failedOn'[d] = failedOn[d]
    BY <1>3, <2>1, ReportStep
  <2>6. TypeOK' BY <1>2, <1>3, <1>6, <2>4, <2>5 DEF TypeOK, WhereOK
  <2>7. CallOK(c)'
    <3> HIDE DEF f
    <3> QED BY <1>2, <1>3, <2>2, <2>4, <2>5, Landed
  <2>8. RetryOK(c)'
    <3>1. ASSUME kind[c] \in Writes, f = "retry"
          PROVE  cur > failedOn'[c] \/ c \in refused \/ pc'[c] \in {"reconnect", "cleanup"}
      <4>1. CASE error[c] = "none" \/ pc[c] = "cleanup"
        BY <2>2, <2>4, <3>1, <4>1
      <4>2. CASE error[c] # "none" /\ pc[c] # "cleanup"
        BY <1>3, <1>4, <2>5, <3>1, <4>2 DEF RetryOK
      <4> QED BY <4>1, <4>2
    <3> QED BY <1>2, <2>5, <3>1 DEF RetryOK
  <2>9. ASSUME NEW d \in Calls \ {c} PROVE CallOK(d)' /\ RetryOK(d)'
    BY <1>2, <1>3, <2>4, <2>5, Others DEF TypeOK
  <2> QED BY <2>6, <2>7, <2>8, <2>9 DEF IInv
<1> QED BY <1>7, <1>8

LEMMA InvokeKeeps ==
  ASSUME IInv, NEW c \in Calls, Invoke(c)
  PROVE  IInv'
<1>1. PICK k \in Kinds : kind' = [kind EXCEPT ![c] = k] /\ Enter(c, FirstRequest(k), cur) BY DEF Invoke
<1>2. /\ pc[c] = "idle"
      /\ UNCHANGED <<again, error, back, left, queue, cur, alive, up, outages, faults, failedOn, refused, rounds>>
  BY DEF Invoke, session, world, history
<1>3. TypeOK /\ CallOK(c) BY DEF IInv
<1>4. kind[c] = None /\ error[c] = "none" /\ rounds[c] = 0 BY <1>2, <1>3 DEF CallOK, Place
<1>5. Place(k, "none", again[c], 0, FirstRequest(k)) /\ FirstRequest(k) \in {"dirs", "open", "remove", "list"}
  <2>1. CASE k \in {"put", "create"} BY <2>1 DEF FirstRequest, Place, Writes, Kinds, Budget
  <2>2. CASE k \in {"get", "head"} BY <2>2 DEF FirstRequest, Place, Writes, Kinds, Budget
  <2>3. CASE k = "delete" BY <2>3 DEF FirstRequest, Place, Writes, Kinds, Budget
  <2>4. CASE k = "list" BY <2>4 DEF FirstRequest, Place, Writes, Kinds, Budget
  <2> QED BY <2>1, <2>2, <2>3, <2>4 DEF Kinds
<1>6. /\ FirstRequest(k) \in Labels /\ FirstRequest(k) \notin {"reconnect", "ask"}
      /\ cur' \in Nat /\ cur <= cur' /\ cur \in 0..cur'
  BY <1>2, <1>3, <1>5 DEF Labels, Fetches, Opens, TypeOK
<1>7. /\ pc' \in [Calls -> Labels] /\ using' \in [Calls -> 0..cur']
      /\ pc'[c] = FirstRequest(k) /\ \A d \in Calls \ {c} : pc'[d] = pc[d]
  BY <1>1, <1>3, <1>6, EnterStep
<1>8. /\ kind' \in [Calls -> Kinds \cup {None}] /\ kind'[c] = k
      /\ \A d \in Calls \ {c} : kind'[d] = kind[d]
  BY <1>1, <1>3 DEF TypeOK
<1>9. /\ (\A d \in Calls : Waits(queue, d)' <=> Waits(queue, d)) /\ OnceEach(queue)'
  BY <1>2, <1>3 DEF Waits, OnceEach, TypeOK
<1>10. TypeOK' BY <1>2, <1>3, <1>6, <1>7, <1>8, <1>9 DEF TypeOK
<1>11. CallOK(c)'
  <2>1. /\ pc'[c] = FirstRequest(k) /\ kind'[c] = k /\ error'[c] = "none" /\ again'[c] = again[c]
        /\ rounds'[c] = 0
    BY <1>2, <1>4, <1>7, <1>8
  <2> QED BY <1>5, <1>6, <2>1 DEF CallOK, Place
<1>12. RetryOK(c)' BY <1>2, <1>4 DEF RetryOK
<1>13. ASSUME NEW d \in Calls \ {c} PROVE CallOK(d)' /\ RetryOK(d)'
  <2>1. Keeps(d) BY <1>2, <1>7 DEF Keeps
  <2> QED BY <1>2, <1>6, <1>8, <2>1, Others
<1> QED BY <1>10, <1>11, <1>12, <1>13 DEF IInv

\* The call at the head of the queue releases the lock.
LEMMA Released ==
  ASSUME TypeOK, NEW c \in Calls, pc[c] = "reconnect", c = Head(queue), queue' = Tail(queue),
         pc'[c] # "reconnect", \A d \in Calls \ {c} : pc'[d] = pc[d]
  PROVE  /\ queue' \in Seq(Calls) /\ OnceEach(queue)'
         /\ \A d \in Calls : pc'[d] = "reconnect" <=> Waits(queue, d)'
<1>1. queue \in Seq(Calls) /\ OnceEach(queue) /\ Waits(queue, c) BY DEF TypeOK
<1>2. queue # <<>> BY <1>1, EmptyQueue
<1>3. /\ Tail(queue) \in Seq(Calls) /\ OnceEach(Tail(queue))
      /\ \A d : Waits(Tail(queue), d) <=> Waits(queue, d) /\ d # Head(queue)
  BY <1>1, <1>2, ServeQueue
<1>4. /\ queue' \in Seq(Calls) /\ OnceEach(queue)' /\ \A d : Waits(queue, d)' <=> Waits(queue, d) /\ d # c
  BY <1>3 DEF OnceEach, Waits
<1>5. ASSUME NEW d \in Calls PROVE pc'[d] = "reconnect" <=> Waits(queue, d) /\ d # c BY DEF TypeOK
<1> QED BY <1>4, <1>5

LEMMA ConnectKeeps ==
  ASSUME IInv, NEW c \in Calls, Connect(c)
  PROVE  IInv'
<1>1. /\ pc[c] = "reconnect" /\ c = Head(queue) /\ cur' = cur + 1 /\ alive' = alive \cup {cur + 1}
      /\ queue' = Tail(queue) /\ Enter(c, back[c], cur + 1) /\ refused' = refused \ {c}
      /\ UNCHANGED <<kind, again, error, back, left, up, outages, faults, failedOn, rounds>>
  BY DEF Connect, world
<1>2. TypeOK /\ CallOK(c) BY DEF IInv
<1>3. Place(kind[c], error[c], again[c], rounds[c], back[c]) /\ back[c] \notin {"reconnect", "ask"}
  BY <1>1, <1>2 DEF CallOK, Place
<1>4. back[c] \in Labels /\ cur' \in Nat /\ cur <= cur' /\ cur + 1 \in 0..cur' BY <1>1, <1>2 DEF TypeOK
<1>5. /\ pc' \in [Calls -> Labels] /\ using' \in [Calls -> 0..cur']
      /\ pc'[c] = back[c] /\ \A d \in Calls \ {c} : pc'[d] = pc[d]
  BY <1>1, <1>2, <1>4, EnterStep
<1>6. /\ queue' \in Seq(Calls) /\ OnceEach(queue)'
      /\ \A d \in Calls : pc'[d] = "reconnect" <=> Waits(queue, d)'
  BY <1>1, <1>2, <1>3, <1>5, Released
<1>7. failedOn' \in [Calls -> 0..cur'] /\ alive' \subseteq 0..cur' /\ refused' \subseteq Calls
  <2>1. cur \in Nat /\ alive \subseteq 0..cur /\ failedOn \in [Calls -> 0..cur] /\ refused \subseteq Calls
    BY <1>2 DEF TypeOK
  <2>2. 0..cur \subseteq 0..(cur + 1) /\ cur + 1 \in 0..(cur + 1) BY <2>1
  <2>3. alive' \subseteq 0..cur' /\ refused' \subseteq Calls BY <1>1, <2>1, <2>2
  <2>4. failedOn' \in [Calls -> 0..cur'] BY <1>1, <2>1, <2>2
  <2> QED BY <2>3, <2>4
<1>8. TypeOK' BY <1>1, <1>2, <1>4, <1>5, <1>6, <1>7 DEF TypeOK
<1>9. CallOK(c)' BY <1>1, <1>3, <1>5 DEF CallOK, Place
<1>10. RetryOK(c)' BY <1>1, <1>2 DEF RetryOK, TypeOK
<1>11. ASSUME NEW d \in Calls \ {c} PROVE CallOK(d)' /\ RetryOK(d)'
  <2>1. Keeps(d) /\ (d \in refused' <=> d \in refused) BY <1>1, <1>5 DEF Keeps
  <2> QED BY <1>1, <1>4, <2>1, Others
<1> QED BY <1>8, <1>9, <1>10, <1>11 DEF IInv

LEMMA RefusedKeeps ==
  ASSUME IInv, NEW c \in Calls, NEW e \in Errors, pc[c] = "reconnect", c = Head(queue), Refused(c, e),
         faults' \in 0..MaxFaults, UNCHANGED <<kind, left, cur, alive, up, outages, rounds>>
  PROVE  IInv'
<1>1. TypeOK /\ CallOK(c) /\ again[c] \in BOOLEAN /\ rounds[c] \in Nat /\ queue' = Tail(queue)
  BY DEF IInv, TypeOK, Refused
<1>2. /\ Place(kind[c], error[c], again[c], rounds[c], back[c]) /\ back[c] \notin {"reconnect", "ask"}
      /\ Detour(kind[c], error[c], again[c], back[c])
  BY <1>1 DEF CallOK, Place
<1>3. refused' \subseteq Calls /\ c \in refused' /\ \A d \in Calls \ {c} : d \in refused' <=> d \in refused
  BY <1>1 DEF Refused, TypeOK
<1>4. back[c] \in Labels /\ cur' \in Nat /\ cur <= cur' /\ cur \in 0..cur' BY <1>1 DEF TypeOK
<1>5. RetryOK(c)' BY <1>3 DEF RetryOK
<1>6. CASE ~again[c]
  <2>1. Enter(c, back[c], cur) /\ UNCHANGED <<again, error, back, failedOn>> BY <1>6 DEF Refused
  <2>2. /\ pc' \in [Calls -> Labels] /\ using' \in [Calls -> 0..cur']
        /\ pc'[c] = back[c] /\ \A d \in Calls \ {c} : pc'[d] = pc[d]
    BY <1>1, <1>4, <2>1, EnterStep
  <2>3. /\ queue' \in Seq(Calls) /\ OnceEach(queue)'
        /\ \A d \in Calls : pc'[d] = "reconnect" <=> Waits(queue, d)'
    BY <1>1, <1>2, <2>2, Released
  <2>4. TypeOK' BY <1>1, <1>3, <2>1, <2>2, <2>3 DEF TypeOK
  <2>5. CallOK(c)' BY <1>2, <2>1, <2>2 DEF CallOK, Place
  <2>6. ASSUME NEW d \in Calls \ {c} PROVE CallOK(d)' /\ RetryOK(d)'
    <3>1. Keeps(d) BY <2>1, <2>2 DEF Keeps
    <3> QED BY <1>3, <1>4, <2>1, <3>1, Others
  <2> QED BY <1>5, <2>4, <2>5, <2>6 DEF IInv
<1>7. CASE again[c]
  <2> DEFINE s == AfterError(c, back[c], e)
             f == IF error[c] = "none" THEN e ELSE error[c]
  <2>1. /\ Report(c, e) /\ again' = [again EXCEPT ![c] = FALSE]
        /\ IF s[1] = "reconnect" THEN /\ pc' = [pc EXCEPT ![c] = "ask"]
                                      /\ back' = [back EXCEPT ![c] = s[2]] /\ using' = using
           ELSE Enter(c, s[1], cur) /\ back' = back
    BY <1>7 DEF Refused
  <2>2. back[c] \in Fetches \cup OnFile BY <1>2, <1>7 DEF Detour, Fetches
  <2>3. Leads(kind[c], f, rounds[c], s) BY <1>1, <1>2, <2>2, ErrorLeads
  <2> HIDE DEF s
  <2>4. s[1] \in Labels \ {"ask"} /\ s[2] \in Labels BY <2>3 DEF Leads
  <2>5. /\ error' \in [Calls -> {"none", "retry", "final", "dropped"}] /\ failedOn' \in [Calls -> 0..cur]
        /\ error'[c] = f /\ \A d \in Calls \ {c} : error'[d] = error[d] /\ failedOn'[d] = failedOn[d]
    BY <1>1, <2>1, ReportStep
  <2>6. again' \in [Calls -> BOOLEAN] /\ (\A d \in Calls \ {c} : again'[d] = again[d]) /\ again'[c] = FALSE
    BY <1>1, <2>1 DEF TypeOK
  <2>7. /\ pc' \in [Calls -> Labels] /\ back' \in [Calls -> Labels] /\ using' \in [Calls -> 0..cur']
        /\ \A d \in Calls \ {c} : pc'[d] = pc[d] /\ back'[d] = back[d]
        /\ s[1] = "reconnect" => pc'[c] = "ask" /\ back'[c] = s[2]
        /\ s[1] # "reconnect" => pc'[c] = s[1]
    <3>1. CASE s[1] = "reconnect" BY <1>1, <2>1, <2>4, <3>1 DEF TypeOK, Labels
    <3>2. CASE s[1] # "reconnect"
      <4>1. Enter(c, s[1], cur) /\ back' = back BY <2>1, <3>2
      <4>2. /\ pc' \in [Calls -> Labels] /\ using' \in [Calls -> 0..cur']
            /\ pc'[c] = s[1] /\ \A d \in Calls \ {c} : pc'[d] = pc[d]
        BY <1>1, <1>4, <2>4, <4>1, EnterStep
      <4> QED BY <1>1, <3>2, <4>1, <4>2 DEF TypeOK
    <3> QED BY <3>1, <3>2
  <2>8. pc'[c] # "reconnect" BY <2>7
  <2>9. /\ queue' \in Seq(Calls) /\ OnceEach(queue)'
        /\ \A d \in Calls : pc'[d] = "reconnect" <=> Waits(queue, d)'
    BY <1>1, <2>7, <2>8, Released
  <2>10. TypeOK' BY <1>1, <1>3, <2>5, <2>6, <2>7, <2>9 DEF TypeOK
  <2>11. CallOK(c)'
    <3> HIDE DEF f
    <3>1. CASE s[1] = "reconnect"
      <4>1. Place(kind[c], f, FALSE, rounds[c] + 1, s[2]) /\ Detour(kind[c], f, FALSE, s[2])
        BY <2>3, <3>1 DEF Leads
      <4> QED BY <2>5, <2>6, <2>7, <3>1, <4>1 DEF CallOK, Place, Detour
    <3>2. CASE s[1] # "reconnect"
      <4>1. Place(kind[c], f, FALSE, rounds[c], s[1]) BY <2>3, <3>2 DEF Leads
      <4> QED BY <2>4, <2>5, <2>6, <2>7, <3>2, <4>1 DEF CallOK, Place
    <3> QED BY <3>1, <3>2
  <2>12. ASSUME NEW d \in Calls \ {c} PROVE CallOK(d)' /\ RetryOK(d)'
    <3>1. Keeps(d) BY <2>6, <2>7 DEF Keeps
    <3> QED BY <1>3, <1>4, <2>5, <3>1, Others
  <2> QED BY <1>5, <2>10, <2>11, <2>12 DEF IInv
<1> QED BY <1>6, <1>7

LEMMA ConnectFailsKeeps ==
  ASSUME IInv, NEW c \in Calls, ConnectFails(c)
  PROVE  IInv'
<1>1. PICK e \in Errors :
       /\ \/ ~up /\ e = "retry" /\ faults' = faults
          \/ up /\ faults < MaxFaults /\ faults' = faults + 1
       /\ IF e = "retry" /\ left[c] > 1
            THEN /\ left' = [left EXCEPT ![c] = @ - 1]
                 /\ UNCHANGED <<pc, using, again, error, back, queue, failedOn, refused>>
            ELSE left' = left /\ Refused(c, e)
  BY DEF ConnectFails
<1>2. pc[c] = "reconnect" /\ c = Head(queue) /\ UNCHANGED <<kind, cur, alive, up, outages, rounds>>
  BY DEF ConnectFails
<1>3. TypeOK BY DEF IInv
<1>4. faults' \in 0..MaxFaults BY <1>1, <1>3, SessionAssumption DEF TypeOK
<1>5. CASE e = "retry" /\ left[c] > 1
  <2>1. /\ left' = [left EXCEPT ![c] = @ - 1]
        /\ UNCHANGED <<pc, using, again, error, back, queue, failedOn, refused>>
    BY <1>1, <1>5
  <2>2. left[c] - 1 \in 0..Attempts BY <1>3, <1>5, SessionAssumption DEF TypeOK
  <2>3. left' \in [Calls -> 0..Attempts] BY <1>3, <2>1, <2>2 DEF TypeOK
  <2>4. (\A d \in Calls : Waits(queue, d)' <=> Waits(queue, d)) /\ OnceEach(queue)'
    BY <1>3, <2>1 DEF Waits, OnceEach, TypeOK
  <2>5. TypeOK' BY <1>2, <1>3, <1>4, <2>1, <2>3, <2>4 DEF TypeOK
  <2>6. ASSUME NEW d \in Calls PROVE CallOK(d)' /\ RetryOK(d)'
    <3>1. Keeps(d) /\ cur' \in Nat /\ cur <= cur' BY <1>2, <1>3, <2>1 DEF Keeps, TypeOK
    <3> QED BY <1>2, <2>1, <3>1, Others
  <2> QED BY <2>5, <2>6 DEF IInv
<1>6. CASE ~(e = "retry" /\ left[c] > 1)
  <2>1. left' = left /\ Refused(c, e) BY <1>1, <1>6
  <2> QED BY <1>2, <1>4, <2>1, RefusedKeeps
<1> QED BY <1>5, <1>6

LEMMA AskAgainKeeps ==
  ASSUME IInv, NEW c \in Calls, AskAgain(c)
  PROVE  IInv'
<1>1. /\ pc[c] = "ask" /\ AskReconnect(c, back[c])
      /\ UNCHANGED <<kind, again, error, cur, alive, up, outages, faults, failedOn, refused>>
  BY DEF AskAgain, world
<1>2. TypeOK /\ CallOK(c) /\ again[c] \in BOOLEAN /\ rounds[c] \in Nat /\ back[c] \in Labels
  BY DEF IInv, TypeOK
<1>3. again' \in [Calls -> BOOLEAN] /\ \A d \in Calls \ {c} : again'[d] = again[d] BY <1>1, <1>2 DEF TypeOK
<1>4. /\ WhereOK' /\ \A d \in Calls \ {c} : Keeps(d)
      /\ pc'[c] = "reconnect" /\ back'[c] = back[c] /\ rounds'[c] = rounds[c] + 1
  BY <1>1, <1>2, <1>3, AskStep
<1>5. TypeOK' BY <1>1, <1>2, <1>4 DEF TypeOK, WhereOK
<1>6. /\ Place(kind[c], error[c], FALSE, rounds[c] + 1, back[c]) /\ Detour(kind[c], error[c], FALSE, back[c])
      /\ again[c] = FALSE
  BY <1>1, <1>2 DEF CallOK
<1>7. CallOK(c)' BY <1>1, <1>4, <1>6 DEF CallOK, Place, Detour
<1>8. RetryOK(c)' BY <1>4 DEF RetryOK
<1>9. ASSUME NEW d \in Calls \ {c} PROVE CallOK(d)' /\ RetryOK(d)'
  <2>1. cur' \in Nat /\ cur <= cur' BY <1>1, <1>2 DEF TypeOK
  <2> QED BY <1>1, <1>4, <2>1, Others
<1> QED BY <1>5, <1>7, <1>8, <1>9 DEF IInv

\* A call that has begun is within its budget.
LEMMA WithinBudget ==
  ASSUME NEW c \in Calls, TypeOK, CallOK(c), pc[c] # "idle"
  PROVE  kind[c] \in Kinds /\ rounds[c] <= Budget(kind[c])
<1>1. rounds[c] \in Nat BY DEF TypeOK
<1>2. CASE pc[c] \notin {"reconnect", "ask"} BY <1>2 DEF CallOK, Place
<1>3. CASE pc[c] = "reconnect"
  <2>1. Place(kind[c], error[c], again[c], rounds[c], back[c]) /\ Detour(kind[c], error[c], again[c], back[c])
    BY <1>3 DEF CallOK
  <2>2. back[c] # "idle" BY <2>1 DEF Detour, Opens
  <2> QED BY <2>1, <2>2 DEF Place
<1>4. CASE pc[c] = "ask"
  <2>1. Place(kind[c], error[c], FALSE, rounds[c] + 1, back[c]) /\ Detour(kind[c], error[c], FALSE, back[c])
    BY <1>4 DEF CallOK
  <2>2. back[c] # "idle" BY <2>1 DEF Detour
  <2>3. kind[c] \in Kinds /\ rounds[c] + 1 <= Budget(kind[c]) BY <2>1, <2>2 DEF Place
  <2>4. Budget(kind[c]) \in Nat BY <2>3 DEF Budget, Kinds
  <2> QED BY <1>1, <2>3, <2>4
<1> QED BY <1>2, <1>3, <1>4

LEMMA InterruptKeeps ==
  ASSUME IInv, NEW c \in Calls, Interrupt(c)
  PROVE  IInv'
<1>1. /\ pc[c] \notin {"idle", "done"} /\ pc' = [pc EXCEPT ![c] = "done"]
      /\ error' = [error EXCEPT ![c] = "dropped"] /\ queue' = Leave(queue, c)
      /\ UNCHANGED <<kind, using, again, back, left, cur, alive, up, outages, faults, failedOn, refused, rounds>>
  BY DEF Interrupt, world, history
<1>2. TypeOK /\ CallOK(c) BY DEF IInv
<1>3. queue \in Seq(Calls) /\ OnceEach(queue) BY <1>2 DEF TypeOK
<1>4. /\ Leave(queue, c) \in Seq(Calls) /\ OnceEach(Leave(queue, c))
      /\ \A d : Waits(Leave(queue, c), d) <=> Waits(queue, d) /\ d # c
  BY <1>3, LeaveQueue
<1>5. /\ queue' \in Seq(Calls) /\ OnceEach(queue)' /\ \A d : Waits(queue, d)' <=> Waits(queue, d) /\ d # c
  BY <1>1, <1>4 DEF OnceEach, Waits
<1>6. /\ pc' \in [Calls -> Labels] /\ pc'[c] = "done" /\ error'[c] = "dropped"
      /\ error' \in [Calls -> {"none", "retry", "final", "dropped"}]
      /\ \A d \in Calls \ {c} : pc'[d] = pc[d] /\ error'[d] = error[d]
  BY <1>1, <1>2 DEF TypeOK, Labels
<1>7. \A d \in Calls : pc'[d] = "reconnect" <=> Waits(queue, d)'
  <2>1. ASSUME NEW d \in Calls PROVE pc'[d] = "reconnect" <=> Waits(queue, d) /\ d # c
    BY <1>2, <1>6 DEF TypeOK
  <2> QED BY <1>5, <2>1
<1>8. TypeOK' BY <1>1, <1>2, <1>5, <1>6, <1>7 DEF TypeOK
<1>9. kind[c] \in Kinds /\ rounds[c] <= Budget(kind[c]) BY <1>1, <1>2, WithinBudget
<1>10. CallOK(c)' BY <1>1, <1>6, <1>9 DEF CallOK, Place, Budget
<1>11. RetryOK(c)' BY <1>6 DEF RetryOK
<1>12. ASSUME NEW d \in Calls \ {c} PROVE CallOK(d)' /\ RetryOK(d)'
  <2>1. Keeps(d) /\ cur' \in Nat /\ cur <= cur' BY <1>1, <1>2, <1>6 DEF Keeps, TypeOK
  <2> QED BY <1>1, <1>6, <2>1, Others
<1> QED BY <1>8, <1>10, <1>11, <1>12 DEF IInv

\* The server's steps leave the calls alone.
LEMMA WorldKeeps ==
  ASSUME IInv, Outage \/ Recover \/ UNCHANGED vars
  PROVE  IInv'
<1>1. /\ UNCHANGED <<kind, pc, using, again, error, back, left, queue, cur, failedOn, refused, rounds>>
      /\ alive' \subseteq 0..cur' /\ up' \in BOOLEAN /\ outages' \in 0..MaxOutages /\ faults' \in 0..MaxFaults
  <2>1. TypeOK BY DEF IInv
  <2>2. CASE Outage BY <2>1, <2>2, SessionAssumption DEF TypeOK, Outage, call, session, history
  <2>3. CASE Recover BY <2>1, <2>3 DEF TypeOK, Recover, call, session, history
  <2>4. CASE UNCHANGED vars BY <2>1, <2>4 DEF TypeOK, vars, call, session, world, history
  <2> QED BY <2>2, <2>3, <2>4
<1>2. TypeOK BY DEF IInv
<1>3. (\A d \in Calls : Waits(queue, d)' <=> Waits(queue, d)) /\ OnceEach(queue)'
  BY <1>1, <1>2 DEF Waits, OnceEach, TypeOK
<1>4. TypeOK' BY <1>1, <1>2, <1>3 DEF TypeOK
<1>5. ASSUME NEW d \in Calls PROVE CallOK(d)' /\ RetryOK(d)'
  <2>1. Keeps(d) /\ cur' \in Nat /\ cur <= cur' BY <1>1, <1>2 DEF Keeps, TypeOK
  <2> QED BY <1>1, <2>1, Others
<1> QED BY <1>4, <1>5 DEF IInv

-----------------------------------------------------------------------------

LEMMA InitOK == Init => IInv
<1> SUFFICES ASSUME Init PROVE IInv OBVIOUS
<1>1. OnceEach(queue) /\ queue \in Seq(Calls) /\ \A c \in Calls : ~Waits(queue, c)
  BY DEF Init, OnceEach, Waits
<1>2. TypeOK BY <1>1, SessionAssumption DEF Init, TypeOK, Labels
<1>3. ASSUME NEW c \in Calls PROVE CallOK(c) /\ RetryOK(c)
  BY DEF Init, CallOK, RetryOK, Place
<1> QED BY <1>2, <1>3 DEF IInv

LEMMA StepOK == IInv /\ [Next]_vars => IInv'
<1> SUFFICES ASSUME IInv, [Next]_vars PROVE IInv' OBVIOUS
<1>1. CASE \E c \in Calls : Invoke(c) \/ Step(c) \/ Interrupt(c)
  <2>1. PICK c \in Calls : Invoke(c) \/ Step(c) \/ Interrupt(c) BY <1>1
  <2> QED
    BY <2>1, InvokeKeeps, SucceedKeeps, FailKeeps, ConnectKeeps, ConnectFailsKeeps, AskAgainKeeps,
       InterruptKeeps DEF Step
<1>2. CASE Outage \/ Recover \/ UNCHANGED vars BY <1>2, WorldKeeps
<1> QED BY <1>1, <1>2 DEF Next, Quiescent

LEMMA Inductive == Spec => []IInv
BY InitOK, StepOK, PTL DEF Spec

\* Every variable keeps its type, and reconnect_lock's queue has exactly the
\* calls that reconnect, once each, for any number of calls.
THEOREM TypeCorrect == Spec => []TypeOK
<1>1. IInv => TypeOK BY DEF IInv
<1> QED BY <1>1, Inductive, PTL

\* A write that returns a retryable error leaves behind another client than
\* the one that failed, or its last reconnect failed.
THEOREM RetryFindsNew == Spec => []RetryFindsNewClient
<1>1. IInv => RetryFindsNewClient BY DEF IInv, RetryOK, RetryFindsNewClient, Writes
<1> QED BY <1>1, Inductive, PTL

\* No call reconnects more often than the error paths of its operation allow,
\* however many calls fail together.
THEOREM ReconnectsBounded == Spec => []ReconnectBudget
<1>1. ASSUME IInv, NEW c \in Calls, kind[c] # None PROVE rounds[c] <= Budget(kind[c])
  <2>1. TypeOK /\ CallOK(c) BY <1>1 DEF IInv
  <2>2. pc[c] # "idle" BY <1>1, <2>1 DEF CallOK, Place
  <2> QED BY <2>1, <2>2, WithinBudget
<1>2. IInv => ReconnectBudget BY <1>1 DEF ReconnectBudget, Budget
<1> QED BY <1>2, Inductive, PTL
=============================================================================
