----------------------------- MODULE WaitQueue ------------------------------
(***************************************************************************)
(* The waiters of a tokio semaphore or mutex, served first come first      *)
(* served.  A waiter joins at the end (Append), is served at the head      *)
(* (Tail), and leaves from anywhere when its future is dropped.            *)
(***************************************************************************)
EXTENDS Naturals, SequencesExt

Waits(q, c) == \E i \in DOMAIN q : q[i] = c

OnceEach(q) == \A i, j \in DOMAIN q : q[i] = q[j] => i = j

Leave(q, c) == RemoveFirst(q, c)
=============================================================================
