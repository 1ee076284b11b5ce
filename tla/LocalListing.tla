---------------------------- MODULE LocalListing ----------------------------
(***************************************************************************)
(* list_blobs of the local backend: BlobStore::list_blobs (blob.rs) drains *)
(* LocalStorageBackend::list_blobs_page (local.rs), and every page walks   *)
(* the tree again from the prefix, depth first, children in name order,    *)
(* passing over keys up to the continuation token.  Writers and deleters   *)
(* run between any two file-system calls of the walk.                      *)
(*                                                                         *)
(* A path is a sequence of names and a name a sequence of characters, a    *)
(* character being its rank among those used: what matters is that the     *)
(* walk orders siblings name by name while the token is compared with the  *)
(* key as one string, where "/" is a character like any other.             *)
(***************************************************************************)
EXTENDS Naturals, Sequences, FiniteSets, SequencesExt

CONSTANTS Keys,        \* blob keys that writers use, as paths
          Hidden,      \* files under the internal directory, as paths
          Temps,       \* ".uploading" files of writers under way, as paths
          InternalDir, \* the name ".graphql-orm-storage"
          Slash,       \* the rank of "/" among the characters
          Prefix,      \* the prefix listed, as a path (<<>> for all)
          PageLimit,   \* the page size list_blobs asks for (1000 in blob.rs)
          MaxEdits     \* bound: writes and deletions during one listing

Paths == Keys \cup Hidden \cup Temps

ASSUME ListingAssumption ==
  /\ PageLimit \in Nat \ {0}
  /\ MaxEdits \in Nat
  /\ IsFiniteSet(Paths) /\ Keys \cap Temps = {}
  /\ \A p \in Paths : p \in Seq(Seq(Nat)) /\ p # <<>>
  /\ \A p \in Paths : \A q \in Paths : ~IsStrictPrefix(p, q)
  /\ \A p \in Hidden : p[1] = InternalDir
  /\ \A p \in Keys : p[1] # InternalDir
  /\ Prefix \in Seq(Seq(Nat))

VARIABLES files,   \* the files of the tree
          pc,      \* "page", "walk", "done" or "failed"
          token,   \* the continuation token, or <<>>
          stack,   \* paths the walk has still to visit, last one first
          page,    \* keys collected for this page
          out,     \* keys of the pages before
          edits,   \* number of edits so far
          steady,  \* history: keys present since the listing began
          ever     \* history: keys present at some time since then

vars == <<files, pc, token, stack, page, out, edits, steady, ever>>

-----------------------------------------------------------------------------
(* Orders.  Rust compares strings byte by byte, and paths name by name.     *)

SeqLess(s, t) ==
  \E i \in 1..Len(t) :
    /\ \A j \in 1..(i - 1) : j <= Len(s) /\ s[j] = t[j]
    /\ i > Len(s) \/ s[i] < t[i]

\* The key of a path: its names joined by "/".
Key(path) ==
  FoldLeft(LAMBDA acc, name : IF acc = <<>> THEN name ELSE acc \o <<Slash>> \o name,
           <<>>, path)

\* Keys are strings, and a writer's path comes from its key alone.
ASSUME KeyAssumption ==
  /\ \A p \in Keys : Key(p) \in Seq(Nat) /\ Key(p) # <<>>
  /\ \A p \in Keys : \A q \in Keys : Key(p) = Key(q) => p = q

\* The walk meets p before q: they part at names in this order.
WalkedBefore(p, q) ==
  \E n \in 1..Len(p) :
    /\ n <= Len(q) /\ SeqLess(p[n], q[n])
    /\ \A i \in 1..(n - 1) : p[i] = q[i]

Dirs == UNION {{SubSeq(p, 1, i) : i \in 0..(Len(p) - 1)} : p \in Paths}

\* sorted_child_paths: read_dir, sorted.  Directories outlive their files.
Entries(dir) == {p \in files \cup Dirs : Len(p) = Len(dir) + 1 /\ IsPrefix(dir, p)}
Children(dir) ==
  LET before(p) == {q \in Entries(dir) : SeqLess(Last(q), Last(p))}
  IN  [i \in 1..Cardinality(Entries(dir)) |->
         CHOOSE p \in Entries(dir) : Cardinality(before(p)) = i - 1]

IsTemp(path) == path \in Temps

\* Mutant: the internal directory is walked like any other.
NeverInternal(path) == FALSE

IsInternal(path) == path # <<>> /\ path[1] = InternalDir

-----------------------------------------------------------------------------
Init ==
  /\ \E fs \in SUBSET Keys : files = fs \cup Hidden \cup Temps
  /\ pc = "page"
  /\ token = <<>>
  /\ stack = <<>>
  /\ page = <<>>
  /\ out = <<>>
  /\ edits = 0
  /\ steady = files \cap Keys
  /\ ever = files \cap Keys

\* collect_blob_page starts from the root or root/prefix.
StartPage ==
  /\ pc = "page"
  /\ stack' = <<Prefix>>
  /\ page' = <<>>
  /\ pc' = "walk"
  /\ UNCHANGED <<files, token, out, edits, steady, ever>>

\* Mutant: a page is full before the look-ahead key is found.
PageFullEarly == Len(page) = PageLimit

\* Mutant: one key too many is collected.
PageFullLate == Len(page) > PageLimit + 1

\* list_blobs_page asks for one key more than the page holds.
PageFull == Len(page) = PageLimit + 1

\* continuation.is_some_and(|token| key <= token)
Skipped(path) == token # <<>> /\ ~SeqLess(token, Key(path))

\* A file that the walk passes over.
PassedOver(path) == IsInternal(path) \/ IsTemp(path) \/ Skipped(path)

\* Mutant: children pushed in name order, so visited in reverse.
PushedForward(dir) == Children(dir)

\* stack.extend(entries.into_iter().rev())
Pushed(dir) == Reverse(Children(dir))

\* One turn of the loop: pop a path, look at it, and collect it, expand it or
\* pass it over.
Visit ==
  /\ pc = "walk" /\ ~PageFull /\ stack # <<>>
  /\ LET path == Last(stack)
         rest == Front(stack)
     IN  \/ /\ path \in files /\ ~PassedOver(path)
            /\ page' = Append(page, path) /\ stack' = rest
         \/ /\ path \in files /\ PassedOver(path)
            /\ stack' = rest /\ page' = page
         \/ /\ path \in Dirs /\ ~IsInternal(path)
            /\ stack' = rest \o Pushed(path) /\ page' = page
         \/ /\ path \notin files /\ (path \notin Dirs \/ IsInternal(path))
            /\ stack' = rest /\ page' = page
  /\ UNCHANGED <<files, pc, token, out, edits, steady, ever>>

\* metadata or read_dir fails: the listing returns the error.
VisitFails ==
  /\ pc = "walk" /\ ~PageFull /\ stack # <<>> /\ ~IsInternal(Last(stack))
  /\ pc' = "failed"
  /\ UNCHANGED <<files, token, stack, page, out, edits, steady, ever>>

\* Mutant: an empty page is asked for again.
EndPageSkipsEmpty ==
  /\ pc = "walk" /\ (PageFull \/ stack = <<>>)
  /\ IF Len(page) > PageLimit
       THEN /\ out' = out \o SubSeq(page, 1, PageLimit)
            /\ token' = Key(page[PageLimit])
            /\ pc' = "page"
       ELSE /\ out' = out \o page
            /\ token' = <<>>
            /\ pc' = IF page = <<>> THEN "page" ELSE "done"
  /\ page' = <<>> /\ stack' = <<>>
  /\ UNCHANGED <<files, edits, steady, ever>>

\* The walk is over: truncate to the limit, and list_blobs goes on with the
\* last key as its token when there was one more.
EndPage ==
  /\ pc = "walk" /\ (PageFull \/ stack = <<>>)
  /\ IF Len(page) > PageLimit
       THEN /\ out' = out \o SubSeq(page, 1, PageLimit)
            /\ token' = Key(page[PageLimit])
            /\ pc' = "page"
       ELSE /\ out' = out \o page
            /\ token' = <<>>
            /\ pc' = "done"
  /\ page' = <<>> /\ stack' = <<>>
  /\ UNCHANGED <<files, edits, steady, ever>>

\* Another call publishes or removes a blob.
Put(k) ==
  /\ edits < MaxEdits /\ k \notin files
  /\ files' = files \cup {k}
  /\ ever' = ever \cup {k}
  /\ edits' = edits + 1
  /\ UNCHANGED <<pc, token, stack, page, out, steady>>

Delete(k) ==
  /\ edits < MaxEdits /\ k \in files
  /\ files' = files \ {k}
  /\ steady' = steady \ {k}
  /\ edits' = edits + 1
  /\ UNCHANGED <<pc, token, stack, page, out, ever>>

List == StartPage \/ Visit \/ VisitFails \/ EndPage
Edit == \E k \in Keys : Put(k) \/ Delete(k)
Ended == pc \in {"done", "failed"}
Finished == Ended /\ UNCHANGED vars

Next == List \/ (~Ended /\ Edit) \/ Finished

\* The executor keeps polling the listing; nothing has to be written.
Spec == Init /\ [][Next]_vars /\ WF_vars(List)

-----------------------------------------------------------------------------
(* Properties                                                               *)

\* Every variable has its type: a token is the key of some blob, and a page
\* holds at most the one key more than its limit that tells whether it is full.
TypeOK ==
  /\ files \in SUBSET Paths
  /\ pc \in {"page", "walk", "done", "failed"}
  /\ token \in {<<>>} \cup {Key(p) : p \in Keys}
  /\ stack \in Seq(Paths \cup Dirs \cup {Prefix})
  /\ page \in Seq(Paths) /\ Len(page) <= PageLimit + 1
  /\ out \in Seq(Paths)
  /\ edits \in 0..MaxEdits
  /\ steady \subseteq Keys /\ ever \subseteq Keys

\* Whether the walk meets keys in the order in which the token compares them.
OrdersAgree ==
  \A p \in Keys : \A q \in Keys :
    SeqLess(Key(p), Key(q)) => WalkedBefore(p, q)

\* "Lists blob keys under a prefix. An empty prefix lists all blobs."
\* (blob.rs:244): a key that is there from the beginning of the listing to its
\* end is listed, whatever else is written and deleted between the walk's
\* file-system calls and between its pages.
NoKeyLost ==
  pc = "done" => \A k \in steady : IsPrefix(Prefix, k) => Contains(out, k)

\* No key is listed twice, or out of order.
ListedInOrder ==
  \A i \in 1..Len(out) : \A j \in 1..Len(out) :
    i < j => SeqLess(Key(out[i]), Key(out[j]))

\* Only keys are listed that were there at some time during the listing:
\* neither the files of uploads under way nor the internal directory's.
OnlyBlobsListed == \A i \in 1..Len(out) : out[i] \in ever

\* list_blobs comes to an end: every page moves its token forward.
ListingEnds == <>Ended
=============================================================================
