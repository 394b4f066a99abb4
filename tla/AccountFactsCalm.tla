-------------------------- MODULE AccountFactsCalm --------------------------
(***************************************************************************)
(* AccountFacts with one more history variable: the refreshes that have    *)
(* had the account to themselves.  The actions are those of AccountFacts;  *)
(* `calm` only looks on.  It says what one refresh_account achieves when   *)
(* nothing comes between its steps, whatever overlapping refreshes, failed *)
(* calls and unlinks have left in the tables before it.                    *)
(***************************************************************************)
EXTENDS AccountFacts

VARIABLE calm  \* history: the refreshes under way during which Bluesky has
               \* not changed, nobody else has written, and no call has failed

Watch ==
    calm' = {r \in Refresher :
              /\ ~At(r, "idle")'
              /\ At(r, "idle") \/ (r \in calm /\ UNCHANGED bluesky)
              /\ IF run'[r] = run[r] THEN UNCHANGED facts ELSE UNCHANGED faults}

CalmInit == Init /\ calm = {}
CalmNext == Next /\ Watch

CalmSpec == CalmInit /\ [][CalmNext]_<<vars, calm>>

-----------------------------------------------------------------------------
(* Properties.                                                             *)

\* What Bluesky says, where one read can tell it.
Right(S, said) == Readable(said) => S = said

FlagsRight      == \A e \in Edge : Right(flags[e], graph[e])
MembersRight(C) == \A c \in C : Right(members[c], onIt[c])

\* T is what ten pages of X hold: all there is, or as many as fit.
Told(T, X) ==
    /\ T \subseteq live \cap X
    /\ IF Listable(X) THEN T = live \cap X ELSE Cardinality(T) = PageCap

Current ==
    /\ FlagsRight /\ MembersRight(stored)
    /\ \A X \in {List, Pack} : Told(stored \cap X, X)

\* A refresh that ends in calm leaves the tables as Bluesky is, as far as its
\* reads go: nothing that an earlier refresh left half done, dropped or
\* overwritten outlasts it, no row is there for a collection that is gone, all
\* of them are stored if ten pages hold them and else as many as fit, and no
\* statement of it is refused (refresh_account; "authoritative source",
\* tasks/reconcile.rs:100).
RefreshesAreRight ==
    [][\A r \in calm : ~At(r, "idle") /\ At(r, "idle")' /\ UNCHANGED faults
         => Current']_<<vars, calm>>

\* Its inductive core: how far a calm refresh has got.
Pending(r) == run[r].todo \cup run[r].coll

BeforeLists == {"follower", "followed_back", "relations", "lists"}
Listing(r)  == At(r, "members of lists") \/ (At(r, "write") /\ run[r].coll \subseteq List)
Packing(r)  == At(r, "members of packs") \/ (At(r, "write") /\ run[r].coll \subseteq Pack)

\* The edges: fetched, then written.
EdgesInStep(r) ==
    /\ At(r, "followed_back") => Right(run[r].got["follower"], graph["follower"])
    /\ At(r, "relations") => \A e \in Edge : Right(run[r].got[e], graph[e])
    /\ run[r].at \notin {"follower", "followed_back", "relations"} => FlagsRight

\* The lists: found, stored, the others dropped, and their members written.
ListsInStep(r) ==
    /\ At(r, "upsert lists") \/ At(r, "gc lists") =>
         Told(run[r].found, List) /\ run[r].todo = run[r].found
    /\ At(r, "gc lists") => run[r].found \subseteq stored
    /\ run[r].at \notin BeforeLists \cup {"upsert lists", "gc lists"} => Told(stored \cap List, List)
    /\ Listing(r) => Pending(r) \subseteq stored \cap List /\ MembersRight((stored \cap List) \ Pending(r))
    /\ At(r, "packs") \/ Packing(r) \/ At(r, "gc packs") => MembersRight(stored \cap List)

\* The packs: each stored when its turn comes, the others dropped at the end.
PacksInStep(r) ==
    /\ Packing(r) \/ At(r, "gc packs") => Told(run[r].found, Pack)
    /\ Packing(r) =>
         /\ Pending(r) \subseteq run[r].found
         /\ run[r].found \ run[r].todo \subseteq stored
         /\ MembersRight(run[r].found \ Pending(r))
    /\ At(r, "gc packs") => run[r].found \subseteq stored /\ MembersRight(run[r].found)

\* What is about to be written is the one collection's members.
WriteInStep(r) ==
    IF At(r, "write")
    THEN \E c \in Collection : /\ run[r].coll = {c} /\ c \notin run[r].todo
                               /\ Right(run[r].dids, onIt[c])
    ELSE run[r].coll = {}

CalmInv ==
    /\ calm \subseteq {r \in Refresher : ~At(r, "idle")}
    /\ \A r \in calm : EdgesInStep(r) /\ ListsInStep(r) /\ PacksInStep(r) /\ WriteInStep(r)
=============================================================================
