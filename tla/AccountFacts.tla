---------------------------- MODULE AccountFacts ----------------------------
(***************************************************************************)
(* What the plugin knows of one connected Bluesky account: who follows it, *)
(* whom it follows, and who is on its lists and starter packs.             *)
(* refresh_account (tasks/reconcile.rs) copies that from Bluesky; it runs  *)
(* in the reconcile task of every replica and in every account_sync job,   *)
(* so several refreshes may overlap, and what one has fetched may be older *)
(* than what another has written.                                          *)
(*                                                                         *)
(* Bluesky is external: `graph`, `live` and `onIt` are what it would answer*)
(* at once.  The profile refresh writes nothing a rule of another member   *)
(* reads and is left out.                                                  *)
(***************************************************************************)
EXTENDS Integers, FiniteSets

CONSTANTS
    Viewer,      \* DIDs
    List, Pack,  \* the account's lists and starter packs
    Refresher,   \* refreshes that may run at the same time
    Cap,         \* MAX_FOLLOWERS_PER_ACCOUNT and MAX_MEMBERS_PER_LIST
    PageCap,     \* the lists, or the packs, that ten pages hold
    MaxChanges,  \* bound: changes on Bluesky
    MaxFaults,   \* bound: calls and statements that fail
    MaxUnlinks   \* bound: viewers who unlink

Edge       == {"follower", "followed_back"}
Collection == List \cup Pack

ASSUME ViewerAssumption == IsFiniteSet(Viewer)
ASSUME CollectionAssumption == List \cap Pack = {} /\ IsFiniteSet(Collection)
ASSUME BoundAssumption ==
    /\ Cap \in Nat \ {0} /\ PageCap \in Nat \ {0}
    /\ MaxChanges \in Nat /\ MaxFaults \in Nat /\ MaxUnlinks \in Nat

VARIABLES
    graph, live, onIt,  \* Bluesky: the edges, the collections, their members
    flags,       \* flags[e]: the account_relations rows with that flag
    stored,      \* rows of bsky_lists and bsky_starter_packs
    members,     \* rows of their members tables
    run,         \* run[r]: where refresh r is, with its locals
    leaving,     \* leaving[v]: the next statement of v's verify_unlink
    steady,      \* history: steady[e]: the viewers never out of graph[e]
    known,       \* history: known[e]: the viewers once flagged
    over,        \* history: the edges that were more than a refresh reads
    changes, faults, unlinks

bluesky == <<graph, live, onIt>>
facts   == <<flags, stored, members>>
history == <<steady, known, over>>
budget  == <<changes, faults, unlinks>>
vars    == <<bluesky, facts, run, leaving, history, budget>>

Stage   == {"idle", "follower", "followed_back", "relations", "lists", "upsert lists", "gc lists",
            "members of lists", "packs", "members of packs", "gc packs", "write"}
\* got: what getFollowers and getFollows returned; found: the collections
\* getLists or getStarterPacks returned; todo: those whose members are to be
\* fetched; coll, dids: the one whose members are to be written.
Local   == [at : Stage, got : [Edge -> SUBSET Viewer], found : SUBSET Collection,
            todo : SUBSET Collection, coll : SUBSET Collection, dids : SUBSET Viewer]
Idle    == [at |-> "idle", got |-> [e \in Edge |-> {}], found |-> {}, todo |-> {},
            coll |-> {}, dids |-> {}]

Init ==
    /\ graph \in [Edge -> SUBSET Viewer]
    /\ live \in SUBSET Collection
    /\ onIt \in [Collection -> SUBSET Viewer]
    /\ flags = [e \in Edge |-> {}]
    /\ stored = {} /\ members = [c \in Collection |-> {}]
    /\ run = [r \in Refresher |-> Idle]
    /\ leaving = [v \in Viewer |-> "no"]
    /\ steady = graph /\ known = [e \in Edge |-> {}]
    /\ over = {e \in Edge : Cardinality(graph[e]) > Cap}
    /\ changes = 0 /\ faults = 0 /\ unlinks = 0

-----------------------------------------------------------------------------
(* refresh_account.                                                        *)

At(r, stage)     == run[r].at = stage
Become(r, local) == run' = [run EXCEPT ![r] = local]
Goto(r, stage)   == Become(r, [run[r] EXCEPT !.at = stage])
Done(r)          == Become(r, Idle)

\* Mutant of Read: an answer that stops half way is taken for whole.
ReadPartly(S, n) == {T \in SUBSET S : Cardinality(T) <= n}

\* A paginated read stops at its limit, and its answer is as good as whole.
Read(S, n) == {T \in SUBSET S : Cardinality(T) <= n /\ (T = S \/ Cardinality(T) = n)}

\* valid_access_jwt returned a token.
Begin(r) ==
    /\ At(r, "idle") /\ Become(r, [Idle EXCEPT !.at = "follower"])
    /\ UNCHANGED <<bluesky, facts, leaving, history, budget>>

\* Mutant of GetEdges: the second answer takes the place of the first.
GetEdgesOverwriting(r, e) ==
    /\ At(r, e)
    /\ \E answer \in Read(graph[e], Cap) :
         Become(r, [run[r] EXCEPT !.at = IF e = "follower" THEN "followed_back" ELSE "relations",
                                  !.got = [d \in {e} |-> answer]])
    /\ UNCHANGED <<bluesky, facts, leaving, history, budget>>

\* list_followers, list_follows.
GetEdges(r, e) ==
    /\ At(r, e)
    /\ \E answer \in Read(graph[e], Cap) :
         Become(r, [run[r] EXCEPT !.at = IF e = "follower" THEN "followed_back" ELSE "relations",
                                  !.got = [run[r].got EXCEPT ![e] = answer]])
    /\ UNCHANGED <<bluesky, facts, leaving, history, budget>>

\* Mutant of WriteRelations: the flags are not reset first.
WriteRelationsOver(r) ==
    /\ At(r, "relations")
    /\ flags' = [e \in Edge |-> flags[e] \cup run[r].got[e]]
    /\ known' = [e \in Edge |-> known[e] \cup run[r].got[e]]
    /\ Goto(r, "lists")
    /\ UNCHANGED <<bluesky, stored, members, leaving, steady, over, budget>>

\* Mutant of WriteRelations: the reset comes after the two UPDATEs.
WriteRelationsReset(r) ==
    /\ At(r, "relations")
    /\ flags' = [e \in Edge |-> {}]
    /\ known' = [e \in Edge |-> known[e] \cup run[r].got[e]]
    /\ Goto(r, "lists")
    /\ UNCHANGED <<bluesky, stored, members, leaving, steady, over, budget>>

\* The transaction: both flags are reset for the account, then set for those
\* the two calls returned.
WriteRelations(r) ==
    /\ At(r, "relations")
    /\ flags' = run[r].got
    /\ known' = [e \in Edge |-> known[e] \cup run[r].got[e]]
    /\ Goto(r, "lists")
    /\ UNCHANGED <<bluesky, stored, members, leaving, steady, over, budget>>

\* list_user_lists: ten pages at most, and no sign that there were more.
GetLists(r) ==
    /\ At(r, "lists")
    /\ \E answer \in Read(live \cap List, PageCap) :
         Become(r, [run[r] EXCEPT !.at = "upsert lists", !.found = answer, !.todo = answer])
    /\ UNCHANGED <<bluesky, facts, leaving, history, budget>>

UpsertLists(r) ==
    /\ At(r, "upsert lists")
    /\ stored' = stored \cup run[r].found
    /\ Goto(r, "gc lists")
    /\ UNCHANGED <<bluesky, flags, members, leaving, history, budget>>

Forget(gone) ==
    /\ stored' = stored \ gone
    /\ members' = [c \in Collection |-> IF c \in gone THEN {} ELSE members[c]]

\* Mutant of GcLists: only the members go, not the list.
GcListsKeeping(r) ==
    /\ At(r, "gc lists")
    /\ stored' = stored
    /\ members' = [c \in Collection |-> IF c \in List \ run[r].found THEN {} ELSE members[c]]
    /\ Goto(r, "members of lists")
    /\ UNCHANGED <<bluesky, flags, leaving, history, budget>>

\* The lists that were not in the answer go, with their members: those deleted
\* on Bluesky, and those past the tenth page.
GcLists(r) ==
    /\ At(r, "gc lists")
    /\ Forget(List \ run[r].found)
    /\ Goto(r, "members of lists")
    /\ UNCHANGED <<bluesky, flags, leaving, history, budget>>

\* list_members of one list.
GetListMembers(r) ==
    /\ At(r, "members of lists")
    /\ \E c \in run[r].todo : \E answer \in Read(onIt[c], Cap) :
         Become(r, [run[r] EXCEPT !.at = "write", !.coll = {c}, !.dids = answer,
                                  !.todo = run[r].todo \ {c}])
    /\ UNCHANGED <<bluesky, facts, leaving, history, budget>>

ListsDone(r) ==
    /\ At(r, "members of lists") /\ run[r].todo = {}
    /\ Goto(r, "packs")
    /\ UNCHANGED <<bluesky, facts, leaving, history, budget>>

\* list_starter_packs, ten pages at most.
GetPacks(r) ==
    /\ At(r, "packs")
    /\ \E answer \in Read(live \cap Pack, PageCap) :
         Become(r, [run[r] EXCEPT !.at = "members of packs", !.found = answer, !.todo = answer])
    /\ UNCHANGED <<bluesky, facts, leaving, history, budget>>

\* A pack is upserted when its turn comes, and then its list is read.
GetPackMembers(r) ==
    /\ At(r, "members of packs")
    /\ \E c \in run[r].todo : \E answer \in Read(onIt[c], Cap) :
         /\ stored' = stored \cup {c}
         /\ Become(r, [run[r] EXCEPT !.at = "write", !.coll = {c}, !.dids = answer,
                                     !.todo = run[r].todo \ {c}])
    /\ UNCHANGED <<bluesky, flags, members, leaving, history, budget>>

PacksDone(r) ==
    /\ At(r, "members of packs") /\ run[r].todo = {}
    /\ Goto(r, "gc packs")
    /\ UNCHANGED <<bluesky, facts, leaving, history, budget>>

\* Mutant of WriteMembers: the old members are not deleted first.
WriteMembersOver(r) ==
    /\ At(r, "write")
    /\ run[r].coll \subseteq stored \/ run[r].dids = {}
    /\ members' = [c \in Collection |->
                     IF c \in run[r].coll THEN members[c] \cup run[r].dids ELSE members[c]]
    /\ Become(r, [run[r] EXCEPT !.coll = {}, !.dids = {},
            !.at = IF run[r].coll \subseteq List THEN "members of lists" ELSE "members of packs"])
    /\ UNCHANGED <<bluesky, flags, stored, leaving, history, budget>>

\* refresh_list_members, refresh_starter_pack_members.  The foreign key lets
\* nothing be inserted for a collection another refresh has dropped.
WriteMembers(r) ==
    /\ At(r, "write")
    /\ run[r].coll \subseteq stored \/ run[r].dids = {}
    /\ members' = [c \in Collection |-> IF c \in run[r].coll THEN run[r].dids ELSE members[c]]
    /\ Become(r, [run[r] EXCEPT !.coll = {}, !.dids = {},
            !.at = IF run[r].coll \subseteq List THEN "members of lists" ELSE "members of packs"])
    /\ UNCHANGED <<bluesky, flags, stored, leaving, history, budget>>

\* The error ends the refresh.
WriteRefused(r) ==
    /\ At(r, "write")
    /\ ~(run[r].coll \subseteq stored) /\ run[r].dids # {}
    /\ Done(r)
    /\ UNCHANGED <<bluesky, facts, leaving, history, budget>>

GcPacks(r) ==
    /\ At(r, "gc packs")
    /\ Forget(Pack \ run[r].found)
    /\ Done(r)
    /\ UNCHANGED <<bluesky, flags, leaving, history, budget>>

Step(r) ==
    \/ \E e \in Edge : GetEdges(r, e)
    \/ WriteRelations(r) \/ GetLists(r) \/ UpsertLists(r) \/ GcLists(r)
    \/ GetListMembers(r) \/ ListsDone(r) \/ GetPacks(r) \/ GetPackMembers(r) \/ PacksDone(r)
    \/ WriteMembers(r) \/ WriteRefused(r) \/ GcPacks(r)

-----------------------------------------------------------------------------
(* Failures.                                                               *)

Fault == faults < MaxFaults /\ faults' = faults + 1

\* list_followers or list_follows fails: the answer is taken to be empty.
EdgesFail(r, e) ==
    /\ Fault /\ At(r, e)
    /\ Goto(r, IF e = "follower" THEN "followed_back" ELSE "relations")
    /\ UNCHANGED <<bluesky, facts, leaving, history, changes, unlinks>>

\* A collection's members cannot be fetched: it keeps those it has (a pack is
\* upserted before, which may have failed too).  A whole listing fails: the
\* phase is skipped.
CollectionFails(r) ==
    /\ Fault
    /\ \/ At(r, "lists") /\ Goto(r, "packs") /\ UNCHANGED stored
       \/ At(r, "packs") /\ Done(r) /\ UNCHANGED stored
       \/ /\ At(r, "members of lists") \/ At(r, "members of packs")
          /\ \E c \in run[r].todo :
               /\ Become(r, [run[r] EXCEPT !.todo = run[r].todo \ {c}])
               /\ stored' = stored \/ (c \in Pack /\ stored' = stored \cup {c})
    /\ UNCHANGED <<bluesky, flags, members, leaving, history, changes, unlinks>>

\* A garbage collection fails and is ignored; an upsert may fail too.
StatementFails(r) ==
    /\ Fault
    /\ \/ /\ At(r, "upsert lists")
          /\ \E kept \in SUBSET run[r].found : stored' = stored \cup kept
          /\ Goto(r, "gc lists")
       \/ At(r, "gc lists") /\ Goto(r, "members of lists") /\ UNCHANGED stored
       \/ At(r, "gc packs") /\ Done(r) /\ UNCHANGED stored
       \/ /\ At(r, "members of packs")
          /\ \E c \in run[r].todo : \E answer \in Read(onIt[c], Cap) :
               Become(r, [run[r] EXCEPT !.at = "write", !.coll = {c}, !.dids = answer,
                                        !.todo = run[r].todo \ {c}])
          /\ UNCHANGED stored
    /\ UNCHANGED <<bluesky, flags, members, leaving, history, changes, unlinks>>

\* A transaction is rolled back, or the process dies.
Abort(r) ==
    /\ Fault /\ ~At(r, "idle") /\ Done(r)
    /\ UNCHANGED <<bluesky, facts, leaving, history, changes, unlinks>>

-----------------------------------------------------------------------------
(* Viewers.                                                                *)

Change == changes < MaxChanges /\ changes' = changes + 1

EdgeChanges(e, v) ==
    /\ Change
    /\ graph' = [graph EXCEPT ![e] = IF v \in graph[e] THEN graph[e] \ {v} ELSE graph[e] \cup {v}]
    /\ steady' = [steady EXCEPT ![e] = steady[e] \ {v}]
    /\ over' = IF Cardinality(graph'[e]) > Cap THEN over \cup {e} ELSE over
    /\ UNCHANGED <<live, onIt, facts, run, leaving, known, faults, unlinks>>

CollectionChanges(c) ==
    /\ Change
    /\ \/ live' = (IF c \in live THEN live \ {c} ELSE live \cup {c}) /\ UNCHANGED onIt
       \/ \E S \in SUBSET Viewer : S # onIt[c] /\ onIt' = [onIt EXCEPT ![c] = S] /\ UNCHANGED live
    /\ UNCHANGED <<graph, facts, run, leaving, history, faults, unlinks>>

\* verify_unlink deletes the viewer's relations ...
Unlink(v) ==
    /\ unlinks < MaxUnlinks /\ unlinks' = unlinks + 1
    /\ leaving[v] = "no" /\ leaving' = [leaving EXCEPT ![v] = "relations"]
    /\ UNCHANGED <<bluesky, facts, run, history, changes, faults>>

UnlinkRelations(v) ==
    /\ leaving[v] = "relations" /\ leaving' = [leaving EXCEPT ![v] = "members"]
    /\ flags' = [e \in Edge |-> flags[e] \ {v}]
    /\ known' = [e \in Edge |-> known[e] \ {v}]
    /\ UNCHANGED <<bluesky, stored, members, run, steady, over, budget>>

\* ... and then, in statements of their own, the memberships.
UnlinkMembers(v) ==
    /\ leaving[v] = "members" /\ leaving' = [leaving EXCEPT ![v] = "no"]
    /\ members' = [c \in Collection |-> members[c] \ {v}]
    /\ UNCHANGED <<bluesky, flags, stored, run, history, budget>>

Next ==
    \/ \E r \in Refresher :
        \/ Begin(r) \/ Step(r)
        \/ \E e \in Edge : EdgesFail(r, e)
        \/ CollectionFails(r) \/ StatementFails(r) \/ Abort(r)
    \/ \E v \in Viewer :
        \/ \E e \in Edge : EdgeChanges(e, v)
        \/ Unlink(v) \/ UnlinkRelations(v) \/ UnlinkMembers(v)
    \/ \E c \in Collection : CollectionChanges(c)

Spec == Init /\ [][Next]_vars

\* The reconcile task keeps its interval, and a refresh or an unlink that was
\* begun goes on.
Fairness ==
    /\ \A r \in Refresher : WF_vars(Begin(r)) /\ WF_vars(Step(r))
    /\ \A v \in Viewer : WF_vars(UnlinkRelations(v)) /\ WF_vars(UnlinkMembers(v))

FairSpec == Spec /\ Fairness

-----------------------------------------------------------------------------
(* Properties.                                                             *)

TypeOK ==
    /\ graph \in [Edge -> SUBSET Viewer] /\ live \in SUBSET Collection
    /\ onIt \in [Collection -> SUBSET Viewer]
    /\ flags \in [Edge -> SUBSET Viewer]
    /\ stored \in SUBSET Collection /\ members \in [Collection -> SUBSET Viewer]
    /\ run \in [Refresher -> Local]
    /\ leaving \in [Viewer -> {"no", "relations", "members"}]
    /\ over \in SUBSET Edge
    /\ steady \in [Edge -> SUBSET Viewer] /\ known \in [Edge -> SUBSET Viewer]
    /\ changes \in 0..MaxChanges /\ faults \in 0..MaxFaults /\ unlinks \in 0..MaxUnlinks

\* A viewer who follows (or is followed) all along keeps the flag once the
\* plugin has set it ("authoritative source for `is_follower`",
\* tasks/reconcile.rs:100), however many refreshes overlap and whatever old
\* answers they write, as long as no call fails and there were never more than
\* the cap.
SteadyKeepFlagsUnlessFailed ==
    faults = 0 => \A e \in Edge \ over : steady[e] \cap known[e] \subseteq flags[e]

\* The inductive core: what a refresh is about to write has them too.
FetchedSteady ==
    /\ \A e \in Edge : steady[e] \subseteq graph[e]
    /\ \A e \in Edge \ over : Cardinality(graph[e]) <= Cap
    /\ faults = 0 =>
         \A r \in Refresher, e \in Edge \ over :
            run[r].at = "relations" \/ (run[r].at = "followed_back" /\ e = "follower")
                => steady[e] \subseteq run[r].got[e]

\* What one paginated read can tell.
Readable(S) == Cardinality(S) <= Cap
Listable(X) == Cardinality(live \cap X) <= PageCap

Copied(X) ==
    /\ stored \cap X = live \cap X
    /\ \A c \in live \cap X : Readable(onIt[c]) => members[c] = onIt[c]

\* Once Bluesky stops changing and calls stop failing, the facts become what
\* Bluesky says, though refreshes overlap, fail half way and drop each other's
\* collections, and viewers unlink; what is too large to be read is excepted.
\* Where there are more lists than ten pages hold, nothing is said of the packs
\* either: overlapping refreshes that found different lists may for ever drop
\* each other's, and the refused write of the members ends the refresh.
FactsConverge ==
    <>[](/\ \A e \in Edge : Readable(graph[e]) => flags[e] = graph[e]
         /\ stored \cap List \subseteq live
         /\ Listable(List) =>
              /\ Copied(List)
              /\ stored \cap Pack \subseteq live
              /\ Listable(Pack) => Copied(Pack))
=============================================================================
