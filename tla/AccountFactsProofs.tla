------------------------- MODULE AccountFactsProofs -------------------------
(***************************************************************************)
(* Theorems about AccountFacts, for every number of viewers, collections   *)
(* and overlapping refreshes.                                              *)
(***************************************************************************)
EXTENDS AccountFactsCalm, FiniteSetTheorems, TLAPS


\* The tables and the locals keep their types.
THEOREM TypeCorrect == Spec => []TypeOK
<1>0. Idle \in Local
  BY DEF Idle, Local, Stage
<1>1. Init => TypeOK
  BY <1>0, BoundAssumption DEF Init, TypeOK
<1>2. TypeOK /\ [Next]_vars => TypeOK'
  <2> SUFFICES ASSUME TypeOK, [Next]_vars PROVE TypeOK'
    OBVIOUS
  <2> USE DEF TypeOK
  <2>a. \A r \in Refresher : run[r] \in Local
    OBVIOUS
  <2>b. /\ Fault => faults' \in 0..MaxFaults
        /\ Change => changes' \in 0..MaxChanges
    BY BoundAssumption DEF Fault, Change
  <2>c. ASSUME NEW r \in Refresher, NEW l \in Local, Become(r, l)
        PROVE  run' \in [Refresher -> Local]
    BY <2>c DEF Become
  <2>d. ASSUME NEW r \in Refresher, NEW at \in Stage, Goto(r, at)
        PROVE  run' \in [Refresher -> Local]
    <3>1. [run[r] EXCEPT !.at = at] \in Local
      BY <2>a DEF Local
    <3> QED BY <2>c, <2>d, <3>1 DEF Goto
  <2>e. ASSUME NEW r \in Refresher, Done(r) PROVE run' \in [Refresher -> Local]
    BY <1>0, <2>c, <2>e DEF Done
  <2>f. \A S, n : \A T \in Read(S, n) : T \subseteq S
    BY DEF Read
  <2> USE DEF bluesky, facts, history, budget
  <2>1. ASSUME NEW r \in Refresher, Begin(r) PROVE TypeOK'
    <3>1. [Idle EXCEPT !.at = "follower"] \in Local
      BY <1>0 DEF Local, Stage
    <3>2. run' \in [Refresher -> Local]
      BY <2>1, <2>c, <3>1 DEF Begin
    <3> QED BY <2>1, <3>2 DEF Begin
  <2>2. ASSUME NEW r \in Refresher, NEW e \in Edge, GetEdges(r, e) PROVE TypeOK'
    <3>1. PICK answer \in Read(graph[e], Cap) :
            Become(r, [run[r] EXCEPT !.at = IF e = "follower" THEN "followed_back" ELSE "relations",
                                     !.got = [run[r].got EXCEPT ![e] = answer]])
      BY <2>2 DEF GetEdges
    <3>2. answer \subseteq Viewer
      BY <2>f
    <3>3. [run[r].got EXCEPT ![e] = answer] \in [Edge -> SUBSET Viewer]
      BY <2>a, <3>2 DEF Local
    <3>4. (IF e = "follower" THEN "followed_back" ELSE "relations") \in Stage
      BY DEF Stage
    <3>5. run' \in [Refresher -> Local]
      <4> DEFINE at == IF e = "follower" THEN "followed_back" ELSE "relations"
                 got == [run[r].got EXCEPT ![e] = answer]
      <4>1. [run[r] EXCEPT !.at = at, !.got = got] \in Local
        <5> HIDE DEF at, got
        <5> QED BY <2>a, <3>3, <3>4 DEF Local, at, got
      <4> QED BY <2>c, <3>1, <4>1
    <3> QED BY <2>2, <3>5 DEF GetEdges
  <2>3. ASSUME NEW r \in Refresher, WriteRelations(r) PROVE TypeOK'
    <3>1. run[r].got \in [Edge -> SUBSET Viewer]
      BY <2>a DEF Local
    <3>2. run' \in [Refresher -> Local]
      BY <2>3, <2>d DEF WriteRelations, Stage
    <3>3. known' \in [Edge -> SUBSET Viewer]
      BY <2>3, <3>1 DEF WriteRelations
    <3>4. flags' \in [Edge -> SUBSET Viewer]
      BY <2>3, <3>1 DEF WriteRelations, Edge
    <3> QED BY <2>3, <3>2, <3>3, <3>4 DEF WriteRelations
  <2>4. ASSUME NEW r \in Refresher, GetLists(r) PROVE TypeOK'
    <3>1. PICK answer \in Read(live \cap List, PageCap) :
            Become(r, [run[r] EXCEPT !.at = "upsert lists", !.found = answer, !.todo = answer])
      BY <2>4 DEF GetLists
    <3>2. answer \subseteq Collection
      BY <2>f
    <3>3. [run[r] EXCEPT !.at = "upsert lists", !.found = answer, !.todo = answer] \in Local
      BY <2>a, <3>2 DEF Local, Stage
    <3>4. run' \in [Refresher -> Local]
      BY <2>c, <3>1, <3>3
    <3> QED BY <2>4, <3>4 DEF GetLists
  <2>5b. ASSUME NEW r \in Refresher, UpsertLists(r) PROVE TypeOK'
    <3>1. run' \in [Refresher -> Local]
      BY <2>5b, <2>d DEF UpsertLists, Stage
    <3>2. stored' \subseteq Collection
      BY <2>5b, <2>a DEF UpsertLists, Local
    <3> QED BY <2>5b, <3>1, <3>2 DEF UpsertLists
  <2>5. ASSUME NEW r \in Refresher, GcLists(r) \/ GcPacks(r) PROVE TypeOK'
    <3>1. run' \in [Refresher -> Local]
      BY <2>5, <2>d, <2>e DEF GcLists, GcPacks, Stage
    <3>2. stored' \in SUBSET Collection /\ members' \in [Collection -> SUBSET Viewer]
      BY <2>5 DEF GcLists, GcPacks, Forget
    <3> QED BY <2>5, <3>1, <3>2 DEF GcLists, GcPacks
  <2>6. ASSUME NEW r \in Refresher, NEW c \in run[r].todo, NEW answer \in Read(onIt[c], Cap),
               Become(r, [run[r] EXCEPT !.at = "write", !.coll = {c}, !.dids = answer,
                                        !.todo = run[r].todo \ {c}])
        PROVE  run' \in [Refresher -> Local] /\ c \in Collection
    <3>1. run[r].todo \subseteq Collection
      BY <2>a DEF Local
    <3>2. answer \subseteq Viewer
      BY <2>f, <3>1
    <3>3. [run[r] EXCEPT !.at = "write", !.coll = {c}, !.dids = answer,
                         !.todo = run[r].todo \ {c}] \in Local
      BY <2>a, <3>1, <3>2 DEF Local, Stage
    <3> QED BY <2>6, <2>c, <3>1, <3>3
  <2>7. ASSUME NEW r \in Refresher, GetListMembers(r) \/ GetPackMembers(r) PROVE TypeOK'
    <3>1. run' \in [Refresher -> Local] /\ stored' \subseteq Collection
      BY <2>7, <2>6 DEF GetListMembers, GetPackMembers
    <3> QED BY <2>7, <3>1 DEF GetListMembers, GetPackMembers
  <2>8. ASSUME NEW r \in Refresher, ListsDone(r) \/ PacksDone(r) \/ WriteRefused(r) PROVE TypeOK'
    <3>1. run' \in [Refresher -> Local]
      BY <2>8, <2>d, <2>e DEF ListsDone, PacksDone, WriteRefused, Stage
    <3> QED BY <2>8, <3>1 DEF ListsDone, PacksDone, WriteRefused
  <2>9. ASSUME NEW r \in Refresher, GetPacks(r) PROVE TypeOK'
    <3>1. PICK answer \in Read(live \cap Pack, PageCap) :
            Become(r, [run[r] EXCEPT !.at = "members of packs", !.found = answer, !.todo = answer])
      BY <2>9 DEF GetPacks
    <3>2. answer \subseteq Collection
      BY <2>f
    <3>3. [run[r] EXCEPT !.at = "members of packs", !.found = answer, !.todo = answer] \in Local
      BY <2>a, <3>2 DEF Local, Stage
    <3>4. run' \in [Refresher -> Local]
      BY <2>c, <3>1, <3>3
    <3> QED BY <2>9, <3>4 DEF GetPacks
  <2>10. ASSUME NEW r \in Refresher, WriteMembers(r) PROVE TypeOK'
    <3> DEFINE at == IF run[r].coll \subseteq List THEN "members of lists" ELSE "members of packs"
    <3>1. at \in Stage
      BY DEF Stage
    <3>2. [run[r] EXCEPT !.coll = {}, !.dids = {}, !.at = at] \in Local
      <4> HIDE DEF at
      <4> QED BY <2>a, <3>1 DEF Local
    <3>3. run' \in [Refresher -> Local]
      BY <2>10, <2>c, <3>2 DEF WriteMembers
    <3>4. members' \in [Collection -> SUBSET Viewer]
      BY <2>10, <2>a DEF WriteMembers, Local
    <3> QED BY <2>10, <3>3, <3>4 DEF WriteMembers
  <2>11. ASSUME NEW r \in Refresher, NEW e \in Edge, EdgesFail(r, e) PROVE TypeOK'
    <3>1. run' \in [Refresher -> Local]
      BY <2>11, <2>d DEF EdgesFail, Stage
    <3> QED BY <2>11, <2>b, <3>1 DEF EdgesFail
  <2>12. ASSUME NEW r \in Refresher, CollectionFails(r) PROVE TypeOK'
    <3>1. run' \in [Refresher -> Local] /\ stored' \subseteq Collection
      <4>1. CASE At(r, "lists") /\ Goto(r, "packs") /\ UNCHANGED stored
        BY <2>d, <4>1 DEF Stage
      <4>2. CASE At(r, "packs") /\ Done(r) /\ UNCHANGED stored
        BY <2>e, <4>2
      <4>3. ASSUME NEW c \in run[r].todo, Become(r, [run[r] EXCEPT !.todo = run[r].todo \ {c}]),
                   stored' = stored \/ (c \in Pack /\ stored' = stored \cup {c})
            PROVE  run' \in [Refresher -> Local] /\ stored' \subseteq Collection
        <5>1. [run[r] EXCEPT !.todo = run[r].todo \ {c}] \in Local
          BY <2>a DEF Local
        <5> QED BY <2>c, <4>3, <5>1 DEF Collection
      <4> QED BY <2>12, <4>1, <4>2, <4>3 DEF CollectionFails
    <3> QED BY <2>12, <2>b, <3>1 DEF CollectionFails
  <2>13. ASSUME NEW r \in Refresher, StatementFails(r) PROVE TypeOK'
    <3>1. run' \in [Refresher -> Local] /\ stored' \subseteq Collection
      <4>1. CASE /\ \E kept \in SUBSET run[r].found : stored' = stored \cup kept
                 /\ Goto(r, "gc lists")
        <5>1. run[r].found \subseteq Collection
          BY <2>a DEF Local
        <5> QED BY <2>d, <4>1, <5>1 DEF Stage
      <4>2. CASE Goto(r, "members of lists") /\ UNCHANGED stored
        BY <2>d, <4>2 DEF Stage
      <4>3. CASE Done(r) /\ UNCHANGED stored
        BY <2>e, <4>3
      <4>4. CASE /\ \E c \in run[r].todo : \E answer \in Read(onIt[c], Cap) :
                      Become(r, [run[r] EXCEPT !.at = "write", !.coll = {c}, !.dids = answer,
                                               !.todo = run[r].todo \ {c}])
                 /\ UNCHANGED stored
        BY <2>6, <4>4
      <4> QED BY <2>13, <4>1, <4>2, <4>3, <4>4 DEF StatementFails
    <3> QED BY <2>13, <2>b, <3>1 DEF StatementFails
  <2>14. ASSUME NEW r \in Refresher, Abort(r) PROVE TypeOK'
    BY <2>14, <2>b, <2>e DEF Abort
  <2>15. ASSUME NEW v \in Viewer, NEW e \in Edge, EdgeChanges(e, v) PROVE TypeOK'
    <3>1. graph' \in [Edge -> SUBSET Viewer] /\ steady' \in [Edge -> SUBSET Viewer]
      BY <2>15 DEF EdgeChanges
    <3> QED BY <2>15, <2>b, <3>1 DEF EdgeChanges
  <2>16. ASSUME NEW c \in Collection, CollectionChanges(c) PROVE TypeOK'
    BY <2>16, <2>b DEF CollectionChanges
  <2>17. ASSUME NEW v \in Viewer, Unlink(v) PROVE TypeOK'
    <3>1. unlinks' \in 0..MaxUnlinks
      BY <2>17, BoundAssumption DEF Unlink
    <3> QED BY <2>17, <3>1 DEF Unlink
  <2>18. ASSUME NEW v \in Viewer, UnlinkRelations(v) \/ UnlinkMembers(v) PROVE TypeOK'
    BY <2>18 DEF UnlinkRelations, UnlinkMembers
  <2>19. CASE UNCHANGED vars
    BY <2>19 DEF vars
  <2> QED BY <2>1, <2>2, <2>3, <2>4, <2>5, <2>7, <2>8, <2>9, <2>10, <2>11, <2>12, <2>13, <2>14,
             <2>15, <2>16, <2>17, <2>18, <2>19, <2>5b DEF Next, Step
<1> QED BY <1>1, <1>2, PTL DEF Spec

-----------------------------------------------------------------------------
\* A read of no more than its limit returns all there is.
LEMMA ReadAll ==
    ASSUME NEW S, IsFiniteSet(S), NEW n \in Nat, Cardinality(S) <= n, NEW T \in Read(S, n)
    PROVE  T = S
<1>1. Cardinality(S) \in Nat
  BY FS_CardinalityType
<1>2. CASE Cardinality(T) = n
  <2>1. T \subseteq S /\ Cardinality(T) <= Cardinality(S)
    BY FS_Subset DEF Read
  <2>2. Cardinality(T) = Cardinality(S)
    BY <1>1, <1>2, <2>1
  <2> QED BY <2>1, <2>2, FS_Subset
<1> QED BY <1>2 DEF Read

\* The steps that neither write the flags nor end a read of the edges.
LEMMA Quiet ==
    ASSUME TypeOK, FetchedSteady, SteadyKeepFlagsUnlessFailed,
           UNCHANGED <<graph, flags, steady, known, over>>, faults' = 0 => faults = 0,
           \A r \in Refresher : run'[r] = run[r] \/ run'[r].at \notin {"followed_back", "relations"}
    PROVE  FetchedSteady' /\ SteadyKeepFlagsUnlessFailed'
<1>1. SteadyKeepFlagsUnlessFailed'
  BY DEF SteadyKeepFlagsUnlessFailed
<1>2. FetchedSteady'
  BY DEF FetchedSteady
<1> QED BY <1>1, <1>2

\* The inductive invariant: what the refreshes of refresh_account carry is
\* whole as far as steady followers go, and so are the flags.
LEMMA FlagInvariant == Spec => [](FetchedSteady /\ SteadyKeepFlagsUnlessFailed)
<1> DEFINE Inv == FetchedSteady /\ SteadyKeepFlagsUnlessFailed
<1>1. Init => Inv
  <2> SUFFICES ASSUME Init PROVE Inv
    OBVIOUS
  <2>1. \A e \in Edge : Cardinality(graph[e]) \in Nat
    BY ViewerAssumption, FS_Subset, FS_CardinalityType DEF Init
  <2>2. \A e \in Edge \ over : Cardinality(graph[e]) <= Cap
    BY <2>1, BoundAssumption DEF Init
  <2> QED BY <2>2 DEF Init, Idle, FetchedSteady, SteadyKeepFlagsUnlessFailed
<1>2. TypeOK /\ Inv /\ [Next]_vars => Inv'
  <2> SUFFICES ASSUME TypeOK, FetchedSteady, SteadyKeepFlagsUnlessFailed, [Next]_vars
               PROVE  FetchedSteady' /\ SteadyKeepFlagsUnlessFailed'
    OBVIOUS
  <2> USE DEF bluesky, facts, history, budget
  <2>a. Fault => faults' # 0
    BY DEF Fault, TypeOK
  <2>b. \A r \in Refresher : run[r] \in Local
    BY DEF TypeOK
  <2>1. ASSUME NEW r \in Refresher, Begin(r) PROVE Inv'
    <3>1. \A q \in Refresher : run'[q] = run[q] \/ run'[q].at = "follower"
      BY <2>1 DEF Begin, Become, Idle, TypeOK
    <3> QED BY <2>1, <3>1, Quiet DEF Begin
  <2>2. ASSUME NEW r \in Refresher, NEW e \in Edge, GetEdges(r, e) PROVE Inv'
    <3>1. PICK answer \in Read(graph[e], Cap) :
            Become(r, [run[r] EXCEPT !.at = IF e = "follower" THEN "followed_back" ELSE "relations",
                                     !.got = [run[r].got EXCEPT ![e] = answer]])
      BY <2>2 DEF GetEdges
    <3>2. IsFiniteSet(graph[e])
      BY ViewerAssumption, FS_Subset DEF TypeOK
    <3>3. e \notin over => steady[e] \subseteq answer
      BY <3>2, ReadAll, BoundAssumption DEF FetchedSteady
    <3>4. /\ run'[r].at = IF e = "follower" THEN "followed_back" ELSE "relations"
          /\ run'[r].got = [run[r].got EXCEPT ![e] = answer]
      BY <2>b, <3>1 DEF Become, Local, TypeOK
    <3>5. \A q \in Refresher \ {r} : run'[q] = run[q]
      BY <3>1 DEF Become, TypeOK
    <3>6. /\ run'[r].got[e] = answer
          /\ \A d \in Edge \ {e} : run'[r].got[d] = run[r].got[d]
      BY <2>b, <3>4 DEF Local
    <3>7. UNCHANGED <<graph, flags, steady, known, over, faults>>
      BY <2>2 DEF GetEdges
    <3>8. SteadyKeepFlagsUnlessFailed'
      BY <3>7 DEF SteadyKeepFlagsUnlessFailed
    <3>9. run[r].at = e
      BY <2>2 DEF GetEdges, At
    <3>10. FetchedSteady'
      <4> SUFFICES ASSUME faults' = 0, NEW q \in Refresher, NEW d \in Edge \ over',
                          run'[q].at = "relations" \/ (run'[q].at = "followed_back" /\ d = "follower")
                   PROVE  steady'[d] \subseteq run'[q].got[d]
        BY <3>7 DEF FetchedSteady
      <4>1. CASE q # r
        BY <3>5, <3>7, <4>1 DEF FetchedSteady
      <4>2. CASE q = r /\ d = e
        BY <3>3, <3>6, <3>7, <4>2
      <4>3. CASE q = r /\ d # e
        <5>1. e = "followed_back" /\ d = "follower"
          BY <3>4, <4>3 DEF Edge
        <5> QED BY <3>6, <3>7, <3>9, <4>3, <5>1 DEF FetchedSteady
      <4> QED BY <4>1, <4>2, <4>3
    <3> QED BY <3>8, <3>10
  <2>3. ASSUME NEW r \in Refresher, WriteRelations(r) PROVE Inv'
    <3>1. \A q \in Refresher : run'[q] = run[q] \/ run'[q].at = "lists"
      BY <2>3, <2>b DEF WriteRelations, Goto, Become, TypeOK, Local
    <3>2. UNCHANGED <<graph, steady, over, faults>>
      BY <2>3 DEF WriteRelations
    <3>3. FetchedSteady'
      BY <3>1, <3>2 DEF FetchedSteady
    <3>4. faults = 0 => \A e \in Edge \ over : steady[e] \subseteq run[r].got[e]
      BY <2>3 DEF WriteRelations, At, FetchedSteady
    <3>5. flags' = run[r].got
      BY <2>3 DEF WriteRelations
    <3> QED BY <3>2, <3>3, <3>4, <3>5 DEF SteadyKeepFlagsUnlessFailed
  <2>4. ASSUME NEW r \in Refresher,
               \/ GetLists(r) \/ UpsertLists(r) \/ GcLists(r) \/ GetListMembers(r) \/ ListsDone(r)
               \/ GetPacks(r) \/ GetPackMembers(r) \/ PacksDone(r) \/ WriteMembers(r) \/ WriteRefused(r) \/ GcPacks(r)
        PROVE Inv'
    <3>1. UNCHANGED <<graph, flags, steady, known, over, faults>>
      BY <2>4 DEF GetLists, UpsertLists, GcLists, GetListMembers, ListsDone, GetPacks, GetPackMembers,
           PacksDone, WriteMembers, WriteRefused, GcPacks
    <3>2. ASSUME NEW l, Become(r, l), l.at \notin {"followed_back", "relations"}
          PROVE  Inv'
      <4>1. \A q \in Refresher : run'[q] = run[q] \/ run'[q].at \notin {"followed_back", "relations"}
        BY <3>2 DEF Become, TypeOK
      <4> QED BY <3>1, <4>1, Quiet
    <3>3. ASSUME NEW at, Goto(r, at), at \notin {"followed_back", "relations"} PROVE Inv'
      <4>1. [run[r] EXCEPT !.at = at].at = at
        BY <2>b DEF Local
      <4> QED BY <3>2, <3>3, <4>1 DEF Goto
    <3>4. CASE Done(r)
      BY <3>2, <3>4 DEF Done, Idle
    <3>5. CASE GetLists(r)
      <4>1. \A answer : [run[r] EXCEPT !.at = "upsert lists", !.found = answer,
                                       !.todo = answer].at = "upsert lists"
        BY <2>b DEF Local
      <4> QED BY <3>2, <3>5, <4>1 DEF GetLists
    <3>6. CASE GetPacks(r)
      <4>1. \A answer : [run[r] EXCEPT !.at = "members of packs", !.found = answer,
                                       !.todo = answer].at = "members of packs"
        BY <2>b DEF Local
      <4> QED BY <3>2, <3>6, <4>1 DEF GetPacks
    <3>7. CASE UpsertLists(r) \/ GcLists(r) \/ ListsDone(r) \/ PacksDone(r)
      BY <3>3, <3>7 DEF UpsertLists, GcLists, ListsDone, PacksDone
    <3>8. CASE GetListMembers(r) \/ GetPackMembers(r)
      <4>1. PICK c \in run[r].todo : \E answer :
              Become(r, [run[r] EXCEPT !.at = "write", !.coll = {c}, !.dids = answer,
                                       !.todo = run[r].todo \ {c}])
        BY <3>8 DEF GetListMembers, GetPackMembers
      <4>2. PICK answer :
              Become(r, [run[r] EXCEPT !.at = "write", !.coll = {c}, !.dids = answer,
                                       !.todo = run[r].todo \ {c}])
        BY <4>1
      <4>3. [run[r] EXCEPT !.at = "write", !.coll = {c}, !.dids = answer,
                           !.todo = run[r].todo \ {c}].at = "write"
        BY <2>b DEF Local
      <4> QED BY <3>2, <4>2, <4>3
    <3>9. CASE WriteMembers(r)
      <4> DEFINE at == IF run[r].coll \subseteq List THEN "members of lists" ELSE "members of packs"
      <4>1. at \notin {"followed_back", "relations"}
        OBVIOUS
      <4>2. [run[r] EXCEPT !.coll = {}, !.dids = {}, !.at = at].at = at
        <5> HIDE DEF at
        <5> QED BY <2>b DEF Local
      <4> QED BY <3>2, <3>9, <4>1, <4>2 DEF WriteMembers
    <3> QED BY <2>4, <3>4, <3>5, <3>6, <3>7, <3>8, <3>9 DEF WriteRefused, GcPacks
  <2>5. ASSUME NEW r \in Refresher,
               (\E e \in Edge : EdgesFail(r, e)) \/ CollectionFails(r) \/ StatementFails(r) \/ Abort(r)
        PROVE Inv'
    <3>1. faults' # 0 /\ UNCHANGED <<graph, steady, over>>
      BY <2>5, <2>a DEF EdgesFail, CollectionFails, StatementFails, Abort
    <3> QED BY <3>1 DEF FetchedSteady, SteadyKeepFlagsUnlessFailed
  <2>6. ASSUME NEW v \in Viewer, NEW e \in Edge, EdgeChanges(e, v) PROVE Inv'
    <3>1. /\ graph'[e] = IF v \in graph[e] THEN graph[e] \ {v} ELSE graph[e] \cup {v}
          /\ steady'[e] = steady[e] \ {v}
          /\ \A d \in Edge \ {e} : graph'[d] = graph[d] /\ steady'[d] = steady[d]
      BY <2>6 DEF EdgeChanges, TypeOK
    <3>2. UNCHANGED <<flags, known, run, faults>> /\ over \subseteq over'
      BY <2>6 DEF EdgeChanges
    <3>3. \A d \in Edge : steady'[d] \subseteq graph'[d] /\ steady'[d] \subseteq steady[d]
      BY <3>1 DEF FetchedSteady
    <3>4. \A d \in Edge \ over' : Cardinality(graph'[d]) <= Cap
      <4>1. graph'[e] \in SUBSET Viewer
        BY <3>1 DEF TypeOK
      <4>2. Cardinality(graph'[e]) \in Nat
        BY <4>1, ViewerAssumption, FS_Subset, FS_CardinalityType
      <4>3. e \notin over' => ~(Cardinality(graph'[e]) > Cap)
        BY <2>6 DEF EdgeChanges
      <4>4. \A d \in Edge \ over' : d # e => Cardinality(graph'[d]) <= Cap
        BY <3>1, <3>2 DEF FetchedSteady
      <4> QED BY <4>2, <4>3, <4>4, BoundAssumption
    <3>5. FetchedSteady'
      BY <3>2, <3>3, <3>4 DEF FetchedSteady
    <3>6. SteadyKeepFlagsUnlessFailed'
      BY <3>2, <3>3 DEF SteadyKeepFlagsUnlessFailed
    <3> QED BY <3>5, <3>6
  <2>7. ASSUME NEW c \in Collection, CollectionChanges(c) PROVE Inv'
    BY <2>7, Quiet DEF CollectionChanges
  <2>8. ASSUME NEW v \in Viewer, Unlink(v) \/ UnlinkMembers(v) PROVE Inv'
    BY <2>8, Quiet DEF Unlink, UnlinkMembers
  <2>9. ASSUME NEW v \in Viewer, UnlinkRelations(v) PROVE Inv'
    <3>1. UNCHANGED <<graph, steady, over, faults, run>>
      BY <2>9 DEF UnlinkRelations
    <3>2. \A e \in Edge : flags'[e] = flags[e] \ {v} /\ known'[e] = known[e] \ {v}
      BY <2>9 DEF UnlinkRelations
    <3>3. SteadyKeepFlagsUnlessFailed'
      BY <3>1, <3>2 DEF SteadyKeepFlagsUnlessFailed
    <3> QED BY <3>1, <3>3 DEF FetchedSteady
  <2>10. CASE UNCHANGED vars
    BY <2>10, Quiet DEF vars
  <2> QED BY <2>1, <2>2, <2>3, <2>4, <2>5, <2>6, <2>7, <2>8, <2>9, <2>10 DEF Next, Step
<1> QED BY <1>1, <1>2, TypeCorrect, PTL DEF Spec

\* What a refresh has fetched but not yet written holds every steady follower
\* of an edge that fits into what one refresh reads, whatever else overlaps
\* with it (the reads of refresh_account before its transaction).
THEOREM FetchesAreWhole == Spec => []FetchedSteady
BY FlagInvariant, PTL

\* Overlapping refreshes never take a flag from a viewer who has it coming,
\* unless a call fails or there were more than a refresh can read.
THEOREM FlagsAreKept == Spec => []SteadyKeepFlagsUnlessFailed
BY FlagInvariant, PTL

-----------------------------------------------------------------------------
\* Watching changes nothing.
LEMMA CalmLooksOn == CalmSpec => Spec
<1>1. CalmInit => Init
  BY DEF CalmInit
<1>2. [CalmNext]_<<vars, calm>> => [Next]_vars
  BY DEF CalmNext
<1> QED BY <1>1, <1>2, PTL DEF CalmSpec, Spec

\* Only a refresh itself moves it, and it fails to move on only by a fault.
LEMMA OwnStep ==
    ASSUME TypeOK, NEW r \in Refresher, Next, run'[r] # run[r], UNCHANGED faults
    PROVE  Begin(r) \/ Step(r)
<1>1. Fault => faults' # faults
  BY DEF Fault, TypeOK
<1>2. \A v \in Viewer : ~Unlink(v) /\ ~UnlinkRelations(v) /\ ~UnlinkMembers(v)
                        /\ \A e \in Edge : ~EdgeChanges(e, v)
  BY DEF Unlink, UnlinkRelations, UnlinkMembers, EdgeChanges
<1>3. \A c \in Collection : ~CollectionChanges(c)
  BY DEF CollectionChanges
<1>4. PICK q \in Refresher : Begin(q) \/ Step(q)
  BY <1>1, <1>2, <1>3 DEF Next, EdgesFail, CollectionFails, StatementFails, Abort
<1>5. \E l : Become(q, l)
  BY <1>4 DEF Begin, Step, GetEdges, WriteRelations, GetLists, UpsertLists, GcLists,
     GetListMembers, ListsDone, GetPacks, GetPackMembers, PacksDone, WriteMembers, WriteRefused,
     GcPacks, Goto, Done
<1>6. q = r
  BY <1>5 DEF Become, TypeOK
<1> QED BY <1>4, <1>6

\* A step of a refresh changes nothing on Bluesky.
LEMMA StepReads ==
    ASSUME NEW r \in Refresher, Step(r)
    PROVE  UNCHANGED <<graph, live, onIt>>
BY DEF Step, GetEdges, WriteRelations, GetLists, UpsertLists, GcLists, GetListMembers, ListsDone,
   GetPacks, GetPackMembers, PacksDone, WriteMembers, WriteRefused, GcPacks, bluesky

\* What is read of a readable set is that set.
LEMMA ReadRight ==
    ASSUME NEW S \in SUBSET Viewer, NEW T \in Read(S, Cap)
    PROVE  Right(T, S)
BY ReadAll, ViewerAssumption, BoundAssumption, FS_Subset DEF Right, Readable

\* What ten pages return is what they can tell.
LEMMA ReadTold ==
    ASSUME TypeOK, NEW X \in {List, Pack}, NEW T \in Read(live \cap X, PageCap)
    PROVE  Told(T, X)
<1>1. IsFiniteSet(live \cap X) /\ Cardinality(live \cap X) \in Nat
  BY CollectionAssumption, FS_Subset, FS_CardinalityType DEF TypeOK
<1>2. CASE Listable(X)
  BY <1>1, <1>2, ReadAll, BoundAssumption DEF Listable, Told
<1>3. CASE ~Listable(X)
  BY <1>1, <1>3, BoundAssumption DEF Listable, Told, Read
<1> QED BY <1>2, <1>3

\* The conjuncts of CalmInv for one refresh.
InStep(r) == EdgesInStep(r) /\ ListsInStep(r) /\ PacksInStep(r) /\ WriteInStep(r)

\* It depends on nothing but what a refresh reads and writes, and its locals.
LEMMA Unmoved ==
    ASSUME NEW r \in Refresher, InStep(r), run'[r] = run[r],
           UNCHANGED <<graph, live, onIt, flags, stored, members>>
    PROVE  InStep(r)'
<1>1. EdgesInStep(r)' /\ WriteInStep(r)'
  BY DEF InStep, EdgesInStep, WriteInStep, FlagsRight, Right, Readable, At
<1>2. ListsInStep(r)'
  BY DEF InStep, ListsInStep, MembersRight, Right, Readable, Told, Listable, Listing, Packing,
         Pending, At
<1>3. PacksInStep(r)'
  BY DEF InStep, PacksInStep, MembersRight, Right, Readable, Told, Listable, Packing, Pending, At
<1> QED BY <1>1, <1>2, <1>3 DEF InStep

\* Each step of a calm refresh takes it from one stage of CalmInv to the next.
LEMMA StepInStep ==
    ASSUME TypeOK, NEW r \in Refresher, InStep(r), Step(r), ~At(r, "idle")'
    PROVE  InStep(r)'
<1>a. run[r] \in Local /\ run \in [Refresher -> Local]
  BY DEF TypeOK
<1>b. UNCHANGED <<graph, live, onIt>>
  BY StepReads
<1>c. live \subseteq Collection /\ stored \subseteq Collection
  BY DEF TypeOK
<1>d. ASSUME NEW local, Become(r, local) PROVE run'[r] = local
  BY <1>a, <1>d DEF Become
<1>e. ASSUME NEW stage, Goto(r, stage)
      PROVE  /\ run'[r].at = stage
             /\ run'[r].got = run[r].got /\ run'[r].found = run[r].found
             /\ run'[r].todo = run[r].todo /\ run'[r].coll = run[r].coll
             /\ run'[r].dids = run[r].dids
  BY <1>a, <1>d, <1>e DEF Goto, Local
<1>f. ~Done(r)
  BY <1>d DEF Done, Idle, At
<1>h. \A T, X : Told(T, X) => T \subseteq live \cap X
  BY DEF Told
<1> USE DEF InStep, EdgesInStep, ListsInStep, PacksInStep, WriteInStep, At
<1>1. ASSUME NEW e \in Edge, GetEdges(r, e) PROVE InStep(r)'
  <2>1. PICK answer \in Read(graph[e], Cap) :
          Become(r, [run[r] EXCEPT !.at = IF e = "follower" THEN "followed_back" ELSE "relations",
                                   !.got = [run[r].got EXCEPT ![e] = answer]])
    BY <1>1 DEF GetEdges
  <2>2. Right(answer, graph[e])
    BY ReadRight DEF TypeOK
  <2>3. /\ run'[r].at = IF e = "follower" THEN "followed_back" ELSE "relations"
        /\ run'[r].got = [run[r].got EXCEPT ![e] = answer]
        /\ run'[r].coll = run[r].coll
    BY <1>a, <1>d, <2>1 DEF Local
  <2>4. /\ run'[r].got[e] = answer
        /\ \A d \in Edge \ {e} : run'[r].got[d] = run[r].got[d]
    BY <1>a, <2>3 DEF Local
  <2>5. run[r].at = e
    BY <1>1 DEF GetEdges
  <2>6. EdgesInStep(r)'
    <3>1. CASE e = "follower"
      <4>1. run'[r].at = "followed_back"
        BY <2>3, <3>1
      <4>2. Right(run'[r].got["follower"], graph'["follower"])
        BY <1>b, <2>2, <2>4, <3>1 DEF Right, Readable
      <4> QED BY <4>1, <4>2 DEF Right, Readable
    <3>2. CASE e = "followed_back"
      <4>1. run'[r].at = "relations"
        BY <2>3, <3>2
      <4>2. \A d \in Edge : Right(run'[r].got[d], graph'[d])
        BY <1>b, <2>2, <2>4, <2>5, <3>2 DEF Right, Readable, Edge
      <4> QED BY <4>1, <4>2 DEF Right, Readable
    <3> QED BY <3>1, <3>2 DEF Edge
  <2>7. run'[r].at \in {"followed_back", "relations"}
    BY <2>3
  <2>8. run'[r].coll = {}
    BY <2>3, <2>5 DEF Edge
  <2>9. ListsInStep(r)' /\ PacksInStep(r)'
    BY <2>7 DEF Listing, Packing, BeforeLists
  <2> QED BY <2>6, <2>7, <2>8, <2>9
<1>2. CASE WriteRelations(r)
  <2>1. run[r].at = "relations" /\ flags' = run[r].got /\ Goto(r, "lists")
    BY <1>2 DEF WriteRelations
  <2>2. FlagsRight'
    BY <1>b, <2>1 DEF FlagsRight, Right, Readable
  <2>3. run'[r].at = "lists" /\ run'[r].coll = {}
    BY <1>e, <2>1
  <2>4. EdgesInStep(r)' /\ WriteInStep(r)'
    BY <2>2, <2>3
  <2>5. ListsInStep(r)' /\ PacksInStep(r)'
    BY <2>3 DEF Listing, Packing, BeforeLists
  <2> QED BY <2>4, <2>5
<1>3. CASE GetLists(r)
  <2>0. PICK answer \in Read(live \cap List, PageCap) :
          Become(r, [run[r] EXCEPT !.at = "upsert lists", !.found = answer, !.todo = answer])
    BY <1>3 DEF GetLists
  <2>1. run[r].at = "lists" /\ UNCHANGED <<flags, stored, members>>
    BY <1>3 DEF GetLists, facts
  <2>2. /\ run'[r].at = "upsert lists" /\ run'[r].found = answer
        /\ run'[r].todo = answer /\ run'[r].coll = run[r].coll
    BY <1>a, <1>d, <2>0 DEF Local
  <2>3. FlagsRight'
    BY <1>b, <2>1 DEF FlagsRight, Right, Readable
  <2>4. Told(run[r].found, List)'
    BY <1>b, <2>2, ReadTold DEF Told, Listable
  <2> QED BY <1>b, <2>1, <2>2, <2>3, <2>4 DEF Listing, Packing, BeforeLists
<1>4. CASE UpsertLists(r)
  <2>1. /\ run[r].at = "upsert lists" /\ UNCHANGED <<flags, members>>
        /\ stored' = stored \cup run[r].found /\ Goto(r, "gc lists")
    BY <1>4 DEF UpsertLists
  <2>2. FlagsRight'
    BY <1>b, <2>1 DEF FlagsRight, Right, Readable
  <2>3. /\ run'[r].at = "gc lists" /\ run'[r].coll = {}
        /\ run'[r].found = run[r].found /\ run'[r].todo = run[r].found
    BY <1>e, <2>1
  <2>4. EdgesInStep(r)' /\ WriteInStep(r)'
    BY <2>2, <2>3
  <2>5. Told(run[r].found, List)'
    BY <1>b, <2>1, <2>3 DEF Told, Listable
  <2>6. ListsInStep(r)' /\ PacksInStep(r)'
    BY <1>b, <2>1, <2>3, <2>5 DEF Listing, Packing, BeforeLists
  <2> QED BY <2>4, <2>6
<1>5. CASE GcLists(r)
  <2>1. /\ run[r].at = "gc lists" /\ UNCHANGED flags
        /\ stored' = stored \ (List \ run[r].found) /\ Goto(r, "members of lists")
    BY <1>5 DEF GcLists, Forget
  <2>2. FlagsRight'
    BY <1>b, <2>1 DEF FlagsRight, Right, Readable
  <2>3. stored' \cap List = run[r].found
    BY <1>h, <2>1
  <2>4. /\ run'[r].at = "members of lists" /\ run'[r].coll = {}
        /\ run'[r].todo = run[r].found
    BY <1>e, <2>1
  <2>5. Told(stored \cap List, List)'
    BY <1>b, <2>1, <2>3 DEF Told, Listable
  <2>6. ListsInStep(r)'
    BY <2>3, <2>4, <2>5 DEF Listing, Packing, Pending, MembersRight, BeforeLists
  <2>7. PacksInStep(r)'
    BY <2>4 DEF Packing
  <2> QED BY <2>2, <2>4, <2>6, <2>7
<1>6. CASE ListsDone(r)
  <2>1. /\ run[r].at = "members of lists" /\ UNCHANGED <<flags, stored, members>>
        /\ run[r].todo = {} /\ Goto(r, "packs")
    BY <1>6 DEF ListsDone, facts
  <2>2. FlagsRight'
    BY <1>b, <2>1 DEF FlagsRight, Right, Readable
  <2>3. MembersRight(stored \cap List) /\ Told(stored \cap List, List)
    BY <2>1 DEF Listing, Pending, BeforeLists
  <2>4. MembersRight(stored \cap List)' /\ Told(stored \cap List, List)'
    BY <1>b, <2>1, <2>3 DEF MembersRight, Right, Readable, Told, Listable
  <2>5. run'[r].at = "packs" /\ run'[r].coll = {}
    BY <1>e, <2>1
  <2> QED BY <1>b, <2>2, <2>4, <2>5 DEF Listing, Packing, BeforeLists
<1>7. CASE GetPacks(r)
  <2>0. PICK answer \in Read(live \cap Pack, PageCap) :
          Become(r, [run[r] EXCEPT !.at = "members of packs", !.found = answer, !.todo = answer])
    BY <1>7 DEF GetPacks
  <2>1. run[r].at = "packs" /\ UNCHANGED <<flags, stored, members>>
    BY <1>7 DEF GetPacks, facts
  <2>2. /\ run'[r].at = "members of packs" /\ run'[r].found = answer
        /\ run'[r].todo = answer /\ run'[r].coll = {}
    BY <1>a, <1>d, <2>0, <2>1 DEF Local
  <2>3. FlagsRight'
    BY <1>b, <2>1 DEF FlagsRight, Right, Readable
  <2>4. MembersRight(stored \cap List)' /\ Told(stored \cap List, List)'
    BY <1>b, <2>1 DEF MembersRight, Right, Readable, Told, Listable, BeforeLists
  <2>5. Told(run[r].found, Pack)'
    BY <1>b, <2>2, ReadTold DEF Told, Listable
  <2>6. PacksInStep(r)'
    BY <2>2, <2>5 DEF Packing, Pending, MembersRight
  <2>7. ListsInStep(r)'
    BY <2>2, <2>4 DEF Listing, Packing, BeforeLists
  <2> QED BY <2>2, <2>3, <2>6, <2>7
<1>8. CASE PacksDone(r)
  <2>1. /\ run[r].at = "members of packs" /\ UNCHANGED <<flags, stored, members>>
        /\ run[r].todo = {} /\ Goto(r, "gc packs")
    BY <1>8 DEF PacksDone, facts
  <2>2. FlagsRight'
    BY <1>b, <2>1 DEF FlagsRight, Right, Readable
  <2>3. MembersRight(stored \cap List)' /\ Told(stored \cap List, List)'
    BY <1>b, <2>1 DEF MembersRight, Right, Readable, Told, Listable, Packing, BeforeLists
  <2>4. /\ MembersRight(run[r].found) /\ Told(run[r].found, Pack)
        /\ run[r].found \subseteq stored
    BY <2>1 DEF Packing, Pending
  <2>5. run'[r].at = "gc packs" /\ run'[r].coll = {} /\ run'[r].found = run[r].found
    BY <1>e, <2>1
  <2>6. MembersRight(run[r].found)' /\ Told(run[r].found, Pack)'
    BY <1>b, <2>1, <2>4, <2>5 DEF MembersRight, Right, Readable, Told, Listable
  <2>7. (run[r].found \subseteq stored)'
    BY <2>1, <2>4, <2>5
  <2>8. EdgesInStep(r)' /\ WriteInStep(r)'
    BY <2>2, <2>5
  <2>9. ListsInStep(r)' /\ PacksInStep(r)'
    BY <2>3, <2>5, <2>6, <2>7 DEF Listing, Packing, BeforeLists
  <2> QED BY <2>8, <2>9
<1>9. ASSUME NEW c \in run[r].todo, NEW answer \in Read(onIt[c], Cap),
             Become(r, [run[r] EXCEPT !.at = "write", !.coll = {c}, !.dids = answer,
                                      !.todo = run[r].todo \ {c}])
      PROVE  /\ run'[r].at = "write" /\ run'[r].coll = {c} /\ run'[r].dids = answer
             /\ run'[r].todo = run[r].todo \ {c} /\ run'[r].found = run[r].found
             /\ c \in Collection /\ Right(answer, onIt[c])
  <2>1. c \in Collection
    BY <1>a DEF Local
  <2>2. Right(answer, onIt[c])
    BY <2>1, ReadRight DEF TypeOK
  <2> QED BY <1>a, <1>d, <1>9, <2>1, <2>2 DEF Local
<1>10. CASE GetListMembers(r)
  <2>0. PICK c \in run[r].todo : \E answer \in Read(onIt[c], Cap) :
          Become(r, [run[r] EXCEPT !.at = "write", !.coll = {c}, !.dids = answer,
                                   !.todo = run[r].todo \ {c}])
    BY <1>10 DEF GetListMembers
  <2>1. PICK answer \in Read(onIt[c], Cap) :
          Become(r, [run[r] EXCEPT !.at = "write", !.coll = {c}, !.dids = answer,
                                   !.todo = run[r].todo \ {c}])
    BY <2>0
  <2>2. run[r].at = "members of lists" /\ UNCHANGED <<flags, stored, members>>
    BY <1>10 DEF GetListMembers, facts
  <2>3. /\ run'[r].at = "write" /\ run'[r].coll = {c} /\ run'[r].dids = answer
        /\ run'[r].todo = run[r].todo \ {c}
        /\ c \in Collection /\ Right(answer, onIt[c])
    BY <1>9, <2>1
  <2>4. FlagsRight'
    BY <1>b, <2>2 DEF FlagsRight, Right, Readable
  <2>5. WriteInStep(r)'
    BY <1>b, <2>3 DEF Right, Readable
  <2>6. /\ Pending(r)' = Pending(r) /\ Pending(r) \subseteq stored \cap List
        /\ MembersRight((stored \cap List) \ Pending(r))
    BY <2>2, <2>3 DEF Listing, Pending
  <2>7. MembersRight((stored \cap List) \ Pending(r))'
    BY <1>b, <2>2, <2>6 DEF MembersRight, Right, Readable
  <2>8. c \in List
    BY <2>2 DEF Listing, Pending
  <2>9. Told(stored \cap List, List)'
    BY <1>b, <2>2 DEF Told, Listable, BeforeLists
  <2>10. ListsInStep(r)'
    <3>1. ~Packing(r)'
      BY <2>3, <2>8, CollectionAssumption DEF Packing
    <3>2. Pending(r)' \subseteq stored' \cap List
      BY <2>2, <2>6
    <3> QED BY <2>3, <2>7, <2>9, <3>1, <3>2
  <2>11. PacksInStep(r)'
    BY <2>3, <2>8, CollectionAssumption DEF Packing
  <2> QED BY <2>3, <2>4, <2>5, <2>10, <2>11
<1>11. CASE GetPackMembers(r)
  <2>0. PICK c \in run[r].todo : \E answer \in Read(onIt[c], Cap) :
          /\ stored' = stored \cup {c}
          /\ Become(r, [run[r] EXCEPT !.at = "write", !.coll = {c}, !.dids = answer,
                                      !.todo = run[r].todo \ {c}])
    BY <1>11 DEF GetPackMembers
  <2>1. PICK answer \in Read(onIt[c], Cap) :
          /\ stored' = stored \cup {c}
          /\ Become(r, [run[r] EXCEPT !.at = "write", !.coll = {c}, !.dids = answer,
                                      !.todo = run[r].todo \ {c}])
    BY <2>0
  <2>2. run[r].at = "members of packs" /\ UNCHANGED <<flags, members>>
    BY <1>11 DEF GetPackMembers
  <2>3. /\ run'[r].at = "write" /\ run'[r].coll = {c} /\ run'[r].dids = answer
        /\ run'[r].todo = run[r].todo \ {c} /\ run'[r].found = run[r].found
        /\ c \in Collection /\ Right(answer, onIt[c])
    BY <1>9, <2>1
  <2>4. FlagsRight'
    BY <1>b, <2>2 DEF FlagsRight, Right, Readable
  <2>5. WriteInStep(r)'
    BY <1>b, <2>3 DEF Right, Readable
  <2>6. /\ Pending(r)' = Pending(r) /\ Pending(r) \subseteq run[r].found
        /\ MembersRight(run[r].found \ Pending(r)) /\ Told(run[r].found, Pack)
    BY <2>2, <2>3 DEF Packing, Pending
  <2>7. MembersRight(run[r].found \ Pending(r))'
    BY <1>b, <2>2, <2>3, <2>6 DEF MembersRight, Right, Readable
  <2>8. c \in Pack /\ c \notin List
    <3>1. c \in run[r].found
      BY <2>6 DEF Pending
    <3>2. run[r].found \subseteq live \cap Pack
      BY <1>h, <2>6
    <3> QED BY <3>1, <3>2, CollectionAssumption
  <2>9. stored' \cap List = stored \cap List /\ Told(stored \cap List, List)
    BY <2>1, <2>2, <2>8 DEF BeforeLists
  <2>10. MembersRight(stored \cap List)' /\ Told(stored \cap List, List)'
    BY <1>b, <2>2, <2>9 DEF MembersRight, Right, Readable, Told, Listable, Packing
  <2>11. ListsInStep(r)'
    BY <2>3, <2>8, <2>10 DEF Listing
  <2>12. (run[r].found \ run[r].todo \subseteq stored)'
    BY <2>1, <2>2, <2>3 DEF Packing
  <2>13. Told(run[r].found, Pack)'
    BY <1>b, <2>3, <2>6 DEF Told, Listable
  <2>14. PacksInStep(r)'
    <3>1. Pending(r)' \subseteq run'[r].found
      BY <2>3, <2>6
    <3> QED BY <2>3, <2>7, <2>12, <2>13, <3>1
  <2> QED BY <2>3, <2>4, <2>5, <2>11, <2>14
<1>12. CASE WriteMembers(r)
  <2> DEFINE at == IF run[r].coll \subseteq List THEN "members of lists" ELSE "members of packs"
  <2>1. run[r].at = "write" /\ UNCHANGED <<flags, stored>>
    BY <1>12 DEF WriteMembers
  <2>2. PICK c \in Collection : run[r].coll = {c} /\ c \notin run[r].todo
                                /\ Right(run[r].dids, onIt[c])
    BY <2>1
  <2>3. /\ run'[r].at = at /\ run'[r].coll = {}
        /\ run'[r].todo = run[r].todo /\ run'[r].found = run[r].found
    <3>1. run'[r] = [run[r] EXCEPT !.coll = {}, !.dids = {}, !.at = at]
      BY <1>12, <1>d DEF WriteMembers
    <3> HIDE DEF at
    <3> QED BY <1>a, <3>1 DEF Local
  <2>4. /\ members'[c] = run[r].dids
        /\ \A d \in Collection \ {c} : members'[d] = members[d]
    BY <1>12, <2>2 DEF WriteMembers
  <2>5. FlagsRight'
    BY <1>b, <2>1 DEF FlagsRight, Right, Readable
  <2>6. Pending(r)' = Pending(r) \ {c}
    BY <2>2, <2>3 DEF Pending
  <2>7. \A d \in Collection :
           d = c \/ Right(members[d], onIt[d]) => Right(members'[d], onIt'[d])
    BY <1>b, <2>2, <2>4 DEF Right, Readable
  <2>8. CASE c \in List
    <3>1. /\ run'[r].at = "members of lists" /\ Listing(r)
      BY <2>1, <2>2, <2>3, <2>8 DEF Listing
    <3>2. /\ Pending(r) \subseteq stored \cap List
          /\ MembersRight((stored \cap List) \ Pending(r)) /\ Told(stored \cap List, List)
      BY <2>1, <3>1 DEF BeforeLists
    <3>3. \A d \in (stored \cap List) \ Pending(r)' : d = c \/ Right(members[d], onIt[d])
      BY <2>6, <3>2 DEF MembersRight
    <3>4. MembersRight((stored \cap List) \ Pending(r))'
      BY <1>c, <2>1, <2>7, <3>3 DEF MembersRight
    <3>a. Told(stored \cap List, List)'
      BY <1>b, <2>1, <3>2 DEF Told, Listable
    <3>b. Pending(r)' \subseteq stored' \cap List
      BY <2>1, <2>6, <3>2
    <3>5. ListsInStep(r)'
      BY <3>1, <3>4, <3>a, <3>b DEF Packing
    <3>6. PacksInStep(r)'
      BY <3>1 DEF Packing
    <3> QED BY <2>3, <2>5, <3>1, <3>5, <3>6
  <2>9. CASE c \notin List
    <3>1. /\ run'[r].at = "members of packs" /\ Packing(r)
      BY <2>1, <2>2, <2>3, <2>9 DEF Packing, Collection
    <3>2. /\ Pending(r) \subseteq run[r].found /\ Told(run[r].found, Pack)
          /\ MembersRight(run[r].found \ Pending(r))
          /\ run[r].found \ run[r].todo \subseteq stored
          /\ MembersRight(stored \cap List) /\ Told(stored \cap List, List)
      BY <2>1, <3>1 DEF BeforeLists
    <3>a. run[r].found \subseteq Collection
      BY <1>a DEF Local
    <3>3. \A d \in run[r].found \ Pending(r)' : d = c \/ Right(members[d], onIt[d])
      BY <2>6, <3>2 DEF MembersRight
    <3>4. MembersRight(run[r].found \ Pending(r))'
      BY <2>3, <2>7, <3>3, <3>a DEF MembersRight
    <3>5. MembersRight(stored \cap List)' /\ Told(stored \cap List, List)'
      BY <1>b, <1>c, <2>1, <2>4, <2>9, <3>2 DEF MembersRight, Right, Readable, Told, Listable
    <3>6. ListsInStep(r)'
      BY <3>1, <3>5 DEF Listing
    <3>b. Told(run[r].found, Pack)'
      BY <1>b, <2>3, <3>2 DEF Told, Listable
    <3>c. (run[r].found \ run[r].todo \subseteq stored)' /\ Pending(r)' \subseteq run'[r].found
      BY <2>1, <2>3, <2>6, <3>2
    <3>7. PacksInStep(r)'
      BY <3>1, <3>4, <3>b, <3>c
    <3> QED BY <2>3, <2>5, <3>1, <3>6, <3>7
  <2> QED BY <2>8, <2>9
<1>13. ~WriteRefused(r) /\ ~GcPacks(r)
  BY <1>f DEF WriteRefused, GcPacks
<1> QED BY <1>1, <1>2, <1>3, <1>4, <1>5, <1>6, <1>7, <1>8, <1>10, <1>11, <1>12, <1>13 DEF Step

\* A refresh that nothing comes between is, at every stage, as far as Bluesky
\* lets it be: what it holds is what it would fetch now, and what it has
\* written is right, whatever was stored before and by whom.
THEOREM CalmIsInStep == CalmSpec => []CalmInv
<1>1. CalmInit => CalmInv
  BY DEF CalmInit, CalmInv
<1>2. TypeOK /\ CalmInv /\ [CalmNext]_<<vars, calm>> => CalmInv'
  <2> SUFFICES ASSUME TypeOK, CalmInv, [CalmNext]_<<vars, calm>> PROVE CalmInv'
    OBVIOUS
  <2>1. CASE UNCHANGED <<vars, calm>>
    <3>1. UNCHANGED <<graph, live, onIt, flags, stored, members, run, calm>>
      BY <2>1 DEF vars, bluesky, facts
    <3>2. \A r \in calm : r \in Refresher /\ InStep(r)
      BY DEF CalmInv, InStep
    <3>3. \A r \in calm' : InStep(r)'
      BY <3>1, <3>2, Unmoved
    <3> QED BY <3>1, <3>3 DEF CalmInv, InStep, At
  <2>2. CASE CalmNext
    <3>1. calm' \subseteq {r \in Refresher : ~At(r, "idle")'}
      BY <2>2 DEF CalmNext, Watch
    <3>2. ASSUME NEW r \in calm' PROVE InStep(r)'
      <4>1. /\ r \in Refresher /\ ~At(r, "idle")'
            /\ At(r, "idle") \/ (r \in calm /\ UNCHANGED <<graph, live, onIt>>)
            /\ run'[r] = run[r] => UNCHANGED <<flags, stored, members>>
            /\ run'[r] # run[r] => UNCHANGED faults
        BY <2>2, <3>2 DEF CalmNext, Watch, bluesky, facts
      <4>2. CASE run'[r] = run[r]
        <5>1. r \in calm /\ UNCHANGED <<graph, live, onIt, flags, stored, members>>
          BY <4>1, <4>2 DEF At
        <5>2. InStep(r)
          BY <5>1 DEF CalmInv, InStep
        <5> QED BY <4>1, <4>2, <5>1, <5>2, Unmoved
      <4>3. CASE run'[r] # run[r]
        <5>1. Begin(r) \/ Step(r)
          BY <2>2, <4>1, <4>3, OwnStep DEF CalmNext
        <5>2. CASE Begin(r)
          <6>1. run'[r].at = "follower" /\ run'[r].coll = {}
            BY <4>1, <5>2 DEF Begin, Become, Idle, TypeOK
          <6> QED BY <6>1 DEF InStep, EdgesInStep, ListsInStep, PacksInStep, WriteInStep, At,
                     Listing, Packing, BeforeLists
        <5>3. CASE Step(r) /\ r \in calm
          <6>1. InStep(r)
            BY <5>3 DEF CalmInv, InStep
          <6> QED BY <4>1, <5>3, <6>1, StepInStep
        <5>4. Step(r) => ~At(r, "idle")
          BY DEF Step, GetEdges, WriteRelations, GetLists, UpsertLists, GcLists, GetListMembers,
             ListsDone, GetPacks, GetPackMembers, PacksDone, WriteMembers, WriteRefused, GcPacks,
             At, Edge
        <5> QED BY <4>1, <5>1, <5>2, <5>3, <5>4
      <4> QED BY <4>2, <4>3
    <3> QED BY <3>1, <3>2 DEF CalmInv, InStep, At
  <2> QED BY <2>1, <2>2
<1> QED BY <1>1, <1>2, CalmLooksOn, TypeCorrect, PTL DEF CalmSpec

\* A refresh that ends in calm leaves the tables as Bluesky is
\* (refresh_account).  At the last garbage collection CalmInv has the flags,
\* the lists and the members right and every live pack stored; and it never
\* finds the collection dropped whose members it writes.
THEOREM CalmRefreshesAreRight == CalmSpec => RefreshesAreRight
<1>1. TypeOK /\ CalmInv /\ [CalmNext]_<<vars, calm>> =>
        [\A r \in calm : ~At(r, "idle") /\ At(r, "idle")' /\ UNCHANGED faults
           => Current']_<<vars, calm>>
  <2> SUFFICES ASSUME TypeOK, CalmInv, CalmNext, NEW r \in calm,
                      ~At(r, "idle"), At(r, "idle")', UNCHANGED faults
               PROVE  Current'
    OBVIOUS
  <2>1. r \in Refresher /\ EdgesInStep(r) /\ ListsInStep(r) /\ PacksInStep(r) /\ WriteInStep(r)
    BY DEF CalmInv
  <2>2. Step(r)
    <3>1. run'[r] # run[r] /\ ~Begin(r)
      BY DEF At, Begin
    <3> QED BY <2>1, <3>1, OwnStep DEF CalmNext
  <2>3. UNCHANGED <<graph, live, onIt>>
    BY <2>1, <2>2, StepReads
  <2>4. ~WriteRefused(r)
    <3> SUFFICES ASSUME At(r, "write") PROVE run[r].coll \subseteq stored
      BY DEF WriteRefused
    <3>1. PICK c \in Collection : run[r].coll = {c} /\ c \notin run[r].todo
      BY <2>1 DEF WriteInStep
    <3>3. CASE c \in List
      BY <2>1, <3>1, <3>3 DEF ListsInStep, Listing, Pending
    <3>4. CASE c \in Pack
      <4>1. Packing(r)
        BY <3>1, <3>4 DEF Packing
      <4>2. c \in run[r].found
        BY <2>1, <3>1, <4>1 DEF PacksInStep, Pending
      <4> QED BY <2>1, <3>1, <4>1, <4>2 DEF PacksInStep
    <3> QED BY <3>3, <3>4 DEF Collection
  <2>5. GcPacks(r)
    <3>1. run \in [Refresher -> Local] /\ run[r] \in Local
      BY <2>1 DEF TypeOK
    <3>2. ASSUME NEW stage, Goto(r, stage), stage # "idle" PROVE FALSE
      BY <2>1, <3>1, <3>2 DEF Goto, Become, At, Local
    <3>3. ASSUME NEW local, Become(r, local), local.at # "idle" PROVE FALSE
      BY <2>1, <3>1, <3>3 DEF Become, At
    <3>4. \A e \in Edge : ~GetEdges(r, e)
      <4> SUFFICES ASSUME NEW e \in Edge, GetEdges(r, e) PROVE FALSE
        OBVIOUS
      <4> DEFINE at == IF e = "follower" THEN "followed_back" ELSE "relations"
      <4>1. PICK answer : Become(r, [run[r] EXCEPT !.at = at,
                                                   !.got = [run[r].got EXCEPT ![e] = answer]])
        BY DEF GetEdges
      <4>2. at # "idle"
        OBVIOUS
      <4>3. [run[r] EXCEPT !.at = at, !.got = [run[r].got EXCEPT ![e] = answer]].at = at
        <5> HIDE DEF at
        <5> QED BY <3>1 DEF Local
      <4> QED BY <3>3, <4>1, <4>2, <4>3
    <3>5. ~GetLists(r) /\ ~GetPacks(r)
      BY <2>1, <3>1 DEF GetLists, GetPacks, Become, At, Local
    <3>6. ~GetListMembers(r) /\ ~GetPackMembers(r)
      BY <2>1, <3>1 DEF GetListMembers, GetPackMembers, Become, At, Local
    <3>7. ~WriteMembers(r)
      <4> SUFFICES ASSUME WriteMembers(r) PROVE FALSE
        OBVIOUS
      <4> DEFINE at == IF run[r].coll \subseteq List THEN "members of lists" ELSE "members of packs"
      <4>1. Become(r, [run[r] EXCEPT !.coll = {}, !.dids = {}, !.at = at]) /\ at # "idle"
        BY DEF WriteMembers
      <4>2. [run[r] EXCEPT !.coll = {}, !.dids = {}, !.at = at].at = at
        <5> HIDE DEF at
        <5> QED BY <3>1 DEF Local
      <4> QED BY <3>3, <4>1, <4>2
    <3> QED BY <2>2, <2>4, <3>2, <3>4, <3>5, <3>6, <3>7 DEF Step, WriteRelations, UpsertLists,
               GcLists, ListsDone, PacksDone
  <2>6. At(r, "gc packs") /\ UNCHANGED flags /\ Forget(Pack \ run[r].found)
    BY <2>5 DEF GcPacks
  <2>7. /\ FlagsRight /\ Told(stored \cap List, List)
        /\ MembersRight(stored \cap List) /\ Told(run[r].found, Pack)
        /\ run[r].found \subseteq stored /\ MembersRight(run[r].found)
    BY <2>1, <2>6 DEF EdgesInStep, ListsInStep, PacksInStep, BeforeLists, At
  <2>8. stored' \cap List = stored \cap List /\ stored' \cap Pack = run[r].found
    BY <2>6, <2>7, CollectionAssumption DEF Forget, Told
  <2>9. \A X \in {List, Pack} : Told(stored \cap X, X)'
    BY <2>3, <2>7, <2>8 DEF Told, Listable
  <2>11. MembersRight(stored)'
    <3>0. stored' \subseteq stored /\ stored' \subseteq Collection
      BY <2>6 DEF Forget, TypeOK
    <3>1. \A c \in stored' : members'[c] = members[c]
      BY <2>6, <3>0 DEF Forget
    <3>2. \A c \in stored' : Right(members[c], onIt[c])
      BY <2>7, <2>8, <3>0 DEF MembersRight, Collection
    <3> QED BY <2>3, <3>1, <3>2 DEF MembersRight, Right, Readable
  <2>10. FlagsRight'
    BY <2>3, <2>6, <2>7 DEF FlagsRight, Right, Readable
  <2> QED BY <2>9, <2>10, <2>11 DEF Current
<1> QED BY <1>1, CalmIsInStep, CalmLooksOn, TypeCorrect, PTL DEF CalmSpec, RefreshesAreRight
=============================================================================
