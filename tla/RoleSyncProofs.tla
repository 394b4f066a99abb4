--------------------------- MODULE RoleSyncProofs ---------------------------
(***************************************************************************)
(* Theorems about RoleSync, for every number of members, workers and rules *)
(* and every bound, and about what a sync does in calm (RoleSyncCalm).     *)
(***************************************************************************)
EXTENDS RoleSyncCalm, TLAPS

\* The types of the tables, of RoleLogic's list and of the syncs' locals hold.
THEOREM TypeCorrect == Spec => []TypeOK
<1> USE DEF TypeOK
<1>0. Idle \in Local
  BY DEF Idle, Local, Op, Stage
<1>1. Init => TypeOK
  <2> SUFFICES ASSUME Init PROVE TypeOK
    OBVIOUS
  <2>1. queued \in [Op -> Nat] /\ run \in [Worker -> Local]
    BY <1>0 DEF Init
  <2>2. row \in BOOLEAN /\ bound \in BOOLEAN /\ confirmed \in BOOLEAN /\ session \in BOOLEAN
    BY DEF Init, Standing
  <2>3. 0 \in 0..MaxChanges /\ 0 \in 0..MaxDisconnects /\ 0 \in 0..MaxOutages /\ 0 \in 0..MaxFaults
    BY BoundAssumption
  <2>4. facts \in [Member -> SUBSET Rule]
    BY DEF Init, Standing
  <2> QED BY <2>1, <2>2, <2>3, <2>4 DEF Init
<1>2. TypeOK /\ [Next]_vars => TypeOK'
  <2> SUFFICES ASSUME TypeOK, [Next]_vars PROVE TypeOK'
    OBVIOUS
  <2> USE DEF config, world, far, budget
  <2>a. Fault => faults' \in 0..MaxFaults
    BY BoundAssumption DEF Fault
  <2>b. Change => changes' \in 0..MaxChanges
    BY BoundAssumption DEF Change
  <2>c. Outage => outages' \in 0..MaxOutages
    BY BoundAssumption DEF Outage
  <2>d. ASSUME NEW w \in Worker, NEW local \in Local, Become(w, local)
        PROVE run' \in [Worker -> Local]
    BY <2>d DEF Become
  <2>e. \A w \in Worker : Done(w) => run' \in [Worker -> Local]
    BY <1>0, <2>d DEF Done
  <2>f. ASSUME NEW w \in Worker, NEW stage \in Stage, Goto(w, stage)
        PROVE run' \in [Worker -> Local]
    <3>1. [run[w] EXCEPT !.at = stage] \in Local
      BY DEF Local
    <3> QED BY <2>d, <2>f, <3>1 DEF Goto
  <2>g. \A o \in Op : Enqueue(o) => queued' \in [Op -> Nat]
    BY DEF Enqueue
  <2>h. \A w \in Worker : /\ Scope(run[w].job) \subseteq Member /\ Writing(w) \subseteq Member
                         /\ run[w].job \in Op /\ run[w].list \subseteq Member
    BY DEF Scope, Op, Writing, Local
  <2>i. \A w \in Worker : RetryOrDie(w) => queued' \in [Op -> Nat] /\ run' \in [Worker -> Local]
    BY <2>e, <2>g, <2>h DEF RetryOrDie
  <2>j. Link \in Op /\ Member \subseteq Op
    BY DEF Op
  <2>k. Effective \in Rule \cup {Unset}
    BY DEF Effective
  <2>l. \A o \in Op : Tell(o) => queued' \in [Op -> Nat] /\ faults' \in 0..MaxFaults
    BY <2>a, <2>g DEF Tell
  <2>m. Standing \subseteq SUBSET Rule
    BY DEF Standing
  <2>1. ASSUME NEW w \in Worker, NEW o \in Op, Take(w, o) PROVE TypeOK'
    <3>1. [Idle EXCEPT !.job = o, !.at = "start"] \in Local
      BY <1>0 DEF Local, Stage
    <3>2. run' \in [Worker -> Local]
      BY <2>1, <2>d, <3>1 DEF Take
    <3>3. queued' \in [Op -> Nat]
      BY <2>1 DEF Take
    <3> QED BY <2>1, <3>2, <3>3 DEF Take
  <2>2. ASSUME NEW w \in Worker, Step(w) PROVE TypeOK'
    <3>1. CASE StartPlayer(w) \/ GetLinks(w) \/ GetExisting(w)
      <4>1. /\ [run[w] EXCEPT !.at = "existing", !.rule = Effective] \in Local
            /\ [run[w] EXCEPT !.at = "facts", !.had = mirror \cap {run[w].job}] \in Local
            /\ "links" \in Stage
        BY <2>k DEF Local, Stage
      <4>2. run' \in [Worker -> Local]
        BY <2>d, <2>e, <2>f, <3>1, <4>1 DEF StartPlayer, GetLinks, GetExisting
      <4> QED BY <3>1, <4>2 DEF StartPlayer, GetLinks, GetExisting
    <3>2. CASE StartLink(w) \/ GetMembers(w)
      <4>1. /\ [run[w] EXCEPT !.at = "members", !.rule = Effective] \in Local
            /\ [run[w] EXCEPT !.at = IF guild = {} THEN "drain" ELSE "info", !.list = guild] \in Local
            /\ "drain" \in Stage
        BY <2>k DEF Local, Stage
      <4>2. run' \in [Worker -> Local]
        BY <2>d, <2>e, <2>f, <3>2, <4>1 DEF StartLink, GetMembers
      <4> QED BY <3>2, <4>2 DEF StartLink, GetMembers
    <3>3. CASE Drain(w)
      <4>1. [run[w] EXCEPT !.at = "call", !.list = {}] \in Local
        BY DEF Local, Stage
      <4>2. run' \in [Worker -> Local]
        BY <2>d, <2>e, <3>3, <4>1 DEF Drain
      <4> QED BY <3>3, <4>2 DEF Drain
    <3>4. CASE GetUserInfo(w) \/ Compare(w) \/ CallRefused(w)
      <4>1. {"facts", "orphan", "call", "recheck"} \subseteq Stage
        BY DEF Stage
      <4>2. run' \in [Worker -> Local]
        BY <2>e, <2>f, <3>4, <4>1 DEF GetUserInfo, Compare, CallRefused
      <4> QED BY <3>4, <4>2 DEF GetUserInfo, Compare, CallRefused
    <3>5. CASE Evaluate(w)
      <4> DEFINE fits == {m \in Member : run[w].rule \in facts[m]}
      <4>1. [run[w] EXCEPT !.at = "compare",
                           !.list = Lowest(run[w].list \cap fits, Limit)] \in Local
        BY <2>h DEF Local, Stage, Lowest
      <4>2. [run[w] EXCEPT !.at = "call", !.list = fits \cap {run[w].job}] \in Local
        BY DEF Local, Stage
      <4>3. run' \in [Worker -> Local]
        BY <2>d, <2>e, <3>5, <4>1, <4>2 DEF Evaluate
      <4> QED BY <3>5, <4>3 DEF Evaluate
    <3>6. CASE Call(w)
      <4>1. remote' \in SUBSET Member /\ torn' \in SUBSET Member
        BY <2>h, <3>6 DEF Call, Applied
      <4>2. run' \in [Worker -> Local]
        BY <2>f, <3>6 DEF Call, Stage
      <4>3. confirmed' \in BOOLEAN
        BY <3>6 DEF Call
      <4> QED BY <3>6, <4>1, <4>2, <4>3 DEF Call
    <3>7. CASE WriteMirror(w)
      BY <2>e, <2>h, <3>7 DEF WriteMirror
    <3>8. CASE WriteRefused(w) \/ Requeue(w)
      BY <2>e, <2>g, <2>j, <3>8 DEF WriteRefused, Requeue
    <3>9. CASE Recheck(w)
      BY <2>e, <2>f, <3>9 DEF Recheck, Stage
    <3>10. CASE DeleteOrphan(w)
      BY <2>e, <3>10 DEF DeleteOrphan
    <3> QED BY <2>2, <3>1, <3>2, <3>3, <3>4, <3>5, <3>6, <3>7, <3>8, <3>9, <3>10 DEF Step
  <2>3. ASSUME NEW w \in Worker, ReadFails(w) PROVE TypeOK'
    BY <2>3, <2>a, <2>e, <2>i DEF ReadFails
  <2>4. ASSUME NEW w \in Worker, CallFails(w) PROVE TypeOK'
    <3>1. remote' \in SUBSET Member /\ torn' \in SUBSET Member
      BY <2>4, <2>h DEF CallFails, Unanswered, Applied
    <3> QED BY <2>4, <2>a, <2>e, <2>i, <3>1 DEF CallFails
  <2>5. ASSUME NEW w \in Worker, WriteFails(w) PROVE TypeOK'
    BY <2>5, <2>a, <2>e, <2>h, <2>i DEF WriteFails
  <2>6. ASSUME NEW w \in Worker, Crash(w) PROVE TypeOK'
    <3>1. remote' \in SUBSET Member /\ torn' \in SUBSET Member
      BY <2>6, <2>h DEF Crash, Unanswered, Applied
    <3> QED BY <2>6, <2>a, <2>e, <2>g, <2>h, <3>1 DEF Crash
  <2>7. ASSUME NEW m \in Member, MemberChanges(m) \/ AccountChanges(m) \/ GuildChanges(m)
        PROVE TypeOK'
    <3>2. CASE MemberChanges(m)
      BY <3>2, <2>b, <2>l, <2>m, <2>j DEF MemberChanges
    <3>3. CASE AccountChanges(m)
      BY <3>3, <2>b, <2>l, <2>m, <2>j DEF AccountChanges
    <3>4. CASE GuildChanges(m)
      BY <3>4, <2>b DEF GuildChanges
    <3> QED BY <2>7, <3>2, <3>3, <3>4
  <2>8. ASSUME NEW t \in Rule, Save(t) PROVE TypeOK'
    BY <2>8, <2>b, <2>l, <2>j DEF Save
  <2>9. CASE Disconnect
    <3>1. disconnects' \in 0..MaxDisconnects
      BY <2>9, BoundAssumption DEF Disconnect
    <3> QED BY <2>9, <3>1 DEF Disconnect
  <2>10. CASE SessionEnds \/ Connect \/ Reconcile
    BY <2>10, <2>g, <2>j, <2>l DEF SessionEnds, Connect, Reconcile
  <2>11. CASE OwnerConfirms
    BY <2>11 DEF OwnerConfirms
  <2>12. CASE Pause \/ Delete
    BY <2>12, <2>c DEF Pause, Delete
  <2>13. CASE UNCHANGED vars
    BY <2>13 DEF vars
  <2> QED BY <2>1, <2>2, <2>3, <2>4, <2>5, <2>6, <2>7, <2>8, <2>9, <2>10, <2>11, <2>12,
             <2>13 DEF Next
<1> QED BY <1>1, <1>2, PTL DEF Spec

-----------------------------------------------------------------------------
\* A worker that is not between a call and its write, and does not get there,
\* leaves MirrorInv alone when its step touches neither list nor the history.
LEMMA Elsewhere ==
    ASSUME TypeOK, MirrorInv, NEW w \in Worker, NEW local \in Local, Become(w, local),
           ~At(w, "mirror"), local.at # "mirror", local.at = "orphan" => link = "gone",
           local.at \in {"compare", "call"} => local.list \subseteq Scope(local.job),
           UNCHANGED <<row, link, mirror, remote, torn>>
    PROVE MirrorInv'
<1>1. /\ run'[w] = local
      /\ \A v \in Worker \ {w} : run'[v] = run[v]
  BY DEF Become, TypeOK
<1>2. \A v \in Worker : Writing(v)' = Writing(v)
  BY <1>1 DEF Writing, At
<1>3. Pending' = Pending
  BY <1>2 DEF Pending
<1>4. link' # "gone" => row' /\ \A v \in Worker : ~At(v, "orphan")'
  BY <1>1 DEF MirrorInv, At
<1>5. \A v \in Worker :
        run'[v].at \in {"compare", "call", "mirror"} => run'[v].list \subseteq Scope(run'[v].job)
  BY <1>1 DEF MirrorInv
<1>6. ASSUME NEW v \in Worker, NEW m \in Writing(v)' \ torn', link' # "gone"
      PROVE /\ m \in remote' <=> m \in run'[v].list
            /\ \A u \in Worker \ {v} : m \notin Writing(u)'
  <2>1. v # w
    BY <1>1, <1>6 DEF Writing
  <2> QED BY <1>1, <1>2, <1>6, <2>1 DEF MirrorInv
<1>7. MirrorAgrees'
  BY <1>3 DEF MirrorInv, MirrorAgrees
<1>8. Scope(Link)' = Scope(Link) /\ \A o \in Op : Scope(o)' = Scope(o)
  BY DEF Scope
<1> QED BY <1>4, <1>5, <1>6, <1>7, <1>8 DEF MirrorInv, Scope

\* A worker that ends its sync: between its call and its write only when
\* everybody it was writing about becomes torn.
LEMMA Ending ==
    ASSUME TypeOK, MirrorInv, NEW w \in Worker, Done(w),
           UNCHANGED <<row, link, mirror>>,
           \/ UNCHANGED remote /\ torn' = torn \cup Writing(w)
           \/ /\ remote' = Applied(w) /\ torn' = torn \cup Scope(run[w].job)
              /\ At(w, "call")
    PROVE MirrorInv'
<1>1. /\ run'[w] = Idle
      /\ \A v \in Worker \ {w} : run'[v] = run[v]
  BY DEF Done, Become, TypeOK
<1>2. \A v \in Worker \ {w} : Writing(v)' = Writing(v)
  BY <1>1 DEF Writing
<1>3. Writing(w)' = {} /\ torn \cup Writing(w) \subseteq torn'
  BY <1>1 DEF Writing, Idle, At
<1>4. \A m \in Member \ torn' : m \in remote' <=> m \in remote
  BY DEF Applied, MirrorInv, At
<1>5. link' # "gone" => row' /\ \A v \in Worker : ~At(v, "orphan")'
  BY <1>1 DEF MirrorInv, At, Idle
<1>6. \A v \in Worker :
        run'[v].at \in {"compare", "call", "mirror"} => run'[v].list \subseteq Scope(run'[v].job)
  BY <1>1 DEF MirrorInv, Idle
<1>7. ASSUME NEW v \in Worker, NEW m \in Writing(v)' \ torn', link' # "gone"
      PROVE /\ m \in remote' <=> m \in run'[v].list
            /\ \A u \in Worker \ {v} : m \notin Writing(u)'
  <2>1. v # w /\ m \in Writing(v) \ torn /\ run'[v] = run[v]
    BY <1>1, <1>2, <1>3, <1>7
  <2>2. m \in Member
    BY <2>1 DEF Writing, Scope, TypeOK, Local, Op
  <2> QED BY <1>2, <1>3, <1>4, <1>7, <2>1, <2>2 DEF MirrorInv
<1>8. MirrorAgrees'
  <2> SUFFICES ASSUME link' # "gone", NEW m \in Member \ (torn' \cup Pending')
               PROVE m \in mirror' <=> m \in remote'
    BY DEF MirrorAgrees
  <2>1. m \notin torn /\ m \notin Pending
    BY <1>2, <1>3 DEF Pending
  <2> QED BY <1>4, <2>1 DEF MirrorInv, MirrorAgrees
<1> QED BY <1>5, <1>6, <1>7, <1>8 DEF MirrorInv, Scope

\* Nothing MirrorInv speaks of changes.
LEMMA Untouched ==
    ASSUME MirrorInv, UNCHANGED <<row, mirror, remote, torn, run>>,
           link' = "gone" <=> link = "gone"
    PROVE MirrorInv'
  BY DEF MirrorInv, MirrorAgrees, Pending, Writing, Scope, At

\* The mirror and RoleLogic agree on every member who is not torn and whom no
\* sync is writing about.
THEOREM MirrorInvariant == Spec => []MirrorInv
<1>1. Init => MirrorInv
  BY DEF Init, MirrorInv, MirrorAgrees, Writing, Idle, At
<1>2. TypeOK /\ MirrorInv /\ [Next]_vars => MirrorInv'
  <2> SUFFICES ASSUME TypeOK, MirrorInv, [Next]_vars PROVE MirrorInv'
    OBVIOUS
  <2> USE DEF config, world, far, budget
  <2>a. Idle \in Local /\ Idle.at = "idle"
    BY DEF Idle, Local, Op, Stage
  <2>b. ASSUME NEW w \in Worker, Done(w), ~At(w, "mirror"),
               UNCHANGED <<row, link, mirror, remote, torn>>
        PROVE MirrorInv'
    BY <2>a, <2>b, Elsewhere DEF Done
  <2>c. ASSUME NEW w \in Worker, NEW stage \in Stage \ {"mirror"}, Goto(w, stage), ~At(w, "mirror"),
               stage = "orphan" => link = "gone",
               stage \in {"compare", "call"} => run[w].list \subseteq Scope(run[w].job),
               UNCHANGED <<row, link, mirror, remote, torn>>
        PROVE MirrorInv'
    <3>1. /\ [run[w] EXCEPT !.at = stage] \in Local
          /\ [run[w] EXCEPT !.at = stage].at = stage
          /\ [run[w] EXCEPT !.at = stage].list = run[w].list
          /\ [run[w] EXCEPT !.at = stage].job = run[w].job
      BY DEF Local, TypeOK
    <3> QED BY <2>c, <3>1, Elsewhere DEF Goto
  <2>d. {"links", "facts", "orphan", "call", "recheck", "drain", "requeue"} \subseteq Stage
    BY DEF Stage
  <2>e. Effective \in Rule \cup {Unset}
    BY DEF Effective, TypeOK
  <2>1. ASSUME NEW w \in Worker, NEW o \in Op, Take(w, o) PROVE MirrorInv'
    <3> DEFINE local == [Idle EXCEPT !.job = o, !.at = "start"]
    <3>1. local \in Local /\ local.at = "start"
      BY <2>a DEF Local, Stage, Idle
    <3>2. Become(w, local) /\ ~At(w, "mirror") /\ UNCHANGED <<row, link, mirror, remote, torn>>
      BY <2>1 DEF Take, At
    <3> HIDE DEF local
    <3> QED BY <3>1, <3>2, Elsewhere
  <2>2. ASSUME NEW w \in Worker, StartPlayer(w) \/ GetLinks(w) \/ GetExisting(w) PROVE MirrorInv'
    <3> DEFINE linked == [run[w] EXCEPT !.at = "existing", !.rule = Effective]
    <3> DEFINE read == [run[w] EXCEPT !.at = "facts", !.had = mirror \cap {run[w].job}]
    <3>1. /\ linked \in Local /\ linked.at = "existing"
          /\ read \in Local /\ read.at = "facts"
      BY <2>e DEF Local, Stage, TypeOK
    <3>2. Done(w) \/ Goto(w, "links") \/ Become(w, linked) \/ Become(w, read)
      BY <2>2 DEF StartPlayer, GetLinks, GetExisting
    <3>3. ~At(w, "mirror") /\ UNCHANGED <<row, link, mirror, remote, torn>>
      BY <2>2 DEF StartPlayer, GetLinks, GetExisting, At
    <3> HIDE DEF linked, read
    <3> QED BY <2>b, <2>c, <2>d, <3>1, <3>2, <3>3, Elsewhere
  <2>3. ASSUME NEW w \in Worker, StartLink(w) \/ GetMembers(w) PROVE MirrorInv'
    <3> DEFINE linked == [run[w] EXCEPT !.at = "members", !.rule = Effective]
    <3> DEFINE read == [run[w] EXCEPT !.at = IF guild = {} THEN "drain" ELSE "info",
                                      !.list = guild]
    <3>1. /\ linked \in Local /\ linked.at = "members"
          /\ read \in Local /\ read.at \in {"drain", "info"}
      BY <2>e DEF Local, Stage, TypeOK
    <3>2. Done(w) \/ Goto(w, "drain") \/ Become(w, linked) \/ Become(w, read)
      BY <2>3 DEF StartLink, GetMembers
    <3>3. ~At(w, "mirror") /\ UNCHANGED <<row, link, mirror, remote, torn>>
      BY <2>3 DEF StartLink, GetMembers, At
    <3> HIDE DEF linked, read
    <3> QED BY <2>b, <2>c, <2>d, <3>1, <3>2, <3>3, Elsewhere
  <2>4. ASSUME NEW w \in Worker, Drain(w) PROVE MirrorInv'
    <3> DEFINE local == [run[w] EXCEPT !.at = "call", !.list = {}]
    <3>1. local \in Local /\ local.at = "call" /\ local.list = {}
      BY DEF Local, Stage, TypeOK
    <3>2. Become(w, local) \/ Done(w)
      BY <2>4 DEF Drain
    <3>3. ~At(w, "mirror") /\ UNCHANGED <<row, link, mirror, remote, torn>>
      BY <2>4 DEF Drain, At
    <3> HIDE DEF local
    <3> QED BY <2>b, <3>1, <3>2, <3>3, Elsewhere
  <2>5. ASSUME NEW w \in Worker, GetUserInfo(w) \/ CallRefused(w) \/ Recheck(w) PROVE MirrorInv'
    <3>1. ~At(w, "mirror") /\ UNCHANGED <<row, link, mirror, remote, torn>>
      BY <2>5 DEF GetUserInfo, CallRefused, Recheck, At
    <3>2. \/ Done(w) \/ Goto(w, "facts") \/ Goto(w, "recheck") \/ Goto(w, "requeue")
          \/ link = "gone" /\ Goto(w, "orphan")
      BY <2>5 DEF GetUserInfo, CallRefused, Recheck
    <3> QED BY <2>b, <2>c, <2>d, <3>1, <3>2
  <2>6. ASSUME NEW w \in Worker, Evaluate(w) PROVE MirrorInv'
    <3> DEFINE fits == {m \in Member : run[w].rule \in facts[m]}
    <3> DEFINE forLink == [run[w] EXCEPT !.at = "compare",
                                         !.list = Lowest(run[w].list \cap fits, Limit)]
    <3> DEFINE forOne == [run[w] EXCEPT !.at = "call", !.list = fits \cap {run[w].job}]
    <3>1. /\ forLink \in Local /\ forLink.at = "compare" /\ forLink.job = run[w].job
          /\ forLink.list \subseteq Member
      BY DEF Local, Stage, TypeOK, Lowest
    <3>2. /\ forOne \in Local /\ forOne.at = "call" /\ forOne.job = run[w].job
          /\ forOne.list \subseteq {run[w].job}
      BY DEF Local, Stage, TypeOK
    <3>3. \/ Done(w)
          \/ run[w].job = Link /\ Become(w, forLink)
          \/ run[w].job # Link /\ Become(w, forOne)
      BY <2>6 DEF Evaluate
    <3>4. ~At(w, "mirror") /\ UNCHANGED <<row, link, mirror, remote, torn>>
      BY <2>6 DEF Evaluate, At
    <3> HIDE DEF forLink, forOne
    <3>5. CASE run[w].job # Link /\ Become(w, forOne)
      <4>1. forOne.list \subseteq Scope(forOne.job)
        BY <3>2, <3>5 DEF Scope
      <4> QED BY <3>2, <3>4, <3>5, <4>1, Elsewhere
    <3>6. CASE run[w].job = Link /\ Become(w, forLink)
      <4>1. forLink.list \subseteq Scope(forLink.job)
        BY <3>1, <3>6 DEF Scope
      <4> QED BY <3>1, <3>4, <3>6, <4>1, Elsewhere
    <3> QED BY <2>b, <3>3, <3>4, <3>5, <3>6
  <2>7. ASSUME NEW w \in Worker, Compare(w) PROVE MirrorInv'
    <3>1. ~At(w, "mirror") /\ UNCHANGED <<row, link, mirror, remote, torn>>
      BY <2>7 DEF Compare, At
    <3>2. Done(w) \/ Goto(w, "call")
      BY <2>7 DEF Compare
    <3>3. run[w].list \subseteq Scope(run[w].job)
      BY <2>7 DEF Compare, At, MirrorInv
    <3> QED BY <2>b, <2>c, <2>d, <3>1, <3>2, <3>3
  <2>8. ASSUME NEW w \in Worker, Call(w) PROVE MirrorInv'
    <3> DEFINE scope == Scope(run[w].job)
    <3>1. /\ run[w].at = "call" /\ run'[w] = [run[w] EXCEPT !.at = "mirror"]
          /\ \A v \in Worker \ {w} : run'[v] = run[v]
      BY <2>8 DEF Call, At, Goto, Become, TypeOK
    <3>2. /\ run'[w].at = "mirror" /\ run'[w].job = run[w].job /\ run'[w].list = run[w].list
      BY <3>1 DEF TypeOK, Local
    <3>3. /\ Writing(w) = {} /\ Writing(w)' = scope
          /\ \A v \in Worker \ {w} : Writing(v)' = Writing(v)
      BY <3>1, <3>2 DEF Writing, At, Scope
    <3>4. /\ run[w].list \subseteq scope /\ scope \subseteq Member
      BY <3>1 DEF MirrorInv, Scope, TypeOK, Local, Op
    <3>5. /\ remote' = (remote \ scope) \cup run[w].list
          /\ torn' = (torn \ scope) \cup (scope \cap Pending)
          /\ UNCHANGED <<row, link, mirror>>
      BY <2>8 DEF Call, Applied
    <3> HIDE DEF scope
    <3>6. Pending' = Pending \cup scope
      BY <3>3 DEF Pending
    <3>7. link' # "gone" => row' /\ \A v \in Worker : ~At(v, "orphan")'
      BY <3>1, <3>2, <3>5 DEF MirrorInv, At
    <3>8. \A v \in Worker :
            run'[v].at \in {"compare", "call", "mirror"} =>
              run'[v].list \subseteq Scope(run'[v].job)
      <4>1. run'[w].list \subseteq Scope(run'[w].job)
        BY <3>2, <3>4 DEF scope
      <4> QED BY <3>1, <4>1 DEF MirrorInv
    <3>9. ASSUME NEW v \in Worker, NEW m \in Writing(v)' \ torn', link' # "gone"
          PROVE /\ m \in remote' <=> m \in run'[v].list
                /\ \A u \in Worker \ {v} : m \notin Writing(u)'
      <4>1. CASE v = w
        <5>1. m \in scope /\ m \notin Pending
          BY <3>3, <3>5, <3>9, <4>1
        <5>2. \A u \in Worker : m \notin Writing(u)
          BY <5>1 DEF Pending
        <5> QED BY <3>2, <3>3, <3>5, <4>1, <5>1, <5>2
      <4>2. CASE v # w
        <5>1. m \in Writing(v) /\ m \in Pending
          BY <3>3, <3>9, <4>2 DEF Pending
        <5>2. m \notin scope /\ m \notin torn
          BY <3>5, <3>9, <5>1
        <5>3. /\ m \in remote <=> m \in run[v].list
              /\ \A u \in Worker \ {v} : m \notin Writing(u)
          BY <3>5, <3>9, <5>1, <5>2 DEF MirrorInv
        <5> QED BY <3>1, <3>3, <3>4, <3>5, <4>2, <5>2, <5>3
      <4> QED BY <4>1, <4>2
    <3>10. MirrorAgrees'
      <4> SUFFICES ASSUME link' # "gone", NEW m \in Member \ (torn' \cup Pending')
                   PROVE m \in mirror' <=> m \in remote'
        BY DEF MirrorAgrees
      <4>1. m \notin scope /\ m \notin torn /\ m \notin Pending
        BY <3>5, <3>6
      <4> QED BY <3>4, <3>5, <4>1 DEF MirrorInv, MirrorAgrees
    <3> QED BY <3>7, <3>8, <3>9, <3>10 DEF MirrorInv, Scope
  <2>9. ASSUME NEW w \in Worker, WriteMirror(w) \/ DeleteOrphan(w) \/ WriteRefused(w) \/ Requeue(w)
        PROVE MirrorInv'
    <3>1. /\ run'[w] = Idle
          /\ \A v \in Worker \ {w} : run'[v] = run[v]
      BY <2>9 DEF WriteMirror, DeleteOrphan, WriteRefused, Requeue, Done, Become, TypeOK
    <3>2. UNCHANGED <<link, remote, torn>>
      BY <2>9 DEF WriteMirror, DeleteOrphan, WriteRefused, Requeue
    <3>3. /\ Writing(w)' = {}
          /\ \A v \in Worker \ {w} : Writing(v)' = Writing(v)
      BY <2>a, <3>1 DEF Writing, At
    <3>4. \A v \in Worker :
            run'[v].at \in {"compare", "call", "mirror"} =>
              run'[v].list \subseteq Scope(run'[v].job)
      BY <2>a, <3>1 DEF MirrorInv
    <3>5. CASE link = "gone"
      BY <3>2, <3>4, <3>5 DEF MirrorInv, MirrorAgrees, Scope
    <3>6. CASE link # "gone" /\ Requeue(w)
      <4>1. ~At(w, "mirror") /\ Done(w) /\ UNCHANGED <<row, link, mirror, remote, torn>>
        BY <3>6 DEF Requeue, At
      <4> QED BY <2>b, <4>1
    <3>7. CASE link # "gone" /\ WriteMirror(w)
      <4> DEFINE scope == Scope(run[w].job)
      <4>1. row /\ At(w, "mirror") /\ Writing(w) = scope
        BY <3>7 DEF MirrorInv, WriteMirror, Writing, At
      <4>2. mirror' = (mirror \ scope) \cup run[w].list /\ UNCHANGED row
        BY <3>7, <4>1 DEF WriteMirror, config
      <4>3. run[w].list \subseteq scope
        BY <4>1 DEF MirrorInv, At
      <4>4. ASSUME NEW m \in scope \ torn
            PROVE /\ m \in remote <=> m \in run[w].list
                  /\ \A v \in Worker \ {w} : m \notin Writing(v)
        BY <3>7, <4>1, <4>4 DEF MirrorInv
      <4> HIDE DEF scope
      <4>5. MirrorAgrees'
        <5> SUFFICES ASSUME link' # "gone", NEW m \in Member \ (torn' \cup Pending')
                     PROVE m \in mirror' <=> m \in remote'
          BY DEF MirrorAgrees
        <5>1. CASE m \in scope
          BY <3>2, <4>2, <4>4, <5>1
        <5>2. CASE m \notin scope
          <6>1. m \notin Pending /\ m \notin torn
            BY <3>2, <3>3, <4>1, <5>2 DEF Pending
          <6> QED BY <3>2, <3>7, <4>2, <4>3, <5>2, <6>1 DEF MirrorInv, MirrorAgrees
        <5> QED BY <5>1, <5>2
      <4>6. ASSUME NEW v \in Worker, NEW m \in Writing(v)' \ torn'
            PROVE /\ m \in remote' <=> m \in run'[v].list
                  /\ \A u \in Worker \ {v} : m \notin Writing(u)'
        <5>1. v # w
          BY <3>3, <4>6
        <5> QED BY <3>1, <3>2, <3>3, <3>7, <4>6, <5>1 DEF MirrorInv
      <4>7. row' /\ \A v \in Worker : ~At(v, "orphan")'
        BY <2>a, <3>1, <3>7, <4>1, <4>2 DEF MirrorInv, At
      <4> QED BY <3>4, <4>5, <4>6, <4>7 DEF MirrorInv, Scope
    <3>8. CASE link # "gone" /\ (DeleteOrphan(w) \/ WriteRefused(w))
      BY <3>8 DEF MirrorInv, DeleteOrphan, WriteRefused
    <3> QED BY <2>9, <3>5, <3>6, <3>7, <3>8
  <2>10. ASSUME NEW w \in Worker, ReadFails(w) PROVE MirrorInv'
    <3>1. ~At(w, "mirror") /\ Done(w) /\ UNCHANGED <<row, link, mirror, remote, torn>>
      BY <2>10 DEF ReadFails, RetryOrDie, At
    <3> QED BY <2>b, <3>1
  <2>11. ASSUME NEW w \in Worker, CallFails(w) \/ WriteFails(w) \/ Crash(w) PROVE MirrorInv'
    <3>1. Done(w) /\ UNCHANGED <<row, link, mirror>>
      BY <2>11 DEF CallFails, WriteFails, Crash, RetryOrDie
    <3>2. At(w, "call") => Writing(w) = {}
      BY DEF Writing, At
    <3>3. \/ UNCHANGED remote /\ torn' = torn \cup Writing(w)
          \/ /\ remote' = Applied(w) /\ torn' = torn \cup Scope(run[w].job)
             /\ At(w, "call")
      BY <2>11, <3>2 DEF CallFails, WriteFails, Crash, Unanswered
    <3> QED BY <3>1, <3>3, Ending
  <2>12. ASSUME NEW m \in Member, MemberChanges(m) \/ AccountChanges(m) \/ GuildChanges(m)
         PROVE MirrorInv'
    BY <2>12, Untouched DEF MemberChanges, AccountChanges, GuildChanges
  <2>13. ASSUME NEW t \in Rule, Save(t) PROVE MirrorInv'
    BY <2>13, Untouched DEF Save
  <2>14. CASE Disconnect \/ SessionEnds \/ Connect \/ Reconcile \/ OwnerConfirms \/ Pause
    BY <2>14, Untouched DEF Disconnect, SessionEnds, Connect, Reconcile, OwnerConfirms, Pause
  <2>15. CASE Delete
    <3>1. link' = "gone" /\ UNCHANGED run
      BY <2>15 DEF Delete
    <3> QED BY <3>1 DEF MirrorInv, MirrorAgrees, Scope
  <2>16. CASE UNCHANGED vars
    BY <2>16, Untouched DEF vars
  <2> QED BY <2>1, <2>2, <2>3, <2>4, <2>5, <2>6, <2>7, <2>8, <2>9, <2>10, <2>11, <2>12, <2>13,
             <2>14, <2>15, <2>16 DEF Next, Step
<1> QED BY <1>1, <1>2, TypeCorrect, PTL DEF Spec

\* The mirror is RoleLogic's list, but for the members MirrorAgrees excepts.
THEOREM MirrorIsRight == Spec => []MirrorAgrees
<1>1. MirrorInv => MirrorAgrees
  BY DEF MirrorInv
<1> QED BY <1>1, MirrorInvariant, PTL

\* What tears the mirror is an overlap or a failure and nothing else: where one
\* worker runs the syncs one after another, and no call or write of its fails,
\* the mirror is RoleLogic's list whenever the worker is idle, whatever the
\* link, the rule, the facts and the guild have been through
\* (sync_for_player, sync_for_role_link, delete_orphan_role_link).
THEOREM OneAtATimeIsRight ==
    ASSUME \A u, w \in Worker : u = w, MaxFaults = 0
    PROVE  Spec => []((\A w \in Worker : At(w, "idle")) /\ link # "gone" => mirror = remote)
<1> DEFINE Whole == torn = {}
<1>1. Init => Whole
  BY DEF Init
<1>2. TypeOK /\ Whole /\ [Next]_vars => Whole'
  <2> SUFFICES ASSUME TypeOK, torn = {}, [Next]_vars PROVE torn' = {}
    OBVIOUS
  <2>1. ~Fault
    BY DEF Fault, TypeOK
  <2>2. ASSUME NEW w \in Worker, Call(w) PROVE torn' = {}
    <3>1. Writing(w) = {}
      BY <2>2 DEF Call, At, Writing
    <3>2. Pending = {}
      BY <3>1 DEF Pending
    <3> QED BY <2>2, <3>2 DEF Call
  <2>3. ASSUME NEW w \in Worker, Step(w), ~Call(w) PROVE torn' = torn
    BY <2>3 DEF Step, StartPlayer, GetLinks, GetExisting, StartLink, GetMembers, Drain,
       GetUserInfo, Evaluate, Compare, CallRefused, WriteMirror, WriteRefused, Recheck, Requeue,
       DeleteOrphan
  <2>4. ASSUME NEW w \in Worker, ReadFails(w) \/ CallFails(w) \/ WriteFails(w) \/ Crash(w)
        PROVE  FALSE
    BY <2>1, <2>4 DEF ReadFails, CallFails, WriteFails, Crash
  <2>5. ASSUME NEW w \in Worker, NEW o \in Op, Take(w, o) PROVE torn' = torn
    BY <2>5 DEF Take
  <2>6. ASSUME \/ \E t \in Rule : Save(t)
               \/ Disconnect \/ SessionEnds \/ Connect \/ Reconcile \/ OwnerConfirms \/ Pause \/ Delete
               \/ \E m \in Member : MemberChanges(m) \/ AccountChanges(m) \/ GuildChanges(m)
        PROVE  torn' = torn
    BY <2>6 DEF Save, Disconnect, SessionEnds, Connect, Reconcile, OwnerConfirms, Pause, Delete, MemberChanges,
       AccountChanges, GuildChanges
  <2>7. CASE UNCHANGED vars
    BY <2>7 DEF vars
  <2> QED BY <2>2, <2>3, <2>4, <2>5, <2>6, <2>7 DEF Next
<1>3. TypeOK /\ Whole /\ MirrorAgrees =>
        ((\A w \in Worker : At(w, "idle")) /\ link # "gone" => mirror = remote)
  <2> SUFFICES ASSUME TypeOK, torn = {}, MirrorAgrees, \A w \in Worker : At(w, "idle"),
                      link # "gone"
               PROVE  mirror = remote
    OBVIOUS
  <2>1. Pending = {}
    BY DEF Pending, Writing, At
  <2> QED BY <2>1 DEF MirrorAgrees, TypeOK
<1> QED BY <1>1, <1>2, <1>3, TypeCorrect, MirrorIsRight, PTL DEF Spec

-----------------------------------------------------------------------------
(* Syncs in calm.                                                          *)

\* The history variable only looks on.
LEMMA CalmLooksOn == CalmSpec => Spec
<1>1. CalmInit => Init
  BY DEF CalmInit
<1>2. [CalmNext]_<<vars, calm>> => [Next]_vars
  BY DEF CalmNext
<1> QED BY <1>1, <1>2, PTL DEF CalmSpec, Spec

\* Only a worker's own actions move its sync.
LEMMA OwnStep ==
    ASSUME TypeOK, Next, NEW w \in Worker, run'[w] # run[w]
    PROVE  \/ \E o \in Op : Take(w, o)
           \/ Step(w) \/ ReadFails(w) \/ CallFails(w) \/ WriteFails(w) \/ Crash(w)
<1> USE DEF config, world, far, budget
<1>1. ASSUME NEW u \in Worker, NEW l, Become(u, l) PROVE u = w
  BY <1>1 DEF Become, TypeOK
<1>2. ASSUME NEW u \in Worker,
             \/ \E o \in Op : Take(u, o)
             \/ Step(u) \/ ReadFails(u) \/ CallFails(u) \/ WriteFails(u) \/ Crash(u)
      PROVE  u = w
  <2>1. ASSUME Done(u) \/ \E stage : Goto(u, stage) PROVE u = w
    BY <1>1, <2>1 DEF Done, Goto
  <2>2. CASE \E o \in Op : Take(u, o)
    BY <1>1, <2>2 DEF Take
  <2>3. CASE ReadFails(u) \/ CallFails(u) \/ WriteFails(u) \/ Crash(u)
    BY <2>1, <2>3 DEF ReadFails, CallFails, WriteFails, Crash, RetryOrDie
  <2>4. CASE StartPlayer(u) \/ GetLinks(u) \/ GetExisting(u) \/ StartLink(u) \/ GetMembers(u) \/ Drain(u)
    BY <1>1, <2>1, <2>4 DEF StartPlayer, GetLinks, GetExisting, StartLink, GetMembers, Drain
  <2>5. CASE GetUserInfo(u) \/ Evaluate(u) \/ Compare(u) \/ Call(u) \/ CallRefused(u)
    BY <1>1, <2>1, <2>5 DEF GetUserInfo, Evaluate, Compare, Call, CallRefused
  <2>6. CASE WriteMirror(u) \/ WriteRefused(u) \/ Recheck(u) \/ Requeue(u) \/ DeleteOrphan(u)
    BY <2>1, <2>6 DEF WriteMirror, WriteRefused, Recheck, Requeue, DeleteOrphan
  <2> QED BY <1>2, <2>2, <2>3, <2>4, <2>5, <2>6 DEF Step
<1>3. CASE \E u \in Worker :
             \/ \E o \in Op : Take(u, o)
             \/ Step(u) \/ ReadFails(u) \/ CallFails(u) \/ WriteFails(u) \/ Crash(u)
  BY <1>2, <1>3
<1>4. CASE \E m \in Member : MemberChanges(m) \/ AccountChanges(m) \/ GuildChanges(m)
  BY <1>4 DEF MemberChanges, AccountChanges, GuildChanges
<1>5. CASE \/ \E t \in Rule : Save(t)
           \/ Disconnect \/ SessionEnds \/ Connect \/ Reconcile \/ OwnerConfirms \/ Pause \/ Delete
  BY <1>5 DEF Save, Disconnect, SessionEnds, Connect, Reconcile, OwnerConfirms, Pause, Delete
<1> QED BY <1>3, <1>4, <1>5 DEF Next

\* Nobody is asked for where nobody is in the guild or no rule is in force.
LEMMA NobodyWanted == Effective = Unset \/ guild = {} => Target = {}
  BY DEF Target, Lowest

\* A sync in calm holds what it would read now.
THEOREM CalmIsInformed == CalmSpec => []CalmInv
<1>1. CalmInit => CalmInv
  BY DEF CalmInit, CalmInv
<1>2. TypeOK /\ CalmInv /\ [CalmNext]_<<vars, calm>> => CalmInv'
  <2> SUFFICES ASSUME TypeOK, CalmInv, [CalmNext]_<<vars, calm>>, NEW w \in Worker, w \in calm'
               PROVE  Informed(w)'
    BY DEF CalmInv, CalmNext, Watch, vars
  <2> USE DEF config, world, far
  <2>1. CASE run'[w] = run[w]
    <3>1. w \in calm /\ UNCHANGED <<config, facts, guild, link, mirror, remote>>
      BY <2>1 DEF CalmNext, Watch, At, vars
    <3>2. Effective' = Effective /\ Target' = Target
      BY <3>1 DEF Effective, Target
    <3>3. \A o : AsRuled(o)' = AsRuled(o) /\ Wanted(o)' = Wanted(o)
      BY <3>1, <3>2 DEF AsRuled, Wanted
    <3>4. Informed(w)
      BY <3>1 DEF CalmInv
    <3> QED BY <2>1, <3>1, <3>2, <3>3, <3>4 DEF Informed, At
  <2>2. CASE run'[w] # run[w]
    <3>0. /\ Next /\ ~At(w, "idle")'
          /\ At(w, "idle") \/ (w \in calm /\ UNCHANGED <<config, facts, guild, link>>)
      BY <2>2 DEF CalmNext, Watch, vars
    <3>a. ASSUME Done(w) PROVE FALSE
      BY <3>0, <3>a DEF Done, Become, Idle, At, TypeOK
    <3>b. ASSUME NEW l, Become(w, l) PROVE run'[w] = l
      BY <3>b DEF Become, TypeOK
    <3>c. run[w] \in Local
      BY DEF TypeOK
    <3>d. ASSUME NEW stage, Goto(w, stage)
          PROVE  /\ run'[w].at = stage
                 /\ run'[w].job = run[w].job /\ run'[w].rule = run[w].rule
                 /\ run'[w].had = run[w].had /\ run'[w].list = run[w].list
      BY <3>b, <3>c, <3>d DEF Goto, Local
    <3>1. CASE \E o \in Op : Take(w, o)
      <4>1. run'[w].at = "start"
        BY <3>1, <3>b DEF Take, Idle
      <4> QED BY <4>1 DEF Informed, At
    <3>2. CASE Step(w)
      <4>1. /\ ~At(w, "idle") /\ Informed(w)
            /\ UNCHANGED <<config, facts, guild, link>>
        <5>1. ~At(w, "idle")
          BY <3>2 DEF Step, At, StartPlayer, GetLinks, GetExisting, StartLink, GetMembers, Drain,
                      GetUserInfo, Evaluate, Compare, Call, CallRefused, WriteMirror, WriteRefused,
                      Recheck, Requeue, DeleteOrphan
        <5> QED BY <3>0, <5>1 DEF CalmInv
      <4>2. Effective' = Effective /\ Target' = Target /\ \A o : Wanted(o)' = Wanted(o)
        BY <4>1 DEF Effective, Target, Wanted
      <4>3. CASE StartPlayer(w) \/ StartLink(w)
        <5>1. CASE Goto(w, "links") /\ run[w].job # Link
          BY <3>d, <5>1 DEF Informed, At
        <5>2. CASE Goto(w, "drain") /\ run[w].job = Link /\ row /\ Effective = Unset
          BY <3>d, <4>1, <4>2, <5>2 DEF Informed, At
        <5>3. CASE /\ Become(w, [run[w] EXCEPT !.at = "members", !.rule = Effective])
                   /\ run[w].job = Link /\ row /\ Effective # Unset
          <6>1. run'[w].at = "members" /\ run'[w].rule = Effective /\ run'[w].job = Link
            BY <3>b, <3>c, <5>3 DEF Local
          <6> QED BY <4>1, <4>2, <5>3, <6>1 DEF Informed, At
        <5> QED BY <3>a, <4>3, <5>1, <5>2, <5>3 DEF StartPlayer, StartLink
      <4>4. CASE GetLinks(w)
        <5>1. row /\ run'[w].at = "existing" /\ run'[w].rule = Effective /\ run'[w].job = run[w].job
          BY <3>a, <3>b, <3>c, <4>4 DEF GetLinks, Local
        <5> QED BY <4>1, <4>2, <4>4, <5>1 DEF Informed, At, GetLinks
      <4>5. CASE GetExisting(w)
        <5>1. /\ run'[w].at = "facts" /\ run'[w].had = mirror \cap {run[w].job}
              /\ run'[w].rule = run[w].rule /\ run'[w].job = run[w].job
          BY <3>b, <3>c, <4>5 DEF GetExisting, Local
        <5> QED BY <4>1, <4>2, <4>5, <5>1 DEF Informed, At, GetExisting
      <4>6. CASE GetMembers(w)
        <5>1. /\ run'[w].at = IF guild = {} THEN "drain" ELSE "info"
              /\ run'[w].list = guild
              /\ run'[w].rule = run[w].rule /\ run'[w].job = run[w].job
          BY <3>b, <3>c, <4>6 DEF GetMembers, Local
        <5> QED BY <4>1, <4>2, <4>6, <5>1 DEF Informed, At, GetMembers
      <4>7. CASE Drain(w)
        <5>1. run'[w].at = "call" /\ run'[w].list = {} /\ run'[w].job = run[w].job
          BY <3>a, <3>b, <3>c, <4>7 DEF Drain, Local
        <5>2. run[w].job = Link /\ Target = {} /\ row
          BY <4>1, <4>7, NobodyWanted DEF Informed, Drain, At
        <5> QED BY <4>1, <4>2, <5>1, <5>2 DEF Informed, At, Wanted
      <4>8. CASE GetUserInfo(w)
        <5>1. Goto(w, "facts") \/ Goto(w, "orphan")
          BY <3>a, <4>8 DEF GetUserInfo
        <5> QED BY <3>d, <4>1, <4>2, <4>8, <5>1 DEF Informed, At, GetUserInfo
      <4>9. CASE Evaluate(w)
        <5> DEFINE fits == {m \in Member : run[w].rule \in facts[m]}
        <5>0. row /\ run[w].at = "facts" /\ run[w].rule = Effective
          BY <4>1, <4>9 DEF Evaluate, At, Informed
        <5>1. CASE run[w].job = Link
          <6>1. /\ run'[w].at = "compare" /\ run'[w].job = Link
                /\ run'[w].list = Lowest(run[w].list \cap fits, Limit)
            BY <3>b, <3>c, <4>9, <5>1 DEF Evaluate, Local
          <6>2. run[w].list = guild /\ Effective # Unset
            BY <4>1, <5>0, <5>1 DEF Informed
          <6>3. run[w].list \cap fits = {m \in guild : Effective \in facts[m]}
            BY <5>0, <6>2 DEF TypeOK
          <6>4. run'[w].list = Target
            BY <5>0, <6>1, <6>2, <6>3 DEF Target
          <6> QED BY <4>1, <4>2, <5>0, <6>1, <6>4 DEF Informed, At, Wanted
        <5>2. CASE run[w].job # Link
          <6>1. /\ run'[w].at = "call" /\ run'[w].job = run[w].job
                /\ run'[w].list = fits \cap {run[w].job}
            BY <3>a, <3>b, <3>c, <4>9, <5>2 DEF Evaluate, Local
          <6>2. run[w].job \in Member
            BY <3>c, <5>2 DEF Local, Op
          <6>3. run'[w].list = Wanted(run[w].job)
            BY <5>0, <5>2, <6>1, <6>2 DEF Wanted
          <6> QED BY <4>1, <4>2, <5>0, <5>2, <6>1, <6>3 DEF Informed, At
        <5> QED BY <5>1, <5>2
      <4>10. CASE Compare(w)
        <5>1. Goto(w, "call")
          BY <3>a, <4>10 DEF Compare
        <5> QED BY <3>d, <4>1, <4>2, <4>10, <5>1 DEF Informed, At, Compare
      <4>11. CASE Call(w)
        <5>1. /\ row /\ run'[w].at = "mirror" /\ run'[w].job = run[w].job
              /\ run[w].list = Wanted(run[w].job)
          BY <3>d, <4>1, <4>11 DEF Informed, At, Call
        <5>2. remote' = (remote \ Scope(run[w].job)) \cup run[w].list
          BY <4>11 DEF Call, Applied
        <5>3. AsRuled(run[w].job)'
          BY <4>1, <4>2, <5>1, <5>2 DEF AsRuled, Wanted, Scope, TypeOK
        <5> QED BY <4>1, <5>1, <5>3 DEF Informed, At
      <4>12. CASE CallRefused(w) \/ Recheck(w)
        <5>1. Goto(w, "recheck") \/ Goto(w, "orphan") \/ Goto(w, "requeue")
          BY <3>a, <4>12 DEF CallRefused, Recheck
        <5>2. row
          BY <4>1, <4>12 DEF Informed, At, CallRefused, Recheck
        <5> QED BY <3>d, <4>1, <5>1, <5>2 DEF Informed, At
      <4>13. CASE WriteMirror(w) \/ WriteRefused(w) \/ Requeue(w) \/ DeleteOrphan(w)
        BY <3>a, <4>13 DEF WriteMirror, WriteRefused, Requeue, DeleteOrphan
      <4> QED BY <3>2, <4>3, <4>4, <4>5, <4>6, <4>7, <4>8, <4>9, <4>10, <4>11, <4>12, <4>13 DEF Step
    <3>3. CASE ReadFails(w) \/ CallFails(w) \/ WriteFails(w) \/ Crash(w)
      BY <3>a, <3>3 DEF ReadFails, CallFails, WriteFails, Crash, RetryOrDie
    <3> QED BY <2>2, <3>0, <3>1, <3>2, <3>3, OwnStep
  <2> QED BY <2>1, <2>2
<1> QED BY <1>1, <1>2, CalmLooksOn, TypeCorrect, PTL DEF CalmSpec

\* A sync that completes in calm leaves RoleLogic's list as the rule asks.
THEOREM CalmSyncsAreRight == CalmSpec => SyncsAreRight
<1>1. ASSUME TypeOK, MirrorInv, CalmInv, CalmNext, NEW w \in calm, NEW o \in Op,
             run[w].job = o, Completes(w), link # "gone",
             At(w, "mirror") \/ Scope(o) \cap (torn \cup Pending) = {}
      PROVE  AsRuled(o)'
  <2> USE DEF config, world, far, budget
  <2>0. w \in Worker /\ Informed(w)
    BY <1>1 DEF CalmInv
  <2>1. /\ run[w].at \in {"drain", "facts", "compare", "mirror"}
        /\ run'[w].at = "idle" /\ faults' = faults /\ faults \in Nat
    BY <1>1 DEF Completes, At, TypeOK
  <2>2. ~Fault
    BY <2>1 DEF Fault
  <2>3. Step(w)
    <3>1. ~At(w, "idle") /\ run'[w] # run[w]
      BY <2>1 DEF At
    <3>2. \/ \E p \in Op : Take(w, p)
          \/ Step(w) \/ ReadFails(w) \/ CallFails(w) \/ WriteFails(w) \/ Crash(w)
      BY <1>1, <2>0, <3>1, OwnStep DEF CalmNext
    <3> QED BY <2>2, <3>1, <3>2 DEF Take, ReadFails, CallFails, WriteFails, Crash
  <2>4. Drain(w) \/ Evaluate(w) \/ Compare(w) \/ WriteMirror(w) \/ WriteRefused(w)
    BY <2>1, <2>3 DEF Step, At, StartPlayer, GetLinks, GetExisting, StartLink, GetMembers,
                      GetUserInfo, Call, CallRefused, Recheck, Requeue, DeleteOrphan
  <2>5. UNCHANGED <<config, world, remote>>
    BY <2>4 DEF Drain, Evaluate, Compare, WriteMirror, WriteRefused
  <2>6. Effective' = Effective /\ Target' = Target
    BY <2>5 DEF Effective, Target
  <2>7. AsRuled(o)' = AsRuled(o)
    BY <2>5, <2>6 DEF AsRuled
  <2>a. ASSUME NEW l, Become(w, l), l.at # "idle" PROVE FALSE
    BY <2>0, <2>1, <2>a, <1>1 DEF Become, TypeOK
  <2>b. run[w] \in Local
    BY <1>1, <2>0 DEF TypeOK
  <2>8. ASSUME ~At(w, "mirror")
        PROVE  \A m \in Scope(o) : m \in mirror <=> m \in remote
    <3>1. Scope(o) \subseteq Member
      BY <1>1 DEF Scope, Op
    <3> QED BY <1>1, <2>8, <3>1 DEF MirrorInv, MirrorAgrees
  <2>9. CASE Drain(w)
    <3>1. mirror = {}
      <4>1. [run[w] EXCEPT !.at = "call", !.list = {}].at = "call"
        BY <2>b DEF Local
      <4> QED BY <2>9, <2>a, <4>1 DEF Drain
    <3>2. o = Link /\ Target = {}
      BY <1>1, <2>0, <2>9, NobodyWanted DEF Informed, Drain, At
    <3>3. remote = {}
      BY <1>1, <2>8, <2>9, <3>1, <3>2 DEF Drain, At, Scope, TypeOK
    <3> QED BY <2>7, <3>2, <3>3 DEF AsRuled
  <2>10. CASE Evaluate(w)
    <3>1. run[w].at = "facts" /\ run[w].rule = Effective /\ ~At(w, "mirror")
      BY <2>0, <2>10 DEF Evaluate, At, Informed
    <3>2. o # Link /\ o \in Member
      <4>1. \A S : [run[w] EXCEPT !.at = "compare", !.list = S].at = "compare"
        BY <2>b DEF Local
      <4> QED BY <1>1, <2>10, <2>a, <4>1 DEF Evaluate, Op
    <3>3. {m \in Member : run[w].rule \in facts[m]} \cap {o} = run[w].had
      <4>1. \A S : [run[w] EXCEPT !.at = "call", !.list = S].at = "call"
        BY <2>b DEF Local
      <4> QED BY <1>1, <2>10, <2>a, <3>2, <4>1 DEF Evaluate
    <3>4. run[w].had = mirror \cap {o}
      BY <1>1, <2>0, <3>1, <3>2 DEF Informed
    <3>5. o \in mirror <=> o \in remote
      BY <2>8, <3>1, <3>2 DEF Scope
    <3> QED BY <2>7, <3>1, <3>2, <3>3, <3>4, <3>5 DEF AsRuled
  <2>11. CASE Compare(w)
    <3>1. mirror = run[w].list
      <4>1. [run[w] EXCEPT !.at = "call"].at = "call"
        BY <2>b DEF Local
      <4> QED BY <2>11, <2>a, <4>1 DEF Compare, Goto
    <3>2. o = Link /\ run[w].list = Target
      BY <1>1, <2>0, <2>11 DEF Informed, Compare, At, Wanted
    <3>3. remote = mirror
      BY <1>1, <2>8, <2>11, <3>2 DEF Compare, At, Scope, TypeOK
    <3> QED BY <2>7, <3>1, <3>2, <3>3 DEF AsRuled
  <2>12. CASE WriteMirror(w) \/ WriteRefused(w)
    BY <1>1, <2>0, <2>7, <2>12 DEF Informed, WriteMirror, WriteRefused, At
  <2> QED BY <2>4, <2>9, <2>10, <2>11, <2>12
<1>2. TypeOK /\ MirrorInv /\ CalmInv /\ [CalmNext]_<<vars, calm>>
        => [\A w \in calm : \A o \in Op :
              /\ run[w].job = o /\ Completes(w) /\ link # "gone"
              /\ At(w, "mirror") \/ Scope(o) \cap (torn \cup Pending) = {}
              => AsRuled(o)']_<<vars, calm>>
  BY <1>1
<1> QED BY <1>2, CalmLooksOn, TypeCorrect, MirrorInvariant, CalmIsInformed, PTL
        DEF CalmSpec, SyncsAreRight
=============================================================================
