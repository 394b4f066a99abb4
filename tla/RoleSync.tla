------------------------------ MODULE RoleSync ------------------------------
(***************************************************************************)
(* The sync engine (services/sync.rs) for one role link: the members who   *)
(* should hold the role, RoleLogic's list of those who do (`remote`), the  *)
(* table role_assignments that mirrors it (`mirror`), and the player and   *)
(* config syncs the job workers run.                                       *)
(*                                                                         *)
(* A sync awaits the database or a service at every step: what it read may *)
(* be out of date when it acts on it.  Its remote call and its write of    *)
(* the mirror are two steps.  RoleLogic is external, modelled from what    *)
(* services/rolelogic.rs sends it and from the answers it tells apart.     *)
(***************************************************************************)
EXTENDS Integers, FiniteSets

CONSTANTS
    Member,        \* discord ids, ordered as ORDER BY discord_id does
    Worker,        \* job workers
    Link,          \* names the config sync among the jobs
    Rule,          \* the rule trees parse_rule_tree accepts
    AnyRelation,   \* the tree with grant_on_any_relation, if in Rule
    Unset,         \* the tree of a new link: no groups
    Limit,         \* RoleLogic's user_limit for the link
    MaxQueued,     \* bound: pending jobs of one kind and payload
    MaxChanges,    \* bound: saves, and changes of facts and of the guild
    MaxDisconnects,\* bound: disconnects of the link's account
    MaxOutages,    \* bound: pauses and deletions of the link on RoleLogic
    MaxFaults      \* bound: failed calls, failed writes and crashes

ASSUME MemberAssumption == Member \subseteq Nat /\ IsFiniteSet(Member)
ASSUME NameAssumption == Link \notin Member /\ Unset \notin Rule
ASSUME BoundAssumption ==
    /\ Limit \in Nat /\ MaxQueued \in Nat /\ MaxChanges \in Nat
    /\ MaxDisconnects \in Nat /\ MaxOutages \in Nat /\ MaxFaults \in Nat

VARIABLES
    row,       \* the role_links row exists
    tree,      \* its rule_tree
    bound,     \* its bsky_account_did is not NULL
    facts,     \* facts[m]: the trees m satisfies by the stored facts
    guild,     \* the members of the guild, as the Auth Gateway answers
    session,   \* the account's session lets refresh_account read Bluesky
    mirror, remote,
    link,      \* the link on RoleLogic: "on", "off" or "gone"
    confirmed, \* the owner has let the next shrinking write through
    queued,    \* queued[o]: pending jobs for operation o
    run,       \* run[w]: the sync worker w is in, with its locals
    torn,      \* history: members for whom a call and its write of the
               \* mirror were interrupted or overlapped by another sync's
    changes, disconnects, outages, faults

config == <<row, tree, bound>>
world  == <<facts, guild, session>>
far    == <<remote, link, confirmed>>
budget == <<changes, disconnects, outages, faults>>
vars   == <<config, world, mirror, far, queued, run, torn, budget>>

Op     == Member \cup {Link}
Stage  == {"idle", "start", "links", "existing", "members", "drain", "info",
           "facts", "compare", "call", "mirror", "recheck", "requeue", "orphan"}
Local  == [job : Op, at : Stage, rule : Rule \cup {Unset},
           had : SUBSET Member, list : SUBSET Member]
Idle   == [job |-> Link, at |-> "idle", rule |-> Unset, had |-> {}, list |-> {}]

\* The members a sync writes about.
Scope(o) == IF o = Link THEN Member ELSE {o}

\* A sync between its remote call and its write of the mirror.
Writing(w) == IF run[w].at = "mirror" THEN Scope(run[w].job) ELSE {}
Pending    == UNION {Writing(w) : w \in Worker}

\* NOT grant_on_any AND (no account bound OR no groups): nobody qualifies.
Effective == IF tree = AnyRelation \/ bound THEN tree ELSE Unset

\* ORDER BY discord_id LIMIT n.
Lowest(S, n) == {m \in S : Cardinality({k \in S : k < m}) < n}

\* What a member may satisfy: nothing without a linked Bluesky account.
Standing == {F \in SUBSET Rule : AnyRelation \in Rule /\ F # {} => AnyRelation \in F}

\* The link was registered; an admin has configured it or not yet.
Init ==
    /\ row = TRUE /\ tree \in Rule \cup {Unset} /\ bound = (tree # Unset)
    /\ facts \in [Member -> Standing] /\ guild \in SUBSET Member
    /\ session \in BOOLEAN
    /\ mirror = {} /\ remote = {} /\ link = "on" /\ confirmed = FALSE
    /\ queued = [o \in Op |-> IF o = Link /\ tree # Unset THEN 1 ELSE 0]
    /\ run = [w \in Worker |-> Idle]
    /\ torn = {}
    /\ changes = 0 /\ disconnects = 0 /\ outages = 0 /\ faults = 0

-----------------------------------------------------------------------------
(* The steps of a sync.                                                    *)

At(w, stage)     == run[w].at = stage
Become(w, local) == run' = [run EXCEPT ![w] = local]
Goto(w, stage)   == Become(w, [run[w] EXCEPT !.at = stage])
Done(w)          == Become(w, Idle)

Enqueue(o) == queued' = [queued EXCEPT ![o] = @ + 1]

\* Mutant of Take: the job is not looked for.
TakeUnchecked(w, o) ==
    /\ At(w, "idle")
    /\ queued' = [queued EXCEPT ![o] = @ - 1]
    /\ Become(w, [Idle EXCEPT !.job = o, !.at = "start"])
    /\ UNCHANGED <<config, world, mirror, far, torn, budget>>

\* A worker takes a job.
Take(w, o) ==
    /\ At(w, "idle") /\ queued[o] > 0
    /\ queued' = [queued EXCEPT ![o] = @ - 1]
    /\ Become(w, [Idle EXCEPT !.job = o, !.at = "start"])
    /\ UNCHANGED <<config, world, mirror, far, torn, budget>>

\* sync_for_player: the member's guilds, then the links in them, then the
\* existing assignments.
StartPlayer(w) ==
    /\ At(w, "start") /\ run[w].job # Link
    /\ IF run[w].job \in guild THEN Goto(w, "links") ELSE Done(w)
    /\ UNCHANGED <<config, world, mirror, far, queued, torn, budget>>

GetLinks(w) ==
    /\ At(w, "links")
    /\ IF row THEN Become(w, [run[w] EXCEPT !.at = "existing", !.rule = Effective]) ELSE Done(w)
    /\ UNCHANGED <<config, world, mirror, far, queued, torn, budget>>

GetExisting(w) ==
    /\ At(w, "existing")
    /\ Become(w, [run[w] EXCEPT !.at = "facts", !.had = mirror \cap {run[w].job}])
    /\ UNCHANGED <<config, world, mirror, far, queued, torn, budget>>

\* sync_for_role_link: the link, then the guild's members.
StartLink(w) ==
    /\ At(w, "start") /\ run[w].job = Link
    /\ IF ~row THEN Done(w)
       ELSE IF Effective = Unset THEN Goto(w, "drain")
       ELSE Become(w, [run[w] EXCEPT !.at = "members", !.rule = Effective])
    /\ UNCHANGED <<config, world, mirror, far, queued, torn, budget>>

GetMembers(w) ==
    /\ At(w, "members")
    /\ Become(w, [run[w] EXCEPT !.at = IF guild = {} THEN "drain" ELSE "info", !.list = guild])
    /\ UNCHANGED <<config, world, mirror, far, queued, torn, budget>>

\* drain_to_empty: nothing to do unless the mirror holds somebody.
Drain(w) ==
    /\ At(w, "drain")
    /\ IF mirror = {} THEN Done(w)
       ELSE Become(w, [run[w] EXCEPT !.at = "call", !.list = {}])
    /\ UNCHANGED <<config, world, mirror, far, queued, torn, budget>>

\* get_user_info.
GetUserInfo(w) ==
    /\ At(w, "info")
    /\ \/ link = "on" /\ Goto(w, "facts")
       \/ link = "off" /\ Done(w)
       \/ link = "gone" /\ Goto(w, "orphan")
    /\ UNCHANGED <<config, world, mirror, far, queued, torn, budget>>

\* Mutant of Evaluate: the query has lost its LIMIT.
EvaluateUnlimited(w) ==
    LET fits == {m \in Member : run[w].rule \in facts[m]} IN
    /\ At(w, "facts")
    /\ IF run[w].job = Link \/ fits \cap {run[w].job} # run[w].had
       THEN Become(w, [run[w] EXCEPT
                !.at = IF run[w].job = Link THEN "compare" ELSE "call",
                !.list = fits \cap (IF run[w].job = Link THEN @ ELSE {run[w].job})])
       ELSE Done(w)
    /\ UNCHANGED <<config, world, mirror, far, queued, torn, budget>>

\* The evaluator for one member; the SQL query, up to the limit, for the link.
Evaluate(w) ==
    LET fits == {m \in Member : run[w].rule \in facts[m]} IN
    /\ At(w, "facts")
    /\ \/ /\ run[w].job = Link
          /\ Become(w, [run[w] EXCEPT !.at = "compare",
                                      !.list = Lowest(@ \cap fits, Limit)])
       \/ /\ run[w].job # Link
          /\ LET want == fits \cap {run[w].job} IN
             IF want = run[w].had THEN Done(w)
             ELSE Become(w, [run[w] EXCEPT !.at = "call", !.list = want])
    /\ UNCHANGED <<config, world, mirror, far, queued, torn, budget>>

\* Mutant of Compare: the members to remove are not looked at.
CompareAdditions(w) ==
    /\ At(w, "compare")
    /\ IF run[w].list \subseteq mirror THEN Done(w) ELSE Goto(w, "call")
    /\ UNCHANGED <<config, world, mirror, far, queued, torn, budget>>

\* current == qualifying: no call is made.
Compare(w) ==
    /\ At(w, "compare")
    /\ IF mirror = run[w].list THEN Done(w) ELSE Goto(w, "call")
    /\ UNCHANGED <<config, world, mirror, far, queued, torn, budget>>

Applied(w) == (remote \ Scope(run[w].job)) \cup run[w].list

\* RoleLogic refuses an add past the limit, and holds a list that removes
\* somebody until the owner confirms.
Full(w) == run[w].job # Link /\ Cardinality(Applied(w)) > Limit
Held(w) == run[w].job = Link /\ ~confirmed /\ ~(remote \subseteq run[w].list)

\* add_user, remove_user or upload_users, answered.
Call(w) ==
    /\ At(w, "call") /\ link = "on" /\ ~Full(w) /\ ~Held(w)
    /\ remote' = Applied(w)
    /\ confirmed' = (confirmed /\ (run[w].job # Link \/ remote \subseteq run[w].list))
    /\ Goto(w, "mirror")
    /\ torn' = (torn \ Scope(run[w].job)) \cup (Scope(run[w].job) \cap Pending)
    /\ UNCHANGED <<config, world, mirror, link, queued, budget>>

\* The answers that end the sync: the limit, a hold, a disabled or a deleted
\* link.  A player sync swallows them all but the last.
CallRefused(w) ==
    /\ At(w, "call")
    /\ \/ link = "on" /\ Full(w) /\ Done(w)
       \/ link = "on" /\ Held(w) /\ Goto(w, "recheck")
       \/ link = "off" /\ Done(w)
       \/ link = "gone" /\ Goto(w, "orphan")
    /\ UNCHANGED <<config, world, mirror, far, queued, torn, budget>>

\* Mutant of WriteMirror: the DELETE before the INSERT is missing.
WriteMirrorInserting(w) ==
    /\ At(w, "mirror")
    /\ \/ row \/ run[w].list = {}
       \/ ~row /\ run[w].list # {} /\ run[w].job # Link
    /\ mirror' = IF row THEN mirror \cup run[w].list ELSE mirror
    /\ Done(w)
    /\ UNCHANGED <<config, world, far, queued, torn, budget>>

\* The write of the mirror.  Without the row the foreign key refuses an
\* insertion: the player sync ignores that, the config sync is retried.
WriteMirror(w) ==
    /\ At(w, "mirror")
    /\ \/ row \/ run[w].list = {}
       \/ ~row /\ run[w].list # {} /\ run[w].job # Link
    /\ mirror' = IF row THEN (mirror \ Scope(run[w].job)) \cup run[w].list ELSE mirror
    /\ Done(w)
    /\ UNCHANGED <<config, world, far, queued, torn, budget>>

WriteRefused(w) ==
    /\ At(w, "mirror") /\ run[w].job = Link /\ ~row /\ run[w].list # {}
    /\ Enqueue(Link) /\ Done(w)
    /\ UNCHANGED <<config, world, mirror, far, torn, budget>>

\* recheck_held: INSERT ... WHERE NOT EXISTS.  Two of these statements may
\* both look before either inserts.
Recheck(w) ==
    /\ At(w, "recheck")
    /\ IF queued[Link] > 0 THEN Done(w) ELSE Goto(w, "requeue")
    /\ UNCHANGED <<config, world, mirror, far, queued, torn, budget>>

Requeue(w) ==
    /\ At(w, "requeue")
    /\ Enqueue(Link) /\ Done(w)
    /\ UNCHANGED <<config, world, mirror, far, torn, budget>>

\* delete_orphan_role_link: the assignments go with the row.
DeleteOrphan(w) ==
    /\ At(w, "orphan")
    /\ row' = FALSE /\ mirror' = {} /\ Done(w)
    /\ UNCHANGED <<tree, bound, world, far, queued, torn, budget>>

Step(w) ==
    \/ StartPlayer(w) \/ GetLinks(w) \/ GetExisting(w)
    \/ StartLink(w) \/ GetMembers(w) \/ Drain(w) \/ GetUserInfo(w)
    \/ Evaluate(w) \/ Compare(w) \/ Call(w) \/ CallRefused(w) \/ WriteMirror(w)
    \/ WriteRefused(w) \/ Recheck(w) \/ Requeue(w) \/ DeleteOrphan(w)

-----------------------------------------------------------------------------
(* Failures.                                                               *)

Fault == faults < MaxFaults /\ faults' = faults + 1

\* Err from the sync: the job is retried, or dead once its attempts are spent.
RetryOrDie(w) == Done(w) /\ (Enqueue(run[w].job) \/ UNCHANGED queued)

\* A read, or the insert of a recheck, fails; a failed deletion of the orphan
\* is only logged.
ReadFails(w) ==
    /\ Fault
    /\ \/ ~At(w, "idle") /\ ~At(w, "call") /\ ~At(w, "mirror") /\ ~At(w, "orphan")
          /\ RetryOrDie(w)
       \/ At(w, "orphan") /\ Done(w) /\ UNCHANGED queued
    /\ UNCHANGED <<config, world, mirror, far, torn, changes, disconnects, outages>>

\* RoleLogic does the write but its answer is lost.
Unanswered(w) ==
    /\ link = "on" /\ ~Full(w) /\ ~Held(w)
    /\ remote' = Applied(w)
    /\ torn' = torn \cup Scope(run[w].job)

\* The call fails, before or after RoleLogic acted on it.  The player sync
\* logs that and its job completes; the config sync returns the error.
CallFails(w) ==
    /\ Fault
    /\ At(w, "call")
    /\ IF run[w].job = Link THEN RetryOrDie(w) ELSE Done(w) /\ UNCHANGED queued
    /\ Unanswered(w) \/ UNCHANGED <<remote, torn>>
    /\ UNCHANGED <<config, world, mirror, link, confirmed, changes, disconnects, outages>>

\* The write of the mirror fails: ignored by the player sync.
WriteFails(w) ==
    /\ Fault
    /\ At(w, "mirror")
    /\ IF run[w].job = Link THEN RetryOrDie(w) ELSE Done(w) /\ UNCHANGED queued
    /\ torn' = torn \cup Writing(w)
    /\ UNCHANGED <<config, world, mirror, far, changes, disconnects, outages>>

\* The process dies; the reaper makes the job pending again.
Crash(w) ==
    /\ Fault
    /\ ~At(w, "idle")
    /\ Enqueue(run[w].job) /\ Done(w)
    /\ \/ At(w, "call") /\ Unanswered(w)
       \/ torn' = torn \cup Writing(w) /\ UNCHANGED remote
    /\ UNCHANGED <<config, world, mirror, link, confirmed, changes, disconnects, outages>>

-----------------------------------------------------------------------------
(* What happens around the engine.                                         *)

Change == changes < MaxChanges /\ changes' = changes + 1
Room(o) == queued[o] < MaxQueued

\* A handler commits, then enqueues: the second statement may fail, or the
\* process die before it.
Tell(o) ==
    \/ Enqueue(o) /\ UNCHANGED faults
    \/ Fault /\ UNCHANGED queued

\* role_config_save stores the tree and the account, which only the tree with
\* grant_on_any_relation can do without.
Save(t) ==
    /\ Change /\ row /\ Room(Link)
    /\ tree' = t
    /\ bound' = TRUE \/ (t = AnyRelation /\ bound' = FALSE)
    /\ Tell(Link)
    /\ UNCHANGED <<row, world, mirror, far, run, torn, disconnects, outages>>

\* broadcaster_disconnect unbinds the link and enqueues nothing.
Disconnect ==
    /\ disconnects < MaxDisconnects /\ disconnects' = disconnects + 1
    /\ row /\ bound
    /\ bound' = FALSE
    /\ UNCHANGED <<row, tree, world, mirror, far, queued, run, torn, changes, outages, faults>>

\* The member links or unlinks a Bluesky account (routes/verify.rs).
MemberChanges(m) ==
    /\ Change /\ Room(m)
    /\ \E F \in Standing : F # facts[m] /\ facts' = [facts EXCEPT ![m] = F]
    /\ Tell(m)
    /\ UNCHANGED <<config, guild, session, mirror, far, run, torn, disconnects, outages>>

\* refresh_account learns of a follow, a list or a pack.  The account_sync job
\* refreshes once more and then enqueues the links bound to the account, unless
\* that finds the session dead.
AccountChanges(m) ==
    /\ Change /\ row /\ bound /\ session /\ Room(Link)
    /\ \E F \in Standing :
        /\ F # facts[m] /\ (AnyRelation \in F <=> AnyRelation \in facts[m])
        /\ facts' = [facts EXCEPT ![m] = F]
    /\ \/ Tell(Link) /\ UNCHANGED session
       \/ session' = FALSE /\ UNCHANGED <<queued, faults>>
    /\ UNCHANGED <<config, guild, mirror, far, run, torn, disconnects, outages>>

\* Nobody tells the plugin of a member who joins or leaves.
GuildChanges(m) ==
    /\ Change
    /\ guild' = IF m \in guild THEN guild \ {m} ELSE guild \cup {m}
    /\ UNCHANGED <<config, facts, session, mirror, far, queued, run, torn, disconnects, outages, faults>>

\* The refresh token is spent, revoked or expired: valid_access_jwt fails, and
\* nothing but a new connect makes it succeed again.
SessionEnds ==
    /\ session /\ session' = FALSE
    /\ UNCHANGED <<config, facts, guild, mirror, far, queued, run, torn, budget>>

\* broadcaster_connect commits the new session, then enqueues the account_sync.
Connect ==
    /\ Room(Link)
    /\ session' = TRUE
    /\ IF row /\ bound THEN Tell(Link) ELSE UNCHANGED <<queued, faults>>
    /\ UNCHANGED <<config, facts, guild, mirror, far, run, torn, changes, disconnects, outages>>

\* The six-hourly pass: where refresh_account succeeds it enqueues the
\* account_sync, which refreshes again and then enqueues every link bound to
\* the account.  With a dead session neither gets there.
Reconcile ==
    /\ row /\ bound /\ session /\ Room(Link)
    /\ Enqueue(Link)
    /\ UNCHANGED <<config, world, mirror, far, run, torn, budget>>

OwnerConfirms ==
    /\ ~confirmed /\ confirmed' = TRUE
    /\ UNCHANGED <<config, world, mirror, remote, link, queued, run, torn, budget>>

Outage == outages < MaxOutages /\ outages' = outages + 1

\* The link is paused or switched off on RoleLogic, and on again.
Pause ==
    /\ Outage
    /\ link # "gone" /\ link' = IF link = "on" THEN "off" ELSE "on"
    /\ UNCHANGED <<config, world, mirror, remote, confirmed, queued, run, torn,
                   changes, disconnects, faults>>

\* The link is deleted there; delete_config may or may not reach the plugin.
Delete ==
    /\ Outage
    /\ link # "gone" /\ link' = "gone" /\ remote' = {}
    /\ \/ row' = FALSE /\ mirror' = {}
       \/ UNCHANGED <<row, mirror>>
    /\ UNCHANGED <<tree, bound, world, confirmed, queued, run, torn, changes, disconnects, faults>>

Next ==
    \/ \E w \in Worker :
        \/ \E o \in Op : Take(w, o)
        \/ Step(w) \/ ReadFails(w) \/ CallFails(w) \/ WriteFails(w) \/ Crash(w)
    \/ \E m \in Member : MemberChanges(m) \/ AccountChanges(m) \/ GuildChanges(m)
    \/ \E t \in Rule : Save(t)
    \/ Disconnect \/ SessionEnds \/ Connect \/ Reconcile \/ OwnerConfirms \/ Pause \/ Delete

Spec == Init /\ [][Next]_vars

\* Workers run and finish their jobs (JobExecution's Ends); the reconcile task
\* keeps its interval, and Bluesky answers a live session in the end; an owner
\* asked to confirm does so in the end.  Nobody has to connect.
Fairness ==
    /\ \A w \in Worker : WF_vars(Step(w))
    /\ \A o \in Op : SF_vars(\E w \in Worker : Take(w, o))
    /\ WF_vars(Reconcile) /\ WF_vars(OwnerConfirms)

FairSpec == Spec /\ Fairness

-----------------------------------------------------------------------------
(* Properties.                                                             *)

TypeOK ==
    /\ row \in BOOLEAN /\ bound \in BOOLEAN /\ confirmed \in BOOLEAN /\ session \in BOOLEAN
    /\ tree \in Rule \cup {Unset}
    /\ facts \in [Member -> SUBSET Rule]
    /\ guild \in SUBSET Member /\ mirror \in SUBSET Member
    /\ remote \in SUBSET Member /\ torn \in SUBSET Member
    /\ link \in {"on", "off", "gone"}
    /\ queued \in [Op -> Nat]
    /\ run \in [Worker -> Local]
    /\ changes \in 0..MaxChanges /\ disconnects \in 0..MaxDisconnects
    /\ outages \in 0..MaxOutages /\ faults \in 0..MaxFaults

\* The mirror tells the truth about every member except while a sync is between
\* its call and its write, and except those for whom such a window was cut
\* short or overlapped by another: stale reads, refusals, holds, retries and
\* repeated jobs never make it lie.
MirrorAgrees ==
    link # "gone" =>
      \A m \in Member \ (torn \cup Pending) : m \in mirror <=> m \in remote

\* The inductive core of MirrorAgrees.  Only a link gone from RoleLogic loses
\* its row; a sync writes about nobody outside its scope; and a member who is
\* not torn has at most one sync between its call and its write, which will
\* write what the call did.
MirrorInv ==
    /\ link # "gone" => row /\ \A w \in Worker : ~At(w, "orphan")
    /\ \A w \in Worker :
        /\ run[w].at \in {"compare", "call", "mirror"} => run[w].list \subseteq Scope(run[w].job)
        /\ \A m \in Writing(w) \ torn :
            link # "gone" => /\ m \in remote <=> m \in run[w].list
                             /\ \A v \in Worker \ {w} : m \notin Writing(v)
    /\ MirrorAgrees

\* "so role assignments converge" (tasks/reconcile.rs:3-4).
Target == IF row /\ Effective # Unset
          THEN Lowest({m \in guild : Effective \in facts[m]}, Limit) ELSE {}

\* The link is switched on and bound to an account whose session is alive.
Reachable == link = "on" /\ bound /\ session

Converges == <>[]Reachable => <>[](Reachable /\ remote = Target)

\* Once changes stop, RoleLogic's list becomes the one the rule asks for, as
\* long as the mirror is not left lying about somebody and the account's session
\* is alive: without it no pass enqueues anything.
ConvergesUnlessTorn == <>[](Reachable /\ torn = {}) => <>[](remote = Target)
=============================================================================
