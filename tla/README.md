# A TLA+ model of the Bluesky account-role plugin

The plugin grants Discord roles to members whose Bluesky account stands in some
relation to a Bluesky account that the server's admins have connected: follows
it, is followed by it, is on one of its lists, and so on.  It keeps its facts in
Postgres, copies them from Bluesky, and tells RoleLogic (the service that owns
the Discord side) who should hold each role.  Everything that changes a role
runs through a durable queue of jobs that several worker tasks in several
replicas drain.

This directory holds TLA+ modules that model that program, TLC configurations
that check them on small instances, and theorems about them that TLAPS proves
for every value of the constants.  Paths below are those of the repository
(`src/services/sync.rs`, `migrations/006_jobs.sql`, ...).  `PROJECT.json` maps
every definition to the lines it models.

## 1. Inventory of the system

### 1.1 Components

| Component | Code | State it keeps | Operations |
|---|---|---|---|
| Job queue | `services/jobs.rs`, `migrations/006_jobs.sql` | table `jobs`: status, next_run_at, locked_by, locked_at, attempts | enqueue, claim_batch, complete, fail_retry, fail_dead, reap_stuck |
| Job workers | `tasks/job_worker.rs` | the claimed batch, the time of the last reap | the loop `run`: reap, claim, idle, dispatch, settle, release |
| Lifecycle | `tasks/shutdown.rs`, `main.rs`, `routes/health.rs` | a broadcast channel, one receiver per task; `draining` | trigger, is_triggered, wait, drain, join |
| Job listener | `tasks/job_listener.rs` | a `Notify`, a connection | connect, LISTEN, receive, back off, stop; wake the idle workers of this process |
| Sync engine | `services/sync.rs` | table `role_assignments`, the *mirror* of RoleLogic's list | sync_for_player, sync_for_role_link, drain_to_empty, sync_for_account, recheck_held, delete_orphan_role_link |
| RoleLogic client | `services/rolelogic.rs` | none (the list is RoleLogic's) | add, remove, replace, chunked upload, user info |
| Rules | `models/`, `services/rule_validator.rs`, `condition_eval.rs`, `rule_sql.rs` | `role_links.rule_tree` | validate; evaluate for one member; build SQL for a guild |
| Role configuration | `routes/admin.rs`, `templates/role_config.html` | `role_links` with its version, `guild_bsky_accounts`, what each tab shows | load, save, connect, disconnect, preview |
| Plugin contract | `routes/plugin.rs` | `role_links` | register, get/post config, delete_config |
| Account facts | `tasks/reconcile.rs`, `migrations/004`, `005` | `account_relations`, lists, starter packs and their members | refresh_account, the six-hourly pass |
| Member verification | `routes/verify.rs` | `bsky_accounts` and what hangs off it | verify_bsky, verify_unlink |
| Bluesky client | `services/bsky.rs` | none | paginated reads up to a cap |
| Broadcaster sessions | `services/broadcaster_session.rs` | encrypted tokens, `refresh_failed_at` | valid_access_jwt: refresh and rotate |
| Auth Gateway client | `services/auth_gateway.rs` | none | guild members, a member's guilds |
| Authentication | `services/auth.rs`, `rl_token.rs`, `session.rs`, `csrf.rs`, `crypto.rs` | none (signed values) | checks |
| Users page, settings | `routes/users.rs` | `guild_settings` | list, set |
| HTTP plumbing | `config.rs`, `db.rs`, `error.rs`, `routes/health.rs`, ... | none of the domain | |

### 1.2 How they interact

```
 verify.rs ──facts──┐                      ┌── player_sync ──┐
 admin.rs ──rule────┼─> Postgres, jobs ────┼── config_sync ──┼─> sync.rs ──> RoleLogic
 plugin.rs ─row─────┤     ^    ^           └── account_sync ─┘     │
 reconcile.rs ──────┘     │    └── reaper, release at shutdown     └─> role_assignments
     │  └─ every 6 h: refresh_account, enqueue every bound link
     └─ Bluesky (followers, follows, lists, packs)
```

A handler commits its change and *then* enqueues a job, in two statements.  A
worker claims a batch of jobs with one statement, dispatches them one after
another and settles each with one more.  A sync reads several tables and
services with an await between any two, calls RoleLogic and then writes the
mirror.  There is hardly a transaction that spans two of these steps, so almost
every property of interest is about what happens between them.

### 1.3 What is hard

* **Leases.**  A lock on a job is a timestamp.  The lock of a whole batch is
  taken at once; the statements that settle a job do not look at it.
* **Two writers of one list.**  A player sync and a config sync of the same link
  run in different workers; each makes a remote call and then a local write.
* **The mirror is trusted.**  A config sync compares the rule with the mirror,
  never with RoleLogic, so a mirror that lies is never repaired.
* **Two implementations of the rule** (Rust for one member, SQL for all), over
  NULL columns.
* **An optimistic lock** whose new version is read in a separate statement.
* **Failed reads taken for empty ones** in the refresh of an account, and
  refreshes that overlap.
* **Shutdown** by a message that is consumed by whoever asks first.
* **A refresh token that works once**, in a row that several callers read,
  spend and overwrite without a lock.
* **Calls from RoleLogic** that may be lost or overtake one another, and calls to
  it that time out and are carried out all the same.
* **Lost enqueues, dead jobs, held removals**: what is made good by the
  six-hourly pass, and what is not.

`PROJECT.json` lists them as hazards, each at its line, with the properties that
bear on it or the reason why none does yet.

### 1.4 What makes each component correct

* Queue and workers: a job is dispatched by one worker at a time, ends once, and
  does end; attempts are bounded; shutdown ends.
* Sync engine: the mirror tells the truth about RoleLogic's list; a sync that is
  left alone makes the list what the rule asks for; the list becomes that.
* Rules: both implementations judge alike; only well-typed conditions are saved.
* Role configuration: a save replaces what the admin was shown; a link is bound
  to an account of its guild.
* Account facts: an overlap of refreshes does not take a flag from a member who
  had it all along; a refresh that is left alone, and so in the end the facts,
  say what Bluesky says.
* Broadcaster sessions: overlapping refreshes and connects do not lose the
  session; a lost one is shown to the admin, and a false alarm goes away.
* Lifecycle: nothing stops before the process is seen draining, nothing is left
  when main returns, and main does return.
* Plugin contract and RoleLogic client: the row follows the link though calls
  overtake one another; an upload in chunks is all or nothing and leaves no
  session behind when a chunk fails.

## 2. Plan

The order is that of importance; the first eight are written.

1. `JobExecution` (what the queue promises), `JobQueue` (how), refinement.
2. `RoleSync`: the engine for one link, over an external RoleLogic.
3. `RuleConfig`: row, version, tabs, connected accounts.
4. `RuleEval`: validator, evaluator, SQL clause.
5. `AccountFacts`: refresh and unlink.
6. `BroadcasterSession`: refreshes of one token by concurrent callers.
7. `Lifecycle`: the shutdown message to the HTTP server, the listener, the
   reconcile loop and the workers; the joins in `main`.
8. `LinkUpload`: the `api_token`, registrations under a running sync, uploads in
   chunks; `AtomicUpload` is what it promises the sync engine.
9. `RoleSync` for several links of one member, and across a second registration
   of a link whose mirror was kept.
10. The composition of `AccountFacts` with `RoleSync`: a refresh that is followed
    by its syncs.

Two abstract specifications were weighed and are stated as properties instead.
An atomic "list := rule" is not what the sync engine implements, since its syncs
overlap and fail; what it does promise is `SyncsAreRight`, which says it of the
syncs nothing comes between.  An atomic register with compare-and-set is what
`NoClobberUnlessMisled` (no save over a rule that was not shown) and `VersionsTell`
(no refusal of a save over the rule that was) amount to for `RuleConfig`.

## 3. The modules

| Module | Models | Variables ↔ code |
|---|---|---|
| `JobExecution` | the promise of the queue | `phase`, `by`: abstract |
| `JobQueue` | `jobs.rs`, `job_worker.rs`, the workers' part of `shutdown.rs` and `main.rs` | `status`, `due`, `lockedBy`, `expired`, `attempts`: columns of `jobs`; `pc`, `copy`, `running`, `reapDue`: locals of `run`; `told`: an unread message in a receiver; `signalled`: a process that was sent SIGTERM |
| `MCJobQueue` | instances of `JobQueue` | |
| `RoleSync` | `sync.rs` for one link | `row`, `tree`, `bound`: the row of `role_links`; `facts`, `guild`: what the evaluator and the gateway answer; `session`: whether `valid_access_jwt` succeeds for the link's account; `mirror`: `role_assignments`; `remote`, `link`, `confirmed`: RoleLogic; `queued`: pending jobs by payload; `run`: each sync with its locals |
| `RoleSyncCalm` | nothing more: it watches `RoleSync` | `calm`: the syncs that have had the system to themselves |
| `MCRoleSync`, `MCRoleSyncCalm` | their instances | |
| `RuleConfig` | `admin.rs` save/load/connect/disconnect, `plugin.rs` register/delete, the page's version | `exists`, `version`, `rule`, `account`: the row; `connected`: `guild_bsky_accounts`; `tab`: each page |
| `RuleEval`, `MCRuleEval` | validator, evaluator, SQL builder | `rule`, `account`: the row; `viewer`: the row `FACTS_SELECT` returns and the memberships |
| `AccountFacts` | `refresh_account`, `verify_unlink` | `graph`, `live`, `onIt`: Bluesky; `flags`, `stored`, `members`: the tables; `run`: each refresh with its locals; `leaving`: each unlink |
| `AccountFactsCalm` | nothing more: it watches `AccountFacts` | `calm`: the refreshes that have had the account to themselves |
| `MCAccountFacts` | the instance of `AccountFactsCalm` | |
| `BroadcasterSession` | `broadcaster_session.rs`, broadcaster_connect, the session calls of `bsky.rs` | `stored`, `fresh`, `failed`: `refresh_jwt_enc`, `token_expires_at`, `refresh_failed_at`; `call`, `login`: locals of each call and connect; `accepted`, `revoked`: Bluesky |
| `Lifecycle` | `main.rs`, `shutdown.rs`, the loops of `job_listener.rs`, `job_worker.rs`, `reconcile.rs` | `main`, `signal`: main and the signal task; `told`: unread messages; `place`, `hand`, `pass`: each task with its locals; `draining`: `AppState`; `requests`: in flight |
| `AtomicUpload` | the promise of `upload_users` | `list`, `late`, `call`: abstract |
| `LinkUpload`, `MCLinkUpload` | `plugin.rs` register/delete_config, `rolelogic.rs`, the link's part of `sync.rs` | `row`: `role_links.api_token`; `sync`: each sync with its locals; `token`, `active`, `remote`, `session`, `late`, `wire`: RoleLogic and its calls under way |
| `*Proofs` | theorems | |

A definition called "Mutant of X" is a plausible bug in X that a reader can put
in X's place to see which property catches it; no specification uses it.

### 3.1 JobQueue

One action per statement or select of `run`.  Time is reduced to the three
comparisons that the code makes: a row is due or not, a lock is older than
`STUCK_LOCK_SECS` or not, a worker's reap timer has run out or not.  `Expire` is
therefore split by *who* is hurt: `OrphanExpires` (nobody holds the row any
more; a crash or a lost statement) is unrestricted, `Overrun` (the holder is
still busy) is bounded by `MaxOverruns`, so that the promise of the queue can be
stated both with and without it.  A failed statement is an action of its own
with the error path of the code; a claim may also be lost *after* its commit.
The listener's notification only ends the idle select early, which the poll
timer does too: both are `Wake`.

Because `is_triggered` is a `try_recv`, `told` loses the worker the first time it
asks.  That is modelled as it is.

### 3.2 RoleSync

One action per await of a sync.  `had` and `list` are the locals that carry what
was read into later steps.  RoleLogic is external: it applies a write, refuses an
add past the limit, holds a list that removes somebody until the owner
confirms, is disabled, or is gone; it may act and its answer be lost.  `torn` is
a history variable: the members about whom a call and its mirror write were
interrupted, or between whose call and write another sync of theirs called.

`Tell` is the second statement of a handler: it may fail or never be reached.
A job that waits in the queue for its `next_run_at` is not told apart from one
that nobody has taken yet.  `verify_bsky` and `verify_unlink` appear as one
change of `facts` followed by `Tell`; their own interleaving with a refresh is
in `AccountFacts`.

`Reconcile` stands for the pass and the `account_sync` job that it enqueues.  Both
begin with `refresh_account`, which fails at once when the account's session is
dead: the pass then enqueues no job (`tasks/reconcile.rs:45-49`), and the job ends
before it enqueues a sync (`tasks/job_worker.rs:159-160`).  So `Reconcile` is enabled
only while `session` is TRUE.  A session ends at any time (`SessionEnds`) and lives
again when an admin connects the account (`Connect`), which nobody has to do.
`BroadcasterSession` has the details of how a session is lost.

`RoleSyncCalm` adds the history variable `calm` and changes no action: a sync is in
`calm` from its first step on as long as no step but its own has changed anything
that syncs read or write.  Whatever other syncs hold that were begun before, what
is queued, and what the mirror says, stays arbitrary.

### 3.3 RuleConfig

A save is three steps (check of the account, guarded UPDATE, SELECT of the
version) and so is what a tab learns.  A rule is identified by the save that
stored it.  `misled` (history) holds the tabs whose version does not name the
rule they show: the reply carried another tab's version, or the row was deleted
and registered again under the open page.  `raced` holds accounts that were
disconnected between a check and its UPDATE.

### 3.4 RuleEval

Both verdicts are operators over the same rule and the same row.  A nullable
column, an `Option`, and what `as_bool`, `as_i64`, `as_str`, `as_array` make of a
JSON value are sets of at most one element; a condition that is NULL in SQL
counts as false because the clause has no NOT.  Targets are taken by the kind
of column they read.  Pattern matching is a constant relation per engine; case
folding is inside it.

### 3.5 AccountFacts

`refresh_account`, statement by statement, in several overlapping copies (the
reconcile task of every replica and every `account_sync` job run it).  The pages
of one read are taken as one answer.  A read stops at a limit, says nothing of it,
and then returns any subset of that size: `Cap` for followers, follows and the
members of a list, `PageCap` for the lists and for the starter packs, of which the
client reads ten pages (`services/bsky.rs:444`, `526`).  `GcLists` and `GcPacks` then
delete every row that was not in the answer, as the code does, those past the
tenth page included.  The upsert of a pack and the read of its list are one
step, of which either or both may fail.  `steady`, `known` and `over` are history variables: who was in an edge all
along, who was flagged once, which edges were ever more than the cap.
`AccountFactsCalm` adds `calm` in the way of `RoleSyncCalm`: the refreshes during which
Bluesky has not changed, nobody else has written, and no call of theirs failed.
What such a refresh achieves is stated as what its reads can tell (`Current`): the
stored lists exist on Bluesky, and are all of them if they fit in ten pages and as
many as fit if not (`Told`); edges and members are right where they are within
`Cap` (`Readable`).

### 3.6 BroadcasterSession

One action per await of `valid_access_jwt` (SELECT, refreshSession, UPDATE) and
of `broadcaster_connect` (createSession, transaction), for any number of
overlapping calls.  Bluesky is external: a refresh token is taken once and
returns its successor.  That it works only once is what the code's own storing
of the new pair presumes; if Bluesky were to allow a grace period, it would only
do less harm.  `Token` is a finite pool: `Mint` hands out one that nobody holds.
A failed request may have been served (`AskFails`), and a call may end at any
await with what it holds (`CallEnds`).

### 3.7 Lifecycle

One process.  `told` loses a task when that task takes the message, as in
`JobQueue`; here all five kinds of task have a receiver, the server's is made only
after the signal task is spawned (`SpawnSignalTask`, `Serve`), and `trigger` reaches
the receivers there are.  What a worker does to the rows is in `JobQueue`; here a
batch is a number of jobs.  `Missed` is the set of tasks that go on after the
message was sent and no longer have it.

### 3.8 LinkUpload and AtomicUpload

One link.  RoleLogic issues tokens, deletes the link, pauses it, and tells the
plugin by `register` and `delete_config`, in calls that lie on `wire` until they
arrive, in any order, or are lost.  A sync reads the token with the row and uses
it in all its calls, whatever has become of the row; RoleLogic checks the token
before anything else.  Lists of more than `PUT_MAX_USERS` go through start, chunks,
commit, cancel.  A request on which the client gave up may be carried out at any
later time (`late`).  Whether there is a list to upload is free here; what
the list is and what is written to the mirror is in `RoleSync`.  `heard`, `astray`
and `left` are history variables.

`RoleSync` takes an upload as one atomic call that is carried out before its answer is
given or never.  `LinkUpload` shows to what extent that is right: it implements
`AtomicUpload`, which has the late effect in addition.

## 4. Runs

| Run | Instance | What it shows |
|---|---|---|
| `queue` | 3 workers in 2 processes, 2 jobs, batches of 2, 2 attempts, 1 fault, 1 overrun | Types; places, locks and copies agree (`OwnershipInv`); an overrun adds one holder at most (`DuplicatesAccounted`); until then a job that ended stays ended |
| `queue_live` | 2 workers of 1 process, 1 fault, 1 SIGTERM, no overrun, fair | `JobQueue` implements `JobExecution`; no double dispatch; attempts are accounted for (`AttemptsInv` is the inductive form); every enqueued job ends |
| `sync` | 2 workers, 2 members, limit 1, a change, a disconnect, an outage, a fault; the session ends and is renewed at any time | `MirrorInv`: the mirror lies only about torn members. |
| `sync_live` | 2 workers, 2 members, limit 1, a change, a fault, sessions as in `sync`, fair | RoleLogic's list becomes the rule's unless somebody is torn or the session is dead for good. `SyncsAreRight`: a sync that completes with nothing between its steps leaves the list as the rule asks, except about members on whom the mirror misled it into making no call (`CalmInv` is the inductive form) |
| `sync_diverges` | 2 workers, a change, no fault | **violated**: an overlap alone makes the list wrong for good |
| `config` | 2 tabs, 2 accounts, 3 saves, 2 registrations | the optimistic lock protects every tab that is not misled, and refuses such a tab only when its rule was replaced (`VersionsTell`); the binding is right but for the race |
| `rules` | every target with every operator, values of every JSON type, pairs of conditions in one group and in two | only typed conditions are saved; both verdicts agree but on four kinds of condition |
| `facts` | 2 overlapping refreshes, 2 viewers, 2 lists and a pack, room for 1 member and 1 list in a read, any 2 of 2 changes, a fault and an unlink, fair | what a refresh carries to its transaction is whole (`FetchedSteady`); a steady follower keeps the flag unless a call failed; whatever can be read in full converges, though refreshes drop each other's collections and a viewer unlinks in the middle; one refresh that nothing comes between is enough for that, and stores as many lists and packs as ten pages hold where there are more, whatever was stored before it (`RefreshesAreRight`) |
| `session` | 2 calls, 1 connect, 5 tokens, a fault, a revocation, fair | without faults the session is never lost (`SessionInv`); a session that is lost is shown; a false alarm goes away by the next refresh |
| `lifecycle` | 2 workers, batches and passes of up to 2, 2 requests, fair | main returns only when nothing is left; nothing stops before `/ready` says so; the listener hears; the process ends unless a task missed the message |
| `lifecycle_hangs` | the same | **violated**: after a SIGTERM the process need not end (section 6) |
| `link` | 2 syncs, lists of no, one and two chunks, 2 tokens, a fault | the row follows the link; a row in force is deleted only by a sync of an earlier token; uploads are whole, leave no session behind a failed chunk, and implement `AtomicUpload` |

### 4.1 Why the bounds are enough

* Two workers that race, and a third who finds what they left, exhaust the
  relations of a holder, a reaper and a new claimant of a row; two jobs make a
  batch in which one waits for the other.  Two attempts make the first failure a
  retry and the second a death.
* In `RoleSync` a conflict is between two syncs about one member; the second
  member is needed for `Limit = 1` to bite, for a list that removes one and keeps
  another, and for a player sync about one while the config sync is about both.
  One pending job per payload (`MaxQueued`) still lets a payload be in both
  workers and in the queue at once.  `Reconcile` too waits for `Room(Link)`: that
  is a bound of the model, not a test in the code.
* `MCRoleSync` and `MCRoleSyncCalm` start with a guild that is empty or full; the one
  change makes the others reachable.
* Three saves: one each and one that overwrites.  Two registrations: the second
  meets pages opened under the first.
* In `AccountFacts` a cap of one with two viewers makes a set too large by one, and
  a `PageCap` of one with two lists does so for the lists.  `MCAccountFacts` starts
  Bluesky in one state out of many, with a viewer who follows and is listed, so
  that two overlapping refreshes stay within reach; a change then makes each of
  the others reachable in turn, and two changes take the lists past what ten pages
  hold and back.  `MaxDisturbances` bounds changes, faults and unlinks together by
  two: every pair of them occurs, and no three.
* In `BroadcasterSession` two calls and a connect are the smallest set in which a
  call is overtaken by a refresh, by a connect and by both; five tokens are one
  more than can be held at once, so that `Mint` never waits.
* In `Lifecycle` two workers let one miss the message while the other hears it;
  two jobs in a batch let the first be released and the second dispatched.
* In `LinkUpload` two tokens are one registration and its replacement, whose four
  calls arrive in every order; two chunks are the fewest of which one can be
  first and not last.
* The modules that watch conjoin `Watch` to `Next`, which TLC then counts as one
  action.  Every action of `AccountFacts` is taken within the bounds of `facts`, as
  TLC counts them under `[][Next]_vars`; those of `RoleSync` are counted by `sync`.
* What is said of calm syncs and refreshes is checked with as many disturbances
  as the liveness of the same run allows; the theorems say it for any number.
* One fault per run lets it strike at each statement; the exceptions that the
  properties make for faults (`faults = 0 =>`, `torn`, `astray`, `left`) are proved
  for any number.

### 4.2 Deadlock

Deadlock is checked but in the four runs of `RoleSync` and `LinkUpload`, where the
system may really stop (the link is gone, every task idle, and every bound on
changes spent), and in the two of `Lifecycle`, where a process that has exited
takes no step.

### 4.3 Fairness

* `JobQueue`: a worker task that can take a step does (tokio polls ready tasks,
  and every await in `run` is a statement with a timeout, a timer or a dispatch
  that returns); clocks advance; a process whose tasks have ended is started
  again by its supervisor.  Faults, signals and overruns are never forced.
* `RoleSync`: workers go on with their syncs (weak); a pending job is taken in
  the end (strong, because a job is taken only by a worker that is idle, and
  idleness comes and goes; this is `JobExecution!Ends`, checked in `queue_live`,
  as seen from the engine); the reconcile task keeps its interval, as long as
  the account's session is alive (`Reconcile` is not enabled otherwise), and what
  is transient in the failures of Bluesky ends; an owner who is asked to confirm
  does so in the end.  Nothing makes an outage end and nobody has to connect an
  account again: the liveness properties assume that from some time on `link = "on"`,
  the link is bound and the session is alive (`Reachable`).
* `AccountFacts`: the reconcile task keeps its interval and what was begun goes
  on.
* `BroadcasterSession`: the access token comes near its expiry, the reconcile
  task calls, and a call goes on.  Nobody has to connect.
* `Lifecycle`: every task, main and the signal task go on and every request is
  answered.  Strong fairness is assumed of the reconcile task's stop alone: its
  `select!` picks among ready branches at random, so a message that is ready time
  after time is taken.  Nothing makes a SIGTERM come.
* `LinkUpload` states no liveness and no fairness.

Liveness properties have the form "once the disturbance stops": the bounds on
changes, faults and disconnects make it stop in every behaviour.

## 5. Proofs

All theorems hold for every number of jobs, workers, members, tabs, viewers and
refreshes and for every bound; they use the named assumptions on the constants
(types, `NoWorker \notin Worker`, a finite `Member` or `Viewer`, and the like)
which TLC evaluates on every run.

* `JobQueueProofs`
  * `TypeCorrect`.
  * `Ownership`: `[]OwnershipInv`.  That no two workers run one job
    (`ExclusiveInTime`) is not inductive: one has to know that a worker holds
    copies only while it works on a batch (`PlacesAgree`), that a row is locked
    exactly while it is in progress (`LocksAgree`), that while nothing has
    overrun every copy is of a row locked by its holder and every expired lock
    is an orphan's (`HoldersInTime`), so that the reaper takes nothing from a
    holder.  `LockedMeansHeld` is the converse, without faults.
  * `Exclusive`, `NothingStranded`, `LifecycleInTime` follow from it.
  * `Refinement`: with `MaxOverruns = 0` (an assumption of the theorem) every
    step of `JobQueue` is a step of `JobExecution` or a stutter.
  * `Duplicates`: the number of holders is not inductive; the number of those
    who hold a job without a lock that stands (`Stale`) is.  Only an overrun adds
    one, because a claim takes rows nobody has locked, and a worker that settles a
    row another has locked gives up its own hold as it takes away the other's.
  * `ClaimsLeft`, `Attempts`: `attempts` may reach the bound only in a row that can
    be claimed no more.  The inductive invariant counts a message that is not
    yet read against the bound (`Allowed`), since reading it may put one job
    back, and lets a row that may be claimed once more be one below it.
* `RoleSyncProofs`
  * `TypeCorrect`.
  * `MirrorInvariant`: `[]MirrorInv`.  To know that the mirror and RoleLogic agree
    about a member after a write, one has to know that the sync between its call
    and its write is the only one about that member, and that RoleLogic still
    holds what it sent: that is the second conjunct; the first keeps the row in
    place while RoleLogic has the link.
  * `MirrorIsRight` states the consequence alone.
  * `OneAtATimeIsRight`: with a single worker and no failure `torn` stays empty, so that
    the mirror is RoleLogic's list whenever the worker is idle.  The run
    `sync_diverges` needs its second worker.
  * `CalmIsInformed`: `[]CalmInv`, of `CalmSpec`.  At each stage it says what a calm
    sync knows: the rule it carries is the one in force, its list is the guild's
    members or those whom the rule wants, and once RoleLogic has answered the
    list there is right.  Only a step of the sync itself can end a stage
    (`OwnStep`); every other step leaves what it read alone or ends the calm.
  * `CalmSyncsAreRight`: `SyncsAreRight`.  A sync that writes the mirror has just been
    answered, so `CalmInv` has the conclusion; one that makes no call has found the
    mirror as the rule wants it, and `MirrorInv` carries that over to RoleLogic for
    every member who is neither torn nor being written about.
* `RuleConfigProofs`: `TypeCorrect`; `VersionsInvariant` (the version of a tab that
  is not misled is current exactly if the rule it shows is), `NoClobber` from it;
  `Binding`, which needs its second conjunct about checked saves to be inductive.
* `RuleEvalProofs`: `TypeCorrect` (every saved condition is typed, from the
  validator) and `Agreement` (the two verdicts, condition by condition, then
  group by group).
* `AccountFactsProofs`: `TypeCorrect`; `FetchesAreWhole` (`FetchedSteady`): what a
  refresh carries from its reads to its transaction contains everybody who
  followed all along; `FlagsAreKept` is inductive only together with it.
  `CalmIsInStep` (`CalmInv` of `AccountFactsCalm`) says of each stage of a calm refresh
  what it has fetched, stored and written so far, from an arbitrary state of the
  tables: the lists it was told of are stored and no others (all there are, or as
  many as ten pages hold), and the members of every collection that is not still
  to come are right as far as one read tells.  That the second case counts the
  stored rows needs `IsFiniteSet(Collection)`.  `CalmRefreshesAreRight` follows at the
  last garbage collection; on the way it shows that the foreign key refuses a
  calm refresh nothing.
* `BroadcasterSessionProofs`: `TypeCorrect`; `SessionIsKept`.  That the row's token is
  unspent or about to be replaced needs to know that what a call or a connect is
  about to store is unspent too (`CarriedAreUnspent`) and held by nobody else
  (`CarriedAreOwned`), the latter also when there are faults.
* `LifecycleProofs`: `TypeCorrect`; `UnreadyBeforeStopping`; `ListenerStopsWhenTold`;
  `CleanExit`, from `StoppedIsEmpty`: a task that has stopped has nothing left, and
  main is past exactly those it joined.
* `LinkUploadProofs`
  * `TypeCorrect`; `WholeLists` (`UploadInv`) and `NoneLeftBehind` (`SessionAttended`),
    inductive together (`Sessions`): that a session is attended needs to know whose
    it is.
  * `RowFollows`: `RowFollowsLink` speaks of a moment at which every call has
    arrived; `RowInv` says for every moment which of them are still to come and
    what the row may be meanwhile.  `LiveRow` follows.
  * `Refinement`: `LinkUpload` implements `AtomicUpload`, by a mapping that forgets
    tokens and sessions and keeps what each sync is asking for.

Only model-checked: the liveness properties (`EveryJobEnds`,
`ConvergesUnlessTorn`, `FactsConverge`, `DeadSessionIsShown`, `FalseAlarmEnds`,
`EndsUnlessMissed`), since fairness and ENABLED are out of the prover's reach.
Every invariant, action property and refinement that a run checks is proved.

## 6. Where the code and its documentation part

Two runs show a disagreement and quote the line they contradict in
`PROJECT.json`:

* `SignalEndsProcess`: a task that takes the shutdown message inside its inner loop
  does not stop.  A worker between two jobs of a batch releases one job and
  goes on; the reconcile task leaves its loop over the accounts and then waits
  for the message again; and a SIGTERM before the server has subscribed is not
  heard by it.  `main` then never returns from its join.
* `Converges`: a player sync and a config sync overlap so that RoleLogic's list
  ends as one wrote it and the mirror as the other did.  If the mirror is the
  one that fits the rule, no later pass makes a call.

Others were met and are described without a run of their own:

* `broadcaster_disconnect` (`routes/admin.rs:225`) changes what its links grant and
  enqueues nothing, and the reconcile pass skips links that are not bound: the
  members keep the role.
* The version in the reply of a save (`routes/admin.rs:763`) may be another tab's,
  whose rule the next save then overwrites unseen; that is what `misled` excepts in
  `NoClobberUnlessMisled`.
* `services/broadcaster_session.rs:7-8` speaks of a stamp on a hard failure; the code
  stamps on any error, also when another call has just renewed the session.
  `FalseAlarmEnds` shows that such a stamp goes away.
* A commit that the shrink gate holds is not cancelled (`rolelogic.rs:293`): the
  session stays open and the next long upload is refused until it expires.
* A sync whose token was refused deletes the row by guild and role alone
  (`services/sync.rs:558`), also when the row has a new token by then.

* `services/bsky.rs:435-436` says of `list_user_lists` that "we bail at 200"; the loop
  stops after ten pages of 50, and returns what it has as if it were all.
  `refresh_account` then deletes the lists past the tenth page with their members
  (`tasks/reconcile.rs:196-203`, and `262-268` for starter packs).  `RefreshesAreRight`
  says what is left.  Where two overlapping refreshes are told of different lists
  they may drop each other's for ever, and a write that the foreign key refuses
  ends the refresh before it comes to the packs; so `FactsConverge` says nothing of
  the packs in that case.
* A lost or failed sync is repaired by the six-hourly pass only while the account's
  session is alive (`tasks/reconcile.rs:45-49`, `68`).  With a dead session no config
  sync is enqueued until an admin connects the account; the `session` in `Reachable`
  excepts that in `ConvergesUnlessTorn`.

The premises of the properties that hold mark further such places, and the
comments say so: `overruns = 0` (a batch that takes longer than
`STUCK_LOCK_SECS` is processed twice, and a late worker moves a completed job
back to pending), `faults = 0` in `SteadyKeepFlagsUnlessFailed` (one failed
`getFollowers` clears every flag of the account), `raced` in `BoundUnlessRaced`,
and the four cases of `SameGround`.  Two more were read and not modelled:
`followed_at` survives an unfollow, and `rule_validator.rs:12-14` describes drafts
of rules that `admin.rs:719-728` does not let through.

## 7. What is not modelled, and what is simplified

* Not modelled: authentication and the session cookies (`auth.rs`, `rl_token.rs`,
  `session.rs`, `csrf.rs`, `crypto.rs`): checks of signed values against a key and a
  clock, without state of their own; their correctness is that of the
  cryptography.  The users page and `guild_settings`: a listing and one UPSERT.
  Configuration, error pages, routing, rendering and access control.  The
  preview of a rule, which writes nothing.
* That Bluesky takes a refresh token once is assumed (3.6); profiles are left
  out, and so is the encryption of the tokens at rest, which every reader undoes.
* A link that RoleLogic deletes and creates anew while its `delete_config` is lost
  keeps its row, and with it the mirror of the old link.  `LinkUpload` has the
  token and no mirror, `RoleSync` the mirror and one registration; the hazard is
  listed, and a property of both is in the plan.
* The late effect of a request that timed out is in `LinkUpload`; `RoleSync` leaves it
  out.  A late write would be one more way to tear RoleLogic's list from the mirror.
* A player sync goes over every link of the member's guilds; the model has one.
  The links do not share state but the member's facts.
* A link's guild, rule and account are read by a player sync in one query and so
  in one step; `ensure_baseline_relations` is left out because the rows that it
  inserts hold the defaults to which both readers COALESCE.
* `verify_unlink` deletes the memberships of lists and of packs in two
  statements; the model merges them, as no step reads both tables together with
  anything else.
* A player sync reads a member's facts and memberships in two queries, which
  `RoleSync.Evaluate` merges.  A refresh that commits between them lets the sync judge
  the columns of before by the memberships of after, a verdict that no single
  moment gives; the sync that the refresh enqueues comes after it.
* `WriteRelations` is atomic.  The transaction is READ COMMITTED: a row that another
  transaction inserts while it runs escapes its reset, until the next refresh.
* The pages of a read are full but for the last one.  A service that returned
  short pages would reach the ten pages with fewer than 500 lists; `PageCap` is
  then smaller, and what is said holds for every value of it.
* `EveryJobEnds` is checked with the notifications of the listener as a free `Wake`
  that is no more than the poll timer's: a lost notification costs time, which the
  model does not have.  The listener's own loop is in `Lifecycle`.
* `SessionAttended` excepts a commit that is held or refused, which does leave a
  session; `RowInv` and `LiveRowKept` except the deletion by a sync of an earlier
  token.  Both are in section 6.
* `AccountFacts` takes every starter pack to come with the list that holds its
  members; for one without, the code refreshes no members.
* A page that refreshes itself while clean is a `Load`; a reply delayed past
  another load of the same tab is left out.
* `LOWER` on non-ASCII text, and patterns that Postgres refuses, are outside
  `Matches`.
* The profile of an account, `last_synced_at`, `followed_at` and the columns that
  only pages show are left out.
