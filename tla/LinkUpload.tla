----------------------------- MODULE LinkUpload -----------------------------
(***************************************************************************)
(* One role link between RoleLogic and the plugin: the token RoleLogic     *)
(* gives it with `register` and takes back with `delete_config`            *)
(* (routes/plugin.rs), and the calls that the syncs make with the token    *)
(* they have read (services/rolelogic.rs, services/sync.rs).  A list that  *)
(* fits one request replaces RoleLogic's with a PUT; a longer one goes     *)
(* through a session: start, one request per chunk, commit, or cancel      *)
(* after a chunk that failed.                                              *)
(*                                                                         *)
(* RoleLogic is external, modelled from what the plugin sends and from the *)
(* answers it tells apart.  Its calls to the plugin may overtake one       *)
(* another and be lost.  A request on which the client gave up (timeout)   *)
(* may have been received, and be carried out late.  Whether a sync finds  *)
(* its list in role_assignments already is a free choice here: the table   *)
(* is the subject of RoleSync.                                             *)
(***************************************************************************)
EXTENDS Integers, FiniteSets

CONSTANTS
    Syncer,      \* workers that may be in a sync of the link
    List,        \* the lists a rule may ask for
    Nobody,      \* the empty list
    Size,        \* Size[l]: the chunks of CHUNK_SIZE that l is cut into
    NoOne,       \* no session is open
    MaxTokens,   \* bound: tokens RoleLogic issues for the link
    MaxFaults    \* bound: failed calls, lost calls and crashes

ASSUME ListAssumption == Nobody \in List /\ Size \in [List -> Nat] /\ Size[Nobody] = 0
ASSUME SyncerAssumption == NoOne \notin Syncer
ASSUME BoundAssumption == MaxTokens \in Nat /\ MaxFaults \in Nat

VARIABLES
    token,       \* RoleLogic: the token it honours, 0 without the link
    issued,      \* RoleLogic: how many tokens it has issued
    active,      \* RoleLogic: the link is neither switched off nor paused
    remote,      \* RoleLogic: the list, as a set of chunks
    session,     \* RoleLogic: who has opened the upload, and its chunks
    late,        \* RoleLogic: lists of requests that were given up and that
                 \* it carries out yet
    wire,        \* its calls that have not reached the plugin
    row,         \* role_links.api_token, 0 without the row
    sync,        \* sync[s]: where the sync is, with its locals
    heard,       \* history: the latest of RoleLogic's calls that was heard
    astray,      \* history: a call was lost, a register was overtaken, or a
                 \* sync deleted the row of a link that lives
    left,        \* history: the open session was given up by its sync
    faults

far  == <<token, issued, active>>
book == <<remote, session, late, left>>
here == <<wire, row, heard, astray>>
vars == <<far, book, here, sync, faults>>

Chunks(l, n) == {<<l, i>> : i \in 1..n}
Parts(l)     == Chunks(l, Size[l])

Call   == [op : {"register", "delete"}, token : 1..MaxTokens]
Closed == [by |-> NoOne, parts |-> {}]
Idle   == [at |-> "idle", token |-> 0, list |-> Nobody, chunk |-> 0]

Init ==
    /\ token = 0 /\ issued = 0 /\ active = TRUE
    /\ remote = {} /\ session = Closed /\ late = {} /\ left = FALSE
    /\ wire = {} /\ row = 0 /\ heard = 0 /\ astray = FALSE
    /\ sync = [s \in Syncer |-> Idle]
    /\ faults = 0

-----------------------------------------------------------------------------
(* RoleLogic.                                                              *)

\* The link is created, or gets a new token: `register` upserts the token.
Issue ==
    /\ issued < MaxTokens
    /\ issued' = issued + 1 /\ token' = issued + 1
    /\ active' = (token = 0 \/ active)
    /\ wire' = wire \cup {[op |-> "register", token |-> issued + 1]}
    /\ UNCHANGED <<book, row, heard, astray, sync, faults>>

Remove ==
    /\ token # 0 /\ token' = 0
    /\ wire' = wire \cup {[op |-> "delete", token |-> token]}
    /\ remote' = {} /\ session' = Closed /\ late' = {} /\ left' = FALSE
    /\ UNCHANGED <<issued, active, row, heard, astray, sync, faults>>

Pause ==
    /\ token # 0 /\ active' = ~active
    /\ UNCHANGED <<token, issued, book, here, sync, faults>>

\* RoleLogic ends a session nobody commits.
SessionExpires ==
    /\ session # Closed /\ session' = Closed /\ left' = FALSE
    /\ UNCHANGED <<far, remote, late, here, sync, faults>>

CarriedOutLate ==
    /\ \E parts \in late : remote' = parts /\ late' = late \ {parts}
    /\ UNCHANGED <<far, session, left, here, sync, faults>>

-----------------------------------------------------------------------------
(* The plugin's handlers.                                                  *)

Rank(c)  == IF c.op = "register" THEN 2 * c.token - 1 ELSE 2 * c.token
Heard(c) == /\ wire' = wire \ {c}
            /\ heard' = IF heard > Rank(c) THEN heard ELSE Rank(c)

\* register: INSERT ... ON CONFLICT DO UPDATE SET api_token.
register(c) ==
    /\ c.op = "register" /\ Heard(c)
    /\ row' = c.token
    /\ astray' = (astray \/ heard > Rank(c))
    /\ UNCHANGED <<far, book, sync, faults>>

\* Mutant of delete_config: the token is not compared.
delete_config_any(c) ==
    /\ c.op = "delete" /\ Heard(c)
    /\ row' = 0
    /\ UNCHANGED <<far, book, astray, sync, faults>>

\* delete_config: DELETE ... AND api_token = $3.
delete_config(c) ==
    /\ c.op = "delete" /\ Heard(c)
    /\ row' = IF row = c.token THEN 0 ELSE row
    /\ UNCHANGED <<far, book, astray, sync, faults>>

-----------------------------------------------------------------------------
(* A sync.                                                                 *)

At(s, place)     == sync[s].at = place
Become(s, local) == sync' = [sync EXCEPT ![s] = local]
Goto(s, place)   == Become(s, [sync[s] EXCEPT !.at = place])
Done(s)          == Become(s, Idle)

\* RoleLogic's guard: the token first, then whether the link is active.
Gone(s)     == sync[s].token # token
Inactive(s) == ~Gone(s) /\ ~active
Honoured(s) == ~Gone(s) /\ active
Long(s)     == Size[sync[s].list] > 1
Mine(s)     == session.by = s

\* The SELECT of the link; with nobody to grant, drain_to_empty follows.
Read(s) ==
    /\ At(s, "idle") /\ row # 0
    /\ \/ Become(s, [Idle EXCEPT !.at = "info", !.token = row])
       \/ Become(s, [Idle EXCEPT !.at = "send", !.token = row])
    /\ UNCHANGED <<far, book, here, faults>>

\* Mutant of GetUserInfo: a link that is switched off is taken for gone.
GetUserInfoHasty(s) ==
    /\ At(s, "info")
    /\ \/ /\ Honoured(s)
          /\ \E l \in List : Become(s, [sync[s] EXCEPT !.at = "send", !.list = l])
       \/ Honoured(s) /\ Done(s)
       \/ ~Honoured(s) /\ Goto(s, "orphan")
    /\ UNCHANGED <<far, book, here, faults>>

\* get_user_info, then the query: a list to upload, or none as nothing changed.
GetUserInfo(s) ==
    /\ At(s, "info")
    /\ \/ /\ Honoured(s)
          /\ \E l \in List : Become(s, [sync[s] EXCEPT !.at = "send", !.list = l])
       \/ (Honoured(s) \/ Inactive(s)) /\ Done(s)
       \/ Gone(s) /\ Goto(s, "orphan")
    /\ UNCHANGED <<far, book, here, faults>>

\* replace_users: up to PUT_MAX_USERS in one request.
Put(s) ==
    /\ At(s, "send") /\ ~Long(s) /\ Honoured(s)
    /\ remote' = Parts(sync[s].list)
    /\ Goto(s, "told")
    /\ UNCHANGED <<far, session, late, left, here, faults>>

\* start_upload: one session at a time.
Start(s) ==
    /\ At(s, "send") /\ Long(s) /\ Honoured(s) /\ session = Closed
    /\ session' = [by |-> s, parts |-> {}]
    /\ Become(s, [sync[s] EXCEPT !.at = "chunk", !.chunk = 1])
    /\ UNCHANGED <<far, remote, late, left, here, faults>>

\* The answers that end the sync: deleted, inactive, held by the shrink gate
\* (a PUT), or "Upload already in progress" (a start).
SendRefused(s) ==
    /\ At(s, "send")
    /\ \/ Gone(s) /\ Goto(s, "orphan")
       \/ Inactive(s) /\ Done(s)
       \/ Honoured(s) /\ ~Long(s) /\ remote # {} /\ Done(s)
       \/ Honoured(s) /\ Long(s) /\ session # Closed /\ Done(s)
    /\ UNCHANGED <<far, book, here, faults>>

Take(s) == session' = [session EXCEPT !.parts = @ \cup {<<sync[s].list, sync[s].chunk>>}]

\* Mutant of UploadChunk: one chunk too many.
UploadChunkPastEnd(s) ==
    /\ At(s, "chunk") /\ Honoured(s) /\ Mine(s)
    /\ Take(s)
    /\ IF sync[s].chunk > Size[sync[s].list] THEN Goto(s, "commit")
       ELSE Become(s, [sync[s] EXCEPT !.chunk = @ + 1])
    /\ UNCHANGED <<far, remote, late, left, here, faults>>

\* upload_chunk.
UploadChunk(s) ==
    /\ At(s, "chunk") /\ Honoured(s) /\ Mine(s)
    /\ Take(s)
    /\ IF sync[s].chunk = Size[sync[s].list] THEN Goto(s, "commit")
       ELSE Become(s, [sync[s] EXCEPT !.chunk = @ + 1])
    /\ UNCHANGED <<far, remote, late, left, here, faults>>

\* Whatever the answer says, a chunk that failed ends the upload.
ChunkRefused(s) ==
    /\ At(s, "chunk") /\ ~(Honoured(s) /\ Mine(s))
    /\ Goto(s, "cancel")
    /\ UNCHANGED <<far, book, here, faults>>

\* cancel_upload.  When it is refused that is only logged.
Cancel(s) ==
    /\ At(s, "cancel")
    /\ \/ Honoured(s) /\ Mine(s) /\ session' = Closed /\ UNCHANGED left
       \/ ~(Honoured(s) /\ Mine(s)) /\ left' = (left \/ Mine(s)) /\ UNCHANGED session
    /\ Done(s)
    /\ UNCHANGED <<far, remote, late, here, faults>>

\* commit_upload.
Commit(s) ==
    /\ At(s, "commit") /\ Honoured(s) /\ Mine(s)
    /\ remote' = session.parts /\ session' = Closed
    /\ Goto(s, "told")
    /\ UNCHANGED <<far, late, left, here, faults>>

\* Mutant of CommitRefused: the refusal is taken for an answer.
CommitRefusedUnseen(s) ==
    /\ At(s, "commit")
    /\ Honoured(s) /\ Mine(s) => remote # {}
    /\ left' = (left \/ Mine(s))
    /\ Goto(s, "told")
    /\ UNCHANGED <<far, remote, session, late, here, faults>>

\* A commit that is held or refused: nothing cancels the session.
CommitRefused(s) ==
    /\ At(s, "commit")
    /\ Honoured(s) /\ Mine(s) => remote # {}
    /\ left' = (left \/ Mine(s))
    /\ Done(s)
    /\ UNCHANGED <<far, remote, session, late, here, faults>>

\* delete_orphan_role_link: WHERE guild_id AND role_id, whatever the token.
DeleteOrphan(s) ==
    /\ At(s, "orphan")
    /\ row' = 0
    /\ astray' = (astray \/ (row # 0 /\ row = token))
    /\ Done(s)
    /\ UNCHANGED <<far, book, wire, heard, faults>>

\* The write of role_assignments: see RoleSync.
Finish(s) ==
    /\ At(s, "told") /\ Done(s)
    /\ UNCHANGED <<far, book, here, faults>>

-----------------------------------------------------------------------------
(* Failures.                                                               *)

Fault == faults < MaxFaults /\ faults' = faults + 1

\* One of RoleLogic's calls is lost.
Lose(c) ==
    /\ Fault
    /\ wire' = wire \ {c} /\ astray' = TRUE
    /\ UNCHANGED <<far, book, row, heard, sync>>

\* Mutant of ChunkFails: the error is returned without a cancel.
ChunkFailsUncancelled(s) ==
    /\ Fault
    /\ At(s, "chunk")
    /\ (Honoured(s) /\ Mine(s) /\ Take(s)) \/ UNCHANGED session
    /\ Done(s)
    /\ UNCHANGED <<far, remote, late, left, here>>

\* Mutant of ChunkFails: the loop goes on with the next chunk.
ChunkFailsSkipped(s) ==
    /\ Fault
    /\ At(s, "chunk")
    /\ IF sync[s].chunk = Size[sync[s].list] THEN Goto(s, "commit")
       ELSE Become(s, [sync[s] EXCEPT !.chunk = @ + 1])
    /\ UNCHANGED <<far, book, here>>

\* A chunk times out, received or not.
ChunkFails(s) ==
    /\ Fault
    /\ At(s, "chunk")
    /\ (Honoured(s) /\ Mine(s) /\ Take(s)) \/ UNCHANGED session
    /\ Goto(s, "cancel")
    /\ UNCHANGED <<far, remote, late, left, here>>

\* What a request does at RoleLogic though its sync never hears of it: a PUT
\* or a commit is carried out in its time, a session is opened, or ended.
Received(s) ==
    /\ Honoured(s)
    /\ \/ /\ At(s, "send") /\ ~Long(s)
          /\ late' = late \cup {Parts(sync[s].list)} /\ UNCHANGED <<session, left>>
       \/ /\ At(s, "commit") /\ Mine(s)
          /\ late' = late \cup {session.parts} /\ session' = Closed /\ UNCHANGED left
       \/ /\ At(s, "send") /\ Long(s) /\ session = Closed
          /\ session' = [by |-> s, parts |-> {}] /\ left' = TRUE /\ UNCHANGED late
       \/ /\ At(s, "cancel") /\ Mine(s)
          /\ session' = Closed /\ UNCHANGED <<late, left>>

\* A request fails, or the process dies: the sync ends where it is, and a
\* session of its own stays open.
SyncEnds(s) ==
    /\ Fault
    /\ ~At(s, "idle")
    /\ \/ Received(s)
       \/ left' = (left \/ Mine(s)) /\ UNCHANGED <<session, late>>
    /\ Done(s)
    /\ UNCHANGED <<far, remote, here>>

-----------------------------------------------------------------------------
Step(s) ==
    \/ Read(s) \/ GetUserInfo(s) \/ Put(s) \/ Start(s) \/ SendRefused(s)
    \/ UploadChunk(s) \/ ChunkRefused(s) \/ Cancel(s) \/ Commit(s)
    \/ CommitRefused(s) \/ DeleteOrphan(s) \/ Finish(s)

Next ==
    \/ Issue \/ Remove \/ Pause \/ SessionExpires \/ CarriedOutLate
    \/ \E c \in wire : register(c) \/ delete_config(c) \/ Lose(c)
    \/ \E s \in Syncer : Step(s) \/ ChunkFails(s) \/ SyncEnds(s)

Spec == Init /\ [][Next]_vars

-----------------------------------------------------------------------------
(* Properties.                                                             *)

Place == {"idle", "info", "send", "chunk", "cancel", "commit", "told", "orphan"}

Local == [at : Place, token : 0..MaxTokens, list : List, chunk : Nat]
Session == [by : Syncer \cup {NoOne}, parts : SUBSET (List \X Nat)]

TypeOK ==
    /\ token \in 0..MaxTokens /\ issued \in 0..MaxTokens /\ row \in 0..MaxTokens
    /\ active \in BOOLEAN /\ astray \in BOOLEAN /\ left \in BOOLEAN
    /\ session \in Session
    /\ session.by = NoOne => session = Closed
    /\ wire \subseteq Call /\ heard \in 0..(2 * MaxTokens)
    /\ sync \in [Syncer -> Local]
    /\ \A s \in Syncer : At(s, "chunk") => sync[s].chunk \in 1..Size[sync[s].list]
    /\ faults \in 0..MaxFaults

\* A session holds, for the sync that works on it, the chunks already sent;
\* what RoleLogic stores, or may store late, is a whole list.
Staged ==
    \A s \in Syncer : Mine(s) =>
      /\ At(s, "chunk") => session.parts = Chunks(sync[s].list, sync[s].chunk - 1)
      /\ At(s, "commit") => session.parts = Parts(sync[s].list)

Whole == {Parts(l) : l \in List} \cup {{}}

UploadInv == Staged /\ remote \in Whole /\ late \subseteq Whole

Attending == {"chunk", "cancel", "commit"}

\* Whatever fails at a chunk, its session does not stay open behind the sync,
\* to refuse the next upload with "Upload already in progress"
\* (services/rolelogic.rs:270-293): only a crash, a lost start or cancel, a
\* commit that is held or refused, or a link that is switched off or gets a new
\* token under the upload leaves one.
SessionAttended ==
    /\ session = Closed => ~left
    /\ \A s \in Syncer : Mine(s) => (left <=> sync[s].at \notin Attending)

\* RoleLogic's calls may arrive in any order as long as no register is
\* overtaken: once they have all been heard, the row has the token of the
\* link, or is gone with it (routes/plugin.rs).
RowFollowsLink == wire = {} /\ ~astray => row = token

\* Its inductive core.  Tokens are not used twice, so that a sync's verdict on
\* its token stands and a late delete_config fits no later row; once the
\* latest register has been heard, the row is the latest or deleted.
Latest == [op |-> "register", token |-> issued]
Last   == [op |-> "delete", token |-> issued]

RowInv ==
    /\ token \in {0, issued} /\ row <= issued
    /\ \A c \in wire : c.token <= issued /\ (c.op = "delete" => c.token # token)
    /\ \A s \in Syncer \ {r \in Syncer : At(r, "idle")} :
        /\ sync[s].token \in 1..issued
        /\ At(s, "orphan") => Gone(s)
    /\ ~astray /\ issued > 0 =>
        /\ token = 0 => Last \in wire \/ heard >= 2 * issued
        /\ Latest \notin wire =>
            /\ heard >= 2 * issued - 1
            /\ row = token \/ (row = issued /\ Last \in wire)
    /\ RowFollowsLink

\* The row of a link that RoleLogic honours is deleted by nobody but a sync
\* that holds an earlier token, in the very step that ends that sync
\* (services/sync.rs:552-566).
LiveRowKept ==
    [][row # 0 /\ row = token /\ row' = 0 =>
         \E s \in Syncer : At(s, "orphan") /\ Gone(s) /\ At(s, "idle")']_vars

\* An upload in chunks, interrupted anywhere, beside others and under a link
\* that is paused, deleted and created again, is one atomic call to the sync
\* that makes it (services/rolelogic.rs:239-303).
Asking    == {"send", "chunk", "cancel", "commit"}
CallOf(l) == [state |-> IF l.at \in Asking THEN "asked" ELSE IF l.at = "told" THEN "done" ELSE "idle",
              value |-> IF l.at \in Asking \cup {"told"} THEN Parts(l.list) ELSE {}]
Calls     == [s \in Syncer |-> CallOf(sync[s])]

Upload == INSTANCE AtomicUpload WITH
    Caller <- Syncer, Value <- {Parts(l) : l \in List}, Nothing <- {},
    list <- remote, call <- Calls

ImplementsAtomicUpload == Upload!Spec
=============================================================================
