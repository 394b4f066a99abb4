------------------------- MODULE BroadcasterSession -------------------------
(***************************************************************************)
(* The Bluesky session of one connected account: the pair of tokens in its *)
(* row of bsky_accounts.  valid_access_jwt                                 *)
(* (services/broadcaster_session.rs) refreshes it close to its expiry; it  *)
(* is called by the reconcile task of every replica, by account_sync jobs  *)
(* and by an admin's refresh, with nothing that keeps two calls apart.     *)
(* An admin may connect the account again at any time (routes/admin.rs).   *)
(*                                                                         *)
(* Bluesky is external.  A refresh token stands for its session and works  *)
(* once: refreshSession takes it and hands out its successor, which is why *)
(* the code stores the new pair.  An access token has no life of its own   *)
(* here: `fresh` says that the row's is far from token_expires_at.         *)
(***************************************************************************)
EXTENDS Integers, FiniteSets

CONSTANTS
    Caller,          \* calls of valid_access_jwt that may overlap
    Admin,           \* calls of broadcaster_connect that may overlap
    Token,           \* refresh tokens; one out of use may be minted again
    NoToken,         \* no row yet, nothing in hand
    MaxFaults,       \* bound: calls and statements that fail, crashes
    MaxRevocations   \* bound: sessions Bluesky ends

ASSUME TokenAssumption == NoToken \notin Token
ASSUME BoundAssumption == MaxFaults \in Nat /\ MaxRevocations \in Nat

VARIABLES
    accepted,    \* Bluesky: the refresh tokens it would take
    revoked,     \* Bluesky: those whose session it has ended
    stored, fresh, failed,   \* refresh_jwt_enc, token_expires_at is not near,
                             \* refresh_failed_at is set
    call,        \* call[c]: where the call is and the token it holds
    login,       \* login[a]: the session a connect has opened, not yet stored
    faults, revocations

row    == <<stored, fresh, failed>>
budget == <<faults, revocations>>
vars   == <<accepted, revoked, row, call, login, budget>>

Idle == [at |-> "idle", token |-> NoToken]

Init ==
    /\ accepted = {} /\ revoked = {}
    /\ stored = NoToken /\ fresh = FALSE /\ failed = FALSE
    /\ call = [c \in Caller |-> Idle]
    /\ login = [a \in Admin |-> NoToken]
    /\ faults = 0 /\ revocations = 0

-----------------------------------------------------------------------------
(* Bluesky.                                                                *)

InUse == {stored} \cup {call[c].token : c \in Caller} \cup {login[a] : a \in Admin}
New   == CHOOSE t \in Token : t \notin InUse

\* createSession and refreshSession hand out a token nobody has, in return
\* for those in `spent`.
Mint(spent) ==
    /\ Token \ InUse # {}
    /\ accepted' = (accepted \ spent) \cup {New}
    /\ revoked' = revoked \ {New}

\* The app password is withdrawn, or the session is too old.
Revoke ==
    /\ revocations < MaxRevocations /\ revocations' = revocations + 1
    /\ \E t \in accepted \cap InUse :
         /\ accepted' = accepted \ {t}
         /\ revoked' = revoked \cup {t}
    /\ UNCHANGED <<row, call, login, faults>>

\* The access token comes within REFRESH_LEAD_SECS of its expiry.
Expire ==
    /\ fresh /\ fresh' = FALSE
    /\ UNCHANGED <<accepted, revoked, stored, failed, call, login, budget>>

-----------------------------------------------------------------------------
(* valid_access_jwt.                                                       *)

Go(c, place, token) == call' = [call EXCEPT ![c] = [at |-> place, token |-> token]]

\* Mutant of ReadRow: the account without a row is not refused.
ReadNoRow(c) ==
    /\ call[c].at = "idle"
    /\ ~fresh
    /\ Go(c, "asking", stored)
    /\ UNCHANGED <<accepted, revoked, row, login, budget>>

\* The SELECT.  A fresh row ends the call with its access token.
ReadRow(c) ==
    /\ call[c].at = "idle"
    /\ stored # NoToken /\ ~fresh
    /\ Go(c, "asking", stored)
    /\ UNCHANGED <<accepted, revoked, row, login, budget>>

\* refresh_session.
Refresh(c) ==
    /\ call[c].at = "asking" /\ call[c].token \in accepted
    /\ Mint({call[c].token})
    /\ Go(c, "got", New)
    /\ UNCHANGED <<row, login, budget>>

RefreshRefused(c) ==
    /\ call[c].at = "asking" /\ call[c].token \notin accepted
    /\ Go(c, "refused", NoToken)
    /\ UNCHANGED <<accepted, revoked, row, login, budget>>

\* Mutants of Persist: the refresh token is left out of the UPDATE; the
\* stamp is left.
PersistAccessOnly(c) ==
    /\ call[c].at = "got"
    /\ stored' = stored /\ fresh' = TRUE /\ failed' = FALSE
    /\ Go(c, "idle", NoToken)
    /\ UNCHANGED <<accepted, revoked, login, budget>>

PersistKeepingStamp(c) ==
    /\ call[c].at = "got"
    /\ stored' = call[c].token /\ fresh' = TRUE
    /\ Go(c, "idle", NoToken)
    /\ UNCHANGED <<accepted, revoked, failed, login, budget>>

\* UPDATE ... WHERE did = $4, whatever the row holds by now.
Persist(c) ==
    /\ call[c].at = "got"
    /\ stored' = call[c].token /\ fresh' = TRUE /\ failed' = FALSE
    /\ Go(c, "idle", NoToken)
    /\ UNCHANGED <<accepted, revoked, login, budget>>

\* Mutant of Stamp: a failed refresh also counts as one.
StampAsFresh(c) ==
    /\ call[c].at = "refused"
    /\ fresh' = TRUE
    /\ Go(c, "idle", NoToken)
    /\ UNCHANGED <<accepted, revoked, stored, failed, login, budget>>

\* Any error at all stamps the row, also one that another call has since
\* refreshed or an admin connected again.
Stamp(c) ==
    /\ call[c].at = "refused"
    /\ failed' = TRUE
    /\ Go(c, "idle", NoToken)
    /\ UNCHANGED <<accepted, revoked, stored, fresh, login, budget>>

Step(c) == ReadRow(c) \/ Refresh(c) \/ RefreshRefused(c) \/ Persist(c) \/ Stamp(c)

Fault == faults < MaxFaults /\ faults' = faults + 1

\* The request is lost; or it is served and its answer is lost.
AskFails(c) ==
    /\ Fault
    /\ call[c].at = "asking"
    /\ \/ UNCHANGED <<accepted, revoked>>
       \/ call[c].token \in accepted /\ Mint({call[c].token})
    /\ Go(c, "refused", NoToken)
    /\ UNCHANGED <<row, login, revocations>>

\* The UPDATE of either branch fails, or the process dies: what the call
\* holds is gone.
CallEnds(c) ==
    /\ Fault
    /\ call[c].at # "idle"
    /\ Go(c, "idle", NoToken)
    /\ UNCHANGED <<accepted, revoked, row, login, revocations>>

-----------------------------------------------------------------------------
(* broadcaster_connect.                                                    *)

\* create_session and the profile.
LogIn(a) ==
    /\ login[a] = NoToken
    /\ Mint({})
    /\ login' = [login EXCEPT ![a] = New]
    /\ UNCHANGED <<row, call, budget>>

\* The transaction; an existing row takes the tokens and loses its stamp.
Connect(a) ==
    /\ login[a] # NoToken
    /\ stored' = login[a] /\ fresh' = TRUE /\ failed' = FALSE
    /\ login' = [login EXCEPT ![a] = NoToken]
    /\ UNCHANGED <<accepted, revoked, call, budget>>

\* No profile, or the transaction is rolled back.
ConnectFails(a) ==
    /\ login[a] # NoToken
    /\ login' = [login EXCEPT ![a] = NoToken]
    /\ UNCHANGED <<accepted, revoked, row, call, budget>>

Next ==
    \/ \E c \in Caller : Step(c) \/ AskFails(c) \/ CallEnds(c)
    \/ \E a \in Admin : LogIn(a) \/ Connect(a) \/ ConnectFails(a)
    \/ Revoke \/ Expire

Spec == Init /\ [][Next]_vars

\* Time passes, the reconcile task keeps its interval, and a call goes on.
\* Nothing makes an admin connect.
Fairness ==
    /\ WF_vars(Expire)
    /\ \A c \in Caller : WF_vars(Step(c))

FairSpec == Spec /\ Fairness

-----------------------------------------------------------------------------
(* Properties.                                                             *)

\* Every column and every local keeps its type.
TypeOK ==
    /\ accepted \in SUBSET Token /\ revoked \in SUBSET Token
    /\ stored \in Token \cup {NoToken}
    /\ fresh \in BOOLEAN /\ failed \in BOOLEAN
    /\ call \in [Caller -> [at : {"idle", "asking", "got", "refused"}, token : Token \cup {NoToken}]]
    /\ \A c \in Caller : call[c].token = NoToken <=> call[c].at \in {"idle", "refused"}
    /\ login \in [Admin -> Token \cup {NoToken}]
    /\ faults \in 0..MaxFaults /\ revocations \in 0..MaxRevocations

\* The tokens of sessions that go on or that Bluesky itself ended: every
\* other token is spent.
Unspent == accepted \cup revoked

Carried == {c \in Caller : call[c].at = "got"}

\* As long as every call and statement succeeds and no process crashes, the
\* plugin never spends the row's token without having its successor: however
\* many calls refresh at the same time and whichever connects overtake them,
\* the row's refresh token is unspent or a call is about to store one.
SessionKept ==
    faults = 0 /\ stored # NoToken => stored \in Unspent \/ Carried # {}

\* The inductive core: what a call or a connect is about to store is unspent,
\* and nobody else has it.
CarriedAreUnspent ==
    /\ faults = 0 => \A c \in Carried : call[c].token \in Unspent
    /\ faults = 0 => \A a \in Admin : login[a] # NoToken => login[a] \in Unspent

CarriedAreOwned ==
    /\ \A c \in Carried :
        /\ call[c].token \in Token \ {stored}
        /\ \A d \in Caller : call[d].token = call[c].token => d = c
        /\ \A a \in Admin : login[a] # call[c].token
    /\ \A a \in Admin : login[a] # NoToken =>
        /\ login[a] # stored
        /\ \A c \in Caller : call[c].token # login[a]
        /\ \A b \in Admin : login[b] = login[a] => b = a

SessionInv == SessionKept /\ CarriedAreUnspent /\ CarriedAreOwned

\* Nobody can refresh the account any more.
Dead == stored # NoToken /\ stored \notin accepted
            /\ \A c \in Carried : call[c].token \notin accepted

\* "so the admin sees 're-connect needed' in the iframe"
\* (services/broadcaster_session.rs:8): a session that is lost, be it ended by
\* Bluesky, spent by a call whose answer or UPDATE was lost, or a connected
\* one overwritten by a late call of an ended session, does get the stamp
\* and keeps it until somebody has a token that works.
DeadSessionIsShown == <>[](Dead => failed)

\* The stamp of a session that works, left by a call that lost a race or had
\* no answer, goes away by the next refresh, if it does not stop working.
FalseAlarmEnds == failed ~> ~failed \/ Dead
=============================================================================
