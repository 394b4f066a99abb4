----------------------------- MODULE RuleConfig -----------------------------
(***************************************************************************)
(* The configuration of one role link: the row of role_links that RoleLogic*)
(* registers and deletes (routes/plugin.rs), the accounts connected to its *)
(* guild, and the tabs in which admins load and save its rule              *)
(* (routes/admin.rs, templates/role_config.html).                          *)
(*                                                                         *)
(* A save is three statements outside a transaction: the check of the      *)
(* account, the UPDATE guarded by the version, and the SELECT of the       *)
(* version that the reply carries.  A rule is a number: the save that      *)
(* stored it, 0 for the rule of a new link.                                *)
(***************************************************************************)
EXTENDS Integers

CONSTANTS
    Tab,           \* browser tabs with the role-config page
    Account,       \* Bluesky accounts
    NoAccount,     \* a NULL bsky_account_did
    MaxSaves,      \* bound: saves that store a rule
    MaxRegisters   \* bound: registrations that insert the row

ASSUME AccountAssumption == NoAccount \notin Account
ASSUME BoundAssumption == MaxSaves \in Nat /\ MaxRegisters \in Nat

VARIABLES
    exists, version, rule, account,   \* the role_links row
    connected,     \* guild_bsky_accounts of the guild
    tab,           \* tab[t]: what the page shows, and its save
    saves, registers,
    misled,        \* history: tabs whose version is not that of the rule
                   \* they show, or belongs to an earlier row
    raced          \* history: accounts disconnected under a checked save

row     == <<exists, version, rule, account>>
history == <<misled, raced>>
vars    == <<row, connected, tab, saves, registers, history>>

Choice  == Account \cup {NoAccount}
Closed  == [at |-> "closed", version |-> 0, seen |-> 0, picked |-> NoAccount, wrote |-> 0]

Init ==
    /\ exists = FALSE /\ version = 0 /\ rule = 0 /\ account = NoAccount
    /\ connected = {}
    /\ tab = [t \in Tab |-> Closed]
    /\ saves = 0 /\ registers = 0
    /\ misled = {} /\ raced = {}

Shows(t, page) == tab' = [tab EXCEPT ![t] = page]

-----------------------------------------------------------------------------
(* RoleLogic's calls.                                                      *)

\* Mutant of Register: ON CONFLICT also stores the default rule.
RegisterAgain ==
    /\ registers < MaxRegisters
    /\ registers' = registers + 1
    /\ exists' = TRUE /\ version' = 1 /\ rule' = 0 /\ account' = NoAccount
    /\ misled' = IF exists THEN misled ELSE {t \in Tab : tab[t].at # "closed"}
    /\ UNCHANGED <<connected, tab, saves, raced>>

\* register.  On an existing row only the token changes.
Register ==
    /\ ~exists /\ registers < MaxRegisters
    /\ registers' = registers + 1
    /\ exists' = TRUE /\ version' = 1 /\ rule' = 0 /\ account' = NoAccount
    /\ misled' = {t \in Tab : tab[t].at # "closed"}
    /\ UNCHANGED <<connected, tab, saves, raced>>

\* delete_config, or a sync that finds the link gone.
Delete ==
    /\ exists /\ exists' = FALSE
    /\ UNCHANGED <<version, rule, account, connected, tab, saves, registers, history>>

-----------------------------------------------------------------------------
(* The accounts of the guild.                                              *)

Connect(d) ==
    /\ d \notin connected /\ connected' = connected \cup {d}
    /\ UNCHANGED <<row, tab, saves, registers, history>>

\* Mutant of Disconnect: the role links keep the account.
DisconnectKeepingLinks(d) ==
    /\ d \in connected /\ connected' = connected \ {d}
    /\ raced' = IF \E t \in Tab : tab[t].at = "checked" /\ tab[t].picked = d
                THEN raced \cup {d} ELSE raced
    /\ UNCHANGED <<row, tab, saves, registers, misled>>

\* broadcaster_disconnect, one transaction; the version stays as it is.
Disconnect(d) ==
    /\ d \in connected /\ connected' = connected \ {d}
    /\ account' = IF account = d THEN NoAccount ELSE account
    /\ raced' = IF \E t \in Tab : tab[t].at = "checked" /\ tab[t].picked = d
                THEN raced \cup {d} ELSE raced
    /\ UNCHANGED <<exists, version, rule, tab, saves, registers, misled>>

-----------------------------------------------------------------------------
(* The tabs.                                                               *)

\* role_config_data: the page is opened, reloaded, or refreshed while clean.
Load(t) ==
    /\ exists /\ tab[t].at \in {"closed", "open"}
    /\ Shows(t, [Closed EXCEPT !.at = "open", !.version = version, !.seen = rule])
    /\ misled' = misled \ {t}
    /\ UNCHANGED <<row, connected, saves, registers, raced>>

\* role_config_save: the account named in the body must be connected; a rule
\* for any linked viewer needs none.
SaveCheck(t, d) ==
    /\ tab[t].at = "open"
    /\ d \in connected \cup {NoAccount}
    /\ Shows(t, [tab[t] EXCEPT !.at = "checked", !.picked = d])
    /\ UNCHANGED <<row, connected, saves, registers, history>>

\* Mutants of SaveUpdate: the version counts down; no AND rule_tree_version = $5.
SaveUpdateCountingDown(t) ==
    /\ tab[t].at = "checked" /\ saves < MaxSaves
    /\ exists /\ version = tab[t].version
    /\ saves' = saves + 1
    /\ version' = version - 1 /\ rule' = saves + 1 /\ account' = tab[t].picked
    /\ Shows(t, [tab[t] EXCEPT !.at = "updated", !.wrote = saves + 1])
    /\ UNCHANGED <<exists, connected, registers, history>>

SaveUpdateUnguarded(t) ==
    /\ tab[t].at = "checked" /\ saves < MaxSaves
    /\ exists
    /\ saves' = saves + 1
    /\ version' = version + 1 /\ rule' = saves + 1 /\ account' = tab[t].picked
    /\ Shows(t, [tab[t] EXCEPT !.at = "updated", !.wrote = saves + 1])
    /\ UNCHANGED <<exists, connected, registers, history>>

\* UPDATE ... WHERE rule_tree_version = $5.
SaveUpdate(t) ==
    /\ tab[t].at = "checked" /\ saves < MaxSaves
    /\ exists /\ version = tab[t].version
    /\ saves' = saves + 1
    /\ version' = version + 1 /\ rule' = saves + 1 /\ account' = tab[t].picked
    /\ Shows(t, [tab[t] EXCEPT !.at = "updated", !.wrote = saves + 1])
    /\ UNCHANGED <<exists, connected, registers, history>>

\* No row matched: NotFound or StaleVersion.  The page keeps what it shows.
SaveRefused(t) ==
    /\ tab[t].at = "checked"
    /\ ~exists \/ version # tab[t].version
    /\ Shows(t, [tab[t] EXCEPT !.at = "open"])
    /\ UNCHANGED <<row, connected, saves, registers, history>>

\* SELECT rule_tree_version: whatever it is by now, the page takes it for the
\* version of the rule it has saved.
SaveReply(t) ==
    /\ tab[t].at = "updated" /\ exists
    /\ Shows(t, [tab[t] EXCEPT !.at = "open", !.version = version, !.seen = tab[t].wrote])
    /\ misled' = IF rule = tab[t].wrote THEN misled \ {t} ELSE misled \cup {t}
    /\ UNCHANGED <<row, connected, saves, registers, raced>>

\* The row is gone, a statement fails, or the reply is lost.
SaveFails(t) ==
    /\ tab[t].at \in {"checked", "updated"}
    /\ Shows(t, [tab[t] EXCEPT !.at = "open"])
    /\ UNCHANGED <<row, connected, saves, registers, history>>

Next ==
    \/ Register \/ Delete
    \/ \E d \in Account : Connect(d) \/ Disconnect(d)
    \/ \E t \in Tab :
        \/ Load(t) \/ SaveUpdate(t) \/ SaveRefused(t) \/ SaveReply(t) \/ SaveFails(t)
        \/ \E d \in Choice : SaveCheck(t, d)

Spec == Init /\ [][Next]_vars

-----------------------------------------------------------------------------
(* Properties.                                                             *)

Page == [at : {"closed", "open", "checked", "updated"}, version : Nat, seen : Nat,
         picked : Choice, wrote : Nat]

TypeOK ==
    /\ exists \in BOOLEAN /\ version \in Nat /\ rule \in 0..saves /\ account \in Choice
    /\ connected \in SUBSET Account
    /\ tab \in [Tab -> Page]
    /\ saves \in 0..MaxSaves /\ registers \in 0..MaxRegisters
    /\ misled \in SUBSET Tab /\ raced \in SUBSET Account

Overwrites(t) == tab[t].at = "checked" /\ tab'[t].at = "updated"

\* "two tabs editing the same role link cannot silently clobber each other"
\* (migrations/001_initial_schema.sql:11-12).  A save does replace the rule the
\* admin was shown, whatever the interleaving of loads, saves, lost replies and
\* disconnects, but for a tab whose last reply carried another tab's version
\* (routes/admin.rs:763) or whose row was deleted and registered again.
NoClobberUnlessMisled ==
    [][\A t \in Tab \ misled : Overwrites(t) => rule = tab[t].seen]_vars

\* Its inductive core, and more: as long as a tab is not misled, its version
\* is current exactly when the rule it shows is, so that no save is refused as
\* stale unless the rule was changed; and the version after it names the rule
\* it has just stored.
VersionsTell ==
    \A t \in Tab \ misled : tab[t].at # "closed" =>
        /\ tab[t].version <= version
        /\ tab[t].seen <= saves
        /\ tab[t].version = version <=> rule = tab[t].seen
        /\ tab[t].at = "updated" => /\ tab[t].version < version
                                    /\ tab[t].wrote <= saves
                                    /\ version = tab[t].version + 1 => rule = tab[t].wrote

\* A link is bound to an account of its guild ("Selected Bluesky account isn't
\* connected to this server", routes/admin.rs:712), unless the account was
\* disconnected between the check of a save and its UPDATE.
BoundUnlessRaced ==
    /\ exists /\ account # NoAccount => account \in connected \cup raced
    /\ \A t \in Tab :
        tab[t].at = "checked" /\ tab[t].picked # NoAccount => tab[t].picked \in connected \cup raced
=============================================================================
