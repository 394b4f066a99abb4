---------------------------- MODULE RoleSyncCalm ----------------------------
(***************************************************************************)
(* RoleSync with one more history variable: the syncs that have had the    *)
(* system to themselves.  The actions are those of RoleSync; `calm` only   *)
(* looks on.  It says what a sync achieves when nothing comes between its  *)
(* steps, so that whatever else is seen to go wrong is the doing of an     *)
(* overlap, a failure or an answer that ends the sync.                     *)
(***************************************************************************)
EXTENDS RoleSync

VARIABLE calm  \* history: the workers in whose sync nothing has changed, but
               \* by the sync itself, of what syncs read and write

Watch ==
    calm' = {w \in Worker :
              /\ ~At(w, "idle")'
              /\ At(w, "idle") \/ (w \in calm /\ UNCHANGED <<config, facts, guild, link>>)
              /\ run'[w] = run[w] => UNCHANGED <<mirror, remote>>}

CalmInit == Init /\ calm = {}
CalmNext == Next /\ Watch

CalmSpec == CalmInit /\ [][CalmNext]_<<vars, calm>>

-----------------------------------------------------------------------------
(* Properties.                                                             *)

\* What the rule asks for: of the link, up to the limit; of one member, whom
\* the limit stops at RoleLogic.
AsRuled(o) == IF o = Link THEN remote = Target ELSE o \in remote <=> Effective \in facts[o]

\* A sync ends well: it finds nothing to do, or it writes the mirror.
Completes(w) ==
    /\ run[w].at \in {"drain", "facts", "compare", "mirror"} /\ At(w, "idle")'
    /\ UNCHANGED faults

\* A sync that completes in calm leaves RoleLogic's list as the rule asks
\* (sync_for_player, sync_for_role_link), whatever other syncs did before it
\* and whatever is still queued.  One that made no call has trusted the
\* mirror: the members about whom it lies are excepted, and no others.
SyncsAreRight ==
    [][\A w \in calm : \A o \in Op :
         /\ run[w].job = o /\ Completes(w) /\ link # "gone"
         /\ At(w, "mirror") \/ Scope(o) \cap (torn \cup Pending) = {}
         => AsRuled(o)']_<<vars, calm>>

\* Its inductive core: what a calm sync holds is what it would read now.
Wanted(o) == IF o = Link THEN Target ELSE {m \in {o} : Effective \in facts[m]}

Informed(w) ==
    /\ run[w].at \notin {"start", "links"} => row
    /\ run[w].at \in {"existing", "members", "info", "facts"} => run[w].rule = Effective
    /\ run[w].at \in {"links", "existing"} => run[w].job # Link
    /\ run[w].at \in {"members", "drain", "info", "compare"} => run[w].job = Link
    /\ run[w].at = "drain" => Effective = Unset \/ guild = {}
    /\ run[w].job = Link /\ run[w].at \in {"members", "info", "facts"} => Effective # Unset
    /\ run[w].job = Link /\ run[w].at \in {"info", "facts"} => run[w].list = guild
    /\ run[w].job # Link /\ run[w].at = "facts" => run[w].had = mirror \cap {run[w].job}
    /\ run[w].at \in {"compare", "call"} => run[w].list = Wanted(run[w].job)
    /\ At(w, "mirror") => AsRuled(run[w].job)

CalmInv ==
    /\ calm \subseteq Worker
    /\ \A w \in calm : Informed(w)
=============================================================================
