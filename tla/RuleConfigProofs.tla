-------------------------- MODULE RuleConfigProofs --------------------------
(***************************************************************************)
(* Theorems about RuleConfig, for every number of tabs, accounts and saves.*)
(***************************************************************************)
EXTENDS RuleConfig, TLAPS

\* The row, the pages and the counters keep their types.
THEOREM TypeCorrect == Spec => []TypeOK
<1> USE DEF TypeOK, Choice
<1>0. Closed \in Page
  BY DEF Closed, Page
<1>1. Init => TypeOK
  <2> SUFFICES ASSUME Init PROVE TypeOK
    OBVIOUS
  <2>1. 0 \in 0..MaxSaves /\ 0 \in 0..MaxRegisters /\ 0 \in 0..0 /\ 0 \in Nat
    BY BoundAssumption
  <2>2. tab \in [Tab -> Page]
    BY <1>0 DEF Init
  <2> QED BY <2>1, <2>2 DEF Init
<1>2. TypeOK /\ [Next]_vars => TypeOK'
  <2> SUFFICES ASSUME TypeOK, [Next]_vars PROVE TypeOK'
    OBVIOUS
  <2> USE DEF row, history
  <2>a. ASSUME NEW t \in Tab, NEW page \in Page, Shows(t, page) PROVE tab' \in [Tab -> Page]
    BY <2>a DEF Shows
  <2>1. CASE Register
    <3>1. registers' \in 0..MaxRegisters
      BY <2>1, BoundAssumption DEF Register
    <3> QED BY <2>1, <3>1 DEF Register
  <2>2. CASE Delete
    BY <2>2 DEF Delete
  <2>3. ASSUME NEW d \in Account, Connect(d) \/ Disconnect(d) PROVE TypeOK'
    BY <2>3 DEF Connect, Disconnect
  <2>4. ASSUME NEW t \in Tab, Load(t) PROVE TypeOK'
    <3>1. [Closed EXCEPT !.at = "open", !.version = version, !.seen = rule] \in Page
      <4>1. rule \in Nat
        BY BoundAssumption
      <4> QED BY <1>0, <4>1 DEF Page
    <3>2. tab' \in [Tab -> Page]
      BY <2>4, <2>a, <3>1 DEF Load
    <3> QED BY <2>4, <3>2 DEF Load
  <2>5. ASSUME NEW t \in Tab, NEW d \in Choice, SaveCheck(t, d) PROVE TypeOK'
    <3>1. [tab[t] EXCEPT !.at = "checked", !.picked = d] \in Page
      BY DEF Page
    <3> QED BY <2>5, <2>a, <3>1 DEF SaveCheck
  <2>6. ASSUME NEW t \in Tab, SaveUpdate(t) PROVE TypeOK'
    <3>1. saves' \in 0..MaxSaves /\ rule' \in 0..saves' /\ version' \in Nat
      BY <2>6, BoundAssumption DEF SaveUpdate
    <3>2. [tab[t] EXCEPT !.at = "updated", !.wrote = saves + 1] \in Page /\ tab[t].picked \in Choice
      <4>1. tab[t] \in Page /\ saves + 1 \in Nat
        BY BoundAssumption
      <4> QED BY <4>1 DEF Page
    <3>3. tab' \in [Tab -> Page]
      BY <2>6, <2>a, <3>2 DEF SaveUpdate
    <3>4. UNCHANGED <<exists, connected, registers, misled, raced>> /\ account' \in Choice
      BY <2>6, <3>2 DEF SaveUpdate
    <3> QED BY <3>1, <3>3, <3>4
  <2>7. ASSUME NEW t \in Tab, SaveRefused(t) \/ SaveFails(t) PROVE TypeOK'
    <3>1. [tab[t] EXCEPT !.at = "open"] \in Page
      BY DEF Page
    <3> QED BY <2>7, <2>a, <3>1 DEF SaveRefused, SaveFails
  <2>8. ASSUME NEW t \in Tab, SaveReply(t) PROVE TypeOK'
    <3>1. [tab[t] EXCEPT !.at = "open", !.version = version, !.seen = tab[t].wrote] \in Page
      BY DEF Page
    <3> QED BY <2>8, <2>a, <3>1 DEF SaveReply
  <2>9. CASE UNCHANGED vars
    BY <2>9 DEF vars
  <2> QED BY <2>1, <2>2, <2>3, <2>4, <2>5, <2>6, <2>7, <2>8, <2>9 DEF Next
<1> QED BY <1>1, <1>2, PTL DEF Spec

-----------------------------------------------------------------------------
\* What a tab that is not misled may conclude from the version it holds.
THEOREM VersionsInvariant == Spec => []VersionsTell
<1>1. Init => VersionsTell
  BY DEF Init, VersionsTell, Closed
<1>2. TypeOK /\ VersionsTell /\ [Next]_vars => VersionsTell'
  <2> SUFFICES ASSUME TypeOK, VersionsTell, [Next]_vars PROVE VersionsTell'
    OBVIOUS
  <2> USE DEF row, history
  <2>0. /\ version \in Nat /\ rule \in Nat /\ saves \in Nat /\ rule <= saves
        /\ \A t \in Tab : tab[t] \in Page /\ tab[t].version \in Nat
    BY BoundAssumption DEF TypeOK, Page
  <2>1. CASE Register
    BY <2>1 DEF Register, VersionsTell
  <2>2. CASE Delete \/ UNCHANGED vars
    BY <2>2 DEF Delete, vars, VersionsTell
  <2>3. ASSUME NEW d \in Account, Connect(d) \/ Disconnect(d) PROVE VersionsTell'
    BY <2>3 DEF Connect, Disconnect, VersionsTell
  <2>4. ASSUME NEW t \in Tab, Load(t) PROVE VersionsTell'
    <3>1. tab'[t].at = "open" /\ tab'[t].version = version /\ tab'[t].seen = rule
      BY <2>4 DEF Load, Shows, TypeOK, Closed
    <3>2. \A u \in Tab \ {t} : tab'[u] = tab[u]
      BY <2>4 DEF Load, Shows, TypeOK
    <3> QED BY <2>0, <2>4, <3>1, <3>2 DEF Load, VersionsTell
  <2>5. ASSUME NEW t \in Tab, NEW at \in {"open", "checked"}, NEW d \in Choice,
               tab[t].at # "closed", Shows(t, [tab[t] EXCEPT !.at = at, !.picked = d]),
               UNCHANGED <<version, rule, saves, misled>>
        PROVE VersionsTell'
    <3>1. /\ tab'[t].at = at
          /\ tab'[t].version = tab[t].version /\ tab'[t].seen = tab[t].seen
      BY <2>5 DEF Shows, TypeOK, Page
    <3>2. \A u \in Tab \ {t} : tab'[u] = tab[u]
      BY <2>5 DEF Shows, TypeOK
    <3> QED BY <2>5, <3>1, <3>2 DEF VersionsTell
  <2>6. ASSUME NEW t \in Tab, NEW d \in Choice, SaveCheck(t, d) PROVE VersionsTell'
    BY <2>5, <2>6 DEF SaveCheck
  <2>7. ASSUME NEW t \in Tab, SaveRefused(t) \/ SaveFails(t) PROVE VersionsTell'
    <3>1. /\ tab'[t].at = "open"
          /\ tab'[t].version = tab[t].version /\ tab'[t].seen = tab[t].seen
      BY <2>7 DEF SaveRefused, SaveFails, Shows, TypeOK, Page
    <3>2. \A u \in Tab \ {t} : tab'[u] = tab[u]
      BY <2>7 DEF SaveRefused, SaveFails, Shows, TypeOK
    <3>3. tab[t].at # "closed" /\ UNCHANGED <<version, rule, saves, misled>>
      BY <2>7 DEF SaveRefused, SaveFails
    <3> QED BY <3>1, <3>2, <3>3 DEF VersionsTell
  <2>8. ASSUME NEW t \in Tab, SaveUpdate(t) PROVE VersionsTell'
    <3>1. /\ tab'[t].at = "updated" /\ tab'[t].wrote = rule'
          /\ tab'[t].version = version /\ tab'[t].seen = tab[t].seen
      BY <2>0, <2>8 DEF SaveUpdate, Shows, TypeOK, Page
    <3>2. \A u \in Tab \ {t} : tab'[u] = tab[u]
      BY <2>8 DEF SaveUpdate, Shows, TypeOK
    <3>3. version' = version + 1 /\ misled' = misled
      BY <2>8 DEF SaveUpdate
    <3>8. rule' = saves + 1 /\ saves' = saves + 1
      BY <2>8 DEF SaveUpdate
    <3>4. ASSUME NEW u \in Tab \ misled', u # t, tab'[u].at # "closed"
          PROVE /\ tab'[u].version < version'
                /\ tab'[u].seen <= saves
                /\ tab'[u].at = "updated" => /\ version' # tab'[u].version + 1
                                             /\ tab'[u].wrote <= saves
      BY <2>0, <3>2, <3>3, <3>4 DEF VersionsTell
    <3>5. \A u \in Tab : tab'[u].version \in Nat /\ tab'[u].seen \in Nat /\ tab'[u].wrote \in Nat
      BY <2>0, <3>1, <3>2, <3>8 DEF Page
    <3>9. t \notin misled' => tab[t].seen <= saves
      BY <2>8, <3>3 DEF VersionsTell, SaveUpdate
    <3> SUFFICES ASSUME NEW u \in Tab \ misled', tab'[u].at # "closed"
                 PROVE /\ tab'[u].version <= version'
                       /\ tab'[u].seen <= saves'
                       /\ tab'[u].version = version' <=> rule' = tab'[u].seen
                       /\ tab'[u].at = "updated" =>
                            /\ tab'[u].version < version'
                            /\ tab'[u].wrote <= saves'
                            /\ version' = tab'[u].version + 1 => rule' = tab'[u].wrote
      BY DEF VersionsTell
    <3>6. CASE u = t
      BY <2>0, <3>1, <3>3, <3>5, <3>6, <3>8, <3>9
    <3>7. CASE u # t
      BY <2>0, <3>3, <3>4, <3>5, <3>7, <3>8
    <3> QED BY <3>6, <3>7
  <2>9. ASSUME NEW t \in Tab, SaveReply(t) PROVE VersionsTell'
    <3>1. /\ tab'[t].at = "open" /\ tab'[t].version = version /\ tab'[t].seen = tab[t].wrote
      BY <2>9 DEF SaveReply, Shows, TypeOK, Page
    <3>2. /\ \A u \in Tab \ {t} : tab'[u] = tab[u]
          /\ \A u \in Tab \ {t} : u \in misled' <=> u \in misled
      <4>1. \A u \in Tab \ {t} : tab'[u] = tab[u]
        BY <2>9 DEF SaveReply, Shows, TypeOK
      <4>2. misled' = misled \ {t} \/ misled' = misled \cup {t}
        BY <2>9 DEF SaveReply
      <4> QED BY <4>1, <4>2
    <3>3. t \notin misled' => rule = tab[t].wrote
      BY <2>9 DEF SaveReply
    <3>4. UNCHANGED <<version, rule, saves>>
      BY <2>9 DEF SaveReply
    <3> QED BY <2>0, <3>1, <3>2, <3>3, <3>4 DEF VersionsTell
  <2> QED BY <2>1, <2>2, <2>3, <2>4, <2>6, <2>7, <2>8, <2>9 DEF Next
<1> QED BY <1>1, <1>2, TypeCorrect, PTL DEF Spec

\* A save by a tab that is not misled replaces the rule the tab shows.
THEOREM NoClobber == Spec => NoClobberUnlessMisled
<1>1. TypeOK /\ VersionsTell /\ [Next]_vars
        => [\A t \in Tab \ misled : Overwrites(t) => rule = tab[t].seen]_vars
  <2> SUFFICES ASSUME TypeOK, VersionsTell, Next, NEW t \in Tab \ misled, Overwrites(t)
               PROVE rule = tab[t].seen
    OBVIOUS
  <2>1. tab' # tab /\ tab[t].at = "checked" /\ tab'[t].at = "updated"
    BY DEF Overwrites
  <2>2. PICK u \in Tab : \/ Load(u) \/ SaveUpdate(u) \/ SaveRefused(u) \/ SaveReply(u) \/ SaveFails(u)
                         \/ \E d \in Choice : SaveCheck(u, d)
    BY <2>1 DEF Next, Register, Delete, Connect, Disconnect
  <2>3. u = t
    BY <2>1, <2>2 DEF Load, SaveUpdate, SaveRefused, SaveReply, SaveFails, SaveCheck, Shows, TypeOK
  <2>4. SaveUpdate(t)
    BY <2>1, <2>2, <2>3 DEF Load, SaveRefused, SaveReply, SaveFails, SaveCheck, Shows, TypeOK, Page,
                            Closed
  <2> QED BY <2>1, <2>4 DEF SaveUpdate, VersionsTell
<1> QED BY <1>1, TypeCorrect, VersionsInvariant, PTL DEF Spec, NoClobberUnlessMisled

-----------------------------------------------------------------------------
\* A link is bound to a connected account, but for the race with a disconnect.
THEOREM Binding == Spec => []BoundUnlessRaced
<1>1. Init => BoundUnlessRaced
  BY DEF Init, BoundUnlessRaced, Closed
<1>2. TypeOK /\ BoundUnlessRaced /\ [Next]_vars => BoundUnlessRaced'
  <2> SUFFICES ASSUME TypeOK, BoundUnlessRaced, [Next]_vars PROVE BoundUnlessRaced'
    OBVIOUS
  <2> USE DEF row, history, BoundUnlessRaced
  <2>1. CASE Register \/ Delete \/ UNCHANGED vars
    BY <2>1 DEF Register, Delete, vars
  <2>2. ASSUME NEW d \in Account, Connect(d) \/ Disconnect(d) PROVE BoundUnlessRaced'
    BY <2>2, AccountAssumption DEF Connect, Disconnect
  <2>3. ASSUME NEW t \in Tab, NEW page \in Page, Shows(t, page), page.at # "checked",
               UNCHANGED <<exists, account, connected, raced>>
        PROVE BoundUnlessRaced'
    <3>1. tab'[t] = page /\ \A u \in Tab \ {t} : tab'[u] = tab[u]
      BY <2>3 DEF Shows, TypeOK
    <3> QED BY <2>3, <3>1
  <2>4. ASSUME NEW t \in Tab, Load(t) PROVE BoundUnlessRaced'
    <3>1. Closed \in Page /\ rule \in Nat
      BY DEF Closed, Page, Choice, TypeOK
    <3>2. [Closed EXCEPT !.at = "open", !.version = version, !.seen = rule] \in Page
      BY <3>1 DEF Page, TypeOK
    <3>3. [Closed EXCEPT !.at = "open", !.version = version, !.seen = rule].at = "open"
      BY DEF Closed
    <3> QED BY <2>3, <2>4, <3>2, <3>3 DEF Load
  <2>5. ASSUME NEW t \in Tab, NEW d \in Choice, SaveCheck(t, d) PROVE BoundUnlessRaced'
    <3>1. tab'[t].picked = d /\ \A u \in Tab \ {t} : tab'[u] = tab[u]
      BY <2>5 DEF SaveCheck, Shows, TypeOK, Page
    <3> QED BY <2>5, <3>1 DEF SaveCheck
  <2>6. ASSUME NEW t \in Tab, SaveUpdate(t) PROVE BoundUnlessRaced'
    <3>1. tab'[t].at = "updated" /\ \A u \in Tab \ {t} : tab'[u] = tab[u]
      BY <2>6 DEF SaveUpdate, Shows, TypeOK, Page
    <3>2. account' = tab[t].picked /\ tab[t].at = "checked" /\ UNCHANGED <<connected, raced>>
      BY <2>6 DEF SaveUpdate
    <3> QED BY <3>1, <3>2
  <2>7. ASSUME NEW t \in Tab, SaveRefused(t) \/ SaveFails(t) \/ SaveReply(t) PROVE BoundUnlessRaced'
    <3>1. tab'[t].at = "open" /\ \A u \in Tab \ {t} : tab'[u] = tab[u]
      <4>1. PICK page : tab' = [tab EXCEPT ![t] = page] /\ page.at = "open"
        <5>1. tab[t] \in Page
          BY DEF TypeOK
        <5>2. [tab[t] EXCEPT !.at = "open"].at = "open"
          BY <5>1 DEF Page
        <5>3. [tab[t] EXCEPT !.at = "open", !.version = version, !.seen = tab[t].wrote].at = "open"
          BY <5>1 DEF Page
        <5> QED BY <2>7, <5>2, <5>3 DEF SaveRefused, SaveFails, SaveReply, Shows
      <4> QED BY <4>1 DEF TypeOK
    <3> QED BY <2>7, <3>1 DEF SaveRefused, SaveFails, SaveReply
  <2> QED BY <2>1, <2>2, <2>4, <2>5, <2>6, <2>7 DEF Next
<1> QED BY <1>1, <1>2, TypeCorrect, PTL DEF Spec
=============================================================================
