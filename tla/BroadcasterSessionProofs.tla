---------------------- MODULE BroadcasterSessionProofs ----------------------
(***************************************************************************)
(* The session of an account is kept, for any number of overlapping calls  *)
(* and connects.                                                           *)
(***************************************************************************)
EXTENDS BroadcasterSession, TLAPS

\* A minted token is nobody's.
LEMMA NewIsNew ==
    ASSUME Token \ InUse # {}
    PROVE  New \in Token /\ New \notin InUse
BY DEF New

\* Every column and every local keeps its type.
THEOREM TypeCorrect == Spec => []TypeOK
<1>1. Init => TypeOK
  <2> SUFFICES ASSUME Init PROVE TypeOK
    OBVIOUS
  <2>1. \A c \in Caller : call[c] = Idle
    BY DEF Init
  <2>2. call \in [Caller -> [at : {"idle", "asking", "got", "refused"}, token : Token \cup {NoToken}]]
    BY DEF Init, Idle
  <2>3. \A c \in Caller : call[c].token = NoToken /\ call[c].at = "idle"
    BY <2>1 DEF Idle
  <2>4. \A c \in Caller : call[c].token = NoToken <=> call[c].at \in {"idle", "refused"}
    BY <2>3
  <2>5. login \in [Admin -> Token \cup {NoToken}]
    BY DEF Init
  <2>6. faults \in 0..MaxFaults /\ revocations \in 0..MaxRevocations
    BY BoundAssumption DEF Init
  <2>7. accepted \in SUBSET Token /\ revoked \in SUBSET Token
        /\ stored \in Token \cup {NoToken} /\ fresh \in BOOLEAN /\ failed \in BOOLEAN
    BY DEF Init
  <2> QED BY <2>2, <2>4, <2>5, <2>6, <2>7 DEF TypeOK
<1>2. TypeOK /\ [Next]_vars => TypeOK'
  <2> SUFFICES ASSUME TypeOK, [Next]_vars PROVE TypeOK'
    OBVIOUS
  <2> USE TokenAssumption, BoundAssumption
  <2>0. ASSUME NEW c \in Caller, NEW spent, Mint(spent)
        PROVE  accepted' \in SUBSET Token /\ revoked' \in SUBSET Token /\ New \in Token
    BY <2>0, NewIsNew DEF Mint, TypeOK
  <2>1. ASSUME NEW c \in Caller, Step(c) PROVE TypeOK'
    <3>1. CASE ReadRow(c)
      BY <3>1 DEF ReadRow, Go, TypeOK, row, budget
    <3>2. CASE Refresh(c)
      BY <3>2, <2>0 DEF Refresh, Go, TypeOK, row, budget
    <3>3. CASE RefreshRefused(c)
      BY <3>3 DEF RefreshRefused, Go, TypeOK, row, budget
    <3>4. CASE Persist(c)
      BY <3>4 DEF Persist, Go, TypeOK, budget
    <3>5. CASE Stamp(c)
      BY <3>5 DEF Stamp, Go, TypeOK, budget
    <3> QED BY <2>1, <3>1, <3>2, <3>3, <3>4, <3>5 DEF Step
  <2>2. ASSUME NEW c \in Caller, AskFails(c) PROVE TypeOK'
    BY <2>2, <2>0 DEF AskFails, Fault, Go, TypeOK, row
  <2>3. ASSUME NEW c \in Caller, CallEnds(c) PROVE TypeOK'
    BY <2>3 DEF CallEnds, Fault, Go, TypeOK, row
  <2>4. ASSUME NEW a \in Admin, LogIn(a) PROVE TypeOK'
    BY <2>4, NewIsNew DEF LogIn, Mint, TypeOK, row, budget
  <2>5. ASSUME NEW a \in Admin, Connect(a) PROVE TypeOK'
    BY <2>5 DEF Connect, TypeOK, budget
  <2>6. ASSUME NEW a \in Admin, ConnectFails(a) PROVE TypeOK'
    BY <2>6 DEF ConnectFails, TypeOK, row, budget
  <2>7. CASE Revoke
    BY <2>7 DEF Revoke, TypeOK, row
  <2>8. CASE Expire
    BY <2>8 DEF Expire, TypeOK, budget
  <2>9. CASE UNCHANGED vars
    BY <2>9 DEF vars, row, budget, TypeOK
  <2> QED BY <2>1, <2>2, <2>3, <2>4, <2>5, <2>6, <2>7, <2>8, <2>9 DEF Next
<1> QED BY <1>1, <1>2, PTL DEF Spec

\* What is about to be stored is nobody else's: a step hands out only tokens
\* that are in nobody's hands, and whoever stores a token lets go of it.
LEMMA OwnershipStep ==
    ASSUME TypeOK, CarriedAreOwned, [Next]_vars
    PROVE  CarriedAreOwned'
<1> USE TokenAssumption
<1>1. ASSUME NEW c \in Caller, Step(c) PROVE CarriedAreOwned'
  <2>1. CASE ReadRow(c)
    BY <2>1 DEF ReadRow, Go, CarriedAreOwned, Carried, TypeOK, row
  <2>2. CASE Refresh(c)
    <3>1. New \in Token /\ New \notin InUse
      BY <2>2, NewIsNew DEF Refresh, Mint
    <3> QED BY <2>2, <3>1 DEF Refresh, Go, CarriedAreOwned, Carried, TypeOK, row, InUse
  <2>3. CASE RefreshRefused(c)
    BY <2>3 DEF RefreshRefused, Go, CarriedAreOwned, Carried, TypeOK, row
  <2>4. CASE Persist(c)
    BY <2>4 DEF Persist, Go, CarriedAreOwned, Carried, TypeOK
  <2>5. CASE Stamp(c)
    BY <2>5 DEF Stamp, Go, CarriedAreOwned, Carried, TypeOK
  <2> QED BY <1>1, <2>1, <2>2, <2>3, <2>4, <2>5 DEF Step
<1>2. ASSUME NEW c \in Caller, AskFails(c) \/ CallEnds(c) PROVE CarriedAreOwned'
  BY <1>2 DEF AskFails, CallEnds, Go, CarriedAreOwned, Carried, TypeOK, row
<1>3. ASSUME NEW a \in Admin, LogIn(a) PROVE CarriedAreOwned'
  <2>1. New \in Token /\ New \notin InUse
    BY <1>3, NewIsNew DEF LogIn, Mint
  <2> QED BY <1>3, <2>1 DEF LogIn, CarriedAreOwned, Carried, TypeOK, row, InUse
<1>4. ASSUME NEW a \in Admin, Connect(a) PROVE CarriedAreOwned'
  BY <1>4 DEF Connect, CarriedAreOwned, Carried, TypeOK
<1>5. ASSUME NEW a \in Admin, ConnectFails(a) PROVE CarriedAreOwned'
  BY <1>5 DEF ConnectFails, CarriedAreOwned, Carried, TypeOK, row
<1>6. CASE Revoke \/ Expire \/ UNCHANGED vars
  BY <1>6 DEF Revoke, Expire, vars, row, CarriedAreOwned, Carried
<1> QED BY <1>1, <1>2, <1>3, <1>4, <1>5, <1>6 DEF Next

\* A refresh spends one token, and by the above no other call and no connect
\* is about to store that one.
LEMMA UnspentStep ==
    ASSUME TypeOK, SessionInv, [Next]_vars
    PROVE  (SessionKept /\ CarriedAreUnspent)'
<1> USE TokenAssumption DEF SessionInv
<1>0. CASE faults' # 0
  BY <1>0 DEF SessionKept, CarriedAreUnspent
<1>1. ASSUME NEW c \in Caller, Step(c) PROVE (SessionKept /\ CarriedAreUnspent)'
  <2>1. CASE ReadRow(c)
    BY <2>1 DEF ReadRow, Go, SessionKept, CarriedAreUnspent, Carried, Unspent, TypeOK, row, budget
  <2>2. CASE Refresh(c)
    <3>1. New \in Token /\ New \notin InUse
      BY <2>2, NewIsNew DEF Refresh, Mint
    <3>2. Unspent' = (Unspent \ {call[c].token}) \cup {New} \/ Unspent' = Unspent \cup {New}
      BY <2>2 DEF Refresh, Mint, Unspent
    <3>3. New \in Unspent' /\ c \in Carried' /\ faults' = faults /\ UNCHANGED <<stored, login>>
      BY <2>2 DEF Refresh, Mint, Go, Carried, Unspent, TypeOK, row, budget
    <3>4. \A d \in Carried' : d # c => d \in Carried /\ call'[d] = call[d]
      BY <2>2 DEF Refresh, Go, Carried, TypeOK
    <3>5. call'[c].token = New
      BY <2>2 DEF Refresh, Go, TypeOK
    <3>6. \A d \in Carried : call[d].token # call[c].token \/ d = c
      BY DEF CarriedAreOwned
    <3>7. c \notin Carried
      BY <2>2 DEF Refresh, Carried
    <3>8. (faults = 0 => \A d \in Carried : call[d].token \in Unspent)'
      BY <3>2, <3>3, <3>4, <3>5, <3>6, <3>7 DEF CarriedAreUnspent
    <3>9. (faults = 0 => \A a \in Admin : login[a] # NoToken => login[a] \in Unspent)'
      BY <3>2, <3>3 DEF CarriedAreUnspent, CarriedAreOwned
    <3> QED BY <3>3, <3>8, <3>9 DEF SessionKept, CarriedAreUnspent
  <2>3. CASE RefreshRefused(c)
    BY <2>3 DEF RefreshRefused, Go, SessionKept, CarriedAreUnspent, Carried, Unspent, TypeOK, row, budget
  <2>4. CASE Persist(c)
    BY <2>4 DEF Persist, Go, SessionKept, CarriedAreUnspent, Carried, Unspent, TypeOK, budget
  <2>5. CASE Stamp(c)
    BY <2>5 DEF Stamp, Go, SessionKept, CarriedAreUnspent, Carried, Unspent, TypeOK, budget
  <2> QED BY <1>1, <2>1, <2>2, <2>3, <2>4, <2>5 DEF Step
<1>2. ASSUME NEW c \in Caller, AskFails(c) \/ CallEnds(c) PROVE faults' # 0
  BY <1>2 DEF AskFails, CallEnds, Fault, TypeOK
<1>3. ASSUME NEW a \in Admin, LogIn(a) PROVE (SessionKept /\ CarriedAreUnspent)'
  <2>1. New \in Token /\ New \notin InUse
    BY <1>3, NewIsNew DEF LogIn, Mint
  <2>2. Unspent' = Unspent \cup {New}
    BY <1>3 DEF LogIn, Mint, Unspent
  <2> QED BY <1>3, <2>1, <2>2 DEF LogIn, SessionKept, CarriedAreUnspent, Carried, TypeOK, row, budget
<1>4. ASSUME NEW a \in Admin, Connect(a) PROVE (SessionKept /\ CarriedAreUnspent)'
  BY <1>4 DEF Connect, SessionKept, CarriedAreUnspent, Carried, Unspent, TypeOK, budget
<1>5. ASSUME NEW a \in Admin, ConnectFails(a) PROVE (SessionKept /\ CarriedAreUnspent)'
  BY <1>5 DEF ConnectFails, SessionKept, CarriedAreUnspent, Carried, Unspent, TypeOK, row, budget
<1>6. CASE Revoke
  BY <1>6 DEF Revoke, SessionKept, CarriedAreUnspent, Carried, Unspent, row
<1>7. CASE Expire \/ UNCHANGED vars
  BY <1>7 DEF Expire, vars, row, budget, SessionKept, CarriedAreUnspent, Carried, Unspent
<1> QED BY <1>0, <1>1, <1>2, <1>3, <1>4, <1>5, <1>6, <1>7 DEF Next

\* The plugin never spends the refresh token of a row without having its
\* successor, as long as no call, statement or process fails.
THEOREM SessionIsKept == Spec => []SessionInv
<1>1. Init => SessionInv
  BY DEF Init, Idle, SessionInv, SessionKept, CarriedAreUnspent, CarriedAreOwned, Carried
<1>2. TypeOK /\ SessionInv /\ [Next]_vars => SessionInv'
  BY OwnershipStep, UnspentStep DEF SessionInv
<1> QED BY <1>1, <1>2, TypeCorrect, PTL DEF Spec
=============================================================================
