-------------------------- MODULE LinkUploadProofs --------------------------
(***************************************************************************)
(* What a role link may rely on, for any number of syncs, tokens, lists    *)
(* and failures: whole lists, and a row that follows the link.             *)
(***************************************************************************)
EXTENDS LinkUpload, TLAPS

LEMMA IdleTyped == Idle \in Local /\ Idle.at = "idle"
BY ListAssumption, BoundAssumption DEF Idle, Local, Place

LEMMA ClosedTyped == Closed \in Session /\ Closed.by = NoOne
BY DEF Closed, Session

LEMMA ChunksTyped ==
    ASSUME NEW l \in List, NEW n \in Nat
    PROVE  Chunks(l, n) \in SUBSET (List \X Nat)
BY DEF Chunks

\* The chunk after the n-th.
LEMMA NextChunk ==
    ASSUME NEW l, NEW n \in Nat \ {0}
    PROVE  Chunks(l, n - 1) \cup {<<l, n>>} = Chunks(l, n)
BY DEF Chunks

\* Counting up within a range stays within it.
LEMMA CountUp ==
    ASSUME NEW m \in Nat, NEW n \in 1..m, n # m
    PROVE  n + 1 \in 1..m
OBVIOUS

LEMMA FirstOfMany ==
    ASSUME NEW m \in Nat, m > 1
    PROVE  1 \in 1..m
OBVIOUS

\* A session that is taken a chunk of remains one.
LEMMA TakeTyped ==
    ASSUME TypeOK, NEW s \in Syncer, Take(s)
    PROVE  session' \in Session /\ session'.by = session.by
<1>1. session \in Session /\ sync[s].list \in List /\ sync[s].chunk \in Nat
  BY DEF TypeOK, Local
<1>2. <<sync[s].list, sync[s].chunk>> \in List \X Nat
  BY <1>1
<1> QED BY <1>1, <1>2 DEF Take, Session

LEMMA OpenTyped ==
    ASSUME NEW s \in Syncer
    PROVE  [by |-> s, parts |-> {}] \in Session /\ [by |-> s, parts |-> {}] # Closed
BY SyncerAssumption DEF Session, Closed

\* What a sync becomes keeps its type.
LEMMA LocalTyped ==
    ASSUME TypeOK, NEW s \in Syncer
    PROVE  /\ \A place \in Place : [sync[s] EXCEPT !.at = place] \in Local
           /\ [sync[s] EXCEPT !.chunk = @ + 1] \in Local
           /\ [sync[s] EXCEPT !.at = "chunk", !.chunk = 1] \in Local
           /\ \A l \in List : [sync[s] EXCEPT !.at = "send", !.list = l] \in Local
           /\ [Idle EXCEPT !.at = "info", !.token = row] \in Local
           /\ [Idle EXCEPT !.at = "send", !.token = row] \in Local
<1>1. sync[s] \in Local /\ row \in 0..MaxTokens
  BY DEF TypeOK
<1>2. \A place \in Place : [sync[s] EXCEPT !.at = place] \in Local
  BY <1>1 DEF Local
<1>3. [sync[s] EXCEPT !.chunk = @ + 1] \in Local
  BY <1>1 DEF Local
<1>4. [sync[s] EXCEPT !.at = "chunk", !.chunk = 1] \in Local
  BY <1>1 DEF Local, Place
<1>5. \A l \in List : [sync[s] EXCEPT !.at = "send", !.list = l] \in Local
  BY <1>1 DEF Local, Place
<1>6. [Idle EXCEPT !.at = "info", !.token = row] \in Local
  BY <1>1, ListAssumption DEF Local, Place, Idle
<1>7. [Idle EXCEPT !.at = "send", !.token = row] \in Local
  BY <1>1, ListAssumption DEF Local, Place, Idle
<1> QED BY <1>2, <1>3, <1>4, <1>5, <1>6, <1>7

\* Every table, call and local keeps its type.
THEOREM TypeCorrect == Spec => []TypeOK
<1> USE ListAssumption, SyncerAssumption, BoundAssumption
<1>0. 0 \in 0..MaxTokens
  OBVIOUS
<1>1. Init => TypeOK
  <2> SUFFICES ASSUME Init PROVE TypeOK
    OBVIOUS
  <2>1. sync \in [Syncer -> Local] /\ \A s \in Syncer : sync[s].at = "idle"
    BY IdleTyped DEF Init
  <2>3. 0 \in 0..MaxTokens /\ 0 \in 0..(2 * MaxTokens) /\ 0 \in 0..MaxFaults
    OBVIOUS
  <2> QED BY <2>1, <2>3, ClosedTyped DEF Init, TypeOK, At
<1>2. TypeOK /\ [Next]_vars => TypeOK'
  <2> SUFFICES ASSUME TypeOK, [Next]_vars PROVE TypeOK'
    OBVIOUS
  <2> DEFINE SyncOK == /\ sync \in [Syncer -> Local]
                       /\ \A s \in Syncer : At(s, "chunk") => sync[s].chunk \in 1..Size[sync[s].list]
             BookOK == /\ session \in Session
                       /\ session.by = NoOne => session = Closed
                       /\ left \in BOOLEAN
             FarOK  == token \in 0..MaxTokens /\ issued \in 0..MaxTokens /\ active \in BOOLEAN
             HereOK == /\ row \in 0..MaxTokens /\ astray \in BOOLEAN
                       /\ wire \subseteq Call /\ heard \in 0..(2 * MaxTokens)
  <2>0. TypeOK <=> SyncOK /\ BookOK /\ FarOK /\ HereOK /\ faults \in 0..MaxFaults
    BY DEF TypeOK
  <2>a. ASSUME NEW s \in Syncer, NEW l \in Local, l.at = "chunk" => l.chunk \in 1..Size[l.list],
               Become(s, l)
        PROVE  SyncOK'
    BY <2>0, <2>a DEF Become, At
  <2>d. (SyncOK /\ BookOK /\ FarOK /\ HereOK /\ faults \in 0..MaxFaults)' => TypeOK'
    BY DEF TypeOK
  <2>b. sync' = sync => SyncOK'
    BY <2>0 DEF At
  <2>c. UNCHANGED <<session, left>> => BookOK'
    BY <2>0
  <2>1. CASE Issue
    <3>1. [op |-> "register", token |-> issued + 1] \in Call /\ issued + 1 \in 0..MaxTokens
      BY <2>1, <2>0 DEF Issue, Call
    <3>2. FarOK'
      BY <2>1, <2>0, <3>1 DEF Issue
    <3>3. HereOK'
      BY <2>1, <2>0, <3>1 DEF Issue
    <3> QED BY <2>1, <2>0, <2>d, <2>b, <2>c, <3>2, <3>3 DEF Issue, book
  <2>2. CASE Remove
    <3>1. [op |-> "delete", token |-> token] \in Call
      BY <2>2, <2>0 DEF Remove, Call
    <3>2. HereOK'
      BY <2>2, <2>0, <3>1 DEF Remove
    <3>3. FarOK'
      BY <2>2, <2>0 DEF Remove
    <3>4. BookOK'
      BY <2>2, ClosedTyped DEF Remove
    <3> QED BY <2>2, <2>0, <2>d, <2>b, <3>2, <3>3, <3>4 DEF Remove
  <2>3. CASE Pause \/ SessionExpires \/ CarriedOutLate
    <3>1. FarOK'
      BY <2>3, <2>0 DEF Pause, SessionExpires, CarriedOutLate, far
    <3>2. BookOK'
      BY <2>3, <2>0, ClosedTyped DEF Pause, SessionExpires, CarriedOutLate, book
    <3> QED BY <2>3, <2>0, <2>d, <2>b, <3>1, <3>2 DEF Pause, SessionExpires, CarriedOutLate, here
  <2>4. ASSUME NEW c \in wire, register(c) \/ delete_config(c) \/ Lose(c) PROVE TypeOK'
    <3>1. c.token \in 1..MaxTokens /\ c.op \in {"register", "delete"}
      BY <2>0 DEF Call
    <3>2. Rank(c) \in 0..(2 * MaxTokens)
      BY <3>1 DEF Rank
    <3>3. wire' \subseteq Call /\ heard' \in 0..(2 * MaxTokens)
      BY <2>4, <2>0, <3>2 DEF register, delete_config, Lose, Heard
    <3>4. row' \in 0..MaxTokens
      BY <2>4, <2>0, <3>1 DEF register, delete_config, Lose
    <3>6. astray' \in BOOLEAN
      BY <2>4, <2>0, Zenon DEF register, delete_config, Lose
    <3>5. faults' \in 0..MaxFaults
      BY <2>4, <2>0 DEF register, delete_config, Lose, Fault
    <3> QED BY <2>4, <2>0, <2>d, <2>b, <2>c, <3>3, <3>4, <3>5, <3>6 DEF register, delete_config, Lose, far, book
  <2>6. ASSUME NEW s \in Syncer, Step(s) PROVE TypeOK'
    <3> USE LocalTyped, IdleTyped
    <3>0. /\ sync[s] \in Local
          /\ \A place \in Place \ {"chunk"} : Goto(s, place) => SyncOK'
          /\ Done(s) => SyncOK'
      <4>1. sync[s] \in Local
        BY <2>0
      <4>2. \A place \in Place : [sync[s] EXCEPT !.at = place].at = place
        BY <4>1 DEF Local
      <4>3. Done(s) => SyncOK'
        BY <2>a DEF Done
      <4> QED BY <4>1, <4>2, <4>3, <2>a DEF Goto
    <3>1. CASE Read(s)
      <4>1. /\ [Idle EXCEPT !.at = "info", !.token = row].at = "info"
            /\ [Idle EXCEPT !.at = "send", !.token = row].at = "send"
        BY DEF Idle
      <4>2. SyncOK'
        BY <2>a, <3>1, <4>1 DEF Read
      <4> QED BY <3>1, <4>2, <2>0, <2>d, <2>c DEF Read, far, book, here
    <3>2. CASE GetUserInfo(s)
      <4>1. SyncOK'
        <5>1. \A l \in List : [sync[s] EXCEPT !.at = "send", !.list = l].at = "send"
          BY <3>0 DEF Local
        <5> QED BY <2>a, <3>0, <3>2, <5>1 DEF GetUserInfo, Place
      <4> QED BY <3>2, <4>1, <2>0, <2>d, <2>c DEF GetUserInfo, far, book, here
    <3>3. CASE Put(s) \/ SendRefused(s) \/ ChunkRefused(s) \/ Finish(s)
      <4>1. SyncOK'
        BY <3>0, <3>3 DEF Put, SendRefused, ChunkRefused, Finish, Place
      <4> QED BY <3>3, <4>1, <2>0, <2>d, <2>c DEF Put, SendRefused, ChunkRefused, Finish, far, book, here
    <3>4. CASE Start(s)
      <4>1. sync[s].list \in List /\ Size[sync[s].list] \in Nat
        BY <3>0 DEF Local
      <4>2. SyncOK'
        <5> DEFINE l == [sync[s] EXCEPT !.at = "chunk", !.chunk = 1]
        <5>1. l \in Local /\ l.chunk = 1 /\ l.list = sync[s].list
          BY <3>0, LocalTyped DEF Local
        <5>2. 1 \in 1..Size[sync[s].list]
          <6>1. Size[sync[s].list] > 1
            BY <3>4 DEF Start, Long
          <6> QED BY <4>1, <6>1, FirstOfMany
        <5>3. Become(s, l)
          BY <3>4 DEF Start
        <5> HIDE DEF l
        <5> QED BY <2>a, <5>1, <5>2, <5>3
      <4>3. BookOK'
        BY <3>4, <2>0, OpenTyped, SyncerAssumption DEF Start
      <4> QED BY <3>4, <4>2, <4>3, <2>0, <2>d DEF Start, far, here
    <3>5. CASE UploadChunk(s)
      <4>1. sync[s].list \in List /\ Size[sync[s].list] \in Nat /\ sync[s].chunk \in 1..Size[sync[s].list]
        BY <3>0, <3>5, <2>0 DEF Local, UploadChunk
      <4>2. SyncOK'
        <5>1. CASE sync[s].chunk = Size[sync[s].list]
          BY <3>0, <3>5, <5>1 DEF UploadChunk, Place
        <5>2. CASE sync[s].chunk # Size[sync[s].list]
          <6>1. sync[s].chunk + 1 \in 1..Size[sync[s].list]
            BY <4>1, <5>2, CountUp
          <6> DEFINE l == [sync[s] EXCEPT !.chunk = @ + 1]
          <6>2. l \in Local /\ l.chunk = sync[s].chunk + 1 /\ l.list = sync[s].list
            BY <3>0, LocalTyped DEF Local
          <6>3. Become(s, l)
            BY <3>5, <5>2 DEF UploadChunk
          <6> HIDE DEF l
          <6> QED BY <2>a, <6>1, <6>2, <6>3
        <5> QED BY <5>1, <5>2
      <4>3. BookOK'
        BY <3>5, <2>0, TakeTyped DEF UploadChunk, Mine
      <4> QED BY <3>5, <4>2, <4>3, <2>0, <2>d DEF UploadChunk, far, here
    <3>6. CASE Cancel(s) \/ Commit(s) \/ CommitRefused(s)
      <4>1. SyncOK'
        BY <3>0, <3>6 DEF Cancel, Commit, CommitRefused, Place
      <4>2. BookOK'
        <5>1. left' \in BOOLEAN
          <6>1. CASE Cancel(s)
            BY <6>1, <2>0, Zenon DEF Cancel
          <6>2. CASE CommitRefused(s)
            BY <6>2, <2>0, Zenon DEF CommitRefused
          <6>3. CASE Commit(s)
            BY <6>3, <2>0 DEF Commit
          <6> QED BY <3>6, <6>1, <6>2, <6>3
        <5>2. session' = Closed \/ session' = session
          <6>1. Cancel(s) => session' = Closed \/ session' = session
            BY DEF Cancel
          <6>2. Commit(s) => session' = Closed
            BY DEF Commit
          <6>3. CommitRefused(s) => session' = session
            BY DEF CommitRefused
          <6> QED BY <3>6, <6>1, <6>2, <6>3
        <5> QED BY <5>1, <5>2, <2>0, ClosedTyped
      <4> QED BY <3>6, <4>1, <4>2, <2>0, <2>d DEF Cancel, Commit, CommitRefused, far, here
    <3>7. CASE DeleteOrphan(s)
      <4>1. astray' \in BOOLEAN
        BY <3>7, <2>0, Zenon DEF DeleteOrphan
      <4>2. HereOK'
        <5>1. row' = 0 /\ wire' = wire /\ heard' = heard
          BY <3>7 DEF DeleteOrphan
        <5> QED BY <4>1, <5>1, <1>0, <2>0
      <4>3. FarOK' /\ faults' = faults /\ SyncOK' /\ BookOK'
        BY <3>0, <3>7, <2>0, <2>c DEF DeleteOrphan, far, book
      <4> QED BY <4>2, <4>3, <2>0, <2>d
    <3> QED BY <2>6, <3>1, <3>2, <3>3, <3>4, <3>5, <3>6, <3>7 DEF Step
  <2>7. ASSUME NEW s \in Syncer, ChunkFails(s) PROVE TypeOK'
    <3>1. [sync[s] EXCEPT !.at = "cancel"] \in Local
      BY LocalTyped DEF Place
    <3>2. SyncOK'
      BY <2>7, <3>1, <2>a, <2>0 DEF ChunkFails, Goto, Local
    <3>3. sync[s] \in Local
      BY <2>0
    <3>4. BookOK'
      BY <2>7, <2>0, TakeTyped DEF ChunkFails, Mine
    <3> QED BY <2>7, <3>2, <3>4, <2>0, <2>d DEF ChunkFails, Fault, far, here
  <2>8. ASSUME NEW s \in Syncer, SyncEnds(s) PROVE TypeOK'
    <3>2. SyncOK'
      BY <2>8, IdleTyped, <2>a DEF SyncEnds, Done
    <3>4. BookOK'
      <4>1. left' \in BOOLEAN
        BY <2>8, <2>0, Zenon DEF SyncEnds, Received
      <4> QED BY <2>8, <4>1, <2>0, ClosedTyped, OpenTyped, SyncerAssumption DEF SyncEnds, Received
    <3> QED BY <2>8, <3>2, <3>4, <2>0, <2>d DEF SyncEnds, Fault, far, here
  <2>9. CASE UNCHANGED vars
    BY <2>9 DEF vars, far, book, here, TypeOK, At
  <2> QED BY <2>1, <2>2, <2>3, <2>4, <2>6, <2>7, <2>8, <2>9 DEF Next
<1> QED BY <1>1, <1>2, PTL DEF Spec
-----------------------------------------------------------------------------
(* The row and the link.                                                   *)

\* A sync's token stays where RowInv puts it while the link does.
LEMMA SyncsKept ==
    ASSUME TypeOK, RowInv, far' = far, NEW s \in Syncer, Step(s) \/ ChunkFails(s) \/ SyncEnds(s)
    PROVE  \A r \in Syncer : ~At(r, "idle")' =>
             sync'[r].token \in 1..issued /\ (At(r, "orphan")' => sync'[r].token # token)
<1>1. \A r \in Syncer : sync[r] \in Local
  BY DEF TypeOK
<1>2. row \in 0..issued /\ issued \in Nat
  BY BoundAssumption DEF TypeOK, RowInv
<1> DEFINE Good(l) == l.at # "idle" => l.token \in 1..issued /\ (l.at = "orphan" => l.token # token)
<1>3. \A r \in Syncer : Good(sync[r])
  BY DEF RowInv, At, Gone
<1>4. \E l : Good(l) /\ Become(s, l)
  <2>1. CASE Read(s)
    <3>1. row \in 1..issued
      BY <2>1, <1>2 DEF Read
    <3> QED BY <2>1, <3>1 DEF Read, Idle
  <2>2. CASE GetUserInfo(s)
    BY <2>2, <1>1, <1>3 DEF GetUserInfo, Goto, Done, Gone, At, Idle, Local
  <2>3. CASE SendRefused(s)
    BY <2>3, <1>1, <1>3 DEF SendRefused, Goto, Done, Gone, At, Idle, Local
  <2>4. CASE Put(s) \/ Start(s) \/ UploadChunk(s) \/ ChunkRefused(s) \/ Commit(s) \/ ChunkFails(s)
    BY <2>4, <1>1, <1>3 DEF Put, Start, UploadChunk, ChunkRefused, Commit, ChunkFails, Goto, At, Local
  <2>5. CASE Cancel(s) \/ CommitRefused(s) \/ DeleteOrphan(s) \/ Finish(s) \/ SyncEnds(s)
    BY <2>5 DEF Cancel, CommitRefused, DeleteOrphan, Finish, SyncEnds, Done, Idle
  <2> QED BY <2>1, <2>2, <2>3, <2>4, <2>5 DEF Step
<1> HIDE DEF Good
<1>5. \A r \in Syncer : Good(sync'[r])
  BY <1>3, <1>4 DEF Become, TypeOK
<1> QED BY <1>5 DEF Good, At

\* Once RoleLogic's calls have all been heard, none lost and no register
\* overtaken, the row has the token of the link; with the invariant behind it.
THEOREM RowFollows == Spec => []RowInv
<1> USE BoundAssumption
<1>1. Init => RowInv
  BY DEF Init, RowInv, RowFollowsLink, At, Idle
<1>2. TypeOK /\ TypeOK' /\ RowInv /\ [Next]_vars => RowInv'
  <2> SUFFICES ASSUME TypeOK, TypeOK', RowInv, [Next]_vars PROVE RowInv'
    OBVIOUS
  <2> DEFINE Row == /\ token \in {0, issued} /\ row <= issued
                    /\ \A c \in wire : c.token <= issued /\ (c.op = "delete" => c.token # token)
             Syncs == \A s \in Syncer : ~At(s, "idle") =>
                         sync[s].token \in 1..issued /\ (At(s, "orphan") => sync[s].token # token)
             Order == ~astray /\ issued > 0 =>
                        /\ token = 0 => Last \in wire \/ heard >= 2 * issued
                        /\ Latest \notin wire =>
                             /\ heard >= 2 * issued - 1
                             /\ row = token \/ (row = issued /\ Last \in wire)
  <2>0. Row /\ Syncs /\ Order
    BY DEF RowInv, Gone
  <2>1. /\ token \in Nat /\ issued \in Nat /\ row \in Nat /\ heard \in Nat
        /\ token' \in Nat /\ issued' \in Nat /\ row' \in Nat /\ heard' \in Nat
        /\ \A c \in wire : c \in Call /\ c.token \in Nat \ {0} /\ c.op \in {"register", "delete"}
    BY DEF TypeOK, Call
  <2>2. Row' /\ Order' => RowFollowsLink'
    <3> SUFFICES ASSUME Row', Order', wire' = {}, ~astray' PROVE row' = token'
      BY DEF RowFollowsLink
    <3>1. CASE issued' = 0
      BY <2>1, <3>1
    <3>2. CASE issued' # 0
      <4>1. issued' > 0
        BY <2>1, <3>2
      <4>2. (Latest \notin wire)' /\ (Last \notin wire)'
        OBVIOUS
      <4> QED BY <4>1, <4>2
    <3> QED BY <3>1, <3>2
  <2>3. Row' /\ Syncs' /\ Order' => RowInv'
    BY <2>2 DEF RowInv, Gone
  <2>4. CASE Issue
    <3>1. Row'
      BY <2>4, <2>0, <2>1 DEF Issue
    <3>2. Syncs'
      BY <2>4, <2>0, <2>1 DEF Issue, At
    <3>3. Order'
      BY <2>4, <2>1 DEF Issue, Latest
    <3> QED BY <2>3, <3>1, <3>2, <3>3
  <2>5. CASE Remove
    <3>1. Row'
      BY <2>5, <2>0, <2>1 DEF Remove
    <3>2. Syncs'
      BY <2>5, <2>0, <2>1 DEF Remove, At
    <3>3. Order'
      BY <2>5, <2>0, <2>1 DEF Remove, Latest, Last
    <3> QED BY <2>3, <3>1, <3>2, <3>3
  <2>6. CASE Pause \/ SessionExpires \/ CarriedOutLate \/ UNCHANGED vars
    <3>1. UNCHANGED <<token, issued, here, sync>>
      BY <2>6 DEF Pause, SessionExpires, CarriedOutLate, vars, far
    <3> QED BY <2>3, <2>0, <3>1 DEF here, At, Latest, Last
  <2>7. ASSUME NEW c \in wire, register(c) PROVE RowInv'
    <3>1. Row'
      BY <2>7, <2>0, <2>1 DEF register, Heard, far
    <3>2. Syncs'
      BY <2>7, <2>0 DEF register, far, At
    <3>3. Order'
      <4>1. ~astray' => ~astray /\ heard <= 2 * c.token - 1 /\ heard' = 2 * c.token - 1
        <5>1. Rank(c) = 2 * c.token - 1 /\ Rank(c) \in Nat
          BY <2>7, <2>1 DEF register, Rank
        <5>2. astray' = (astray \/ heard > Rank(c))
          BY <2>7 DEF register
        <5>3. heard' = IF heard > Rank(c) THEN heard ELSE Rank(c)
          BY <2>7 DEF register, Heard
        <5>4. ~astray' => ~astray /\ ~(heard > Rank(c))
          BY <5>2
        <5> QED BY <2>1, <5>1, <5>3, <5>4
      <4>2. CASE c.token = issued
        <5>1. Last \in wire => Last \in wire'
          BY <2>7 DEF register, Heard, Last
        <5> QED BY <2>7, <2>0, <2>1, <4>1, <4>2, <5>1 DEF register, far, Latest, Last
      <4>3. CASE c.token < issued
        <5>1. Latest \in wire => Latest \in wire'
          BY <2>7, <4>3, <2>1 DEF register, Heard, Latest
        <5>2. Last \in wire => Last \in wire'
          BY <2>7 DEF register, Heard, Last
        <5> QED BY <2>7, <2>0, <2>1, <4>1, <4>3, <5>1, <5>2 DEF register, far, Latest, Last
      <4>4. c.token \in Nat /\ c.token <= issued /\ issued \in Nat
        BY <2>0, <2>1, <2>7
      <4>5. c.token = issued \/ c.token < issued
        BY <4>4
      <4> QED BY <4>2, <4>3, <4>5
    <3> QED BY <2>3, <3>1, <3>2, <3>3
  <2>8. ASSUME NEW c \in wire, delete_config(c) PROVE RowInv'
    <3>1. Row'
      BY <2>8, <2>0, <2>1 DEF delete_config, Heard, far
    <3>2. Syncs'
      BY <2>8, <2>0 DEF delete_config, far, At
    <3>3. Order'
      <4>1. /\ heard' >= heard /\ heard' >= 2 * c.token
            /\ astray' = astray /\ issued' = issued /\ token' = token
        BY <2>8, <2>1 DEF delete_config, Heard, Rank, far
      <4>2. Latest \in wire => Latest \in wire'
        BY <2>8 DEF delete_config, Heard, Latest
      <4>3. Last \in wire => Last \in wire' \/ c = Last
        BY <2>8 DEF delete_config, Heard
      <4>4. row' = IF row = c.token THEN 0 ELSE row
        BY <2>8 DEF delete_config
      <4>5. c.token <= issued /\ c.token # token
        BY <2>0, <2>8 DEF delete_config
      <4>6. c = Last => c.token = issued
        BY DEF Last
      <4> QED BY <2>0, <2>1, <4>1, <4>2, <4>3, <4>4, <4>5, <4>6 DEF Latest, Last
    <3> QED BY <2>3, <3>1, <3>2, <3>3
  <2>9. ASSUME NEW c \in wire, Lose(c) PROVE RowInv'
    <3>1. Row'
      BY <2>9, <2>0, <2>1 DEF Lose, far
    <3>2. Syncs'
      BY <2>9, <2>0 DEF Lose, far, At
    <3>3. Order'
      BY <2>9 DEF Lose
    <3> QED BY <2>3, <3>1, <3>2, <3>3
  <2>10. ASSUME NEW s \in Syncer, Step(s) \/ ChunkFails(s) \/ SyncEnds(s) PROVE RowInv'
    <3>1. far' = far
      BY <2>10 DEF Step, ChunkFails, SyncEnds, Read, GetUserInfo, Put, Start, SendRefused,
             UploadChunk, ChunkRefused, Cancel, Commit, CommitRefused, DeleteOrphan, Finish
    <3>2. token' = token /\ issued' = issued
      BY <3>1 DEF far
    <3>3. Syncs'
      BY <2>10, <3>1, <3>2, SyncsKept
    <3>4. wire' = wire /\ heard' = heard
      BY <2>10 DEF Step, ChunkFails, SyncEnds, Read, GetUserInfo, Put, Start, SendRefused,
             UploadChunk, ChunkRefused, Cancel, Commit, CommitRefused, DeleteOrphan, Finish, here
    <3>5. CASE DeleteOrphan(s)
      <4>1. row' = 0 /\ astray' = (astray \/ (row # 0 /\ row = token))
        BY <3>5 DEF DeleteOrphan
      <4>2. ~astray' => ~astray /\ ~(row # 0 /\ row = token)
        BY <4>1
      <4>3. Order'
        BY <2>0, <2>1, <3>2, <3>4, <4>1, <4>2 DEF Latest, Last
      <4> QED BY <2>0, <2>1, <2>3, <3>2, <3>3, <3>4, <4>1, <4>3
    <3>6. CASE ~DeleteOrphan(s)
      <4>1. row' = row /\ astray' = astray
        BY <2>10, <3>6 DEF Step, ChunkFails, SyncEnds, Read, GetUserInfo, Put, Start, SendRefused,
               UploadChunk, ChunkRefused, Cancel, Commit, CommitRefused, Finish, here
      <4> QED BY <2>0, <2>3, <3>2, <3>3, <3>4, <4>1 DEF Latest, Last
    <3> QED BY <3>5, <3>6
  <2> QED BY <2>4, <2>5, <2>6, <2>7, <2>8, <2>9, <2>10 DEF Next
<1> QED BY <1>1, <1>2, TypeCorrect, PTL DEF Spec


\* The row of a link that lives is deleted by nobody but a sync with an earlier
\* token: a delete_config that was late fits no later row.
THEOREM LiveRow == Spec => LiveRowKept
<1>1. ASSUME TypeOK, RowInv, [Next]_vars, row # 0, row = token, row' = 0
      PROVE  \E s \in Syncer : At(s, "orphan") /\ Gone(s) /\ At(s, "idle")'
  <2>1. ASSUME NEW c \in wire, register(c) \/ delete_config(c) \/ Lose(c) PROVE FALSE
    <3>1. c.token \in 1..MaxTokens
      BY <1>1 DEF TypeOK, Call
    <3>2. c.op = "delete" => c.token # token
      BY <1>1 DEF RowInv
    <3> QED BY <1>1, <2>1, <3>1, <3>2 DEF register, delete_config, Lose
  <2>2. ASSUME NEW s \in Syncer, Step(s) PROVE DeleteOrphan(s)
    BY <1>1, <2>2 DEF Step, Read, GetUserInfo, Put, Start, SendRefused, UploadChunk, ChunkRefused,
         Cancel, Commit, CommitRefused, Finish, here
  <2>3. ASSUME NEW s \in Syncer, DeleteOrphan(s) PROVE At(s, "orphan") /\ Gone(s) /\ At(s, "idle")'
    <3>1. At(s, "orphan") /\ Gone(s)
      BY <1>1, <2>3 DEF DeleteOrphan, RowInv, At
    <3>2. At(s, "idle")'
      BY <1>1, <2>3 DEF DeleteOrphan, Done, Become, Idle, At, TypeOK
    <3> QED BY <3>1, <3>2
  <2>4. ASSUME Issue \/ Remove \/ Pause \/ SessionExpires \/ CarriedOutLate \/ UNCHANGED vars
        PROVE  FALSE
    BY <1>1, <2>4 DEF Issue, Remove, Pause, SessionExpires, CarriedOutLate, vars, here
  <2>5. ASSUME NEW s \in Syncer, ChunkFails(s) \/ SyncEnds(s) PROVE FALSE
    BY <1>1, <2>5 DEF ChunkFails, SyncEnds, here
  <2> QED BY <1>1, <2>1, <2>2, <2>3, <2>4, <2>5 DEF Next
<1>2. TypeOK /\ RowInv /\ [Next]_vars =>
        [row # 0 /\ row = token /\ row' = 0 =>
           \E s \in Syncer : At(s, "orphan") /\ Gone(s) /\ At(s, "idle")']_vars
  BY <1>1
<1> QED BY <1>2, TypeCorrect, RowFollows, PTL DEF Spec, LiveRowKept


-----------------------------------------------------------------------------
(* The list.                                                               *)

\* The two invariants of the sessions hold each other up: what a commit stores
\* is what the session's sync has sent, and whose the session is, is known as
\* long as somebody attends to it.
LEMMA Sessions == Spec => [](UploadInv /\ SessionAttended)
<1> USE SyncerAssumption
<1>1. Init => UploadInv /\ SessionAttended
  BY DEF Init, UploadInv, Staged, SessionAttended, Mine, Closed, Whole
<1>2. TypeOK /\ UploadInv /\ SessionAttended /\ [Next]_vars => (UploadInv /\ SessionAttended)'
  <2> SUFFICES ASSUME TypeOK, UploadInv, SessionAttended, [Next]_vars
               PROVE  (UploadInv /\ SessionAttended)'
    OBVIOUS
  <2> DEFINE Of(s, l) == /\ l.at = "chunk" => session.parts = Chunks(l.list, l.chunk - 1)
                         /\ l.at = "commit" => session.parts = Parts(l.list)
                         /\ left <=> l.at \notin Attending
             Ours == \A s \in Syncer : Mine(s) => Of(s, sync[s])
             Stored == remote \in Whole /\ late \subseteq Whole
             Free == session = Closed => ~left
  <2>0. Ours /\ Stored /\ Free
    BY DEF UploadInv, SessionAttended, Staged, At
  <2>1. (Ours /\ Stored /\ Free)' => (UploadInv /\ SessionAttended)'
    BY DEF UploadInv, SessionAttended, Staged, At
  <2>2. \A s \in Syncer : /\ sync[s] \in Local /\ Parts(sync[s].list) \in Whole
                          /\ sync[s].list \in List
    BY DEF TypeOK, Local, Whole
  <2>3. ASSUME UNCHANGED <<session, left, sync>> PROVE Ours' /\ Free'
    BY <2>0, <2>3 DEF Mine
  <2>4. ASSUME session' = Closed, ~left' PROVE Ours' /\ Free'
    BY <2>4 DEF Mine, Closed
  <2>5. ASSUME NEW s \in Syncer, NEW l, Become(s, l), Mine(s) => Of(s, l), UNCHANGED <<session, left>>
        PROVE  Ours' /\ Free'
    <3>1. \A r \in Syncer \ {s} : sync'[r] = sync[r]
      BY <2>5 DEF Become, TypeOK
    <3>2. sync'[s] = l
      BY <2>5 DEF Become, TypeOK
    <3> QED BY <2>0, <2>5, <3>1, <3>2 DEF Mine
  <2>e. ASSUME NEW s \in Syncer, sync'[s].at = "idle", \A r \in Syncer \ {s} : sync'[r] = sync[r],
               left' = (left \/ Mine(s)), session' = session
        PROVE  Ours' /\ Free'
    <3>1. CASE Mine(s)
      <4>3. left'
        BY <2>e, <3>1, Zenon
      <4>1. session' # Closed
        BY <2>e, <3>1 DEF Mine, Closed
      <4>2. \A r \in Syncer : Mine(r)' => r = s
        BY <2>e, <3>1 DEF Mine
      <4> QED BY <2>e, <4>1, <4>2, <4>3 DEF Attending
    <3>2. CASE ~Mine(s)
      <4>1. left' = left
        BY <2>e, <3>2, <2>0 DEF TypeOK
      <4>2. \A r \in Syncer : Mine(r)' => Mine(r) /\ sync'[r] = sync[r]
        BY <2>e, <3>2 DEF Mine
      <4> QED BY <2>e, <2>0, <4>1, <4>2
    <3> QED BY <3>1, <3>2
  <2>6. CASE Issue \/ Pause \/ SessionExpires \/ CarriedOutLate \/ Remove
    <3>1. UNCHANGED <<session, left, sync>> \/ (session' = Closed /\ ~left')
      BY <2>6 DEF Issue, Pause, SessionExpires, CarriedOutLate, Remove, book
    <3>2. Stored'
      BY <2>6, <2>0 DEF Issue, Pause, SessionExpires, CarriedOutLate, Remove, book, Whole
    <3> QED BY <2>1, <2>3, <2>4, <3>1, <3>2
  <2>7. ASSUME NEW c \in wire, register(c) \/ delete_config(c) \/ Lose(c)
        PROVE  (UploadInv /\ SessionAttended)'
    BY <2>0, <2>1, <2>3, <2>7 DEF register, delete_config, Lose, book
  <2>8. ASSUME NEW s \in Syncer, Read(s) \/ GetUserInfo(s) \/ SendRefused(s) \/ DeleteOrphan(s) \/ Finish(s)
        PROVE  (UploadInv /\ SessionAttended)'
    <3>1. UNCHANGED book /\ sync[s].at \notin Attending
      BY <2>8 DEF Read, GetUserInfo, SendRefused, DeleteOrphan, Finish, At, Attending
    <3>2. \E l : Become(s, l) /\ l.at \notin Attending
      <4>1. Idle.at \notin Attending /\ \A k \in Local : [k EXCEPT !.at = "orphan"].at \notin Attending
        BY DEF Idle, Attending, Local
      <4>2. CASE Read(s)
        <5>1. \A place \in {"info", "send"} :
                [Idle EXCEPT !.at = place, !.token = row].at \notin Attending
          BY DEF Idle, Attending
        <5> QED BY <4>2, <5>1 DEF Read
      <4>3. CASE GetUserInfo(s)
        <5>1. \A k \in Local, q \in List : [k EXCEPT !.at = "send", !.list = q].at \notin Attending
          BY DEF Local, Attending
        <5>2. \A q \in List : Become(s, [sync[s] EXCEPT !.at = "send", !.list = q]) =>
                \E l : Become(s, l) /\ l.at \notin Attending
          BY <2>2, <5>1
        <5> QED BY <4>3, <2>2, <4>1, <5>2 DEF GetUserInfo, Goto, Done
      <4>4. CASE SendRefused(s) \/ DeleteOrphan(s) \/ Finish(s)
        BY <4>4, <2>2, <4>1 DEF SendRefused, DeleteOrphan, Finish, Goto, Done
      <4> QED BY <2>8, <4>2, <4>3, <4>4
    <3>3. PICK l : Become(s, l) /\ l.at \notin Attending
      BY <3>2
    <3>4. Mine(s) => Of(s, l)
      BY <2>0, <3>1, <3>3 DEF Attending
    <3> QED BY <2>0, <2>1, <2>5, <3>1, <3>3, <3>4 DEF book
  <2>9. ASSUME NEW s \in Syncer, Put(s) PROVE (UploadInv /\ SessionAttended)'
    <3> DEFINE l == [sync[s] EXCEPT !.at = "told"]
    <3>1. Become(s, l) /\ l.at = "told" /\ sync[s].at = "send"
      BY <2>9, <2>2 DEF Put, Goto, Local, At
    <3>2. Mine(s) => Of(s, l)
      BY <2>0, <3>1 DEF Attending
    <3>3. Stored' /\ UNCHANGED <<session, left>>
      BY <2>9, <2>0, <2>2 DEF Put
    <3> HIDE DEF l
    <3> QED BY <2>1, <2>5, <3>1, <3>2, <3>3
  <2>10. ASSUME NEW s \in Syncer, Start(s) PROVE (UploadInv /\ SessionAttended)'
    <3>1. /\ session' = [by |-> s, parts |-> {}] /\ ~left'
          /\ sync'[s].at = "chunk" /\ sync'[s].chunk = 1
      BY <2>10, <2>0, <2>2 DEF Start, Become, TypeOK, Local
    <3>2. Chunks(sync'[s].list, 0) = {}
      BY DEF Chunks
    <3>3. Ours' /\ Free'
      BY <3>1, <3>2 DEF Mine, Closed, Attending
    <3> QED BY <2>0, <2>1, <2>10, <3>3 DEF Start
  <2>11. ASSUME NEW s \in Syncer, UploadChunk(s) PROVE (UploadInv /\ SessionAttended)'
    <3>1. /\ Mine(s) /\ sync[s].at = "chunk" /\ sync[s].chunk \in 1..Size[sync[s].list]
          /\ sync[s].chunk \in Nat \ {0}
      BY <2>11 DEF UploadChunk, At, TypeOK
    <3>2. session.parts = Chunks(sync[s].list, sync[s].chunk - 1) /\ ~left
      BY <2>0, <3>1 DEF Attending
    <3>3. /\ session' = [session EXCEPT !.parts = Chunks(sync[s].list, sync[s].chunk)]
          /\ ~left'
      BY <2>11, <3>1, <3>2, NextChunk DEF UploadChunk, Take
    <3>4. session'.parts = Chunks(sync[s].list, sync[s].chunk) /\ session'.by = s
      BY <3>1, <3>3 DEF TypeOK, Session, Mine
    <3>5. sync'[s].list = sync[s].list
      BY <2>11, <2>2 DEF UploadChunk, Goto, Become, TypeOK, Local
    <3>6. CASE sync[s].chunk = Size[sync[s].list]
      <4>1. sync'[s].at = "commit"
        BY <2>11, <2>2, <3>6 DEF UploadChunk, Goto, Become, TypeOK, Local
      <4> QED BY <2>0, <2>1, <2>11, <3>3, <3>4, <3>5, <3>6, <4>1 DEF UploadChunk, Mine, Closed, Attending, Parts
    <3>7. CASE sync[s].chunk # Size[sync[s].list]
      <4>1. sync'[s].at = "chunk" /\ sync'[s].chunk = sync[s].chunk + 1
        BY <2>11, <2>2, <3>1, <3>7 DEF UploadChunk, Become, TypeOK, Local
      <4>2. sync'[s].chunk - 1 = sync[s].chunk
        BY <3>1, <4>1
      <4> QED BY <2>0, <2>1, <2>11, <3>3, <3>4, <3>5, <4>1, <4>2 DEF UploadChunk, Mine, Closed, Attending
    <3> QED BY <3>6, <3>7
  <2>12. ASSUME NEW s \in Syncer, ChunkRefused(s) PROVE (UploadInv /\ SessionAttended)'
    <3> DEFINE l == [sync[s] EXCEPT !.at = "cancel"]
    <3>1. Become(s, l) /\ l.at = "cancel" /\ sync[s].at = "chunk" /\ UNCHANGED book
      BY <2>12, <2>2 DEF ChunkRefused, Goto, Local, At
    <3>2. Mine(s) => Of(s, l)
      BY <2>0, <3>1 DEF Attending
    <3> HIDE DEF l
    <3> QED BY <2>0, <2>1, <2>5, <3>1, <3>2 DEF book
  <2>13. ASSUME NEW s \in Syncer, ChunkFails(s) PROVE (UploadInv /\ SessionAttended)'
    <3>1. sync'[s].at = "cancel" /\ sync[s].at = "chunk" /\ \A r \in Syncer \ {s} : sync'[r] = sync[r]
      BY <2>13, <2>2 DEF ChunkFails, Goto, Become, At, TypeOK, Local
    <3>2. left' = left /\ Stored'
      BY <2>13, <2>0 DEF ChunkFails
    <3>3. (Mine(s) /\ session'.by = session.by) \/ session' = session
      BY <2>13, TakeTyped DEF ChunkFails
    <3>4. Mine(s) => session'.by = s /\ ~left
      BY <2>0, <3>1, <3>3 DEF Mine, Attending
    <3>5. Ours' /\ Free'
      BY <2>0, <3>1, <3>2, <3>3, <3>4 DEF Mine, Attending, Closed
    <3> QED BY <2>1, <3>2, <3>5
  <2>14. ASSUME NEW s \in Syncer, Cancel(s) PROVE (UploadInv /\ SessionAttended)'
    <3>1. Stored' /\ sync[s].at = "cancel"
      BY <2>14, <2>0 DEF Cancel, At
    <3>2. CASE Mine(s) /\ session' = Closed /\ UNCHANGED left
      BY <2>0, <2>1, <2>4, <3>1, <3>2 DEF Attending
    <3>3. CASE left' = (left \/ Mine(s)) /\ UNCHANGED session
      <4>1. sync'[s].at = "idle" /\ \A r \in Syncer \ {s} : sync'[r] = sync[r]
        BY <2>14 DEF Cancel, Done, Become, Idle, TypeOK
      <4>2. Ours' /\ Free'
        BY <2>e, <3>3, <4>1
      <4> QED BY <2>1, <3>1, <4>2
    <3> QED BY <2>14, <3>2, <3>3 DEF Cancel
  <2>15. ASSUME NEW s \in Syncer, Commit(s) PROVE (UploadInv /\ SessionAttended)'
    <3>1. Mine(s) /\ sync[s].at = "commit" /\ session' = Closed /\ left' = left
      BY <2>15 DEF Commit, At
    <3>2. session.parts \in Whole /\ ~left
      BY <2>0, <2>2, <3>1 DEF Attending
    <3>3. Stored'
      BY <2>15, <2>0, <3>2 DEF Commit
    <3> QED BY <2>1, <2>4, <3>1, <3>2, <3>3
  <2>16. ASSUME NEW s \in Syncer, CommitRefused(s) PROVE (UploadInv /\ SessionAttended)'
    <3>1. sync'[s].at = "idle" /\ \A r \in Syncer \ {s} : sync'[r] = sync[r]
      BY <2>16 DEF CommitRefused, Done, Become, Idle, TypeOK
    <3>2. left' = (left \/ Mine(s)) /\ session' = session /\ Stored'
      BY <2>16, <2>0 DEF CommitRefused
    <3>3. Ours' /\ Free'
      BY <2>e, <3>1, <3>2
    <3> QED BY <2>1, <3>2, <3>3
  <2>17. ASSUME NEW s \in Syncer, SyncEnds(s) PROVE (UploadInv /\ SessionAttended)'
    <3>1. sync'[s].at = "idle" /\ \A r \in Syncer \ {s} : sync'[r] = sync[r]
      BY <2>17 DEF SyncEnds, Done, Become, Idle, TypeOK
    <3>2. CASE left' = (left \/ Mine(s)) /\ UNCHANGED <<session, late>>
      <4>1. Ours' /\ Free'
        BY <2>e, <3>1, <3>2
      <4> QED BY <2>0, <2>1, <2>17, <3>2, <4>1 DEF SyncEnds
    <3>3. CASE At(s, "send") /\ late' = late \cup {Parts(sync[s].list)} /\ UNCHANGED <<session, left>>
      <4>1. Stored'
        BY <2>0, <2>2, <2>17, <3>3 DEF SyncEnds
      <4>2. Ours' /\ Free'
        BY <2>0, <3>1, <3>3 DEF Mine, Attending, Closed, At
      <4> QED BY <2>1, <4>1, <4>2
    <3>4. CASE /\ At(s, "commit") /\ Mine(s) /\ late' = late \cup {session.parts}
               /\ session' = Closed /\ UNCHANGED left
      <4>1. session.parts \in Whole /\ ~left'
        BY <2>0, <2>2, <3>4 DEF At, Attending
      <4>2. Stored'
        BY <2>0, <2>17, <3>4, <4>1 DEF SyncEnds
      <4> QED BY <2>1, <2>4, <3>4, <4>1, <4>2
    <3>5. CASE session' = [by |-> s, parts |-> {}] /\ left' = TRUE /\ UNCHANGED late
      <4>1. Stored'
        BY <2>0, <2>17, <3>5 DEF SyncEnds
      <4>2. Ours' /\ Free'
        BY <3>1, <3>5 DEF Mine, Attending, Closed
      <4> QED BY <2>1, <4>1, <4>2
    <3>6. CASE At(s, "cancel") /\ Mine(s) /\ session' = Closed /\ UNCHANGED <<late, left>>
      <4>1. ~left'
        BY <2>0, <3>6 DEF At, Attending
      <4>2. Stored'
        BY <2>0, <2>17, <3>6 DEF SyncEnds
      <4> QED BY <2>1, <2>4, <3>6, <4>1, <4>2
    <3> QED BY <2>17, <3>2, <3>3, <3>4, <3>5, <3>6 DEF SyncEnds, Received
  <2>18. CASE UNCHANGED vars
    BY <2>0, <2>1, <2>3, <2>18 DEF vars, book
  <2> QED BY <2>6, <2>7, <2>8, <2>9, <2>10, <2>11, <2>12, <2>13, <2>14, <2>15, <2>16, <2>17, <2>18
        DEF Next, Step
<1> QED BY <1>1, <1>2, TypeCorrect, PTL DEF Spec

\* What RoleLogic stores is a whole list, and a session is what its sync has
\* sent so far.
THEOREM WholeLists == Spec => []UploadInv
<1> QED BY Sessions, PTL

\* No session stays open behind a sync whose chunk failed.
THEOREM NoneLeftBehind == Spec => []SessionAttended
<1> QED BY Sessions, PTL

\* An upload, whatever becomes of it and of the link, is one atomic call.
THEOREM Refinement == Spec => ImplementsAtomicUpload
<1>1. Init => Upload!Init
  BY DEF Init, Upload!Init, Upload!Idle, Calls, CallOf, Idle, Asking
<1>2. TypeOK /\ UploadInv /\ [Next]_vars => [Upload!Next]_<<remote, late, Calls>>
  <2> SUFFICES ASSUME TypeOK, UploadInv, [Next]_vars PROVE [Upload!Next]_<<remote, late, Calls>>
    OBVIOUS
  <2>0. \A s \in Syncer : sync[s] \in Local /\ sync[s].list \in List
    BY DEF TypeOK, Local
  <2>1. ASSUME NEW s \in Syncer, NEW l, Become(s, l)
        PROVE  Calls' = [Calls EXCEPT ![s] = CallOf(l)]
    BY <2>1 DEF Calls, Become, TypeOK
  <2>2. \A s \in Syncer : Calls[s] = CallOf(sync[s])
    BY DEF Calls
  <2>3. sync' = sync => Calls' = Calls
    BY DEF Calls
  <2>4. CallOf(Idle) = Upload!Idle
    BY DEF CallOf, Idle, Asking, Upload!Idle
  <2>5. ASSUME NEW s \in Syncer, NEW l, Become(s, l), CallOf(l) = CallOf(sync[s])
        PROVE  Calls' = Calls
    BY <2>1, <2>2, <2>5 DEF Calls
  <2>6. CASE Issue \/ Pause \/ SessionExpires \/ UNCHANGED vars
    BY <2>3, <2>6 DEF Issue, Pause, SessionExpires, vars, book
  <2>7. CASE Remove
    <3>1. Upload!Clear
      BY <2>3, <2>7 DEF Remove, Upload!Clear
    <3> QED BY <3>1 DEF Upload!Next
  <2>8. CASE CarriedOutLate
    <3>1. Upload!WriteLate
      BY <2>3, <2>8 DEF CarriedOutLate, Upload!WriteLate
    <3> QED BY <3>1 DEF Upload!Next
  <2>9. ASSUME NEW c \in wire, register(c) \/ delete_config(c) \/ Lose(c)
        PROVE  UNCHANGED <<remote, late, Calls>>
    BY <2>3, <2>9 DEF register, delete_config, Lose, book
  <2>10. ASSUME NEW s \in Syncer, Calls[s].state = "asked", Done(s), remote' = remote,
                late' = late \/ late' = late \cup {Calls[s].value}
         PROVE  Upload!Next
    <3>1. Upload!Fail(s)
      BY <2>1, <2>4, <2>10 DEF Upload!Fail, Done
    <3> QED BY <3>1 DEF Upload!Next
  <2>11. \A s \in Syncer :
           /\ sync[s].at \in Asking => Calls[s] = [state |-> "asked", value |-> Parts(sync[s].list)]
           /\ sync[s].at = "told" => Calls[s] = [state |-> "done", value |-> Parts(sync[s].list)]
           /\ sync[s].at \in {"idle", "info", "orphan"} => Calls[s] = Upload!Idle
    BY <2>2 DEF CallOf, Asking, Upload!Idle
  <2>26. \A s \in Syncer :
           /\ sync[s].at \in Asking => Calls[s].state = "asked" /\ Calls[s].value = Parts(sync[s].list)
           /\ sync[s].at = "told" => Calls[s].state = "done"
           /\ sync[s].at \in {"idle", "info", "orphan"} => Calls[s].state = "idle"
    <3> SUFFICES ASSUME NEW s \in Syncer
                 PROVE  /\ sync[s].at \in Asking =>
                              Calls[s].state = "asked" /\ Calls[s].value = Parts(sync[s].list)
                        /\ sync[s].at = "told" => Calls[s].state = "done"
                        /\ sync[s].at \in {"idle", "info", "orphan"} => Calls[s].state = "idle"
      OBVIOUS
    <3>1. CASE sync[s].at \in Asking
      <4>1. Calls[s] = [state |-> "asked", value |-> Parts(sync[s].list)]
        BY <2>11, <3>1
      <4> QED BY <3>1, <4>1 DEF Asking
    <3>2. CASE sync[s].at = "told"
      <4>1. Calls[s] = [state |-> "done", value |-> Parts(sync[s].list)]
        BY <2>11, <3>2
      <4> QED BY <3>2, <4>1 DEF Asking
    <3>3. CASE sync[s].at \in {"idle", "info", "orphan"}
      <4>1. Calls[s] = Upload!Idle
        BY <2>11, <3>3
      <4> QED BY <3>3, <4>1 DEF Upload!Idle, Asking
    <3> QED BY <3>1, <3>2, <3>3
  <2>12. ASSUME NEW s \in Syncer, NEW l, Become(s, l), sync[s].at \in {"idle", "info"}, l.at = "send",
                l.list \in List, UNCHANGED <<remote, late>>
         PROVE  Upload!Next
    <3>1. CallOf(l) = [state |-> "asked", value |-> Parts(l.list)]
      BY <2>12 DEF CallOf, Asking
    <3>2. Upload!Ask(s)
      <4>1. Calls' = [Calls EXCEPT ![s] = [state |-> "asked", value |-> Parts(l.list)]]
        BY <2>1, <2>12, <3>1
      <4>2. Calls[s].state = "idle"
        BY <2>12, <2>26
      <4> QED BY <2>12, <4>1, <4>2 DEF Upload!Ask
    <3> QED BY <3>2 DEF Upload!Next
  <2>13. ASSUME NEW s \in Syncer, NEW l, Become(s, l), sync[s].at \in Asking, l.at \in Asking,
                l.list = sync[s].list
         PROVE  Calls' = Calls
    BY <2>5, <2>13 DEF CallOf
  <2>14. ASSUME NEW s \in Syncer, sync[s].at \in Asking, Goto(s, "told"),
                remote' = Parts(sync[s].list), late' = late
         PROVE  Upload!Next
    <3> DEFINE l == [sync[s] EXCEPT !.at = "told"]
    <3>1. l.at = "told" /\ l.list = sync[s].list /\ Become(s, l)
      BY <2>0, <2>14 DEF Local, Goto
    <3>2. CallOf(l) = [state |-> "done", value |-> Parts(sync[s].list)]
      BY <3>1 DEF CallOf, Asking
    <3> HIDE DEF l
    <3>3. Upload!Write(s)
      <4>1. Calls' = [Calls EXCEPT ![s] = [state |-> "done", value |-> Parts(sync[s].list)]]
        BY <2>1, <3>1, <3>2
      <4>2. Calls[s] = [state |-> "asked", value |-> Parts(sync[s].list)]
        BY <2>11, <2>14
      <4>3. [Calls[s] EXCEPT !.state = "done"] = [state |-> "done", value |-> Parts(sync[s].list)]
        BY <4>2
      <4>4. Calls[s].state = "asked" /\ Calls[s].value = Parts(sync[s].list)
        BY <2>14, <2>26
      <4> QED BY <2>14, <4>1, <4>3, <4>4 DEF Upload!Write
    <3> QED BY <3>3 DEF Upload!Next
  <2>15. ASSUME NEW s \in Syncer, Goto(s, "orphan") PROVE Become(s, [sync[s] EXCEPT !.at = "orphan"]) /\
               CallOf([sync[s] EXCEPT !.at = "orphan"]) = Upload!Idle
    BY <2>0, <2>15 DEF Goto, CallOf, Asking, Local, Upload!Idle
  <2>16. ASSUME NEW s \in Syncer, Read(s) PROVE [Upload!Next]_<<remote, late, Calls>>
    <3>1. sync[s].at = "idle" /\ UNCHANGED <<remote, late>>
      BY <2>16 DEF Read, At, book
    <3>2. CASE Become(s, [Idle EXCEPT !.at = "info", !.token = row])
      <4>1. CallOf([Idle EXCEPT !.at = "info", !.token = row]) = Upload!Idle
        BY DEF CallOf, Idle, Asking, Upload!Idle
      <4> QED BY <2>2, <2>5, <2>11, <3>1, <3>2, <4>1
    <3>3. CASE Become(s, [Idle EXCEPT !.at = "send", !.token = row])
      <4>1. /\ [Idle EXCEPT !.at = "send", !.token = row].at = "send"
            /\ [Idle EXCEPT !.at = "send", !.token = row].list \in List
        BY ListAssumption DEF Idle
      <4> QED BY <2>12, <3>1, <3>3, <4>1
    <3> QED BY <2>16, <3>2, <3>3 DEF Read
  <2>17. ASSUME NEW s \in Syncer, GetUserInfo(s) PROVE [Upload!Next]_<<remote, late, Calls>>
    <3>1. sync[s].at = "info" /\ UNCHANGED <<remote, late>>
      BY <2>17 DEF GetUserInfo, At, book
    <3>2. ASSUME NEW q \in List, Become(s, [sync[s] EXCEPT !.at = "send", !.list = q])
          PROVE  Upload!Next
      <4>1. /\ [sync[s] EXCEPT !.at = "send", !.list = q].at = "send"
            /\ [sync[s] EXCEPT !.at = "send", !.list = q].list = q
        BY <2>0 DEF Local
      <4> QED BY <2>12, <3>1, <3>2, <4>1
    <3>3. Done(s) => Calls' = Calls
      BY <2>2, <2>4, <2>5, <2>11, <3>1 DEF Done
    <3>4. Goto(s, "orphan") => Calls' = Calls
      BY <2>2, <2>5, <2>11, <2>15, <3>1
    <3> QED BY <2>17, <3>1, <3>2, <3>3, <3>4 DEF GetUserInfo
  <2>18. ASSUME NEW s \in Syncer, SendRefused(s) PROVE Upload!Next
    <3>1. sync[s].at = "send" /\ UNCHANGED <<remote, late>>
      BY <2>18 DEF SendRefused, At, book
    <3>2. Calls[s].state = "asked"
      BY <2>26, <3>1 DEF Asking
    <3>3. CASE Goto(s, "orphan")
      <4>1. Upload!Fail(s)
        BY <2>1, <2>15, <3>1, <3>2, <3>3 DEF Upload!Fail
      <4> QED BY <4>1 DEF Upload!Next
    <3> QED BY <2>10, <2>18, <3>1, <3>2, <3>3 DEF SendRefused
  <2>19. ASSUME NEW s \in Syncer, Put(s) PROVE Upload!Next
    BY <2>14, <2>19 DEF Put, At, Asking
  <2>20. ASSUME NEW s \in Syncer, Commit(s) PROVE Upload!Next
    BY <2>14, <2>20 DEF Commit, At, Asking, UploadInv, Staged
  <2>21. ASSUME NEW s \in Syncer, Start(s) \/ UploadChunk(s) \/ ChunkRefused(s) \/ ChunkFails(s)
         PROVE  UNCHANGED <<remote, late, Calls>>
    <3>1. sync[s].at \in Asking /\ UNCHANGED <<remote, late>>
      BY <2>21 DEF Start, UploadChunk, ChunkRefused, ChunkFails, At, Asking, book
    <3>2. \E l : Become(s, l) /\ l.at \in Asking /\ l.list = sync[s].list
      <4>1. \A place \in Asking : /\ [sync[s] EXCEPT !.at = place].at \in Asking
                                 /\ [sync[s] EXCEPT !.at = place].list = sync[s].list
        BY <2>0 DEF Local
      <4>2. /\ [sync[s] EXCEPT !.chunk = @ + 1].at = sync[s].at
            /\ [sync[s] EXCEPT !.chunk = @ + 1].list = sync[s].list
            /\ [sync[s] EXCEPT !.at = "chunk", !.chunk = 1].at = "chunk"
            /\ [sync[s] EXCEPT !.at = "chunk", !.chunk = 1].list = sync[s].list
        BY <2>0 DEF Local
      <4>3. CASE Start(s)
        BY <4>2, <4>3 DEF Start, Asking
      <4>4. CASE UploadChunk(s)
        BY <3>1, <4>1, <4>2, <4>4 DEF UploadChunk, Goto, Asking
      <4>5. CASE ChunkRefused(s) \/ ChunkFails(s)
        BY <4>1, <4>5 DEF ChunkRefused, ChunkFails, Goto, Asking
      <4> QED BY <2>21, <4>3, <4>4, <4>5
    <3> QED BY <2>13, <3>1, <3>2
  <2>22. ASSUME NEW s \in Syncer, Cancel(s) \/ CommitRefused(s) PROVE Upload!Next
    <3>1. sync[s].at \in Asking /\ Done(s) /\ UNCHANGED <<remote, late>>
      BY <2>22 DEF Cancel, CommitRefused, At, Asking
    <3> QED BY <2>10, <2>26, <3>1
  <2>23. ASSUME NEW s \in Syncer, DeleteOrphan(s) PROVE UNCHANGED <<remote, late, Calls>>
    <3>1. sync[s].at = "orphan" /\ Done(s) /\ UNCHANGED <<remote, late>>
      BY <2>23 DEF DeleteOrphan, At, book
    <3> QED BY <2>2, <2>4, <2>5, <2>11, <3>1 DEF Done
  <2>24. ASSUME NEW s \in Syncer, Finish(s) PROVE Upload!Next
    <3>1. sync[s].at = "told" /\ Done(s) /\ UNCHANGED <<remote, late>>
      BY <2>24 DEF Finish, At, book
    <3>2. Upload!Succeed(s)
      BY <2>1, <2>4, <2>26, <3>1 DEF Upload!Succeed, Done
    <3> QED BY <3>2 DEF Upload!Next
  <2>25. ASSUME NEW s \in Syncer, SyncEnds(s) PROVE [Upload!Next]_<<remote, late, Calls>>
    <3>1. Done(s) /\ remote' = remote
      BY <2>25 DEF SyncEnds
    <3>2. late' = late \/ (sync[s].at \in Asking /\ late' = late \cup {Parts(sync[s].list)})
      BY <2>25 DEF SyncEnds, Received, At, Asking, UploadInv, Staged
    <3>3. CASE sync[s].at \in Asking
      BY <2>10, <2>26, <3>1, <3>2, <3>3
    <3>4. CASE sync[s].at = "told" /\ late' = late
      <4>1. Upload!Succeed(s)
        BY <2>1, <2>4, <2>26, <3>1, <3>4 DEF Upload!Succeed, Done
      <4> QED BY <4>1 DEF Upload!Next
    <3>5. CASE sync[s].at \in {"idle", "info", "orphan"} /\ late' = late
      BY <2>2, <2>4, <2>5, <2>11, <3>1, <3>5 DEF Done
    <3>6. sync[s].at \in Place
      BY <2>0 DEF Local
    <3> QED BY <3>2, <3>3, <3>4, <3>5, <3>6 DEF Place, Asking
  <2> QED BY <2>6, <2>7, <2>8, <2>9, <2>16, <2>17, <2>18, <2>19, <2>20, <2>21, <2>22, <2>23, <2>24, <2>25
        DEF Next, Step
<1> QED BY <1>1, <1>2, TypeCorrect, WholeLists, PTL DEF Spec, ImplementsAtomicUpload, Upload!Spec, Upload!vars
=============================================================================
