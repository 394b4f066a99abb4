--------------------------- MODULE LifecycleProofs ---------------------------
(***************************************************************************)
(* What a process owes its requests, its jobs and its balancer when it     *)
(* stops, for any number of workers, requests and accounts.                *)
(***************************************************************************)
EXTENDS Lifecycle, TLAPS

\* The tasks other than the workers have names of their own.
LEMMA TaskNames ==
    /\ Server \in Task /\ Listener \in Task /\ Reconcile \in Task /\ Worker \subseteq Task
    /\ Server # Listener /\ Server # Reconcile /\ Listener # Reconcile
    /\ Server \notin Worker /\ Listener \notin Worker /\ Reconcile \notin Worker
BY WorkerAssumption DEF Task, Server, Listener, Reconcile

\* Counting down from within a range stays within it.
LEMMA CountDown ==
    ASSUME NEW m \in Nat, NEW n \in 0..m, n > 0
    PROVE  n - 1 \in 0..m
OBVIOUS

\* Every local keeps its type.
THEOREM TypeCorrect == Spec => []TypeOK
<1> USE TaskNames, BoundAssumption
<1>1. Init => TypeOK
  <2> SUFFICES ASSUME Init PROVE TypeOK
    OBVIOUS
  <2>1. \A t \in Task : (CASE t = Server -> "off" [] t = Reconcile -> "delay" [] OTHER -> "top")
                            \in {"off", "delay", "top"}
    OBVIOUS
  <2>2. place \in [Task -> {"off", "delay", "top"}]
    BY <2>1 DEF Init
  <2>3. hand \in [Worker -> 0..BatchSize]
    BY DEF Init
  <2>4. pass \in 0..MaxAccounts /\ requests \in 0..MaxRequests /\ told \in SUBSET Task
    BY DEF Init
  <2> QED BY <2>2, <2>3, <2>4 DEF Init, TypeOK
<1>2. TypeOK /\ [Next]_vars => TypeOK'
  <2> SUFFICES ASSUME TypeOK, [Next]_vars PROVE TypeOK'
    OBVIOUS
  <2>1. CASE MainStep
    BY <2>1 DEF MainStep, SpawnSignalTask, Serve, Join, Goto, TypeOK
  <2>2. CASE SIGTERM \/ trigger
    BY <2>2 DEF SIGTERM, trigger, TypeOK
  <2>3. CASE Accept \/ Answer
    <3>1. requests \in 0..MaxRequests
      BY DEF TypeOK
    <3>2. requests' \in 0..MaxRequests
      BY <2>3, <3>1 DEF Accept, Answer
    <3> QED BY <2>3, <3>2 DEF Accept, Answer, TypeOK
  <2>4. CASE ServerStep
    BY <2>4 DEF ServerStep, StopAccepting, Drained, Hears, Goto, TypeOK
  <2>8. CASE ListenerStep
    BY <2>8 DEF ListenerStep, ListenerTop, ListenerConnects, ListenerRetries, ListenerStops,
                Hears, Deaf, Goto, TypeOK
  <2>5. ASSUME NEW w \in Worker, WorkerStep(w) PROVE TypeOK'
    <3>1. CASE WorkerTop(w) \/ WorkerWakes(w) \/ WorkerStopsIdle(w)
      BY <3>1 DEF WorkerTop, WorkerWakes, WorkerStopsIdle, Hears, Deaf, Goto, TypeOK
    <3>2. CASE WorkerClaims(w)
      BY <3>2 DEF WorkerClaims, Goto, TypeOK
    <3>3. CASE WorkerGoesOn(w)
      <4>1. hand[w] \in 0..BatchSize
        BY DEF TypeOK
      <4>2. hand[w] > 0 => hand[w] - 1 \in 0..BatchSize
        BY <4>1, CountDown
      <4>3. hand' \in [Worker -> 0..BatchSize]
        BY <3>3, <4>2 DEF WorkerGoesOn, TypeOK
      <4>4. told' \in SUBSET Task
        BY <3>3 DEF WorkerGoesOn, Hears, Deaf, TypeOK
      <4> QED BY <3>3, <4>3, <4>4 DEF WorkerGoesOn, Goto, TypeOK
    <3> QED BY <2>5, <3>1, <3>2, <3>3 DEF WorkerStep
  <2>6. CASE ReconcileBegins \/ ReconcileStops
    BY <2>6 DEF ReconcileBegins, ReconcileStops, Hears, Goto, TypeOK
  <2>9. CASE ReconcileGoesOn
    <3>1. pass \in 0..MaxAccounts
      BY DEF TypeOK
    <3>2. pass > 0 => pass - 1 \in 0..MaxAccounts
      BY <3>1, CountDown
    <3>3. pass' \in 0..MaxAccounts
      BY <2>9, <3>1, <3>2 DEF ReconcileGoesOn
    <3>4. told' \in SUBSET Task
      BY <2>9 DEF ReconcileGoesOn, Hears, Deaf, TypeOK
    <3> QED BY <2>9, <3>3, <3>4 DEF ReconcileGoesOn, Goto, TypeOK
  <2>7. CASE UNCHANGED vars
    BY <2>7 DEF vars, TypeOK
  <2> QED BY <2>1, <2>2, <2>3, <2>4, <2>5, <2>6, <2>7, <2>8, <2>9 DEF Next
<1> QED BY <1>1, <1>2, PTL DEF Spec

\* A task that is off stays off, but for the server when main starts it.
LEMMA OffStaysOff ==
    ASSUME TypeOK, [Next]_vars, NEW t \in Task, At(t, "off")
    PROVE  At(t, "off")' \/ (t = Server /\ main = "armed" /\ main' = "serving")
<1> USE TaskNames
<1>1. CASE MainStep
  BY <1>1 DEF MainStep, SpawnSignalTask, Serve, Join, Goto, At, TypeOK
<1>2. CASE SIGTERM \/ trigger \/ Accept \/ Answer \/ UNCHANGED vars
  BY <1>2 DEF SIGTERM, trigger, Accept, Answer, vars, At
<1>3. CASE ServerStep \/ ListenerStep
  BY <1>3 DEF ServerStep, StopAccepting, Drained, ListenerStep, ListenerTop, ListenerConnects,
              ListenerRetries, ListenerStops, Goto, At, TypeOK
<1>4. ASSUME NEW w \in Worker, WorkerStep(w) PROVE At(t, "off")'
  BY <1>4 DEF WorkerStep, WorkerTop, WorkerClaims, WorkerWakes, WorkerStopsIdle, WorkerGoesOn,
              Goto, At, TypeOK
<1>5. CASE ReconcileBegins \/ ReconcileStops \/ ReconcileGoesOn
  BY <1>5 DEF ReconcileBegins, ReconcileStops, ReconcileGoesOn, Goto, At, TypeOK
<1> QED BY <1>1, <1>2, <1>3, <1>4, <1>5 DEF Next

\* A task goes off only on the message, which nobody has before `sent`, and
\* `sent` comes after `caught`, which sets draining.
THEOREM UnreadyBeforeStopping == Spec => []UnreadyFirst
<1> USE TaskNames
<1>1. Init => UnreadyFirst
  BY DEF Init, UnreadyFirst, At, Task
<1>2. TypeOK /\ UnreadyFirst /\ [Next]_vars => UnreadyFirst'
  <2> SUFFICES ASSUME TypeOK, UnreadyFirst, [Next]_vars PROVE UnreadyFirst'
    OBVIOUS
  <2>1. CASE MainStep
    <3>1. CASE SpawnSignalTask
      BY <3>1 DEF SpawnSignalTask, At, UnreadyFirst
    <3>2. CASE Serve
      BY <3>2 DEF Serve, Goto, At, UnreadyFirst, TypeOK
    <3>3. CASE Join
      BY <3>3 DEF Join, At, UnreadyFirst
    <3> QED BY <2>1, <3>1, <3>2, <3>3 DEF MainStep
  <2>2. CASE SIGTERM \/ trigger
    BY <2>2 DEF SIGTERM, trigger, At, UnreadyFirst
  <2>3. CASE Accept \/ Answer \/ UNCHANGED vars
    BY <2>3 DEF Accept, Answer, vars, At, UnreadyFirst
  <2>4. CASE ServerStep
    BY <2>4 DEF ServerStep, StopAccepting, Drained, Hears, Goto, At, UnreadyFirst, TypeOK
  <2>5. CASE ListenerStep
    BY <2>5 DEF ListenerStep, ListenerTop, ListenerConnects, ListenerRetries, ListenerStops,
                Hears, Deaf, Goto, At, UnreadyFirst, TypeOK
  <2>6. ASSUME NEW w \in Worker, WorkerStep(w) PROVE UnreadyFirst'
    BY <2>6 DEF WorkerStep, WorkerTop, WorkerClaims, WorkerWakes, WorkerStopsIdle, WorkerGoesOn,
                Hears, Deaf, Goto, At, UnreadyFirst, TypeOK
  <2>7. CASE ReconcileBegins \/ ReconcileStops \/ ReconcileGoesOn
    BY <2>7 DEF ReconcileBegins, ReconcileStops, ReconcileGoesOn, Hears, Deaf, Goto, At,
                UnreadyFirst, TypeOK
  <2> QED BY <2>1, <2>2, <2>3, <2>4, <2>5, <2>6, <2>7 DEF Next
<1> QED BY <1>1, <1>2, TypeCorrect, PTL DEF Spec

\* The listener takes the message only where it stops.
THEOREM ListenerStopsWhenTold == Spec => []ListenerHears
<1> USE TaskNames DEF ListenerHears, Missed
<1>1. Init => ListenerHears
  BY DEF Init
<1>2. TypeOK /\ ListenerHears /\ [Next]_vars => ListenerHears'
  <2> SUFFICES ASSUME TypeOK, ListenerHears, [Next]_vars PROVE ListenerHears'
    OBVIOUS
  <2>1. CASE MainStep
    BY <2>1 DEF MainStep, SpawnSignalTask, Serve, Join, Goto, TypeOK
  <2>2. CASE SIGTERM \/ trigger \/ Accept \/ Answer \/ UNCHANGED vars
    BY <2>2 DEF SIGTERM, trigger, Accept, Answer, vars, At
  <2>3. CASE ServerStep
    BY <2>3 DEF ServerStep, StopAccepting, Drained, Hears, Goto, TypeOK
  <2>4. CASE ListenerStep
    BY <2>4 DEF ListenerStep, ListenerTop, ListenerConnects, ListenerRetries, ListenerStops,
                Hears, Deaf, Goto, At, TypeOK
  <2>5. ASSUME NEW w \in Worker, WorkerStep(w) PROVE ListenerHears'
    BY <2>5 DEF WorkerStep, WorkerTop, WorkerClaims, WorkerWakes, WorkerStopsIdle, WorkerGoesOn,
                Hears, Deaf, Goto, TypeOK
  <2>6. CASE ReconcileBegins \/ ReconcileStops \/ ReconcileGoesOn
    BY <2>6 DEF ReconcileBegins, ReconcileStops, ReconcileGoesOn, Hears, Deaf, Goto, TypeOK
  <2> QED BY <2>1, <2>2, <2>3, <2>4, <2>5, <2>6 DEF Next
<1> QED BY <1>1, <1>2, TypeCorrect, PTL DEF Spec

\* What has stopped has nothing left to do, and main is past only what has
\* stopped.
LEMMA StoppedStep ==
    ASSUME TypeOK, StoppedIsEmpty, [Next]_vars
    PROVE  StoppedIsEmpty'
<1> USE TaskNames
<1>1. \A t \in Joined' : At(t, "off")'
  <2>1. CASE Join
    BY <2>1 DEF Join, Joined, StoppedIsEmpty, At, Task
  <2>2. CASE SpawnSignalTask \/ Serve
    BY <2>2 DEF SpawnSignalTask, Serve, Joined
  <2>3. CASE main' = main
    <3>1. Joined' = Joined /\ Joined \subseteq Task
      BY <2>3 DEF Joined, Task
    <3> QED BY <3>1, <2>3, OffStaysOff DEF StoppedIsEmpty
  <2>4. main' = main \/ MainStep
    BY DEF Next, SIGTERM, trigger, Accept, Answer, ServerStep, StopAccepting, Drained,
           ListenerStep, ListenerTop, ListenerConnects, ListenerRetries, ListenerStops,
           WorkerStep, WorkerTop, WorkerClaims, WorkerWakes, WorkerStopsIdle, WorkerGoesOn,
           ReconcileBegins, ReconcileStops, ReconcileGoesOn, vars
  <2> QED BY <2>1, <2>2, <2>3, <2>4 DEF MainStep
<1>2. (/\ main \in {"binding", "armed"} => At(Server, "off")
       /\ At(Server, "off") => requests = 0
       /\ \A w \in Worker : ~At(w, "batch") => hand[w] = 0)'
  <2>1. CASE MainStep
    <3>1. CASE SpawnSignalTask
      BY <3>1 DEF SpawnSignalTask, At, StoppedIsEmpty
    <3>2. CASE Serve
      BY <3>2 DEF Serve, Goto, At, StoppedIsEmpty, TypeOK
    <3>3. CASE Join
      BY <3>3 DEF Join, At, StoppedIsEmpty
    <3> QED BY <2>1, <3>1, <3>2, <3>3 DEF MainStep
  <2>2. CASE SIGTERM \/ trigger \/ UNCHANGED vars
    BY <2>2 DEF SIGTERM, trigger, vars, At, StoppedIsEmpty
  <2>3. CASE Accept \/ Answer
    <3>1. At(Server, "off") => requests = 0 /\ ~(requests > 0) /\ ~At(Server, "open")
      BY DEF StoppedIsEmpty, At
    <3>2. UNCHANGED <<main, place, hand>> /\ (At(Server, "off") => requests' = 0)
      BY <2>3, <3>1 DEF Accept, Answer
    <3> QED BY <3>2 DEF At, StoppedIsEmpty
  <2>4. CASE ServerStep
    BY <2>4 DEF ServerStep, StopAccepting, Drained, Goto, At, StoppedIsEmpty, TypeOK
  <2>5. CASE ListenerStep
    BY <2>5 DEF ListenerStep, ListenerTop, ListenerConnects, ListenerRetries, ListenerStops,
                Goto, At, StoppedIsEmpty, TypeOK
  <2>6. ASSUME NEW w \in Worker, WorkerStep(w)
        PROVE  (/\ main \in {"binding", "armed"} => At(Server, "off")
                /\ At(Server, "off") => requests = 0
                /\ \A v \in Worker : ~At(v, "batch") => hand[v] = 0)'
    <3>1. CASE WorkerTop(w) \/ WorkerWakes(w) \/ WorkerStopsIdle(w)
      BY <3>1 DEF WorkerTop, WorkerWakes, WorkerStopsIdle, Goto, At, StoppedIsEmpty, TypeOK
    <3>2. CASE WorkerClaims(w)
      BY <3>2 DEF WorkerClaims, Goto, At, StoppedIsEmpty, TypeOK
    <3>3. CASE WorkerGoesOn(w)
      BY <3>3 DEF WorkerGoesOn, Goto, At, StoppedIsEmpty, TypeOK
    <3> QED BY <2>6, <3>1, <3>2, <3>3 DEF WorkerStep
  <2>7. CASE ReconcileBegins \/ ReconcileStops \/ ReconcileGoesOn
    BY <2>7 DEF ReconcileBegins, ReconcileStops, ReconcileGoesOn, Goto, At, StoppedIsEmpty, TypeOK
  <2> QED BY <2>1, <2>2, <2>3, <2>4, <2>5, <2>6, <2>7 DEF Next
<1> QED BY <1>1, <1>2 DEF StoppedIsEmpty

\* A process that exits has let its requests, its jobs and its tasks end.
THEOREM CleanExit == Spec => []ExitIsClean
<1> USE TaskNames
<1>1. Init => StoppedIsEmpty
  BY DEF Init, StoppedIsEmpty, Joined, At
<1>2. TypeOK /\ StoppedIsEmpty /\ [Next]_vars => StoppedIsEmpty'
  BY StoppedStep
<1>3. StoppedIsEmpty => ExitIsClean
  BY DEF StoppedIsEmpty, Joined, ExitIsClean, At, Task
<1> QED BY <1>1, <1>2, <1>3, TypeCorrect, PTL DEF Spec
=============================================================================
