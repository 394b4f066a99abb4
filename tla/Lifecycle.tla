----------------------------- MODULE Lifecycle -----------------------------
(***************************************************************************)
(* One process from the moment its tasks run until main returns (main.rs): *)
(* the HTTP server, the job workers, the job listener and the reconcile    *)
(* task, the task that waits for SIGTERM, and main, which joins the others *)
(* in turn.                                                                *)
(*                                                                         *)
(* tasks/shutdown.rs is a broadcast channel: the signal task sends one     *)
(* message to every receiver that exists by then; `told` holds the tasks   *)
(* whose receiver has it unread.  wait() and is_triggered() both take the  *)
(* message out.  The sender lives as long as main does, so no receiver     *)
(* ever finds the channel closed.                                          *)
(***************************************************************************)
EXTENDS Integers

CONSTANTS
    Worker,       \* WORKER_CONCURRENCY tasks
    BatchSize,    \* bound: jobs in a claimed batch
    MaxAccounts,  \* bound: accounts in a reconcile pass
    MaxRequests   \* bound: requests in flight

Server    == "server"
Listener  == "listener"
Reconcile == "reconcile"
Task      == Worker \cup {Server, Listener, Reconcile}

ASSUME WorkerAssumption == Worker \cap {Server, Listener, Reconcile} = {}
ASSUME BoundAssumption == BatchSize \in Nat /\ MaxAccounts \in Nat /\ MaxRequests \in Nat

VARIABLES
    main,       \* where main is
    signal,     \* the signal task: "none", "waiting", "caught", "sent"
    draining,   \* AppState.draining: /ready answers 503
    told,
    place,      \* place[t]: where task t is in its run()
    hand,       \* hand[w]: the jobs of w's batch still to be gone through
    pass,       \* accounts of the reconcile pass still to be refreshed
    requests    \* requests in flight

vars == <<main, signal, draining, told, place, hand, pass, requests>>

Init ==
    /\ main = "binding" /\ signal = "none" /\ draining = FALSE /\ told = {}
    /\ place = [t \in Task |-> CASE t = Server -> "off" [] t = Reconcile -> "delay" [] OTHER -> "top"]
    /\ hand = [w \in Worker |-> 0] /\ pass = 0 /\ requests = 0

At(t, p)   == place[t] = p
Goto(t, p) == place' = [place EXCEPT ![t] = p]

\* wait() returns, or is_triggered() says so.
Hears(t) == t \in told /\ told' = told \ {t}
Deaf(t)  == t \notin told /\ UNCHANGED told

-----------------------------------------------------------------------------
(* main and the signal task.                                               *)

\* The address is bound; the signal task is spawned.
SpawnSignalTask ==
    /\ main = "binding" /\ main' = "armed" /\ signal' = "waiting"
    /\ UNCHANGED <<draining, told, place, hand, pass, requests>>

\* Only now does the server have a receiver.
Serve ==
    /\ main = "armed" /\ main' = "serving" /\ Goto(Server, "open")
    /\ UNCHANGED <<signal, draining, told, hand, pass, requests>>

\* Mutant of SIGTERM: the store is left out.
SIGTERMUnannounced ==
    /\ signal = "waiting" /\ signal' = "caught"
    /\ UNCHANGED <<main, draining, told, place, hand, pass, requests>>

SIGTERM ==
    /\ signal = "waiting" /\ signal' = "caught" /\ draining' = TRUE
    /\ UNCHANGED <<main, told, place, hand, pass, requests>>

trigger ==
    /\ signal = "caught" /\ signal' = "sent"
    /\ told' = {t \in Task : ~At(t, "off")}
    /\ UNCHANGED <<main, draining, place, hand, pass, requests>>

\* Mutant of Join: main does not wait for the reconcile task.
JoinWorkersOnly ==
    /\ \/ main = "serving" /\ At(Server, "off") /\ main' = "joining workers"
       \/ main = "joining workers" /\ (\A w \in Worker : At(w, "off")) /\ main' = "exited"
    /\ UNCHANGED <<signal, draining, told, place, hand, pass, requests>>

\* main waits for the server, the workers, the listener, the reconcile task.
Join ==
    /\ \/ main = "serving" /\ At(Server, "off") /\ main' = "joining workers"
       \/ main = "joining workers" /\ (\A w \in Worker : At(w, "off")) /\ main' = "joining listener"
       \/ main = "joining listener" /\ At(Listener, "off") /\ main' = "joining reconcile"
       \/ main = "joining reconcile" /\ At(Reconcile, "off") /\ main' = "exited"
    /\ UNCHANGED <<signal, draining, told, place, hand, pass, requests>>

-----------------------------------------------------------------------------
(* The server: with_graceful_shutdown stops accepting and lets the requests*)
(* in flight end.                                                          *)

Accept ==
    /\ At(Server, "open") /\ requests < MaxRequests /\ requests' = requests + 1
    /\ UNCHANGED <<main, signal, draining, told, place, hand, pass>>

Answer ==
    /\ requests > 0 /\ requests' = requests - 1
    /\ UNCHANGED <<main, signal, draining, told, place, hand, pass>>

StopAccepting ==
    /\ At(Server, "open") /\ Hears(Server) /\ Goto(Server, "closing")
    /\ UNCHANGED <<main, signal, draining, hand, pass, requests>>

Drained ==
    /\ At(Server, "closing") /\ requests = 0 /\ Goto(Server, "off")
    /\ UNCHANGED <<main, signal, draining, told, hand, pass, requests>>

-----------------------------------------------------------------------------
(* The job listener.                                                       *)

\* Mutant of ListenerTop: the test is made and its outcome ignored.
ListenerTopDeaf ==
    /\ At(Listener, "top")
    /\ \/ Hears(Listener) /\ Goto(Listener, "connecting")
       \/ Deaf(Listener) /\ Goto(Listener, "connecting")
    /\ UNCHANGED <<main, signal, draining, hand, pass, requests>>

ListenerTop ==
    /\ At(Listener, "top")
    /\ \/ Hears(Listener) /\ Goto(Listener, "off")
       \/ Deaf(Listener) /\ Goto(Listener, "connecting")
    /\ UNCHANGED <<main, signal, draining, hand, pass, requests>>

\* connect_with and LISTEN, neither of which looks at the channel.
ListenerConnects ==
    /\ At(Listener, "connecting")
    /\ Goto(Listener, "receiving") \/ Goto(Listener, "backoff")
    /\ UNCHANGED <<main, signal, draining, told, hand, pass, requests>>

\* The sleep ends, or the connection is lost; a notification only wakes the
\* idle workers, who poll anyway.
ListenerRetries ==
    /\ At(Listener, "backoff") \/ At(Listener, "receiving")
    /\ Goto(Listener, "top")
    /\ UNCHANGED <<main, signal, draining, told, hand, pass, requests>>

ListenerStops ==
    /\ At(Listener, "backoff") \/ At(Listener, "receiving")
    /\ Hears(Listener) /\ Goto(Listener, "off")
    /\ UNCHANGED <<main, signal, draining, hand, pass, requests>>

-----------------------------------------------------------------------------
(* A job worker; what it does to the rows is module JobQueue.              *)

\* Mutant of WorkerTop: the loop does not begin with is_triggered.
WorkerTopUnchecked(w) ==
    /\ At(w, "top") /\ Goto(w, "claim")
    /\ UNCHANGED <<main, signal, draining, told, hand, pass, requests>>

WorkerTop(w) ==
    /\ At(w, "top")
    /\ \/ Hears(w) /\ Goto(w, "off")
       \/ Deaf(w) /\ Goto(w, "claim")
    /\ UNCHANGED <<main, signal, draining, hand, pass, requests>>

WorkerClaims(w) ==
    /\ At(w, "claim")
    /\ \E n \in 0..BatchSize :
         hand' = [hand EXCEPT ![w] = n] /\ Goto(w, IF n = 0 THEN "idle" ELSE "batch")
    /\ UNCHANGED <<main, signal, draining, told, pass, requests>>

\* The select of an empty or failed claim.
WorkerWakes(w) ==
    /\ At(w, "idle") /\ Goto(w, "top")
    /\ UNCHANGED <<main, signal, draining, told, hand, pass, requests>>

WorkerStopsIdle(w) ==
    /\ At(w, "idle") /\ Hears(w) /\ Goto(w, "off")
    /\ UNCHANGED <<main, signal, draining, hand, pass, requests>>

\* The for loop: the job is released if the worker hears of the signal just
\* then, and dispatched if not.
WorkerGoesOn(w) ==
    /\ At(w, "batch")
    /\ \/ /\ hand[w] > 0 /\ (Hears(w) \/ Deaf(w))
          /\ hand' = [hand EXCEPT ![w] = hand[w] - 1] /\ UNCHANGED place
       \/ hand[w] = 0 /\ Goto(w, "top") /\ UNCHANGED <<told, hand>>
    /\ UNCHANGED <<main, signal, draining, pass, requests>>

WorkerStep(w) ==
    WorkerTop(w) \/ WorkerClaims(w) \/ WorkerWakes(w) \/ WorkerStopsIdle(w) \/ WorkerGoesOn(w)

-----------------------------------------------------------------------------
(* The reconcile task.                                                     *)

\* INITIAL_DELAY or a tick is over; SELECT did FROM bsky_accounts.
ReconcileBegins ==
    /\ At(Reconcile, "delay") \/ At(Reconcile, "waiting")
    /\ Goto(Reconcile, "pass") /\ pass' \in 0..MaxAccounts
    /\ UNCHANGED <<main, signal, draining, told, hand, requests>>

ReconcileStops ==
    /\ At(Reconcile, "delay") \/ At(Reconcile, "waiting")
    /\ Hears(Reconcile) /\ Goto(Reconcile, "off")
    /\ UNCHANGED <<main, signal, draining, hand, pass, requests>>

\* Mutant of ReconcileGoesOn: one account more than the query returned.
ReconcileGoesOnTooFar ==
    /\ At(Reconcile, "pass")
    /\ \/ pass > 0 /\ Hears(Reconcile) /\ Goto(Reconcile, "waiting") /\ pass' = 0
       \/ Deaf(Reconcile) /\ pass' = pass - 1 /\ UNCHANGED place
       \/ pass = 0 /\ Goto(Reconcile, "waiting") /\ UNCHANGED <<told, pass>>
    /\ UNCHANGED <<main, signal, draining, hand, requests>>

\* The for loop: is_triggered breaks out of it, and only out of it.
ReconcileGoesOn ==
    /\ At(Reconcile, "pass")
    /\ \/ pass > 0 /\ Hears(Reconcile) /\ Goto(Reconcile, "waiting") /\ pass' = 0
       \/ pass > 0 /\ Deaf(Reconcile) /\ pass' = pass - 1 /\ UNCHANGED place
       \/ pass = 0 /\ Goto(Reconcile, "waiting") /\ UNCHANGED <<told, pass>>
    /\ UNCHANGED <<main, signal, draining, hand, requests>>

MainStep     == SpawnSignalTask \/ Serve \/ Join
ServerStep   == StopAccepting \/ Drained
ListenerStep == ListenerTop \/ ListenerConnects \/ ListenerRetries \/ ListenerStops

Next ==
    \/ MainStep \/ SIGTERM \/ trigger
    \/ Accept \/ Answer \/ ServerStep \/ ListenerStep
    \/ \E w \in Worker : WorkerStep(w)
    \/ ReconcileBegins \/ ReconcileStops \/ ReconcileGoesOn

Spec == Init /\ [][Next]_vars

\* Every task runs, every await ends, every request is answered.  A select
\* whose branches are ready again and again takes each of them some time.
Fairness ==
    /\ WF_vars(MainStep) /\ WF_vars(trigger)
    /\ WF_vars(ServerStep) /\ WF_vars(Answer) /\ WF_vars(ListenerStep)
    /\ \A w \in Worker : WF_vars(WorkerStep(w))
    /\ WF_vars(ReconcileBegins \/ ReconcileGoesOn) /\ SF_vars(ReconcileStops)

FairSpec == Spec /\ Fairness

-----------------------------------------------------------------------------
(* Properties.                                                             *)

\* Every local keeps its type.
TypeOK ==
    /\ main \in {"binding", "armed", "serving", "joining workers", "joining listener",
                 "joining reconcile", "exited"}
    /\ signal \in {"none", "waiting", "caught", "sent"} /\ draining \in BOOLEAN
    /\ told \in SUBSET Task
    /\ place \in [Task -> {"off", "top", "claim", "idle", "batch", "connecting", "receiving",
                           "backoff", "delay", "pass", "waiting", "open", "closing"}]
    /\ hand \in [Worker -> 0..BatchSize]
    /\ pass \in 0..MaxAccounts /\ requests \in 0..MaxRequests

\* The tasks that go on after the message was sent and no longer have it.
Missed == {t \in Task : signal = "sent" /\ t \notin told /\ place[t] \notin {"off", "closing"}}

\* A process that exits has let everything end: main returns only when no
\* request is in flight, no job is in a worker's hands and no task is left.
ExitIsClean ==
    main = "exited" =>
      /\ \A t \in Task : At(t, "off")
      /\ requests = 0 /\ \A w \in Worker : hand[w] = 0

\* The inductive core: what has stopped has nothing left to do, and main is
\* past the tasks it has joined.
Joined ==
    CASE main = "joining workers"   -> {Server}
      [] main = "joining listener"  -> {Server} \cup Worker
      [] main = "joining reconcile" -> {Server, Listener} \cup Worker
      [] main = "exited"            -> Task
      [] OTHER                      -> {}

StoppedIsEmpty ==
    /\ \A t \in Joined : At(t, "off")
    /\ main \in {"binding", "armed"} => At(Server, "off")
    /\ At(Server, "off") => requests = 0
    /\ \A w \in Worker : ~At(w, "batch") => hand[w] = 0

\* Nothing stops before /ready answers 503 (routes/health.rs:78), so a
\* balancer that looks has seen the process draining first; and no task
\* stops but by the message.
UnreadyFirst ==
    /\ main = "binding" => signal = "none"
    /\ signal \in {"caught", "sent"} => draining
    /\ told # {} => signal = "sent"
    /\ \A t \in Task : At(t, "off") =>
         signal = "sent" \/ (t = Server /\ main \in {"binding", "armed"})
    /\ At(Server, "closing") => signal = "sent"

\* Wherever the message finds it, connecting, listening or backing off, the
\* listener stops: it never goes on without it.
ListenerHears == Listener \notin Missed

LifecycleInv == ExitIsClean /\ StoppedIsEmpty /\ UnreadyFirst /\ ListenerHears

\* "HTTP drained; waiting for workers to finish in-flight jobs", "Server
\* stopped" (main.rs:282, 297): a SIGTERM that finds the process serving ends
\* it.
SignalEndsProcess == signal = "caught" /\ main = "serving" ~> main = "exited"

\* What the code does of that: the process ends unless a task missed the
\* message.  A worker misses it in a batch (the release of a job spends it),
\* the reconcile task in a pass (the break spends it), the server before
\* it has subscribed.  Nothing else keeps the process from ending: neither
\* requests in flight, nor an idle poll, nor a listener that cannot connect.
EndsUnlessMissed == signal = "sent" ~> main = "exited" \/ Missed # {}
=============================================================================
