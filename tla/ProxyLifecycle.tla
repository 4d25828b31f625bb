--------------------------- MODULE ProxyLifecycle ---------------------------
(***************************************************************************)
(* One run of the process, from bind to exit: run_proxy and the reload     *)
(* task (crates/freja/src/proxy.rs), the accept loops of the three servers *)
(* (crates/freja-proxy/src/{tcp,socks,http}/server.rs), the HTTP           *)
(* connection with its task tracker (http/server.rs), the audit writer     *)
(* seen through AuditLog's interface, and the terminal thread.             *)
(*                                                                         *)
(* What a session does between its first and its last audit record is left *)
(* to the modules of the protocols; here it runs for a while, may start    *)
(* tasks (tunnels, body pumps, upstream connections), and ends.            *)
(***************************************************************************)
EXTENDS Integers, FiniteSets, Sequences

CONSTANTS
    Listeners,       \* the members of run_proxy's JoinSet
    Kind,            \* Kind[l] : "tcp", "socks5", "http" or "repeat"
    Conns,           \* connections that may arrive
    Connections,     \* limits.connections, per listener
    Tasks            \* bound: tasks one HTTP connection may start

ASSUME KindAssumption ==
    Kind \in [Listeners -> {"tcp", "socks5", "http", "repeat"}]
ASSUME ConnsAssumption == IsFiniteSet(Conns)
ASSUME ConnectionsAssumption == Connections \in Nat \ {0}

VARIABLES
    main,        \* run_proxy: where it is, first_failure, audit_completed_early
    shutdown,    \* the watch channel's value
    listener,    \* what each member of the JoinSet is doing
    permits,     \* each listener's semaphore
    conn,        \* each session task
    tracker,     \* track_connection_tasks of each connection
    task,        \* the tasks of each HTTP connection and their handles
    writer,      \* the audit writer task
    log,         \* per connection: the records the writer took
    tui,         \* the terminal thread; "none" when headless
    reload       \* the reload task runs

sessionVars == <<conn, tracker, task, log>>
processVars == <<main, shutdown, writer, tui, reload>>
vars == <<processVars, listener, permits, sessionVars>>

-----------------------------------------------------------------------------
(* Start *)

NoConn == [pc |-> "none", at |-> CHOOSE l \in Listeners : TRUE]

Init ==
    /\ main = [pc |-> "bind", first_failure |-> FALSE, audit_completed_early |-> FALSE,
               result |-> "none"]
    /\ shutdown = FALSE
    /\ listener = [l \in Listeners |-> "unbound"]
    /\ permits = [l \in Listeners |-> Connections]
    /\ conn = [c \in Conns |-> NoConn]
    /\ tracker = [c \in Conns |-> "none"]
    /\ task = [c \in Conns |-> [k \in Tasks |-> [pc |-> "none", handle |-> "none"]]]
    /\ writer = "none"
    /\ log = [c \in Conns |-> <<>>]
    /\ tui \in {"none", "prepared"}
    /\ reload = FALSE

Running == main.pc # "exited"

Exit(result) == main' = [main EXCEPT !.pc = "exited", !.result = result]

\* bind_configured_servers: the first failure ends the start.
Bind(l) ==
    /\ main.pc = "bind"
    /\ listener[l] = "unbound"
    /\ \/ listener' = [listener EXCEPT ![l] = "bound"] /\ UNCHANGED main
       \/ Exit("err") /\ UNCHANGED listener
    /\ UNCHANGED <<shutdown, permits, sessionVars, writer, tui, reload>>

\* spawn_audit_writer creates the segment and loads the checkpoint key.
SpawnWriter ==
    /\ main.pc = "bind"
    /\ \A l \in Listeners : listener[l] = "bound"
    /\ \/ writer' = "open" /\ main' = [main EXCEPT !.pc = "spawn"]
       \/ Exit("err") /\ UNCHANGED writer
    /\ UNCHANGED <<shutdown, listener, permits, sessionVars, tui, reload>>

\* The reload task, the terminal thread, and the JoinSet of listeners.
SpawnTasks ==
    /\ main.pc = "spawn"
    /\ \/ /\ main' = [main EXCEPT !.pc = "wait"]
          /\ reload' = TRUE
          /\ tui' = IF tui = "none" THEN "none" ELSE "running"
          /\ listener' = [l \in Listeners |-> "accepting"]
       \/ Exit("err") /\ UNCHANGED <<reload, tui, listener>>
    /\ UNCHANGED <<shutdown, permits, sessionVars, writer>>

-----------------------------------------------------------------------------
(* Audit, as a session sees it: DataPlaneServices::publish under fail-closed,   *)
(* the policy under which it can fail.  It waits for room, and fails when the    *)
(* consumer is gone; what fail-open loses is AuditPipeline's subject.            *)

Published(c, event) ==
    /\ writer = "open"
    /\ log' = [log EXCEPT ![c] = Append(@, event)]

PublishFails ==
    /\ writer # "open"
    /\ UNCHANGED log

-----------------------------------------------------------------------------
(* The accept loop: *Server::run *)

Live(c) == conn[c].pc \in {"opening", "serving", "tracking", "closing"}

SessionsOf(l) == {c \in Conns : conn[c].at = l /\ (Live(c) \/ conn[c].pc \in {"ended", "panicked"})}

\* A session task is over, by whatever way: it drops its permit.
Release(l, sessions) == permits' = [permits EXCEPT ![l] = @ + Cardinality(sessions)]

\* The run future returns an error: its JoinSet is dropped and aborts the
\* sessions that still run; their trackers and tasks are separate tasks.
ListenerFails(l) ==
    /\ listener' = [listener EXCEPT ![l] = "failed"]
    /\ conn' = [c \in Conns |->
                  IF c \in SessionsOf(l)
                  THEN [conn[c] EXCEPT !.pc = IF Live(c) THEN "aborted" ELSE "joined"]
                  ELSE conn[c]]
    /\ Release(l, {c \in SessionsOf(l) : Live(c)})

Spawn(l, c) ==
    /\ conn' = [conn EXCEPT ![c] = [pc |-> "opening", at |-> l]]
    /\ permits' = [permits EXCEPT ![l] = @ - 1]
    /\ UNCHANGED listener

\* try_acquire_owned found no permit.
TurnAway(l, c) ==
    /\ conn' = [conn EXCEPT ![c] = [pc |-> "rejected", at |-> l]]
    /\ listener' = [listener EXCEPT ![l] = "rejecting"]
    /\ UNCHANGED permits

\* Fault: the limit is compared one too late.
Accept_OneMore(l, c) ==
    /\ Kind[l] # "repeat"
    /\ listener[l] = "accepting"
    /\ conn[c].pc = "none"
    /\ IF permits[l] >= 0 THEN Spawn(l, c) ELSE TurnAway(l, c)
    /\ UNCHANGED <<processVars, tracker, task, log>>

Accept(l, c) ==
    /\ Kind[l] # "repeat"
    /\ listener[l] = "accepting"
    /\ conn[c].pc = "none"
    /\ IF permits[l] > 0 THEN Spawn(l, c) ELSE TurnAway(l, c)
    /\ UNCHANGED <<processVars, tracker, task, log>>

\* listener.accept() fails; for the repeat executor, execute meets an audit
\* failure.
AcceptFails(l) ==
    /\ listener[l] = "accepting"
    /\ Kind[l] = "repeat" => PublishFails
    /\ ListenerFails(l)
    /\ UNCHANGED <<processVars, tracker, task, log>>

\* reject_at_capacity: two records, and the loop waits for both; then the socket
\* is dropped and the loop goes on.
Reject(l, c) ==
    /\ listener[l] = "rejecting"
    /\ conn[c].at = l
    /\ \/ /\ conn[c].pc = "rejected"
          /\ Published(c, "accepted")
          /\ conn' = [conn EXCEPT ![c].pc = "rejected_accepted"]
          /\ UNCHANGED listener
       \/ /\ conn[c].pc = "rejected_accepted"
          /\ Published(c, "limit")
          /\ conn' = [conn EXCEPT ![c].pc = "joined"]
          /\ listener' = [listener EXCEPT ![l] = "accepting"]
    /\ UNCHANGED <<processVars, permits, tracker, task>>

RejectFails(l) ==
    /\ listener[l] = "rejecting"
    /\ PublishFails
    /\ ListenerFails(l)
    /\ UNCHANGED <<processVars, tracker, task>>

\* sessions.join_next() and handle_join: a session's error is only logged, a
\* panic ends the listener.
JoinSession(l, c) ==
    /\ listener[l] \in {"accepting", "draining"}
    /\ c \in SessionsOf(l)
    /\ ~Live(c)
    /\ IF conn[c].pc = "panicked"
       THEN ListenerFails(l)
       ELSE conn' = [conn EXCEPT ![c].pc = "joined"] /\ UNCHANGED <<listener, permits>>
    /\ UNCHANGED <<processVars, tracker, task, log>>

ObserveShutdown(l) ==
    /\ listener[l] = "accepting"
    /\ shutdown
    /\ listener' = [listener EXCEPT ![l] = "draining"]
    /\ UNCHANGED <<processVars, permits, sessionVars>>

Drained(l) ==
    /\ listener[l] = "draining"
    /\ SessionsOf(l) = {}
    /\ listener' = [listener EXCEPT ![l] = "ok"]
    /\ UNCHANGED <<processVars, permits, sessionVars>>

AcceptLoop(l) ==
    \/ \E c \in Conns : Accept(l, c) \/ Reject(l, c) \/ JoinSession(l, c)
    \/ AcceptFails(l) \/ RejectFails(l) \/ ObserveShutdown(l) \/ Drained(l)

-----------------------------------------------------------------------------
(* A session: serve_connection, and in outline run_static_session and           *)
(* serve_session, which have no tasks of their own                              *)

End(c, how) ==
    /\ conn' = [conn EXCEPT ![c].pc = how]
    /\ Release(conn[c].at, {c})

\* ConnectionAccepted comes first: no session without it.
Open(c) ==
    /\ conn[c].pc = "opening"
    /\ \/ /\ Published(c, "accepted")
          /\ conn' = [conn EXCEPT ![c].pc = "serving"]
          /\ tracker' = IF Kind[conn[c].at] = "http"
                        THEN [tracker EXCEPT ![c] = "open"] ELSE tracker
          /\ UNCHANGED permits
       \/ PublishFails /\ End(c, "ended") /\ UNCHANGED tracker
    /\ UNCHANGED <<processVars, listener, task>>

\* run_hyper_connection (or the relay) returns: the peers are done, something
\* failed, or shutdown asked for it.
Served(c) ==
    /\ conn[c].pc = "serving"
    /\ conn' = [conn EXCEPT ![c].pc = IF tracker[c] = "none" THEN "closing" ELSE "tracking"]
    /\ UNCHANGED <<processVars, listener, permits, tracker, task, log>>

\* A session panics: join_next hands the listener a JoinError.
Panic(c) ==
    /\ conn[c].pc = "serving"
    /\ End(c, "panicked")
    /\ UNCHANGED <<processVars, listener, tracker, task, log>>

\* tracker.await
Tracked(c) ==
    /\ conn[c].pc = "tracking"
    /\ tracker[c] \in {"ok", "err"}
    /\ conn' = [conn EXCEPT ![c].pc = "closing"]
    /\ UNCHANGED <<processVars, listener, permits, tracker, task, log>>

\* FlowClosed is the last thing a session does.
Close(c) ==
    /\ conn[c].pc = "closing"
    /\ Published(c, "closed") \/ PublishFails
    /\ End(c, "ended")
    /\ UNCHANGED <<processVars, listener, tracker, task>>

-----------------------------------------------------------------------------
(* Tasks of an HTTP connection and track_connection_tasks *)

\* A task runs a blind tunnel, a body pump or an upstream connection; one that
\* runs an intercepted tunnel keeps an HttpService and so a sender of handles.
TaskKinds == {"plain", "intercepted"}

Busy(c, k) == task[c][k].pc \in TaskKinds

Handles(c, handle) == {k \in Tasks : task[c][k].handle = handle}

HoldsSender(c) ==
    \/ conn[c].pc = "serving"
    \/ \E k \in Tasks : task[c][k].pc = "intercepted"

\* tokio::spawn and register_task.  The channel holds one handle; when the
\* tracker is gone the send fails and the task is aborted.
RegisterTask(c, k, kind) ==
    /\ HoldsSender(c)
    /\ tracker[c] # "none"
    /\ task[c][k].pc = "none"
    /\ \/ /\ tracker[c] = "open"
          /\ Handles(c, "queued") = {}
          /\ task' = [task EXCEPT ![c][k] = [pc |-> kind, handle |-> "queued"]]
       \/ /\ tracker[c] # "open"
          /\ task' = [task EXCEPT ![c][k] = [pc |-> "aborted", handle |-> "lost"]]
    /\ UNCHANGED <<processVars, listener, permits, conn, tracker, log>>

\* The task's future completes: its peers are done, an error, or shutdown.
TaskEnds(c, k, result) ==
    /\ Busy(c, k)
    /\ task' = [task EXCEPT ![c][k].pc = result]
    /\ UNCHANGED <<processVars, listener, permits, conn, tracker, log>>

TrackerReceives(c, k) ==
    /\ tracker[c] = "open"
    /\ task[c][k].handle = "queued"
    /\ task' = [task EXCEPT ![c][k].handle = "tracked"]
    /\ UNCHANGED <<processVars, listener, permits, conn, tracker, log>>

\* tasks.join_next(): the first failure makes track_connection_tasks return; the
\* receiver and the other handles are dropped, which detaches their tasks.
TrackerJoins(c, k) ==
    /\ tracker[c] = "open"
    /\ task[c][k].handle = "tracked"
    /\ ~Busy(c, k)
    /\ IF task[c][k].pc = "err"
       THEN /\ tracker' = [tracker EXCEPT ![c] = "err"]
            /\ task' = [task EXCEPT ![c] = [j \in Tasks |->
                            IF j = k THEN [task[c][k] EXCEPT !.handle = "joined"]
                            ELSE IF task[c][j].handle \in {"queued", "tracked"}
                            THEN [task[c][j] EXCEPT !.handle = "lost"]
                            ELSE task[c][j]]]
       ELSE /\ task' = [task EXCEPT ![c][k].handle = "joined"]
            /\ UNCHANGED tracker
    /\ UNCHANGED <<processVars, listener, permits, conn, log>>

\* Fault: the loop ends with the channel, whatever still runs.
TrackerEnds_WithChannel(c) ==
    /\ tracker[c] = "open"
    /\ ~HoldsSender(c)
    /\ Handles(c, "queued") = {}
    /\ tracker' = [tracker EXCEPT ![c] = "ok"]
    /\ UNCHANGED <<processVars, listener, permits, conn, task, log>>

TrackerEnds(c) ==
    /\ tracker[c] = "open"
    /\ ~HoldsSender(c)
    /\ Handles(c, "queued") = {}
    /\ Handles(c, "tracked") = {}
    /\ tracker' = [tracker EXCEPT ![c] = "ok"]
    /\ UNCHANGED <<processVars, listener, permits, conn, task, log>>

TrackerStep(c) ==
    TrackerEnds(c) \/ \E k \in Tasks : TrackerReceives(c, k) \/ TrackerJoins(c, k)

\* What a session does by itself once it is asked to stop.
SessionStep(c) == Open(c) \/ Served(c) \/ Tracked(c) \/ Close(c)

-----------------------------------------------------------------------------
(* The audit writer, the terminal thread and the reload task *)

\* Someone still holds a clone of DataPlaneServices, and with it an
\* AuditPublisher and the UI publisher.
Producers ==
    \/ main.pc \in {"bind", "spawn", "wait", "drain"} \/ reload
    \/ \E l \in Listeners : listener[l] \in {"accepting", "rejecting", "draining"}
    \/ \E c \in Conns : Live(c) \/ \E k \in Tasks : Busy(c, k)

\* The segment cannot be written; the writer returns its error.
WriterFails ==
    /\ writer = "open"
    /\ writer' = "failed"
    /\ UNCHANGED <<main, shutdown, tui, reload, listener,
                   permits, sessionVars>>

\* The last sender is gone and the channel is drained.
WriterCloses ==
    /\ writer = "open"
    /\ ~Producers
    /\ writer' = "closed"
    /\ UNCHANGED <<main, shutdown, tui, reload, listener,
                   permits, sessionVars>>

\* run_tui returns: the operator quits, the terminal fails, or the UI channel is
\* disconnected.
TuiEnds(result) ==
    /\ tui = "running"
    /\ tui' = result
    /\ UNCHANGED <<main, shutdown, writer, reload, listener,
                   permits, sessionVars>>

TuiDisconnects == ~Producers /\ TuiEnds("ok")

-----------------------------------------------------------------------------
(* run_proxy, after the start *)

mainUnchanged == UNCHANGED <<writer, tui, reload, permits,
                             sessionVars>>

\* wait_for_shutdown_trigger returned: shutdown.shutdown() follows at once.
Triggered(failure, audit_early) ==
    /\ main.pc = "wait"
    /\ main' = [main EXCEPT !.pc = "drain", !.first_failure = failure,
                            !.audit_completed_early = audit_early]
    /\ shutdown' = TRUE

SignalTrigger == Triggered(FALSE, FALSE) /\ UNCHANGED listener /\ mainUnchanged

\* The signal stream itself fails: `?` leaves run_proxy without a drain.
SignalFails ==
    /\ main.pc = "wait"
    /\ Exit("err")
    /\ UNCHANGED <<shutdown, listener>> /\ mainUnchanged

Returned(l) == listener[l] \in {"ok", "failed"}

ListenerTrigger(l) ==
    /\ Returned(l)
    /\ Triggered(TRUE, FALSE)
    /\ listener' = [listener EXCEPT ![l] = "joined"]
    /\ mainUnchanged

TuiTrigger ==
    /\ tui \in {"ok", "err"}
    /\ Triggered(FALSE, FALSE)
    /\ UNCHANGED listener /\ mainUnchanged

AuditTrigger ==
    /\ writer \in {"failed", "closed"}
    /\ Triggered(TRUE, TRUE)
    /\ UNCHANGED listener /\ mainUnchanged

\* Fault: what a listener returns after the trigger is ignored.
JoinListener_Ignored(l) ==
    /\ main.pc = "drain"
    /\ Returned(l)
    /\ listener' = [listener EXCEPT ![l] = "joined"]
    /\ UNCHANGED <<main, shutdown>> /\ mainUnchanged

\* listeners.join_next(): the first failure is kept.
JoinListener(l) ==
    /\ main.pc = "drain"
    /\ Returned(l)
    /\ main' = [main EXCEPT !.first_failure = @ \/ listener[l] = "failed"]
    /\ listener' = [listener EXCEPT ![l] = "joined"]
    /\ UNCHANGED shutdown /\ mainUnchanged

\* Fault: the reload task is not stopped and keeps its services.
DropServices_NotReload ==
    /\ main.pc = "drain"
    /\ \A l \in Listeners : listener[l] = "joined"
    /\ main' = [main EXCEPT !.pc = "audit"]
    /\ UNCHANGED <<shutdown, writer, tui, reload, listener, permits,
                   sessionVars>>

\* All listeners are joined: stop the reload task, disconnect the tracing router,
\* drop(services).
DropServices ==
    /\ main.pc = "drain"
    /\ \A l \in Listeners : listener[l] = "joined"
    /\ reload' = FALSE
    /\ main' = [main EXCEPT !.pc = "audit"]
    /\ UNCHANGED <<shutdown, writer, tui, listener, permits, sessionVars>>

\* The audit task is awaited unless the select already consumed it; its error
\* returns before the terminal is joined.
AwaitAudit ==
    /\ main.pc = "audit"
    /\ \/ /\ main.audit_completed_early \/ writer = "closed"
          /\ main' = [main EXCEPT !.pc = "tui"]
       \/ /\ ~main.audit_completed_early
          /\ writer = "failed"
          /\ Exit("err")
    /\ UNCHANGED <<shutdown, listener>> /\ mainUnchanged

JoinTui ==
    /\ main.pc = "tui"
    /\ tui # "running"
    /\ Exit(IF tui = "err" \/ main.first_failure THEN "err" ELSE "ok")
    /\ UNCHANGED <<shutdown, listener>> /\ mainUnchanged

MainStep ==
    \/ \E l \in Listeners : JoinListener(l)
    \/ DropServices \/ AwaitAudit \/ JoinTui

Trigger ==
    \/ SignalTrigger \/ SignalFails \/ TuiTrigger \/ AuditTrigger
    \/ \E l \in Listeners : ListenerTrigger(l)

-----------------------------------------------------------------------------

Next ==
    /\ Running
    /\ \/ \E l \in Listeners : Bind(l) \/ AcceptLoop(l)
       \/ SpawnWriter \/ SpawnTasks \/ Trigger \/ MainStep
       \/ \E c \in Conns : SessionStep(c) \/ Panic(c) \/ TrackerStep(c)
       \/ \E c \in Conns, k \in Tasks :
             \/ \E kind \in TaskKinds : RegisterTask(c, k, kind)
             \/ \E r \in {"ok", "err"} : TaskEnds(c, k, r)
       \/ WriterFails \/ WriterCloses
       \/ TuiDisconnects \/ \E r \in {"ok", "err"} : TuiEnds(r)

Spec == Init /\ [][Next]_vars

\* Every task whose future is ready is polled.  Sessions and tasks have shutdown
\* in each of their selects and time limits elsewhere, so they end after it.
Fairness ==
    /\ WF_vars(Running /\ MainStep)
    /\ WF_vars(Running /\ WriterCloses)
    /\ WF_vars(Running /\ TuiDisconnects)
    /\ \A l \in Listeners : WF_vars(Running /\ AcceptLoop(l))
    /\ \A c \in Conns :
         /\ WF_vars(Running /\ shutdown /\ SessionStep(c))
         /\ WF_vars(Running /\ TrackerStep(c))
         /\ \A k \in Tasks : WF_vars(Running /\ shutdown
                                             /\ \E r \in {"ok", "err"} : TaskEnds(c, k, r))

FairSpec == Spec /\ Fairness

-----------------------------------------------------------------------------
(* Properties *)

\* The accept loop never runs more sessions than limits.connections, whatever
\* ends a session gives its permit back, and none is given back twice.
ConnectionsBounded ==
    \A l \in Listeners :
        /\ permits[l] >= 0
        /\ permits[l] + Cardinality({c \in SessionsOf(l) : Live(c)}) = Connections

\* track_connection_tasks: as long as none of its tasks failed, an HTTP connection
\* is not reported closed while a task it started is still running.
TrackerHoldsConnection ==
    \A c \in Conns :
        /\ conn[c].pc \in {"closing", "ended"}
        /\ \A k \in Tasks : task[c][k].pc # "err"
        => \A k \in Tasks : ~Busy(c, k)

\* When the process reports success, nothing failed behind its back: every
\* connection it accepted has exactly its two records, in order, turned-away ones
\* included, nothing is left running that the writer could have missed, and
\* whichever of the racing triggers run_proxy woke up for, neither a listener nor
\* the writer nor the terminal had failed.
CleanExitIsHonest ==
    main.result = "ok" =>
        /\ \A c \in Conns : conn[c].pc = "joined" =>
               log[c] \in {<<"accepted", "closed">>, <<"accepted", "limit">>}
        /\ \A c \in Conns : ~Live(c) /\ \A k \in Tasks : ~Busy(c, k)
        /\ writer # "failed"
        /\ tui # "err"
        /\ \A c \in Conns : conn[c].pc \notin {"aborted", "rejected", "rejected_accepted"}

\* Once shutdown is requested, which is never taken back, the process exits:
\* listeners drain, detached tasks end, the writer's last sender goes away and the
\* terminal thread is joined.
ShutdownCompletes == []<>(shutdown => ~Running)
=============================================================================
