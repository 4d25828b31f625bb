------------------------ MODULE ProxyLifecycleProofs ------------------------
(***************************************************************************)
(* Proofs about ProxyLifecycle, for every number of listeners, connections *)
(* and tasks: track_connection_tasks keeps a connection open as long as    *)
(* its tasks run, the accept loops keep to limits.connections, and a       *)
(* process that exits with success has nothing to hide.                    *)
(***************************************************************************)
EXTENDS ProxyLifecycle, FiniteSetTheorems, TLAPS

ConnStates ==
    {"none", "opening", "serving", "tracking", "closing", "ended", "panicked", "aborted",
     "joined", "rejected", "rejected_accepted"}

\* A connection that has arrived belongs to a listener.
ConnTyped ==
    /\ conn \in [Conns -> [pc : ConnStates, at : Listeners \cup {NoConn.at}]]
    /\ \A c \in Conns : conn[c].pc # "none" => conn[c].at \in Listeners

TaskRecord == [pc : TaskKinds \cup {"none", "ok", "err", "aborted"},
               handle : {"none", "queued", "tracked", "joined", "lost"}]

TaskTyped == task \in [Conns -> [Tasks -> TaskRecord]]

\* One connection moves on.
LEMMA ConnMoves ==
    ASSUME ConnTyped, NEW c \in Conns, conn[c].pc # "none", NEW p \in ConnStates,
           conn' = [conn EXCEPT ![c].pc = p]
    PROVE  /\ ConnTyped'
           /\ conn'[c].pc = p /\ conn'[c].at = conn[c].at
           /\ \A d \in Conns \ {c} : conn'[d] = conn[d]
  <1>1. conn'[c] = [conn[c] EXCEPT !.pc = p] /\ \A d \in Conns \ {c} : conn'[d] = conn[d]
    BY DEF ConnTyped
  <1>2. conn[c] \in [pc : ConnStates, at : Listeners \cup {NoConn.at}] /\ conn[c].at \in Listeners
    BY DEF ConnTyped
  <1>3. /\ conn'[c] \in [pc : ConnStates, at : Listeners \cup {NoConn.at}]
        /\ conn'[c].pc = p /\ conn'[c].at = conn[c].at
    BY <1>1, <1>2
  <1>4. conn' \in [Conns -> [pc : ConnStates, at : Listeners \cup {NoConn.at}]]
    BY <1>1, <1>3 DEF ConnTyped
  <1> QED BY <1>1, <1>2, <1>3, <1>4 DEF ConnTyped

\* One task moves on.
LEMMA TaskMoves ==
    ASSUME TaskTyped, NEW c \in Conns, NEW k \in Tasks, NEW t \in TaskRecord,
           task' = [task EXCEPT ![c][k] = t]
    PROVE  /\ TaskTyped'
           /\ task'[c][k] = t
           /\ \A j \in Tasks \ {k} : task'[c][j] = task[c][j]
           /\ \A d \in Conns \ {c} : task'[d] = task[d]
  <1>1. task'[c] = [task[c] EXCEPT ![k] = t] /\ \A d \in Conns \ {c} : task'[d] = task[d]
    BY DEF TaskTyped
  <1>2. task[c] \in [Tasks -> TaskRecord] BY DEF TaskTyped
  <1>3. task'[c] \in [Tasks -> TaskRecord] BY <1>1, <1>2
  <1>4. TaskTyped' BY <1>1, <1>3 DEF TaskTyped
  <1> QED BY <1>1, <1>2, <1>4

-----------------------------------------------------------------------------
(* track_connection_tasks *)

\* A connection at p, its tracker at t and its tasks agree: a tracker that still
\* runs holds the handle of each task that runs, one that returned Ok has outlived
\* all tasks and all senders, and one that returned an error has a failed task to
\* show for it.
Tracks(p, t, tasks) ==
    /\ p \in {"none", "opening"} => t = "none"
    /\ t = "none" => \A k \in Tasks : tasks[k].pc = "none"
    /\ t = "open" =>
          /\ p \notin {"closing", "ended"}
          /\ \A k \in Tasks : tasks[k].pc \in TaskKinds => tasks[k].handle \in {"queued", "tracked"}
    /\ t = "ok" => p # "serving" /\ \A k \in Tasks : tasks[k].pc \notin TaskKinds
    /\ t = "err" => \E k \in Tasks : tasks[k].pc = "err"

TrackInv ==
    /\ ConnTyped
    /\ TaskTyped
    /\ tracker \in [Conns -> {"none", "open", "ok", "err"}]
    /\ \A c \in Conns : Tracks(conn[c].pc, tracker[c], task[c])

\* Before anything is accepted.
LEMMA TrackInit == Init => TrackInv
  <1> SUFFICES ASSUME Init PROVE TrackInv OBVIOUS
  <1>1. ConnTyped BY DEF Init, ConnTyped, ConnStates, NoConn
  <1>2. TaskTyped BY DEF Init, TaskTyped, TaskRecord
  <1>3. ASSUME NEW c \in Conns PROVE Tracks(conn[c].pc, tracker[c], task[c])
    BY DEF Init, NoConn, Tracks
  <1> QED BY <1>1, <1>2, <1>3 DEF Init, TrackInv

\* The accept loop creates connections, joins them and, when it fails, aborts
\* them; none of this makes one serve or close.
LEMMA AcceptMoves ==
    ASSUME ConnTyped, NEW l \in Listeners, AcceptLoop(l)
    PROVE  /\ ConnTyped'
           /\ UNCHANGED <<tracker, task>>
           /\ \A c \in Conns :
                \/ conn'[c] = conn[c]
                \/ conn[c].pc = "none" /\ conn'[c].pc \in {"opening", "rejected"}
                \/ conn'[c].pc \in {"rejected_accepted", "aborted", "joined"}
  <1> DEFINE Goal == /\ ConnTyped'
                     /\ \A c \in Conns :
                          \/ conn'[c] = conn[c]
                          \/ conn[c].pc = "none" /\ conn'[c].pc \in {"opening", "rejected"}
                          \/ conn'[c].pc \in {"rejected_accepted", "aborted", "joined"}
  <1>1. UNCHANGED <<tracker, task>>
    BY DEF AcceptLoop, Accept, Reject, JoinSession, AcceptFails, RejectFails, ObserveShutdown,
           Drained, sessionVars
  <1>2. ASSUME NEW c \in Conns, Accept(l, c) PROVE Goal
    <2>1. PICK p \in {"opening", "rejected"} : conn' = [conn EXCEPT ![c] = [pc |-> p, at |-> l]]
      BY <1>2 DEF Accept, Spawn, TurnAway
    <2> QED BY <1>2, <2>1 DEF ConnTyped, ConnStates, Accept
  <1>3. ASSUME NEW c \in Conns, Reject(l, c) PROVE Goal
    <2>1. PICK p \in {"rejected_accepted", "joined"} :
              conn[c].pc # "none" /\ conn' = [conn EXCEPT ![c].pc = p]
      BY <1>3 DEF Reject
    <2> QED BY <2>1, ConnMoves DEF ConnStates
  <1>4. CASE ListenerFails(l)
    <2>1. ASSUME NEW c \in Conns
          PROVE  \/ conn'[c] = conn[c]
                 \/ \E p \in {"aborted", "joined"} :
                       conn[c].pc # "none" /\ conn'[c] = [conn[c] EXCEPT !.pc = p]
      BY <1>4 DEF ListenerFails, SessionsOf, Live
    <2>2. ASSUME NEW c \in Conns
          PROVE  /\ conn'[c] \in [pc : ConnStates, at : Listeners \cup {NoConn.at}]
                 /\ conn'[c].pc # "none" => conn'[c].at \in Listeners
                 /\ conn'[c] = conn[c] \/ conn'[c].pc \in {"aborted", "joined"}
      BY <2>1 DEF ConnTyped, ConnStates
    <2>3. conn' = [c \in Conns |-> conn'[c]]
      BY <1>4 DEF ListenerFails
    <2>4. ConnTyped' BY <2>2, <2>3 DEF ConnTyped
    <2> QED BY <1>1, <2>2, <2>4
  <1>5. ASSUME NEW c \in Conns, JoinSession(l, c), ~ListenerFails(l) PROVE Goal
    <2>1. conn[c].pc # "none" /\ conn' = [conn EXCEPT ![c].pc = "joined"]
      BY <1>5 DEF JoinSession, SessionsOf, Live
    <2> QED BY <2>1, ConnMoves DEF ConnStates
  <1>6. CASE UNCHANGED conn
    <2>1. ConnTyped' BY <1>6 DEF ConnTyped
    <2>2. \A c \in Conns : conn'[c] = conn[c] BY <1>6
    <2> QED BY <1>1, <2>1, <2>2
  <1> QED BY <1>1, <1>2, <1>3, <1>4, <1>5, <1>6
          DEF AcceptLoop, AcceptFails, RejectFails, ObserveShutdown, Drained, sessionVars

\* So it leaves the tracking alone.
LEMMA TrackAccept ==
    ASSUME TrackInv, NEW l \in Listeners, AcceptLoop(l)
    PROVE  TrackInv'
  <1>1. ASSUME NEW c \in Conns PROVE Tracks(conn'[c].pc, tracker[c], task[c])
    BY AcceptMoves DEF TrackInv, Tracks
  <1> QED BY <1>1, AcceptMoves DEF TrackInv, TaskTyped

\* A session reaches "closing" only behind its tracker.
LEMMA TrackSession ==
    ASSUME TrackInv, NEW c \in Conns, SessionStep(c) \/ Panic(c)
    PROVE  TrackInv'
  <1>1. PICK p \in ConnStates, t \in {"none", "open", "ok", "err"} :
            /\ conn[c].pc # "none" /\ conn' = [conn EXCEPT ![c].pc = p]
            /\ tracker' = [tracker EXCEPT ![c] = t]
            /\ UNCHANGED task
            /\ Tracks(p, t, task[c])
    <2> USE DEF TrackInv, ConnStates
    <2>0. Tracks(conn[c].pc, tracker[c], task[c]) /\ tracker = [tracker EXCEPT ![c] = tracker[c]]
      OBVIOUS
    <2>1. CASE Open(c)
      <3>1. conn[c].pc = "opening" /\ UNCHANGED task
        BY <2>1 DEF Open
      <3>2. \A k \in Tasks : task[c][k].pc = "none"
        BY <2>0, <3>1 DEF Tracks
      <3>3. \/ conn' = [conn EXCEPT ![c].pc = "serving"] /\ tracker' = [tracker EXCEPT ![c] = "open"]
            \/ conn' = [conn EXCEPT ![c].pc = "serving"] /\ tracker' = tracker
            \/ conn' = [conn EXCEPT ![c].pc = "ended"] /\ tracker' = tracker
        BY <2>1 DEF Open, End
      <3>4. /\ Tracks("serving", "open", task[c]) /\ Tracks("serving", "none", task[c])
            /\ Tracks("ended", "none", task[c]) /\ tracker[c] = "none"
        BY <2>0, <3>1, <3>2 DEF Tracks, TaskKinds
      <3> QED BY <2>0, <3>1, <3>3, <3>4
    <2>2. CASE Served(c)
      BY <2>0, <2>2 DEF Served, Tracks
    <2>3. CASE Tracked(c)
      BY <2>0, <2>3 DEF Tracked, Tracks
    <2>4. CASE Close(c)
      BY <2>0, <2>4 DEF Close, End, Tracks
    <2>5. CASE Panic(c)
      BY <2>0, <2>5 DEF Panic, End, Tracks
    <2> QED BY <2>1, <2>2, <2>3, <2>4, <2>5 DEF SessionStep
  <1>2. /\ ConnTyped' /\ conn'[c].pc = p
        /\ \A d \in Conns \ {c} : conn'[d] = conn[d]
    BY <1>1, ConnMoves DEF TrackInv
  <1> QED BY <1>1, <1>2 DEF TrackInv, TaskTyped

\* Tasks are started only by who holds a sender, and end once.
LEMMA TrackTasks ==
    ASSUME TrackInv, NEW c \in Conns, NEW k \in Tasks,
           \/ \E kind \in TaskKinds : RegisterTask(c, k, kind)
           \/ \E r \in {"ok", "err"} : TaskEnds(c, k, r)
           \/ TrackerReceives(c, k)
           \/ TrackerJoins(c, k) /\ UNCHANGED tracker
    PROVE  TrackInv'
  <1>0. task[c][k] \in TaskRecord /\ Tracks(conn[c].pc, tracker[c], task[c])
    BY DEF TrackInv, TaskTyped
  <1>1. PICK t \in TaskRecord :
            /\ task' = [task EXCEPT ![c][k] = t]
            /\ UNCHANGED <<conn, tracker>>
            /\ tracker[c] # "none"
            /\ tracker[c] = "open" /\ t.pc \in TaskKinds => t.handle \in {"queued", "tracked"}
            /\ tracker[c] = "ok" => t.pc \notin TaskKinds
            /\ task[c][k].pc = "err" => t.pc = "err"
    <2> USE DEF TaskRecord, TaskKinds
    <2>1. ASSUME NEW kind \in TaskKinds, RegisterTask(c, k, kind)
          PROVE  tracker[c] = "ok" => FALSE
      BY <1>0, <2>1 DEF RegisterTask, HoldsSender, Tracks
    <2>2. ASSUME NEW kind \in TaskKinds, RegisterTask(c, k, kind)
          PROVE  \E t \in {[pc |-> kind, handle |-> "queued"], [pc |-> "aborted", handle |-> "lost"]} :
                    /\ task' = [task EXCEPT ![c][k] = t]
                    /\ tracker[c] # "none" /\ UNCHANGED <<conn, tracker>>
                    /\ tracker[c] = "open" /\ t.pc \in TaskKinds => t.handle = "queued"
                    /\ task[c][k].pc = "none"
      BY <2>2 DEF RegisterTask
    <2>3. CASE \E kind \in TaskKinds : RegisterTask(c, k, kind)
      BY <2>1, <2>2, <2>3
    <2>4. ASSUME NEW r \in {"ok", "err"}, TaskEnds(c, k, r)
          PROVE  /\ task' = [task EXCEPT ![c][k] = [task[c][k] EXCEPT !.pc = r]]
                 /\ tracker[c] # "none" /\ UNCHANGED <<conn, tracker>>
                 /\ task[c][k].pc # "err"
      BY <1>0, <2>4 DEF TaskEnds, Busy, Tracks
    <2>5. CASE \E r \in {"ok", "err"} : TaskEnds(c, k, r)
      BY <1>0, <2>4, <2>5
    <2>6. CASE TrackerReceives(c, k)
      <3>1. task' = [task EXCEPT ![c][k] = [task[c][k] EXCEPT !.handle = "tracked"]]
        BY <2>6 DEF TrackerReceives
      <3>2. /\ [task[c][k] EXCEPT !.handle = "tracked"] \in TaskRecord
            /\ [task[c][k] EXCEPT !.handle = "tracked"].pc = task[c][k].pc
            /\ [task[c][k] EXCEPT !.handle = "tracked"].handle = "tracked"
        BY <1>0
      <3>3. tracker[c] = "open" /\ UNCHANGED <<conn, tracker>>
        BY <2>6 DEF TrackerReceives
      <3> QED BY <3>1, <3>2, <3>3
    <2>7. CASE TrackerJoins(c, k) /\ UNCHANGED tracker
      <3>1. task[c][k].pc # "err" /\ tracker[c] = "open" /\ UNCHANGED conn
        BY <2>7 DEF TrackerJoins, TrackInv
      <3>2. task' = [task EXCEPT ![c][k] = [task[c][k] EXCEPT !.handle = "joined"]]
        BY <2>7, <3>1 DEF TrackerJoins
      <3>3. task[c][k].pc \notin TaskKinds
        BY <2>7 DEF TrackerJoins, Busy
      <3>4. /\ [task[c][k] EXCEPT !.handle = "joined"] \in TaskRecord
            /\ [task[c][k] EXCEPT !.handle = "joined"].pc = task[c][k].pc
        BY <1>0
      <3> QED BY <2>7, <3>1, <3>2, <3>3, <3>4
    <2> QED BY <2>3, <2>5, <2>6, <2>7
  <1>2. /\ TaskTyped' /\ task'[c][k] = t
        /\ \A j \in Tasks \ {k} : task'[c][j] = task[c][j]
        /\ \A d \in Conns \ {c} : task'[d] = task[d]
    <2>1. TaskTyped BY DEF TrackInv
    <2>2. task' = [task EXCEPT ![c][k] = t] BY <1>1
    <2>3. task'[c] = [task[c] EXCEPT ![k] = t] /\ \A d \in Conns \ {c} : task'[d] = task[d]
      BY <2>1, <2>2 DEF TaskTyped
    <2>4. task[c] \in [Tasks -> TaskRecord] BY <2>1 DEF TaskTyped
    <2>5. task'[c] \in [Tasks -> TaskRecord] BY <2>3, <2>4
    <2>6. TaskTyped' BY <2>1, <2>2, <2>3, <2>5 DEF TaskTyped
    <2> QED BY <2>3, <2>4, <2>6
  <1>3. Tracks(conn[c].pc, tracker[c], task'[c])
    BY <1>0, <1>1, <1>2 DEF Tracks
  <1>4. UNCHANGED <<conn, tracker>> BY <1>1
  <1>5. ConnTyped' BY <1>4 DEF TrackInv, ConnTyped
  <1>6. \A d \in Conns : Tracks(conn[d].pc, tracker[d], task'[d]) BY <1>2, <1>3 DEF TrackInv
  <1> QED BY <1>2, <1>4, <1>5, <1>6 DEF TrackInv

\* The tracker returns, with the first failed task or when all is over.
LEMMA TrackTracker ==
    ASSUME TrackInv, NEW c \in Conns, TrackerStep(c)
    PROVE  TrackInv'
  <1>0. Tracks(conn[c].pc, tracker[c], task[c]) /\ task[c] \in [Tasks -> TaskRecord]
    BY DEF TrackInv, TaskTyped
  <1>1. ASSUME NEW k \in Tasks, TrackerJoins(c, k), task[c][k].pc = "err" PROVE TrackInv'
    <2>1. /\ tracker' = [tracker EXCEPT ![c] = "err"] /\ UNCHANGED conn
          /\ \A d \in Conns \ {c} : task'[d] = task[d]
      BY <1>1 DEF TrackerJoins, TrackInv, TaskTyped
    <2>2. task'[c] = [j \in Tasks |->
                        IF j = k THEN [task[c][k] EXCEPT !.handle = "joined"]
                        ELSE IF task[c][j].handle \in {"queued", "tracked"}
                        THEN [task[c][j] EXCEPT !.handle = "lost"]
                        ELSE task[c][j]]
      BY <1>1 DEF TrackerJoins, TrackInv, TaskTyped
    <2>3. task'[c] \in [Tasks -> TaskRecord] /\ task'[c][k].pc = "err"
      BY <1>0, <1>1, <2>2 DEF TaskRecord
    <2>4. TaskTyped'
      BY <1>1, <2>1, <2>3 DEF TaskTyped, TrackerJoins, TrackInv
    <2>5. Tracks(conn[c].pc, "err", task'[c])
      BY <1>0, <1>1, <2>3 DEF Tracks, TrackerJoins
    <2> QED BY <2>1, <2>4, <2>5 DEF TrackInv, ConnTyped
  <1>2. ASSUME NEW k \in Tasks, TrackerJoins(c, k), task[c][k].pc # "err" PROVE UNCHANGED tracker
    BY <1>2 DEF TrackerJoins
  <1>3. CASE TrackerEnds(c)
    <2>1. tracker' = [tracker EXCEPT ![c] = "ok"] /\ UNCHANGED <<conn, task>>
      BY <1>3 DEF TrackerEnds
    <2>2. Tracks(conn[c].pc, "ok", task[c])
      BY <1>0, <1>3 DEF TrackerEnds, Tracks, HoldsSender, Handles
    <2> QED BY <2>1, <2>2 DEF TrackInv, ConnTyped, TaskTyped
  <1> QED BY <1>1, <1>2, <1>3, TrackTasks DEF TrackerStep

\* Every step preserves TrackInv.
LEMMA TrackNext == TrackInv /\ [Next]_vars => TrackInv'
  <1> SUFFICES ASSUME TrackInv, [Next]_vars PROVE TrackInv' OBVIOUS
  <1>1. CASE UNCHANGED <<conn, tracker, task>>
    BY <1>1 DEF TrackInv, ConnTyped, TaskTyped
  <1>2. ASSUME NEW l \in Listeners, Bind(l) \/ JoinListener(l) \/ ListenerTrigger(l)
        PROVE  TrackInv'
    BY <1>1, <1>2 DEF Bind, JoinListener, ListenerTrigger, sessionVars, mainUnchanged
  <1>3. CASE \/ SpawnWriter \/ SpawnTasks \/ SignalTrigger \/ SignalFails \/ TuiTrigger
             \/ AuditTrigger \/ DropServices \/ AwaitAudit \/ JoinTui \/ WriterFails
             \/ WriterCloses \/ TuiDisconnects \/ \E r \in {"ok", "err"} : TuiEnds(r)
    BY <1>1, <1>3 DEF SpawnWriter, SpawnTasks, SignalTrigger, SignalFails, TuiTrigger,
       AuditTrigger, DropServices, AwaitAudit, JoinTui, WriterFails, WriterCloses,
       TuiDisconnects, TuiEnds, sessionVars, mainUnchanged
  <1>4. CASE UNCHANGED vars
    BY <1>1, <1>4 DEF vars, sessionVars
  <1> QED
    BY <1>2, <1>3, <1>4, TrackAccept, TrackSession, TrackTasks, TrackTracker
       DEF Next, Trigger, MainStep

\* For every number of connections and tasks: as long as none of its tasks failed,
\* an HTTP connection is not reported closed while one of them still runs.
THEOREM ConnectionIsHeld == Spec => []TrackerHoldsConnection
  <1>1. ASSUME TrackInv, NEW c \in Conns, conn[c].pc \in {"closing", "ended"},
               \A k \in Tasks : task[c][k].pc # "err"
        PROVE  \A k \in Tasks : ~Busy(c, k)
    <2>1. Tracks(conn[c].pc, tracker[c], task[c]) /\ tracker[c] \in {"none", "open", "ok", "err"}
      BY <1>1 DEF TrackInv
    <2> QED BY <1>1, <2>1 DEF Tracks, Busy, TaskKinds
  <1>2. TrackInv => TrackerHoldsConnection
    BY <1>1 DEF TrackerHoldsConnection
  <1> QED BY <1>2, TrackInit, TrackNext, PTL DEF Spec

-----------------------------------------------------------------------------
(* CleanExitIsHonest *)

\* run_proxy's stages: what is true when it gets to each of them.
MainInv ==
    /\ main \in [pc : {"bind", "spawn", "wait", "drain", "audit", "tui", "exited"},
                 first_failure : BOOLEAN, audit_completed_early : BOOLEAN,
                 result : {"none", "ok", "err"}]
    /\ listener \in [Listeners -> {"unbound", "bound", "accepting", "rejecting", "draining",
                                   "ok", "failed", "joined"}]
    /\ writer \in {"none", "open", "failed", "closed"}
    /\ main.pc # "exited" => main.result = "none"
    /\ main.pc \in {"bind", "spawn"} =>
          /\ \A l \in Listeners : listener[l] \in {"unbound", "bound"}
          /\ \A c \in Conns : conn[c].pc = "none"
    /\ main.pc \in {"bind", "spawn", "wait"} =>
          ~main.first_failure /\ \A l \in Listeners : listener[l] # "joined"
    /\ main.pc = "bind" => writer = "none"
    /\ writer = "none" => main.pc \in {"bind", "exited"}
    /\ main.pc \in {"audit", "tui"} => \A l \in Listeners : listener[l] = "joined"
    /\ main.audit_completed_early => main.first_failure
    /\ main.pc = "tui" => main.audit_completed_early \/ writer = "closed"
    /\ writer = "closed" => ~Producers

\* A listener's failure has not been joined yet, or run_proxy knows of one.
Surfaced(l) == listener[l] = "failed" \/ main.first_failure

Turned(c) == conn[c].pc \in {"rejected", "rejected_accepted"}

Turning(l) == listener[l] \in {"rejecting", "failed"} \/ (listener[l] = "joined" /\ main.first_failure)

Whole == {<<"accepted", "closed">>, <<"accepted", "limit">>}

\* The records of a connection are those its stage calls for, or something failed
\* that run_proxy knows of or will find when it joins.
Account(c) ==
    /\ conn[c].pc \in {"none", "opening", "rejected"} => log[c] = <<>>
    /\ conn[c].pc \in {"serving", "tracking", "closing", "panicked", "rejected_accepted"} =>
          log[c] = <<"accepted">>
    /\ conn[c].pc = "ended" => log[c] \in Whole \/ writer = "failed"
    /\ conn[c].pc = "joined" => log[c] \in Whole \/ writer = "failed" \/ Surfaced(conn[c].at)
    /\ conn[c].pc = "aborted" => Surfaced(conn[c].at)
    /\ Turned(c) => Turning(conn[c].at)

\* An accept loop turns away one connection at a time.
OneTurned ==
    \A c, d \in Conns :
        Turned(c) /\ Turned(d) /\ conn[c].at = conn[d].at /\ listener[conn[c].at] = "rejecting"
            => c = d

ExitInv ==
    /\ MainInv
    /\ ConnTyped
    /\ log \in [Conns -> Seq({"accepted", "closed", "limit"})]
    /\ \A c \in Conns : Account(c)
    /\ OneTurned

\* The process before it binds.
LEMMA ExitInit == Init => ExitInv
  <1> SUFFICES ASSUME Init PROVE ExitInv OBVIOUS
  <1>1. MainInv BY DEF Init, MainInv, NoConn
  <1>2. ConnTyped BY DEF Init, ConnTyped, ConnStates, NoConn
  <1>3. (\A c \in Conns : Account(c)) /\ OneTurned
    BY DEF Init, Account, OneTurned, Turned, NoConn
  <1> QED BY <1>1, <1>2, <1>3 DEF Init, ExitInv

\* Steps that concern no connection.
LEMMA AccountStays ==
    ASSUME ExitInv, MainInv', UNCHANGED <<conn, log>>, writer = "failed" => writer' = "failed",
           \A l \in Listeners :
              /\ Surfaced(l) => Surfaced(l)'
              /\ Turning(l) => Turning(l)'
              /\ listener'[l] = "rejecting" => listener[l] = "rejecting"
    PROVE  ExitInv'
  <1>1. ASSUME NEW c \in Conns, conn[c].pc # "none" PROVE conn[c].at \in Listeners
    BY <1>1 DEF ExitInv, ConnTyped
  <1>2. ASSUME NEW c \in Conns PROVE Account(c)'
    <2>1. Account(c) BY DEF ExitInv
    <2>2. conn'[c] = conn[c] /\ log'[c] = log[c] OBVIOUS
    <2>3. CASE conn[c].pc = "none" BY <2>1, <2>2, <2>3 DEF Account, Turned
    <2>4. CASE conn[c].pc # "none"
      <3> DEFINE l == conn[c].at
      <3>1. /\ l \in Listeners /\ conn'[c].at = l
            /\ Surfaced(l) => Surfaced(l)'
            /\ Turning(l) => Turning(l)'
        BY <1>1, <2>2, <2>4
      <3>2. Surfaced(conn[c].at)' = Surfaced(l)' /\ Turning(conn[c].at)' = Turning(l)'
        BY <2>2 DEF Surfaced, Turning
      <3> QED BY <2>1, <2>2, <3>1, <3>2 DEF Account, Turned
    <2> QED BY <2>3, <2>4
  <1>3. OneTurned'
    BY <1>1 DEF ExitInv, OneTurned, Turned
  <1> QED BY <1>2, <1>3 DEF ExitInv, ConnTyped

\* run_proxy's own steps and the writer's: first_failure is only ever set, and a
\* failed listener is joined only into it.
LEMMA ExitMain ==
    ASSUME ExitInv, Running,
           \/ \E l \in Listeners : Bind(l) \/ ListenerTrigger(l) \/ JoinListener(l)
           \/ SpawnWriter \/ SpawnTasks \/ SignalTrigger \/ SignalFails \/ TuiTrigger
           \/ AuditTrigger \/ DropServices \/ AwaitAudit \/ JoinTui
           \/ WriterFails \/ WriterCloses
    PROVE  ExitInv'
  <1>0. UNCHANGED <<conn, log, task>> /\ MainInv
    BY DEF Bind, ListenerTrigger, JoinListener, SpawnWriter, SpawnTasks, SignalTrigger,
           SignalFails, TuiTrigger, AuditTrigger, DropServices, AwaitAudit, JoinTui, WriterFails,
           WriterCloses, mainUnchanged, sessionVars, ExitInv
  <1> DEFINE Stays == /\ MainInv'
                      /\ writer = "failed" => writer' = "failed"
                      /\ \A l \in Listeners :
                            /\ Surfaced(l) => Surfaced(l)'
                            /\ Turning(l) => Turning(l)'
                            /\ listener'[l] = "rejecting" => listener[l] = "rejecting"
  <1> SUFFICES Stays BY <1>0, AccountStays
  <1> USE <1>0 DEF MainInv, Surfaced, Turning, Producers, Live, Busy
  <1>1. ASSUME NEW l \in Listeners, Bind(l) PROVE Stays
    BY <1>1 DEF Bind, Exit
  <1>2. ASSUME NEW l \in Listeners, ListenerTrigger(l) PROVE Stays
    BY <1>2 DEF ListenerTrigger, Triggered, Returned, mainUnchanged
  <1>3. ASSUME NEW l \in Listeners, JoinListener(l) PROVE Stays
    BY <1>3 DEF JoinListener, Returned, mainUnchanged
  <1>4. CASE SpawnWriter
    BY <1>4 DEF SpawnWriter, Exit
  <1>5. CASE SpawnTasks
    BY <1>5 DEF SpawnTasks, Exit
  <1>6. CASE SignalTrigger
    BY <1>6 DEF SignalTrigger, Triggered, mainUnchanged
  <1>7. CASE SignalFails
    BY <1>7 DEF SignalFails, Exit, mainUnchanged
  <1>8. CASE TuiTrigger
    BY <1>8 DEF TuiTrigger, Triggered, mainUnchanged
  <1>9. CASE AuditTrigger
    BY <1>9 DEF AuditTrigger, Triggered, mainUnchanged
  <1>10. CASE DropServices
    BY <1>10 DEF DropServices
  <1>11. CASE AwaitAudit
    BY <1>11 DEF AwaitAudit, Exit, mainUnchanged
  <1>12. CASE JoinTui
    BY <1>12 DEF JoinTui, Exit, mainUnchanged
  <1>13. CASE WriterFails
    BY <1>13 DEF WriterFails
  <1>14. CASE WriterCloses
    BY <1>14 DEF WriterCloses
  <1> QED BY <1>1, <1>2, <1>3, <1>4, <1>5, <1>6, <1>7, <1>8, <1>9, <1>10, <1>11, <1>12, <1>13, <1>14

\* Tasks, trackers and the terminal touch neither records nor connections; a task
\* that starts has a producer behind it.
LEMMA ExitTasks ==
    ASSUME ExitInv, TrackInv, UNCHANGED <<conn, log, listener, main, writer, reload>>,
           \/ UNCHANGED task
           \/ \E c \in Conns :
                \/ TrackerStep(c)
                \/ \E k \in Tasks : \/ \E kind \in TaskKinds : RegisterTask(c, k, kind)
                                    \/ \E r \in {"ok", "err"} : TaskEnds(c, k, r)
    PROVE  ExitInv'
  <1>1. writer = "closed" => \A d \in Conns, j \in Tasks : ~Busy(d, j)'
    <2> SUFFICES ASSUME writer = "closed"
                 PROVE  \A d \in Conns, j \in Tasks : ~Busy(d, j)'
      OBVIOUS
    <2>1. ~Producers BY DEF ExitInv, MainInv
    <2>2. \A d \in Conns, j \in Tasks : task[d][j].pc \notin TaskKinds /\ ~HoldsSender(d)
      BY <2>1 DEF Producers, Live, Busy, HoldsSender, TaskKinds
    <2>3. ASSUME NEW c \in Conns, NEW k \in Tasks, TrackerReceives(c, k) \/ TrackerJoins(c, k)
          PROVE  \A d \in Conns, j \in Tasks : task'[d][j].pc = task[d][j].pc
      <3>0. task[c][k] \in TaskRecord /\ TaskTyped BY DEF TrackInv, TaskTyped
      <3>1. ASSUME NEW h \in {"tracked", "joined"}, task' = [task EXCEPT ![c][k].handle = h]
            PROVE  \A d \in Conns, j \in Tasks : task'[d][j].pc = task[d][j].pc
        <4>1. task' = [task EXCEPT ![c][k] = [task[c][k] EXCEPT !.handle = h]] BY <3>1
        <4>2. /\ [task[c][k] EXCEPT !.handle = h] \in TaskRecord
              /\ [task[c][k] EXCEPT !.handle = h].pc = task[c][k].pc
          BY <3>0 DEF TaskRecord
        <4> QED BY <3>0, <4>1, <4>2, TaskMoves
      <3>2. ASSUME task' = [task EXCEPT ![c] = [j \in Tasks |->
                            IF j = k THEN [task[c][k] EXCEPT !.handle = "joined"]
                            ELSE IF task[c][j].handle \in {"queued", "tracked"}
                            THEN [task[c][j] EXCEPT !.handle = "lost"]
                            ELSE task[c][j]]]
            PROVE  \A d \in Conns, j \in Tasks : task'[d][j].pc = task[d][j].pc
        BY <3>0, <3>2 DEF TaskTyped, TaskRecord
      <3> QED BY <2>3, <3>1, <3>2 DEF TrackerReceives, TrackerJoins
    <2>4. ASSUME NEW c \in Conns, NEW k \in Tasks
          PROVE  /\ \A kind \in TaskKinds : ~RegisterTask(c, k, kind)
                 /\ \A r \in {"ok", "err"} : ~TaskEnds(c, k, r)
      BY <2>2 DEF RegisterTask, TaskEnds, Busy
    <2>5. ASSUME NEW c \in Conns, TrackerEnds(c) PROVE UNCHANGED task
      BY <2>5 DEF TrackerEnds
    <2> QED BY <2>2, <2>3, <2>4, <2>5 DEF TrackerStep, Busy
  <1>2. MainInv'
    BY <1>1 DEF ExitInv, MainInv, Producers, Live
  <1> QED BY <1>2, AccountStays DEF Surfaced, Turning

\* What a session does when its record does not get through: the writer has failed.
LEMMA FailureIsTheWriters ==
    ASSUME ExitInv, Running, NEW c \in Conns, Live(c), PublishFails
    PROVE  writer = "failed"
  BY DEF ExitInv, MainInv, Running, Live, Producers, PublishFails

\* A session publishes "accepted" and "closed", or the writer has failed.
LEMMA ExitSession ==
    ASSUME ExitInv, Running, NEW c \in Conns, SessionStep(c) \/ Panic(c)
    PROVE  ExitInv'
  <1>0. UNCHANGED <<listener, main, writer, reload, task>> /\ Live(c)
    BY DEF SessionStep, Open, Served, Tracked, Close, Panic, processVars, Live
  <1>1. PICK p \in {"serving", "tracking", "closing", "panicked", "ended"} :
            /\ conn' = [conn EXCEPT ![c].pc = p]
            /\ log' \in {log, [log EXCEPT ![c] = Append(@, "accepted")],
                         [log EXCEPT ![c] = Append(@, "closed")]}
            /\ p \in {"serving", "tracking", "closing", "panicked"} => log'[c] = <<"accepted">>
            /\ p = "ended" => log'[c] \in Whole \/ writer = "failed"
    <2>0. Account(c) /\ log \in [Conns -> Seq({"accepted", "closed", "limit"})]
      BY DEF ExitInv
    <2>1. CASE Open(c)
      <3>1. log[c] = <<>> BY <2>0, <2>1 DEF Open, Account
      <3>2. \/ conn' = [conn EXCEPT ![c].pc = "serving"] /\ log' = [log EXCEPT ![c] = Append(@, "accepted")]
            \/ conn' = [conn EXCEPT ![c].pc = "ended"] /\ log' = log /\ PublishFails
        BY <2>1 DEF Open, End, Published, PublishFails
      <3> QED BY <1>0, <2>0, <3>1, <3>2, FailureIsTheWriters
    <2>2. CASE Served(c)
      BY <2>0, <2>2 DEF Served, Account
    <2>3. CASE Tracked(c)
      BY <2>0, <2>3 DEF Tracked, Account
    <2>4. CASE Panic(c)
      BY <2>0, <2>4 DEF Panic, End, Account
    <2>5. CASE Close(c)
      <3>1. log[c] = <<"accepted">> BY <2>0, <2>5 DEF Close, Account
      <3>2. /\ conn' = [conn EXCEPT ![c].pc = "ended"]
            /\ \/ log' = [log EXCEPT ![c] = Append(@, "closed")]
               \/ log' = log /\ PublishFails
        BY <2>5 DEF Close, End, Published, PublishFails
      <3> QED BY <1>0, <2>0, <3>1, <3>2, FailureIsTheWriters DEF Whole
    <2> QED BY <2>1, <2>2, <2>3, <2>4, <2>5 DEF SessionStep
  <1>2. /\ ConnTyped' /\ conn'[c].pc = p /\ conn'[c].at = conn[c].at
        /\ \A d \in Conns \ {c} : conn'[d] = conn[d]
    BY <1>0, <1>1, ConnMoves DEF ExitInv, Live, ConnStates
  <1>3. /\ log' \in [Conns -> Seq({"accepted", "closed", "limit"})]
        /\ \A d \in Conns \ {c} : log'[d] = log[d]
    <2>1. log \in [Conns -> Seq({"accepted", "closed", "limit"})] BY DEF ExitInv
    <2>2. ASSUME NEW e \in {"accepted", "closed"}
          PROVE  Append(log[c], e) \in Seq({"accepted", "closed", "limit"})
      BY <2>1
    <2> QED BY <1>1, <2>1, <2>2
  <1>4. MainInv'
    BY <1>0, <1>2 DEF ExitInv, MainInv, Producers, Live
  <1>5. Account(c)' /\ \A d \in Conns \ {c} : Account(d)'
    <2>1. Account(c)'
      BY <1>0, <1>1, <1>2 DEF Account, Turned
    <2>2. ASSUME NEW d \in Conns \ {c} PROVE Account(d)'
      <3>1. Account(d) /\ conn'[d] = conn[d] /\ log'[d] = log[d] BY <1>2, <1>3 DEF ExitInv
      <3> QED BY <1>0, <3>1 DEF Account, Turned, Turning, Surfaced
    <2> QED BY <2>1, <2>2
  <1>6. OneTurned'
    <2>1. \A d \in Conns : Turned(d)' => Turned(d) /\ conn'[d] = conn[d] BY <1>2 DEF Turned
    <2> QED BY <1>0, <2>1 DEF ExitInv, OneTurned
  <1> QED BY <1>2, <1>3, <1>4, <1>5, <1>6 DEF ExitInv

\* An accept loop runs between the start and the join, and is a producer.
LEMMA AcceptMain ==
    ASSUME ExitInv, NEW l \in Listeners, AcceptLoop(l)
    PROVE  /\ MainInv'
           /\ UNCHANGED <<main, writer>>
           /\ \A m \in Listeners \ {l} : listener'[m] = listener[m]
  <1>1. UNCHANGED <<main, writer, reload, task>>
    BY DEF AcceptLoop, Accept, Reject, JoinSession, AcceptFails, RejectFails, ObserveShutdown,
           Drained, processVars, sessionVars
  <1>2. listener[l] \in {"accepting", "rejecting", "draining"}
    BY DEF AcceptLoop, Accept, Reject, JoinSession, AcceptFails, RejectFails, ObserveShutdown,
           Drained
  <1>3. \E s \in {"accepting", "rejecting", "draining", "ok", "failed"} :
            listener' = [listener EXCEPT ![l] = s]
    <2>1. listener = [listener EXCEPT ![l] = listener[l]] BY DEF ExitInv, MainInv
    <2>2. ListenerFails(l) => listener' = [listener EXCEPT ![l] = "failed"] BY DEF ListenerFails
    <2> QED BY <1>2, <2>1, <2>2
            DEF AcceptLoop, Accept, Spawn, TurnAway, Reject, JoinSession, AcceptFails, RejectFails,
                ObserveShutdown, Drained
  <1>4. writer # "closed" /\ main.pc \notin {"bind", "spawn", "audit", "tui"}
    BY <1>2 DEF ExitInv, MainInv, Producers
  <1>5. MainInv'
    BY <1>1, <1>3, <1>4 DEF ExitInv, MainInv
  <1> QED BY <1>1, <1>3, <1>5 DEF ExitInv, MainInv

\* A failing listener aborts its sessions and surfaces at the next join.
LEMMA ExitListenerFails ==
    ASSUME ExitInv, NEW l \in Listeners, AcceptLoop(l), ListenerFails(l), UNCHANGED log
    PROVE  ExitInv'
  <1>1. listener'[l] = "failed" BY DEF ListenerFails, ExitInv, MainInv
  <1>2. ASSUME NEW c \in Conns
        PROVE  \/ conn'[c] = conn[c]
               \/ /\ conn[c].at = l /\ conn'[c].at = l
                  /\ conn'[c].pc \in {"aborted", "joined"}
    <2>1. CASE c \notin SessionsOf(l)
      BY <2>1 DEF ListenerFails
    <2>2. CASE c \in SessionsOf(l)
      <3>1. conn'[c] = [conn[c] EXCEPT !.pc = IF Live(c) THEN "aborted" ELSE "joined"]
        BY <2>2 DEF ListenerFails
      <3>2. conn[c].at = l /\ conn[c] \in [pc : ConnStates, at : Listeners \cup {NoConn.at}]
        BY <2>2 DEF SessionsOf, ExitInv, ConnTyped
      <3> QED BY <3>1, <3>2
    <2> QED BY <2>1, <2>2
  <1>3. ConnTyped' BY AcceptMoves DEF ExitInv
  <1>4. ASSUME NEW c \in Conns PROVE Account(c)'
    <2>1. Account(c) BY DEF ExitInv
    <2>2. CASE conn'[c] = conn[c] /\ conn[c].pc = "none"
      BY <2>1, <2>2 DEF Account, Turned
    <2>3. CASE conn'[c] = conn[c] /\ conn[c].pc # "none"
      <3>1. conn[c].at \in Listeners BY <2>3 DEF ExitInv, ConnTyped
      <3> QED BY <1>1, <2>1, <2>3, <3>1, AcceptMain DEF Account, Turned, Turning, Surfaced
    <2>4. CASE conn'[c] # conn[c]
      BY <1>1, <1>2, <2>4 DEF Account, Turned, Surfaced
    <2> QED BY <2>2, <2>3, <2>4
  <1>5. OneTurned'
    <2> SUFFICES ASSUME NEW c \in Conns, NEW d \in Conns, Turned(c)', Turned(d)',
                        conn'[c].at = conn'[d].at, listener'[conn'[c].at] = "rejecting"
                 PROVE  c = d
      BY DEF OneTurned
    <2>1. conn'[c] = conn[c] /\ conn'[d] = conn[d] BY <1>2 DEF Turned
    <2>2. conn[c].at \in Listeners BY <2>1 DEF Turned, ExitInv, ConnTyped
    <2>3. listener[conn[c].at] = "rejecting" BY <1>1, <2>1, <2>2, AcceptMain
    <2> QED BY <2>1, <2>3 DEF Turned, ExitInv, OneTurned
  <1> QED BY <1>3, <1>4, <1>5, AcceptMain DEF ExitInv

\* A new connection: a session, or one that is turned away while the loop waits.
LEMMA ExitAccept ==
    ASSUME ExitInv, NEW l \in Listeners, NEW c \in Conns, Accept(l, c)
    PROVE  ExitInv'
  <1>0. AcceptLoop(l) BY DEF AcceptLoop
  <1>1. PICK p \in {"opening", "rejected"} :
            /\ conn' = [conn EXCEPT ![c] = [pc |-> p, at |-> l]]
            /\ p = "opening" => UNCHANGED listener
            /\ p = "rejected" => listener' = [listener EXCEPT ![l] = "rejecting"]
    BY DEF Accept, Spawn, TurnAway
  <1>2. /\ conn'[c].pc = p /\ conn'[c].at = l
        /\ \A d \in Conns \ {c} : conn'[d] = conn[d]
        /\ conn[c].pc = "none" /\ UNCHANGED log /\ listener[l] = "accepting"
    BY <1>1 DEF Accept, ExitInv, ConnTyped
  <1>3. ConnTyped' BY <1>0, AcceptMoves DEF ExitInv
  <1>4. listener'[l] = IF p = "opening" THEN "accepting" ELSE "rejecting"
    BY <1>1, <1>2 DEF ExitInv, MainInv
  <1>5. ASSUME NEW d \in Conns, Turned(d) PROVE conn[d].at \in Listeners \ {l} /\ d # c
    BY <1>2, <1>5 DEF Turned, Turning, ExitInv, Account, ConnTyped
  <1>6. Account(c)'
    BY <1>1, <1>2, <1>4 DEF ExitInv, Account, Turned, Turning
  <1>7. ASSUME NEW d \in Conns \ {c} PROVE Account(d)'
    <2>1. Account(d) /\ conn'[d] = conn[d] BY <1>2 DEF ExitInv
    <2>2. CASE conn[d].pc = "none" BY <1>2, <2>1, <2>2 DEF Account, Turned
    <2>3. CASE conn[d].pc # "none"
      <3>1. conn[d].at \in Listeners BY <2>3 DEF ExitInv, ConnTyped
      <3>2. Surfaced(conn[d].at) => Surfaced(conn[d].at)'
        BY <1>0, <1>2, <2>1, <3>1, AcceptMain DEF Surfaced
      <3>3. Turned(d) => Turning(conn[d].at)'
        BY <1>0, <1>5, <2>1, AcceptMain DEF Turning, Account
      <3> QED BY <1>0, <1>2, <2>1, <3>2, <3>3, AcceptMain DEF Account, Turned
    <2> QED BY <2>2, <2>3
  <1>8. OneTurned'
    <2> SUFFICES ASSUME NEW a \in Conns, NEW b \in Conns, Turned(a)', Turned(b)',
                        conn'[a].at = conn'[b].at, listener'[conn'[a].at] = "rejecting"
                 PROVE  a = b
      BY DEF OneTurned
    <2>1. CASE a # c /\ b # c
      <3>1. conn'[a] = conn[a] /\ conn'[b] = conn[b] BY <1>2, <2>1
      <3>2. Turned(a) /\ Turned(b) BY <3>1 DEF Turned
      <3>3. listener[conn[a].at] = "rejecting" BY <1>0, <1>5, <3>1, <3>2, AcceptMain
      <3> QED BY <3>1, <3>2, <3>3 DEF ExitInv, OneTurned
    <2>2. CASE a = c /\ b # c
      BY <1>2, <1>5, <2>2 DEF Turned
    <2>3. CASE a # c /\ b = c
      BY <1>2, <1>5, <2>3 DEF Turned
    <2> QED BY <2>1, <2>2, <2>3
  <1> QED BY <1>0, <1>2, <1>3, <1>6, <1>7, <1>8, AcceptMain DEF ExitInv

\* reject_at_capacity leaves its two records; a session that has ended is joined.
LEMMA ExitOne ==
    ASSUME ExitInv, NEW l \in Listeners, NEW c \in Conns,
           Reject(l, c) \/ (JoinSession(l, c) /\ conn[c].pc = "ended")
    PROVE  ExitInv'
  <1>0. AcceptLoop(l) BY DEF AcceptLoop
  <1> DEFINE Events == {"accepted", "closed", "limit"}
  <1>1. Account(c) /\ log \in [Conns -> Seq(Events)] BY DEF ExitInv
  <1>2. /\ conn[c].at = l
        /\ conn[c].pc \in {"rejected", "rejected_accepted", "ended"}
        /\ \/ /\ conn[c].pc = "rejected" /\ conn' = [conn EXCEPT ![c].pc = "rejected_accepted"]
              /\ log' = [log EXCEPT ![c] = Append(@, "accepted")]
              /\ UNCHANGED listener /\ listener[l] = "rejecting"
           \/ /\ conn[c].pc = "rejected_accepted" /\ conn' = [conn EXCEPT ![c].pc = "joined"]
              /\ log' = [log EXCEPT ![c] = Append(@, "limit")]
              /\ listener' = [listener EXCEPT ![l] = "accepting"] /\ listener[l] = "rejecting"
           \/ /\ conn[c].pc = "ended" /\ conn' = [conn EXCEPT ![c].pc = "joined"]
              /\ UNCHANGED <<log, listener>>
    BY DEF Reject, Published, JoinSession, SessionsOf
  <1>3. PICK p \in {"rejected_accepted", "joined"} :
            /\ conn' = [conn EXCEPT ![c].pc = p]
            /\ p = "rejected_accepted" =>
                  /\ conn[c].pc = "rejected" /\ log'[c] = <<"accepted">>
                  /\ UNCHANGED listener /\ listener[l] = "rejecting"
            /\ p = "joined" => log'[c] \in Whole \/ writer = "failed"
    <2>1. CASE conn[c].pc = "rejected"
      <3>1. log[c] = <<>> BY <1>1, <2>1 DEF Account
      <3>2. log'[c] = <<"accepted">> BY <1>1, <1>2, <2>1, <3>1
      <3> QED BY <1>2, <2>1, <3>2
    <2>2. CASE conn[c].pc = "rejected_accepted"
      <3>1. log[c] = <<"accepted">> BY <1>1, <2>2 DEF Account
      <3>2. log'[c] = <<"accepted", "limit">> BY <1>1, <1>2, <2>2, <3>1
      <3> QED BY <1>2, <2>2, <3>2 DEF Whole
    <2>3. CASE conn[c].pc = "ended"
      BY <1>1, <1>2, <2>3 DEF Account
    <2> QED BY <1>2, <2>1, <2>2, <2>3
  <1>4. /\ ConnTyped' /\ conn'[c].pc = p /\ conn'[c].at = l
        /\ \A d \in Conns \ {c} : conn'[d] = conn[d]
    BY <1>2, <1>3, ConnMoves DEF ExitInv, ConnStates
  <1>5. /\ log' \in [Conns -> Seq(Events)]
        /\ \A d \in Conns \ {c} : log'[d] = log[d]
    <2>1. ASSUME NEW e \in Events PROVE Append(log[c], e) \in Seq(Events)
      BY <1>1
    <2> QED BY <1>1, <1>2, <2>1
  <1>6. /\ Surfaced(l) => main.first_failure \/ UNCHANGED listener
        /\ listener'[l] \in {listener[l], "accepting"}
    BY <1>2 DEF Surfaced, ExitInv, MainInv
  <1>7. ASSUME NEW d \in Conns \ {c}, Turned(d)
        PROVE  conn[d].at \in Listeners \ {l} \/ UNCHANGED listener
    BY <1>2, <1>7 DEF Turned, ExitInv, OneTurned, ConnTyped
  <1>8. Account(c)'
    BY <1>0, <1>3, <1>4, AcceptMain DEF Account, Turned, Turning
  <1>9. ASSUME NEW d \in Conns \ {c} PROVE Account(d)'
    <2>1. Account(d) /\ conn'[d] = conn[d] /\ log'[d] = log[d] BY <1>4, <1>5 DEF ExitInv
    <2>2. CASE conn[d].pc = "none" BY <2>1, <2>2 DEF Account, Turned
    <2>3. CASE conn[d].pc # "none"
      <3>1. conn[d].at \in Listeners BY <2>3 DEF ExitInv, ConnTyped
      <3>2. Surfaced(conn[d].at) => Surfaced(conn[d].at)'
        BY <1>0, <1>6, <2>1, <3>1, AcceptMain DEF Surfaced
      <3>3. Turned(d) => Turning(conn[d].at)'
        BY <1>0, <1>7, <2>1, <3>1, AcceptMain DEF Turning, Account
      <3> QED BY <1>0, <2>1, <3>2, <3>3, AcceptMain DEF Account, Turned
    <2> QED BY <2>2, <2>3
  <1>10. OneTurned'
    <2> SUFFICES ASSUME NEW a \in Conns, NEW b \in Conns, Turned(a)', Turned(b)',
                        conn'[a].at = conn'[b].at, listener'[conn'[a].at] = "rejecting"
                 PROVE  a = b
      BY DEF OneTurned
    <2>1. Turned(a) /\ Turned(b) /\ conn'[a].at = conn[a].at /\ conn'[b].at = conn[b].at
      BY <1>2, <1>3, <1>4 DEF Turned
    <2>2. conn[a].at \in Listeners BY <2>1 DEF Turned, ExitInv, ConnTyped
    <2>3. listener[conn[a].at] = "rejecting"
      BY <1>0, <1>2, <2>1, <2>2, AcceptMain DEF ExitInv, MainInv
    <2> QED BY <2>1, <2>3 DEF ExitInv, OneTurned
  <1> QED BY <1>0, <1>4, <1>5, <1>8, <1>9, <1>10, AcceptMain DEF ExitInv

\* The accept loop as a whole.
LEMMA ExitAcceptLoop ==
    ASSUME ExitInv, NEW l \in Listeners, AcceptLoop(l)
    PROVE  ExitInv'
  <1>1. ASSUME NEW c \in Conns, JoinSession(l, c), conn[c].pc # "ended" PROVE ExitInv'
    <2>1. ListenerFails(l) /\ UNCHANGED log
      BY <1>1 DEF JoinSession, SessionsOf, Live
    <2> QED BY <2>1, ExitListenerFails
  <1>2. CASE AcceptFails(l) \/ RejectFails(l)
    <2>1. ListenerFails(l) /\ UNCHANGED log
      BY <1>2 DEF AcceptFails, RejectFails, PublishFails
    <2> QED BY <2>1, ExitListenerFails
  <1>3. CASE ObserveShutdown(l) \/ Drained(l)
    <2>1. /\ UNCHANGED <<conn, log>>
          /\ listener[l] \in {"accepting", "draining"}
          /\ listener'[l] \in {"draining", "ok"}
      BY <1>3 DEF ObserveShutdown, Drained, sessionVars, ExitInv, MainInv
    <2>2. ASSUME NEW m \in Listeners
          PROVE  /\ Surfaced(m) => Surfaced(m)'
                 /\ Turning(m) => Turning(m)'
                 /\ listener'[m] = "rejecting" => listener[m] = "rejecting"
      BY <2>1, AcceptMain DEF Surfaced, Turning
    <2> QED BY <2>1, <2>2, AcceptMain, AccountStays
  <1> QED BY <1>1, <1>2, <1>3, ExitAccept, ExitOne DEF AcceptLoop

\* Only JoinTui reports success, and by then everything is joined and recorded.
LEMMA HonestStep ==
    ASSUME ExitInv, Running, main'.result = "ok", Next
    PROVE  CleanExitIsHonest'
  <1>1. JoinTui
    <2>1. main.result = "none" BY DEF ExitInv, MainInv, Running
    <2>2. ASSUME NEW l \in Listeners, AcceptLoop(l) PROVE FALSE
      BY <2>1, <2>2, AcceptMain
    <2>3. ASSUME NEW c \in Conns, SessionStep(c) \/ Panic(c) \/ TrackerStep(c) PROVE FALSE
      BY <2>1, <2>3 DEF SessionStep, Open, Served, Tracked, Close, Panic, TrackerStep,
         TrackerReceives, TrackerJoins, TrackerEnds, processVars
    <2>4. ASSUME NEW c \in Conns, NEW k \in Tasks,
                 \/ \E kind \in TaskKinds : RegisterTask(c, k, kind)
                 \/ \E r \in {"ok", "err"} : TaskEnds(c, k, r)
          PROVE  FALSE
      BY <2>1, <2>4 DEF RegisterTask, TaskEnds, processVars
    <2>5. CASE WriterFails \/ WriterCloses \/ TuiDisconnects \/ \E r \in {"ok", "err"} : TuiEnds(r)
      BY <2>1, <2>5 DEF WriterFails, WriterCloses, TuiDisconnects, TuiEnds
    <2>6. ASSUME NEW l \in Listeners, Bind(l) \/ JoinListener(l) \/ ListenerTrigger(l) PROVE FALSE
      BY <2>1, <2>6 DEF Bind, JoinListener, ListenerTrigger, Triggered, Exit,
           ExitInv, MainInv
    <2>7. CASE SpawnWriter \/ SpawnTasks \/ DropServices \/ AwaitAudit
      BY <2>1, <2>7 DEF SpawnWriter, SpawnTasks, DropServices, AwaitAudit, Exit,
           ExitInv, MainInv
    <2>8. CASE SignalTrigger \/ SignalFails \/ TuiTrigger \/ AuditTrigger
      BY <2>1, <2>8 DEF SignalTrigger, SignalFails, TuiTrigger, AuditTrigger, Triggered, Exit,
           ExitInv, MainInv
    <2> QED BY <2>2, <2>3, <2>4, <2>5, <2>6, <2>7, <2>8 DEF Next, Trigger, MainStep
  <1>2. /\ main.pc = "tui" /\ ~main.first_failure /\ tui # "err"
        /\ UNCHANGED <<writer, tui, conn, log, task>>
    BY <1>1 DEF JoinTui, Exit, mainUnchanged, sessionVars, ExitInv, MainInv
  <1>3. /\ writer = "closed" /\ ~Producers
        /\ \A l \in Listeners : listener[l] = "joined"
    BY <1>2 DEF ExitInv, MainInv
  <1>4. ASSUME NEW c \in Conns
        PROVE  /\ conn[c].pc = "joined" => log[c] \in Whole
               /\ conn[c].pc \notin {"aborted", "rejected", "rejected_accepted"}
    BY <1>2, <1>3 DEF ExitInv, ConnTyped, Account, Surfaced, Turned, Turning
  <1> QED BY <1>2, <1>3, <1>4 DEF CleanExitIsHonest, Whole, Producers, Live, Busy

\* Every step preserves ExitInv.
LEMMA ExitNext == TrackInv /\ ExitInv /\ [Next]_vars => ExitInv'
  <1> SUFFICES ASSUME TrackInv, ExitInv, [Next]_vars PROVE ExitInv' OBVIOUS
  <1>1. CASE UNCHANGED vars
    BY <1>1, ExitTasks DEF vars, processVars, sessionVars
  <1>2. CASE TuiDisconnects \/ \E r \in {"ok", "err"} : TuiEnds(r)
    BY <1>2, ExitTasks DEF TuiDisconnects, TuiEnds, sessionVars
  <1>3. ASSUME NEW c \in Conns,
               \/ TrackerStep(c)
               \/ \E k \in Tasks : \/ \E kind \in TaskKinds : RegisterTask(c, k, kind)
                                   \/ \E r \in {"ok", "err"} : TaskEnds(c, k, r)
        PROVE  ExitInv'
    <2>1. UNCHANGED <<conn, log, listener, main, writer, reload>>
      BY <1>3 DEF TrackerStep, TrackerReceives, TrackerJoins, TrackerEnds, RegisterTask, TaskEnds,
                  processVars
    <2> QED BY <1>3, <2>1, ExitTasks
  <1> QED BY <1>1, <1>2, <1>3, ExitMain, ExitSession, ExitAcceptLoop DEF Next, Trigger, MainStep

\* For every number of listeners, connections and tasks: an exit status of success
\* means that each joined connection left its two records, that nothing still ran
\* that could have published, and that neither a listener nor the writer nor the
\* terminal had failed, whichever trigger ended the wait.
THEOREM ExitIsHonest == Spec => []CleanExitIsHonest
  <1> DEFINE I == TrackInv /\ ExitInv /\ CleanExitIsHonest
  <1>1. Init => I
    BY TrackInit, ExitInit DEF Init, CleanExitIsHonest
  <1>2. I /\ [Next]_vars => I'
    <2> SUFFICES ASSUME I, [Next]_vars PROVE I' OBVIOUS
    <2>1. TrackInv' /\ ExitInv' BY TrackNext, ExitNext
    <2>2. CASE UNCHANGED vars
      BY <2>1, <2>2 DEF vars, processVars, sessionVars, CleanExitIsHonest, Live, Busy
    <2>3. CASE Next
      BY <2>1, <2>3, HonestStep DEF Next, CleanExitIsHonest
    <2> QED BY <2>2, <2>3
  <1> QED BY <1>1, <1>2, PTL DEF Spec

-----------------------------------------------------------------------------
(* ConnectionsBounded *)

LiveAt(l) == {c \in Conns : conn[c].at = l /\ Live(c)}

PermitInv ==
    /\ ConnTyped
    /\ permits \in [Listeners -> Nat]
    /\ \A l \in Listeners : permits[l] + Cardinality(LiveAt(l)) = Connections

\* The sessions of a listener are finitely many.
LEMMA LiveAtFinite ==
    ASSUME NEW l
    PROVE  IsFiniteSet(LiveAt(l)) /\ Cardinality(LiveAt(l)) \in Nat
  <1>1. LiveAt(l) \subseteq Conns BY DEF LiveAt
  <1> QED BY <1>1, ConnsAssumption, FS_Subset, FS_CardinalityType

\* All permits are free at first.
LEMMA PermitInit == Init => PermitInv
  <1> SUFFICES ASSUME Init PROVE PermitInv OBVIOUS
  <1>1. ConnTyped BY DEF Init, ConnTyped, ConnStates, NoConn
  <1>2. \A l \in Listeners : LiveAt(l) = {} BY DEF Init, NoConn, LiveAt, Live
  <1>3. \A l \in Listeners : Cardinality(LiveAt(l)) = 0 BY <1>2, FS_EmptySet
  <1>4. permits \in [Listeners -> Nat] /\ \A l \in Listeners : permits[l] = Connections
    BY ConnectionsAssumption DEF Init
  <1> QED BY <1>1, <1>3, <1>4, ConnectionsAssumption DEF PermitInv

\* Steps that neither start nor end a session.
LEMMA PermitStays ==
    ASSUME PermitInv, ConnTyped', UNCHANGED permits,
           \A c \in Conns : /\ Live(c)' = Live(c)
                            /\ Live(c) => conn'[c].at = conn[c].at
    PROVE  PermitInv'
  <1>1. \A l \in Listeners : LiveAt(l)' = LiveAt(l) BY DEF LiveAt
  <1> QED BY <1>1 DEF PermitInv

\* A session that ends, by whatever way, gives its permit back once.
LEMMA PermitEnd ==
    ASSUME PermitInv, NEW c \in Conns, Live(c), NEW how \in {"ended", "panicked"}, End(c, how)
    PROVE  PermitInv'
  <1> DEFINE l == conn[c].at
  <1>1. /\ ConnTyped' /\ conn'[c].pc = how
        /\ \A d \in Conns \ {c} : conn'[d] = conn[d]
        /\ l \in Listeners
    BY ConnMoves DEF End, Live, PermitInv, ConnTyped, ConnStates
  <1>2. PICK held : held = LiveAt(l) OBVIOUS
  <1>3. PICK at \in Listeners : at = l BY <1>1
  <1>4. /\ LiveAt(at)' = held \ {c} /\ c \in held
        /\ \A m \in Listeners \ {at} : LiveAt(m)' = LiveAt(m)
    BY <1>1, <1>2, <1>3 DEF LiveAt, Live
  <1>5. Cardinality(LiveAt(at)') = Cardinality(held) - 1
    <2>1. IsFiniteSet(held) BY <1>2, LiveAtFinite
    <2>2. c \in held BY <1>4
    <2>3. Cardinality(held \ {c}) = Cardinality(held) - 1
      BY ONLY <2>1, <2>2, FS_RemoveElement
    <2>4. LiveAt(at)' = held \ {c} BY <1>4
    <2> QED BY ONLY <2>3, <2>4
  <1>6. permits' = [permits EXCEPT ![at] = @ + 1]
    BY <1>3, FS_Singleton DEF End, Release
  <1>7. permits[at] + Cardinality(held) = Connections /\ Cardinality(held) \in Nat
    BY <1>2, <1>3, LiveAtFinite DEF PermitInv
  <1>8. permits'[at] \in Nat /\ permits'[at] + Cardinality(LiveAt(at)') = Connections
    BY <1>5, <1>6, <1>7 DEF PermitInv
  <1> QED BY <1>1, <1>4, <1>6, <1>8 DEF PermitInv

\* A failing listener gives back the permits of all sessions it aborts.
LEMMA PermitListenerFails ==
    ASSUME PermitInv, ConnTyped', NEW l \in Listeners, ListenerFails(l)
    PROVE  PermitInv'
  <1>1. {c \in SessionsOf(l) : Live(c)} = LiveAt(l) BY DEF SessionsOf, LiveAt
  <1>2. permits' = [permits EXCEPT ![l] = @ + Cardinality(LiveAt(l))]
    BY <1>1 DEF ListenerFails, Release
  <1>3. ASSUME NEW c \in Conns
        PROVE  /\ conn[c].at # l => conn'[c] = conn[c]
               /\ conn[c].at = l => conn'[c].at = l /\ ~Live(c)'
    <2>1. conn[c] \in [pc : ConnStates, at : Listeners \cup {NoConn.at}] BY DEF PermitInv, ConnTyped
    <2>2. CASE c \in SessionsOf(l)
      <3>1. conn'[c] = [conn[c] EXCEPT !.pc = IF Live(c) THEN "aborted" ELSE "joined"]
        BY <2>2 DEF ListenerFails
      <3> QED BY <2>1, <2>2, <3>1 DEF SessionsOf, Live
    <2>3. CASE c \notin SessionsOf(l)
      BY <2>3 DEF ListenerFails, SessionsOf, Live
    <2> QED BY <2>2, <2>3
  <1>4. LiveAt(l)' = {} /\ \A m \in Listeners \ {l} : LiveAt(m)' = LiveAt(m)
    BY <1>3 DEF LiveAt, Live
  <1>5. permits'[l] = Connections /\ Cardinality(LiveAt(l)') = 0
    <2>1. permits'[l] = Connections BY <1>2, LiveAtFinite DEF PermitInv
    <2> QED BY <1>4, <2>1, FS_EmptySet
  <1>6. permits' \in [Listeners -> Nat] /\ \A m \in Listeners \ {l} : permits'[m] = permits[m]
    BY <1>2, LiveAtFinite DEF PermitInv
  <1> QED BY <1>4, <1>5, <1>6, ConnectionsAssumption DEF PermitInv

\* Accept takes a permit or turns the connection away.
LEMMA PermitAccept ==
    ASSUME PermitInv, ConnTyped', NEW l \in Listeners, NEW c \in Conns, Accept(l, c)
    PROVE  PermitInv'
  <1>1. CASE TurnAway(l, c)
    <2>1. /\ conn[c].pc = "none" /\ conn'[c].pc = "rejected"
          /\ \A d \in Conns \ {c} : conn'[d] = conn[d]
      BY <1>1 DEF TurnAway, Accept, PermitInv, ConnTyped
    <2>2. \A d \in Conns : Live(d)' = Live(d) /\ (Live(d) => conn'[d].at = conn[d].at)
      BY <2>1 DEF Live
    <2> QED BY <1>1, <2>2, PermitStays DEF TurnAway
  <1>2. CASE Spawn(l, c) /\ permits[l] > 0
    <2>1. /\ conn'[c].pc = "opening" /\ conn'[c].at = l
          /\ \A d \in Conns \ {c} : conn'[d] = conn[d]
          /\ conn[c].pc = "none"
      BY <1>2 DEF Spawn, Accept, PermitInv, ConnTyped
    <2>2. /\ LiveAt(l)' = LiveAt(l) \cup {c} /\ c \notin LiveAt(l)
          /\ \A m \in Listeners \ {l} : LiveAt(m)' = LiveAt(m)
      BY <2>1 DEF LiveAt, Live
    <2>3. Cardinality(LiveAt(l)') = Cardinality(LiveAt(l)) + 1
      BY <2>2, LiveAtFinite, FS_AddElement
    <2>4. permits' = [permits EXCEPT ![l] = @ - 1] BY <1>2 DEF Spawn
    <2>5. permits'[l] \in Nat /\ permits'[l] + Cardinality(LiveAt(l)') = Connections
      BY <1>2, <2>3, <2>4, LiveAtFinite DEF PermitInv
    <2> QED BY <2>2, <2>4, <2>5 DEF PermitInv
  <1> QED BY <1>1, <1>2 DEF Accept

\* Every step preserves PermitInv.
LEMMA PermitNext == PermitInv /\ [Next]_vars => PermitInv'
  <1> SUFFICES ASSUME PermitInv, [Next]_vars PROVE PermitInv' OBVIOUS
  <1>1. CASE UNCHANGED <<conn, permits>>
    <2>1. ConnTyped' BY <1>1 DEF PermitInv, ConnTyped
    <2> QED BY <1>1, <2>1, PermitStays DEF Live
  <1>2. ASSUME NEW c \in Conns, NEW from \in ConnStates, NEW p \in ConnStates, UNCHANGED permits,
               conn[c].pc = from, from # "none", conn' = [conn EXCEPT ![c].pc = p],
               LET live == {"opening", "serving", "tracking", "closing"} IN from \in live <=> p \in live
        PROVE  PermitInv'
    <2>1. /\ ConnTyped' /\ conn'[c].pc = p /\ conn'[c].at = conn[c].at
          /\ \A d \in Conns \ {c} : conn'[d] = conn[d]
      BY <1>2, ConnMoves DEF PermitInv
    <2> QED BY <1>2, <2>1, PermitStays DEF Live
  <1>3. ASSUME NEW l \in Listeners, AcceptLoop(l) PROVE PermitInv'
    <2>0. ConnTyped' BY <1>3, AcceptMoves DEF PermitInv
    <2>1. ASSUME NEW c \in Conns, Reject(l, c) PROVE PermitInv'
      BY <1>2, <2>1 DEF Reject, ConnStates
    <2>2. ASSUME NEW c \in Conns, JoinSession(l, c), ~ListenerFails(l) PROVE PermitInv'
      BY <1>2, <2>2 DEF JoinSession, SessionsOf, Live, ConnStates
    <2> QED BY <1>1, <1>3, <2>0, <2>1, <2>2, PermitAccept, PermitListenerFails
            DEF AcceptLoop, AcceptFails, RejectFails, ObserveShutdown, Drained, sessionVars
  <1>4. ASSUME NEW c \in Conns, SessionStep(c) \/ Panic(c) PROVE PermitInv'
    <2>1. CASE End(c, "ended") \/ End(c, "panicked")
      BY <1>4, <2>1, PermitEnd
         DEF SessionStep, Open, Served, Tracked, Close, Panic, Live
    <2> QED BY <1>2, <1>4, <2>1
            DEF SessionStep, Open, Served, Tracked, Close, Panic, ConnStates
  <1>5. ASSUME NEW l \in Listeners, Bind(l) \/ JoinListener(l) \/ ListenerTrigger(l)
        PROVE  PermitInv'
    BY <1>1, <1>5 DEF Bind, JoinListener, ListenerTrigger, sessionVars, mainUnchanged
  <1>6. CASE \/ SpawnWriter \/ SpawnTasks \/ SignalTrigger \/ SignalFails \/ TuiTrigger
             \/ AuditTrigger \/ DropServices \/ AwaitAudit \/ JoinTui \/ WriterFails
             \/ WriterCloses \/ TuiDisconnects \/ \E r \in {"ok", "err"} : TuiEnds(r)
    BY <1>1, <1>6 DEF SpawnWriter, SpawnTasks, SignalTrigger, SignalFails, TuiTrigger,
       AuditTrigger, DropServices, AwaitAudit, JoinTui, WriterFails, WriterCloses,
       TuiDisconnects, TuiEnds, sessionVars, mainUnchanged
  <1>7. ASSUME NEW c \in Conns,
               \/ TrackerStep(c)
               \/ \E k \in Tasks : \/ \E kind \in TaskKinds : RegisterTask(c, k, kind)
                                   \/ \E r \in {"ok", "err"} : TaskEnds(c, k, r)
        PROVE  PermitInv'
    BY <1>1, <1>7 DEF TrackerStep, TrackerReceives, TrackerJoins, TrackerEnds, RegisterTask, TaskEnds
  <1>8. CASE UNCHANGED vars
    BY <1>1, <1>8 DEF vars, sessionVars
  <1> QED BY <1>3, <1>4, <1>5, <1>6, <1>7, <1>8 DEF Next, Trigger, MainStep

\* For every limit and every number of connections: a listener never runs more
\* sessions than limits.connections, and permits are neither lost nor doubled, by
\* sessions that end, panic or are aborted with their listener.
THEOREM PermitsAreConserved == Spec => []ConnectionsBounded
  <1>1. PermitInv => ConnectionsBounded
    <2> SUFFICES ASSUME PermitInv, NEW l \in Listeners
                 PROVE  /\ permits[l] >= 0
                        /\ permits[l] + Cardinality({c \in SessionsOf(l) : Live(c)}) = Connections
      BY DEF ConnectionsBounded
    <2>1. {c \in SessionsOf(l) : Live(c)} = LiveAt(l) BY DEF SessionsOf, LiveAt
    <2>2. permits[l] >= 0 /\ permits[l] + Cardinality(LiveAt(l)) = Connections BY DEF PermitInv
    <2> QED BY <2>1, <2>2, Zenon
  <1> QED BY <1>1, PermitInit, PermitNext, PTL DEF Spec
=============================================================================
