-------------------------- MODULE RepeatWorkspaces --------------------------
(***************************************************************************)
(* The repeat workspaces of the TUI (crates/freja-ui/src/tui) and the      *)
(* executor behind them (crates/freja-proxy/src/http/service/repeat.rs),   *)
(* composed with HttpExchange.  The TUI hands a workspace's request to the *)
(* executor over one bounded channel and takes results from another; the   *)
(* executor runs one exchange at a time.  Only the interactive mode has    *)
(* an executor, so the other listeners' exchanges run here without one.    *)
(*                                                                         *)
(* The editor is modal: no key reaches the workspace list while it is      *)
(* open, so opening and submitting it is one step of the operator.         *)
(***************************************************************************)
EXTENDS HttpExchange

CONSTANTS
    Sources,       \* paused transactions: name |-> retained request
    Edits,         \* [form, headers, body] that the editor may produce
    RetainedRows   \* ui_retained_rows: workspaces, and both channels' capacity

ASSUME RetainedRowsArePositive == RetainedRows \in Nat \ {0}

VARIABLES
    workspaces,  \* TuiModel::repeat_workspaces
    selected,    \* repeat_selected, counted from 1
    commands,    \* the request channel
    results,     \* the result channel: source transactions
    executor,    \* "running", "waiting" for shutdown, or "stopped"
    running,     \* the source transaction of the exchange in hand
    tui          \* whether the TUI still holds its channel ends

repeatVars == <<workspaces, selected, commands, results, executor, running, tui>>

allVars == <<vars, repeatVars>>

-----------------------------------------------------------------------------
\* prepare_repeat_services
RepeatInit ==
    /\ Init
    /\ workspaces = <<>> /\ selected = 1
    /\ commands = <<>> /\ results = <<>>
    /\ executor = (IF Repeat THEN "running" ELSE "stopped")
    /\ running = none
    /\ tui = TRUE

Position(source) == { i \in DOMAIN workspaces : workspaces[i].source = source }

-----------------------------------------------------------------------------
(* The operator's keys and the TUI's tick.                                   *)

\* create_repeat_workspace for a paused row.
Create(source) ==
    LET request == Sources[source] IN
    /\ IF Position(source) # {}
       THEN selected' \in Position(source) /\ UNCHANGED workspaces
       ELSE /\ Len(workspaces) < RetainedRows
            /\ request.kind # "CONNECT" /\ request.target \in {"http", "https"}
            /\ workspaces' = Append(workspaces, [source |-> source, request |-> request,
                                                 in_flight |-> FALSE, answered |-> FALSE])
            /\ selected' = Len(workspaces) + 1
    /\ UNCHANGED <<commands, results, executor, running>>

Select ==
    /\ selected' \in DOMAIN workspaces
    /\ UNCHANGED <<workspaces, commands, results, executor, running>>

\* send_repeat with the workspaces as an edit left them.  A full or closed
\* channel, and a workspace in flight, leave a notice and nothing else.
send_repeat(edited) ==
    LET w == edited[selected]
        sends == ~w.in_flight /\ executor # "stopped" /\ Len(commands) < RetainedRows
    IN /\ commands' = IF sends THEN Append(commands, [source |-> w.source, request |-> w.request])
                      ELSE commands
       /\ workspaces' = IF sends
                        THEN [edited EXCEPT ![selected].in_flight = TRUE,
                                            ![selected].answered = FALSE]
                        ELSE edited

SendRepeat ==
    /\ selected \in DOMAIN workspaces
    /\ send_repeat(workspaces)
    /\ UNCHANGED <<selected, results, executor, running>>

\* The draft replaces the headers and the body, of a workspace in flight too; the
\* method and the target stay those of the source.
apply_repeat_edit(e) ==
    [workspaces EXCEPT ![selected].request =
        [@ EXCEPT !.form = e.form, !.headers = e.headers, !.body = e.body]]

\* submit_editor: apply_repeat_edit, then send_repeat.
SubmitEdit ==
    /\ selected \in DOMAIN workspaces
    /\ \E e \in Edits : send_repeat(apply_repeat_edit(e))
    /\ UNCHANGED <<selected, results, executor, running>>

\* Fault: a workspace in flight is deleted as well.
delete_selected_repeat_Any ==
    /\ selected \in DOMAIN workspaces
    /\ workspaces' = RemoveAt(workspaces, selected)
    /\ selected' = IF selected > Len(workspaces') /\ selected > 1 THEN selected - 1 ELSE selected
    /\ UNCHANGED <<commands, results, executor, running>>

delete_selected_repeat ==
    /\ selected \in DOMAIN workspaces
    /\ ~workspaces[selected].in_flight
    /\ workspaces' = RemoveAt(workspaces, selected)
    /\ selected' = IF selected > Len(workspaces') /\ selected > 1 THEN selected - 1 ELSE selected
    /\ UNCHANGED <<commands, results, executor, running>>

\* drain_repeat_results applies all that wait; a result without a workspace
\* is ignored.
drain_repeat_results ==
    /\ results # <<>>
    /\ workspaces' = [i \in DOMAIN workspaces |->
                        IF workspaces[i].source \in ToSet(results)
                        THEN [workspaces[i] EXCEPT !.in_flight = FALSE, !.answered = TRUE]
                        ELSE workspaces[i]]
    /\ results' = <<>>
    /\ UNCHANGED <<selected, commands, executor, running>>

Operator ==
    /\ Repeat /\ tui
    /\ \/ \E source \in DOMAIN Sources : Create(source)
       \/ Select \/ SendRepeat \/ SubmitEdit \/ delete_selected_repeat
    /\ UNCHANGED <<tui, vars>>

Tick ==
    /\ Repeat /\ tui
    /\ drain_repeat_results
    /\ UNCHANGED <<tui, vars>>

\* The TUI ends and drops its ends of both channels.
TuiEnds ==
    /\ Repeat /\ tui
    /\ tui' = FALSE
    /\ workspaces' = <<>> /\ selected' = 1 /\ results' = <<>>
    /\ UNCHANGED <<commands, executor, running, vars>>

-----------------------------------------------------------------------------
(* HttpRepeatExecutor::run                                                   *)

Idle ==
    /\ exchange' = [NewExchange EXCEPT !.at = "idle"]
    /\ message' = [request |-> Nothing, response |-> Nothing]

TakeCommand ==
    /\ executor = "running" /\ At("idle") /\ commands # <<>>
    /\ commands' = Tail(commands)
    /\ running' = Head(commands).source
    /\ exchange' = NewExchange
    /\ message' = [request |-> NewMessage(Head(commands).request), response |-> Nothing]
    /\ UNCHANGED <<workspaces, selected, results, executor>>

ChannelCloses ==
    /\ executor = "running" /\ At("idle") /\ commands = <<>> /\ ~tui
    /\ executor' = "waiting"
    /\ UNCHANGED <<workspaces, selected, commands, results, running, exchange, message>>

Report ==
    /\ executor = "running" /\ At("answered")
    /\ tui => Len(results) < RetainedRows
    /\ running' = none
    /\ results' = IF tui THEN Append(results, running) ELSE results
    /\ executor' = IF tui THEN executor ELSE "waiting"
    /\ Idle
    /\ UNCHANGED <<workspaces, selected, commands>>

\* Shutdown is seen between commands, while a result waits for room, and while
\* the executor only waits; an audit failure ends it at once.
Stop ==
    /\ executor \in {"running", "waiting"}
    /\ \/ shutdown /\ exchange.at \in {"idle", "answered"}
       \/ At("dropped")
    /\ executor' = "stopped"
    /\ commands' = <<>>
    /\ UNCHANGED <<workspaces, selected, results, running, exchange, message>>

Executor ==
    /\ Repeat
    /\ TakeCommand \/ ChannelCloses \/ Report \/ Stop
    /\ UNCHANGED <<tui, config, audit, shutdown>>

RepeatNext ==
    \/ Next /\ UNCHANGED repeatVars
    \/ Operator \/ Tick \/ TuiEnds \/ Executor

\* The executor's task runs its exchange itself.
Scheduled == (Proxy /\ UNCHANGED repeatVars) \/ Executor

RepeatSpec ==
    /\ RepeatInit /\ [][RepeatNext]_allVars
    /\ WF_allVars(Scheduled) /\ WF_allVars(Tick)

-----------------------------------------------------------------------------
Outstanding(source) ==
    Cardinality({ i \in DOMAIN commands : commands[i].source = source })
      + Cardinality({ i \in DOMAIN results : results[i] = source })
      + (IF running = source THEN 1 ELSE 0)

\* While executor and TUI run, a workspace is in flight exactly when one
\* command, exchange or result of its transaction is on its way; none belongs
\* to no workspace, so that the channels, which hold as many as there may be
\* workspaces, are never full: no result waits and no send is refused.
InFlightIsOutstanding ==
    (executor = "running" /\ tui) =>
      /\ \A source \in DOMAIN Sources :
           Outstanding(source) =
             Cardinality({ i \in Position(source) : workspaces[i].in_flight })
      /\ Len(commands) + Len(results) <= RetainedRows
      /\ \A i \in DOMAIN workspaces : ~(workspaces[i].in_flight /\ workspaces[i].answered)

InFlight(source) == \E i \in Position(source) : workspaces[i].in_flight

\* Every exchange ends, whatever its peers do, and so a workspace in flight is
\* answered unless the TUI ends or the executor stops: the exchanges before it
\* in the channel cannot hold it up for ever.
EveryWaitEnds ==
    /\ EveryExchangeEnds
    /\ \A source \in DOMAIN Sources :
         []<>(~InFlight(source) \/ ~tui \/ executor = "stopped")
=============================================================================
