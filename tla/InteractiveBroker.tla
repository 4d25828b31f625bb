------------------------- MODULE InteractiveBroker -------------------------
(***************************************************************************)
(* Interactive interception: HTTP flows pause through InteractiveBroker    *)
(* (crates/freja-policy/src/hook/interactive.rs) and the terminal thread   *)
(* answers them (crates/freja-ui/src/tui/runtime.rs, input.rs, model.rs).  *)
(*                                                                         *)
(* A request stands for its transaction and its session.  A modification   *)
(* is named by the request whose snapshot the operator edited; every other *)
(* decision by its key.  Row contents, pages and scrolling are left out.   *)
(***************************************************************************)
EXTENDS Integers, FiniteSets, SequencesExt

CONSTANTS
    Requests,         \* HTTP requests, each paused at most once
    Capacity,         \* capacity of the intercept channel
    MaxPaused,        \* limits.paused_flows
    TimeoutPolicy,    \* "fail-closed" or "fail-open"
    KeyDecisions,     \* decisions given by one key (c or Shift+R, r, x)
    UiCapacity,       \* capacity of the best-effort UI event channel; 0: it
                      \* stays full, every event is dropped
    MaxRows           \* limits.ui_retained_rows

\* A request is none of the words used for outcomes.
ASSUME RequestsAssumption ==
    /\ IsFiniteSet(Requests)
    /\ Requests \cap {"no request", "none", "continue", "reject", "cancel", "saturated",
                      "channel_closed", "timed_out", "cancelled", "responder_dropped"} = {}

\* InteractiveBroker::channel refuses zero limits; RuntimeLimits refuses fewer
\* retained rows than paused flows.
ASSUME CapacityAssumption == Capacity \in Nat \ {0}
ASSUME PausedAssumption == MaxPaused \in Nat \ {0}
ASSUME RowsAssumption == MaxRows \in Nat /\ MaxRows >= MaxPaused
ASSUME TimeoutAssumption == TimeoutPolicy \in {"fail-closed", "fail-open"}
ASSUME KeyAssumption == KeyDecisions \subseteq {"continue", "reject", "cancel"}
ASSUME UiAssumption == UiCapacity \in Nat

VARIABLES
    flow,             \* what each request's task is doing
    result,           \* what intercept_http_request returned to it
    permits,          \* free permits of InteractiveBroker::paused
    queue,            \* the intercept channel
    reply,            \* what went into each request's oneshot
    events,           \* the best-effort UI channel
    phase,            \* where run_tui is in its loop
    pending,          \* run_tui's VecDeque of unanswered requests
    paused_transactions,
    rows,             \* TuiModel::rows
    selected,         \* TuiModel::selected, counted from 1
    editor            \* the request whose snapshot is open in the editor

flowVars == <<flow, result, permits>>
modelVars == <<paused_transactions, rows, selected>>
vars == <<flow, result, permits, queue, reply, events, phase, pending,
          paused_transactions, rows, selected, editor>>

NoRequest == "no request"

Decisions == KeyDecisions \cup Requests

Exited == phase = "exited"

Init ==
    /\ flow = [r \in Requests |-> "new"]
    /\ result = [r \in Requests |-> "none"]
    /\ permits = MaxPaused
    /\ queue = <<>>
    /\ reply = [r \in Requests |-> "none"]
    /\ events = <<>>
    /\ phase = "events"
    /\ pending = <<>>
    /\ paused_transactions = {}
    /\ rows = <<>>
    /\ selected = 1
    /\ editor = NoRequest

-----------------------------------------------------------------------------
(* The flow's side *)

\* UiPublisher::try_publish: try_send, an event that does not fit is dropped.
PublishUi(event) ==
    events' = IF ~Exited /\ Len(events) < UiCapacity THEN Append(events, event)
                                                    ELSE events

ObserveHttp(r) ==
    /\ flow[r] = "new"
    /\ flow' = [flow EXCEPT ![r] = "observed"]
    /\ PublishUi([kind |-> "http_observed", request |-> r])
    /\ UNCHANGED <<result, permits, queue, reply, phase, pending, modelVars, editor>>

\* intercept_http_request returns: the result is known, the permit dropped.
Return(r, value, free) ==
    /\ flow' = [flow EXCEPT ![r] = "returned"]
    /\ result' = [result EXCEPT ![r] = value]
    /\ permits' = free
    /\ UNCHANGED <<events, phase, pending, modelVars, editor>>

\* try_acquire_owned, or Saturated.
Acquire(r) ==
    /\ flow[r] = "observed"
    /\ \/ /\ permits > 0
          /\ permits' = permits - 1
          /\ flow' = [flow EXCEPT ![r] = "acquired"]
          /\ UNCHANGED <<result, events, phase, pending, modelVars, editor>>
       \/ permits = 0 /\ Return(r, "saturated", permits)
    /\ UNCHANGED <<queue, reply>>

\* Fault: a full channel keeps the permit.
TrySend_LeaksPermit(r) ==
    /\ flow[r] = "acquired"
    /\ \/ /\ ~Exited
          /\ Len(queue) < Capacity
          /\ queue' = Append(queue, r)
          /\ flow' = [flow EXCEPT ![r] = "paused"]
          /\ UNCHANGED <<result, permits, events, phase, pending, modelVars, editor>>
       \/ /\ ~Exited
          /\ Len(queue) >= Capacity
          /\ Return(r, "saturated", permits)
          /\ UNCHANGED queue
       \/ /\ Exited
          /\ Return(r, "channel_closed", permits + 1)
          /\ UNCHANGED queue
    /\ UNCHANGED reply

\* try_send, or Saturated (full) or ChannelClosed.
TrySend(r) ==
    /\ flow[r] = "acquired"
    /\ \/ /\ ~Exited
          /\ Len(queue) < Capacity
          /\ queue' = Append(queue, r)
          /\ flow' = [flow EXCEPT ![r] = "paused"]
          /\ UNCHANGED <<result, permits, events, phase, pending, modelVars, editor>>
       \/ /\ ~Exited
          /\ Len(queue) >= Capacity
          /\ Return(r, "saturated", permits + 1)
          /\ UNCHANGED queue
       \/ /\ Exited
          /\ Return(r, "channel_closed", permits + 1)
          /\ UNCHANGED queue
    /\ UNCHANGED reply

\* timeout(receiver): the oneshot is ready, with a decision or a dropped sender.
Answered(r) ==
    /\ flow[r] = "paused"
    /\ reply[r] # "none"
    /\ Return(r, reply[r], permits + 1)
    /\ UNCHANGED <<queue, reply>>

\* Fault: the receiver is awaited without a deadline.
Elapse_Never(r) == FALSE

\* The deadline passes: timeout has polled an empty oneshot, but the receiver is
\* not dropped yet, so an answer sent now is taken and lost.
Elapse(r) ==
    /\ flow[r] = "paused"
    /\ reply[r] = "none"
    /\ flow' = [flow EXCEPT ![r] = "elapsed"]
    /\ UNCHANGED <<result, permits, queue, reply, events, phase, pending, modelVars, editor>>

\* Fault: the timeout policy is not consulted.
TimeOut_AlwaysOpen(r) ==
    /\ flow[r] = "elapsed"
    /\ Return(r, "continue", permits + 1)
    /\ UNCHANGED <<queue, reply>>

TimeOut(r) ==
    /\ flow[r] = "elapsed"
    /\ Return(r, IF TimeoutPolicy = "fail-open" THEN "continue" ELSE "timed_out", permits + 1)
    /\ UNCHANGED <<queue, reply>>

\* The client goes away: hyper drops the service future with its permit and
\* its oneshot receiver.
Cancel(r) ==
    /\ flow[r] = "paused"
    /\ Return(r, "cancelled", permits + 1)
    /\ UNCHANGED <<queue, reply>>

\* The connection ends and publishes FlowClosed.
CloseFlow(r) ==
    /\ flow[r] = "returned"
    /\ flow' = [flow EXCEPT ![r] = "closed"]
    /\ PublishUi([kind |-> "flow_closed", request |-> r])
    /\ UNCHANGED <<result, permits, queue, reply, phase, pending, modelVars, editor>>

FlowStep(r) ==
    \/ ObserveHttp(r) \/ Acquire(r) \/ TrySend(r) \/ Answered(r) \/ Elapse(r)
    \/ TimeOut(r) \/ Cancel(r) \/ CloseFlow(r)

-----------------------------------------------------------------------------
(* TuiModel: retained rows and the selection *)

NewRow(r, http) == [request |-> r, http |-> http, closed |-> FALSE]

\* The row shows a transaction that paused_transactions contains.
RowIsPaused(row, paused) == row.http /\ row.request \in paused

\* Makes room by removing row i; the selection follows the rows that move up.
Evict(m, i) ==
    [rows |-> RemoveAt(m.rows, i),
     selected |-> IF m.selected > i THEN m.selected - 1 ELSE m.selected]

\* ensure_http_row, ensure_tcp_row and ensure_paused_http_row: the index of the
\* request's row, pushed if there is none; 0 when no row may be removed for it.
EnsureRow(m, r, http, removable) ==
    LET found == SelectInSeq(m.rows, LAMBDA row : row.request = r /\ row.http = http)
        room == IF Len(m.rows) < MaxRows THEN m ELSE Evict(m, removable)
    IN  IF found # 0 THEN [model |-> m, index |-> found]
        ELSE IF Len(m.rows) >= MaxRows /\ removable = 0 THEN [model |-> m, index |-> 0]
        ELSE [model |-> [room EXCEPT !.rows = Append(@, NewRow(r, http))],
              index |-> Len(room.rows) + 1]

\* push_row evicts the first closed row that is not paused,
\* ensure_paused_http_row the first row that is not paused.
EnsureUnpaused(m, r, http) ==
    EnsureRow(m, r, http,
              SelectInSeq(m.rows, LAMBDA row : /\ row.closed
                                               /\ ~RowIsPaused(row, paused_transactions)))

\* Fault: a new paused request evicts the oldest row, whatever its state.
EnsurePaused_EvictsOldest(m, r, paused) == EnsureRow(m, r, TRUE, 1)

EnsurePaused(m, r, paused) ==
    EnsureRow(m, r, TRUE, SelectInSeq(m.rows, LAMBDA row : ~RowIsPaused(row, paused)))

CloseRow(row, r) == IF row.request = r THEN [row EXCEPT !.closed = TRUE] ELSE row

\* TuiModel::apply of HttpObserved selects the row.
HttpObserved(r) ==
    LET e == EnsureUnpaused([rows |-> rows, selected |-> selected], r, TRUE)
    IN  /\ rows' = e.model.rows
        /\ selected' = IF e.index = 0 THEN e.model.selected ELSE e.index

\* close_session: every row of the session, or a new TCP row for it.
FlowClosed(r) ==
    LET m == [rows |-> rows, selected |-> selected]
        known == \E i \in DOMAIN rows : rows[i].request = r
        e == IF known THEN m ELSE EnsureUnpaused(m, r, FALSE).model
    IN  /\ rows' = [i \in DOMAIN e.rows |-> CloseRow(e.rows[i], r)]
        /\ selected' = e.selected

\* transaction_id of the selected row, or NoRequest.
SelectedTransaction ==
    IF selected \in DOMAIN rows /\ rows[selected].http THEN rows[selected].request ELSE NoRequest

-----------------------------------------------------------------------------
(* run_tui: drain both channels, refresh, draw, handle one key *)

ApplyEvent ==
    /\ phase = "events"
    /\ events # <<>>
    /\ LET event == Head(events)
       IN  \/ event.kind = "http_observed" /\ HttpObserved(event.request)
           \/ event.kind = "flow_closed" /\ FlowClosed(event.request)
    /\ events' = Tail(events)
    /\ UNCHANGED <<flowVars, queue, reply, phase, pending, paused_transactions, editor>>

EventsDrained ==
    /\ phase = "events"
    /\ events = <<>>
    /\ phase' = "intercepts"
    /\ UNCHANGED <<flowVars, queue, reply, events, pending, modelVars, editor>>

\* drain_intercepts: apply_intercept_request, then pending.push_back.
DrainIntercept ==
    /\ phase = "intercepts"
    /\ queue # <<>>
    /\ LET r == Head(queue)
           e == EnsurePaused([rows |-> rows, selected |-> selected], r,
                             paused_transactions \cup {r})
       IN  /\ rows' = e.model.rows
           /\ selected' = IF e.index = 0 THEN e.model.selected ELSE e.index
           /\ paused_transactions' = paused_transactions \cup {r}
           /\ pending' = Append(pending, r)
    /\ queue' = Tail(queue)
    /\ UNCHANGED <<flowVars, reply, events, phase, editor>>

\* set_interactive_state, then draw.
Refresh ==
    /\ phase = "intercepts"
    /\ queue = <<>>
    /\ paused_transactions' = ToSet(pending)
    /\ phase' = "key"
    /\ UNCHANGED <<flowVars, queue, reply, events, pending, rows, selected, editor>>

\* No key within the poll interval, or one that changes none of this state.
NoKey ==
    /\ phase = "key"
    /\ phase' = "events"
    /\ UNCHANGED <<flowVars, queue, reply, events, pending, modelVars, editor>>

\* select_previous and select_next.
MoveSelection ==
    /\ phase = "key"
    /\ editor = NoRequest
    /\ selected' \in {selected - 1, selected + 1} \cap DOMAIN rows
    /\ phase' = "events"
    /\ UNCHANGED <<flowVars, queue, reply, events, pending, paused_transactions, rows, editor>>

\* respond_selected: the oneshot takes the decision if its receiver still exists.
RespondSelected(decision) ==
    LET r == SelectedTransaction
    IN  IF r \in ToSet(pending)
        THEN /\ \E index \in DOMAIN pending :
                   pending[index] = r /\ pending' = RemoveAt(pending, index)
             /\ reply' = IF flow[r] \in {"paused", "elapsed"}
                         THEN [reply EXCEPT ![r] = decision] ELSE reply
        ELSE UNCHANGED <<pending, reply>>

AnswerKey ==
    /\ phase = "key"
    /\ editor = NoRequest
    /\ \E decision \in KeyDecisions : RespondSelected(decision)
    /\ phase' = "events"
    /\ UNCHANGED <<flowVars, queue, events, modelVars, editor>>

\* e or i on a paused row: the editor takes a copy of the request.
OpenEditor ==
    /\ phase = "key"
    /\ editor = NoRequest
    /\ SelectedTransaction \in paused_transactions \cap ToSet(pending)
    /\ editor' = SelectedTransaction
    /\ phase' = "events"
    /\ UNCHANGED <<flowVars, queue, reply, events, pending, modelVars>>

\* s or Ctrl+S with a valid draft: answer the selected row, close the editor.
SubmitEditor ==
    /\ phase = "key"
    /\ editor # NoRequest
    /\ RespondSelected(editor)
    /\ editor' = NoRequest
    /\ phase' = "events"
    /\ UNCHANGED <<flowVars, queue, events, modelVars>>

DiscardEditor ==
    /\ phase = "key"
    /\ editor # NoRequest
    /\ editor' = NoRequest
    /\ phase' = "events"
    /\ UNCHANGED <<flowVars, queue, reply, events, pending, modelVars>>

\* run_tui returns: its receivers and every unanswered request are dropped.
Exit ==
    /\ phase = "key"
    /\ phase' = "exited"
    /\ reply' = [r \in Requests |->
                    IF r \in ToSet(pending) \cup ToSet(queue) THEN "responder_dropped"
                                                              ELSE reply[r]]
    /\ queue' = <<>>
    /\ pending' = <<>>
    /\ events' = <<>>
    /\ UNCHANGED <<flowVars, modelVars, editor>>

\* handle_key_with_repeat.  Scrolling, panes, pages and layout change nothing here
\* and are NoKey; the repeat page's keys are RepeatWorkspaces'.
HandleKey ==
    NoKey \/ MoveSelection \/ AnswerKey \/ OpenEditor \/ SubmitEditor \/ DiscardEditor

TuiStep ==
    \/ ApplyEvent \/ EventsDrained \/ DrainIntercept \/ Refresh
    \/ HandleKey \/ Exit

\* Everything has ended.
Finished ==
    /\ Exited
    /\ \A r \in Requests : flow[r] = "closed"
    /\ UNCHANGED vars

Next == (\E r \in Requests : FlowStep(r)) \/ TuiStep \/ Finished

Spec == Init /\ [][Next]_vars

\* The runtime polls a woken future and the timer fires.  Nothing is assumed of
\* the operator or of the terminal thread.
FairSpec ==
    Spec /\ \A r \in Requests : WF_vars(Answered(r) \/ Elapse(r) \/ TimeOut(r))

-----------------------------------------------------------------------------
(* Properties *)

\* No path out of intercept_http_request leaks or doubles a permit, whichever of
\* the answer, the deadline, the full channel and the client's departure ends it.
PermitsConserved ==
    permits + Cardinality({r \in Requests : flow[r] \in {"acquired", "paused", "elapsed"}})
        = MaxPaused

\* What a flow acts on is what the operator sent to that very request, or the
\* configured outcome of its deadline; an error names its real cause.
OutcomeHasACause ==
    \A r \in Requests :
        /\ result[r] \in Decisions =>
              result[r] = reply[r] \/ (TimeoutPolicy = "fail-open" /\ result[r] = "continue")
        /\ result[r] \in {"responder_dropped", "channel_closed"} => Exited
        /\ result[r] = "timed_out" => TimeoutPolicy = "fail-closed"

\* Row eviction never takes a row that still waits for the operator, though the
\* model only refreshes paused_transactions once per loop.  A FlowClosed event may
\* evict a row, but a selected row that stays is still the selected one
\* afterwards: the next key is for the request the operator sees.
PausedRowsSurvive ==
    [][/\ \A r \in ToSet(pending) :
             (\E i \in DOMAIN rows : rows[i].request = r /\ rows[i].http) =>
                 (\E i \in DOMAIN rows' : rows'[i].request = r /\ rows'[i].http)
       /\ phase = "events" /\ events # <<>> /\ Head(events).kind = "flow_closed" =>
             \/ SelectedTransaction' = SelectedTransaction
             \/ \A i \in DOMAIN rows' :
                   ~(rows'[i].request = SelectedTransaction /\ rows'[i].http)]_vars

\* A paused request always leaves the broker, even if the operator never presses
\* a key and the terminal thread never runs again.
PauseEnds == \A r \in Requests : flow[r] = "paused" ~> flow[r] \in {"returned", "closed"}

\* The editor "owns only that copied snapshot": a modification applied to a
\* request was drafted from that request.
EditAppliesToItsRequest ==
    \A r, s \in Requests : result[r] = s => r = s
=============================================================================
