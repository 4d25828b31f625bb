---------------------- MODULE InteractiveBrokerProofs ----------------------
(***************************************************************************)
(* Proofs about InteractiveBroker, for every number of requests, permits,  *)
(* channel places and rows.                                                *)
(***************************************************************************)
EXTENDS InteractiveBroker, FiniteSetTheorems, TLAPS

FlowStates == {"new", "observed", "acquired", "paused", "elapsed", "returned", "closed"}

-----------------------------------------------------------------------------
(* PermitsConserved *)

Held == {r \in Requests : flow[r] \in {"acquired", "paused", "elapsed"}}

PermitInv ==
    /\ flow \in [Requests -> FlowStates]
    /\ permits \in Nat
    /\ permits + Cardinality(Held) = MaxPaused

\* There are finitely many flows.
LEMMA HeldFinite == IsFiniteSet(Held) /\ Cardinality(Held) \in Nat
  <1>1. Held \subseteq Requests BY DEF Held
  <1> QED BY <1>1, RequestsAssumption, FS_Subset, FS_CardinalityType

\* All permits are free at first.
LEMMA PermitInit == Init => PermitInv
  <1> SUFFICES ASSUME Init PROVE PermitInv OBVIOUS
  <1>1. Held = {} BY DEF Init, Held
  <1>2. Cardinality(Held) = 0 BY <1>1, FS_EmptySet
  <1> QED BY <1>2, PausedAssumption DEF Init, PermitInv, FlowStates

\* A step of one flow that keeps its hold, or its lack of one.
LEMMA PermitStays ==
    ASSUME PermitInv, NEW r \in Requests, NEW to \in FlowStates, UNCHANGED permits,
           flow' = [flow EXCEPT ![r] = to],
           LET held == {"acquired", "paused", "elapsed"} IN flow[r] \in held <=> to \in held
    PROVE  PermitInv'
  <1>1. Held' = Held BY DEF Held, PermitInv
  <1> QED BY <1>1 DEF PermitInv

\* intercept_http_request takes a permit.
LEMMA PermitTaken ==
    ASSUME PermitInv, NEW r \in Requests, permits > 0, permits' = permits - 1,
           flow[r] \in {"observed"}, flow' = [flow EXCEPT ![r] = "acquired"]
    PROVE  PermitInv'
  <1>1. Held' = Held \cup {r} /\ r \notin Held BY DEF Held, PermitInv
  <1>2. Cardinality(Held') = Cardinality(Held) + 1 BY <1>1, HeldFinite, FS_AddElement
  <1>3. flow' \in [Requests -> FlowStates] BY DEF PermitInv, FlowStates
  <1> QED BY <1>2, <1>3, HeldFinite DEF PermitInv

\* It returns and drops the permit, whatever it returns.
LEMMA PermitDropped ==
    ASSUME PermitInv, NEW r \in Requests, permits' = permits + 1,
           flow[r] \in {"acquired", "paused", "elapsed"}, flow' = [flow EXCEPT ![r] = "returned"]
    PROVE  PermitInv'
  <1>1. Held' = Held \ {r} /\ r \in Held BY DEF Held, PermitInv
  <1>2. Cardinality(Held') = Cardinality(Held) - 1 BY <1>1, HeldFinite, FS_RemoveElement
  <1>3. flow' \in [Requests -> FlowStates] BY DEF PermitInv, FlowStates
  <1> QED BY <1>2, <1>3, HeldFinite DEF PermitInv

\* Every step preserves PermitInv.
LEMMA PermitNext == PermitInv /\ [Next]_vars => PermitInv'
  <1> SUFFICES ASSUME PermitInv, [Next]_vars PROVE PermitInv' OBVIOUS
  <1>1. CASE UNCHANGED <<flow, permits>>
    <2>1. Held' = Held BY <1>1 DEF Held
    <2> QED BY <1>1, <2>1 DEF PermitInv
  <1>2. ASSUME NEW r \in Requests, FlowStep(r) PROVE PermitInv'
    <2> USE DEF FlowStates
    <2>1. CASE ObserveHttp(r) BY <2>1, PermitStays DEF ObserveHttp
    <2>2. CASE Acquire(r) BY <2>2, PermitTaken, PermitStays DEF Acquire, Return
    <2>3. CASE TrySend(r) BY <2>3, PermitDropped, PermitStays DEF TrySend, Return
    <2>4. CASE Answered(r) BY <2>4, PermitDropped DEF Answered, Return
    <2>5. CASE Elapse(r) BY <2>5, PermitStays DEF Elapse
    <2>6. CASE TimeOut(r) BY <2>6, PermitDropped DEF TimeOut, Return
    <2>7. CASE Cancel(r) BY <2>7, PermitDropped DEF Cancel, Return
    <2>8. CASE CloseFlow(r) BY <2>8, PermitStays DEF CloseFlow
    <2> QED BY <1>2, <2>1, <2>2, <2>3, <2>4, <2>5, <2>6, <2>7, <2>8 DEF FlowStep
  <1>3. CASE TuiStep
    BY <1>1, <1>3 DEF TuiStep, ApplyEvent, EventsDrained, DrainIntercept, Refresh, HandleKey, Exit,
       NoKey, MoveSelection, AnswerKey, OpenEditor, SubmitEditor, DiscardEditor, flowVars
  <1>4. CASE UNCHANGED vars BY <1>1, <1>4 DEF vars
  <1> QED BY <1>2, <1>3, <1>4 DEF Next, Finished

\* For every number of requests and every limit of paused flows: no path out of
\* intercept_http_request leaks or doubles a permit.
THEOREM PermitsNeverLeak == Spec => []PermitsConserved
  <1>1. PermitInv => PermitsConserved
    BY DEF PermitInv, PermitsConserved, Held
  <1> QED BY <1>1, PermitInit, PermitNext, PTL DEF Spec

-----------------------------------------------------------------------------
(* OutcomeHasACause *)

Distinct(s) == \A i, j \in 1..Len(s) : s[i] = s[j] => i = j

\* The end of a queue without repetitions.
LEMMA AppendDistinct ==
    ASSUME NEW s \in Seq(Requests), Distinct(s), NEW r \in Requests, r \notin ToSet(s)
    PROVE  /\ Append(s, r) \in Seq(Requests) /\ Distinct(Append(s, r))
           /\ ToSet(Append(s, r)) = ToSet(s) \cup {r}
  BY DEF Distinct, ToSet

\* One element out of it.
LEMMA DropDistinct ==
    ASSUME NEW s \in Seq(Requests), Distinct(s), NEW i \in 1..Len(s), NEW t \in Seq(Requests),
           Len(t) = Len(s) - 1,
           \A k \in 1..Len(t) : t[k] = IF k < i THEN s[k] ELSE s[k + 1]
    PROVE  Distinct(t) /\ ToSet(t) = ToSet(s) \ {s[i]}
  <1>0. DOMAIN s = 1..Len(s) /\ DOMAIN t = 1..Len(t) /\ Len(s) \in Nat /\ Len(t) \in Nat
    OBVIOUS
  <1>1. Distinct(t)
    <2> SUFFICES ASSUME NEW j \in 1..Len(t), NEW k \in 1..Len(t), t[j] = t[k] PROVE j = k
      BY DEF Distinct
    <2> DEFINE u(n) == IF n < i THEN n ELSE n + 1
    <2>1. u(j) \in 1..Len(s) /\ u(k) \in 1..Len(s) /\ s[u(j)] = s[u(k)]
      BY <1>0
    <2>2. u(j) = u(k) BY <2>1 DEF Distinct
    <2> QED BY <1>0, <2>2
  <1>2. ASSUME NEW x \in ToSet(t) PROVE x \in ToSet(s) \ {s[i]}
    <2>1. PICK k \in 1..Len(t) : x = t[k] BY <1>0, <1>2 DEF ToSet
    <2> DEFINE n == IF k < i THEN k ELSE k + 1
    <2>2. n \in 1..Len(s) /\ n # i /\ x = s[n] BY <1>0, <2>1
    <2> QED BY <1>0, <2>2 DEF ToSet, Distinct
  <1>3. ASSUME NEW x \in ToSet(s), x # s[i] PROVE x \in ToSet(t)
    <2>1. PICK n \in 1..Len(s) : x = s[n] BY <1>0, <1>3 DEF ToSet
    <2> DEFINE k == IF n < i THEN n ELSE n - 1
    <2>2. n # i BY <1>3, <2>1
    <2>3. k \in 1..Len(t) /\ x = t[k] BY <1>0, <2>1, <2>2
    <2> QED BY <1>0, <2>3 DEF ToSet
  <1> QED BY <1>1, <1>2, <1>3

\* Its head.
LEMMA TailDistinct ==
    ASSUME NEW s \in Seq(Requests), Distinct(s), s # <<>>
    PROVE  /\ Head(s) \in ToSet(s) /\ Head(s) \in Requests
           /\ Tail(s) \in Seq(Requests) /\ Distinct(Tail(s))
           /\ ToSet(Tail(s)) = ToSet(s) \ {Head(s)}
  <1>1. /\ Head(s) = s[1] /\ 1 \in 1..Len(s) /\ DOMAIN s = 1..Len(s)
        /\ Tail(s) \in Seq(Requests) /\ Len(Tail(s)) = Len(s) - 1
        /\ \A k \in 1..Len(Tail(s)) : Tail(s)[k] = IF k < 1 THEN s[k] ELSE s[k + 1]
    OBVIOUS
  <1>2. s[1] \in ToSet(s) /\ s[1] \in Requests BY <1>1 DEF ToSet
  <1>3. Distinct(Tail(s)) /\ ToSet(Tail(s)) = ToSet(s) \ {s[1]}
    <2> DEFINE t == Tail(s)
    <2>1. /\ t \in Seq(Requests) /\ Len(t) = Len(s) - 1 /\ 1 \in 1..Len(s)
          /\ \A k \in 1..Len(t) : t[k] = IF k < 1 THEN s[k] ELSE s[k + 1]
      BY <1>1
    <2> HIDE DEF t
    <2>2. Distinct(t) /\ ToSet(t) = ToSet(s) \ {s[1]} BY <2>1, DropDistinct
    <2> QED BY <2>2 DEF t
  <1> QED BY <1>1, <1>2, <1>3

\* Past its first part, a concatenation holds the second.
LEMMA SecondPart ==
    ASSUME NEW S, NEW a \in Seq(S), NEW b \in Seq(S),
           NEW k \in Nat, Len(a) + 1 <= k, k <= Len(a) + Len(b)
    PROVE  (a \o b)[k] = b[k - Len(a)]
OBVIOUS

\* Any place in it.
LEMMA RemoveDistinct ==
    ASSUME NEW s \in Seq(Requests), Distinct(s), NEW i \in DOMAIN s
    PROVE  /\ RemoveAt(s, i) \in Seq(Requests) /\ Distinct(RemoveAt(s, i))
           /\ ToSet(RemoveAt(s, i)) = ToSet(s) \ {s[i]}
  <1>1. i \in 1..Len(s) OBVIOUS
  <1>2. /\ SubSeq(s, 1, i - 1) \in Seq(Requests) /\ Len(SubSeq(s, 1, i - 1)) = i - 1
        /\ \A k \in 1..(i - 1) : SubSeq(s, 1, i - 1)[k] = s[k]
    BY <1>1
  <1>3. /\ SubSeq(s, i + 1, Len(s)) \in Seq(Requests) /\ Len(SubSeq(s, i + 1, Len(s))) = Len(s) - i
        /\ \A k \in 1..(Len(s) - i) : SubSeq(s, i + 1, Len(s))[k] = s[i + k]
    BY <1>1
  <1>4. /\ RemoveAt(s, i) \in Seq(Requests) /\ Len(RemoveAt(s, i)) = Len(s) - 1
        /\ \A k \in 1..Len(RemoveAt(s, i)) :
              RemoveAt(s, i)[k] = IF k < i THEN s[k] ELSE s[k + 1]
    <2> DEFINE a == SubSeq(s, 1, i - 1)
               b == SubSeq(s, i + 1, Len(s))
    <2>1. /\ a \in Seq(Requests) /\ Len(a) = i - 1 /\ \A k \in 1..(i - 1) : a[k] = s[k]
          /\ b \in Seq(Requests) /\ Len(b) = Len(s) - i /\ \A k \in 1..(Len(s) - i) : b[k] = s[i + k]
      BY <1>2, <1>3
    <2>2. RemoveAt(s, i) = a \o b BY DEF RemoveAt
    <2> HIDE DEF a, b
    <2>3. a \o b \in Seq(Requests) /\ Len(a \o b) = Len(s) - 1 BY <1>1, <2>1
    <2>4. ASSUME NEW k \in 1..(Len(s) - 1)
          PROVE  (a \o b)[k] = IF k < i THEN s[k] ELSE s[k + 1]
      <3>1. CASE k < i
        <4>1. k \in 1..(i - 1) /\ k \in 1..Len(a) BY <1>1, <2>1, <3>1
        <4>2. (a \o b)[k] = a[k] BY <2>1, <4>1
        <4> QED BY <2>1, <3>1, <4>1, <4>2
      <3>2. CASE ~(k < i)
        <4>1. k - (i - 1) \in 1..(Len(s) - i) /\ i + (k - (i - 1)) = k + 1
          BY <1>1, <3>2
        <4>2. (a \o b)[k] = b[k - (i - 1)]
          <5>1. k \in Nat /\ Len(a) + 1 <= k /\ k <= Len(a) + Len(b) /\ Len(a) = i - 1
            BY <1>1, <2>1, <3>2
          <5>2. a \in Seq(Requests) /\ b \in Seq(Requests) BY <2>1
          <5>3. (a \o b)[k] = b[k - Len(a)] BY <5>1, <5>2, SecondPart
          <5> QED BY <5>1, <5>3
        <4>3. b[k - (i - 1)] = s[k + 1] BY <2>1, <4>1
        <4> QED BY <3>2, <4>2, <4>3
      <3> QED BY <3>1, <3>2
    <2> QED BY <2>2, <2>3, <2>4
  <1>5. Distinct(RemoveAt(s, i)) /\ ToSet(RemoveAt(s, i)) = ToSet(s) \ {s[i]}
    BY <1>1, <1>4, DropDistinct
  <1> QED BY <1>4, <1>5

\* A request waits in one place only and is answered only from there: whoever has
\* an answer waits nowhere, and whoever has a result had its answer before.
CauseInv ==
    /\ flow \in [Requests -> FlowStates]
    /\ result \in [Requests -> Decisions \cup {"none", "saturated", "channel_closed", "timed_out",
                                               "continue", "cancelled", "responder_dropped"}]
    /\ reply \in [Requests -> Decisions \cup {"none", "responder_dropped"}]
    /\ queue \in Seq(Requests) /\ Distinct(queue)
    /\ pending \in Seq(Requests) /\ Distinct(pending)
    /\ ToSet(queue) \cap ToSet(pending) = {}
    /\ editor \in Requests \cup {NoRequest}
    /\ \A r \in Requests :
         /\ reply[r] # "none" => r \notin ToSet(queue) \cup ToSet(pending)
         /\ flow[r] \in {"new", "observed", "acquired"} =>
               reply[r] = "none" /\ r \notin ToSet(queue) \cup ToSet(pending)
         /\ flow[r] \notin {"returned", "closed"} => result[r] = "none"
         /\ reply[r] = "responder_dropped" => Exited
    /\ OutcomeHasACause

\* Nothing has been asked.
LEMMA CauseInit == Init => CauseInv
  <1> SUFFICES ASSUME Init PROVE CauseInv OBVIOUS
  <1>1. ToSet(queue) = {} /\ ToSet(pending) = {} BY DEF Init, ToSet
  <1>2. "none" \notin Decisions BY RequestsAssumption, KeyAssumption DEF Decisions
  <1> QED BY <1>1, <1>2 DEF Init, CauseInv, FlowStates, Distinct, OutcomeHasACause, Exited

\* What an answer and an edit may be.
LEMMA DecisionWords ==
    /\ Decisions \cap {"none", "saturated", "channel_closed", "timed_out", "cancelled",
                       "responder_dropped"} = {}
    /\ NoRequest \notin Requests
  BY RequestsAssumption, KeyAssumption DEF Decisions, NoRequest

\* A step of a request's own task answers nobody and adds its request to the
\* channel at most.
LEMMA CauseFlow == ASSUME CauseInv, NEW q \in Requests, FlowStep(q) PROVE CauseInv'
  <1> USE DecisionWords
  <1>1. CASE ObserveHttp(q)
    BY <1>1 DEF ObserveHttp, modelVars, CauseInv, FlowStates, OutcomeHasACause, Exited
  <1>2. CASE Acquire(q)
    BY <1>2 DEF Acquire, Return, modelVars, CauseInv, FlowStates, OutcomeHasACause, Exited
  <1>3. CASE TrySend(q)
    <2>1. CASE queue' = Append(queue, q)
      <3>1. q \notin ToSet(queue) /\ q \notin ToSet(pending) /\ reply[q] = "none" /\ result[q] = "none"
        BY <1>3 DEF TrySend, CauseInv
      <3>2. queue' \in Seq(Requests) /\ Distinct(queue') /\ ToSet(queue') = ToSet(queue) \cup {q}
        BY <2>1, <3>1, AppendDistinct DEF CauseInv
      <3>3. queue' # queue BY <2>1 DEF CauseInv
      <3>4. /\ flow' = [flow EXCEPT ![q] = "paused"]
            /\ UNCHANGED <<result, reply, phase, pending, editor>>
        BY <1>3, <3>3 DEF TrySend
      <3> QED BY <3>1, <3>2, <3>4 DEF CauseInv, FlowStates, OutcomeHasACause, Exited
    <2>2. CASE queue' # Append(queue, q)
      BY <1>3, <2>2 DEF TrySend, Return, modelVars, CauseInv, FlowStates, OutcomeHasACause, Exited
    <2> QED BY <2>1, <2>2
  <1>4. CASE Answered(q)
    BY <1>4 DEF Answered, Return, modelVars, CauseInv, FlowStates, OutcomeHasACause, Exited
  <1>5. CASE Elapse(q)
    BY <1>5 DEF Elapse, modelVars, CauseInv, FlowStates, OutcomeHasACause, Exited
  <1>6. CASE TimeOut(q)
    BY <1>6, TimeoutAssumption
    DEF TimeOut, Return, modelVars, CauseInv, FlowStates, OutcomeHasACause, Exited
  <1>7. CASE Cancel(q)
    BY <1>7 DEF Cancel, Return, modelVars, CauseInv, FlowStates, OutcomeHasACause, Exited
  <1>8. CASE CloseFlow(q)
    BY <1>8 DEF CloseFlow, modelVars, CauseInv, FlowStates, OutcomeHasACause, Exited
  <1> QED BY <1>1, <1>2, <1>3, <1>4, <1>5, <1>6, <1>7, <1>8 DEF FlowStep

\* An answer goes to a request that waits, which stops waiting.
LEMMA CauseRespond ==
    ASSUME CauseInv, NEW d \in Decisions, RespondSelected(d), ~Exited, ~Exited',
           UNCHANGED <<flow, result, queue>>, editor' \in Requests \cup {NoRequest}
    PROVE  CauseInv'
  <1> USE DecisionWords
  <1> DEFINE q == SelectedTransaction
  <1>1. CASE q \in ToSet(pending)
    <2>1. PICK index \in DOMAIN pending : pending[index] = q /\ pending' = RemoveAt(pending, index)
      BY <1>1 DEF RespondSelected
    <2>2. /\ pending' \in Seq(Requests) /\ Distinct(pending')
          /\ ToSet(pending') = ToSet(pending) \ {q}
      BY <2>1, RemoveDistinct DEF CauseInv
    <2>3. q \in Requests BY <2>1 DEF CauseInv
    <2>4. reply' = IF flow[q] \in {"paused", "elapsed"} THEN [reply EXCEPT ![q] = d] ELSE reply
      BY <1>1 DEF RespondSelected
    <2>5. q \notin ToSet(queue) BY <1>1 DEF CauseInv
    <2> HIDE DEF q
    <2> QED BY <2>2, <2>3, <2>4, <2>5 DEF CauseInv, FlowStates, OutcomeHasACause
  <1>2. CASE q \notin ToSet(pending)
    <2>1. UNCHANGED <<pending, reply>> BY <1>2 DEF RespondSelected
    <2> QED BY <2>1 DEF CauseInv, FlowStates, OutcomeHasACause
  <1> QED BY <1>1, <1>2

\* The terminal thread moves requests from the channel to its own queue, answers
\* them from there, and drops them all when it ends.
LEMMA CauseTui == ASSUME CauseInv, TuiStep PROVE CauseInv'
  <1> USE DecisionWords
  <1>1. CASE ApplyEvent \/ EventsDrained \/ Refresh \/ NoKey \/ MoveSelection \/ OpenEditor
             \/ DiscardEditor
    <2>1. UNCHANGED <<flow, result, queue, reply, pending>> /\ (Exited => Exited')
      BY <1>1 DEF ApplyEvent, EventsDrained, Refresh, NoKey, MoveSelection, OpenEditor,
                  DiscardEditor, flowVars, Exited
    <2>2. editor' \in Requests \cup {NoRequest}
      <3>1. CASE OpenEditor
        <4>1. editor' \in ToSet(pending) BY <3>1 DEF OpenEditor
        <4>2. ToSet(pending) \subseteq Requests BY DEF CauseInv, ToSet
        <4> QED BY <4>1, <4>2
      <3>2. CASE ~OpenEditor
        BY <1>1, <3>2 DEF ApplyEvent, EventsDrained, Refresh, NoKey, MoveSelection,
                          DiscardEditor, CauseInv
      <3> QED BY <3>1, <3>2
    <2> QED BY <2>1, <2>2 DEF CauseInv, OutcomeHasACause
  <1>2. CASE DrainIntercept
    <2> DEFINE q == Head(queue)
    <2>1. queue # <<>> /\ queue' = Tail(queue) /\ pending' = Append(pending, q)
      BY <1>2 DEF DrainIntercept
    <2>2. /\ q \in ToSet(queue) /\ q \in Requests
          /\ queue' \in Seq(Requests) /\ Distinct(queue') /\ ToSet(queue') = ToSet(queue) \ {q}
      BY <2>1, TailDistinct DEF CauseInv
    <2>3. q \notin ToSet(pending) BY <2>2 DEF CauseInv
    <2>4. /\ pending' \in Seq(Requests) /\ Distinct(pending')
          /\ ToSet(pending') = ToSet(pending) \cup {q}
      BY <2>1, <2>2, <2>3, AppendDistinct DEF CauseInv
    <2>5. UNCHANGED <<flow, result, reply, phase, editor>> BY <1>2 DEF DrainIntercept, flowVars
    <2> HIDE DEF q
    <2> QED BY <2>2, <2>3, <2>4, <2>5 DEF CauseInv, OutcomeHasACause, Exited
  <1>3. CASE AnswerKey
    <2>1. PICK d \in KeyDecisions : RespondSelected(d) BY <1>3 DEF AnswerKey
    <2>2. /\ d \in Decisions /\ ~Exited /\ ~Exited' /\ UNCHANGED <<flow, result, queue, editor>>
      BY <1>3 DEF AnswerKey, Decisions, Exited, flowVars
    <2>3. editor' \in Requests \cup {NoRequest} BY <2>2 DEF CauseInv
    <2> QED BY <2>1, <2>2, <2>3, CauseRespond
  <1>4. CASE SubmitEditor
    <2>1. /\ RespondSelected(editor) /\ editor' = NoRequest /\ editor # NoRequest
          /\ ~Exited /\ ~Exited' /\ UNCHANGED <<flow, result, queue>>
      BY <1>4 DEF SubmitEditor, Exited, flowVars
    <2>2. editor \in Decisions BY <2>1 DEF CauseInv, Decisions
    <2>3. PICK d \in Decisions : d = editor BY <2>2
    <2>4. RespondSelected(d) BY <2>1, <2>3
    <2> QED BY <2>1, <2>4, CauseRespond
  <1>5. CASE Exit
    <2>1. /\ queue' = <<>> /\ pending' = <<>> /\ Exited' /\ UNCHANGED <<flow, result, editor>>
          /\ reply' = [r \in Requests |-> IF r \in ToSet(pending) \cup ToSet(queue)
                                          THEN "responder_dropped" ELSE reply[r]]
      BY <1>5 DEF Exit, Exited, flowVars
    <2>2. /\ queue' \in Seq(Requests) /\ Distinct(queue') /\ ToSet(queue') = {}
          /\ pending' \in Seq(Requests) /\ Distinct(pending') /\ ToSet(pending') = {}
      BY <2>1 DEF Distinct, ToSet
    <2>3. \A r \in Requests : reply'[r] = reply[r] \/ reply[r] = "none"
      BY <2>1 DEF CauseInv
    <2>4. OutcomeHasACause' BY <2>1, <2>3 DEF CauseInv, OutcomeHasACause
    <2>5. reply' \in [Requests -> Decisions \cup {"none", "responder_dropped"}]
      BY <2>1 DEF CauseInv
    <2>6. \A r \in Requests :
            flow[r] \in {"new", "observed", "acquired"} => reply'[r] = "none"
      BY <2>1 DEF CauseInv
    <2> QED BY <2>1, <2>2, <2>4, <2>5, <2>6 DEF CauseInv
  <1> QED BY <1>1, <1>2, <1>3, <1>4, <1>5 DEF TuiStep, HandleKey

\* Every step keeps it.
LEMMA CauseNext == CauseInv /\ [Next]_vars => CauseInv'
  <1> SUFFICES ASSUME CauseInv, [Next]_vars PROVE CauseInv' OBVIOUS
  <1>1. CASE UNCHANGED vars
    BY <1>1 DEF vars, CauseInv, OutcomeHasACause, Exited
  <1> QED BY <1>1, CauseFlow, CauseTui DEF Next, Finished

\* Over any number of requests, permits and rows, whatever the interleaving of
\* answers, deadlines, departures and the terminal's end: what a flow acts on was
\* sent to that very request or is its deadline's configured outcome, and an
\* error names its real cause.
THEOREM OutcomesAreCaused == Spec => []OutcomeHasACause
  <1>1. CauseInv => OutcomeHasACause BY DEF CauseInv
  <1> QED BY <1>1, CauseInit, CauseNext, PTL DEF Spec

=============================================================================
