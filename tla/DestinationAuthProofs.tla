------------------------ MODULE DestinationAuthProofs ------------------------
(***************************************************************************)
(* For every set of hosts, addresses, guards, policies and reloadable      *)
(* files: a session connects only where its pinned snapshot allows the     *)
(* host and every address, and each of its decisions is of that snapshot.  *)
(* Its detours are the policy's, and if policy ends it, its log says why.  *)
(* The first two results need nothing of what Evaluate computes; the other *)
(* two need that its three-valued expressions are monotone in what is      *)
(* known of the address.                                                   *)
(***************************************************************************)
EXTENDS DestinationAuth, FiniteSetTheorems, SequenceTheorems, WellFoundedInduction, TLAPS

\* The pinned snapshot lets the flow talk to its selected host ...
HostAllowed ==
    pinned.enforcement = "enforce" => Evaluate(pinned.policy, selected, NoIp) = "allow"

\* ... and to the i-th address of it.
AddressAllowed(i) ==
    pinned.enforcement = "enforce" =>
        /\ addresses[i] \notin pinned.guard
        /\ Evaluate(pinned.policy, selected, addresses[i]) = "allow"

Unresolved == {"start", "pin", "requested_facts", "requested_decision", "requested_action",
               "resolve"}
Judging == {"resolved_facts", "guard", "resolved_decision"}
Connecting == {"connect", "relay"}

\* The types the argument needs.
Typed ==
    /\ addresses \in Seq(Addresses)
    /\ next \in Nat \ {0}
    /\ pinned.enforcement \in {"enforce", "observe"}
    /\ snapshot.enforcement \in {"enforce", "observe"}

\* Until the first address is judged nothing is denied; from then on, as long as
\* no denial is remembered, the addresses before `next` are allowed.
AuthInv ==
    /\ Typed
    /\ pc \in Unresolved \cup {"target_resolved"} => next = 1 /\ first_denial = NoDecision
    /\ pc \in {"resolve", "target_resolved"} \cup Judging \cup Connecting => HostAllowed
    /\ pc \in {"target_resolved"} \cup Judging \cup Connecting => addresses # <<>>
    /\ pc \in Judging /\ first_denial = NoDecision =>
          \A i \in DOMAIN addresses : i < next => AddressAllowed(i)
    /\ pc \in {"guard", "resolved_decision"} => next <= Len(addresses)
    /\ pc = "resolved_decision" /\ first_denial = NoDecision /\ pinned.enforcement = "enforce" =>
          addresses[next] \notin pinned.guard
    /\ pc \in Connecting => \A i \in DOMAIN addresses : AddressAllowed(i)

\* A denial is never mistaken for the absence of one.
LEMMA DenialIsRemembered ==
    ASSUME NEW d, d.action # "allow"
    PROVE  d # NoDecision
  BY DEF NoDecision, Decision

\* What DNS or a literal gives is a sequence of addresses.
LEMMA AscendingIsSeq == Ascending \subseteq Seq(Addresses)
  <1>1. Cardinality(Addresses) \in Nat
    BY AddressAssumption, FS_CardinalityType
  <1>2. SUFFICES ASSUME NEW n \in 0..Cardinality(Addresses), NEW s \in [1..n -> Addresses]
                 PROVE  s \in Seq(Addresses)
    BY DEF Ascending
  <1> QED BY <1>1, <1>2

\* The start of a session.
LEMMA AuthInit == Init => AuthInv
  BY DEF Init, AuthInv, Typed, Snapshots, Unresolved, Judging, Connecting

\* authorize_requested_target reaches resolve only with the host allowed.
LEMMA AuthRequested ==
    ASSUME AuthInv, RequestedFacts \/ RequestedDecision \/ RequestedAction
    PROVE  AuthInv'
  <1> USE DEF AuthInv, Typed, Unresolved, Judging, Connecting, HostAllowed, AddressAllowed
  <1>1. CASE RequestedFacts
    BY <1>1 DEF RequestedFacts, flowVars
  <1>2. CASE RequestedDecision
    BY <1>2 DEF RequestedDecision, Permits, Decision
  <1>3. CASE RequestedAction
    BY <1>3 DEF RequestedAction, Return
  <1> QED BY <1>1, <1>2, <1>3

\* Resolve keeps the requested verdict; every address has still to be judged.
LEMMA AuthResolve ==
    ASSUME AuthInv, Resolve \/ ResolveFails \/ TargetResolved
    PROVE  AuthInv'
  <1> USE DEF AuthInv, Typed, Unresolved, Judging, Connecting, HostAllowed, AddressAllowed
  <1>1. CASE Resolve
    <2>1. CASE selected \in DOMAIN IpHosts
      <3>1. IpHosts[selected] \in Addresses
        BY <2>1, IpHostsAssumption
      <3>2. addresses' = <<IpHosts[selected]>>
        BY <1>1, <2>1 DEF Resolve
      <3>3. addresses' \in Seq(Addresses) /\ addresses' # <<>>
        BY <3>1, <3>2
      <3> QED BY <1>1, <3>3 DEF Resolve, Return
    <2>2. CASE selected \notin DOMAIN IpHosts
      <3>1. addresses' \in Ascending
        BY <1>1, <2>2 DEF Resolve
      <3>2. addresses' \in Seq(Addresses)
        BY <3>1, AscendingIsSeq
      <3> QED BY <1>1, <3>2 DEF Resolve, Return
    <2> QED BY <2>1, <2>2
  <1>2. CASE ResolveFails
    BY <1>2 DEF ResolveFails, Return, flowVars
  <1>3. CASE TargetResolved
    BY <1>3 DEF TargetResolved, flowVars
  <1> QED BY <1>1, <1>2, <1>3

\* authorize_resolved_targets: a guarded or denied address leaves a denial.
LEMMA AuthResolved ==
    ASSUME AuthInv,
           ResolvedFacts \/ GuardDecision \/ ResolvedDecision \/ ResolvedDone \/ ResolvedAction
    PROVE  AuthInv'
  <1> USE DEF AuthInv, Typed, Unresolved, Judging, Connecting, HostAllowed, AddressAllowed
  <1>1. CASE ResolvedFacts
    BY <1>1 DEF ResolvedFacts, flowVars
  <1>2. CASE GuardDecision
    BY <1>2, DenialIsRemembered DEF GuardDecision, RememberDenial, Permits, Decision
  <1>3. CASE ResolvedDecision
    BY <1>3, DenialIsRemembered DEF ResolvedDecision, RememberDenial, Permits, Decision
  <1>4. CASE ResolvedDone
    BY <1>4 DEF ResolvedDone
  <1>5. CASE ResolvedAction
    BY <1>5 DEF ResolvedAction, Return, flowVars
  <1> QED BY <1>1, <1>2, <1>3, <1>4, <1>5

\* The other steps leave the verdicts alone.
LEMMA AuthOther ==
    ASSUME AuthInv,
           \/ Accepted \/ SessionFails \/ CloseFlow \/ RelayEnds \/ PinSnapshot
           \/ Connected \/ ConnectFails \/ ConnectShutdown \/ PublishFails
           \/ Hangup \/ SignalShutdown \/ UNCHANGED vars
    PROVE  AuthInv'
  <1> USE DEF AuthInv, Typed, Unresolved, Judging, Connecting, HostAllowed, AddressAllowed
  <1>1. CASE Accepted
    BY <1>1 DEF Accepted, flowVars
  <1>2. CASE SessionFails
    BY <1>2 DEF SessionFails, flowVars
  <1>3. CASE CloseFlow
    BY <1>3 DEF CloseFlow, flowVars
  <1>4. CASE RelayEnds
    BY <1>4 DEF RelayEnds, Return, flowVars
  <1>5. CASE PinSnapshot
    BY <1>5 DEF PinSnapshot
  <1>6. CASE Connected
    BY <1>6 DEF Connected, flowVars
  <1>7. CASE ConnectFails
    BY <1>7 DEF ConnectFails, Return
  <1>8. CASE ConnectShutdown
    BY <1>8 DEF ConnectShutdown, Return, flowVars
  <1>9. CASE PublishFails
    BY <1>9 DEF PublishFails, Return, flowVars
  <1>10. CASE Hangup
    BY <1>10, CandidatesAssumption DEF Hangup, Reload, flowVars
  <1>11. CASE SignalShutdown
    BY <1>11 DEF SignalShutdown, flowVars
  <1>12. CASE UNCHANGED vars
    BY <1>12 DEF vars
  <1> QED BY <1>1, <1>2, <1>3, <1>4, <1>5, <1>6, <1>7, <1>8, <1>9, <1>10, <1>11, <1>12

\* Every step preserves AuthInv.
LEMMA AuthNext == AuthInv /\ [Next]_vars => AuthInv'
  BY AuthRequested, AuthResolve, AuthResolved, AuthOther DEF Next, FlowStep, Ended

\* A session reaches connect_any, and relays, only if its pinned snapshot allows
\* the requested host and every address DNS gave, whatever policies and reloads
\* there are.
THEOREM ConnectAuthorized == Spec => []ConnectNeedsFullAuthorization
  <1>1. AuthInv => ConnectNeedsFullAuthorization
    BY DEF AuthInv, Connecting, HostAllowed, AddressAllowed, ConnectNeedsFullAuthorization,
           Authorized, Range
  <1> QED BY AuthInit, AuthNext, <1>1, PTL DEF Spec

-----------------------------------------------------------------------------

\* The conclusion of OneGeneration for one record.
OfPinned(r) ==
    r.event = "acl_evaluated" =>
        /\ r.generation = pinned.generation
        /\ r.decision.generation = pinned.generation
        /\ \/ r.decision.action = "deny" /\ r.decision.ip \in pinned.guard
           \/ \E host \in {requested, selected} :
                 r.decision.action = Evaluate(pinned.policy, host, r.decision.ip)

\* Nothing is decided before the snapshot is pinned, only a detour parts the
\* selected host from the requested one, and "guard" means a guarded address.
GenInv ==
    /\ records \in Seq(Range(records))
    /\ \A i \in DOMAIN records : OfPinned(records[i])
    /\ pc \in {"start", "pin"} => \A i \in DOMAIN records : records[i].event # "acl_evaluated"
    /\ ~detoured => selected = requested
    /\ pc = "guard" => addresses[next] \in pinned.guard

\* A sequence is one over the set of its own elements.
LEMMA SeqOfItsElements ==
    ASSUME NEW T, NEW t \in Seq(T)
    PROVE  t \in Seq(Range(t))
  <1>1. Len(t) \in Nat /\ DOMAIN t = 1..Len(t) /\ t \in [1..Len(t) -> T]
    BY LenProperties
  <1>2. \A i \in 1..Len(t) : t[i] \in Range(t)
    BY <1>1 DEF Range
  <1> QED BY <1>1, <1>2

\* What is published is one more record.
LEMMA PublishedRecord ==
    ASSUME NEW e, NEW g, NEW d, Published(e, g, d)
    PROVE  \E r : records' = Append(records, r) /\ r.event = e /\ r.decision = d
  <1>1. PICK r : r = [event |-> e, generation |-> g, decision |-> d] OBVIOUS
  <1>2. r.event = e /\ r.decision = d BY <1>1
  <1>3. records' = Append(records, r) BY <1>1, Zenon DEF Published
  <1> QED BY <1>2, <1>3, Zenon

\* What Append does to a list of records.
LEMMA AppendRecord ==
    ASSUME NEW s, s \in Seq(Range(s)), NEW r
    PROVE  /\ Append(s, r) \in Seq(Range(Append(s, r)))
           /\ \A i \in DOMAIN Append(s, r) :
                 (i \in DOMAIN s /\ Append(s, r)[i] = s[i]) \/ Append(s, r)[i] = r
  <1> DEFINE T == Range(s) \cup {r}
  <1>1. Append(s, r) \in Seq(T) /\ DOMAIN s = 1..Len(s) /\ Len(s) \in Nat
    OBVIOUS
  <1>2. \A i \in DOMAIN Append(s, r) :
           (i \in DOMAIN s /\ Append(s, r)[i] = s[i]) \/ Append(s, r)[i] = r
    BY <1>1
  <1> QED BY <1>1, <1>2, SeqOfItsElements

\* A step that appends one record and keeps what the older ones are judged by.
LEMMA GenAppend ==
    ASSUME GenInv, NEW r, records' = Append(records, r), OfPinned(r)',
           UNCHANGED <<pinned, requested>>, selected' = selected \/ selected = requested
    PROVE  /\ (records \in Seq(Range(records)))'
           /\ \A i \in DOMAIN records' : OfPinned(records[i])'
  <1>1. \A i \in DOMAIN records : OfPinned(records[i]) BY DEF GenInv
  <1>2. \A i \in DOMAIN records' :
           (i \in DOMAIN records /\ records'[i] = records[i]) \/ records'[i] = r
    BY AppendRecord DEF GenInv
  <1>3. ASSUME NEW i \in DOMAIN records, records'[i] = records[i]
        PROVE  OfPinned(records[i])'
    BY <1>1, <1>3 DEF OfPinned
  <1>4. ASSUME NEW i \in DOMAIN records', records'[i] = r
        PROVE  OfPinned(records[i])'
    BY <1>4 DEF OfPinned
  <1>5. (records \in Seq(Range(records)))'
    BY AppendRecord DEF GenInv
  <1> QED BY <1>2, <1>3, <1>4, <1>5

\* No record, no detour and no address at the start.
LEMMA GenInit == Init => GenInv
  <1> SUFFICES ASSUME Init PROVE GenInv OBVIOUS
  <1>1. records = <<>> /\ DOMAIN records = {} BY DEF Init
  <1>2. records \in Seq(Range(records)) BY <1>1
  <1> QED BY <1>1, <1>2 DEF Init, GenInv

\* Steps that publish something else than a decision.
LEMMA GenPublish ==
    ASSUME GenInv, \/ Accepted \/ RequestedFacts \/ RequestedAction \/ TargetResolved
                   \/ ResolvedFacts \/ ResolvedAction \/ CloseFlow
    PROVE  GenInv'
  <1>1. CASE Accepted
    <2>1. PICK r : records' = Append(records, r) /\ r.event = "connection_accepted"
      BY <1>1, PublishedRecord DEF Accepted
    <2>2. \A i \in DOMAIN records' : records'[i].event # "acl_evaluated"
      BY <1>1, <2>1, AppendRecord DEF Accepted, GenInv
    <2> QED BY <1>1, <2>1, <2>2, GenAppend DEF Accepted, OfPinned, GenInv, flowVars
  <1>2. CASE RequestedFacts
    <2>1. PICK r : records' = Append(records, r) /\ r.event = "replay_facts"
      BY <1>2, PublishedRecord DEF RequestedFacts
    <2> QED BY <1>2, <2>1, GenAppend DEF RequestedFacts, OfPinned, GenInv, flowVars
  <1>3. CASE RequestedAction
    <2>1. PICK r : records' = Append(records, r) /\ r.event = "action_executed"
      <3>1. Published("action_executed", ContextGeneration, decision)
        BY <1>3 DEF RequestedAction
      <3> QED BY <3>1, PublishedRecord
    <2>2. /\ UNCHANGED <<pinned, requested>>
          /\ pc' \in {"closing", "requested_facts"}
          /\ selected' = selected \/ ~detoured
          /\ ~detoured' => selected' = selected /\ ~detoured
      BY <1>3 DEF RequestedAction, flowVars, Return
    <2>3. selected' = selected \/ selected = requested
      BY <2>2 DEF GenInv
    <2>4. OfPinned(r)'
      BY <2>1 DEF OfPinned
    <2> QED BY <2>1, <2>2, <2>3, <2>4, GenAppend DEF GenInv
  <1>4. CASE TargetResolved
    <2>1. PICK r : records' = Append(records, r) /\ r.event = "target_resolved"
      BY <1>4, PublishedRecord DEF TargetResolved
    <2> QED BY <1>4, <2>1, GenAppend DEF TargetResolved, OfPinned, GenInv, flowVars
  <1>5. CASE ResolvedFacts
    <2>1. PICK r : records' = Append(records, r) /\ r.event = "replay_facts"
      BY <1>5, PublishedRecord DEF ResolvedFacts
    <2> QED BY <1>5, <2>1, GenAppend DEF ResolvedFacts, OfPinned, GenInv, flowVars
  <1>6. CASE ResolvedAction
    <2>1. PICK r : records' = Append(records, r) /\ r.event = "action_executed"
      BY <1>6, PublishedRecord DEF ResolvedAction
    <2> QED BY <1>6, <2>1, GenAppend DEF ResolvedAction, OfPinned, GenInv, flowVars, Return
  <1>7. CASE CloseFlow
    <2>1. PICK r : records' = Append(records, r) /\ r.event = "flow_closed"
      BY <1>7 DEF CloseFlow
    <2> QED BY <1>7, <2>1, GenAppend DEF CloseFlow, OfPinned, GenInv, flowVars
  <1> QED BY <1>1, <1>2, <1>3, <1>4, <1>5, <1>6, <1>7

\* The three places where a decision is made and published.
LEMMA GenDecide ==
    ASSUME GenInv, RequestedDecision \/ GuardDecision \/ ResolvedDecision
    PROVE  GenInv'
  <1> USE DEF GenInv, Published
  <1> DEFINE Recorded(d) == [event |-> "acl_evaluated", generation |-> d.generation, decision |-> d]
  <1>1. CASE RequestedDecision
    <2> DEFINE d == Decision(Evaluate(pinned.policy, selected, NoIp), pinned.generation, NoIp)
    <2>1. records' = Append(records, Recorded(d)) /\ UNCHANGED <<pinned, requested, selected>>
      BY <1>1 DEF RequestedDecision
    <2>2. OfPinned(Recorded(d))'
      BY <2>1 DEF OfPinned, Decision
    <2> QED BY <1>1, <2>1, <2>2, GenAppend DEF RequestedDecision
  <1>2. CASE GuardDecision
    <2> DEFINE d == Decision("deny", pinned.generation, addresses[next])
    <2>1. records' = Append(records, Recorded(d)) /\ UNCHANGED <<pinned, requested, selected>>
      BY <1>2 DEF GuardDecision
    <2>2. OfPinned(Recorded(d))'
      BY <1>2, <2>1 DEF OfPinned, Decision, GuardDecision
    <2> QED BY <1>2, <2>1, <2>2, GenAppend DEF GuardDecision
  <1>3. CASE ResolvedDecision
    <2>1. PICK d : d = Decision(Evaluate(pinned.policy, selected, addresses[next]),
                                pinned.generation, addresses[next])
      OBVIOUS
    <2>2. records' = Append(records, Recorded(d)) /\ UNCHANGED <<pinned, requested, selected>>
      BY <1>3, <2>1 DEF ResolvedDecision
    <2>3. OfPinned(Recorded(d))'
      BY <2>1, <2>2 DEF OfPinned, Decision
    <2>4. pc' \in {"resolved_action", "resolved_facts"} /\ UNCHANGED detoured
      BY <1>3 DEF ResolvedDecision
    <2> QED BY <2>2, <2>3, <2>4, GenAppend
  <1> QED BY <1>1, <1>2, <1>3

\* The steps that publish nothing.
LEMMA GenQuiet ==
    ASSUME GenInv,
           \/ SessionFails \/ RelayEnds \/ PinSnapshot \/ Resolve \/ ResolveFails \/ ResolvedDone
           \/ Connected \/ ConnectFails \/ ConnectShutdown \/ PublishFails
           \/ Hangup \/ SignalShutdown \/ UNCHANGED vars
    PROVE  GenInv'
  <1> USE DEF GenInv, OfPinned, flowVars, Return
  <1>1. CASE SessionFails BY <1>1 DEF SessionFails
  <1>2. CASE RelayEnds BY <1>2 DEF RelayEnds
  <1>3. CASE PinSnapshot BY <1>3 DEF PinSnapshot
  <1>4. CASE Resolve BY <1>4 DEF Resolve
  <1>5. CASE ResolveFails BY <1>5 DEF ResolveFails
  <1>6. CASE ResolvedDone BY <1>6 DEF ResolvedDone
  <1>7. CASE Connected BY <1>7 DEF Connected
  <1>8. CASE ConnectFails BY <1>8 DEF ConnectFails
  <1>9. CASE ConnectShutdown BY <1>9 DEF ConnectShutdown
  <1>10. CASE PublishFails BY <1>10 DEF PublishFails
  <1>11. CASE Hangup BY <1>11 DEF Hangup
  <1>12. CASE SignalShutdown BY <1>12 DEF SignalShutdown
  <1>13. CASE UNCHANGED vars BY <1>13 DEF vars
  <1> QED
    BY <1>1, <1>2, <1>3, <1>4, <1>5, <1>6, <1>7, <1>8, <1>9, <1>10, <1>11, <1>12, <1>13

\* Every step preserves GenInv.
LEMMA GenNext == GenInv /\ [Next]_vars => GenInv'
  BY GenPublish, GenDecide, GenQuiet DEF Next, FlowStep, Ended

\* Every decision a session records is one that the snapshot pinned at its start
\* gives, and carries that snapshot's generation, whatever reloads do meanwhile.
THEOREM OneSnapshot == Spec => []OneGeneration
  <1>1. GenInv => OneGeneration
    BY DEF GenInv, OfPinned, OneGeneration
  <1> QED BY GenInit, GenNext, <1>1, PTL DEF Spec

-----------------------------------------------------------------------------
(* The value of a policy's expressions *)

\* Every non-empty set of natural numbers has a least element.
LEMMA LeastNat ==
    ASSUME NEW T, T \subseteq Nat, T # {}
    PROVE  \E m \in T : \A k \in T : m <= k
<1> DEFINE R == {ss \in Nat \X Nat : ss[1] < ss[2]}
<1>1. IsWellFoundedOn(R, Nat)
  BY NatLessThanWellFounded, Zenon DEF OpToRel
<1>2. PICK m \in T : \A k \in T : ~ (<<k, m>> \in R)
  <2> HIDE DEF R
  <2> QED
    BY <1>1, WFMin
<1>3. ASSUME NEW k \in T
      PROVE  m <= k
  <2>1. k \in Nat /\ m \in Nat
    OBVIOUS
  <2>2. k < m => <<k, m>> \in R
    BY <2>1
  <2>3. ~(k < m)
    BY <1>2, <2>2, Zenon
  <2> QED
    BY <2>1, <2>3
<1> QED
  BY <1>3

Operators == {"all", "any", "not"}
Results == {"matched", "did_not_match", "unavailable"}

\* The body of evaluate_expression at one node.
NodeValue(e, host, ip, i, f) ==
    IF e[i].op \notin {"all", "any", "not"} THEN Leaf(e[i], host, ip)
    ELSE LET results == {f[j] : j \in e[i].of}
         IN  CASE e[i].op = "all" -> evaluate_all(results)
               [] e[i].op = "any" -> evaluate_any(results)
               [] OTHER -> evaluate_not(results)

\* The values of the nodes up to the n-th.
Valuation(f, e, host, ip, n) ==
    f = [i \in 1..n |-> NodeValue(e, host, ip, i, f)]

Valid(e) == IsList(e) /\ validate_expression(e)

\* An operator's operands come before it.
LEMMA OperandsComeFirst ==
    ASSUME NEW e, Valid(e), NEW i \in 1..Len(e), e[i].op \in Operators
    PROVE  e[i].of \subseteq 1..(i - 1)
<1>1. e[i] \notin Leaves
  BY DEF Leaves, Operators
<1> QED
  BY <1>1 DEF Valid, IsList, validate_expression

\* A node's value depends only on its operands'.
LEMMA NodeIsLocal ==
    ASSUME NEW e, NEW host, NEW ip, NEW i, NEW f, NEW g,
           e[i].op \in Operators => \A j \in e[i].of : f[j] = g[j]
    PROVE  NodeValue(e, host, ip, i, f) = NodeValue(e, host, ip, i, g)
<1>1. CASE e[i].op \notin Operators
  BY <1>1 DEF NodeValue, Operators
<1>2. CASE e[i].op \in Operators
  <2>1. {f[j] : j \in e[i].of} = {g[j] : j \in e[i].of}
    BY <1>2
  <2> QED
    BY <2>1 DEF NodeValue
<1> QED
  BY <1>1, <1>2

\* Every valid expression has a valuation, which evaluate_expression reads at
\* the root.
LEMMA EvaluationExists ==
    ASSUME NEW e, Valid(e), NEW host, NEW ip
    PROVE  \E f : /\ Valuation(f, e, host, ip, Len(e))
                  /\ evaluate_expression(e, host, ip) = f[Len(e)]
<1>0. Len(e) \in Nat /\ DOMAIN e = 1..Len(e)
  BY DEF Valid, IsList
<1> DEFINE T == {k \in 0..Len(e) : ~ \E f : Valuation(f, e, host, ip, k)}
<1>1. T = {}
  <2> SUFFICES ASSUME T # {} PROVE FALSE
    OBVIOUS
  <2>1. PICK m \in T : \A k \in T : m <= k
    <3>1. T \subseteq Nat
      BY <1>0
    <3> HIDE DEF T
    <3> QED
      BY <3>1, LeastNat
  <2>2. m \in 0..Len(e) /\ ~ \E f : Valuation(f, e, host, ip, m)
    OBVIOUS
  <2>3. CASE m = 0
    <3>1. Valuation([i \in 1..0 |-> "matched"], e, host, ip, 0)
      BY DEF Valuation
    <3> QED
      BY <2>2, <2>3, <3>1
  <2>4. CASE m # 0
    <3>1. m - 1 \in 0..Len(e) /\ m \in 1..Len(e) /\ m \in Nat
      BY <1>0, <2>2, <2>4
    <3>2. m - 1 \notin T
      BY <2>1, <3>1
    <3>3. PICK f : Valuation(f, e, host, ip, m - 1)
      BY <3>1, <3>2
    <3> DEFINE g == [i \in 1..m |-> IF i = m THEN NodeValue(e, host, ip, m, f) ELSE f[i]]
    <3>4. ASSUME NEW i \in 1..m
          PROVE  g[i] = NodeValue(e, host, ip, i, g)
      <4>1. e[i].op \in Operators => \A j \in e[i].of : f[j] = g[j]
        BY <1>0, <3>1, OperandsComeFirst
      <4>2. g[i] = NodeValue(e, host, ip, i, f)
        BY <3>1, <3>3 DEF Valuation
      <4> HIDE DEF g
      <4> QED
        BY <4>1, <4>2, NodeIsLocal
    <3>5. Valuation(g, e, host, ip, m)
      <4>1. g = [i \in 1..m |-> g[i]]
        OBVIOUS
      <4> HIDE DEF g
      <4>2. g = [i \in 1..m |-> NodeValue(e, host, ip, i, g)]
        BY <3>4, <4>1
      <4> QED
        BY <4>2 DEF Valuation
    <3> QED
      BY <2>2, <3>5
  <2> QED
    BY <2>3, <2>4
<1>2. \E f : Valuation(f, e, host, ip, Len(e))
  BY <1>0, <1>1
<1> DEFINE v == CHOOSE f : f = [i \in DOMAIN e |-> NodeValue(e, host, ip, i, f)]
<1>3. v = [i \in DOMAIN e |-> NodeValue(e, host, ip, i, v)]
  BY <1>0, <1>2 DEF Valuation
<1>4. evaluate_expression(e, host, ip) = v[Len(e)]
  BY DEF evaluate_expression, NodeValue
<1> QED
  BY <1>0, <1>3, <1>4 DEF Valuation

\* A leaf that does not need the address is the same without it.
LEMMA LeafIsMonotone ==
    ASSUME NEW node, NEW host, NEW ip, Leaf(node, host, NoIp) # "unavailable"
    PROVE  Leaf(node, host, ip) = Leaf(node, host, NoIp)
<1>1. node.op \notin {"http", "ip"}
  BY DEF Leaf
<1> QED
  BY <1>1 DEF Leaf

\* Three-valued evaluation is monotone: what is decided without an address stays
\* as it is when the address is known.
LEMMA EvaluationIsMonotone ==
    ASSUME NEW e, Valid(e), NEW host, NEW ip,
           evaluate_expression(e, host, NoIp) # "unavailable"
    PROVE  evaluate_expression(e, host, ip) = evaluate_expression(e, host, NoIp)
<1>0. Len(e) \in 1..Len(e) /\ Len(e) \in Nat
  BY DEF Valid, IsList, validate_expression
<1>1. PICK f : /\ Valuation(f, e, host, NoIp, Len(e))
               /\ evaluate_expression(e, host, NoIp) = f[Len(e)]
  BY EvaluationExists
<1>2. PICK g : /\ Valuation(g, e, host, ip, Len(e))
               /\ evaluate_expression(e, host, ip) = g[Len(e)]
  BY EvaluationExists
<1>3. \A i \in 1..Len(e) : /\ f[i] = NodeValue(e, host, NoIp, i, f)
                           /\ g[i] = NodeValue(e, host, ip, i, g)
  BY <1>1, <1>2 DEF Valuation
<1> DEFINE T == {i \in 1..Len(e) : f[i] # "unavailable" /\ g[i] # f[i]}
<1>4. T = {}
  <2> SUFFICES ASSUME T # {} PROVE FALSE
    OBVIOUS
  <2>1. PICK m \in T : \A k \in T : m <= k
    <3>1. T \subseteq Nat
      OBVIOUS
    <3> HIDE DEF T
    <3> QED
      BY <3>1, LeastNat
  <2>2. m \in 1..Len(e) /\ f[m] # "unavailable" /\ g[m] # f[m]
    OBVIOUS
  <2>3. CASE e[m].op \notin Operators
    <3>1. Leaf(e[m], host, NoIp) # "unavailable" /\ Leaf(e[m], host, ip) # Leaf(e[m], host, NoIp)
      BY <1>3, <2>2, <2>3 DEF NodeValue, Operators
    <3> QED
      BY <3>1, LeafIsMonotone
  <2>4. CASE e[m].op \in Operators
    <3> DEFINE fs == {f[j] : j \in e[m].of}
               gs == {g[j] : j \in e[m].of}
    <3>1. \A j \in e[m].of : f[j] = "unavailable" \/ g[j] = f[j]
      <4>1. e[m].of \subseteq 1..(m - 1)
        BY <2>2, <2>4, OperandsComeFirst
      <4>2. \A j \in 1..(m - 1) : j \in 1..Len(e) /\ ~(m <= j)
        BY <1>0, <2>2
      <4>3. \A j \in 1..(m - 1) : j \notin T
        BY <2>1, <4>2
      <4> QED
        BY <4>1, <4>2, <4>3
    <3>2. \A x \in fs : x = "unavailable" \/ x \in gs
      BY <3>1
    <3>3. "unavailable" \notin fs => fs = gs
      BY <3>1
    <3>4. /\ f[m] = CASE e[m].op = "all" -> evaluate_all(fs)
                      [] e[m].op = "any" -> evaluate_any(fs)
                      [] OTHER -> evaluate_not(fs)
          /\ g[m] = CASE e[m].op = "all" -> evaluate_all(gs)
                      [] e[m].op = "any" -> evaluate_any(gs)
                      [] OTHER -> evaluate_not(gs)
      BY <1>3, <2>2, <2>4 DEF NodeValue, Operators
    <3> HIDE DEF fs, gs
    <3>5. CASE "unavailable" \notin fs
      BY <2>2, <3>3, <3>4, <3>5
    <3>6. CASE "unavailable" \in fs
      <4>1. CASE e[m].op = "all"
        BY <2>2, <3>2, <3>4, <3>6, <4>1 DEF evaluate_all
      <4>2. CASE e[m].op = "any"
        BY <2>2, <3>2, <3>4, <3>6, <4>2 DEF evaluate_any
      <4>3. CASE e[m].op = "not"
        BY <2>2, <3>4, <3>6, <4>3 DEF evaluate_not
      <4> QED
        BY <2>4, <4>1, <4>2, <4>3 DEF Operators
    <3> QED
      BY <3>5, <3>6
  <2> QED
    BY <2>3, <2>4
<1> QED
  BY <1>0, <1>1, <1>2, <1>4

\* An expression over the requested stage does not read the address.
LEMMA RequestedStageIgnoresAddress ==
    ASSUME NEW e, Valid(e), is_requested_stage_expression(e), NEW host, NEW ip
    PROVE  evaluate_expression(e, host, ip) = evaluate_expression(e, host, NoIp)
<1>0. Len(e) \in 1..Len(e) /\ Len(e) \in Nat /\ DOMAIN e = 1..Len(e)
  BY DEF Valid, IsList, validate_expression
<1>1. PICK f : /\ Valuation(f, e, host, NoIp, Len(e))
               /\ evaluate_expression(e, host, NoIp) = f[Len(e)]
  BY EvaluationExists
<1>2. PICK g : /\ Valuation(g, e, host, ip, Len(e))
               /\ evaluate_expression(e, host, ip) = g[Len(e)]
  BY EvaluationExists
<1>3. \A i \in 1..Len(e) : /\ f[i] = NodeValue(e, host, NoIp, i, f)
                           /\ g[i] = NodeValue(e, host, ip, i, g)
  BY <1>1, <1>2 DEF Valuation
<1> DEFINE T == {i \in 1..Len(e) : g[i] # f[i]}
<1>4. T = {}
  <2> SUFFICES ASSUME T # {} PROVE FALSE
    OBVIOUS
  <2>1. PICK m \in T : \A k \in T : m <= k
    <3>1. T \subseteq Nat
      OBVIOUS
    <3> HIDE DEF T
    <3> QED
      BY <3>1, LeastNat
  <2>2. m \in 1..Len(e) /\ g[m] # f[m]
    OBVIOUS
  <2>3. e[m].op \in Operators => \A j \in e[m].of : f[j] = g[j]
    <3>1. \A j \in 1..(m - 1) : j \in 1..Len(e) /\ ~(m <= j)
      BY <1>0, <2>2
    <3>2. \A j \in 1..(m - 1) : j \notin T
      BY <2>1, <3>1
    <3> QED
      BY <2>2, <3>1, <3>2, OperandsComeFirst
  <2>4. NodeValue(e, host, NoIp, m, f) = NodeValue(e, host, NoIp, m, g)
    BY <2>3, NodeIsLocal
  <2>5. NodeValue(e, host, ip, m, g) = NodeValue(e, host, NoIp, m, g)
    <3>1. e[m].op \notin {"ip", "http"}
      BY <1>0, <2>2 DEF is_requested_stage_expression
    <3>2. Leaf(e[m], host, ip) = Leaf(e[m], host, NoIp)
      BY <3>1 DEF Leaf
    <3> QED
      BY <3>2 DEF NodeValue
  <2> QED
    BY <1>3, <2>2, <2>4, <2>5
<1> QED
  BY <1>0, <1>1, <1>2, <1>4

\* A host that the policy allows by name is never detoured because of an address
\* it resolves to.
LEMMA AddressBringsNoDetour ==
    ASSUME NEW p \in Policies, NEW host, NEW ip, Evaluate(p, host, NoIp) = "allow"
    PROVE  Evaluate(p, host, ip) \notin Hosts
<1> DEFINE Matching(a) ==
              {i \in DOMAIN p.rules :
                  evaluate_expression(p.rules[i].matcher, host, a) = "matched"}
           First(a) == CHOOSE i \in Matching(a) : \A j \in Matching(a) : i <= j
<1>1. /\ p.default \in {"allow", "deny"}
      /\ Len(p.rules) \in Nat /\ DOMAIN p.rules = 1..Len(p.rules)
      /\ \A i \in DOMAIN p.rules :
            /\ Valid(p.rules[i].matcher)
            /\ p.rules[i].action \in Hosts => is_requested_stage_expression(p.rules[i].matcher)
  BY PolicyAssumption DEF IsList, Valid
<1>2. \A a : Evaluate(p, host, a) =
                IF Matching(a) = {} THEN p.default ELSE p.rules[First(a)].action
  BY DEF Evaluate
<1>3. ASSUME NEW a, Matching(a) # {}
      PROVE  First(a) \in Matching(a) /\ \A j \in Matching(a) : First(a) <= j
  <2>1. Matching(a) \subseteq Nat
    BY <1>1
  <2> HIDE DEF Matching
  <2>2. \E i \in Matching(a) : \A j \in Matching(a) : i <= j
    BY <1>3, <2>1, LeastNat
  <2> QED
    BY <2>2
<1>4. SUFFICES ASSUME Evaluate(p, host, ip) \in Hosts PROVE FALSE
  OBVIOUS
<1>5. Matching(ip) # {} /\ p.rules[First(ip)].action \in Hosts
  BY <1>1, <1>2, <1>4, HostsAssumption
<1>6. First(ip) \in Matching(NoIp)
  <2>1. First(ip) \in Matching(ip)
    BY <1>3, <1>5
  <2> HIDE DEF First
  <2>2. evaluate_expression(p.rules[First(ip)].matcher, host, NoIp) = "matched"
    BY <1>1, <1>5, <2>1, RequestedStageIgnoresAddress
  <2> QED
    BY <2>1, <2>2
<1>7. /\ First(NoIp) \in Matching(NoIp) /\ First(NoIp) <= First(ip)
      /\ p.rules[First(NoIp)].action = "allow"
  BY <1>2, <1>3, <1>6
<1>8. First(NoIp) \in Matching(ip)
  <2>1. /\ Valid(p.rules[First(NoIp)].matcher)
        /\ evaluate_expression(p.rules[First(NoIp)].matcher, host, NoIp) = "matched"
        /\ First(NoIp) \in DOMAIN p.rules
    <3> HIDE DEF First
    <3> QED
      BY <1>1, <1>7
  <2> HIDE DEF First
  <2>2. evaluate_expression(p.rules[First(NoIp)].matcher, host, ip) = "matched"
    BY <2>1, EvaluationIsMonotone
  <2> QED
    BY <2>1, <2>2
<1>9. First(ip) <= First(NoIp) /\ First(ip) \in Nat /\ First(NoIp) \in Nat
  <2>1. Matching(ip) \subseteq Nat /\ Matching(NoIp) \subseteq Nat
    BY <1>1
  <2> HIDE DEF Matching, First
  <2> QED
    BY <1>3, <1>5, <1>6, <1>7, <1>8, <2>1
<1>10. First(ip) = First(NoIp)
  <2> HIDE DEF First
  <2> QED
    BY <1>7, <1>9
<1> QED
  BY <1>5, <1>7, <1>10, HostsAssumption

-----------------------------------------------------------------------------
(* Detours *)

\* The verdict of a record, and what makes it harmless: no detour is decided on an
\* address while enforcing.
NoLateDetour(r) ==
    r.decision.ip # NoIp /\ IsDetour(r.decision) => pinned.enforcement = "observe"

\* Policies are AclPolicy values; the flow leaves the requested host only by the
\* pinned policy, enforcing; what is pending or remembered is a denial, and on an
\* address never a detour.
DetourInv ==
    /\ snapshot.policy \in Policies /\ pinned.policy \in Policies
    /\ pc \notin {"closing", "done"} => outcome = "none"
    /\ pc \in {"start", "pin"} =>
          ~detoured /\ \A i \in DOMAIN records : records[i].decision.ip = NoIp
    /\ detoured => /\ pinned.enforcement = "enforce"
                   /\ selected = Evaluate(pinned.policy, requested, NoIp)
    /\ pc = "requested_action" =>
          /\ decision.action = Evaluate(pinned.policy, selected, NoIp)
          /\ decision.ip = NoIp
          /\ ~Permits(pinned, decision)
    /\ pc = "resolved_action" => ~Permits(pinned, decision) /\ ~IsDetour(decision)
    /\ pc \in Judging /\ first_denial # NoDecision =>
          ~Permits(pinned, first_denial) /\ ~IsDetour(first_denial)
    /\ outcome \in {"policy_denied", "detour_loop"} => pinned.enforcement = "enforce"
    /\ \A i \in DOMAIN records : NoLateDetour(records[i])

\* No attempt has been judged at first.
LEMMA DetourInit == Init => DetourInv
<1> SUFFICES ASSUME Init PROVE DetourInv
  OBVIOUS
<1>1. records = <<>> /\ DOMAIN records = {}
  BY DEF Init
<1> QED
  BY <1>1 DEF Init, DetourInv, Snapshots, Judging

\* A step that appends a harmless record keeps the older ones harmless.
LEMMA HarmlessAppend ==
    ASSUME GenInv, DetourInv, NEW r, records' = Append(records, r), UNCHANGED pinned,
           r.decision.ip # NoIp /\ IsDetour(r.decision) => pinned.enforcement = "observe"
    PROVE  \A i \in DOMAIN records' : NoLateDetour(records[i])'
<1>1. \A i \in DOMAIN records' :
         (i \in DOMAIN records /\ records'[i] = records[i]) \/ records'[i] = r
  BY AppendRecord DEF GenInv
<1> QED
  BY <1>1 DEF DetourInv, NoLateDetour

\* The requested stage.
LEMMA DetourRequested ==
    ASSUME AuthInv, GenInv, DetourInv,
           Accepted \/ PinSnapshot \/ RequestedFacts \/ RequestedDecision \/ RequestedAction
    PROVE  DetourInv'
<1> USE DEF Judging
<1>0. NoDecision.ip = NoIp
  BY DEF NoDecision, Decision
<1>1. CASE Accepted
  <2>1. PICK r : records' = Append(records, r) /\ r.decision = NoDecision
    BY <1>1, PublishedRecord DEF Accepted
  <2>2. \A i \in DOMAIN records' : NoLateDetour(records[i])'
    BY <1>0, <1>1, <2>1, HarmlessAppend DEF Accepted, flowVars
  <2>3. \A i \in DOMAIN records' : records'[i].decision.ip = NoIp
    BY <1>0, <1>1, <2>1, AppendRecord DEF Accepted, GenInv, DetourInv
  <2> QED
    BY <1>1, <2>2, <2>3 DEF Accepted, flowVars, DetourInv
<1>2. CASE PinSnapshot
  BY <1>2 DEF PinSnapshot, DetourInv, NoLateDetour
<1>3. CASE RequestedFacts
  <2>1. PICK r : records' = Append(records, r) /\ r.decision = NoDecision
    BY <1>3, PublishedRecord DEF RequestedFacts
  <2>2. \A i \in DOMAIN records' : NoLateDetour(records[i])'
    BY <1>0, <1>3, <2>1, HarmlessAppend DEF RequestedFacts, flowVars
  <2> QED
    BY <1>3, <2>2 DEF RequestedFacts, flowVars, DetourInv
<1>4. CASE RequestedDecision
  <2>1. PICK d : d = Decision(Evaluate(pinned.policy, selected, NoIp), pinned.generation, NoIp)
    OBVIOUS
  <2>2. /\ decision' = d /\ d.action = Evaluate(pinned.policy, selected, NoIp) /\ d.ip = NoIp
        /\ pc' = IF Permits(pinned, d) THEN "resolve" ELSE "requested_action"
    BY <1>4, <2>1 DEF RequestedDecision, Decision
  <2>3. PICK r : records' = Append(records, r) /\ r.decision = d
    <3>1. Published("acl_evaluated", d.generation, d)
      BY <1>4, <2>1 DEF RequestedDecision
    <3> QED
      BY <3>1, PublishedRecord
  <2>4. \A i \in DOMAIN records' : NoLateDetour(records[i])'
    BY <1>4, <2>2, <2>3, HarmlessAppend DEF RequestedDecision
  <2> QED
    BY <1>4, <2>2, <2>4 DEF RequestedDecision, DetourInv
<1>5. CASE RequestedAction
  <2>1. PICK r : records' = Append(records, r) /\ r.decision = decision
    <3>1. Published("action_executed", ContextGeneration, decision)
      BY <1>5, Zenon DEF RequestedAction
    <3> QED
      BY <3>1, PublishedRecord
  <2>2. \A i \in DOMAIN records' : NoLateDetour(records[i])'
    BY <1>5, <2>1, HarmlessAppend DEF RequestedAction, DetourInv
  <2>3. pinned.enforcement = "enforce"
    BY <1>5 DEF RequestedAction, DetourInv, Permits, AuthInv, Typed
  <2>4. CASE IsDetour(decision) /\ ~detoured
    <3>1. /\ selected' = Evaluate(pinned.policy, requested, NoIp) /\ pc' = "requested_facts"
          /\ outcome' = "none"
      BY <1>5, <2>4 DEF RequestedAction, DetourInv, GenInv
    <3> QED
      BY <1>5, <2>2, <2>3, <3>1 DEF RequestedAction, DetourInv
  <2>5. CASE ~(IsDetour(decision) /\ ~detoured)
    <3>1. UNCHANGED <<selected, detoured>> /\ pc' = "closing"
      BY <1>5, <2>5 DEF RequestedAction, Return
    <3> QED
      BY <1>5, <2>2, <2>3, <3>1 DEF RequestedAction, DetourInv
  <2> QED
    BY <2>4, <2>5
<1> QED
  BY <1>1, <1>2, <1>3, <1>4, <1>5

\* authorize_resolved_targets has the selected host allowed: it decides a detour
\* only in observe mode.
LEMMA LateDetourIsObserved ==
    ASSUME AuthInv, DetourInv, pc = "resolved_decision",
           IsDetour(Decision(Evaluate(pinned.policy, selected, addresses[next]),
                             pinned.generation, addresses[next]))
    PROVE  pinned.enforcement = "observe"
<1>1. pinned.enforcement = "enforce" => Evaluate(pinned.policy, selected, NoIp) = "allow"
  BY DEF AuthInv, HostAllowed, Judging
<1>2. pinned.policy \in Policies /\ pinned.enforcement \in {"enforce", "observe"}
  BY DEF DetourInv, AuthInv, Typed
<1> QED
  BY <1>1, <1>2, AddressBringsNoDetour DEF IsDetour, Decision

\* The address stage: the pinned policy allows the selected host, so that it has
\* no detour for any address.
LEMMA DetourResolved ==
    ASSUME AuthInv, GenInv, DetourInv,
           \/ TargetResolved \/ ResolvedFacts \/ GuardDecision \/ ResolvedDecision
           \/ ResolvedDone \/ ResolvedAction
    PROVE  DetourInv'
<1> USE DEF Judging
<1>0. NoDecision.ip = NoIp
  BY DEF NoDecision, Decision
<1>1. CASE TargetResolved
  <2>1. PICK r : records' = Append(records, r) /\ r.decision = NoDecision
    BY <1>1, PublishedRecord DEF TargetResolved
  <2>2. \A i \in DOMAIN records' : NoLateDetour(records[i])'
    BY <1>0, <1>1, <2>1, HarmlessAppend DEF TargetResolved, flowVars
  <2>3. pc = "target_resolved" /\ pc' = "resolved_facts" /\ first_denial = NoDecision
    BY <1>1 DEF TargetResolved, AuthInv
  <2>4. UNCHANGED <<snapshot, pinned, requested, selected, detoured, first_denial, outcome>>
    BY <1>1 DEF TargetResolved, flowVars
  <2>5. outcome = "none"
    BY <2>3 DEF DetourInv
  <2> QED
    BY <2>2, <2>3, <2>4, <2>5 DEF DetourInv
<1>2. CASE ResolvedFacts
  <2>1. PICK r : records' = Append(records, r) /\ r.decision = NoDecision
    BY <1>2, PublishedRecord DEF ResolvedFacts
  <2>2. \A i \in DOMAIN records' : NoLateDetour(records[i])'
    BY <1>0, <1>2, <2>1, HarmlessAppend DEF ResolvedFacts, flowVars
  <2> QED
    BY <1>2, <2>2 DEF ResolvedFacts, flowVars, DetourInv
<1>3. CASE GuardDecision
  <2>1. PICK d : d = Decision("deny", pinned.generation, addresses[next])
    OBVIOUS
  <2>2. PICK r : records' = Append(records, r) /\ r.decision = d
    <3>1. Published("acl_evaluated", d.generation, d)
      BY <1>3, <2>1 DEF GuardDecision
    <3> QED
      BY <3>1, PublishedRecord
  <2>3. ~IsDetour(d)
    BY <2>1, HostsAssumption DEF IsDetour, Decision
  <2>4. \A i \in DOMAIN records' : NoLateDetour(records[i])'
    BY <1>3, <2>2, <2>3, HarmlessAppend DEF GuardDecision
  <2>5. RememberDenial(d)
    BY <1>3, <2>1 DEF GuardDecision
  <2> QED
    BY <1>3, <2>3, <2>4, <2>5 DEF GuardDecision, RememberDenial, DetourInv
<1>4. CASE ResolvedDecision
  <2>1. PICK d : d = Decision(Evaluate(pinned.policy, selected, addresses[next]),
                              pinned.generation, addresses[next])
    OBVIOUS
  <2>2. PICK r : records' = Append(records, r) /\ r.decision = d
    <3>1. Published("acl_evaluated", d.generation, d)
      BY <1>4, <2>1 DEF ResolvedDecision
    <3> QED
      BY <3>1, PublishedRecord
  <2>3. IsDetour(d) => pinned.enforcement = "observe"
    BY <1>4, <2>1, LateDetourIsObserved DEF ResolvedDecision
  <2>4. \A i \in DOMAIN records' : NoLateDetour(records[i])'
    BY <1>4, <2>2, <2>3, HarmlessAppend DEF ResolvedDecision
  <2>5. RememberDenial(d) /\ pc' = "resolved_facts"
    BY <1>4, <2>1, <2>3 DEF ResolvedDecision, Permits
  <2>6. first_denial' # NoDecision => ~Permits(pinned, first_denial') /\ ~IsDetour(first_denial')
    BY <1>4, <2>3, <2>5 DEF ResolvedDecision, RememberDenial, DetourInv, Permits
  <2> QED
    BY <1>4, <2>4, <2>5, <2>6 DEF ResolvedDecision, DetourInv
<1>5. CASE ResolvedDone
  BY <1>5 DEF ResolvedDone, DetourInv, NoLateDetour
<1>6. CASE ResolvedAction
  <2>1. PICK r : records' = Append(records, r) /\ r.decision = decision
    BY <1>6, PublishedRecord DEF ResolvedAction
  <2>2. ~IsDetour(decision) /\ pinned.enforcement = "enforce"
    BY <1>6 DEF ResolvedAction, DetourInv, Permits, AuthInv, Typed
  <2>3. \A i \in DOMAIN records' : NoLateDetour(records[i])'
    BY <1>6, <2>1, <2>2, HarmlessAppend DEF ResolvedAction, flowVars
  <2> QED
    BY <1>6, <2>2, <2>3 DEF ResolvedAction, Return, flowVars, DetourInv
<1> QED
  BY <1>1, <1>2, <1>3, <1>4, <1>5, <1>6

\* The other steps decide nothing.
LEMMA DetourOther ==
    ASSUME AuthInv, GenInv, DetourInv,
           \/ CloseFlow \/ SessionFails \/ RelayEnds \/ Resolve \/ ResolveFails
           \/ Connected \/ ConnectFails \/ ConnectShutdown \/ PublishFails
           \/ Hangup \/ SignalShutdown \/ UNCHANGED vars
    PROVE  DetourInv'
<1>1. CASE CloseFlow
  <2>1. PICK r : records' = Append(records, r) /\ r.decision.ip = NoIp
    BY <1>1 DEF CloseFlow, NoDecision, Decision
  <2>2. \A i \in DOMAIN records' : NoLateDetour(records[i])'
    BY <1>1, <2>1, HarmlessAppend DEF CloseFlow, flowVars
  <2> QED
    BY <1>1, <2>2 DEF CloseFlow, flowVars, DetourInv, Judging
<1> USE DEF DetourInv, NoLateDetour, Judging, flowVars, Return
<1>2. CASE SessionFails BY <1>2 DEF SessionFails
<1>3. CASE RelayEnds BY <1>3 DEF RelayEnds
<1>4. CASE Resolve BY <1>4 DEF Resolve
<1>5. CASE ResolveFails BY <1>5 DEF ResolveFails
<1>6. CASE Connected BY <1>6 DEF Connected
<1>7. CASE ConnectFails BY <1>7 DEF ConnectFails
<1>8. CASE ConnectShutdown BY <1>8 DEF ConnectShutdown
<1>9. CASE PublishFails BY <1>9 DEF PublishFails
<1>10. CASE Hangup BY <1>10, CandidatesAssumption DEF Hangup, Reload
<1>11. CASE SignalShutdown BY <1>11 DEF SignalShutdown
<1>12. CASE UNCHANGED vars BY <1>12 DEF vars
<1> QED
  BY <1>1, <1>2, <1>3, <1>4, <1>5, <1>6, <1>7, <1>8, <1>9, <1>10, <1>11, <1>12

\* Every step preserves DetourInv.
LEMMA DetourNext == AuthInv /\ GenInv /\ DetourInv /\ [Next]_vars => DetourInv'
  BY DetourRequested, DetourResolved, DetourOther DEF Next, FlowStep, Ended

\* A detour is taken once at most, only when enforcing and only where the pinned
\* policy sends the requested host, and authorize_resolved_targets meets none,
\* whatever the rules of the policies are.
THEOREM DetoursAreOfThePolicy == Spec => []DetourIsOfThePolicy
<1>1. AuthInv /\ GenInv /\ DetourInv => DetourIsOfThePolicy
  BY DEF AuthInv, Typed, GenInv, DetourInv, NoLateDetour, DetourIsOfThePolicy
<1> QED
  BY AuthInit, AuthNext, GenInit, GenNext, DetourInit, DetourNext, <1>1, PTL DEF Spec

-----------------------------------------------------------------------------
(* The log of a flow that policy ends *)

\* What one more record does to the denials.
LEMMA DenialsAppend ==
    ASSUME NEW rs, rs \in Seq(Range(rs)), NEW r, NEW p, NEW stage
    PROVE  /\ Denials(p, rs, stage) \subseteq Denials(p, Append(rs, r), stage)
           /\ \A i \in Denials(p, rs, stage) :
                 i \in 1..Len(rs) /\ Append(rs, r)[i] = rs[i]
           /\ \A i \in Denials(p, Append(rs, r), stage) :
                 i \in Denials(p, rs, stage) \/ i = Len(rs) + 1
           /\ Len(rs) + 1 \in Denials(p, Append(rs, r), stage) <=>
                 /\ r.event = "acl_evaluated"
                 /\ Stage(r.decision) = stage
                 /\ ~Permits(p, r.decision)
<1> DEFINE T == Range(rs) \cup {r}
<1>1. /\ rs \in Seq(T) /\ r \in T
      /\ Len(rs) \in Nat /\ DOMAIN rs = 1..Len(rs)
  OBVIOUS
<1> HIDE DEF T
<1>2. /\ DOMAIN Append(rs, r) = 1..(Len(rs) + 1)
      /\ \A i \in 1..Len(rs) : Append(rs, r)[i] = rs[i]
      /\ Append(rs, r)[Len(rs) + 1] = r
  BY <1>1
<1>3. /\ \A i \in 1..Len(rs) : i \in 1..(Len(rs) + 1)
      /\ Len(rs) + 1 \in 1..(Len(rs) + 1)
      /\ \A i \in 1..(Len(rs) + 1) : i \in 1..Len(rs) \/ i = Len(rs) + 1
  BY <1>1
<1> QED
  BY <1>1, <1>2, <1>3, Zenon DEF Denials

\* A record that is no denial of the stage changes nothing for it, and the first
\* denial of the resolved stage stays the first.
LEMMA GroundedStays ==
    ASSUME NEW rs, rs \in Seq(Range(rs)), NEW r, NEW p, NEW d, Grounded(p, rs, d),
           \/ Stage(d) = "resolved"
           \/ r.event # "acl_evaluated"
    PROVE  Grounded(p, Append(rs, r), d)
<1> DEFINE b == Stage(d)
<1>1. Len(rs) \in Nat
  OBVIOUS
<1>2. PICK i \in Denials(p, rs, b) :
              /\ d = rs[i].decision
              /\ \A j \in Denials(p, rs, b) : IF b = "requested" THEN j <= i ELSE i <= j
  BY DEF Grounded
<1> HIDE DEF b
<1>3. /\ i \in Denials(p, Append(rs, r), b) /\ i \in 1..Len(rs) /\ Append(rs, r)[i] = rs[i]
      /\ \A j \in Denials(p, Append(rs, r), b) :
            \/ j \in Denials(p, rs, b)
            \/ j = Len(rs) + 1 /\ r.event = "acl_evaluated"
  <2>1. /\ Denials(p, rs, b) \subseteq Denials(p, Append(rs, r), b)
        /\ \A j \in Denials(p, rs, b) : j \in 1..Len(rs) /\ Append(rs, r)[j] = rs[j]
        /\ \A j \in Denials(p, Append(rs, r), b) : j \in Denials(p, rs, b) \/ j = Len(rs) + 1
        /\ Len(rs) + 1 \in Denials(p, Append(rs, r), b) => r.event = "acl_evaluated"
    BY DenialsAppend
  <2> QED
    BY <1>2, <2>1, Zenon
<1>4. i <= Len(rs) + 1
  <2>1. i \in 1..Len(rs)
    BY <1>3, Zenon
  <2> QED
    BY <1>1, <2>1
<1>5. \A j \in Denials(p, Append(rs, r), b) : IF b = "requested" THEN j <= i ELSE i <= j
  BY <1>2, <1>3, <1>4 DEF b
<1> QED
  BY <1>2, <1>3, <1>5 DEF Grounded, b

\* A denial that has just been recorded is the latest of its stage, and the first
\* if there was none.
LEMMA GroundedNow ==
    ASSUME NEW rs, rs \in Seq(Range(rs)), NEW r, NEW p,
           r.event = "acl_evaluated", ~Permits(p, r.decision),
           Stage(r.decision) = "resolved" => Denials(p, rs, "resolved") = {}
    PROVE  Grounded(p, Append(rs, r), r.decision)
<1> DEFINE d == r.decision
           b == Stage(d)
<1>1. Len(rs) \in Nat /\ Append(rs, r)[Len(rs) + 1] = r
  <2>1. rs \in Seq(Range(rs) \cup {r}) /\ r \in Range(rs) \cup {r}
    OBVIOUS
  <2> QED
    BY <2>1
<1> HIDE DEF b
<1>2. /\ Len(rs) + 1 \in Denials(p, Append(rs, r), b)
      /\ \A j \in Denials(p, Append(rs, r), b) : j \in Denials(p, rs, b) \/ j = Len(rs) + 1
      /\ \A j \in Denials(p, rs, b) : j \in 1..Len(rs)
  BY <1>1, DenialsAppend DEF b
<1>3. \A j \in Denials(p, Append(rs, r), b) :
         IF b = "requested" THEN j <= Len(rs) + 1 ELSE Len(rs) + 1 <= j
  <2>1. CASE b = "requested"
    <3>1. \A j \in 1..Len(rs) : j <= Len(rs) + 1
      BY <1>1
    <3> QED
      BY <1>1, <1>2, <2>1, <3>1
  <2>2. CASE b # "requested"
    <3>1. Denials(p, rs, b) = {}
      BY <2>2 DEF b, Stage
    <3> QED
      BY <1>1, <1>2, <2>2, <3>1
  <2> QED
    BY <2>1, <2>2
<1> QED
  BY <1>1, <1>2, <1>3 DEF Grounded, b

\* A record that is permitted, of the other stage or no decision is no denial.
LEMMA NoNewDenial ==
    ASSUME NEW rs, rs \in Seq(Range(rs)), NEW r, NEW p,
           Denials(p, rs, "resolved") = {},
           r.event # "acl_evaluated" \/ Stage(r.decision) = "requested" \/ Permits(p, r.decision)
    PROVE  Denials(p, Append(rs, r), "resolved") = {}
  BY DenialsAppend

PolicyEnds == {"policy_denied", "detour_loop"}

\* The log starts with the acceptance of the connection.
Begun(rs) == rs # <<>> /\ rs[1].event = "connection_accepted"

\* The n-th record is the ActionExecuted of a recorded denial.
Executed(p, rs, n) ==
    n \in DOMAIN rs /\ rs[n].event = "action_executed" /\ Grounded(p, rs, rs[n].decision)

\* What is about to be executed, or remembered, is grounded in the log; while
\* nothing is remembered no address was denied; and the log of a flow that policy
\* ends is the one EndedByPolicyIsRecorded asks for, before and after FlowClosed.
RecordInv ==
    /\ pc = "start" => records = <<>>
    /\ pc # "start" /\ outcome # "audit_failure" => Begun(records)
    /\ pc # "done" => \A i \in DOMAIN records : records[i].event # "flow_closed"
    /\ pc \in {"requested_action", "resolved_action"} => Grounded(pinned, records, decision)
    /\ pc \in Unresolved \cup {"target_resolved"} \/ (pc \in Judging /\ first_denial = NoDecision) =>
          Denials(pinned, records, "resolved") = {}
    /\ pc \in Judging /\ first_denial # NoDecision =>
          Stage(first_denial) = "resolved" /\ Grounded(pinned, records, first_denial)
    /\ pc = "closing" /\ outcome \in PolicyEnds => Executed(pinned, records, Len(records))
    /\ pc = "done" /\ outcome # "audit_failure" =>
          /\ records # <<>>
          /\ records[Len(records)].event = "flow_closed"
          /\ records[Len(records)].outcome = error_outcome(outcome)
    /\ pc = "done" /\ outcome \in PolicyEnds => Executed(pinned, records, Len(records) - 1)

\* The ends of a list with one more record.
LEMMA AppendEnds ==
    ASSUME NEW rs, rs \in Seq(Range(rs)), NEW r
    PROVE  /\ Len(rs) \in Nat /\ DOMAIN rs = 1..Len(rs) /\ (rs # <<>> => 1 \in DOMAIN rs)
           /\ Len(Append(rs, r)) = Len(rs) + 1 /\ DOMAIN Append(rs, r) = 1..(Len(rs) + 1)
           /\ Append(rs, r) # <<>> /\ Append(rs, r)[Len(rs) + 1] = r
           /\ \A i \in DOMAIN rs : i \in DOMAIN Append(rs, r) /\ Append(rs, r)[i] = rs[i]
<1>1. rs \in Seq(Range(rs) \cup {r}) /\ r \in Range(rs) \cup {r}
  OBVIOUS
<1> QED
  BY <1>1

\* A log that has begun stays begun, and one without a FlowClosed stays without.
LEMMA BegunStays ==
    ASSUME NEW rs, rs \in Seq(Range(rs)), NEW r
    PROVE  /\ Begun(rs) => Begun(Append(rs, r))
           /\ r.event # "flow_closed" /\ (\A i \in DOMAIN rs : rs[i].event # "flow_closed") =>
                 \A i \in DOMAIN Append(rs, r) : Append(rs, r)[i].event # "flow_closed"
<1>1. Begun(rs) => Begun(Append(rs, r))
  BY AppendEnds DEF Begun
<1>2. \A i \in DOMAIN Append(rs, r) :
         (i \in DOMAIN rs /\ Append(rs, r)[i] = rs[i]) \/ Append(rs, r)[i] = r
  BY AppendRecord
<1> QED
  BY <1>1, <1>2

\* An empty log holds no denial.
LEMMA RecordInit == Init => RecordInv
<1> SUFFICES ASSUME Init PROVE RecordInv
  OBVIOUS
<1>1. records = <<>> /\ DOMAIN records = {} /\ pc = "start" /\ outcome = "none"
  BY DEF Init
<1>2. Denials(pinned, records, "resolved") = {}
  BY <1>1 DEF Denials
<1> QED
  BY <1>1, <1>2 DEF RecordInv, Unresolved, Judging

\* Records without a decision: what was grounded stays so.
LEMMA RecordFacts ==
    ASSUME AuthInv, GenInv, DetourInv, RecordInv,
           Accepted \/ RequestedFacts \/ TargetResolved \/ ResolvedFacts
    PROVE  RecordInv'
<1>1. PICK r : /\ records' = Append(records, r)
               /\ r.event \in {"connection_accepted", "replay_facts", "target_resolved"}
               /\ pc = "start" => r.event = "connection_accepted"
  <2>1. CASE Accepted
    BY <2>1 DEF Accepted, Published
  <2>2. CASE RequestedFacts
    BY <2>2 DEF RequestedFacts, Published
  <2>3. CASE TargetResolved
    BY <2>3 DEF TargetResolved, Published
  <2>4. CASE ResolvedFacts
    BY <2>4 DEF ResolvedFacts, Published
  <2> QED
    BY <2>1, <2>2, <2>3, <2>4
<1>2. /\ UNCHANGED <<pinned, first_denial, decision, outcome>>
      /\ <<pc, pc'>> \in {<<"start", "pin">>, <<"requested_facts", "requested_decision">>,
                          <<"target_resolved", "resolved_facts">>,
                          <<"resolved_facts", "guard">>, <<"resolved_facts", "resolved_decision">>}
  BY DEF Accepted, RequestedFacts, TargetResolved, ResolvedFacts, flowVars
<1>3. records \in Seq(Range(records))
  BY DEF GenInv
<1>4. Begun(records')
  <2>1. CASE pc = "start"
    <3>1. records = <<>>
      BY <2>1 DEF RecordInv
    <3> QED
      BY <1>1, <1>3, <2>1, <3>1, AppendEnds DEF Begun
  <2>2. CASE pc # "start"
    BY <1>1, <1>2, <1>3, <2>2, BegunStays DEF RecordInv, DetourInv
  <2> QED
    BY <2>1, <2>2
<1>5. \A i \in DOMAIN records' : records'[i].event # "flow_closed"
  BY <1>1, <1>2, <1>3, BegunStays DEF RecordInv
<1>6. Denials(pinned, records, "resolved") = {} => Denials(pinned, records', "resolved") = {}
  BY <1>1, <1>3, NoNewDenial
<1>7. \A d : Grounded(pinned, records, d) => Grounded(pinned, records', d)
  BY <1>1, <1>3, GroundedStays
<1> QED
  BY <1>2, <1>4, <1>5, <1>6, <1>7 DEF RecordInv, AuthInv, Unresolved, Judging

\* A decision by name: the pending denial is the latest of its stage.
LEMMA RecordRequested ==
    ASSUME AuthInv, GenInv, DetourInv, RecordInv, RequestedDecision
    PROVE  RecordInv'
<1>1. PICK d : d = Decision(Evaluate(pinned.policy, selected, NoIp), pinned.generation, NoIp)
  OBVIOUS
<1>2. PICK r : records' = Append(records, r) /\ r.decision = d /\ r.event = "acl_evaluated"
  <2>1. Published("acl_evaluated", d.generation, d)
    BY <1>1 DEF RequestedDecision
  <2> QED
    BY <2>1, PublishedRecord
<1>3. /\ UNCHANGED <<pinned, first_denial, outcome>> /\ decision' = d
      /\ pc = "requested_decision"
      /\ pc' = IF Permits(pinned, d) THEN "resolve" ELSE "requested_action"
  BY <1>1 DEF RequestedDecision
<1>4. records \in Seq(Range(records)) /\ Stage(d) = "requested"
  BY <1>1 DEF GenInv, Stage, Decision
<1>5. Begun(records') /\ \A i \in DOMAIN records' : records'[i].event # "flow_closed"
  BY <1>2, <1>3, <1>4, BegunStays DEF RecordInv, DetourInv
<1>6. Denials(pinned, records', "resolved") = {}
  BY <1>2, <1>3, <1>4, NoNewDenial DEF RecordInv, Unresolved
<1>7. ~Permits(pinned, d) => Grounded(pinned, records', d)
  BY <1>2, <1>4, GroundedNow
<1> QED
  BY <1>3, <1>5, <1>6, <1>7 DEF RecordInv, Unresolved, Judging

\* A decision on an address, the guard's or the policy's, that is remembered when
\* it is the first denial.
LEMMA RecordJudged ==
    ASSUME AuthInv, GenInv, RecordInv, NEW r, NEW d, records' = Append(records, r), r.decision = d,
           r.event = "acl_evaluated", Stage(d) = "resolved", RememberDenial(d),
           pc \in Judging, pc' \in Judging, UNCHANGED <<pinned, outcome>>, outcome = "none"
    PROVE  RecordInv'
<1>1. records \in Seq(Range(records))
  BY DEF GenInv
<1>2. Begun(records') /\ \A i \in DOMAIN records' : records'[i].event # "flow_closed"
  BY <1>1, BegunStays DEF RecordInv, Judging
<1>3. first_denial' = NoDecision => Denials(pinned, records', "resolved") = {}
  <2> SUFFICES ASSUME first_denial' = NoDecision PROVE Denials(pinned, records', "resolved") = {}
    OBVIOUS
  <2>1. first_denial = NoDecision /\ (Permits(pinned, d) \/ d = NoDecision)
    BY DEF RememberDenial
  <2>2. Permits(pinned, NoDecision)
    BY DEF Permits, NoDecision, Decision
  <2> QED
    BY <1>1, <2>1, <2>2, NoNewDenial DEF RecordInv
<1>4. first_denial' # NoDecision =>
         Stage(first_denial') = "resolved" /\ Grounded(pinned, records', first_denial')
  <2> SUFFICES ASSUME first_denial' # NoDecision
               PROVE  Stage(first_denial') = "resolved" /\ Grounded(pinned, records', first_denial')
    OBVIOUS
  <2>1. CASE first_denial # NoDecision
    <3>1. first_denial' = first_denial
      BY <2>1 DEF RememberDenial
    <3>2. Stage(first_denial) = "resolved" /\ Grounded(pinned, records, first_denial)
      BY <2>1 DEF RecordInv
    <3> QED
      BY <1>1, <3>1, <3>2, GroundedStays
  <2>2. CASE first_denial = NoDecision
    <3>1. first_denial' = d /\ ~Permits(pinned, d)
      BY <2>2 DEF RememberDenial
    <3>2. Denials(pinned, records, "resolved") = {}
      BY <2>2 DEF RecordInv
    <3> QED
      BY <1>1, <3>1, <3>2, GroundedNow
  <2> QED
    BY <2>1, <2>2
<1> QED
  BY <1>2, <1>3, <1>4 DEF RecordInv, Unresolved, Judging

\* The address stage; a detour does not come up in it.
LEMMA RecordResolved ==
    ASSUME AuthInv, GenInv, DetourInv, RecordInv, GuardDecision \/ ResolvedDecision
    PROVE  RecordInv'
<1>0. /\ pc \in {"guard", "resolved_decision"} /\ outcome = "none"
      /\ UNCHANGED <<pinned, outcome>>
  BY DEF GuardDecision, ResolvedDecision, DetourInv
<1>1. addresses[next] # NoIp
  <2>1. next \in 1..Len(addresses) /\ addresses \in Seq(Addresses)
    BY <1>0 DEF AuthInv, Typed
  <2>2. addresses[next] \in Addresses
    BY <2>1
  <2> QED
    BY <2>2, AddressAssumption
<1>2. CASE GuardDecision
  <2>1. PICK d : d = Decision("deny", pinned.generation, addresses[next])
    OBVIOUS
  <2>2. PICK r : records' = Append(records, r) /\ r.decision = d /\ r.event = "acl_evaluated"
    <3>1. Published("acl_evaluated", d.generation, d)
      BY <1>2, <2>1 DEF GuardDecision
    <3> QED
      BY <3>1, PublishedRecord
  <2>3. RememberDenial(d) /\ pc' = "resolved_decision" /\ Stage(d) = "resolved"
    BY <1>1, <1>2, <2>1 DEF GuardDecision, Stage, Decision
  <2> QED
    BY <1>0, <2>2, <2>3, RecordJudged DEF Judging
<1>3. CASE ResolvedDecision
  <2>1. PICK d : d = Decision(Evaluate(pinned.policy, selected, addresses[next]),
                              pinned.generation, addresses[next])
    OBVIOUS
  <2>2. PICK r : records' = Append(records, r) /\ r.decision = d /\ r.event = "acl_evaluated"
    <3>1. Published("acl_evaluated", d.generation, d)
      BY <1>3, <2>1 DEF ResolvedDecision
    <3> QED
      BY <3>1, PublishedRecord
  <2>3. IsDetour(d) => Permits(pinned, d)
    BY <1>3, <2>1, LateDetourIsObserved DEF ResolvedDecision, Permits
  <2>4. RememberDenial(d) /\ pc' = "resolved_facts" /\ Stage(d) = "resolved"
    BY <1>1, <1>3, <2>1, <2>3 DEF ResolvedDecision, Stage, Decision
  <2> QED
    BY <1>0, <2>2, <2>4, RecordJudged DEF Judging
<1> QED
  BY <1>2, <1>3

\* record_action publishes the decision it acts on.
LEMMA ActionRecord ==
    ASSUME RequestedAction \/ ResolvedAction
    PROVE  \E r : records' = Append(records, r) /\ r.decision = decision /\ r.event = "action_executed"
<1>1. Published("action_executed", ContextGeneration, decision)
  BY Zenon DEF RequestedAction, ResolvedAction
<1> QED
  BY <1>1, PublishedRecord

\* record_action: the decision it publishes is grounded, before and after.
LEMMA RecordAction ==
    ASSUME AuthInv, GenInv, DetourInv, RecordInv, RequestedAction \/ ResolvedAction
    PROVE  RecordInv'
<1>1. PICK r : records' = Append(records, r) /\ r.decision = decision /\ r.event = "action_executed"
  BY ActionRecord
<1>2. /\ UNCHANGED <<pinned, first_denial, decision>>
      /\ pc \in {"requested_action", "resolved_action"}
      /\ \/ pc' = "closing"
         \/ pc = "requested_action" /\ pc' = "requested_facts" /\ outcome' = outcome
  BY DEF RequestedAction, ResolvedAction, Return, flowVars
<1>3. records \in Seq(Range(records)) /\ Begun(records) /\ Grounded(pinned, records, decision)
  BY <1>2 DEF GenInv, RecordInv, DetourInv
<1>4. Begun(records') /\ \A i \in DOMAIN records' : records'[i].event # "flow_closed"
  BY <1>1, <1>2, <1>3, BegunStays DEF RecordInv
<1>5. Executed(pinned, records', Len(records'))
  <2>1. Grounded(pinned, records', decision)
    BY <1>1, <1>3, GroundedStays
  <2>2. /\ Len(records') = Len(records) + 1 /\ records'[Len(records) + 1] = r
        /\ DOMAIN records' = 1..(Len(records) + 1) /\ Len(records) \in Nat
    BY <1>1, <1>3, AppendEnds
  <2>3. Len(records) + 1 \in DOMAIN records'
    BY <2>2
  <2> QED
    BY <1>1, <2>1, <2>2, <2>3 DEF Executed
<1>6. pc = "requested_action" => Denials(pinned, records', "resolved") = {}
  BY <1>1, <1>3, NoNewDenial DEF RecordInv, Unresolved
<1> QED
  BY <1>2, <1>4, <1>5, <1>6 DEF RecordInv, Unresolved, Judging

\* The FlowClosed record comes right after the ActionExecuted.
LEMMA RecordClose ==
    ASSUME AuthInv, GenInv, DetourInv, RecordInv, CloseFlow
    PROVE  RecordInv'
<1>1. PICK r : /\ records' = Append(records, r) /\ r.event = "flow_closed"
               /\ r.outcome = error_outcome(outcome)
  BY DEF CloseFlow
<1>2. /\ UNCHANGED <<pinned, outcome>> /\ outcome # "audit_failure"
      /\ pc = "closing" /\ pc' = "done"
  BY DEF CloseFlow, flowVars
<1>3. records \in Seq(Range(records)) /\ Begun(records)
  BY <1>2 DEF GenInv, RecordInv
<1>4. Begun(records')
  BY <1>1, <1>3, BegunStays
<1>5. /\ Len(records') = Len(records) + 1 /\ records'[Len(records) + 1] = r /\ records' # <<>>
      /\ Len(records) \in Nat
      /\ \A i \in DOMAIN records : i \in DOMAIN records' /\ records'[i] = records[i]
  <2>1. records' = Append(records, r)
    BY <1>1
  <2>2. records \in Seq(Range(records))
    BY <1>3
  <2>3. /\ Len(Append(records, r)) = Len(records) + 1 /\ Append(records, r)[Len(records) + 1] = r
        /\ Append(records, r) # <<>> /\ Len(records) \in Nat
        /\ \A i \in DOMAIN records : /\ i \in DOMAIN Append(records, r)
                                     /\ Append(records, r)[i] = records[i]
    BY <2>2, AppendEnds
  <2> QED
    BY <2>1, <2>3, Zenon
<1>6. outcome \in PolicyEnds => Executed(pinned, records', Len(records') - 1)
  <2> SUFFICES ASSUME outcome \in PolicyEnds
               PROVE  Executed(pinned, records', Len(records') - 1)
    OBVIOUS
  <2>1. Executed(pinned, records, Len(records))
    BY <1>2 DEF RecordInv
  <2>2. Grounded(pinned, records', records[Len(records)].decision)
    BY <1>1, <1>3, <2>1, GroundedStays DEF Executed
  <2>3. Len(records') - 1 = Len(records)
    BY <1>5
  <2> QED
    BY <1>5, <2>1, <2>2, <2>3 DEF Executed
<1> QED
  BY <1>1, <1>2, <1>4, <1>5, <1>6 DEF RecordInv, Unresolved, Judging

\* The other steps leave the log alone.
LEMMA RecordQuiet ==
    ASSUME AuthInv, GenInv, DetourInv, RecordInv,
           \/ SessionFails \/ RelayEnds \/ PinSnapshot \/ Resolve \/ ResolveFails \/ ResolvedDone
           \/ Connected \/ ConnectFails \/ ConnectShutdown \/ PublishFails
           \/ Hangup \/ SignalShutdown \/ UNCHANGED vars
    PROVE  RecordInv'
<1>1. CASE PinSnapshot
  <2>1. \A i \in DOMAIN records : records[i].event # "acl_evaluated"
    BY <1>1 DEF GenInv, PinSnapshot
  <2>2. (Denials(pinned, records, "resolved") = {})'
    BY <1>1, <2>1 DEF PinSnapshot, Denials
  <2> QED
    BY <1>1, <2>2 DEF PinSnapshot, RecordInv, Unresolved, Judging
<1> USE DEF RecordInv, DetourInv, PolicyEnds, Unresolved, Judging, flowVars, Return
<1>2. CASE SessionFails BY <1>2 DEF SessionFails
<1>3. CASE RelayEnds BY <1>3 DEF RelayEnds
<1>4. CASE Resolve BY <1>4 DEF Resolve
<1>5. CASE ResolveFails BY <1>5 DEF ResolveFails
<1>6. CASE ResolvedDone BY <1>6 DEF ResolvedDone
<1>7. CASE Connected BY <1>7 DEF Connected
<1>8. CASE ConnectFails BY <1>8 DEF ConnectFails
<1>9. CASE ConnectShutdown BY <1>9 DEF ConnectShutdown
<1>10. CASE PublishFails BY <1>10 DEF PublishFails
<1>11. CASE Hangup BY <1>11 DEF Hangup
<1>12. CASE SignalShutdown BY <1>12 DEF SignalShutdown
<1>13. CASE UNCHANGED vars BY <1>13 DEF vars
<1> QED
  BY <1>1, <1>2, <1>3, <1>4, <1>5, <1>6, <1>7, <1>8, <1>9, <1>10, <1>11, <1>12, <1>13

\* Every step preserves RecordInv.
LEMMA RecordNext == AuthInv /\ GenInv /\ DetourInv /\ RecordInv /\ [Next]_vars => RecordInv'
  BY RecordFacts, RecordRequested, RecordResolved, RecordAction, RecordClose, RecordQuiet
     DEF Next, FlowStep, Ended

\* A session that policy ends has recorded the action it took, on the earliest
\* denial of its stage that the log holds, and closes with that outcome, whatever
\* its policies, its detours and its addresses are.
THEOREM PolicyEndsAreRecorded == Spec => []EndedByPolicyIsRecorded
<1>1. ASSUME GenInv, DetourInv, RecordInv PROVE EndedByPolicyIsRecorded
  <2>1. Len(records) \in Nat /\ DOMAIN records = 1..Len(records)
    BY <1>1, LenProperties DEF GenInv
  <2>2. records # <<>> => Len(records) \in DOMAIN records
    BY <1>1, <2>1 DEF GenInv
  <2> DEFINE closed == records # <<>> /\ records[Len(records)].event = "flow_closed"
             action == records[IF closed THEN Len(records) - 1 ELSE Len(records)]
  <2>3. pc = "done" /\ outcome # "audit_failure" => closed /\ Begun(records)
    BY <1>1 DEF RecordInv
  <2>4. pc = "done" /\ outcome \in {"policy_denied", "detour_loop", "shutdown"} =>
           records[Len(records)].outcome = outcome
    BY <1>1 DEF RecordInv, error_outcome
  <2>5. ASSUME outcome \in PolicyEnds
        PROVE  action.event = "action_executed" /\ Grounded(pinned, records, action.decision)
    <3>1. pc \in {"closing", "done"}
      BY <1>1, <2>5 DEF DetourInv, PolicyEnds
    <3>2. CASE pc = "closing"
      <4>1. ~closed
        BY <1>1, <2>2, <3>2 DEF RecordInv
      <4> QED
        BY <1>1, <2>5, <3>2, <4>1 DEF RecordInv, Executed
    <3>3. CASE pc = "done"
      <4>1. closed
        BY <2>3, <2>5, <3>3 DEF PolicyEnds
      <4> QED
        BY <1>1, <2>5, <3>3, <4>1 DEF RecordInv, Executed
    <3> QED
      BY <3>1, <3>2, <3>3
  <2> QED
    BY <2>3, <2>4, <2>5 DEF EndedByPolicyIsRecorded, Begun, PolicyEnds
<1> QED
  BY AuthInit, AuthNext, GenInit, GenNext, DetourInit, DetourNext, RecordInit, RecordNext, <1>1,
     PTL DEF Spec
=============================================================================
