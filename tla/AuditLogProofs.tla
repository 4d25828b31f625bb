--------------------------- MODULE AuditLogProofs ---------------------------
(***************************************************************************)
(* AuditPipeline implements AuditLog, for every set of flows, capacity,    *)
(* policy and checkpoint interval: the records reach the segment in the    *)
(* order in which they were accepted.  From the same order follow the      *)
(* cadence of the checkpoints; the count of the losses is its own argument.*)
(***************************************************************************)
EXTENDS AuditPipelineProofs, FiniteSetTheorems, WellFoundedInduction

-----------------------------------------------------------------------------
(* Recursive functions over 0..n: a least counterexample stands for induction *)

\* Every non-empty set of natural numbers has a least element.
LEMMA LeastNat ==
    ASSUME NEW T, T \subseteq Nat, T # {}
    PROVE  \E m \in T : \A k \in T : m <= k
<1> DEFINE R == {ss \in Nat \X Nat : ss[1] < ss[2]}
<1>1. IsWellFoundedOn(R, Nat)
  BY NatLessThanWellFounded, Zenon DEF OpToRel
<1>2. PICK m \in T : \A k \in T : ~ (<<k, m>> \in R)
  <2> HIDE DEF R
  <2> QED
    BY <1>1, WFMin
<1>3. ASSUME NEW k \in T
      PROVE  m <= k
  <2>1. k \in Nat /\ m \in Nat
    OBVIOUS
  <2>2. k < m => <<k, m>> \in R
    BY <2>1
  <2>3. ~(k < m)
    BY <1>2, <2>2, Zenon
  <2> QED
    BY <2>1, <2>3
<1> QED
  BY <1>3

\* A recursion over 0..n: it starts at b and goes on by the function step[i].
Recursion(n, V, b, step) == n \in Nat /\ b \in V /\ step \in [1..n -> [V -> V]]

Solution(f, n, V, b, step) ==
    /\ f \in [0..n -> V]
    /\ f[0] = b
    /\ \A i \in 1..n : f[i] = step[i][f[i - 1]]

\* Every recursion over 0..n has a solution.
LEMMA RecursionExists ==
    ASSUME NEW n, NEW V, NEW b, NEW step, Recursion(n, V, b, step)
    PROVE  \E f : Solution(f, n, V, b, step)
<1> DEFINE T == {k \in 0..n : ~ \E f : Solution(f, k, V, b, step)}
<1> USE DEF Recursion
<1>1. n \in 0..n
  OBVIOUS
<1>2. SUFFICES ASSUME T # {} PROVE FALSE
  BY <1>1, Zenon
<1>3. PICK m \in T : \A k \in T : m <= k
  <2>1. T \subseteq Nat
    OBVIOUS
  <2> HIDE DEF T
  <2> QED
    BY <1>2, <2>1, LeastNat
<1>4. CASE m = 0
  <2>1. Solution([i \in 0..0 |-> b], 0, V, b, step)
    BY DEF Solution
  <2> QED
    BY <1>3, <1>4, <2>1
<1>5. CASE m # 0
  <2>1. m - 1 \in 0..n /\ m - 1 \notin T /\ m \in 1..n
    BY <1>3, <1>5
  <2>2. PICK f : Solution(f, m - 1, V, b, step)
    BY <2>1
  <2> DEFINE g == [i \in 0..m |-> IF i = m THEN step[m][f[m - 1]] ELSE f[i]]
  <2>3. step[m][f[m - 1]] \in V
    BY <2>1, <2>2 DEF Solution
  <2>4. g \in [0..m -> V] /\ g[0] = b
    BY <2>1, <2>2, <2>3 DEF Solution
  <2>5. ASSUME NEW i \in 1..m PROVE g[i] = step[i][g[i - 1]]
    BY <2>1, <2>2 DEF Solution
  <2>6. Solution(g, m, V, b, step)
    BY <2>4, <2>5 DEF Solution
  <2> HIDE DEF g
  <2> QED
    BY <1>3, <2>6
<1> QED
  BY <1>4, <1>5

\* What one record does to the payloads taken so far.
Take(v, r) == IF IsCheckpoint(r) THEN v ELSE Append(v, r.payload)

\* OrdinaryPayloads(s) is the last value of a function over 0..Len(s) that takes the
\* records one by one: the recursive definition has a solution, and only one.
LEMMA OrdinaryRecursion ==
    ASSUME NEW s \in Seq(Records)
    PROVE  \E f \in [0..Len(s) -> Seq(Payloads)] :
              /\ f[0] = <<>>
              /\ \A i \in 1..Len(s) : f[i] = Take(f[i - 1], s[i])
              /\ OrdinaryPayloads(s) = f[Len(s)]
<1> DEFINE n == Len(s)
           V == Seq(Payloads)
           step == [i \in 1..n |-> [v \in V |-> Take(v, s[i])]]
           Rec(f) == [i \in 0..n |-> IF i = 0 THEN <<>>
                         ELSE IF IsCheckpoint(s[i]) THEN f[i - 1]
                         ELSE Append(f[i - 1], s[i].payload)]
           c == CHOOSE h : h = Rec(h)
<1>1. n \in Nat /\ <<>> \in V
  BY LenProperties, EmptySeq
<1>2. ASSUME NEW i \in 1..n PROVE s[i].payload \in Payloads
  <2>1. s[i] \in Records
    BY ElementOfSeq
  <2> QED
    BY <2>1 DEF Records
<1>3. ASSUME NEW i \in 1..n, NEW v \in V PROVE Take(v, s[i]) \in V
  BY <1>2, AppendProperties DEF Take
<1>4. step \in [1..n -> [V -> V]]
  <2> HIDE DEF V, n
  <2> QED
    BY <1>3
<1>5. PICK f : Solution(f, n, V, <<>>, step)
  <2>1. Recursion(n, V, <<>>, step)
    BY <1>1, <1>4 DEF Recursion
  <2> HIDE DEF V, n, step
  <2> QED
    BY <2>1, RecursionExists
<1>6. f \in [0..n -> V] /\ f[0] = <<>> /\ \A i \in 1..n : f[i] = step[i][f[i - 1]]
  BY <1>5 DEF Solution
<1>7. ASSUME NEW i \in 1..n PROVE f[i] = Take(f[i - 1], s[i])
  <2>1. i - 1 \in 0..n
    BY <1>1
  <2>2. f[i - 1] \in V
    BY <2>1, <1>6
  <2> HIDE DEF V
  <2> QED
    BY <1>6, <2>2
<1>8. f = Rec(f)
  <2>1. ASSUME NEW i \in 0..n
        PROVE  f[i] = IF i = 0 THEN <<>>
                      ELSE IF IsCheckpoint(s[i]) THEN f[i - 1]
                      ELSE Append(f[i - 1], s[i].payload)
    <3>1. CASE i = 0
      BY <3>1, <1>6
    <3>2. CASE i # 0
      <4>1. i \in 1..n
        BY <3>2, <1>1
      <4> QED
        BY <4>1, <3>2, <1>7 DEF Take
    <3> QED
      BY <3>1, <3>2
  <2> HIDE DEF V, n
  <2> QED
    BY <1>6, <2>1
<1>9. c = Rec(c)
  <2> HIDE DEF Rec
  <2> QED
    BY <1>8
<1>10. OrdinaryPayloads(s) = c[n]
  BY DEF OrdinaryPayloads
<1>11. c[0] = <<>> /\ \A i \in 1..n : c[i] = Take(c[i - 1], s[i])
  <2> HIDE DEF c, n
  <2>1. c[0] = <<>>
    BY <1>9, <1>1
  <2>2. ASSUME NEW i \in 1..n PROVE c[i] = Take(c[i - 1], s[i])
    <3>1. i \in 0..n /\ i # 0
      BY <1>1
    <3>2. c[i] = Rec(c)[i]
      BY <1>9
    <3> QED
      BY <3>1, <3>2 DEF Take
  <2> QED
    BY <2>1, <2>2
<1>12. \A i \in 0..n : c[i] = f[i]
  <2> HIDE DEF c, V
  <2> DEFINE T == {k \in 0..n : c[k] # f[k]}
  <2>1. SUFFICES ASSUME T # {} PROVE FALSE
    OBVIOUS
  <2>2. PICK m \in T : \A k \in T : m <= k
    <3>1. T \subseteq Nat
      BY <1>1
    <3> HIDE DEF T
    <3> QED
      BY <2>1, <3>1, LeastNat
  <2>3. m # 0
    BY <2>2, <1>6, <1>11
  <2>4. m - 1 \in 0..n /\ m - 1 \notin T /\ m \in 1..n
    BY <2>2, <2>3, <1>1
  <2> QED
    BY <2>2, <2>4, <1>7, <1>11
<1> QED
  <2>1. OrdinaryPayloads(s) = f[n]
    <3> HIDE DEF c, n
    <3> QED
      BY <1>1, <1>10, <1>12
  <2> HIDE DEF V, c, Rec, step
  <2> QED
    BY <1>6, <1>7, <2>1 DEF V


\* One more record: its payload is taken unless it is a checkpoint.
LEMMA OrdinaryAppend ==
    ASSUME NEW s \in Seq(Records), NEW r \in Records
    PROVE  /\ OrdinaryPayloads(s) \in Seq(Payloads)
           /\ OrdinaryPayloads(Append(s, r)) = Take(OrdinaryPayloads(s), r)
<1> DEFINE n == Len(s)
           t == Append(s, r)
<1>1. /\ t \in Seq(Records) /\ n \in Nat /\ Len(t) = n + 1
      /\ \A i \in 1..n : t[i] = s[i]
      /\ t[n + 1] = r
  BY AppendProperties, LenProperties
<1>2. PICK f \in [0..n -> Seq(Payloads)] :
         /\ f[0] = <<>>
         /\ \A i \in 1..n : f[i] = Take(f[i - 1], s[i])
         /\ OrdinaryPayloads(s) = f[n]
  BY OrdinaryRecursion
<1> HIDE DEF t
<1>3. PICK g \in [0..Len(t) -> Seq(Payloads)] :
         /\ g[0] = <<>>
         /\ \A i \in 1..Len(t) : g[i] = Take(g[i - 1], t[i])
         /\ OrdinaryPayloads(t) = g[Len(t)]
  BY <1>1, OrdinaryRecursion
<1> HIDE DEF n
<1> DEFINE T == {k \in 0..n : g[k] # f[k]}
<1>4. T = {}
  <2>1. SUFFICES ASSUME T # {} PROVE FALSE
    OBVIOUS
  <2>2. PICK m \in T : \A k \in T : m <= k
    <3>1. T \subseteq Nat
      BY <1>1
    <3> HIDE DEF T
    <3> QED
      BY <2>1, <3>1, LeastNat
  <2>3. m # 0
    BY <2>2, <1>2, <1>3
  <2>4. m - 1 \in 0..n /\ m - 1 \notin T /\ m \in 1..n /\ m \in 1..(n + 1)
    BY <2>2, <2>3, <1>1
  <2>5. f[m] = Take(f[m - 1], s[m])
    BY <1>2, <2>4
  <2>6. g[m] = Take(g[m - 1], s[m])
    BY <1>1, <1>3, <2>4
  <2> QED
    BY <2>2, <2>4, <2>5, <2>6
<1>5. n \in 0..n /\ n + 1 \in 1..(n + 1) /\ (n + 1) - 1 = n
  BY <1>1
<1>6. g[n] = f[n]
  BY <1>4, <1>5
<1>7. g[n + 1] = Take(g[n], r)
  BY <1>1, <1>3, <1>5
<1>8. f[n] \in Seq(Payloads)
  BY <1>2, <1>5
<1> QED
  BY <1>1, <1>2, <1>3, <1>6, <1>7, <1>8 DEF t

\* An empty segment has no payloads.
LEMMA OrdinaryEmpty == OrdinaryPayloads(<<>>) = <<>>
<1>1. <<>> \in Seq(Records) /\ Len(<<>>) = 0
  BY EmptySeq
<1> QED
  BY <1>1, OrdinaryRecursion

\* What was appended is last.
LEMMA LastAppend ==
    ASSUME NEW S, NEW s \in Seq(S), NEW e \in S
    PROVE  Append(s, e)[Len(Append(s, e))] = e
<1>1. Len(Append(s, e)) = Len(s) + 1 /\ Append(s, e)[Len(s) + 1] = e
  BY AppendProperties
<1> QED
  BY <1>1, Zenon

\* Appending to either part of a concatenation.
LEMMA ConcatAppend ==
    ASSUME NEW S, NEW s \in Seq(S), NEW t \in Seq(S), NEW e \in S
    PROVE  /\ Append(s \o t, e) = s \o Append(t, e)
           /\ Append(s, e) \o t = s \o (<<e>> \o t)
           /\ <<e>> \o t \in Seq(S)
<1>1. <<e>> \in Seq(S) /\ s \o t \in Seq(S)
  BY ConcatProperties
<1>2. /\ Append(s \o t, e) = (s \o t) \o <<e>>
      /\ Append(t, e) = t \o <<e>>
      /\ Append(s, e) = s \o <<e>>
  BY <1>1, AppendIsConcat
<1>3. /\ (s \o t) \o <<e>> = s \o (t \o <<e>>)
      /\ (s \o <<e>>) \o t = s \o (<<e>> \o t)
  BY <1>1, ConcatAssociative
<1>4. <<e>> \o t \in Seq(S)
  BY <1>1, ConcatProperties
<1> QED
  BY <1>2, <1>3, <1>4

\* A sequence is its head and its tail.
LEMMA HeadThenTail ==
    ASSUME NEW S, NEW q \in Seq(S), q # <<>>
    PROVE  <<Head(q)>> \o Tail(q) = q
<1>1. Len(q) \in Nat \ {0}
  BY EmptySeq, LenProperties
<1>2. 1 \in 1..Len(q) /\ Len(q) \in 1..Len(q)
  BY <1>1
<1>3. SubSeq(q, 1, Len(q)) = <<q[1]>> \o SubSeq(q, 1 + 1, Len(q))
  BY <1>2, SubSeqRecursiveFirst
<1>4. Tail(q) = SubSeq(q, 2, Len(q)) /\ SubSeq(q, 1, Len(q)) = q
  BY TailIsSubSeq, SubSeqFull
<1>5. Head(q) = q[1]
  BY <1>1
<1>6. 1 + 1 = 2
  OBVIOUS
<1> QED
  BY <1>3, <1>4, <1>5, <1>6

-----------------------------------------------------------------------------
(* The order of the accepted envelopes *)

\* The envelopes accepted and not yet written: the one at hand, then the queue.
Owed == IF writer = "write" THEN <<envelope>> \o queue ELSE queue

\* In the drain loop the accepted envelopes are those written and those owed;
\* after it those written are a prefix, and all of them when it returned Ok.
OrderInv ==
    /\ \E rest \in Seq(Payloads) : accepted = OrdinaryPayloads(Log) \o rest
    /\ writer \in LoopStates =>
          result = "none" /\ accepted = OrdinaryPayloads(Log) \o Owed
    /\ writer \notin LoopStates => result \in {"ok", "err"}
    /\ result = "ok" => /\ accepted = OrdinaryPayloads(Log)
                        /\ queue = <<>> /\ buffer = <<>> /\ ~services
    /\ ~services => \A f \in Flows : Finished(f)
    /\ receiver <=> writer # "done"

\* What the writer holds has the type of a payload.
LEMMA OwedType ==
    ASSUME IInv
    PROVE  /\ accepted \in Seq(Payloads) /\ queue \in Seq(Payloads) /\ Owed \in Seq(Payloads)
           /\ Log \in Seq(Records) /\ OrdinaryPayloads(Log) \in Seq(Payloads)
<1>1. Envelopes \subseteq Payloads
  BY DEF Envelopes, Payloads
<1>2. accepted \in Seq(Payloads) /\ queue \in Seq(Payloads)
  BY <1>1, SeqMonotonic DEF IInv, TypeOK
<1>3. envelope \in Payloads
  BY DEF IInv, TypeOK
<1>4. Owed \in Seq(Payloads)
  BY <1>2, <1>3, ConcatAppend DEF Owed
<1>5. Log \in Seq(Records)
  BY ConcatProperties DEF IInv, TypeOK, Log
<1>6. OrdinaryPayloads(Log) \in Seq(Payloads)
  BY <1>5, NoRecordType, OrdinaryAppend
<1> QED
  BY <1>2, <1>4, <1>5, <1>6

\* An envelope the channel takes is the last one owed.
LEMMA AcceptOrder ==
    ASSUME IInv, OrderInv, NEW f \in Flows, Accept(f)
    PROVE  OrderInv'
<1> DEFINE e == [flow |-> f, n |-> attempts[f]]
           P == OrdinaryPayloads(Log)
<1>1. e \in Payloads
  BY EventsAssumption DEF IInv, TypeOK, Payloads
<1>2. /\ accepted' = Append(accepted, e) /\ queue' = Append(queue, e)
      /\ UNCHANGED <<services, receiver, writer, envelope, result, file, buffer>>
      /\ flow[f] = "publishing" /\ flow' = [flow EXCEPT ![f] = "running"]
  BY DEF Accept, Proceed, drainVars, fileVars
<1>3. OrdinaryPayloads(Log)' = P
  BY <1>2 DEF Log
<1>4. services /\ result # "ok"
  BY <1>2 DEF OrderInv, Finished
<1>5. Owed' = Append(Owed, e)
  <2>1. Append(<<envelope>> \o queue, e) = <<envelope>> \o Append(queue, e)
    <3>1. <<envelope>> \in Seq(Payloads) /\ queue \in Seq(Payloads)
      BY OwedType DEF IInv, TypeOK
    <3> QED
      BY <3>1, <1>1, ConcatAppend
  <2> QED
    BY <2>1, <1>2 DEF Owed
<1> HIDE DEF e, P
<1>6. ASSUME NEW t \in Seq(Payloads), accepted = P \o t
      PROVE  /\ accepted' = P \o Append(t, e)
             /\ Append(t, e) \in Seq(Payloads)
  <2>1. P \in Seq(Payloads)
    BY OwedType DEF P
  <2>2. Append(P \o t, e) = P \o Append(t, e)
    BY <1>1, <2>1, ConcatAppend
  <2>3. Append(t, e) \in Seq(Payloads)
    BY <1>1, AppendProperties
  <2> QED
    BY <1>2, <1>6, <2>2, <2>3
<1>7. \E rest \in Seq(Payloads) : accepted' = P \o rest
  BY <1>6 DEF OrderInv, P
<1>8. writer \in LoopStates => accepted' = P \o Owed'
  BY <1>5, <1>6, OwedType DEF OrderInv, P
<1> QED
  BY <1>2, <1>3, <1>4, <1>7, <1>8 DEF OrderInv

\* The steps of the flows that leave the channel alone.
LEMMA FlowOrder ==
    ASSUME OrderInv,
           UNCHANGED <<accepted, queue, receiver, writer, envelope, result, file, buffer>>,
           services' = services \/ (services' = FALSE /\ \A f \in Flows : Finished(f)),
           \A f \in Flows : Finished(f) => Finished(f)'
    PROVE  OrderInv'
<1>1. Log' = Log /\ Owed' = Owed
  BY DEF Log, Owed
<1>2. ~services' => \A f \in Flows : Finished(f)'
  BY Zenon DEF OrderInv
<1>3. ~services => ~services'
  OBVIOUS
<1>4. OrdinaryPayloads(Log') = OrdinaryPayloads(Log)
  BY <1>1
<1> QED
  BY <1>1, <1>2, <1>3, <1>4 DEF OrderInv

\* A successful write of the envelope at hand, or of a checkpoint.
LEMMA WrittenOrder ==
    ASSUME IInv, writer \in {"write", "sign"},
           NEW payload \in Payloads, NEW covered \in Hashes,
           Written(NewRecord(payload, covered))
    PROVE  /\ Log \in Seq(Records)
           /\ NewRecord(payload, covered) \in Records
           /\ Log' = Append(Log, NewRecord(payload, covered))
           /\ OrdinaryPayloads(Log') =
                 IF payload.flow = "checkpoint" THEN OrdinaryPayloads(Log)
                 ELSE Append(OrdinaryPayloads(Log), payload)
<1> DEFINE r == NewRecord(payload, covered)
<1>1. r \in Records /\ r.payload = payload
  BY NewRecordType DEF NewRecord
<1>2. buffer = <<>>
  BY DEF IInv, LogInv
<1> HIDE DEF r
<1>3. Log = file /\ Log' = Append(file, r)
  BY <1>1, <1>2, WrittenExtends DEF r
<1>4. OrdinaryPayloads(Append(Log, r)) = Take(OrdinaryPayloads(Log), r)
  BY <1>1, OwedType, OrdinaryAppend
<1>5. Log' = Append(Log, r)
  BY <1>3
<1>6. Take(OrdinaryPayloads(Log), r) =
         IF payload.flow = "checkpoint" THEN OrdinaryPayloads(Log)
         ELSE Append(OrdinaryPayloads(Log), payload)
  BY <1>1 DEF Take, IsCheckpoint
<1> QED
  BY <1>1, <1>4, <1>5, <1>6, OwedType DEF r

\* Leaving the loop with an error keeps the order of what is written.
LEMMA FailOrder ==
    ASSUME OrderInv, writer \in LoopStates, Fail,
           UNCHANGED <<accepted, queue, receiver, services, flow, file, buffer>>
    PROVE  OrderInv'
<1>1. Log' = Log /\ (\A f \in Flows : Finished(f)' = Finished(f))
  BY DEF Log, Finished
<1> QED
  BY <1>1 DEF OrderInv, Fail, LoopStates

\* blocking_recv hands over the first of the envelopes owed.
LEMMA ReceiveOrder ==
    ASSUME IInv, OrderInv, Receive \/ ReceiveNone
    PROVE  OrderInv'
<1>1. /\ writer = "recv" /\ Log' = Log /\ (\A f \in Flows : Finished(f)' = Finished(f))
      /\ UNCHANGED <<accepted, services, receiver, buffer>>
  BY DEF Receive, ReceiveNone, Log, Finished, flowVars, channelVars, fileVars
<1>2. accepted = OrdinaryPayloads(Log) \o queue /\ result = "none"
  BY <1>1 DEF OrderInv, LoopStates, Owed
<1>3. OrdinaryPayloads(Log') = OrdinaryPayloads(Log)
  BY <1>1
<1>4. CASE Receive
  <2>1. queue \in Seq(Payloads) /\ queue # <<>>
    BY <1>4, OwedType DEF Receive
  <2>2. <<Head(queue)>> \o Tail(queue) = queue
    BY <2>1, HeadThenTail
  <2>3. /\ Owed' = queue /\ result' = result /\ writer' = "write"
    BY <1>4, <2>2 DEF Receive, Owed
  <2> QED
    BY <1>1, <1>2, <1>3, <2>3 DEF OrderInv, LoopStates
<1>5. CASE ReceiveNone
  <2>1. OrdinaryPayloads(Log) \o <<>> = OrdinaryPayloads(Log)
    BY OwedType, ConcatEmptySeq
  <2>2. /\ queue = <<>> /\ queue' = <<>> /\ ~services /\ writer' = "drop_sink"
        /\ result' = "ok"
    BY <1>5 DEF ReceiveNone, channelVars
  <2>3. buffer = <<>>
    BY <1>1 DEF IInv, LogInv
  <2> QED
    BY <1>1, <1>2, <1>3, <2>1, <2>2, <2>3 DEF OrderInv, LoopStates
<1> QED
  BY <1>4, <1>5

\* write_event of the envelope at hand moves it from what is owed to the log.
LEMMA WriteEventOrder ==
    ASSUME IInv, OrderInv, WriteEvent
    PROVE  OrderInv'
<1>1. /\ writer = "write" /\ (\A f \in Flows : Finished(f)' = Finished(f))
      /\ UNCHANGED <<accepted, queue, services, flow, receiver>>
  BY DEF WriteEvent, Finished, flowVars, channelVars
<1>2. CASE Written(NewRecord(envelope, NoHash)) /\ writer' = "flush" /\ UNCHANGED result
  <2>1. envelope \in Payloads /\ envelope.flow # "checkpoint"
    BY <1>1, FlowsAssumption DEF IInv, LogInv, Envelopes, Payloads
  <2>2. OrdinaryPayloads(Log') = Append(OrdinaryPayloads(Log), envelope)
    BY <1>1, <1>2, <2>1, NoRecordType, WrittenOrder
  <2>3. accepted = OrdinaryPayloads(Log) \o (<<envelope>> \o queue) /\ result = "none"
    BY <1>1 DEF OrderInv, LoopStates, Owed
  <2>4. Append(OrdinaryPayloads(Log), envelope) \o queue
           = OrdinaryPayloads(Log) \o (<<envelope>> \o queue)
    <3> DEFINE P == OrdinaryPayloads(Log)
    <3>1. P \in Seq(Payloads) /\ queue \in Seq(Payloads)
      BY OwedType
    <3> HIDE DEF P
    <3>2. Append(P, envelope) \o queue = P \o (<<envelope>> \o queue)
      BY <2>1, <3>1, ConcatAppend
    <3> QED
      BY <3>2 DEF P
  <2>5. accepted' = OrdinaryPayloads(Log') \o queue' /\ Owed' = queue'
    BY <1>1, <1>2, <2>2, <2>3, <2>4 DEF Owed
  <2>6. queue' \in Seq(Payloads)
    BY <1>1, OwedType
  <2> QED
    BY <1>1, <1>2, <2>3, <2>5, <2>6 DEF OrderInv, LoopStates
<1>3. CASE WriteFails /\ Fail
  BY <1>1, <1>3, FailOrder DEF WriteFails, LoopStates
<1> QED
  BY <1>2, <1>3 DEF WriteEvent

\* A checkpoint is not one of the accepted envelopes.
LEMMA WriteCheckpointOrder ==
    ASSUME IInv, OrderInv, WriteCheckpoint
    PROVE  OrderInv'
<1> DEFINE payload == [flow |-> "checkpoint", n |-> record.sequence]
<1>1. /\ writer = "sign" /\ (\A f \in Flows : Finished(f)' = Finished(f))
      /\ UNCHANGED <<accepted, queue, services, flow, receiver, envelope>>
  BY DEF WriteCheckpoint, Finished, flowVars, channelVars
<1>2. CASE Written(NewRecord(payload, record.record_hash)) /\ writer' = "flush_checkpoint"
           /\ UNCHANGED result
  <2>1. payload \in Payloads /\ payload.flow = "checkpoint" /\ record.record_hash \in Hashes
    BY DEF IInv, TypeOK, Records, Payloads
  <2> HIDE DEF payload
  <2>2. OrdinaryPayloads(Log') = OrdinaryPayloads(Log)
    BY <1>1, <1>2, <2>1, WrittenOrder
  <2>3. Owed' = Owed
    BY <1>1, <1>2 DEF Owed
  <2> QED
    BY <1>1, <1>2, <2>2, <2>3 DEF OrderInv, LoopStates
<1>3. CASE WriteFails /\ Fail
  BY <1>1, <1>3, FailOrder DEF WriteFails, LoopStates
<1> QED
  BY <1>2, <1>3 DEF WriteCheckpoint

\* A flush keeps the log.
LEMMA FlushOrder ==
    ASSUME IInv, OrderInv, Flush \/ FlushCheckpoint
    PROVE  OrderInv'
<1>1. /\ writer \in {"flush", "flush_checkpoint"}
      /\ (\A f \in Flows : Finished(f)' = Finished(f))
      /\ UNCHANGED <<accepted, queue, services, flow, receiver, envelope>>
  BY DEF Flush, FlushCheckpoint, Flushed, FlushFails, Finished, flowVars, channelVars
<1>2. CASE Flushed /\ writer' \in {"sign", "recv"} /\ UNCHANGED result
  <2>1. Log' = Log
    BY <1>2, FlushedLog
  <2>2. OrdinaryPayloads(Log') = OrdinaryPayloads(Log) /\ Owed' = Owed
    BY <1>1, <1>2, <2>1 DEF Owed
  <2> QED
    BY <1>1, <1>2, <2>2 DEF OrderInv, LoopStates
<1>3. CASE FlushFails /\ Fail
  BY <1>1, <1>3, FailOrder DEF FlushFails, LoopStates
<1> QED
  BY <1>2, <1>3 DEF Flush, FlushCheckpoint

\* The buffer holds at most one line.
LEMMA BufferCases ==
    ASSUME IInv
    PROVE  \/ buffer = <<>> /\ Log = file
           \/ \E r \in Records : buffer = <<r>> /\ Log = Append(file, r)
<1>1. file \in Seq(Records) /\ buffer \in Seq(Records) /\ Len(buffer) <= 1
  BY DEF IInv, TypeOK
<1>2. CASE buffer = <<>>
  BY <1>1, <1>2, ConcatEmptySeq DEF Log
<1>3. CASE buffer # <<>>
  <2>1. Len(buffer) = 1
    <3>1. Len(buffer) \in Nat
      BY <1>1, LenProperties
    <3>2. Len(buffer) # 0
      <4>1. Len(buffer) = 0 => buffer = <<>>
        BY <1>1, EmptySeq, Zenon
      <4> QED
        BY <1>3, <4>1
    <3>3. \A n \in Nat : n <= 1 /\ n # 0 => n = 1
      OBVIOUS
    <3> QED
      BY <1>1, <3>1, <3>2, <3>3, Zenon
  <2>2. buffer[1] \in Records /\ buffer = <<buffer[1]>>
    <3>1. buffer[1] \in Records
      BY <1>1, <2>1, ElementOfSeq
    <3> DEFINE b == <<buffer[1]>>
    <3>2. b \in Seq(Records) /\ Len(b) = 1 /\ b[1] = buffer[1]
      BY <3>1
    <3> HIDE DEF b
    <3>3. \A i \in 1..1 : buffer[i] = b[i]
      BY <3>2
    <3>4. buffer = b
      BY <1>1, <2>1, <3>2, <3>3, SeqEqual
    <3> QED
      BY <3>1, <3>4 DEF b
  <2>3. PICK r \in Records : buffer = <<r>>
    BY <2>2
  <2>4. file \o <<r>> = Append(file, r)
    BY <1>1, AppendIsConcat
  <2> QED
    BY <2>3, <2>4 DEF Log
<1> QED
  BY <1>2, <1>3

\* A line the BufWriter loses when it is dropped was the last one written.
LEMMA DropSinkOrder ==
    ASSUME IInv, OrderInv, DropSink
    PROVE  OrderInv'
<1>1. /\ writer = "drop_sink" /\ writer' = "drop_receiver" /\ buffer' = <<>>
      /\ (\A f \in Flows : Finished(f)' = Finished(f))
      /\ UNCHANGED <<accepted, queue, services, flow, receiver, envelope, result>>
  BY DEF DropSink, Finished, flowVars, channelVars
<1>2. file' \in Seq(Records) /\ Log' = file'
  <2>1. file' \in Seq(Records)
    BY DropSinkIInv DEF IInv, TypeOK
  <2> QED
    BY <1>1, <2>1, ConcatEmptySeq DEF Log
<1>3. CASE Log' = Log
  <2>1. OrdinaryPayloads(Log') = OrdinaryPayloads(Log)
    BY <1>3
  <2> QED
    BY <1>1, <2>1 DEF OrderInv, LoopStates
<1>4. CASE Log' = file /\ buffer # <<>>
  <2>1. PICK r \in Records : Log = Append(file, r)
    BY <1>4, BufferCases
  <2>2. file \in Seq(Records) /\ r.payload \in Payloads
    BY DEF IInv, TypeOK, Records
  <2>3. /\ OrdinaryPayloads(file) \in Seq(Payloads)
        /\ OrdinaryPayloads(Log) = Take(OrdinaryPayloads(file), r)
    BY <2>1, <2>2, OrdinaryAppend
  <2>4. PICK rest \in Seq(Payloads) : accepted = OrdinaryPayloads(Log) \o rest
    BY DEF OrderInv
  <2>5. \E more \in Seq(Payloads) : accepted = OrdinaryPayloads(file) \o more
    <3> DEFINE P == OrdinaryPayloads(file)
    <3> HIDE DEF P
    <3>1. CASE IsCheckpoint(r)
      BY <2>3, <2>4, <3>1 DEF Take, P
    <3>2. CASE ~IsCheckpoint(r)
      <4>1. P \in Seq(Payloads) /\ accepted = Append(P, r.payload) \o rest
        BY <2>3, <2>4, <3>2 DEF Take, P
      <4>2. /\ Append(P, r.payload) \o rest = P \o (<<r.payload>> \o rest)
            /\ <<r.payload>> \o rest \in Seq(Payloads)
        BY <2>2, <4>1, ConcatAppend
      <4> QED
        BY <4>1, <4>2 DEF P
    <3> QED
      BY <3>1, <3>2
  <2>6. OrdinaryPayloads(Log') = OrdinaryPayloads(file) /\ result # "ok"
    BY <1>4 DEF OrderInv
  <2> QED
    BY <1>1, <2>5, <2>6 DEF OrderInv, LoopStates
<1> QED
  BY <1>2, <1>3, <1>4 DEF DropSink, Log

\* The receiver is dropped, and with it what is still queued.
LEMMA DropReceiverOrder ==
    ASSUME OrderInv, DropReceiver
    PROVE  OrderInv'
<1>1. /\ writer = "drop_receiver" /\ writer' = "done" /\ receiver' = FALSE /\ queue' = <<>>
      /\ (\A f \in Flows : Finished(f)' = Finished(f)) /\ Log' = Log
      /\ UNCHANGED <<accepted, services, flow, result, buffer>>
  BY DEF DropReceiver, Finished, Log, flowVars, fileVars
<1>2. OrdinaryPayloads(Log') = OrdinaryPayloads(Log)
  BY <1>1
<1> QED
  BY <1>1, <1>2 DEF OrderInv, LoopStates

\* Every step keeps the order of the accepted envelopes.
LEMMA NextOrder == IInv /\ OrderInv /\ [Next]_vars => OrderInv'
<1> SUFFICES ASSUME IInv, OrderInv, [Next]_vars PROVE OrderInv'
  OBVIOUS
<1>1. ASSUME NEW f \in Flows, Publish(f) \/ RejectOpen(f) \/ FailClosed(f) \/ End(f)
      PROVE  OrderInv'
  <2>1. \A g \in Flows : Finished(g) => Finished(g)'
    BY <1>1 DEF Publish, RejectOpen, FailClosed, End, Proceed, Finished, IInv, TypeOK
  <2>2. UNCHANGED <<accepted, queue, receiver, writer, envelope, result, file, buffer, services>>
    BY <1>1 DEF Publish, RejectOpen, FailClosed, End, Proceed, channelVars, drainVars, fileVars
  <2> QED
    BY <2>1, <2>2, FlowOrder
<1>2. CASE DropServices
  BY <1>2, FlowOrder DEF DropServices, Finished, channelVars, drainVars, fileVars
<1>3. CASE UNCHANGED vars
  BY <1>3, FlowOrder DEF vars, Finished, flowVars, channelVars, drainVars, fileVars
<1>4. CASE WriterStep
  BY <1>4, ReceiveOrder, WriteEventOrder, WriteCheckpointOrder, FlushOrder, DropSinkOrder,
     DropReceiverOrder DEF WriterStep
<1> QED
  BY <1>1, <1>2, <1>3, <1>4, AcceptOrder DEF Next, PublishReturns, Exited

\* Initially nothing is accepted and nothing is owed.
LEMMA InitOrder == Init => OrderInv
<1> SUFFICES ASSUME Init PROVE OrderInv
  OBVIOUS
<1>1. Log = <<>> /\ Owed = <<>>
  BY EmptyLog DEF Init, Log, Owed
<1>2. OrdinaryPayloads(Log) = <<>>
  BY <1>1, OrdinaryEmpty
<1>3. <<>> \in Seq(Payloads) /\ <<>> \o <<>> = <<>>
  BY EmptySeq, ConcatEmptySeq
<1>4. \E rest \in Seq(Payloads) : <<>> = <<>> \o rest
  BY <1>3
<1> QED
  BY <1>1, <1>2, <1>3, <1>4 DEF Init, OrderInv, LoopStates

\* The accepted envelopes are written in order, for the whole life of the writer.
LEMMA OrderInvariance == Spec => []OrderInv
BY InitOrder, NextOrder, Invariance, PTL DEF Spec

-----------------------------------------------------------------------------
(* The refinement of AuditLog *)

\* A line that reaches the file is a checkpoint or the next accepted envelope.
LEMMA LineStored ==
    ASSUME IInv, OrderInv', NEW r \in Records,
           file' = Append(file, r), buffer' = <<>>,
           UNCHANGED <<accepted, receiver, result>>, receiver
    PROVE  AbstractLog!Store \/ UNCHANGED AbstractLog!logVars
<1> DEFINE P == OrdinaryPayloads(file)
<1>1. file \in Seq(Records) /\ file' \in Seq(Records)
  BY AppendProperties DEF IInv, TypeOK
<1>2. Log' = file'
  BY <1>1, ConcatEmptySeq DEF Log
<1>3. P \in Seq(Payloads) /\ OrdinaryPayloads(file') = Take(P, r)
  BY <1>1, OrdinaryAppend
<1>4. PICK rest \in Seq(Payloads) : accepted = OrdinaryPayloads(file') \o rest
  BY <1>2 DEF OrderInv
<1>5. LogStatus' = LogStatus /\ LogStatus \in {"open", "failing"}
  BY DEF LogStatus
<1>6. CASE IsCheckpoint(r)
  <2>1. OrdinaryPayloads(file') = OrdinaryPayloads(file)
    BY <1>3, <1>6 DEF Take
  <2> QED
    BY <1>5, <2>1 DEF AbstractLog!logVars
<1>7. CASE ~IsCheckpoint(r)
  <2> HIDE DEF P
  <2>1. OrdinaryPayloads(file') = Append(P, r.payload) /\ r.payload \in Payloads
    BY <1>3, <1>7 DEF Take, Records
  <2>2. /\ Append(P, r.payload) \in Seq(Payloads)
        /\ Len(Append(P, r.payload)) = Len(P) + 1 /\ Len(P) \in Nat
        /\ Append(P, r.payload)[Len(P) + 1] = r.payload
    BY <1>3, <2>1, AppendProperties, LenProperties
  <2> DEFINE A == Append(P, r.payload)
  <2> HIDE DEF A
  <2>3. /\ Len(A \o rest) = Len(A) + Len(rest) /\ Len(rest) \in Nat
        /\ \A i \in 1..(Len(A) + Len(rest)) :
              (A \o rest)[i] = IF i <= Len(A) THEN A[i] ELSE rest[i - Len(A)]
    <3>1. A \in Seq(Payloads)
      BY <2>2 DEF A
    <3> QED
      BY <3>1, <1>4, ConcatProperties, LenProperties
  <2>4. accepted = A \o rest
    BY <1>4, <2>1 DEF A
  <2>5. Len(P) < Len(accepted) /\ accepted[Len(P) + 1] = r.payload
    BY <2>2, <2>3, <2>4 DEF A
  <2>6. OrdinaryPayloads(file)' = Append(P, accepted[Len(P) + 1])
    BY <2>1, <2>5
  <2> QED
    BY <1>5, <2>5, <2>6 DEF AbstractLog!Store, P
<1> QED
  BY <1>6, <1>7

\* The same for a step that writes the buffer out.
LEMMA BufferStored ==
    ASSUME IInv, OrderInv', file' = file \o buffer, buffer' = <<>>,
           UNCHANGED <<accepted, receiver, result>>, receiver
    PROVE  AbstractLog!Store \/ UNCHANGED AbstractLog!logVars
<1>1. CASE Log = file
  <2>1. OrdinaryPayloads(file') = OrdinaryPayloads(file) /\ LogStatus' = LogStatus
    BY <1>1 DEF Log, LogStatus
  <2> QED
    BY <2>1 DEF AbstractLog!logVars
<1>2. ASSUME NEW r \in Records, Log = Append(file, r)
      PROVE  AbstractLog!Store \/ UNCHANGED AbstractLog!logVars
  BY <1>2, LineStored DEF Log
<1> QED
  BY <1>1, <1>2, BufferCases

\* A step that writes no line and keeps the status is a stutter.
LEMMA NothingStored ==
    ASSUME UNCHANGED <<accepted, file>>, LogStatus' = LogStatus
    PROVE  UNCHANGED AbstractLog!logVars
<1>1. OrdinaryPayloads(file') = OrdinaryPayloads(file)
  OBVIOUS
<1> QED
  BY <1>1 DEF AbstractLog!logVars

\* An error in the loop is the abstract log's failure.
LEMMA FailSeen ==
    ASSUME OrderInv, writer \in LoopStates, Fail, UNCHANGED <<accepted, file, receiver>>
    PROVE  AbstractLog!Fail
<1>1. receiver /\ result = "none"
  BY DEF OrderInv, LoopStates
<1>2. LogStatus = "open" /\ LogStatus' = "failing"
  BY <1>1 DEF LogStatus, Fail
<1>3. OrdinaryPayloads(file') = OrdinaryPayloads(file)
  OBVIOUS
<1> QED
  BY <1>2, <1>3 DEF AbstractLog!Fail

\* A write, successful or not.
LEMMA WriteRefines ==
    ASSUME IInv, OrderInv, OrderInv', WriteEvent \/ WriteCheckpoint
    PROVE  AbstractLog!Next \/ UNCHANGED AbstractLog!logVars
<1>1. /\ writer \in {"write", "sign"} /\ UNCHANGED <<accepted, receiver>>
      /\ buffer = <<>> /\ receiver
  BY DEF WriteEvent, WriteCheckpoint, channelVars, IInv, LogInv, OrderInv
<1>2. ASSUME NEW payload \in Payloads, NEW covered \in Hashes,
             Written(NewRecord(payload, covered)), UNCHANGED result
      PROVE  AbstractLog!Next \/ UNCHANGED AbstractLog!logVars
  <2>1. NewRecord(payload, covered) \in Records
    BY NewRecordType
  <2>2. CASE UNCHANGED file
    <3>1. LogStatus' = LogStatus
      BY <1>1, <1>2 DEF LogStatus
    <3> QED
      BY <1>1, <2>2, <3>1, NothingStored
  <2>3. CASE file' = Append(file, NewRecord(payload, covered)) /\ UNCHANGED buffer
    BY <1>1, <1>2, <2>1, <2>3, LineStored DEF AbstractLog!Next
  <2> QED
    BY <1>2, <2>2, <2>3 DEF Written
<1>3. CASE WriteFails /\ Fail
  <2>1. AbstractLog!Fail
    BY <1>1, <1>3, FailSeen DEF WriteFails, LoopStates
  <2> QED
    BY <2>1 DEF AbstractLog!Next
<1>4. CASE Written(NewRecord(envelope, NoHash)) /\ UNCHANGED result
  BY <1>2, <1>4, NoRecordType DEF IInv, TypeOK
<1>5. CASE Written(NewRecord([flow |-> "checkpoint", n |-> record.sequence],
                             record.record_hash)) /\ UNCHANGED result
  <2>1. /\ [flow |-> "checkpoint", n |-> record.sequence] \in Payloads
        /\ record.record_hash \in Hashes
    BY DEF IInv, TypeOK, Records, Payloads
  <2> QED
    BY <1>2, <1>5, <2>1
<1> QED
  BY <1>3, <1>4, <1>5 DEF WriteEvent, WriteCheckpoint

\* A flush, successful or not.
LEMMA FlushRefines ==
    ASSUME IInv, OrderInv, OrderInv', Flush \/ FlushCheckpoint
    PROVE  AbstractLog!Next \/ UNCHANGED AbstractLog!logVars
<1>1. /\ writer \in LoopStates /\ UNCHANGED <<accepted, receiver>> /\ receiver
  BY DEF Flush, FlushCheckpoint, Flushed, FlushFails, channelVars, OrderInv, LoopStates
<1>2. CASE Flushed /\ UNCHANGED result
  BY <1>1, <1>2, BufferStored DEF Flushed, AbstractLog!Next
<1>3. CASE FlushFails /\ Fail
  <2>1. AbstractLog!Fail
    BY <1>1, <1>3, FailSeen DEF FlushFails
  <2> QED
    BY <2>1 DEF AbstractLog!Next
<1> QED
  BY <1>2, <1>3 DEF Flush, FlushCheckpoint

\* The sink and the receiver are dropped.
LEMMA DropRefines ==
    ASSUME IInv, OrderInv, OrderInv', DropSink \/ DropReceiver
    PROVE  AbstractLog!Next \/ UNCHANGED AbstractLog!logVars
<1>1. CASE DropSink
  <2>1. buffer' = <<>> /\ UNCHANGED <<accepted, receiver, result>> /\ receiver
    BY <1>1 DEF DropSink, channelVars, OrderInv
  <2>2. CASE file' = file \o buffer
    BY <2>1, <2>2, BufferStored DEF AbstractLog!Next
  <2>3. CASE UNCHANGED file
    <3>1. LogStatus' = LogStatus
      BY <2>1 DEF LogStatus
    <3> QED
      BY <2>1, <2>3, <3>1, NothingStored
  <2> QED
    BY <1>1, <2>2, <2>3 DEF DropSink
<1>2. CASE DropReceiver
  <2>1. /\ receiver /\ ~receiver' /\ UNCHANGED <<accepted, result, file>>
        /\ result \in {"ok", "err"}
    BY <1>2 DEF DropReceiver, OrderInv, LoopStates, fileVars
  <2>2. OrdinaryPayloads(file') = OrdinaryPayloads(file)
    BY <2>1
  <2>3. CASE result = "err"
    <3>1. LogStatus = "failing" /\ LogStatus' = "failed"
      BY <2>1, <2>3 DEF LogStatus
    <3> QED
      BY <2>1, <2>2, <3>1 DEF AbstractLog!Next, AbstractLog!GiveUp
  <2>4. CASE result = "ok"
    <3>1. LogStatus = "open" /\ LogStatus' = "closed"
      BY <2>1, <2>4 DEF LogStatus
    <3>2. accepted = OrdinaryPayloads(Log) /\ Log = file
      BY <2>4, BufferCases DEF OrderInv
    <3>3. OrdinaryPayloads(file) = accepted
      BY <3>2
    <3> QED
      BY <2>1, <2>2, <3>1, <3>3 DEF AbstractLog!Next, AbstractLog!Close
  <2> QED
    BY <2>1, <2>3, <2>4
<1> QED
  BY <1>1, <1>2

\* publish returns Ok.
LEMMA AcceptRefines ==
    ASSUME IInv, NEW f \in Flows, Accept(f)
    PROVE  AbstractLog!Next
<1> DEFINE e == [flow |-> f, n |-> attempts[f]]
<1>1. attempts[f] \in 1..MaxEvents
  BY EventsAssumption DEF IInv, TypeOK, FlowInv, Accept
<1>2. e \in [flow : Flows, n : 1..MaxEvents]
  BY <1>1
<1>3. /\ receiver /\ accepted' = Append(accepted, e)
      /\ UNCHANGED <<receiver, result, file>>
  BY DEF Accept, drainVars, fileVars
<1>4. LogStatus \in {"open", "failing"} /\ LogStatus' = LogStatus
  BY <1>3 DEF LogStatus
<1>5. OrdinaryPayloads(file') = OrdinaryPayloads(file)
  BY <1>3
<1> HIDE DEF e
<1> QED
  BY <1>2, <1>3, <1>4, <1>5 DEF AbstractLog!Next, AbstractLog!Accept

\* The bounded channel, the drain loop, the BufWriter and the checkpoints implement
\* AuditLog: records reach the segment in the order publish accepted them, nothing
\* else does, and drain_jsonl_with_checkpoints returns Ok only when none is missing.
THEOREM PipelineImplementsLog == Spec => ImplementsAuditLog
<1>1. Init => AbstractLog!Init
  <2> SUFFICES ASSUME Init PROVE AbstractLog!Init
    OBVIOUS
  <2>1. OrdinaryPayloads(file) = <<>>
    BY OrdinaryEmpty DEF Init
  <2> QED
    BY <2>1 DEF Init, LogStatus, AbstractLog!Init
<1>2. IInv /\ OrderInv /\ OrderInv' /\ [Next]_vars => [AbstractLog!Next]_(AbstractLog!logVars)
  <2> SUFFICES ASSUME IInv, OrderInv, OrderInv', [Next]_vars
               PROVE  AbstractLog!Next \/ UNCHANGED AbstractLog!logVars
    OBVIOUS
  <2>1. CASE UNCHANGED <<accepted, file, receiver, result>>
    <3>1. LogStatus' = LogStatus
      BY <2>1 DEF LogStatus
    <3> QED
      BY <2>1, <3>1, NothingStored
  <2>2. ASSUME NEW f \in Flows, Publish(f) \/ RejectOpen(f) \/ FailClosed(f) \/ End(f)
        PROVE  UNCHANGED <<accepted, file, receiver, result>>
    BY <2>2 DEF Publish, RejectOpen, FailClosed, End, channelVars, drainVars, fileVars
  <2>3. DropServices \/ Receive \/ UNCHANGED vars => UNCHANGED <<accepted, file, receiver, result>>
    BY DEF DropServices, Receive, vars, channelVars, drainVars, fileVars
  <2>4. CASE ReceiveNone
    <3>1. UNCHANGED <<accepted, file>> /\ LogStatus' = LogStatus
      BY <2>4 DEF ReceiveNone, LogStatus, channelVars, fileVars, OrderInv, LoopStates
    <3> QED
      BY <3>1, NothingStored
  <2> QED
    BY <2>1, <2>2, <2>3, <2>4, AcceptRefines, WriteRefines, FlushRefines, DropRefines
    DEF Next, PublishReturns, WriterStep, Exited
<1> QED
  BY <1>1, <1>2, Invariance, OrderInvariance, PTL DEF Spec, ImplementsAuditLog, AbstractLog!Spec

-----------------------------------------------------------------------------
(* The cadence of the checkpoints *)

\* The configured interval, the counter and the last line agree, so that a
\* checkpoint is signed exactly when one is due.
CadenceInv ==
    /\ \A i \in 2..Len(Log) : IsCheckpoint(Log[i]) <=> Due(Log, i - 1)
    /\ writer \in LoopStates => ordinary_events = Len(OrdinaryPayloads(Log))
    /\ writer \in {"recv", "write", "flush_checkpoint"} /\ Log # <<>> => ~Due(Log, Len(Log))
    /\ writer \in {"flush", "sign"} => ~IsCheckpoint(Log[Len(Log)])
    /\ writer = "sign" => Due(Log, Len(Log))

\* Whether a line is due for a checkpoint is settled when it is written.
LEMMA DueAppend ==
    ASSUME NEW s \in Seq(Records), NEW r \in Records
    PROVE  /\ \A i \in 1..Len(s) : Due(Append(s, r), i) <=> Due(s, i)
           /\ Due(Append(s, r), Len(s) + 1) <=>
                 /\ interval # 0 /\ ~IsCheckpoint(r)
                 /\ Len(Take(OrdinaryPayloads(s), r)) % interval = 0
<1> DEFINE t == Append(s, r)
<1>1. /\ t \in Seq(Records) /\ Len(s) \in Nat /\ Len(t) = Len(s) + 1
      /\ \A i \in 1..Len(s) : t[i] = s[i]
      /\ t[Len(s) + 1] = r
  BY AppendProperties, LenProperties
<1>2. t = s \o <<r>> /\ <<r>> \in Seq(Records)
  BY AppendIsConcat
<1>3. SubSeq(t, 1, Len(s) + 1) = t
  BY <1>1, SubSeqFull
<1>4. OrdinaryPayloads(t) = Take(OrdinaryPayloads(s), r)
  BY OrdinaryAppend
<1> HIDE DEF t
<1>5. ASSUME NEW i \in 1..Len(s) PROVE SubSeq(t, 1, i) = SubSeq(s, 1, i)
  <2>1. 1 \in 1..Len(s)
    BY <1>1
  <2> QED
    BY <1>2, <2>1, SubSeqOfConcat1
<1>6. \A i \in 1..Len(s) : Due(t, i) <=> Due(s, i)
  BY <1>1, <1>5 DEF Due
<1>7. Due(t, Len(s) + 1) <=> /\ interval # 0 /\ ~IsCheckpoint(r)
                             /\ Len(Take(OrdinaryPayloads(s), r)) % interval = 0
  BY <1>1, <1>3, <1>4 DEF Due
<1> QED
  BY <1>6, <1>7 DEF t

\* A line that is a checkpoint exactly when the last one is due keeps the cadence,
\* and so does losing the last line.
LEMMA CadenceAppend ==
    ASSUME NEW s \in Seq(Records), NEW r \in Records
    PROVE  (\A i \in 2..Len(Append(s, r)) :
               IsCheckpoint(Append(s, r)[i]) <=> Due(Append(s, r), i - 1))
           <=> /\ \A i \in 2..Len(s) : IsCheckpoint(s[i]) <=> Due(s, i - 1)
               /\ s # <<>> => (IsCheckpoint(r) <=> Due(s, Len(s)))
<1> DEFINE t == Append(s, r)
<1>1. /\ t \in Seq(Records) /\ Len(s) \in Nat /\ Len(t) = Len(s) + 1
      /\ \A i \in 1..Len(s) : t[i] = s[i]
      /\ t[Len(s) + 1] = r
  BY AppendProperties, LenProperties
<1>2. \A i \in 1..Len(s) : Due(t, i) <=> Due(s, i)
  BY DueAppend
<1>3. s # <<>> <=> Len(s) >= 1
  BY <1>1, EmptySeq
<1> HIDE DEF t
<1>4. \A i \in 2..Len(s) : t[i] = s[i] /\ (Due(t, i - 1) <=> Due(s, i - 1))
  BY <1>1, <1>2
<1>5. s # <<>> => (Due(t, Len(s)) <=> Due(s, Len(s)))
  BY <1>1, <1>2, <1>3
<1>6. 2..Len(t) = (2..Len(s)) \cup (IF s # <<>> THEN {Len(s) + 1} ELSE {})
  BY <1>1, <1>3
<1>7. (\A i \in 2..Len(t) : IsCheckpoint(t[i]) <=> Due(t, i - 1))
      <=> /\ \A i \in 2..Len(s) : IsCheckpoint(t[i]) <=> Due(t, i - 1)
          /\ s # <<>> => (IsCheckpoint(r) <=> Due(t, Len(s)))
  <2>1. s # <<>> => Len(s) + 1 \in 2..Len(t) /\ (Len(s) + 1) - 1 = Len(s)
    BY <1>1, <1>3
  <2> QED
    BY <1>1, <1>6, <2>1
<1> QED
  BY <1>4, <1>5, <1>7 DEF t

\* The interval is fixed when the drain loop starts.
LEMMA IntervalFixed == [Next]_vars => interval' = interval
<1> SUFFICES ASSUME [Next]_vars PROVE interval' = interval
  OBVIOUS
<1>1. ASSUME NEW f \in Flows, Publish(f) \/ PublishReturns(f) \/ End(f)
      PROVE  interval' = interval
  BY <1>1 DEF Publish, PublishReturns, Accept, RejectOpen, FailClosed, End, configVars
<1>2. DropServices \/ WriterStep => interval' = interval
  BY DEF DropServices, WriterStep, Receive, ReceiveNone, WriteEvent, Flush, Flushed,
         FlushFails, WriteCheckpoint, FlushCheckpoint, DropSink, DropReceiver, configVars
<1> QED
  BY <1>1, <1>2 DEF Next, Exited, vars, configVars

\* The log and the counter untouched, the writer moves between states with the
\* same obligations.
LEMMA CadenceKept ==
    ASSUME CadenceInv, Log' = Log, UNCHANGED <<interval, ordinary_events>>,
           writer' \in LoopStates => writer \in LoopStates,
           writer' \in {"recv", "write", "flush_checkpoint"} /\ Log # <<>> => ~Due(Log, Len(Log)),
           writer' \in {"flush", "sign"} => ~IsCheckpoint(Log[Len(Log)]),
           writer' = "sign" => Due(Log, Len(Log))
    PROVE  CadenceInv'
<1>1. \A i : Due(Log, i)' = Due(Log, i)
  BY DEF Due
<1>2. OrdinaryPayloads(Log)' = OrdinaryPayloads(Log)
  OBVIOUS
<1> QED
  BY <1>1, <1>2 DEF CadenceInv

\* write_event of an envelope or of a checkpoint keeps the cadence.
LEMMA WriteCadence ==
    ASSUME IInv, CadenceInv, WriteEvent \/ WriteCheckpoint, interval' = interval
    PROVE  CadenceInv'
<1>1. CASE WriteFails /\ Fail /\ UNCHANGED ordinary_events
  <2>1. Log' = Log
    BY <1>1 DEF WriteFails, Log
  <2> QED
    BY <1>1, <2>1, CadenceKept DEF Fail, LoopStates
<1>2. CASE /\ writer = "write" /\ Written(NewRecord(envelope, NoHash))
           /\ ordinary_events' = ordinary_events + 1
           /\ writer' = "flush"
  <2> DEFINE r == NewRecord(envelope, NoHash)
  <2>1. envelope \in Payloads /\ envelope.flow # "checkpoint"
    BY <1>2, FlowsAssumption DEF IInv, LogInv, Envelopes, Payloads
  <2>2. /\ Log \in Seq(Records) /\ r \in Records /\ Log' = Append(Log, r)
        /\ OrdinaryPayloads(Log') = Append(OrdinaryPayloads(Log), envelope)
    BY <1>2, <2>1, NoRecordType, WrittenOrder
  <2>3. ~IsCheckpoint(r)
    BY <2>1 DEF IsCheckpoint, NewRecord
  <2> HIDE DEF r
  <2>4. \A s, i : Due(s, i)' = Due(s, i)
    BY DEF Due
  <2>5. Log # <<>> => ~Due(Log, Len(Log))
    BY <1>2 DEF CadenceInv
  <2>6. \A i \in 2..Len(Log') : IsCheckpoint(Log'[i]) <=> Due(Log', i - 1)
    BY <2>2, <2>3, <2>5, CadenceAppend DEF CadenceInv
  <2>7. Len(Append(OrdinaryPayloads(Log), envelope)) = Len(OrdinaryPayloads(Log)) + 1
    BY <2>1, OwedType, AppendProperties
  <2>8. ordinary_events' = Len(OrdinaryPayloads(Log'))
    BY <1>2, <2>2, <2>7 DEF CadenceInv, LoopStates
  <2>9. Log'[Len(Log')] = r
    BY <2>2, LastAppend
  <2> QED
    BY <1>2, <2>3, <2>6, <2>8, <2>9 DEF CadenceInv, LoopStates, Due
<1>3. CASE /\ writer = "sign"
           /\ Written(NewRecord([flow |-> "checkpoint", n |-> record.sequence],
                                record.record_hash))
           /\ UNCHANGED ordinary_events
           /\ writer' = "flush_checkpoint"
  <2> DEFINE payload == [flow |-> "checkpoint", n |-> record.sequence]
             r == NewRecord(payload, record.record_hash)
  <2>1. payload \in Payloads /\ payload.flow = "checkpoint" /\ record.record_hash \in Hashes
    BY DEF IInv, TypeOK, Records, Payloads
  <2>2. IsCheckpoint(r)
    BY DEF IsCheckpoint, NewRecord
  <2> HIDE DEF payload
  <2>3. /\ Log \in Seq(Records) /\ r \in Records /\ Log' = Append(Log, r)
        /\ OrdinaryPayloads(Log') = OrdinaryPayloads(Log)
    BY <1>3, <2>1, WrittenOrder DEF payload
  <2> HIDE DEF r
  <2>4. Due(Log, Len(Log))
    BY <1>3 DEF CadenceInv
  <2>5. \A i \in 2..Len(Log') : IsCheckpoint(Log'[i]) <=> Due(Log', i - 1)
    BY <2>2, <2>3, <2>4, CadenceAppend DEF CadenceInv
  <2>6. ordinary_events' = Len(OrdinaryPayloads(Log'))
    BY <1>3, <2>3 DEF CadenceInv, LoopStates
  <2>7. Log'[Len(Log')] = r
    BY <2>3, LastAppend
  <2>8. ~Due(Log', Len(Log'))
    BY <2>2, <2>7 DEF Due
  <2> QED
    BY <1>3, <2>5, <2>6, <2>8 DEF CadenceInv, LoopStates, Due
<1> QED
  BY <1>1, <1>2, <1>3 DEF WriteEvent, WriteCheckpoint

\* A flush decides whether a checkpoint is signed.
LEMMA FlushCadence ==
    ASSUME IInv, CadenceInv, Flush \/ FlushCheckpoint, interval' = interval
    PROVE  CadenceInv'
<1>1. UNCHANGED ordinary_events /\ writer \in {"flush", "flush_checkpoint"}
  BY DEF Flush, FlushCheckpoint, Flushed, FlushFails
<1>2. CASE FlushFails /\ Fail
  <2>1. Log' = Log
    BY <1>2 DEF FlushFails, Log
  <2> QED
    BY <1>1, <1>2, <2>1, CadenceKept DEF Fail, LoopStates
<1>3. CASE writer = "flush" /\ Flushed /\ writer' = (IF CheckpointDue THEN "sign" ELSE "recv")
  <2>1. Log' = Log
    BY <1>3, FlushedLog
  <2>2. Log \in Seq(Records) /\ Log # <<>>
    BY <1>3, OwedType DEF IInv, LogInv
  <2>3. SubSeq(Log, 1, Len(Log)) = Log
    BY <2>2, SubSeqFull
  <2>4. ~IsCheckpoint(Log[Len(Log)]) /\ ordinary_events = Len(OrdinaryPayloads(Log))
    BY <1>3 DEF CadenceInv, LoopStates
  <2>5. Due(Log, Len(Log)) <=> CheckpointDue
    BY <2>3, <2>4 DEF Due, CheckpointDue
  <2> QED
    BY <1>1, <1>3, <2>1, <2>4, <2>5, CadenceKept DEF LoopStates
<1>4. CASE writer = "flush_checkpoint" /\ Flushed /\ writer' = "recv"
  <2>1. Log' = Log
    BY <1>4, FlushedLog
  <2> QED
    BY <1>1, <1>4, <2>1, CadenceKept DEF LoopStates, CadenceInv
<1> QED
  BY <1>2, <1>3, <1>4 DEF Flush, FlushCheckpoint

\* Dropping the BufWriter may lose the last line, not the cadence of the rest.
LEMMA DropSinkCadence ==
    ASSUME IInv, CadenceInv, DropSink, interval' = interval
    PROVE  CadenceInv'
<1>1. writer' = "drop_receiver" /\ buffer' = <<>>
  BY DEF DropSink
<1>2. file' \in Seq(Records) /\ file \in Seq(Records)
  BY DropSinkIInv DEF IInv, TypeOK
<1>3. Log' = file'
  BY <1>1, <1>2, ConcatEmptySeq DEF Log
<1>4. \A s, i : Due(s, i)' = Due(s, i)
  BY DEF Due
<1>5. \A i \in 2..Len(file') : IsCheckpoint(file'[i]) <=> Due(file', i - 1)
  <2>1. CASE file' = Log
    BY <2>1 DEF CadenceInv
  <2>2. CASE file' = file /\ buffer # <<>>
    <3>1. PICK r \in Records : Log = Append(file, r)
      BY <2>2, BufferCases
    <3> QED
      BY <1>2, <2>2, <3>1, CadenceAppend DEF CadenceInv
  <2> QED
    BY <2>1, <2>2 DEF DropSink, Log
<1> QED
  BY <1>1, <1>3, <1>5 DEF CadenceInv, LoopStates, Due

\* A checkpoint stands after exactly every interval-th ordinary record of the
\* segment, for every interval: drain_jsonl_with_checkpoints counts what it writes.
THEOREM CadenceHolds == Spec => []CheckpointCadence
<1>1. Init => CadenceInv
  <2> SUFFICES ASSUME Init PROVE CadenceInv
    OBVIOUS
  <2>1. Log = <<>> /\ Len(Log) = 0
    BY EmptyLog, EmptySeq DEF Init, Log
  <2>2. Len(OrdinaryPayloads(Log)) = 0
    BY <2>1, OrdinaryEmpty
  <2> QED
    BY <2>1, <2>2 DEF Init, CadenceInv
<1>2. IInv /\ CadenceInv /\ [Next]_vars => CadenceInv'
  <2> SUFFICES ASSUME IInv, CadenceInv, [Next]_vars PROVE CadenceInv'
    OBVIOUS
  <2>1. interval' = interval
    BY IntervalFixed
  <2>2. CASE UNCHANGED <<writer, ordinary_events, file, buffer>>
    BY <2>1, <2>2, CadenceKept DEF Log, CadenceInv
  <2>3. ASSUME NEW f \in Flows, Publish(f) \/ PublishReturns(f) \/ End(f)
        PROVE  UNCHANGED <<writer, ordinary_events, file, buffer>>
    BY <2>3 DEF Publish, PublishReturns, Accept, RejectOpen, FailClosed, End, drainVars, fileVars
  <2>4. DropServices \/ UNCHANGED vars => UNCHANGED <<writer, ordinary_events, file, buffer>>
    BY DEF DropServices, vars, drainVars, fileVars
  <2>5. CASE Receive \/ ReceiveNone \/ DropReceiver
    <3>1. /\ Log' = Log /\ UNCHANGED ordinary_events
          /\ \/ writer = "recv" /\ writer' = "write"
             \/ writer' \in {"drop_sink", "done"}
      BY <2>5 DEF Receive, ReceiveNone, DropReceiver, Log, fileVars
    <3> QED
      BY <2>1, <3>1, CadenceKept DEF LoopStates, CadenceInv
  <2> QED
    BY <2>1, <2>2, <2>3, <2>4, <2>5, WriteCadence, FlushCadence, DropSinkCadence
    DEF Next, WriterStep, Exited
<1>3. CadenceInv => CheckpointCadence
  BY DEF CadenceInv, CheckpointCadence, Log
<1> QED
  BY <1>1, <1>2, <1>3, Invariance, PTL DEF Spec

-----------------------------------------------------------------------------
(* Losses *)

\* Under either policy every publication that a flow carried on past is in the
\* channel's history or in rejected_events: AuditPublisher::publish loses none
\* silently, however often the channel is full or closed.
THEOREM LossesAreCounted == Spec => []EveryLossCounted
<1> DEFINE Counted == IsFiniteSet(CarriedOnPast) /\ EveryLossCounted
<1>1. Init => Counted
  <2> SUFFICES ASSUME Init PROVE Counted
    OBVIOUS
  <2>1. CarriedOnPast = {}
    BY EventsAssumption DEF Init, CarriedOnPast
  <2>2. IsFiniteSet({}) /\ Cardinality({}) = 0
    BY FS_EmptySet
  <2>3. Len(accepted) + rejected = 0
    BY DEF Init
  <2> QED
    BY <2>1, <2>2, <2>3 DEF EveryLossCounted
<1>2. IInv /\ Counted /\ [Next]_vars => Counted'
  <2> SUFFICES ASSUME IInv, Counted, [Next]_vars PROVE Counted'
    OBVIOUS
  <2>1. CASE UNCHANGED <<performed, accepted, rejected>>
    BY <2>1 DEF CarriedOnPast, EveryLossCounted
  <2>2. ASSUME NEW f \in Flows, Publish(f) \/ FailClosed(f) \/ End(f)
        PROVE  UNCHANGED <<performed, accepted, rejected>>
    BY <2>2 DEF Publish, FailClosed, End, channelVars
  <2>3. DropServices \/ WriterStep \/ UNCHANGED vars => UNCHANGED <<performed, accepted, rejected>>
    BY DEF DropServices, WriterStep, Receive, ReceiveNone, WriteEvent, Flush, Flushed,
           FlushFails, WriteCheckpoint, FlushCheckpoint, DropSink, DropReceiver,
           vars, flowVars, channelVars
  <2>4. ASSUME NEW f \in Flows, Accept(f) \/ RejectOpen(f)
        PROVE  Counted'
    <3> DEFINE p == <<f, performed[f] + 1>>
    <3> DEFINE taken == performed[f] + 1
    <3>a. /\ flow[f] = "publishing"
          /\ performed' = [performed EXCEPT ![f] = @ + 1]
      BY <2>4 DEF Accept, RejectOpen, Proceed
    <3>b. /\ performed \in [Flows -> 0..MaxEvents] /\ attempts \in [Flows -> 0..MaxEvents]
          /\ flow[f] = "publishing" => taken = attempts[f]
      BY DEF IInv, TypeOK, FlowInv
    <3>1. /\ performed[f] + 1 \in 1..MaxEvents /\ performed \in [Flows -> Nat]
          /\ performed' = [performed EXCEPT ![f] = @ + 1]
      BY <3>a, <3>b, EventsAssumption
    <3>2. CarriedOnPast' = CarriedOnPast \cup {p}
      BY <3>1, EventsAssumption DEF CarriedOnPast
    <3>3. p \notin CarriedOnPast
      BY <3>1 DEF CarriedOnPast
    <3> HIDE DEF p
    <3>4. /\ IsFiniteSet(CarriedOnPast \cup {p})
          /\ Cardinality(CarriedOnPast \cup {p}) = Cardinality(CarriedOnPast) + 1
      BY <3>3, FS_AddElement
    <3>5. Len(accepted') + rejected' = Len(accepted) + rejected + 1
      <4>1. rejected \in Nat /\ accepted \in Seq(Envelopes) /\ Len(accepted) \in Nat
        BY LenProperties DEF IInv, TypeOK
      <4>2. CASE Accept(f)
        <5> DEFINE e == [flow |-> f, n |-> attempts[f]]
        <5>1. e \in Envelopes
          BY EventsAssumption DEF IInv, TypeOK, Envelopes
        <5>2. accepted' = Append(accepted, e) /\ rejected' = rejected
          BY <4>2 DEF Accept
        <5> HIDE DEF e
        <5>3. Len(accepted') = Len(accepted) + 1
          BY <4>1, <5>1, <5>2, AppendProperties
        <5> QED
          BY <4>1, <5>2, <5>3
      <4>3. CASE RejectOpen(f)
        BY <4>1, <4>3 DEF RejectOpen
      <4> QED
        BY <2>4, <4>2, <4>3
    <3>6. Cardinality(CarriedOnPast') = Len(accepted') + rejected'
      BY <3>2, <3>4, <3>5 DEF EveryLossCounted
    <3>7. IsFiniteSet(CarriedOnPast')
      BY <3>2, <3>4
    <3> QED
      BY <3>6, <3>7 DEF EveryLossCounted
  <2> HIDE DEF Counted
  <2> QED
    BY <2>1, <2>2, <2>3, <2>4 DEF Next, PublishReturns, Exited
<1> QED
  BY <1>1, <1>2, Invariance, PTL DEF Spec
=============================================================================
