------------------------ MODULE AuditPipelineProofs ------------------------
(***************************************************************************)
(* Proofs about AuditPipeline for every set of flows, capacity, policy,    *)
(* checkpoint interval and sequence space: types, the integrity of the     *)
(* segment at every instant, the fail-closed gate and the append-only      *)
(* file.  AuditLogProofs goes on to the order of the records.              *)
(***************************************************************************)
EXTENDS AuditPipeline, SequenceTheorems, TLAPS

-----------------------------------------------------------------------------
(* The inductive invariant *)

LoopStates == {"recv", "write", "flush", "sign", "flush_checkpoint"}

\* What has been written, flushed or not.
Log == file \o buffer

LastHash(log) == IF log = <<>> THEN NoHash ELSE log[Len(log)].record_hash

\* A flow has carried on after each record it tried, except the one at hand.
FlowInv ==
    \A f \in Flows :
        /\ performed[f] <= attempts[f]
        /\ flow[f] = "publishing" => performed[f] + 1 = attempts[f]
        /\ flow[f] = "running" => performed[f] = attempts[f]

\* The lines written verify, and the sink is ready to extend them.
LogInv ==
    /\ ReplayAccepts(Log)
    /\ writer \in LoopStates =>
          /\ previous_hash = LastHash(Log)
          /\ next_sequence # 0 => next_sequence = Len(Log) + 1
    /\ writer \in {"recv", "write", "sign"} => buffer = <<>>
    /\ writer = "write" => envelope \in Envelopes
    /\ writer \in {"flush", "sign"} => Log # <<>> /\ record = Log[Len(Log)]

IInv == TypeOK /\ FlowInv /\ LogInv

-----------------------------------------------------------------------------
(* Replay on extended segments *)

\* A line's check reads that line and the one before it, nothing later.
LEMMA ReplayPrefix ==
    ASSUME NEW s \in Seq(Records), NEW t \in Seq(Records), ReplayAccepts(s \o t)
    PROVE  ReplayAccepts(s)
<1>1. /\ Len(s) \in Nat /\ Len(t) \in Nat
      /\ Len(s \o t) = Len(s) + Len(t)
      /\ \A i \in 1..Len(s) : (s \o t)[i] = s[i]
  BY ConcatProperties, LenProperties
<1>2. SUFFICES ASSUME NEW i \in 1..Len(s)
               PROVE  LineVerifies(s, i)
  BY DEF ReplayAccepts
<1>3. LineVerifies(s \o t, i)
  BY <1>1 DEF ReplayAccepts
<1>4. (s \o t)[i] = s[i] /\ (i # 1 => (s \o t)[i - 1] = s[i - 1])
  BY <1>1
<1> QED
  BY <1>3, <1>4 DEF LineVerifies

\* A line that continues the chain of an accepted segment is accepted after it.
LEMMA ReplayAppend ==
    ASSUME NEW s \in Seq(Records), ReplayAccepts(s),
           NEW r \in Records,
           r.sequence = Len(s) + 1,
           r.previous_hash = LastHash(s),
           r.record_hash = Digest(r.previous_hash, r.sequence, r.payload),
           IsCheckpoint(r) => /\ LastHash(s) # NoHash
                              /\ r.payload.n = Len(s)
                              /\ r.covered_hash = LastHash(s)
    PROVE  ReplayAccepts(Append(s, r))
<1> DEFINE t == Append(s, r)
<1>1. /\ Len(s) \in Nat
      /\ Len(t) = Len(s) + 1
      /\ t[Len(s) + 1] = r
      /\ \A i \in 1..Len(s) : t[i] = s[i]
  BY AppendProperties, LenProperties
<1>2. SUFFICES ASSUME NEW i \in 1..Len(t)
               PROVE  LineVerifies(t, i)
  BY DEF ReplayAccepts
<1>3. CASE i \in 1..Len(s)
  <2>1. LineVerifies(s, i)
    BY <1>3 DEF ReplayAccepts
  <2>2. t[i] = s[i] /\ (i # 1 => t[i - 1] = s[i - 1])
    BY <1>1, <1>3
  <2> QED
    BY <2>1, <2>2 DEF LineVerifies
<1>4. CASE i = Len(s) + 1
  <2>1. t[i] = r
    BY <1>1, <1>4
  <2>2. LastHash(s) = IF i = 1 THEN NoHash ELSE t[i - 1].record_hash
    <3>1. (s = <<>>) <=> (i = 1)
      BY <1>1, <1>4, EmptySeq
    <3>2. i # 1 => t[i - 1] = s[Len(s)]
      BY <1>1, <1>4
    <3> QED
      BY <3>1, <3>2 DEF LastHash
  <2>3. i - 1 = Len(s)
    BY <1>1, <1>4
  <2> HIDE DEF t
  <2> QED
    BY <2>1, <2>2, <2>3, <1>4 DEF LineVerifies
<1> QED
  BY <1>1, <1>2, <1>3, <1>4

\* The hash of a verified line is never NoHash, and its sequence is its place.
LEMMA LastLine ==
    ASSUME NEW s \in Seq(Records), ReplayAccepts(s), s # <<>>
    PROVE  /\ LastHash(s) = s[Len(s)].record_hash
           /\ LastHash(s) # NoHash
           /\ s[Len(s)].sequence = Len(s)
<1>1. Len(s) \in Nat \ {0}
  BY EmptySeq
<1>2. s[Len(s)] \in Records
  BY <1>1, ElementOfSeq
<1>3. LineVerifies(s, Len(s))
  BY <1>1 DEF ReplayAccepts
<1> DEFINE r == s[Len(s)]
<1>4. r.record_hash = Append(r.previous_hash, [sequence |-> r.sequence, payload |-> r.payload])
  BY <1>3 DEF LineVerifies, Digest
<1>5. /\ r.previous_hash \in Hashes
      /\ [sequence |-> r.sequence, payload |-> r.payload] \in [sequence : Nat, payload : Payloads]
  BY <1>2 DEF Records
<1> HIDE DEF r
<1>6. r.record_hash # <<>>
  <2> DEFINE h == r.previous_hash
             e == [sequence |-> r.sequence, payload |-> r.payload]
  <2>1. h \in Seq([sequence : Nat, payload : Payloads]) /\ e \in [sequence : Nat, payload : Payloads]
    BY <1>5 DEF Hashes
  <2>2. r.record_hash = Append(h, e)
    BY <1>4
  <2> HIDE DEF h, e
  <2>3. Len(r.record_hash) = Len(h) + 1 /\ Len(h) \in Nat
    BY <2>1, <2>2
  <2> QED
    BY <2>3
<1> QED
  BY <1>3, <1>6 DEF LastHash, NoHash, LineVerifies, r

-----------------------------------------------------------------------------
(* Initially *)

\* The empty segment verifies.
LEMMA EmptyLog == <<>> \in Seq(Records) /\ <<>> \o <<>> = <<>> /\ ReplayAccepts(<<>>)
<1>1. <<>> \in Seq(Records) /\ Len(<<>>) = 0
  BY EmptySeq
<1>2. <<>> \o <<>> = <<>>
  BY <1>1, ConcatEmptySeq
<1> QED
  BY <1>1, <1>2 DEF ReplayAccepts

\* The values of the writer before its first record have their types.
LEMMA NoRecordType == NoRecord \in Records /\ NoEnvelope \in Payloads /\ NoHash \in Hashes
<1>1. NoHash \in Hashes
  BY EmptySeq DEF NoHash, Hashes
<1>2. NoEnvelope \in Payloads
  BY DEF NoEnvelope, Payloads
<1> QED
  BY <1>1, <1>2 DEF NoRecord, Records

\* The channel, the sink and the flows start in the invariant.
LEMMA InitIInv == Init => IInv
<1> SUFFICES ASSUME Init PROVE IInv
  OBVIOUS
<1>1. TypeOK
  <2>1. queue \in Seq(Envelopes) /\ accepted \in Seq(Envelopes) /\ Len(queue) = 0
    BY EmptySeq DEF Init
  <2>2. buffer \in Seq(Records) /\ file \in Seq(Records) /\ Len(buffer) = 0
    BY EmptySeq DEF Init
  <2>3. /\ flow \in [Flows -> FlowStates]
        /\ attempts \in [Flows -> 0..MaxEvents]
        /\ performed \in [Flows -> 0..MaxEvents]
    BY EventsAssumption DEF Init, FlowStates
  <2>4. /\ services \in BOOLEAN /\ receiver \in BOOLEAN
        /\ poisoned \in BOOLEAN /\ torn \in BOOLEAN
    BY DEF Init
  <2>5. /\ envelope \in Payloads /\ record \in Records /\ previous_hash \in Hashes
    BY NoRecordType DEF Init
  <2>6. /\ rejected \in Nat /\ ordinary_events \in Nat /\ next_sequence \in 0..MaxSequence
        /\ writer \in WriterStates /\ result \in {"none", "ok", "err"}
    BY SequenceAssumption DEF Init, WriterStates
  <2>7. Len(queue) <= Capacity /\ Len(buffer) <= 1
    BY <2>1, <2>2, CapacityAssumption
  <2>8. failure_policy \in FailurePolicies /\ interval \in Intervals
    BY DEF Init
  <2> QED
    BY <2>1, <2>2, <2>3, <2>4, <2>5, <2>6, <2>7, <2>8 DEF TypeOK
<1>2. FlowInv
  BY DEF Init, FlowInv
<1>3. LogInv
  <2>1. Log = <<>>
    BY EmptyLog DEF Init, Log
  <2>2. Len(Log) = 0
    BY <2>1, EmptySeq
  <2> QED
    BY <2>1, <2>2, EmptyLog DEF Init, LogInv, LastHash
<1> QED
  BY <1>1, <1>2, <1>3 DEF IInv

-----------------------------------------------------------------------------
(* The flows' steps leave the log alone *)

logVars == <<writer, envelope, record, next_sequence, previous_hash, buffer, file>>

\* A step that leaves the sink and its file alone keeps the log verified.
LEMMA LogUntouched == LogInv /\ UNCHANGED logVars => LogInv'
BY DEF LogInv, logVars, Log

\* A flow calls publish.
LEMMA PublishIInv ==
    ASSUME IInv, NEW f \in Flows, Publish(f)
    PROVE  IInv'
<1> USE DEF IInv
<1>1. TypeOK'
  <2>1. flow' \in [Flows -> FlowStates] /\ attempts' \in [Flows -> 0..MaxEvents]
    BY EventsAssumption DEF Publish, TypeOK, FlowStates
  <2> QED
    BY <2>1 DEF Publish, TypeOK, configVars, channelVars, drainVars, sinkVars, fileVars
<1>2. FlowInv'
  BY DEF Publish, TypeOK, FlowInv
<1>3. LogInv'
  BY LogUntouched DEF Publish, logVars, channelVars, drainVars, sinkVars, fileVars
<1> QED
  BY <1>1, <1>2, <1>3

\* What Accept and RejectOpen share: the flow carries on after its publication.
LEMMA ProceedFlow ==
    ASSUME IInv, NEW f \in Flows, flow[f] = "publishing", Proceed(f)
    PROVE  /\ flow' \in [Flows -> FlowStates]
           /\ attempts' \in [Flows -> 0..MaxEvents]
           /\ performed' \in [Flows -> 0..MaxEvents]
           /\ services' \in BOOLEAN
           /\ FlowInv'
<1>1. performed[f] + 1 = attempts[f] /\ attempts[f] \in 0..MaxEvents /\ performed[f] \in Nat
  BY EventsAssumption DEF IInv, TypeOK, FlowInv
<1>2. flow' \in [Flows -> FlowStates] /\ performed' \in [Flows -> 0..MaxEvents]
  BY <1>1, EventsAssumption DEF IInv, TypeOK, FlowStates, Proceed
<1>3. FlowInv'
  BY <1>1, <1>2, EventsAssumption DEF IInv, TypeOK, FlowInv, Proceed
<1> QED
  BY <1>2, <1>3 DEF IInv, TypeOK, Proceed

\* The channel takes an envelope.
LEMMA AcceptIInv ==
    ASSUME IInv, NEW f \in Flows, Accept(f)
    PROVE  IInv'
<1> DEFINE e == [flow |-> f, n |-> attempts[f]]
<1>1. e \in Envelopes
  BY EventsAssumption DEF IInv, TypeOK, Envelopes
<1>2. /\ queue' \in Seq(Envelopes) /\ Len(queue') <= Capacity
      /\ accepted' \in Seq(Envelopes)
  BY <1>1, CapacityAssumption, AppendProperties DEF IInv, TypeOK, Accept
<1>3. TypeOK'
  BY <1>2, ProceedFlow DEF IInv, TypeOK, Accept, configVars, drainVars, sinkVars, fileVars
<1>4. LogInv'
  BY LogUntouched DEF IInv, Accept, logVars, drainVars, sinkVars, fileVars
<1> QED
  BY <1>3, <1>4, ProceedFlow DEF IInv, Accept

\* fail-open drops an envelope.
LEMMA RejectOpenIInv ==
    ASSUME IInv, NEW f \in Flows, RejectOpen(f)
    PROVE  IInv'
<1>1. TypeOK'
  BY ProceedFlow DEF IInv, TypeOK, RejectOpen, configVars, drainVars, sinkVars, fileVars
<1>2. LogInv'
  BY LogUntouched DEF IInv, RejectOpen, logVars, drainVars, sinkVars, fileVars
<1> QED
  BY <1>1, <1>2, ProceedFlow DEF IInv, RejectOpen

\* A flow that ends, with or without an error.
LEMMA FlowStopsIInv ==
    ASSUME IInv, NEW f \in Flows, FailClosed(f) \/ End(f)
    PROVE  IInv'
<1>1. TypeOK'
  <2>1. flow' \in [Flows -> FlowStates]
    BY DEF IInv, TypeOK, FailClosed, End, FlowStates
  <2> QED
    BY <2>1 DEF IInv, TypeOK, FailClosed, End, configVars, channelVars, drainVars,
                sinkVars, fileVars
<1>2. FlowInv'
  BY DEF IInv, TypeOK, FlowInv, FailClosed, End
<1>3. LogInv'
  BY LogUntouched
  DEF IInv, FailClosed, End, logVars, channelVars, drainVars, sinkVars, fileVars
<1> QED
  BY <1>1, <1>2, <1>3 DEF IInv

\* run_proxy drops its services.
LEMMA DropServicesIInv ==
    ASSUME IInv, DropServices
    PROVE  IInv'
<1>1. TypeOK' /\ FlowInv'
  BY DEF IInv, TypeOK, FlowInv, DropServices, configVars, channelVars, drainVars,
         sinkVars, fileVars
<1>2. LogInv'
  BY LogUntouched DEF IInv, DropServices, logVars, channelVars, drainVars, sinkVars, fileVars
<1> QED
  BY <1>1, <1>2 DEF IInv

-----------------------------------------------------------------------------
(* The writer's steps *)

\* blocking_recv returns an envelope.
LEMMA ReceiveIInv ==
    ASSUME IInv, Receive
    PROVE  IInv'
<1>1. /\ envelope' \in Envelopes
      /\ queue' \in Seq(Envelopes) /\ Len(queue') <= Capacity
  BY HeadTailProperties, LenProperties, CapacityAssumption DEF IInv, TypeOK, Receive
<1>2. envelope' \in Payloads
  BY <1>1 DEF Envelopes, Payloads
<1>3. TypeOK'
  BY <1>1, <1>2 DEF IInv, TypeOK, Receive, WriterStates, configVars, flowVars,
                    sinkVars, fileVars
<1>4. FlowInv'
  BY DEF IInv, FlowInv, Receive, flowVars
<1>5. LogInv'
  BY <1>1 DEF IInv, LogInv, LoopStates, Log, Receive, sinkVars, fileVars
<1> QED
  BY <1>3, <1>4, <1>5 DEF IInv

\* blocking_recv returns None.
LEMMA ReceiveNoneIInv ==
    ASSUME IInv, ReceiveNone
    PROVE  IInv'
<1>1. TypeOK'
  BY DEF IInv, TypeOK, ReceiveNone, WriterStates, configVars, flowVars, channelVars,
         sinkVars, fileVars
<1>2. FlowInv'
  BY DEF IInv, FlowInv, ReceiveNone, flowVars
<1>3. LogInv'
  BY DEF IInv, LogInv, LoopStates, Log, ReceiveNone, sinkVars, fileVars
<1> QED
  BY <1>1, <1>2, <1>3 DEF IInv

\* The record write_event builds has its type and carries its own digest.
LEMMA NewRecordType ==
    ASSUME IInv, NEW payload \in Payloads, NEW covered \in Hashes
    PROVE  /\ NewRecord(payload, covered) \in Records
           /\ NewRecord(payload, covered).record_hash
                 = Digest(previous_hash, next_sequence, payload)
<1>1. next_sequence \in Nat /\ previous_hash \in Hashes
  BY SequenceAssumption DEF IInv, TypeOK
<1> DEFINE link == [sequence |-> next_sequence, payload |-> payload]
<1>2. link \in [sequence : Nat, payload : Payloads]
  BY <1>1
<1> HIDE DEF link
<1>3. Append(previous_hash, link) \in Hashes
  BY <1>1, <1>2, AppendProperties DEF Hashes
<1>4. Digest(previous_hash, next_sequence, payload) \in Hashes
  BY <1>3 DEF Digest, link
<1> QED
  BY <1>1, <1>4 DEF NewRecord, Records

\* A successful write extends the log by its record, wherever the bytes went.
LEMMA WrittenExtends ==
    ASSUME IInv, buffer = <<>>, NEW r \in Records, Written(r)
    PROVE  /\ Log = file
           /\ file' \in Seq(Records) /\ buffer' \in Seq(Records) /\ Len(buffer') <= 1
           /\ Log' = Append(file, r)
<1>1. file \in Seq(Records) /\ Log = file
  BY ConcatEmptySeq DEF IInv, TypeOK, Log
<1>2. CASE buffer' = Append(buffer, r) /\ UNCHANGED file
  <2>1. buffer' = <<r>>
    BY <1>2
  <2>2. buffer' \in Seq(Records) /\ Len(buffer') = 1
    BY <2>1
  <2>3. file \o <<r>> = Append(file, r)
    BY <1>1, AppendIsConcat
  <2> QED
    BY <1>1, <1>2, <2>1, <2>2, <2>3 DEF Log
<1>3. CASE file' = Append(file, r) /\ UNCHANGED buffer
  <2>1. Append(file, r) \in Seq(Records)
    BY <1>1, AppendProperties
  <2>2. Append(file, r) \o <<>> = Append(file, r)
    BY <2>1, ConcatEmptySeq
  <2>3. buffer' \in Seq(Records) /\ Len(buffer') = 0
    BY <1>3, EmptySeq
  <2> QED
    BY <1>1, <1>3, <2>1, <2>2, <2>3 DEF Log
<1> QED
  BY <1>1, <1>2, <1>3 DEF Written

\* A successful write of a record that continues the chain keeps the log
\* verifiable and the sink in step with it.
LEMMA WrittenLog ==
    ASSUME IInv, writer \in {"write", "sign"},
           NEW payload \in Payloads, NEW covered \in Hashes,
           payload.flow = "checkpoint" => /\ Log # <<>>
                                          /\ payload.n = Len(Log)
                                          /\ covered = LastHash(Log),
           Written(NewRecord(payload, covered))
    PROVE  /\ file' \in Seq(Records) /\ buffer' \in Seq(Records) /\ Len(buffer') <= 1
           /\ ReplayAccepts(Log')
           /\ Log' # <<>>
           /\ record' \in Records /\ record' = Log'[Len(Log')]
           /\ previous_hash' \in Hashes /\ previous_hash' = LastHash(Log')
           /\ next_sequence' \in 0..MaxSequence
           /\ next_sequence' # 0 => next_sequence' = Len(Log') + 1
<1> DEFINE r == NewRecord(payload, covered)
<1>1. r \in Records /\ r.record_hash = Digest(previous_hash, next_sequence, payload)
  BY NewRecordType
<1>2. /\ r.sequence = next_sequence /\ r.payload = payload
      /\ r.covered_hash = covered /\ r.previous_hash = previous_hash
  BY DEF NewRecord
<1>3. Written(r) /\ next_sequence # 0
  BY DEF Written
<1> HIDE DEF r
<1>4. /\ buffer = <<>> /\ ReplayAccepts(Log)
      /\ previous_hash = LastHash(Log) /\ next_sequence = Len(Log) + 1
  BY <1>3 DEF IInv, LogInv, LoopStates
<1>5. /\ Log = file /\ Log' = Append(file, r) /\ file \in Seq(Records)
      /\ file' \in Seq(Records) /\ buffer' \in Seq(Records) /\ Len(buffer') <= 1
  BY <1>1, <1>3, <1>4, WrittenExtends DEF IInv, TypeOK
<1>6. ReplayAccepts(Log')
  <2>1. IsCheckpoint(r) => /\ LastHash(file) # NoHash
                           /\ r.payload.n = Len(file)
                           /\ r.covered_hash = LastHash(file)
    BY <1>2, <1>4, <1>5, LastLine DEF IsCheckpoint
  <2> QED
    BY <2>1, <1>1, <1>2, <1>4, <1>5, ReplayAppend
<1>7. /\ Len(file) \in Nat /\ Log' \in Seq(Records)
      /\ Len(Log') = Len(file) + 1 /\ Log'[Len(Log')] = r
  BY <1>1, <1>5, AppendProperties, LenProperties
<1>8. Log' # <<>>
  BY <1>7, EmptySeq
<1>9. record' = r /\ previous_hash' = r.record_hash /\ next_sequence' = CheckedNext(next_sequence)
  BY <1>3 DEF Written
<1>10. next_sequence \in 0..MaxSequence
  BY DEF IInv, TypeOK
<1>11. /\ next_sequence' \in 0..MaxSequence
       /\ next_sequence' # 0 => next_sequence' = next_sequence + 1
  BY <1>9, <1>10, SequenceAssumption DEF CheckedNext
<1>12. previous_hash' = LastHash(Log') /\ previous_hash' \in Hashes
  BY <1>1, <1>7, <1>8, <1>9 DEF LastHash, Records
<1> QED
  BY <1>1, <1>4, <1>5, <1>6, <1>7, <1>8, <1>9, <1>11, <1>12

\* Leaving the loop with an error keeps what is written.
LEMMA FailLog ==
    ASSUME IInv, Fail, UNCHANGED <<buffer, file>>
    PROVE  LogInv' /\ writer' \in WriterStates /\ result' \in {"none", "ok", "err"}
BY DEF IInv, LogInv, Log, LoopStates, Fail, WriterStates

\* write_event of an envelope, successful or not.
LEMMA WriteEventIInv ==
    ASSUME IInv, WriteEvent
    PROVE  IInv'
<1>1. writer = "write" /\ UNCHANGED <<configVars, flowVars, channelVars, envelope>>
  BY DEF WriteEvent
<1>2. FlowInv'
  BY <1>1 DEF IInv, FlowInv, flowVars
<1>3. CASE /\ Written(NewRecord(envelope, NoHash))
           /\ ordinary_events' = ordinary_events + 1
           /\ writer' = "flush"
           /\ UNCHANGED result
  <2>1. envelope \in Payloads /\ envelope.flow # "checkpoint"
    BY <1>1, FlowsAssumption DEF IInv, LogInv, Envelopes, Payloads
  <2>2. /\ file' \in Seq(Records) /\ buffer' \in Seq(Records) /\ Len(buffer') <= 1
        /\ ReplayAccepts(Log')
        /\ Log' # <<>>
        /\ record' \in Records /\ record' = Log'[Len(Log')]
        /\ previous_hash' \in Hashes /\ previous_hash' = LastHash(Log')
        /\ next_sequence' \in 0..MaxSequence
        /\ next_sequence' # 0 => next_sequence' = Len(Log') + 1
    BY <1>1, <1>3, <2>1, NoRecordType, WrittenLog
  <2>3. UNCHANGED <<poisoned, torn>>
    BY <1>3 DEF Written
  <2>4. TypeOK'
    BY <1>1, <1>3, <2>2, <2>3 DEF IInv, TypeOK, WriterStates, configVars, flowVars,
                                  channelVars
  <2>5. LogInv'
    BY <1>3, <2>2 DEF LogInv
  <2> QED
    BY <1>2, <2>4, <2>5 DEF IInv
<1>4. CASE WriteFails /\ Fail /\ UNCHANGED <<record, ordinary_events>>
  <2>1. UNCHANGED <<next_sequence, previous_hash, buffer, file>>
    BY <1>4 DEF WriteFails
  <2>2. poisoned' \in BOOLEAN /\ torn' \in BOOLEAN
    BY <1>4 DEF WriteFails, IInv, TypeOK
  <2>3. LogInv' /\ writer' \in WriterStates /\ result' \in {"none", "ok", "err"}
    BY <1>4, <2>1, FailLog
  <2>4. TypeOK'
    BY <1>1, <1>4, <2>1, <2>2, <2>3 DEF IInv, TypeOK, configVars, flowVars, channelVars
  <2> QED
    BY <1>2, <2>3, <2>4 DEF IInv
<1> QED
  BY <1>3, <1>4 DEF WriteEvent

\* write_event of a signed checkpoint: it covers the last line of the log.
LEMMA WriteCheckpointIInv ==
    ASSUME IInv, WriteCheckpoint
    PROVE  IInv'
<1> DEFINE payload == [flow |-> "checkpoint", n |-> record.sequence]
<1>1. writer = "sign" /\ UNCHANGED <<configVars, flowVars, channelVars, envelope,
                                     ordinary_events>>
  BY DEF WriteCheckpoint
<1>2. FlowInv'
  BY <1>1 DEF IInv, FlowInv, flowVars
<1>3. CASE /\ Written(NewRecord(payload, record.record_hash))
           /\ writer' = "flush_checkpoint"
           /\ UNCHANGED result
  <2>1. /\ payload \in Payloads /\ payload.n = record.sequence
        /\ record.record_hash \in Hashes
    BY DEF IInv, TypeOK, Records, Payloads
  <2>2. Log # <<>> /\ record = Log[Len(Log)] /\ ReplayAccepts(Log) /\ Log \in Seq(Records)
    BY <1>1, ConcatProperties DEF IInv, TypeOK, LogInv, Log
  <2>3. record.sequence = Len(Log) /\ record.record_hash = LastHash(Log)
    BY <2>2, LastLine
  <2> HIDE DEF payload
  <2>4. /\ file' \in Seq(Records) /\ buffer' \in Seq(Records) /\ Len(buffer') <= 1
        /\ ReplayAccepts(Log')
        /\ record' \in Records
        /\ previous_hash' \in Hashes /\ previous_hash' = LastHash(Log')
        /\ next_sequence' \in 0..MaxSequence
        /\ next_sequence' # 0 => next_sequence' = Len(Log') + 1
    BY <1>1, <1>3, <2>1, <2>2, <2>3, WrittenLog
  <2>5. UNCHANGED <<poisoned, torn>>
    BY <1>3 DEF Written
  <2>6. TypeOK'
    BY <1>1, <1>3, <2>4, <2>5 DEF IInv, TypeOK, WriterStates, configVars, flowVars,
                                  channelVars
  <2>7. LogInv'
    BY <1>3, <2>4 DEF LogInv
  <2> QED
    BY <1>2, <2>6, <2>7 DEF IInv
<1>4. CASE WriteFails /\ Fail /\ UNCHANGED record
  <2>1. UNCHANGED <<next_sequence, previous_hash, buffer, file>>
    BY <1>4 DEF WriteFails
  <2>2. poisoned' \in BOOLEAN /\ torn' \in BOOLEAN
    BY <1>4 DEF WriteFails, IInv, TypeOK
  <2>3. LogInv' /\ writer' \in WriterStates /\ result' \in {"none", "ok", "err"}
    BY <1>4, <2>1, FailLog
  <2>4. TypeOK'
    BY <1>1, <1>4, <2>1, <2>2, <2>3 DEF IInv, TypeOK, configVars, flowVars, channelVars
  <2> QED
    BY <1>2, <2>3, <2>4 DEF IInv
<1> QED
  BY <1>3, <1>4 DEF WriteCheckpoint

\* A flush moves the buffer to the file and leaves the log as it was.
LEMMA FlushedLog ==
    ASSUME IInv, Flushed
    PROVE  /\ file' \in Seq(Records) /\ buffer' \in Seq(Records) /\ Len(buffer') <= 1
           /\ buffer' = <<>> /\ Log' = Log
<1>1. file \o buffer \in Seq(Records)
  BY ConcatProperties DEF IInv, TypeOK
<1>2. (file \o buffer) \o <<>> = file \o buffer
  BY <1>1, ConcatEmptySeq
<1>3. buffer' = <<>> /\ file' = file \o buffer
  BY DEF Flushed
<1>4. buffer' \in Seq(Records) /\ Len(buffer') = 0
  BY <1>3, EmptySeq
<1> QED
  BY <1>1, <1>2, <1>3, <1>4 DEF Log

\* sink.flush after an event or after a checkpoint.
LEMMA FlushIInv ==
    ASSUME IInv, Flush \/ FlushCheckpoint
    PROVE  IInv'
<1>1. CASE /\ Flushed
           /\ \/ writer = "flush" /\ writer' \in {"sign", "recv"}
              \/ writer = "flush_checkpoint" /\ writer' = "recv"
           /\ UNCHANGED result
  <2>1. /\ file' \in Seq(Records) /\ buffer' \in Seq(Records) /\ Len(buffer') <= 1
        /\ buffer' = <<>> /\ Log' = Log
    BY <1>1, FlushedLog
  <2>2. UNCHANGED <<configVars, flowVars, channelVars, sinkVars, envelope, record,
                    ordinary_events>>
    BY <1>1 DEF Flushed
  <2>3. torn' \in BOOLEAN
    BY <1>1 DEF Flushed
  <2>4. TypeOK'
    BY <1>1, <2>1, <2>2, <2>3
    DEF IInv, TypeOK, WriterStates, configVars, flowVars, channelVars, sinkVars
  <2>5. LogInv'
    BY <1>1, <2>1, <2>2 DEF IInv, LogInv, LoopStates, sinkVars
  <2>6. FlowInv'
    BY <2>2 DEF IInv, FlowInv, flowVars
  <2> QED
    BY <2>4, <2>5, <2>6 DEF IInv
<1>2. CASE FlushFails /\ Fail
  <2>1. UNCHANGED <<configVars, buffer, file, flowVars, channelVars, sinkVars, envelope, record,
                    ordinary_events>>
    BY <1>2 DEF FlushFails
  <2>2. torn' \in BOOLEAN
    BY <1>2 DEF FlushFails, IInv, TypeOK
  <2>3. LogInv' /\ writer' \in WriterStates /\ result' \in {"none", "ok", "err"}
    BY <1>2, <2>1, FailLog
  <2>4. TypeOK'
    BY <2>1, <2>2, <2>3 DEF IInv, TypeOK, configVars, flowVars, channelVars, sinkVars
  <2>5. FlowInv'
    BY <2>1 DEF IInv, FlowInv, flowVars
  <2> QED
    BY <2>3, <2>4, <2>5 DEF IInv
<1> QED
  BY <1>1, <1>2 DEF Flush, FlushCheckpoint

\* BufWriter is dropped: the file keeps the log or a prefix of it.
LEMMA DropSinkIInv ==
    ASSUME IInv, DropSink
    PROVE  IInv'
<1>1. UNCHANGED <<configVars, flowVars, channelVars, sinkVars, result, envelope,
                  record, ordinary_events>>
  BY DEF DropSink
<1>2. writer' = "drop_receiver" /\ buffer' = <<>>
  BY DEF DropSink
<1>3. file \in Seq(Records) /\ buffer \in Seq(Records) /\ ReplayAccepts(file \o buffer)
  BY DEF IInv, TypeOK, LogInv, Log
<1>4. file' \in Seq(Records) /\ ReplayAccepts(file')
  <2>1. CASE file' = file \o buffer
    BY <1>3, <2>1, ConcatProperties
  <2>2. CASE file' = file
    BY <1>3, <2>2, ReplayPrefix
  <2> QED
    BY <2>1, <2>2 DEF DropSink
<1>5. buffer' \in Seq(Records) /\ Len(buffer') = 0 /\ Log' = file'
  BY <1>2, <1>4, EmptySeq, ConcatEmptySeq DEF Log
<1>6. torn' \in BOOLEAN
  BY DEF DropSink, IInv, TypeOK
<1>7. TypeOK'
  BY <1>1, <1>2, <1>4, <1>5, <1>6
  DEF IInv, TypeOK, WriterStates, configVars, flowVars, channelVars, sinkVars
<1>8. FlowInv'
  BY <1>1 DEF IInv, FlowInv, flowVars
<1>9. LogInv'
  BY <1>2, <1>4, <1>5 DEF LogInv, LoopStates
<1> QED
  BY <1>7, <1>8, <1>9 DEF IInv

\* The receiver is dropped.
LEMMA DropReceiverIInv ==
    ASSUME IInv, DropReceiver
    PROVE  IInv'
<1>1. queue' \in Seq(Envelopes) /\ Len(queue') <= Capacity
  <2>1. queue' \in Seq(Envelopes) /\ Len(queue') = 0
    BY EmptySeq DEF DropReceiver
  <2> QED
    BY <2>1, CapacityAssumption
<1>2. TypeOK'
  BY <1>1 DEF IInv, TypeOK, DropReceiver, WriterStates, configVars, flowVars,
              sinkVars, fileVars
<1>3. FlowInv'
  BY DEF IInv, FlowInv, DropReceiver, flowVars
<1>4. LogInv'
  BY DEF IInv, LogInv, LoopStates, Log, DropReceiver, sinkVars, fileVars
<1> QED
  BY <1>2, <1>3, <1>4 DEF IInv

\* Every step keeps the inductive invariant.
LEMMA NextIInv == IInv /\ [Next]_vars => IInv'
<1> SUFFICES ASSUME IInv, [Next]_vars PROVE IInv'
  OBVIOUS
<1>1. ASSUME NEW f \in Flows, Publish(f) \/ PublishReturns(f) \/ End(f)
      PROVE  IInv'
  BY <1>1, PublishIInv, AcceptIInv, RejectOpenIInv, FlowStopsIInv DEF PublishReturns
<1>2. CASE DropServices
  BY <1>2, DropServicesIInv
<1>3. CASE WriterStep
  BY <1>3, ReceiveIInv, ReceiveNoneIInv, WriteEventIInv, FlushIInv, WriteCheckpointIInv,
     DropSinkIInv, DropReceiverIInv DEF WriterStep
<1>4. CASE UNCHANGED vars
  <2>1. TypeOK' /\ FlowInv'
    BY <1>4 DEF IInv, TypeOK, FlowInv, vars, configVars, flowVars, channelVars,
                drainVars, sinkVars, fileVars
  <2>2. LogInv'
    BY <1>4, LogUntouched DEF IInv, logVars, vars, drainVars, sinkVars, fileVars
  <2> QED
    BY <2>1, <2>2 DEF IInv
<1> QED
  BY <1>1, <1>2, <1>3, <1>4 DEF Next, Exited

\* The inductive invariant holds throughout.
THEOREM Invariance == Spec => []IInv
BY InitIInv, NextIInv, PTL DEF Spec

-----------------------------------------------------------------------------
(* Theorems *)

\* Type correctness, the channel never above its capacity and the BufWriter never
\* above one line, for every configuration of the audit path.
THEOREM TypeCorrect == Spec => []TypeOK
<1>1. IInv => TypeOK
  BY DEF IInv
<1> QED
  BY <1>1, Invariance, PTL

\* At every instant, hence after a crash at any point, the complete lines of the
\* segment file that drain_jsonl_with_checkpoints writes pass replay_audit.
THEOREM SegmentAlwaysVerifies == Spec => []SegmentVerifies
<1>1. IInv => SegmentVerifies
  <2> SUFFICES ASSUME IInv PROVE SegmentVerifies
    OBVIOUS
  <2>1. file \in Seq(Records) /\ buffer \in Seq(Records) /\ ReplayAccepts(file \o buffer)
    BY DEF IInv, TypeOK, LogInv, Log
  <2> QED
    BY <2>1, ReplayPrefix DEF SegmentVerifies
<1> QED
  BY <1>1, Invariance, PTL

\* Appending keeps the elements and adds the new one.
LEMMA RangeAppend ==
    ASSUME NEW S, NEW s \in Seq(S), NEW e \in S
    PROVE  Range(s) \subseteq Range(Append(s, e)) /\ e \in Range(Append(s, e))
<1>1. /\ Append(s, e) \in Seq(S) /\ Len(s) \in Nat
      /\ Len(Append(s, e)) = Len(s) + 1
      /\ \A i \in 1..Len(s) : Append(s, e)[i] = s[i]
      /\ Append(s, e)[Len(s) + 1] = e
  BY AppendProperties, LenProperties
<1>2. DOMAIN s = 1..Len(s) /\ DOMAIN Append(s, e) = 1..(Len(s) + 1)
  BY <1>1, LenProperties
<1> QED
  BY <1>1, <1>2 DEF Range

\* A publisher keeps the failure policy it was built with.
LEMMA PolicyFixed == [Next]_vars => failure_policy' = failure_policy
<1> SUFFICES ASSUME [Next]_vars PROVE failure_policy' = failure_policy
  OBVIOUS
<1>1. ASSUME NEW f \in Flows, Publish(f) \/ PublishReturns(f) \/ End(f)
      PROVE  failure_policy' = failure_policy
  BY <1>1 DEF Publish, PublishReturns, Accept, RejectOpen, FailClosed, End, configVars
<1>2. DropServices \/ WriterStep => failure_policy' = failure_policy
  BY DEF DropServices, WriterStep, Receive, ReceiveNone, WriteEvent, Flush, Flushed,
         FlushFails, WriteCheckpoint, FlushCheckpoint, DropSink, DropReceiver, configVars
<1> QED
  BY <1>1, <1>2 DEF Next, Exited, vars, configVars

\* Under fail-closed no flow carries on past a record that the channel did not
\* take: AuditPublisher::publish waits for room and reports a closed channel.
THEOREM FailClosedHolds == Spec => []FailClosedGate
<1>1. Init => FailClosedGate
  BY DEF Init, FailClosedGate
<1>2. IInv /\ FailClosedGate /\ [Next]_vars => FailClosedGate'
  <2> SUFFICES ASSUME IInv, FailClosedGate, [Next]_vars, failure_policy = "fail-closed"
               PROVE  /\ rejected' = 0
                      /\ \A f \in Flows : \A k \in 1..performed'[f] :
                            [flow |-> f, n |-> k] \in Range(accepted')
    BY PolicyFixed DEF FailClosedGate
  <2>1. /\ rejected = 0
        /\ \A f \in Flows : \A k \in 1..performed[f] :
              [flow |-> f, n |-> k] \in Range(accepted)
    BY DEF FailClosedGate
  <2>2. CASE UNCHANGED <<performed, rejected, accepted>>
    BY <2>1, <2>2
  <2>3. ASSUME NEW g \in Flows, Accept(g)
        PROVE  /\ rejected' = 0
               /\ \A f \in Flows : \A k \in 1..performed'[f] :
                     [flow |-> f, n |-> k] \in Range(accepted')
    <3> DEFINE e == [flow |-> g, n |-> attempts[g]]
    <3>1. /\ performed[g] + 1 = attempts[g]
          /\ performed[g] \in Nat
          /\ performed' = [performed EXCEPT ![g] = @ + 1]
          /\ rejected' = rejected
      BY <2>3, EventsAssumption DEF IInv, TypeOK, FlowInv, Accept, Proceed
    <3>2. e \in Envelopes /\ accepted \in Seq(Envelopes) /\ accepted' = Append(accepted, e)
      BY <2>3, EventsAssumption DEF IInv, TypeOK, Envelopes, Accept
    <3>3. Range(accepted) \subseteq Range(accepted') /\ e \in Range(accepted')
      BY <3>2, RangeAppend
    <3>4. ASSUME NEW f \in Flows, NEW k \in 1..performed'[f]
          PROVE  k \in 1..performed[f] \/ (f = g /\ k = attempts[g])
      BY <3>1, EventsAssumption DEF IInv, TypeOK
    <3> QED
      BY <2>1, <3>1, <3>3, <3>4
  <2>4. ASSUME NEW f \in Flows, Publish(f) \/ FailClosed(f) \/ End(f)
        PROVE  UNCHANGED <<performed, rejected, accepted>>
    BY <2>4 DEF Publish, FailClosed, End, channelVars
  <2>5. ASSUME NEW f \in Flows PROVE ~RejectOpen(f)
    BY DEF RejectOpen
  <2>6. DropServices \/ WriterStep \/ UNCHANGED vars => UNCHANGED <<performed, rejected, accepted>>
    BY DEF DropServices, WriterStep, Receive, ReceiveNone, WriteEvent, Flush, Flushed,
           FlushFails, WriteCheckpoint, FlushCheckpoint, DropSink, DropReceiver,
           vars, flowVars, channelVars
  <2> QED
    BY <2>2, <2>3, <2>4, <2>5, <2>6 DEF Next, PublishReturns, Exited
<1> QED
  BY <1>1, <1>2, Invariance, PTL DEF Spec

-----------------------------------------------------------------------------
(* The segment is append-only *)

\* A torn line ends the drain loop.
TornInv == writer \in LoopStates => ~torn

\* The drain loop never runs on over a torn line.
LEMMA TornInvariance == Spec => []TornInv
<1>1. Init => TornInv
  BY DEF Init, TornInv
<1>2. TornInv /\ [Next]_vars => TornInv'
  <2> SUFFICES ASSUME TornInv, [Next]_vars PROVE TornInv'
    OBVIOUS
  <2>1. CASE writer' = writer /\ torn' = torn
    BY <2>1 DEF TornInv
  <2>2. ASSUME NEW f \in Flows, Publish(f) \/ PublishReturns(f) \/ End(f)
        PROVE  writer' = writer /\ torn' = torn
    BY <2>2 DEF Publish, PublishReturns, Accept, RejectOpen, FailClosed, End, drainVars, fileVars
  <2>3. DropServices \/ UNCHANGED vars => writer' = writer /\ torn' = torn
    BY DEF DropServices, vars, drainVars, fileVars
  <2>4. Receive \/ ReceiveNone \/ DropSink \/ DropReceiver => TornInv'
    BY DEF Receive, ReceiveNone, DropSink, DropReceiver, TornInv, LoopStates, fileVars
  <2>5. WriteEvent \/ WriteCheckpoint => TornInv'
    BY DEF WriteEvent, WriteCheckpoint, Written, Fail, TornInv, LoopStates
  <2>6. Flush \/ FlushCheckpoint => TornInv'
    BY DEF Flush, FlushCheckpoint, Flushed, Fail, TornInv, LoopStates
  <2> QED
    BY <2>1, <2>2, <2>3, <2>4, <2>5, <2>6 DEF Next, WriterStep, Exited
<1> QED
  BY <1>1, <1>2, PTL DEF Spec

\* A sequence is a prefix of its extensions.
LEMMA PrefixOfConcat ==
    ASSUME NEW S, NEW s \in Seq(S), NEW t \in Seq(S)
    PROVE  Len(s) <= Len(s \o t) /\ SubSeq(s \o t, 1, Len(s)) = s
<1>1. /\ Len(s) \in Nat /\ Len(t) \in Nat
      /\ Len(s \o t) = Len(s) + Len(t)
  BY ConcatProperties, LenProperties
<1>2. SubSeq(s \o t, 1, Len(s)) = s
  BY SubSeqOfConcat1, SubSeqFull, <1>1
<1> QED
  BY <1>1, <1>2

\* No step of the writer rewrites or removes a line, and after a torn line only
\* BufWriter's own retry, which completes that line, can add one.
THEOREM AppendOnlyHolds == Spec => AppendOnly
<1> DEFINE Step == /\ Len(file) <= Len(file') /\ SubSeq(file', 1, Len(file)) = file
                   /\ torn /\ file' # file => buffer # <<>> /\ file' = file \o buffer
<1>1. IInv /\ TornInv /\ [Next]_vars => [Step]_vars
  <2> SUFFICES ASSUME IInv, TornInv, Next PROVE Step
    OBVIOUS
  <2>1. file \in Seq(Records) /\ buffer \in Seq(Records)
    BY DEF IInv, TypeOK
  <2>2. CASE file' = file
    <3>1. Len(file) <= Len(file) /\ SubSeq(file, 1, Len(file)) = file
      BY <2>1, SubSeqFull, LenProperties
    <3> QED
      BY <2>2, <3>1
  <2>3. CASE file' = file \o buffer
    <3>1. buffer = <<>> => file' = file
      BY <2>1, <2>3, ConcatEmptySeq
    <3> QED
      BY <2>1, <2>3, <3>1, PrefixOfConcat
  <2>4. ASSUME ~torn, NEW r \in Records, file' = Append(file, r)
        PROVE  Step
    <3>1. <<r>> \in Seq(Records) /\ file' = file \o <<r>>
      BY <2>1, <2>4, AppendIsConcat
    <3> QED
      BY <2>1, <2>4, <3>1, PrefixOfConcat
  <2>5. ASSUME NEW payload \in Payloads, NEW covered \in Hashes,
               Written(NewRecord(payload, covered)), writer \in LoopStates
        PROVE  Step
    <3>1. NewRecord(payload, covered) \in Records
      BY <2>5, NewRecordType
    <3>2. file' = file \/ file' = Append(file, NewRecord(payload, covered))
      BY <2>5 DEF Written
    <3> QED
      BY <2>2, <2>4, <2>5, <3>1, <3>2 DEF TornInv
  <2>6. CASE WriteEvent
    <3>1. envelope \in Payloads /\ NoHash \in Hashes /\ writer \in LoopStates
      BY <2>6, NoRecordType DEF IInv, TypeOK, WriteEvent, LoopStates
    <3>2. Written(NewRecord(envelope, NoHash)) \/ file' = file
      BY <2>6 DEF WriteEvent, WriteFails
    <3> QED
      BY <2>2, <2>5, <3>1, <3>2
  <2>7. CASE WriteCheckpoint
    <3>1. /\ [flow |-> "checkpoint", n |-> record.sequence] \in Payloads
          /\ record.record_hash \in Hashes /\ writer \in LoopStates
      BY <2>7 DEF IInv, TypeOK, Records, Payloads, WriteCheckpoint, LoopStates
    <3>2. \/ Written(NewRecord([flow |-> "checkpoint", n |-> record.sequence],
                               record.record_hash))
          \/ file' = file
      BY <2>7 DEF WriteCheckpoint, WriteFails
    <3> QED
      BY <2>2, <2>5, <3>1, <3>2
  <2>8. CASE Flush \/ FlushCheckpoint \/ DropSink
    BY <2>2, <2>3, <2>8 DEF Flush, FlushCheckpoint, Flushed, FlushFails, DropSink
  <2>9. ASSUME NEW f \in Flows, Publish(f) \/ PublishReturns(f) \/ End(f)
        PROVE  file' = file
    BY <2>9 DEF Publish, PublishReturns, Accept, RejectOpen, FailClosed, End, fileVars
  <2>10. DropServices \/ Receive \/ ReceiveNone \/ DropReceiver \/ Exited => file' = file
    BY DEF DropServices, Receive, ReceiveNone, DropReceiver, Exited, vars, fileVars
  <2> HIDE DEF Step
  <2> QED
    BY <2>2, <2>6, <2>7, <2>8, <2>9, <2>10 DEF Next, WriterStep
<1> QED
  BY <1>1, Invariance, TornInvariance, PTL DEF Spec, AppendOnly
=============================================================================
