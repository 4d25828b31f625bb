--------------------------- MODULE AuditPipeline ---------------------------
(***************************************************************************)
(* The audit path of Freja: flows publish records through a bounded        *)
(* channel (crates/freja-audit/src/publisher.rs), one blocking worker      *)
(* drains the channel into a hash-chained JSONL segment and inserts signed *)
(* checkpoints (sink.rs, checkpoint.rs, crates/freja/src/audit_writer.rs), *)
(* and the offline replay verifies what is in the segment                  *)
(* (crates/freja/src/replay.rs).                                           *)
(*                                                                         *)
(* Time, payloads and redaction are abstracted: an envelope is the n-th    *)
(* record its flow publishes.  SHA-256 is a collision-free digest, the     *)
(* chain of (sequence, payload) pairs it covers.                           *)
(***************************************************************************)
EXTENDS Integers, Sequences, FiniteSets, Functions

CONSTANTS
    Flows,            \* tasks that hold a clone of the publisher
    Capacity,         \* audit.channel_capacity
    FailurePolicies,  \* the failure policies a publisher may be built with
    Intervals,        \* the checkpoint intervals a drain loop may be given
    MaxSequence,      \* the last AuditSequence (u64::MAX in the code)
    MaxEvents         \* bound: records a flow publishes before it ends

\* AuditPublisher::channel refuses a zero capacity; CheckpointSchedule::new a
\* zero interval (0 stands for "no schedule" here).  A flow's records are told
\* from a checkpoint's.
ASSUME FlowsAssumption == "checkpoint" \notin Flows
ASSUME CapacityAssumption == Capacity \in Nat \ {0}
ASSUME PolicyAssumption == FailurePolicies \subseteq {"fail-closed", "fail-open"}
ASSUME IntervalAssumption == Intervals \subseteq Nat
ASSUME SequenceAssumption == MaxSequence \in Nat \ {0}
ASSUME EventsAssumption == MaxEvents \in Nat

VARIABLES
    failure_policy,   \* AuditPublisher::failure_policy
    interval,         \* ordinary events per signed checkpoint; 0: no schedule
    flow,             \* what each flow is doing
    attempts,         \* records each flow has tried to publish
    performed,        \* publications each flow has carried on after
    services,         \* run_proxy still holds its DataPlaneServices
    queue,            \* the bounded channel
    receiver,         \* the channel's receiver has not been dropped
    rejected,         \* AuditPublisher::rejected_events
    accepted,         \* history: envelopes the channel took, in order
    writer,           \* where drain_jsonl_with_checkpoints is
    result,           \* what it will return, or has returned
    envelope,         \* the envelope blocking_recv returned last
    record,           \* the AuditRecord write_event returned last
    ordinary_events,  \* its counter of non-checkpoint records
    next_sequence,    \* JsonlAuditSink::next_sequence; 0: None
    previous_hash,    \* JsonlAuditSink::previous_hash; NoHash: None
    poisoned,         \* JsonlAuditSink::poisoned
    buffer,           \* records in the BufWriter, not yet in the file
    file,             \* complete lines of the segment file
    torn              \* the file ends in a fragment of the next line

configVars == <<failure_policy, interval>>
flowVars == <<flow, attempts, performed, services>>
channelVars == <<queue, receiver, rejected, accepted>>
sinkVars == <<next_sequence, previous_hash, poisoned>>
drainVars == <<writer, result, envelope, record, ordinary_events>>
fileVars == <<buffer, file, torn>>
vars == <<configVars, flowVars, channelVars, sinkVars, drainVars, fileVars>>

-----------------------------------------------------------------------------
(* Data *)

Envelopes == [flow : Flows, n : Nat]

\* A record's payload: a flow's envelope, or the checkpoint over record n.
Payloads == [flow : Flows \cup {"checkpoint"}, n : Nat]

Hashes == Seq([sequence : Nat, payload : Payloads])

NoHash == <<>>

\* Sha256::digest over the canonical JSON of the unsigned record.  The digest
\* of a checkpoint record leaves out the hash inside its payload: it equals
\* previous_hash in every checkpoint that replay accepts.
Digest(previous, sequence, payload) ==
    Append(previous, [sequence |-> sequence, payload |-> payload])

Records == [sequence : Nat, payload : Payloads, covered_hash : Hashes,
            previous_hash : Hashes, record_hash : Hashes]

NoEnvelope == [flow |-> "checkpoint", n |-> 0]

NoRecord == [sequence |-> 0, payload |-> NoEnvelope, covered_hash |-> NoHash,
             previous_hash |-> NoHash, record_hash |-> NoHash]

IsCheckpoint(r) == r.payload.flow = "checkpoint"

-----------------------------------------------------------------------------
(* Offline replay: the integrity checks of replay_audit.  Before line i the  *)
(* loop holds expected_sequence = i and previous_hash = the hash of line     *)
(* i - 1.                                                                    *)

LineVerifies(segment, i) ==
    LET r == segment[i]
        previous == IF i = 1 THEN NoHash ELSE segment[i - 1].record_hash
    IN  /\ r.sequence = i
        /\ r.previous_hash = previous
        /\ r.record_hash = Digest(r.previous_hash, r.sequence, r.payload)
        /\ IsCheckpoint(r) => /\ previous # NoHash
                              /\ r.payload.n = i - 1
                              /\ r.covered_hash = previous

ReplayAccepts(segment) == \A i \in 1..Len(segment) : LineVerifies(segment, i)

-----------------------------------------------------------------------------
(* Flows and the publisher *)

Init ==
    /\ failure_policy \in FailurePolicies
    /\ interval \in Intervals
    /\ flow = [f \in Flows |-> "running"]
    /\ attempts = [f \in Flows |-> 0]
    /\ performed = [f \in Flows |-> 0]
    /\ services = TRUE
    /\ queue = <<>>
    /\ receiver = TRUE
    /\ rejected = 0
    /\ accepted = <<>>
    /\ writer = "recv"
    /\ result = "none"
    /\ envelope = NoEnvelope
    /\ record = NoRecord
    /\ ordinary_events = 0
    /\ next_sequence = 1
    /\ previous_hash = NoHash
    /\ poisoned = FALSE
    /\ buffer = <<>>
    /\ file = <<>>
    /\ torn = FALSE

\* A flow calls DataPlaneServices::publish with its next record.
Publish(f) ==
    /\ flow[f] = "running"
    /\ attempts[f] < MaxEvents
    /\ flow' = [flow EXCEPT ![f] = "publishing"]
    /\ attempts' = [attempts EXCEPT ![f] = @ + 1]
    /\ UNCHANGED <<configVars, performed, services, channelVars, drainVars,
                   sinkVars, fileVars>>

\* publish returned Ok, or fail-open swallowed its error: the flow goes on.
Proceed(f) ==
    /\ flow' = [flow EXCEPT ![f] = "running"]
    /\ performed' = [performed EXCEPT ![f] = @ + 1]
    /\ UNCHANGED <<attempts, services>>

\* The channel has room: fail-closed waited for it, fail-open found it.
Accept(f) ==
    LET e == [flow |-> f, n |-> attempts[f]]
    IN  /\ flow[f] = "publishing"
        /\ receiver
        /\ Len(queue) < Capacity
        /\ queue' = Append(queue, e)
        /\ accepted' = Append(accepted, e)
        /\ Proceed(f)
        /\ UNCHANGED <<configVars, receiver, rejected, drainVars, sinkVars, fileVars>>

\* Fault: only a full channel is counted, a closed one is not.
RejectOpen_ClosedUncounted(f) ==
    /\ flow[f] = "publishing"
    /\ failure_policy = "fail-open"
    /\ ~receiver \/ Len(queue) >= Capacity
    /\ rejected' = IF receiver THEN rejected + 1 ELSE rejected
    /\ Proceed(f)
    /\ UNCHANGED <<configVars, queue, receiver, accepted, drainVars, sinkVars,
                   fileVars>>

\* fail-open: try_send finds the channel full or closed, and says so.
RejectOpen(f) ==
    /\ flow[f] = "publishing"
    /\ failure_policy = "fail-open"
    /\ ~receiver \/ Len(queue) >= Capacity
    /\ rejected' = rejected + 1
    /\ Proceed(f)
    /\ UNCHANGED <<configVars, queue, receiver, accepted, drainVars, sinkVars,
                   fileVars>>

\* Fault: a closed channel is tried again.
FailClosed_Retries(f) ==
    /\ flow[f] = "publishing"
    /\ failure_policy = "fail-closed"
    /\ ~receiver
    /\ UNCHANGED vars

\* Fault: the error of a closed channel is ignored.
FailClosed_Ignored(f) ==
    /\ flow[f] = "publishing"
    /\ failure_policy = "fail-closed"
    /\ ~receiver
    /\ Proceed(f)
    /\ UNCHANGED <<configVars, channelVars, drainVars, sinkVars, fileVars>>

\* fail-closed: send fails only on a closed channel; the flow ends with
\* ProxyError::Audit.
FailClosed(f) ==
    /\ flow[f] = "publishing"
    /\ failure_policy = "fail-closed"
    /\ ~receiver
    /\ flow' = [flow EXCEPT ![f] = "failed"]
    /\ UNCHANGED <<configVars, attempts, performed, services, channelVars,
                   drainVars, sinkVars, fileVars>>

\* The flow's task ends and drops its clone of the publisher.
End(f) ==
    /\ flow[f] = "running"
    /\ flow' = [flow EXCEPT ![f] = "ended"]
    /\ UNCHANGED <<configVars, attempts, performed, services, channelVars,
                   drainVars, sinkVars, fileVars>>

Finished(f) == flow[f] \in {"failed", "ended"}

\* run_proxy: once every listener is drained, drop(services).
DropServices ==
    /\ services
    /\ \A f \in Flows : Finished(f)
    /\ services' = FALSE
    /\ UNCHANGED <<configVars, flow, attempts, performed, channelVars, drainVars,
                   sinkVars, fileVars>>

-----------------------------------------------------------------------------
(* The writer: drain_jsonl_with_checkpoints over a JsonlAuditSink *)

Receive ==
    /\ writer = "recv"
    /\ queue # <<>>
    /\ envelope' = Head(queue)
    /\ queue' = Tail(queue)
    /\ writer' = "write"
    /\ UNCHANGED <<configVars, flowVars, receiver, rejected, accepted, result, record,
                   ordinary_events, sinkVars, fileVars>>

\* blocking_recv returns None: no sender is left and the channel is empty.
ReceiveNone ==
    /\ writer = "recv"
    /\ queue = <<>>
    /\ ~services
    /\ writer' = "drop_sink"
    /\ result' = "ok"
    /\ UNCHANGED <<configVars, flowVars, channelVars, envelope, record, ordinary_events,
                   sinkVars, fileVars>>

\* Fault: the drain loop logs an error and goes on.
Fail_Continues ==
    /\ writer' = "recv"
    /\ UNCHANGED result

\* `?` in the drain loop: leave it with an error.
Fail ==
    /\ writer' = "drop_sink"
    /\ result' = "err"

NewRecord(payload, covered) ==
    [sequence |-> next_sequence, payload |-> payload, covered_hash |-> covered,
     previous_hash |-> previous_hash,
     record_hash |-> Digest(previous_hash, next_sequence, payload)]

\* Fault: the sequence wraps around.
CheckedNext_Wraps(sequence) == (sequence % MaxSequence) + 1

\* AuditSequence::checked_next; 0 is None.
CheckedNext(sequence) == IF sequence < MaxSequence THEN sequence + 1 ELSE 0

\* write_event succeeds: a line that fits goes to the BufWriter's buffer, a
\* longer one straight to the file.
Written(r) ==
    /\ ~poisoned
    /\ next_sequence # 0
    /\ \/ buffer' = Append(buffer, r) /\ UNCHANGED file
       \/ file' = Append(file, r) /\ UNCHANGED buffer
    /\ record' = r
    /\ previous_hash' = r.record_hash
    /\ next_sequence' = CheckedNext(next_sequence)
    /\ UNCHANGED <<poisoned, torn>>

\* write_event fails: a poisoned sink, no sequence left or a record that does
\* not serialize change nothing; a failed write_all poisons the sink and may
\* leave a fragment of the line.
WriteFails ==
    /\ \/ UNCHANGED <<poisoned, torn>>
       \/ /\ ~poisoned
          /\ next_sequence # 0
          /\ poisoned' = TRUE
          /\ torn' \in BOOLEAN
    /\ UNCHANGED <<next_sequence, previous_hash, buffer, file>>

WriteEvent ==
    /\ writer = "write"
    /\ \/ /\ Written(NewRecord(envelope, NoHash))
          /\ ordinary_events' = ordinary_events + 1
          /\ writer' = "flush"
          /\ UNCHANGED result
       \/ /\ WriteFails
          /\ Fail
          /\ UNCHANGED <<record, ordinary_events>>
    /\ UNCHANGED <<configVars, flowVars, channelVars, envelope>>

\* Fault: the counter is compared before it is advanced.
CheckpointDue_Early ==
    /\ interval # 0
    /\ (ordinary_events + 1) % interval = 0

CheckpointDue ==
    /\ interval # 0
    /\ ordinary_events % interval = 0

\* sink.flush(): the buffer reaches the file, or a fragment of it does.
Flushed ==
    /\ ~poisoned
    /\ file' = file \o buffer
    /\ buffer' = <<>>
    /\ torn' = FALSE
    /\ UNCHANGED <<configVars, flowVars, channelVars, sinkVars, envelope, record,
                   ordinary_events>>

FlushFails ==
    /\ torn' \in (IF buffer = <<>> THEN {torn} ELSE BOOLEAN)
    /\ UNCHANGED <<configVars, buffer, file, flowVars, channelVars, sinkVars,
                   envelope, record,
                   ordinary_events>>

Flush ==
    /\ writer = "flush"
    /\ \/ /\ Flushed
          /\ writer' = IF CheckpointDue THEN "sign" ELSE "recv"
          /\ UNCHANGED result
       \/ FlushFails /\ Fail

\* sign_checkpoint over the record just written, then write_event of the
\* SignedCheckpoint.
WriteCheckpoint ==
    /\ writer = "sign"
    /\ \/ /\ Written(NewRecord([flow |-> "checkpoint", n |-> record.sequence],
                               record.record_hash))
          /\ writer' = "flush_checkpoint"
          /\ UNCHANGED result
       \/ WriteFails /\ Fail /\ UNCHANGED record
    /\ UNCHANGED <<configVars, flowVars, channelVars, envelope, ordinary_events>>

FlushCheckpoint ==
    /\ writer = "flush_checkpoint"
    /\ \/ /\ Flushed
          /\ writer' = "recv"
          /\ UNCHANGED result
       \/ FlushFails /\ Fail

\* Fault: a segment that ended in an error is emptied.
DropSink_Truncates ==
    /\ writer = "drop_sink"
    /\ writer' = "drop_receiver"
    /\ file' = IF result = "err" THEN <<>> ELSE file \o buffer
    /\ torn' = FALSE
    /\ buffer' = <<>>
    /\ UNCHANGED <<configVars, flowVars, channelVars, sinkVars, result, envelope,
                   record,
                   ordinary_events>>

\* The sink goes out of scope first: BufWriter's drop tries once more to write
\* what its buffer still holds, and ignores an error.
DropSink ==
    /\ writer = "drop_sink"
    /\ writer' = "drop_receiver"
    /\ \/ file' = file \o buffer /\ torn' = (torn /\ buffer = <<>>)
       \/ /\ buffer # <<>>
          /\ UNCHANGED file
          /\ torn' \in {torn, TRUE}
    /\ buffer' = <<>>
    /\ UNCHANGED <<configVars, flowVars, channelVars, sinkVars, result, envelope,
                   record,
                   ordinary_events>>

\* Then the receiver: the channel closes and loses what it still holds.
DropReceiver ==
    /\ writer = "drop_receiver"
    /\ writer' = "done"
    /\ receiver' = FALSE
    /\ queue' = <<>>
    /\ UNCHANGED <<configVars, flowVars, rejected, accepted, result, envelope, record,
                   ordinary_events, sinkVars, fileVars>>

WriterStep ==
    \/ Receive \/ ReceiveNone \/ WriteEvent \/ Flush \/ WriteCheckpoint
    \/ FlushCheckpoint \/ DropSink \/ DropReceiver

PublishReturns(f) == Accept(f) \/ RejectOpen(f) \/ FailClosed(f)

\* Every task has ended; the process exits.
Exited ==
    /\ writer = "done"
    /\ ~services
    /\ UNCHANGED vars

Next ==
    \/ \E f \in Flows : Publish(f) \/ PublishReturns(f) \/ End(f)
    \/ DropServices
    \/ WriterStep
    \/ Exited

Spec == Init /\ [][Next]_vars

\* The worker runs on its own blocking thread and file operations return; a
\* ready future is polled; a flow ends because it observes shutdown or its
\* idle deadline; run_proxy then drops its services.
Fairness ==
    /\ WF_vars(WriterStep)
    /\ \A f \in Flows : WF_vars(PublishReturns(f)) /\ WF_vars(End(f))
    /\ WF_vars(DropServices)

FairSpec == Spec /\ Fairness

-----------------------------------------------------------------------------
(* Properties *)

FlowStates == {"running", "publishing", "failed", "ended"}

WriterStates == {"recv", "write", "flush", "sign", "flush_checkpoint", "drop_sink",
                 "drop_receiver", "done"}

\* Every variable has the type of the Rust value it stands for; the channel
\* never holds more than its capacity and the BufWriter never more than the one
\* line the drain loop is about to flush.
TypeOK ==
    /\ failure_policy \in FailurePolicies
    /\ interval \in Intervals
    /\ flow \in [Flows -> FlowStates]
    /\ attempts \in [Flows -> 0..MaxEvents]
    /\ performed \in [Flows -> 0..MaxEvents]
    /\ services \in BOOLEAN
    /\ queue \in Seq(Envelopes) /\ Len(queue) <= Capacity
    /\ receiver \in BOOLEAN
    /\ rejected \in Nat
    /\ accepted \in Seq(Envelopes)
    /\ writer \in WriterStates
    /\ result \in {"none", "ok", "err"}
    /\ envelope \in Payloads
    /\ record \in Records
    /\ ordinary_events \in Nat
    /\ next_sequence \in 0..MaxSequence
    /\ previous_hash \in Hashes
    /\ poisoned \in BOOLEAN
    /\ buffer \in Seq(Records) /\ Len(buffer) <= 1
    /\ file \in Seq(Records)
    /\ torn \in BOOLEAN

\* Whenever the process stops, by a crash, an error or a shutdown, the complete
\* lines it leaves in the segment pass every check of `freja replay`: sequence
\* numbers from 1 without a gap, each record linked to its predecessor, each
\* checkpoint over the record just before it.
SegmentVerifies == ReplayAccepts(file)

\* The payloads of the records that are not checkpoints, in order.
OrdinaryPayloads(records) ==
    LET taken[i \in 0..Len(records)] ==
            IF i = 0 THEN <<>>
            ELSE IF IsCheckpoint(records[i]) THEN taken[i - 1]
            ELSE Append(taken[i - 1], records[i].payload)
    IN  taken[Len(records)]

LogStatus ==
    IF receiver THEN IF result = "err" THEN "failing" ELSE "open"
                ELSE IF result = "err" THEN "failed" ELSE "closed"

AbstractLog == INSTANCE AuditLog WITH
    Events <- [flow : Flows, n : 1..MaxEvents],
    stored <- OrdinaryPayloads(file),
    status <- LogStatus

\* The channel, the drain loop, the buffered writer and the checkpoints together
\* implement the log of AuditLog: records reach the file one by one in the order
\* publish took them, nothing else ever appears there, and the writer ends without
\* an error only when no accepted record is missing.
ImplementsAuditLog == AbstractLog!Spec

\* fail-closed: a flow has carried on past a record only if the channel took
\* that record, and none is ever counted as rejected.
FailClosedGate ==
    failure_policy = "fail-closed" =>
        /\ rejected = 0
        /\ \A f \in Flows : \A k \in 1..performed[f] :
              [flow |-> f, n |-> k] \in Range(accepted)

\* The publications the flows have carried on past.
CarriedOnPast == {p \in Flows \X (1..MaxEvents) : p[2] <= performed[p[1]]}

\* fail-open: every record a flow carried on past is either accepted or counted
\* in rejected_events; no loss goes unreported.
EveryLossCounted == Cardinality(CarriedOnPast) = Len(accepted) + rejected

\* Line i of the log is followed by a checkpoint.
Due(log, i) ==
    /\ interval # 0
    /\ ~IsCheckpoint(log[i])
    /\ Len(OrdinaryPayloads(SubSeq(log, 1, i))) % interval = 0

\* With a schedule, a checkpoint is written after exactly every interval-th
\* ordinary record, also across a failure; without one there is none.
CheckpointCadence ==
    LET log == file \o buffer
    IN  /\ \A i \in 2..Len(log) : IsCheckpoint(log[i]) <=> Due(log, i - 1)
        /\ writer \in {"recv", "write"} /\ log # <<>> => ~Due(log, Len(log))

\* The segment is only appended to, and once it ends in a fragment the only line
\* that can still be added is the one that completes the fragment.
AppendOnly ==
    [][/\ Len(file) <= Len(file') /\ SubSeq(file', 1, Len(file)) = file
       /\ torn /\ file' # file => buffer # <<>> /\ file' = file \o buffer]_vars

\* No flow waits in publish for ever: a full channel is drained, and when the
\* writer dies the waiting senders are woken with an error.  Shutdown completes:
\* the drain loop ends, and every accepted record has then reached the file
\* unless the writer reports an error.
ShutdownDrains ==
    /\ \A f \in Flows : flow[f] = "publishing" ~> flow[f] # "publishing"
    /\ <>(writer = "done" /\ (result = "err" \/ OrdinaryPayloads(file) = accepted))
=============================================================================
