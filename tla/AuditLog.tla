------------------------------ MODULE AuditLog ------------------------------
(***************************************************************************)
(* What the audit path promises the rest of Freja, without its channel,    *)
(* buffer, hashes and checkpoints: an append-only log of accepted records, *)
(* stored in the order they were accepted; a writer that fails may leave a *)
(* tail unstored and says so, one that closes cleanly leaves nothing.      *)
(* AuditPipeline implements this.                                          *)
(***************************************************************************)
EXTENDS Sequences, Naturals

CONSTANT Events

VARIABLES
    accepted,   \* the records publish took
    stored,     \* the records that are complete lines of the segment
    status      \* open, failing (an error is on its way out), failed, closed

logVars == <<accepted, stored, status>>

Init ==
    /\ accepted = <<>>
    /\ stored = <<>>
    /\ status = "open"

\* publish returns Ok.  A failing writer still holds its receiver for a while.
Accept(e) ==
    /\ status \in {"open", "failing"}
    /\ accepted' = Append(accepted, e)
    /\ UNCHANGED <<stored, status>>

\* The next record becomes a line of the segment.
Store ==
    /\ status \in {"open", "failing"}
    /\ Len(stored) < Len(accepted)
    /\ stored' = Append(stored, accepted[Len(stored) + 1])
    /\ UNCHANGED <<accepted, status>>

Fail ==
    /\ status = "open"
    /\ status' = "failing"
    /\ UNCHANGED <<accepted, stored>>

GiveUp ==
    /\ status = "failing"
    /\ status' = "failed"
    /\ UNCHANGED <<accepted, stored>>

\* The writer returns Ok: only when it owes nothing.
Close ==
    /\ status = "open"
    /\ stored = accepted
    /\ status' = "closed"
    /\ UNCHANGED <<accepted, stored>>

Next == (\E e \in Events : Accept(e)) \/ Store \/ Fail \/ GiveUp \/ Close

Spec == Init /\ [][Next]_logVars
=============================================================================
