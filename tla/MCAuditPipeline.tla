-------------------------- MODULE MCAuditPipeline --------------------------
(* Instances of AuditPipeline for TLC: two concurrent flows, a channel that  *)
(* fills up, a checkpoint every second record, and a sequence space small    *)
(* enough to be exhausted.                                                   *)
EXTENDS AuditPipeline
=============================================================================
