---------------------------- MODULE MCReconcile ----------------------------
(***************************************************************************)
(* Small instances of Reconcile for TLC: the platform of MCPipeline with   *)
(* an object in both buckets, the probe client on the public segment and   *)
(* the finance workstation on the corporate one.                           *)
(***************************************************************************)
EXTENDS Reconcile, MCPipeline

\* infra/main.tf puts an object into the second status asset's bucket too.
MCStocked ==
  [f \in DOMAIN MCPlanOf |->
     [MCPlanOf[f] EXCEPT !.st = [slot \in Slot |-> IF slot.kind = "object" THEN body ELSE @[slot]]]]

\* deploy/compose.yaml: finance is attached to corp only, outside to internet only.
MCObservers ==
  <<[segment |-> "internet", addr |-> n5, principal |-> Anonymous],
    [segment |-> "corp", addr |-> n3, principal |-> finance]>>

MCProbes ==
  <<[kind |-> "bucket", name |-> assets, key |-> refunds],
    [kind |-> "bucket", name |-> exports, key |-> refunds],
    [kind |-> "workload_port", name |-> <<engine_, admin>>, key |-> None]>>

\* Without the second asset's bucket.
RivalProbes == SubSeq(MCProbes, 2, 3)

\* One of every way a scenario ends: admitted, admitted under another allowlist,
\* refused, misconfigured on either surface.
DemoJobs ==
  {"secure-apply", "reviewed-exposure", "vulnerable-gated", "vulnerable-ungated",
   "half-fix-denylist", "half-fix-drift", "manifest-exposed-ungated", "remove-undeclared"}

\* The script observes what another operator opens and closes meanwhile: in the
\* default container the misconfigured scenarios are not offered.
RivalJobs == {"offline-init", "vulnerable-ungated", "half-fix-drift", "remove-undeclared"}
=============================================================================
