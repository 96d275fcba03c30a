----------------------------- MODULE MCArtifacts -----------------------------
(* Instances of Artifacts: two gateways, two files and one place
   that both copy to. *)
EXTENDS Artifacts

CONSTANTS g, h, out, log, here

(* The command writes its output twice and its log once. *)
MCVersions == [f \in Paths |-> IF f = out THEN 2 ELSE 1]
=============================================================================
