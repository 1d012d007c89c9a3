-------------------------- MODULE MCSynthesisQueue --------------------------
(* A small instance of SynthesisQueue for TLC: two triggers of one risk and  *)
(* a stakeholder's brief.                                                    *)
EXTENDS SynthesisQueue, TLC

MCJobs == 1..3
MCTargetOf == (1 :> "risk") @@ (2 :> "person") @@ (3 :> "risk")
=============================================================================
