------------------------------ MODULE MCAdmin ------------------------------
(* ApiTokens, RetentionPolicies and Startup share no state in these models, *)
(* so TLC checks them as a sum: side says which acts in a behaviour.        *)
EXTENDS MCApiTokens, MCRetention, Startup
VARIABLE side

AdminInit == TokenInit /\ PolicyInit /\ StartupInit /\ side \in {"tokens", "policies", "startup"}
AdminNext ==
  /\ \/ side = "tokens" /\ TokenNext /\ UNCHANGED <<policyVars, startupVars>>
     \/ side = "policies" /\ PolicyNext /\ UNCHANGED <<tokenVars, startupVars>>
     \/ side = "startup" /\ StartupNext /\ UNCHANGED <<tokenVars, policyVars>>
  /\ UNCHANGED side
AdminSpec ==
  /\ AdminInit /\ [][AdminNext]_<<tokenVars, policyVars, startupVars, side>>
  /\ TokenFairness /\ PolicyFairness /\ StartupFairness

\* The type invariants of the three.
AdminTypeOK == TokenTypeOK /\ PolicyTypeOK /\ StartupTypeOK
=============================================================================
