------------------------ MODULE MCIntegrationWrapper ------------------------
(***************************************************************************)
(* Instances of IntegrationWrapper: the lab of                             *)
(* terraform/environments/integration, a pair of VEs.                      *)
(***************************************************************************)
EXTENDS IntegrationWrapper
============================================================================
