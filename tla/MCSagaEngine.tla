---------------------------- MODULE MCSagaEngine ----------------------------
(* SagaEngine for TLC.  With three steps a failure can have two completed  *)
(* steps before it; two runs share the saga_id.                            *)
EXTENDS SagaEngine

=============================================================================
