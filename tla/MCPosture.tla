----------------------------- MODULE MCPosture -----------------------------
(***************************************************************************)
(* The instances of Pipeline with the history of Posture.                  *)
(***************************************************************************)
EXTENDS Posture, MCPipeline
=============================================================================
