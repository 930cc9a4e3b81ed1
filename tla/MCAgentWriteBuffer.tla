------------------------- MODULE MCAgentWriteBuffer -------------------------
(***************************************************************************)
(* TLC instance of AgentWriteBuffer.                                       *)
(***************************************************************************)
EXTENDS AgentWriteBuffer
=============================================================================
