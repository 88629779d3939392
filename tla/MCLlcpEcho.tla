------------------------------ MODULE MCLlcpEcho ------------------------------
(* Instances of LlcpEcho for TLC.                                          *)
EXTENDS LlcpEcho
=============================================================================
