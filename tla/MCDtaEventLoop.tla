--------------------------- MODULE MCDtaEventLoop ---------------------------
(* Instances of DtaEventLoop for TLC.                                      *)
EXTENDS DtaEventLoop
=============================================================================
