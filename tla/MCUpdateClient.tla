--------------------------- MODULE MCUpdateClient ---------------------------
(* The clients of the apply protocol, with the values of MCApplyProtocol.  *)
EXTENDS UpdateClient, MCApplyProtocol
============================================================================
