--------------------------- MODULE MCLanTransport ---------------------------
(* Instances of LanTransport for TLC.                                      *)
EXTENDS LanTransport
=============================================================================
