--------------------------- MODULE MCPrinterLink ---------------------------
(* Instances of PrinterLink for TLC.                                       *)
EXTENDS PrinterLink, TLC

CONSTANTS u1, u2, f1

OneUser  == {u1}
TwoUsers == {u1, u2}
OneFire  == {f1}
Nobody   == {}

\* Bound: a behaviour is followed until calls cross for the first time.
NotCrossed == crossed = {}
=============================================================================
