--------------------------- MODULE MCEventBroker ---------------------------
(* Instances of EventBroker for TLC.                                       *)
EXTENDS EventBroker

CONSTANTS b1, b2, p1, w1, w2

OneBrowser  == {b1}
TwoBrowsers == {b1, b2}
TheSecond   == {b2}
Nobody      == {}
OneWriter   == {w1}
TwoWriters  == {w1, w2}
=============================================================================
