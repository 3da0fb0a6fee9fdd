-------------------------- MODULE MCTaskLifecycle --------------------------
(* Instances of TaskLifecycle for TLC.                                     *)
EXTENDS TaskLifecycle, TLC

CONSTANTS t1, t2, o1, o2, w1, w2, c1, n1, n2

OneTask   == {t1}
TwoTasks  == {t1, t2}
OldOne    == t1 :> o1
OldTwo    == t1 :> o1 @@ t2 :> o2
OneWeb    == {w1}
TwoWeb    == {w1, w2}
OneCli    == {c1}
NoWeb     == {}
NoCli     == {}
TwoNames  == {n1, n2}
OwnName   == t1 :> n1 @@ t2 :> n2
OnlyName  == t1 :> n1
SameName  == t1 :> n1 @@ t2 :> n1

\* Sound for safety: no property tells one handler thread from another.
WebSymmetry == Permutations(TwoWeb)

NoEdit    == {"submit", "cancel", "delete"}
AllOps    == {"submit", "update", "cancel", "delete"}
=============================================================================
