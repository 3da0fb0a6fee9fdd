---------------------------- MODULE MCSubmission ----------------------------
(* Two sliced files: one with a plate for which there is no spool and one  *)
(* that leaves out filament 2, and whose filaments have a spool of their   *)
(* model but not the nearest colour, and one of their type; the other file *)
(* with plate 3 alone, which needs no AMS.                                 *)
EXTENDS Submission, TLC

CONSTANTS m1, m2

Filament(n, type, idx, color) == [id |-> n, type |-> type, idx |-> idx, color |-> color]
Reel(type, idx, color) == [type |-> type, idx |-> idx, color |-> color]

MCSliced ==
  [m \in {m1, m2} |->
     IF m = m1 THEN 1 :> {Filament(1, "petg", "G9", 0)} @@
                    2 :> {Filament(1, "pla", "G0", 2), Filament(3, "pla", "G8", 2)}
     ELSE 3 :> {}]

MCLoaded == 0 :> Reel("pla", "", 2) @@ 1 :> Reel("pla", "G0", 0)

Symmetry == Permutations(Tasks)

MCReels == {Reel("pla", "G0", 0), Reel("pla", "", 2)}
=============================================================================
