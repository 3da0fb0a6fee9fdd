---------------------------- MODULE MCDiskFiles ----------------------------
(***************************************************************************)
(* What bpq keeps on the disk and changes in place, for TLC: config.toml   *)
(* (ConfigReload), the journal (Journal) and the schema of the database    *)
(* (StoreMigration).  They share nothing, so interleaving them would show  *)
(* nothing more: a behaviour exercises one of the three.                   *)
(***************************************************************************)
EXTENDS ConfigReload, TLC

CONSTANTS Records, Cleaners, Days, PageSize, Openers, Columns, Seconds, MaxKills

VARIABLES
  part,     \* which file: "config", "journal" or "database"
  lines, cut, garbled, today, day, wpc, cpc, before, copy, offset, seen, expected,
  erased, slipped, blurred, crossed, shifted,
  table, version, writer, added, backup, now, opc, ver, missing, old, clashed,
  kills

J == INSTANCE Journal
M == INSTANCE StoreMigration WITH todo <- missing

\* Records and days are counted from 1: 0 stands for a line that does not
\* parse and for a delete without a date.  A page holds something: the page
\* size is one of 25, 50, 100 and 200 (Journal.tsx:25).
ASSUME JournalAssumption ==
  /\ Records \subseteq Nat \ {0} /\ Days \subseteq Nat \ {0}
  /\ 1 \in Days /\ PageSize \in Nat \ {0}

\* The values that stand for no table and for nobody are no others.
ASSUME StoreAssumption ==
  /\ Columns # {} /\ "no table" \notin Columns /\ M!NoOne \notin Openers
  /\ 1 \in Seconds

configv  == <<filev, memv, reqv, up, behind, edits>>
journalv == <<lines, cut, garbled, today, day, wpc, cpc, before, copy, offset, seen,
              expected, erased, slipped, blurred, crossed, shifted>>

storev == <<table, version, writer, added, backup, now, opc, ver, missing,
            old, clashed, kills>>

FilesInit ==
  /\ part \in {"config", "journal", "database"}
  /\ Init /\ J!Init /\ M!Init
  /\ part # "database" => ~old

FilesNext ==
  \/ part = "config" /\ Next /\ UNCHANGED <<part, journalv, storev>>
  \/ part = "journal" /\ J!Next /\ UNCHANGED <<part, configv, storev>>
  \/ part = "database" /\ M!Next /\ UNCHANGED <<part, configv, journalv, crashes>>

FilesSpec == FilesInit /\ [][FilesNext]_<<part, configv, journalv, storev, crashes>>

\* Sound for safety: no property tells one thread from another.
Threads == Permutations(Requests) \cup Permutations(Cleaners)

(* The types of the configuration's variables and of the journal's.        *)
FilesTypeOK == TypeOK /\ J!TypeOK

(* See Journal (journal.py:134, 153).                                      *)
JournalExact == J!JournalExact

(* See Journal (journal.py:107).                                           *)
PagesMissNothing == J!PagesMissNothing

(* See StoreMigration (store.py:175).                                      *)
SchemaWhole == M!SchemaWhole

(* See StoreMigration (store.py:188).                                      *)
OldKept == M!OldKept
=============================================================================
