--------------------------- MODULE StoreMigration ---------------------------
(***************************************************************************)
(* The task database, opened by the daemon and by `bpq` commands at once:  *)
(* each TaskStore looks whether the table lacks columns, copies the file,  *)
(* and adds what is missing in one transaction.  Nothing but SQLite's      *)
(* write lock keeps two of them apart, and any of them can be killed.      *)
(*                                                                         *)
(* The table is the set of columns it has of those v0.1 did not know; rows *)
(* are left out, and so is apscheduler_jobs, which nobody touches here.    *)
(***************************************************************************)
EXTENDS Naturals, FiniteSets

CONSTANTS
  Openers,   \* processes that open the database
  Columns,   \* NEW_COLUMNS
  Seconds,   \* 1 .. n, what the name of a backup tells apart
  MaxKills   \* bound on processes that die or are started again

\* In place of a set of columns:
NoTable == {"no table"}
NoCopy  == {"no copy"}
Torn    == {"torn"}     \* a copy cut short or made while another one wrote

NoOne   == "no one"

VARIABLES
  table,    \* columns of the table, or NoTable
  version,  \* PRAGMA user_version
  writer,   \* who is inside a transaction that writes
  added,    \* the columns this transaction has added
  backup,   \* for each second the file named after it
  now,
  opc,      \* where each opener is
  ver,      \* the version it read
  todo,     \* the columns it found missing
  old,      \* ghost: there was a v0.1 table in the beginning
  clashed,  \* ghost: a backup was written over another one
  kills

dbv   == <<table, version, writer, added>>
copyv == <<backup, clashed>>
procv == <<opc, ver, todo>>
vars  == <<dbv, copyv, procv, now, old, kills>>

Goto(p, label) == opc' = [opc EXCEPT ![p] = label]
MayWrite(p) == writer \in {NoOne, p}

-----------------------------------------------------------------------------
Open(p) ==
  /\ opc[p] = "off"
  /\ Goto(p, "look")
  /\ UNCHANGED <<dbv, copyv, ver, todo, now, old, kills>>

\* Is there a table, and of which version.
Look(p) ==
  /\ opc[p] = "look"
  /\ Goto(p, IF table = NoTable THEN "create" ELSE "columns")
  /\ ver' = [ver EXCEPT ![p] = version]
  /\ UNCHANGED <<dbv, copyv, todo, now, old, kills>>

\* BASE_SCHEMA, IF NOT EXISTS: executescript commits each of its statements.
Create(p) ==
  /\ opc[p] = "create" /\ MayWrite(p)
  /\ table' = IF table = NoTable THEN Columns ELSE table
  /\ Goto(p, "index")
  /\ UNCHANGED <<version, writer, added, copyv, ver, todo, now, old, kills>>

\* The index itself is left out: no answer depends on it.
CreateIndex(p) ==
  /\ opc[p] = "index" /\ MayWrite(p)
  /\ Goto(p, "version")
  /\ UNCHANGED <<dbv, copyv, ver, todo, now, old, kills>>

SetVersion(p) ==
  /\ opc[p] = "version" /\ MayWrite(p)
  /\ version' = 1
  /\ Goto(p, "open")
  /\ UNCHANGED <<table, writer, added, copyv, ver, todo, now, old, kills>>

UpToDate(p, missing) == missing = {} /\ ver[p] = 1

\* Fault: no copy is made.
FirstStepAlter(missing) == "alter"

\* A copy of the file is made only if the table is to be changed.
FirstStep(missing) == IF missing # {} THEN "backup" ELSE "alter"

LookAtColumns(p) ==
  /\ opc[p] = "columns"
  /\ LET missing == Columns \ table
     IN  /\ todo' = [todo EXCEPT ![p] = missing]
         /\ Goto(p, IF UpToDate(p, missing) THEN "open" ELSE FirstStep(missing))
  /\ UNCHANGED <<dbv, copyv, ver, now, old, kills>>

\* The copy of a file into which another process may be writing.
Backup(p) ==
  /\ opc[p] = "backup"
  /\ \E c \in {table} \cup {Torn : x \in {writer} \ {NoOne}} :
       backup' = [backup EXCEPT ![now] = c]
  /\ clashed' = (clashed \/ backup[now] # NoCopy)
  /\ Goto(p, "alter")
  /\ UNCHANGED <<dbv, ver, todo, now, old, kills>>

\* Fault: without BEGIN every ALTER commits by itself.
AlterAlone(p) ==
  /\ opc[p] = "alter" /\ MayWrite(p)
  /\ \E c \in todo[p] \ table :
       /\ table' = table \cup {c}
       /\ todo' = [todo EXCEPT ![p] = @ \ {c}]
  /\ UNCHANGED <<version, writer, added, copyv, opc, ver, now, old, kills>>

\* The first one takes the write lock, which the transaction then keeps.
Alter(p) ==
  /\ opc[p] = "alter" /\ MayWrite(p)
  /\ writer' = p
  /\ \E c \in todo[p] \ table :
       /\ added' = added \cup {c}
       /\ todo' = [todo EXCEPT ![p] = @ \ {c}]
  /\ UNCHANGED <<table, version, copyv, opc, ver, now, old, kills>>

\* PRAGMA user_version and COMMIT.
Commit(p) ==
  /\ opc[p] = "alter" /\ todo[p] = {} /\ MayWrite(p)
  /\ table' = table \cup added /\ version' = 1
  /\ writer' = NoOne /\ added' = {}
  /\ Goto(p, "open")
  /\ UNCHANGED <<copyv, ver, todo, now, old, kills>>

Release(p) ==
  /\ writer' = IF writer = p THEN NoOne ELSE writer
  /\ added' = IF writer = p THEN {} ELSE added

\* busy_timeout runs out, or another process has added the column meanwhile:
\* ROLLBACK, and the constructor raises.
Fails(p) ==
  /\ \/ opc[p] \in {"create", "index", "version", "alter"} /\ ~MayWrite(p)
     \/ opc[p] = "alter" /\ MayWrite(p) /\ todo[p] \cap table # {}
  /\ Release(p)
  /\ Goto(p, "failed")
  /\ UNCHANGED <<table, version, copyv, ver, todo, now, old, kills>>

\* The process ends; what it had not committed is gone, and a copy cut short.
Kill(p) ==
  /\ opc[p] # "off" /\ kills < MaxKills
  /\ kills' = kills + 1
  /\ \/ UNCHANGED copyv
     \/ /\ opc[p] = "backup"
        /\ backup' = [backup EXCEPT ![now] = Torn]
        /\ clashed' = (clashed \/ backup[now] # NoCopy)
  /\ Release(p)
  /\ Goto(p, "off")
  /\ UNCHANGED <<table, version, ver, todo, now, old>>

Tick ==
  /\ now + 1 \in Seconds
  /\ now' = now + 1
  /\ UNCHANGED <<dbv, copyv, procv, old, kills>>

Init ==
  /\ table \in {NoTable, {}} /\ version = 0
  /\ writer = NoOne /\ added = {}
  /\ backup = [s \in Seconds |-> NoCopy] /\ now = 1
  /\ opc = [p \in Openers |-> "off"]
  /\ ver = [p \in Openers |-> 0] /\ todo = [p \in Openers |-> {}]
  /\ old = (table # NoTable) /\ clashed = FALSE
  /\ kills = 0

Next ==
  \/ Tick
  \/ \E p \in Openers :
       \/ Open(p) \/ Look(p) \/ Create(p) \/ CreateIndex(p) \/ SetVersion(p)
       \/ LookAtColumns(p) \/ Backup(p) \/ Alter(p) \/ Commit(p) \/ Fails(p) \/ Kill(p)

Spec == Init /\ [][Next]_vars

-----------------------------------------------------------------------------
(* store.py:175: the table has the columns of v0.1 or all of them, never   *)
(* some, whoever is killed while whoever else migrates; a database of the  *)
(* new version has them all; and a store that could be opened works on it. *)
SchemaWhole ==
  /\ table \in {NoTable, {}, Columns}
  /\ version = 1 => table = Columns
  /\ \A p \in Openers : opc[p] = "open" => version = 1

(* store.py:188: of a database that was migrated there is a copy as it was *)
(* before - unless two copies were made within a second, whose names are   *)
(* the same.                                                               *)
OldKept ==
  old /\ table = Columns /\ ~clashed => \E s \in Seconds : backup[s] = {}

-----------------------------------------------------------------------------
(* Inductive strengthenings.                                               *)

OpenerPc == {"off", "look", "create", "index", "version", "columns", "backup",
             "alter", "open", "failed"}

Types ==
  /\ table \in (SUBSET Columns) \cup {NoTable}
  /\ version \in {0, 1}
  /\ writer \in Openers \cup {NoOne} /\ added \subseteq Columns
  /\ now \in Seconds /\ DOMAIN backup = Seconds
  /\ opc \in [Openers -> OpenerPc]
  /\ ver \in [Openers -> {0, 1}]
  /\ todo \in [Openers -> SUBSET Columns]

\* The columns that p sees: those of the table and those it has added.
Seen(p) == table \cup (IF writer = p THEN added ELSE {})

(* What an opener has seen of the schema is still true when it acts on it: *)
(* the table only grows, and whoever is to alter it knows all that is      *)
(* missing, but what it has added itself.                                  *)
SchemaInv ==
  /\ Types /\ SchemaWhole
  /\ writer # NoOne => opc[writer] = "alter"
  /\ writer = NoOne => added = {}
  /\ \A p \in Openers :
       /\ ver[p] = 1 => version = 1
       /\ opc[p] = "create" => table \in {NoTable, Columns}
       /\ opc[p] \in {"index", "version"} => table = Columns
       /\ opc[p] \in {"columns", "backup", "alter"} => table # NoTable
       /\ opc[p] \in {"backup", "alter"} => Columns \ Seen(p) \subseteq todo[p]

(* Nobody alters an old table before there is a copy of it.                *)
CopyInv ==
  /\ old => table # NoTable
  /\ old /\ ~clashed /\ (table = Columns \/ \E p \in Openers : opc[p] = "alter")
       => \E s \in Seconds : backup[s] = {}
=============================================================================
