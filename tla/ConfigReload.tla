---------------------------- MODULE ConfigReload ----------------------------
(***************************************************************************)
(* config.toml and the objects in memory that were made from it.           *)
(*                                                                         *)
(* Handlers of the daemon read, change and replace the file, load it again *)
(* and hand the new object to everybody who holds the old one.  The user   *)
(* edits the file by hand, the daemon crashes and starts again, and the    *)
(* first start makes the file from a template.                             *)
(*                                                                         *)
(* A file is a value for each section that can be changed by a request;    *)
(* comments and line ends are kept by tomlkit and are no part of it.       *)
(***************************************************************************)
EXTENDS Naturals, Sequences, FiniteSets

CONSTANTS
  Requests,  \* handler threads, each with at most one request
  Values,    \* values of a section
  Template,  \* the value of every section of config.example.toml
  MaxEdits,  \* bound on edits by hand and lost connections
  MaxCrashes \* bound on crashes

ASSUME ConfigAssumption ==
  /\ Template \in Values
  /\ MaxEdits \in Nat /\ MaxCrashes \in Nat

Sections == {"printer", "print", "scheduler"}
Content  == [Sections -> Values]
Missing  == [missing |-> TRUE]
Broken   == [broken |-> TRUE]     \* does not parse
Half     == [half |-> TRUE]       \* begun and not finished: the printer is missing

\* Who keeps a reference to the configuration, in the order of being told.
Holders  == <<"web", "ctx", "runner", "service", "link">>
HolderSet == {Holders[i] : i \in DOMAIN Holders}

None == [none |-> TRUE]
Bad  == [bad |-> TRUE]            \* an upload_timing that is neither

VARIABLES
  file,     \* config.toml
  holder,   \* what each holder has
  jobs,     \* the scheduler section in the defaults of the job store
  conn,     \* the printer section the connection was made with, or None
  up,       \* "down", "checked" (ensure_config saw no file), "copying", "up"
  pc,       \* where each request is
  todo,     \* what it still has to write: <<section, value>>
  doc,      \* the document it read, or the configuration it loaded
  kind,     \* which of the two requests it is
  wanted,   \* ghost: what was last put into each section, and by whom ever
  raced,    \* ghost: was a file replaced that had changed since it was read
  behind,   \* ghost: why memory may differ from the file
  adopted,  \* ghost: memory took over another printer, the connection did not
  edits, crashes

filev == <<file, wanted, raced>>
memv  == <<holder, jobs, conn, adopted>>
reqv  == <<pc, todo, doc, kind>>
vars  == <<filev, memv, reqv, up, behind, edits, crashes>>

\* What tomlkit can read.
Parses(f) == f \in Content

\* config.load: TOML, and with a printer in it.
Loads(f) == f \in Content

At(r, where) == up = "up" /\ pc[r] = where
Goto(r, where) == pc' = [pc EXCEPT ![r] = where]
Handing == {r \in Requests : pc[r] \notin {"idle", "done", "probe", "read", "write", "load"}}
Quiet   == \A r \in Requests : pc[r] \in {"idle", "done"}

-----------------------------------------------------------------------------
(* Requests.                                                               *)

\* PATCH /api/config/printer: try first, then save; force saves all the same.
PatchPrinter(r) ==
  /\ At(r, "idle")
  /\ \E v \in Values : todo' = [todo EXCEPT ![r] = <<<<"printer", v>>>>]
  /\ kind' = [kind EXCEPT ![r] = "printer"]
  /\ Goto(r, "probe")
  /\ UNCHANGED <<filev, memv, doc, up, behind, edits, crashes>>

\* PATCH /api/config: the [print] defaults, then the scheduler's settings.
PatchSettings(r) ==
  /\ At(r, "idle")
  /\ \E p \in Values \cup {None}, s \in Values \cup {None, Bad} :
       /\ <<p, s>> # <<None, None>>
       /\ todo' = [todo EXCEPT ![r] =
            (IF p = None THEN <<>> ELSE <<<<"print", p>>>>)
              \o (IF s = None THEN <<>> ELSE <<<<"scheduler", s>>>>)]
  /\ kind' = [kind EXCEPT ![r] = "settings"]
  /\ Goto(r, "read")
  /\ UNCHANGED <<filev, memv, doc, up, behind, edits, crashes>>

\* Fault: any live connection answers for the parameters that were asked.
FastPathAny(candidate) == conn # None

\* Nothing differs from the configuration and there is a connection.
FastPath(candidate) == conn # None /\ candidate = holder["web"]["printer"]

\* _probe_printer without a connection of its own.
ProbeFast(r) ==
  /\ At(r, "probe") /\ FastPath(todo[r][1][2])
  /\ \/ Goto(r, "read") \/ Goto(r, "done")
  /\ UNCHANGED <<filev, memv, todo, doc, kind, up, behind, edits, crashes>>

\* The link lets go, a trial connection answers or not, the link resumes.
ProbeSlow(r) ==
  /\ At(r, "probe") /\ ~FastPath(todo[r][1][2])
  /\ conn' \in {None, holder["link"]["printer"]}
  /\ \/ Goto(r, "read") \/ Goto(r, "done")
  /\ UNCHANGED <<filev, holder, jobs, adopted, todo, doc, kind, up, behind, edits, crashes>>

-----------------------------------------------------------------------------
(* configwrite.update: read, change one section, replace the file.         *)

\* A 400 or a 500: what was written before stays and is not loaded.
Refuse(r) ==
  /\ At(r, "read")
  /\ todo[r][1][2] = Bad \/ ~Parses(file)
  /\ Goto(r, "done")
  /\ behind' = IF file = holder["web"] /\ Handing = {} THEN behind ELSE behind \cup {"refused"}
  /\ UNCHANGED <<filev, memv, todo, doc, kind, up, edits, crashes>>

\* Fault: writing from the configuration in memory.
DocumentHeld == holder["web"]

\* The file as it is on the disk.
Document == file

ReadDoc(r) ==
  /\ At(r, "read") /\ todo[r][1][2] # Bad /\ Parses(file)
  /\ LET new == [Document EXCEPT ![todo[r][1][1]] = todo[r][1][2]]
     IN  IF new = Document
           THEN /\ todo' = [todo EXCEPT ![r] = Tail(@)]
                /\ Goto(r, IF Len(todo[r]) = 1 THEN "load" ELSE "read")
                /\ UNCHANGED doc
           ELSE /\ doc' = [doc EXCEPT ![r] = [base |-> file, new |-> new]]
                /\ Goto(r, "write")
                /\ UNCHANGED todo
  /\ UNCHANGED <<filev, memv, kind, up, behind, edits, crashes>>

\* Fault: open(path, "w"): a crash leaves what was written so far.
WriteInPlace(r) ==
  /\ At(r, "write")
  /\ file' = Half
  /\ UNCHANGED <<wanted, raced, memv, reqv, up, behind, edits, crashes>>

\* _atomic_write: a temporary file, then os.replace.
Write(r) ==
  /\ At(r, "write")
  /\ file' = doc[r].new
  /\ wanted' = [wanted EXCEPT ![todo[r][1][1]] = todo[r][1][2]]
  /\ raced' = (raced \/ file # doc[r].base)
  /\ todo' = [todo EXCEPT ![r] = Tail(@)]
  /\ doc' = [doc EXCEPT ![r] = None]
  /\ Goto(r, IF Len(todo[r]) = 1 THEN "load" ELSE "read")
  /\ UNCHANGED <<memv, kind, up, behind, edits, crashes>>

-----------------------------------------------------------------------------
(* reload_config, replace_config, reconfigure.                             *)

LoadFails(r) ==
  /\ At(r, "load") /\ ~Loads(file)
  /\ Goto(r, "done")
  /\ behind' = behind \cup {"refused"}
  /\ UNCHANGED <<filev, memv, todo, doc, kind, up, edits, crashes>>

Load(r) ==
  /\ At(r, "load") /\ Loads(file)
  /\ doc' = [doc EXCEPT ![r] = file]
  /\ Goto(r, Holders[1])
  /\ behind' = IF Handing = {} THEN {} ELSE {"crossed"}
  /\ adopted' = (adopted \/ Handing # {}
                  \/ (kind[r] = "settings" /\ file["printer"] # holder["web"]["printer"]))
  /\ UNCHANGED <<filev, holder, jobs, conn, todo, kind, up, edits, crashes>>

\* Fault: the runner is forgotten.
TellsRunnerNot(h) == {h} \ {"runner"}

Tells(h) == {h}

\* One assignment each.
Tell(r) ==
  \E i \in DOMAIN Holders :
    /\ At(r, Holders[i])
    /\ holder' = [h \in HolderSet |-> IF h \in Tells(Holders[i]) THEN doc[r] ELSE holder[h]]
    /\ IF i < Len(Holders) THEN Goto(r, Holders[i + 1]) /\ UNCHANGED doc
       ELSE IF kind[r] = "printer" THEN Goto(r, "drop") /\ UNCHANGED doc
       ELSE Goto(r, "done") /\ doc' = [doc EXCEPT ![r] = None]
    /\ UNCHANGED <<filev, jobs, conn, adopted, todo, kind, up, behind, edits, crashes>>

\* PrinterLink.reconfigure: drop, the new configuration, connect.
ReconfigureDrop(r) ==
  /\ At(r, "drop")
  /\ conn' = None
  /\ Goto(r, "renew")
  /\ UNCHANGED <<filev, holder, jobs, adopted, todo, doc, kind, up, behind, edits, crashes>>

ReconfigureRenew(r) ==
  /\ At(r, "renew")
  /\ holder' = [holder EXCEPT !["link"] = doc[r]]
  /\ doc' = [doc EXCEPT ![r] = None]
  /\ Goto(r, "dial")
  /\ UNCHANGED <<filev, jobs, conn, adopted, todo, kind, up, behind, edits, crashes>>

ReconfigureDial(r) ==
  /\ At(r, "dial")
  /\ conn' = IF conn = None THEN holder["link"]["printer"] ELSE conn
  /\ adopted' = (adopted /\ ~(/\ Handing = {r}
                               /\ conn' = holder["web"]["printer"]
                               /\ holder["link"]["printer"] = holder["web"]["printer"]))
  /\ Goto(r, "done")
  /\ UNCHANGED <<filev, holder, jobs, todo, doc, kind, up, behind, edits, crashes>>

\* The watchdog: a connection is lost and made again.
Lose ==
  /\ up = "up" /\ conn # None /\ edits < MaxEdits
  /\ edits' = edits + 1
  /\ conn' = None
  /\ UNCHANGED <<filev, holder, jobs, adopted, reqv, up, behind, crashes>>

Watch ==
  /\ up = "up" /\ conn = None
  /\ conn' = holder["link"]["printer"]
  /\ UNCHANGED <<filev, holder, jobs, adopted, reqv, up, behind, edits, crashes>>

-----------------------------------------------------------------------------
(* The user, and the daemon's start and end.                               *)

EditByHand ==
  /\ edits < MaxEdits
  /\ edits' = edits + 1
  /\ \/ /\ \E s \in Sections, v \in Values :
             file' = IF Parses(file) THEN [file EXCEPT ![s] = v]
                     ELSE [x \in Sections |-> v]
        /\ wanted' = file'
     \/ /\ Parses(file) /\ file' = Broken
        /\ UNCHANGED wanted
  /\ behind' = behind \cup {"edited"}
  /\ raced' = (raced \/ up \in {"checked", "copying"})
  /\ UNCHANGED <<memv, reqv, up, crashes>>

NoFile == file = Missing

\* ensure_config: is there a file, and if not, a copy of the template.
EnsureCheck ==
  /\ up = "down" /\ NoFile
  /\ up' = "checked"
  /\ UNCHANGED <<filev, memv, reqv, behind, edits, crashes>>

\* shutil.copyfile opens the file for writing, which empties it ...
EnsureOpen ==
  /\ up = "checked"
  /\ file' = Half
  /\ up' = "copying"
  /\ UNCHANGED <<wanted, raced, memv, reqv, behind, edits, crashes>>

\* ... and then fills it.
EnsureCopy ==
  /\ up = "copying"
  /\ file' = [s \in Sections |-> Template]
  /\ wanted' = IF wanted = Missing THEN file' ELSE wanted
  /\ up' = "down"
  /\ UNCHANGED <<raced, memv, reqv, behind, edits, crashes>>

\* load, then everybody gets the same object; the link connects.
Start ==
  /\ up = "down" /\ Loads(file)
  /\ up' = "up"
  /\ holder' = [h \in HolderSet |-> file]
  /\ jobs' = file["scheduler"]
  /\ conn' \in {None, file["printer"]}
  /\ adopted' = FALSE /\ behind' = {}
  /\ UNCHANGED <<filev, reqv, edits, crashes>>

Crash ==
  /\ up # "down" /\ crashes < MaxCrashes
  /\ crashes' = crashes + 1
  /\ up' = "down" /\ conn' = None
  /\ pc' = [r \in Requests |-> "done"]
  /\ todo' = [r \in Requests |-> <<>>]
  /\ doc' = [r \in Requests |-> None]
  /\ UNCHANGED <<filev, holder, jobs, adopted, kind, behind, edits>>

-----------------------------------------------------------------------------
Init ==
  /\ file = Missing /\ wanted = Missing /\ raced = FALSE
  /\ up = "down" /\ conn = None
  /\ holder = [h \in HolderSet |-> Missing] /\ jobs = None
  /\ pc = [r \in Requests |-> "idle"] /\ todo = [r \in Requests |-> <<>>]
  /\ doc = [r \in Requests |-> None] /\ kind = [r \in Requests |-> "settings"]
  /\ behind = {} /\ adopted = FALSE
  /\ edits = 0 /\ crashes = 0

Step(r) ==
  \/ PatchPrinter(r) \/ PatchSettings(r) \/ ProbeFast(r) \/ ProbeSlow(r)
  \/ Refuse(r) \/ ReadDoc(r) \/ Write(r) \/ LoadFails(r) \/ Load(r) \/ Tell(r)
  \/ ReconfigureDrop(r) \/ ReconfigureRenew(r) \/ ReconfigureDial(r)

Next ==
  \/ \E r \in Requests : Step(r)
  \/ Lose \/ Watch \/ EditByHand \/ EnsureCheck \/ EnsureOpen \/ EnsureCopy \/ Start \/ Crash

Spec == Init /\ [][Next]_vars

-----------------------------------------------------------------------------
(* Properties.                                                             *)

TypeOK ==
  /\ file \in Content \cup {Missing, Broken, Half}
  /\ wanted \in Content \cup {Missing}
  /\ \A h \in HolderSet : holder[h] \in Content \cup {Missing}
  /\ conn \in Values \cup {None}
  /\ up \in {"down", "checked", "copying", "up"}
  /\ up = "up" => file # Half /\ \A h \in HolderSet : holder[h] \in Content
  /\ \A r \in Requests :
       /\ pc[r] \in {"write"} => doc[r] \in [base : Content, new : Content]
       /\ pc[r] \in HolderSet \cup {"drop", "renew"} => doc[r] \in Content
       /\ pc[r] \in {"probe", "read", "write"} => todo[r] # <<>>

(* lazy.py:43, configwrite.py:10: what a user or a request put into the    *)
(* file stays there until somebody changes that section, whatever else is  *)
(* written, loaded, refused or crashes, and only a file that never held    *)
(* anything can be found half written - unless the file changed between a  *)
(* writer's look at it and its replacement, which nothing prevents.        *)
NothingLost ==
  ~raced => /\ Parses(file) => file = wanted
            /\ file = Half => wanted = Missing

(* runtime.py:52: nobody who keeps a reference to the configuration is     *)
(* forgotten.  When no request is under way, every holder has what the     *)
(* file says - unless it was edited by hand, a request was refused after   *)
(* its first section had been written, or two handed out at once.          *)
InForce ==
  up = "up" /\ Quiet /\ behind = {} => \A h \in HolderSet : holder[h] = file

(* web/app.py:541: a probe that is answered from the live connection is an *)
(* answer of the printer that was asked for - unless the configuration is  *)
(* being handed out, was handed out by two requests at once, or came from  *)
(* a hand edit with the reload of another request.                         *)
ProbeHonest ==
  \A r \in Requests :
    At(r, "probe") /\ FastPath(todo[r][1][2]) /\ Handing = {} /\ ~adopted
      => conn = todo[r][1][2]

(* runtime.py:52: a setting that was changed on the page and is in the     *)
(* file is the one that due jobs go by.                                    *)
GraceInForce ==
  up = "up" /\ Quiet /\ behind = {} => jobs = file["scheduler"]
=============================================================================
