----------------------------- MODULE Submission -----------------------------
(***************************************************************************)
(* What a task prints: the file, the plate, the spools and the options,    *)
(* from the page or the command line through the spool directory and the   *)
(* printer's storage to the start command.                                 *)
(*                                                                         *)
(* A file is the model it was sliced from and whether it still carries     *)
(* Auxiliaries/; its plates and their filaments are those of the model.  A *)
(* name on the printer's storage holds one file: who uploads under a name  *)
(* in use replaces what was there.                                         *)
(*                                                                         *)
(* When tasks come due, are changed or cancelled is TaskLifecycle's;       *)
(* connections that fail or are shared are PrinterLink's.                  *)
(***************************************************************************)
EXTENDS Integers, Sequences, FiniteSets

CONSTANTS
  Tasks,
  Models,     \* what a file can have been sliced from
  Sliced,     \* for each model its plates: number -> set of filaments
  Heavy,      \* models whose original files carry Auxiliaries/
  Spools,     \* file ids under spool_dir
  Originals,  \* the user's own files that bpq submit is given
  Names,      \* names on the printer's storage
  TrayIds,    \* global numbers of the AMS slots
  Reels,      \* what a slot can be set to: [type, idx, color]
  Loaded,     \* what is in the slots to begin with
  Choices,    \* slots the user picks by hand
  Settings,   \* what is asked for of the option: "on", "off", or None
  MaxAsks,    \* bound on mapping requests of the page under way
  MaxUpsets,  \* bound on files saved over, spools changed, defaults changed and
              \* connections lost, together
  None        \* nothing: no value of the above

Switch   == {"on", "off"}        \* one of the five options
External == -1                   \* [print] external_spool_id

\* A plate of a sliced file lists its filaments, numbered from 1, no number twice;
\* colours are points of a line.
IsPlate(fs) ==
  /\ IsFiniteSet(fs)
  /\ \A f \in fs : f.id \in Nat \ {0} /\ f.color \in Int
  /\ \A f, g \in fs : f.id = g.id => f = g

ASSUME SubmissionAssumption ==
  /\ TrayIds \subseteq Nat
  /\ Spools \cap Originals = {}
  /\ None \notin Tasks \cup Spools \cup (Spools \X Nat)
  /\ \A m \in Models : \A p \in DOMAIN Sliced[m] : p \in Nat /\ IsPlate(Sliced[m][p])
  /\ \A r \in Reels : r.color \in Int
  /\ Heavy \subseteq Models
  /\ Loaded \in [TrayIds -> Reels]
  /\ Choices \subseteq TrayIds \cup {External}
  /\ Settings \subseteq Switch \cup {None}
  /\ MaxAsks \in Nat /\ MaxUpsets \in Nat

NoFile   == [nofile |-> TRUE]
Partial  == [partial |-> TRUE]   \* what an upload that broke off leaves
Hole     == -2                   \* null: the page assigned past the end
Unread   == <<>>                 \* a snapshot without trays

File    == [model : Models, aux : BOOLEAN]
Handed  == {[model |-> m, aux |-> m \in Heavy] : m \in Models}   \* as exported
PlateNos == UNION {DOMAIN Sliced[m] : m \in Models}
Paths   == Spools \cup Originals

VARIABLES
  disk,      \* spool and user's files
  storage,   \* the printer's storage
  trays,     \* what is in the AMS, as the printer reports it
  seen,      \* the trays of the link's snapshot
  defaults,  \* the global default of an option
  conn,      \* the default the live transport was built with, or None
  page,      \* the page for a new task
  asks,      \* replies to its mapping requests that have not arrived
  row,       \* the tasks' rows
  pc,        \* where a submission or a fire of the task is
  lent,      \* the task for which the link is lent out
  busy,      \* the printer prints
  foreign,   \* ghost: why the printer may hold something else for a task
  upsets

pagev == <<page, asks>>
linkv == <<seen, defaults, conn, lent>>
realv == <<trays, busy, upsets>>
vars  == <<disk, storage, pagev, linkv, realv, row, pc, foreign>>

-----------------------------------------------------------------------------
(* threemf.match_ams: colours are points of a line.                        *)

Distance(a, b) == IF a > b THEN a - b ELSE b - a

\* The same model if there is one, else the same type.
Candidates(f, held) ==
  LET alike == {i \in DOMAIN held : f.idx # "" /\ held[i].idx = f.idx}
  IN  IF alike # {} THEN alike ELSE {i \in DOMAIN held : held[i].type = f.type}

\* min() over the slots in order: the first of the nearest.
Nearest(f, held) ==
  LET c == Candidates(f, held)
      d(i) == Distance(f.color, held[i].color)
  IN  IF c = {} THEN External
      ELSE CHOOSE i \in c : \A j \in c : d(i) < d(j) \/ (d(i) = d(j) /\ i <= j)

Ids(fs) == {f.id : f \in fs}
Last(fs) == CHOOSE n \in Ids(fs) : \A k \in Ids(fs) : k <= n

\* Fault: appended in the order of the filaments, as v0.1 did.
MatchDense(fs, held) ==
  IF fs = {} THEN <<>> ELSE
  [n \in 1..Cardinality(fs) |->
     Nearest(CHOOSE f \in fs : Cardinality({g \in fs : g.id < f.id}) = n - 1, held)]

\* The entry of filament n is at n; numbers not used go to the external spool.
MatchAms(fs, held) ==
  IF fs = {} THEN <<>> ELSE
  [n \in 1..Last(fs) |->
     IF n \in Ids(fs) THEN Nearest(CHOOSE f \in fs : f.id = n, held) ELSE External]

\* Fault: the first plate when none is named.
PickFirst(m, p) ==
  IF p = None THEN {CHOOSE k \in PlateNos : \A j \in PlateNos : k <= j}
  ELSE DOMAIN Sliced[m] \cap {p}

\* ThreeMF.plate, _pick_plate: several plates and none named is refused.
PickPlate(m, p) ==
  IF p # None THEN DOMAIN Sliced[m] \cap {p}
  ELSE IF Cardinality(DOMAIN Sliced[m]) = 1 THEN DOMAIN Sliced[m] ELSE {}

Slim(f) == [f EXCEPT !.aux = FALSE]

-----------------------------------------------------------------------------
(* The page for a new task.                                                *)

BlankPage == [file |-> None, plate |-> None, mapping |-> <<>>, chosen |-> <<>>,
              for |-> None, basis |-> Unread]

\* The page is followed as long as a task is left to submit.
Left  == {t \in Tasks : row[t] = None}
InUse == page.file # None /\ Left # {}

Forget(t) ==
  IF Left = {t} THEN page' = BlankPage /\ asks' = {} ELSE UNCHANGED pagev

PlateOf(s, p) ==
  LET plates == Sliced[disk[s].model] IN UNION {plates[k] : k \in {p} \cap DOMAIN plates}

\* GET .../mapping: answered with the snapshot of now, received at any later
\* time and in any order.
Ask(s, p, fs) ==
  IF fs = {} THEN UNCHANGED asks
  ELSE /\ Cardinality(asks) < MaxAsks
       /\ asks' = asks \cup {[for |-> <<s, p>>, basis |-> seen, mapping |-> MatchAms(fs, seen)]}

\* Fault: the directory is named after the file, not after a new id.
FreshIdNot(s) == TRUE

FreshId(s) == disk[s] = NoFile

\* POST /api/files: into the spool, without Auxiliaries/.  A file that is no
\* 3mf or has no plates is refused and its id never told.
Upload(s) ==
  /\ FreshId(s) /\ Left # {}
  /\ \E m \in Models :
       /\ DOMAIN Sliced[m] # {}
       /\ disk' = [disk EXCEPT ![s] = Slim([model |-> m, aux |-> m \in Heavy])]
       /\ LET p == CHOOSE k \in DOMAIN Sliced[m] : \A j \in DOMAIN Sliced[m] : k <= j
          IN  page' = [page EXCEPT !.file = s, !.plate = p] /\ Ask(s, p, Sliced[m][p])
  /\ UNCHANGED <<storage, linkv, realv, row, pc, foreign>>

\* The mapping that is shown stays until the reply comes.
ChoosePlate ==
  /\ InUse
  /\ \E p \in DOMAIN Sliced[disk[page.file].model] \ {page.plate} :
       /\ page' = [page EXCEPT !.plate = p, !.chosen = <<>>]
       /\ Ask(page.file, p, PlateOf(page.file, p))
  /\ UNCHANGED <<disk, storage, linkv, realv, row, pc, foreign>>

\* A reply replaces the mapping, whatever it was asked for; an error empties it.
Arrive ==
  /\ InUse
  /\ \E a \in asks :
       /\ asks' = asks \ {a}
       /\ page' \in
            {[page EXCEPT !.mapping = a.mapping, !.for = a.for, !.basis = a.basis,
                          !.chosen = <<>>],
             [page EXCEPT !.mapping = <<>>, !.for = None, !.basis = Unread, !.chosen = <<>>]}
       /\ UNCHANGED <<disk, storage, linkv, realv, row, pc, foreign>>

\* next[i] = v, where i is the place of the filament in the plate's list.
PickTray ==
  /\ InUse
  /\ \E f \in PlateOf(page.file, page.plate), v \in Choices :
       LET fs == PlateOf(page.file, page.plate)
           i == Cardinality({g \in fs : g.id <= f.id})
           n == IF i > Len(page.mapping) THEN i ELSE Len(page.mapping)
       IN  page' = [page EXCEPT
             !.mapping = [k \in 1..n |-> IF k = i THEN v
                                         ELSE IF k <= Len(@) THEN @[k] ELSE Hole],
             !.for = None, !.basis = Unread,
             !.chosen = [k \in {f.id} \cup DOMAIN @ |-> IF k = f.id THEN v ELSE @[k]]]
  /\ UNCHANGED <<asks, disk, storage, linkv, realv, row, pc, foreign>>

-----------------------------------------------------------------------------
(* Submitting.                                                             *)

Row(source, name, p, mapping, option) ==
  [state |-> "pending", source |-> source, name |-> name, plate |-> p,
   mapping |-> mapping, option |-> option,
   wanted |-> disk[source], basis |-> Unread]

Open(t) == pc[t] \notin {"none", "done"}

\* Of a row that has come to its end only the outcome is kept.
End(t, outcome) ==
  /\ row' = [row EXCEPT ![t] = [state |-> outcome]]
  /\ foreign' = [foreign EXCEPT ![t] = {}]
  /\ pc' = [pc EXCEPT ![t] = "done"]
  /\ lent' = IF lent = t THEN None ELSE lent

\* upload_timing: early uploads at once, late leaves it to the fire.
Accept(t, r) ==
  /\ row' = [row EXCEPT ![t] = r]
  /\ \E timing \in {"early", "late"} :
       pc' = [pc EXCEPT ![t] = IF timing = "early" THEN "put" ELSE "due"]
  /\ foreign' = [foreign EXCEPT ![t] = {}]

\* POST /api/tasks as the page does it: the plate and the mapping on show.
PageSubmits(t) ==
  /\ row[t] = None /\ InUse
  /\ \E n \in Names, o \in Settings :
       Accept(t, [Row(page.file, n, page.plate,
                      IF PlateOf(page.file, page.plate) = {} THEN <<>> ELSE page.mapping, o)
                  EXCEPT !.basis = IF page.for = <<page.file, page.plate>>
                                     THEN page.basis ELSE Unread])
  /\ page' = BlankPage /\ asks' = {}
  /\ UNCHANGED <<disk, storage, linkv, realv>>

\* use_ams or not, --no-ams: without it the printer feeds from outside.
Feeds(fs, held) ==
  {[mapping |-> MatchAms(fs, held), basis |-> held], [mapping |-> <<>>, basis |-> Unread]}

\* The rows that file s can be submitted with: one plate, named or the only one.
Offers(s, held) ==
  LET plates == UNION {PickPlate(disk[s].model, p) : p \in PlateNos \cup {None}}
  IN  UNION {{[Row(s, n, k, feed.mapping, o) EXCEPT !.basis = feed.basis] :
                feed \in Feeds(PlateOf(s, k), held), n \in Names, o \in Settings} :
               k \in plates}

\* POST /api/tasks by another client: the service picks plate and mapping.
ServiceSubmits(t) ==
  /\ row[t] = None
  /\ \E s \in Spools :
       disk[s] # NoFile /\ \E r \in Offers(s, seen) : Accept(t, r)
  /\ Forget(t)
  /\ UNCHANGED <<disk, storage, linkv, realv>>

\* bpq submit: the user's own file where it lies, the trays through the daemon
\* or from the printer, which may not have reported yet.
CmdSubmits(t) ==
  /\ row[t] = None
  /\ \E f \in Originals :
       disk[f] # NoFile /\ \E r \in UNION {Offers(f, held) : held \in {seen, trays, Unread}} :
                             Accept(t, r)
  /\ Forget(t)
  /\ UNCHANGED <<disk, storage, linkv, realv>>

-----------------------------------------------------------------------------
(* Uploading: TaskRunner._upload and LanTransport.upload.                  *)

\* Fault: whoever asks gets it.
BorrowShared(t) ==
  /\ lent' = t
  /\ conn' = IF conn = None THEN defaults ELSE conn
  /\ IF conn = None THEN seen' \in {trays, Unread} ELSE UNCHANGED seen

\* PrinterLink.session: one at a time, connected if it is not.  A new transport
\* that has heard nothing yet shows no trays.
Borrow(t) ==
  /\ lent = None /\ lent' = t
  /\ conn' = IF conn = None THEN defaults ELSE conn
  /\ IF conn = None THEN seen' \in {trays, Unread} ELSE UNCHANGED seen

\* Who else has a file under the name does not have it any more.
Replaced(t, own) ==
  [u \in Tasks |->
     IF u = t THEN own
     ELSE IF Open(u) /\ row[u].name = row[t].name THEN foreign[u] \cup {"overwritten"}
     ELSE foreign[u]]

\* STOR: from here on the name holds less than a file.
PutBegin(t) ==
  /\ pc[t] \in {"put", "fire put"}
  /\ disk[row[t].source] # NoFile
  /\ IF pc[t] = "put" /\ row[t].source \in Spools
       THEN Borrow(t) ELSE UNCHANGED <<seen, conn, lent>>   \* bpq has its own
  /\ storage' = [storage EXCEPT ![row[t].name] = Partial]
  /\ foreign' = Replaced(t, IF disk[row[t].source] = row[t].wanted THEN {} ELSE {"altered"})
  /\ pc' = [pc EXCEPT ![t] = IF @ = "put" THEN "putting" ELSE "fire putting"]
  /\ UNCHANGED <<disk, defaults, pagev, realv, row>>

\* Fault: the size on the printer is not compared.
PutEndUnchecked(t) ==
  /\ pc[t] \in {"putting", "fire putting"}
  /\ \E arrived \in {storage[row[t].name], disk[row[t].source]} :
       storage' = [storage EXCEPT ![row[t].name] = arrived]
  /\ row' = [row EXCEPT ![t].state = "uploaded"]
  /\ pc' = [pc EXCEPT ![t] = IF @ = "putting" THEN "due" ELSE "start"]
  /\ lent' = IF lent = t /\ pc[t] = "putting" THEN None ELSE lent
  /\ foreign' = Replaced(t, foreign[t])
  /\ UNCHANGED <<disk, seen, defaults, conn, pagev, realv>>

\* The size on the printer is compared with the file's; a printer that would not
\* tell it is believed.
PutEnd(t) ==
  /\ pc[t] \in {"putting", "fire putting"}
  /\ \E arrived \in {storage[row[t].name], disk[row[t].source]}, told \in BOOLEAN :
       LET whole == arrived = disk[row[t].source]
       IN  /\ storage' = [storage EXCEPT ![row[t].name] = arrived]
           /\ \/ /\ told => whole
                 /\ row' = [row EXCEPT ![t].state = "uploaded"]
                 /\ pc' = [pc EXCEPT ![t] = IF @ = "putting" THEN "due" ELSE "start"]
                 /\ lent' = IF lent = t /\ pc[t] = "putting" THEN None ELSE lent
                 /\ foreign' = Replaced(t, foreign[t] \cup IF told THEN {} ELSE {"unchecked"})
              \/ ~whole /\ End(t, "failed")
  /\ UNCHANGED <<disk, seen, defaults, conn, pagev, realv>>

\* The file is gone, or there is no connection.
PutFails(t) ==
  /\ pc[t] \in {"put", "fire put"}
  /\ End(t, "failed")
  /\ UNCHANGED <<disk, storage, seen, defaults, conn, pagev, realv>>

-----------------------------------------------------------------------------
(* Firing.                                                                 *)

\* The link is borrowed and the printer asked; it may be busy, or not there.
Fire(t) ==
  /\ pc[t] = "due"
  /\ Borrow(t)
  /\ ~busy
  /\ pc' = [pc EXCEPT ![t] = IF row[t].state = "uploaded" THEN "start" ELSE "fire put"]
  /\ UNCHANGED <<disk, storage, defaults, pagev, realv, row, foreign>>

FireGivesUp(t) ==
  /\ pc[t] = "due" /\ lent = None
  /\ \/ busy /\ End(t, "aborted")
     \/ conn = None /\ End(t, "failed")
  /\ UNCHANGED <<disk, storage, seen, defaults, conn, pagev, realv>>

\* _build_project_file: the options are resolved with the transport's own
\* configuration.
Payload(t) ==
  [name |-> row[t].name, plate |-> row[t].plate, mapping |-> row[t].mapping,
   option |-> IF row[t].option # None THEN row[t].option ELSE conn]

Start(t) ==
  /\ pc[t] = "start"
  /\ \/ End(t, "started") /\ busy' = TRUE
     \/ End(t, "failed") /\ UNCHANGED busy
  /\ UNCHANGED <<disk, storage, seen, defaults, conn, pagev, trays, upsets>>

-----------------------------------------------------------------------------
(* The user, the printer and the link.                                     *)

Upset == upsets < MaxUpsets /\ upsets' = upsets + 1

\* The user saves over, moves or deletes a file of his own.
Save ==
  /\ Upset
  /\ \E o \in Originals, f \in Handed \cup {NoFile} :
       f # disk[o] /\ disk' = [disk EXCEPT ![o] = f]
  /\ \A t \in Tasks : pc[t] \notin {"putting", "fire putting"}
  /\ UNCHANGED <<storage, pagev, linkv, trays, busy, row, pc, foreign>>

Swap ==
  /\ Upset /\ ~busy
  /\ \E i \in TrayIds, r \in Reels : r # trays[i] /\ trays' = [trays EXCEPT ![i] = r]
  /\ UNCHANGED <<disk, storage, pagev, linkv, busy, row, pc, foreign>>

PrintEnds ==
  /\ busy /\ busy' = FALSE
  /\ UNCHANGED <<disk, storage, pagev, linkv, trays, upsets, row, pc, foreign>>

Report ==
  /\ conn # None /\ seen # trays /\ seen' = trays
  /\ UNCHANGED <<disk, storage, pagev, defaults, conn, lent, realv, row, pc, foreign>>

\* Let go of for Studio, or lost; the snapshot stays.
Disconnect ==
  /\ conn # None /\ lent = None /\ Upset
  /\ conn' = None
  /\ UNCHANGED <<disk, storage, pagev, seen, defaults, lent, trays, busy, row, pc, foreign>>

Connect ==
  /\ conn = None
  /\ conn' = defaults /\ seen' \in {trays, Unread}
  /\ UNCHANGED <<disk, storage, pagev, defaults, lent, realv, row, pc, foreign>>

\* PATCH /api/config: runner, service and link are given the new one.
ChangeDefaults ==
  /\ Upset
  /\ defaults' \in Switch \ {defaults}
  /\ UNCHANGED <<disk, storage, pagev, seen, conn, lent, trays, busy, row, pc, foreign>>

Init ==
  /\ \E f \in [Originals -> Handed] : disk = [p \in Paths |-> IF p \in Spools THEN NoFile ELSE f[p]]
  /\ storage = [n \in Names |-> NoFile]
  /\ trays = Loaded /\ seen = Unread
  /\ defaults = "off" /\ conn = None /\ lent = None /\ busy = FALSE
  /\ page = BlankPage /\ asks = {}
  /\ row = [t \in Tasks |-> None] /\ pc = [t \in Tasks |-> "none"]
  /\ foreign = [t \in Tasks |-> {}]
  /\ upsets = 0

Next ==
  \/ \E s \in Spools : Upload(s)
  \/ ChoosePlate \/ Arrive \/ PickTray
  \/ \E t \in Tasks :
       \/ PageSubmits(t) \/ ServiceSubmits(t) \/ CmdSubmits(t)
       \/ PutBegin(t) \/ PutEnd(t) \/ PutFails(t)
       \/ Fire(t) \/ FireGivesUp(t) \/ Start(t)
  \/ Save \/ Swap \/ PrintEnds \/ Report \/ Disconnect \/ Connect \/ ChangeDefaults

Spec == Init /\ [][Next]_vars

-----------------------------------------------------------------------------
(* Properties.                                                             *)

IsMapping(m) == \A n \in DOMAIN m : m[n] \in TrayIds \cup {External, Hole}

TypeOK ==
  /\ \A p \in Paths : disk[p] \in File \cup {NoFile}
  /\ \A n \in Names : storage[n] \in File \cup {NoFile, Partial}
  /\ seen \in [TrayIds -> Reels] \cup {Unread}
  /\ conn \in Switch \cup {None}
  /\ lent \in Tasks \cup {None}
  /\ IsMapping(page.mapping)
  /\ \A t \in Tasks : Open(t) =>
       row[t].source \in Paths /\ row[t].plate \in PlateNos /\ IsMapping(row[t].mapping)
  /\ \A t \in Tasks : pc[t] \in {"fire put", "fire putting", "start"} => lent = t

\* The printer is told to print the payload of t.
Starts(t) == pc[t] = "start" /\ row'[t].state = "started"

\* The filaments of the plate that the printer is told to print.
Printed(t) == Sliced[storage[row[t].name].model][row[t].plate]

(* service.py:178, threemf.py:4, lan.py:205: what the printer starts is    *)
(* the file as it was when the task was submitted, whole, and with the     *)
(* plate in it - unless another task has uploaded under the same name      *)
(* since, the user changed the file that bpq submit left in its place, or  *)
(* the printer would not tell the size of what had arrived.                *)
PrintsItsFile ==
  [][\A t \in Tasks : Starts(t) /\ foreign[t] = {} =>
       LET f == storage[Payload(t).name]
       IN  /\ f = row[t].wanted
           /\ Payload(t).plate \in DOMAIN Sliced[f.model]
           /\ row[t].source \in Spools => ~f.aux]_vars

\* A spool of the filament's own model if there is one, else of its type, and
\* none of these with a nearer colour; the external spool if there is none.
Fits(f, i) ==
  LET alike(j) == f.idx # "" /\ trays[j].idx = f.idx
      same(j)  == trays[j].type = f.type
  IN  IF i \notin TrayIds THEN i = External /\ \A j \in TrayIds : ~alike(j) /\ ~same(j)
      ELSE /\ alike(i) \/ (same(i) /\ \A j \in TrayIds : ~alike(j))
           /\ \A j \in TrayIds : (alike(i) /\ alike(j)) \/ (~alike(i) /\ same(j)) =>
                Distance(f.color, trays[i].color) <= Distance(f.color, trays[j].color)

(* threemf.py:184: no filament is fed from the wrong spool.  When a print  *)
(* starts, the entry at the number of each filament of the plate is a slot *)
(* that fits it - unless somebody chose, the page was submitted with the   *)
(* mapping of another plate, the spools are no longer those that the       *)
(* mapping was made from, or the printer holds another file.               *)
FeedsRightSpool ==
  [][\A t \in Tasks :
       Starts(t) /\ row[t].basis = trays /\ foreign[t] = {} =>
         \A f \in Printed(t) :
           f.id \in DOMAIN Payload(t).mapping /\ Fits(f, Payload(t).mapping[f.id])]_vars

(* threemf.py:180: entry i of the mapping is for filament i + 1.  A slot   *)
(* that the user chose on the page for a filament is the one that is       *)
(* sent for it.                                                            *)
SpoolAsChosen ==
  \A n \in DOMAIN page.chosen :
    n \in DOMAIN page.mapping /\ page.mapping[n] = page.chosen[n]

(* README.md:152, models.py:83: a task that follows the global default is  *)
(* printed with the default as it is when its time comes.                  *)
DefaultsFollow ==
  [][\A t \in Tasks :
       pc[t] = "due" /\ pc'[t] \in {"start", "fire put"} /\ row[t].option = None =>
         Payload(t)'.option = defaults]_vars

-----------------------------------------------------------------------------
(* Inductive strengthenings.                                               *)

Slots  == TrayIds \cup {External, Hole}
Held   == [TrayIds -> Reels] \cup {Unread}
Places == {"none", "put", "putting", "due", "fire put", "fire putting", "start", "done"}
Rows   == [state : {"pending", "uploaded"}, source : Paths, name : Names,
           plate : PlateNos, mapping : Seq(Slots), option : Settings,
           wanted : File, basis : Held]

(* What is in the spool has no Auxiliaries/.                               *)
StoreInv ==
  /\ disk \in [Paths -> File \cup {NoFile}]
  /\ storage \in [Names -> File \cup {NoFile, Partial}]
  /\ trays \in [TrayIds -> Reels] /\ seen \in Held
  /\ defaults \in Switch /\ conn \in Switch \cup {None}
  /\ lent \in Tasks \cup {None}
  /\ \A s \in Spools : disk[s] # NoFile => ~disk[s].aux

\* The mapping x is the one for the plate and the trays it names.
Matched(x) ==
  /\ disk[x.for[1]] # NoFile
  /\ x.mapping = MatchAms(PlateOf(x.for[1], x.for[2]), x.basis)

(* The page shows a plate of a file in the spool, and a mapping, there or  *)
(* on its way, that says what it was made of was made of that.             *)
PageInv ==
  /\ page \in [file : Spools \cup {None}, plate : PlateNos \cup {None},
               mapping : Seq(Slots), chosen : {page.chosen},
               for : (Spools \X PlateNos) \cup {None}, basis : Held]
  /\ asks \subseteq [for : Spools \X PlateNos, basis : Held, mapping : Seq(Slots)]
  /\ page.file # None => /\ disk[page.file] # NoFile
                         /\ page.plate \in DOMAIN Sliced[disk[page.file].model]
  /\ page.for # None => Matched(page)
  /\ \A a \in asks : Matched(a)

(* A row has a plate of the file that was meant, and a mapping for that    *)
(* plate; once it says uploaded and nothing else has come under its name,  *)
(* the printer has that file.                                              *)
RowOk(t) ==
  LET r == row[t]
  IN  /\ r \in Rows
      /\ r.plate \in DOMAIN Sliced[r.wanted.model]
      /\ r.source \in Spools => ~r.wanted.aux
      /\ r.basis # Unread =>
           r.mapping = MatchAms(Sliced[r.wanted.model][r.plate], r.basis)
      /\ pc[t] = "start" => r.state = "uploaded"
      /\ pc[t] \in {"putting", "fire putting"} /\ foreign[t] = {}
           => disk[r.source] = r.wanted
      /\ r.state = "uploaded" /\ foreign[t] = {} => storage[r.name] = r.wanted

(* Whoever fires has the link.                                             *)
TaskOk(t) ==
  /\ pc[t] \in Places
  /\ pc[t] \in {"fire put", "fire putting", "start"} => lent = t
  /\ pc[t] \in {"put", "putting", "fire put", "fire putting"} => row[t].state = "pending"
  /\ Open(t) => RowOk(t)

TaskInv ==
  /\ DOMAIN pc = Tasks /\ DOMAIN row = Tasks /\ DOMAIN foreign = Tasks
  /\ \A t \in Tasks : TaskOk(t)
=============================================================================
