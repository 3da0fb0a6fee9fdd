---------------------------- MODULE LanTransport ----------------------------
(***************************************************************************)
(* LanTransport and the ReportAccumulator inside it: a picture of the      *)
(* printer put together from full and incremental MQTT reports, and a      *)
(* start command whose reply comes back among everybody else's.            *)
(*                                                                         *)
(* paho's thread merges what arrives; the thread of a fire waits for the   *)
(* first state, reads it, sends the command and waits for its reply.  The  *)
(* connection may break and come back by itself, and what the printer said *)
(* meanwhile is lost.                                                      *)
(***************************************************************************)
EXTENDS Integers, Sequences

CONSTANTS
  Tasks,       \* tasks to start, each once; the id is the sequence_id
  Units,       \* ids of AMS units
  Trays,       \* slots of a unit
  Fields,      \* fields of a tray (tray_type, tray_color, ...)
  Values,      \* values of such a field
  Alarms,      \* HMS alarms
  MaxReplies,  \* MAX_REPLIES
  MaxChanges,  \* bound on what the printer does by itself
  MaxBreaks,   \* bound on broken connections and on pulls
  MaxWire      \* bound on reports on their way, replies not counted

None == "none"

ASSUME LanAssumption ==
  /\ None \notin Tasks
  /\ {MaxReplies, MaxChanges, MaxBreaks, MaxWire} \subseteq Nat
  /\ MaxReplies > 0
  /\ Fields # {}

VARIABLES
  real,       \* what the printer would report in full now
  online,     \* is the MQTT connection up
  pull,       \* has a pushall been asked for and not answered
  wire,       \* messages from the printer, oldest first
  raw,        \* ReportAccumulator._raw
  told,       \* the listener's picture, made of patches
  stateEvent, \* LanTransport._state_event
  replies,    \* LanTransport._replies, oldest first
  replyEvent, \* LanTransport._reply_event
  pc, task,   \* the fire: where it is and what it starts
  answer,     \* what the printer answered to each start command
  outcome,    \* what start made of it
  noise,      \* ghost: has another reply arrived since the command was sent
  deaf,       \* ghost: tasks whose wait timed out or was ended by noise
  gone,       \* ghost: units that were unplugged
  changes, breaks

printerv == <<real, gone, changes>>
netv     == <<online, pull, wire, breaks>>
accv     == <<raw, told, stateEvent>>
replyv   == <<replies, replyEvent, noise>>
firev    == <<pc, task, outcome, deaf>>
vars == <<printerv, netv, accv, replyv, firev, answer>>

Gcode  == {"IDLE", "RUNNING", "PREPARE"}   \* PREPARE stands for what no enum knows
Keys   == {"gcode_state", "ams", "hms"}

-----------------------------------------------------------------------------
(* Merging: dicts key by key, the lists of units and trays by id, any      *)
(* other list whole.                                                       *)

Over(f, g) ==
  [x \in DOMAIN f \cup DOMAIN g |-> IF x \in DOMAIN g THEN g[x] ELSE f[x]]

MergeById(cur, inc, Merge(_, _)) ==
  Over(Over(cur, inc), [i \in DOMAIN cur \cap DOMAIN inc |-> Merge(cur[i], inc[i])])

MergeTrays(cur, inc) == MergeById(cur, inc, Over)
MergeUnits(cur, inc) == MergeById(cur, inc, MergeTrays)

\* Fault: v0.1, which replaced the list of units.
DeepMergeReplacing(base, inc) == Over(base, inc)

DeepMerge(base, inc) ==
  Over(Over(base, inc),
       [k \in {"ams"} \cap DOMAIN base \cap DOMAIN inc |-> MergeUnits(base[k], inc[k])])

(* The snapshot: a state that is missing or unknown is UNKNOWN, never      *)
(* IDLE; a list that was never reported is empty.                          *)
Job(r) ==
  IF "gcode_state" \in DOMAIN r /\ r["gcode_state"] \in {"IDLE", "RUNNING"}
    THEN r["gcode_state"] ELSE "UNKNOWN"

Ams(r) == IF "ams" \in DOMAIN r THEN r["ams"] ELSE [u \in {} |-> None]

Hms(r) == IF "hms" \in DOMAIN r THEN r["hms"] ELSE {}

\* What the pages get: the trays of all units with their global numbers.
GlobalId(u, s) == u * 4 + s

Shown(r) ==
  LET units == Ams(r)
  IN  [state |-> Job(r), hms |-> Hms(r),
       trays |-> UNION {{<<GlobalId(u, s), units[u][s]>> : s \in DOMAIN units[u]} :
                          u \in DOMAIN units}]

\* Fault: what went back to its default is not in the patch.
MergePatchTruthy(before, after) ==
  [k \in {x \in DOMAIN after : before[x] # after[x] /\ (x = "hms" => after[x] # {})} |-> after[k]]

\* The fields that differ; a list is sent whole.
MergePatch(before, after) ==
  [k \in {x \in DOMAIN after : before[x] # after[x]} |-> after[k]]

Empty == [k \in {} |-> None]

-----------------------------------------------------------------------------
(* The printer.                                                            *)

Say(m) == wire' = IF online THEN Append(wire, m) ELSE wire
Report(r) == [report |-> r, seq |-> None, result |-> None]
Reply(q, res) == [report |-> Empty, seq |-> q, result |-> res]

RoomToSay == Len(wire) < MaxWire

\* It reports the fields that changed and nothing else.
PrinterChanges ==
  /\ changes < MaxChanges /\ RoomToSay
  /\ changes' = changes + 1
  /\ \/ \E s \in Gcode \ {real["gcode_state"]} :
          /\ real' = [real EXCEPT !["gcode_state"] = s]
          /\ Say(Report([k \in {"gcode_state"} |-> s]))
     \/ \E a \in (SUBSET Alarms) \ {real["hms"]} :
          /\ real' = [real EXCEPT !["hms"] = a]
          /\ Say(Report([k \in {"hms"} |-> a]))
     \/ \E u \in DOMAIN real["ams"], s \in Trays, f \in Fields, v \in Values :
          /\ real["ams"][u][s][f] # v
          /\ real' = [real EXCEPT !["ams"][u][s][f] = v]
          /\ Say(Report([k \in {"ams"} |->
                          [i \in {u} |-> [j \in {s} |-> [x \in {f} |-> v]]]]))
  /\ UNCHANGED <<online, pull, breaks, gone, accv, replyv, firev, answer>>

\* A unit is unplugged: no report names it any more.
Unplug(u) ==
  /\ changes < MaxChanges
  /\ changes' = changes + 1
  /\ u \in DOMAIN real["ams"]
  /\ real' = [real EXCEPT !["ams"] = [i \in (DOMAIN @) \ {u} |-> @[i]]]
  /\ gone' = gone \cup {u}
  /\ UNCHANGED <<netv, accv, replyv, firev, answer>>

\* The answer to pushall.
PushAll ==
  /\ pull /\ online /\ RoomToSay
  /\ pull' = FALSE
  /\ wire' = Append(wire, Report(real))
  /\ UNCHANGED <<printerv, online, breaks, accv, replyv, firev, answer>>

-----------------------------------------------------------------------------
(* The connection: paho connects again by itself; _on_connect subscribes   *)
(* and asks for everything, and keeps what was merged before.              *)

Break ==
  /\ online /\ breaks < MaxBreaks
  /\ breaks' = breaks + 1
  /\ online' = FALSE /\ pull' = FALSE /\ wire' = <<>>
  /\ UNCHANGED <<printerv, accv, replyv, firev, answer>>

\* Fault: waiting for increments to tell everything.
OnConnectQuiet ==
  /\ ~online
  /\ online' = TRUE
  /\ UNCHANGED <<printerv, pull, wire, breaks, accv, replyv, firev, answer>>

OnConnect ==
  /\ ~online
  /\ online' = TRUE /\ pull' = TRUE
  /\ UNCHANGED <<printerv, wire, breaks, accv, replyv, firev, answer>>

\* request_pushall, from the watchdog or a page.
RequestPushall ==
  /\ online /\ ~pull /\ breaks < MaxBreaks
  /\ breaks' = breaks + 1
  /\ pull' = TRUE
  /\ UNCHANGED <<printerv, online, wire, accv, replyv, firev, answer>>

\* The reply replaces an earlier one to the same command.
Entered(rs, q, res) ==
  IF \E i \in DOMAIN rs : rs[i][1] = q
    THEN [i \in DOMAIN rs |-> IF rs[i][1] = q THEN <<q, res>> ELSE rs[i]]
    ELSE Append(rs, <<q, res>>)

\* Fault: v0.1, with a table that only grows.
KeepAll(rs, q, res) == Entered(rs, q, res)

\* Keeping the youngest MaxReplies replies.
Keep(rs, q, res) ==
  LET all == Entered(rs, q, res)
  IN  IF Len(all) > MaxReplies THEN Tail(all) ELSE all

StateSeen(r) == "gcode_state" \in DOMAIN r

\* paho's thread takes one message in hand.
Read == wire # <<>> /\ wire' = Tail(wire) /\ UNCHANGED <<online, pull, breaks>>

OnMessage ==
  /\ Read
  /\ UNCHANGED <<printerv, firev, answer>>
  /\ LET m == Head(wire)
         after == DeepMerge(raw, m.report)
     IN  /\ raw' = after
         /\ told' = Over(told, MergePatch(Shown(raw), Shown(after)))
         /\ stateEvent' = (stateEvent \/ StateSeen(m.report))
         /\ IF m.seq = None THEN UNCHANGED replyv
            ELSE /\ replies' = Keep(replies, m.seq, m.result)
                 /\ replyEvent' = TRUE
                 /\ noise' = (noise \/ (pc = "wait" /\ m.seq # task))

-----------------------------------------------------------------------------
(* A fire, one at a time under the use lock: get_state, then start.        *)

GetState(t) ==
  /\ pc = "idle" /\ outcome[t] = None
  /\ IF Job(raw) = "IDLE" THEN pc' = "send" /\ task' = t /\ UNCHANGED outcome
     ELSE outcome' = [outcome EXCEPT ![t] = "aborted"] /\ UNCHANGED <<pc, task>>
  /\ UNCHANGED <<printerv, netv, accv, replyv, deaf, answer>>

\* The printer takes or refuses the command, if it gets it, and says so,
\* perhaps when the wait is over.
Publish ==
  /\ IF ~online THEN UNCHANGED <<real, wire, answer>>
     ELSE \E ok \in BOOLEAN :
            LET taken == ok /\ real["gcode_state"] = "IDLE"
                res   == IF taken THEN "success" ELSE "refused"
                now   == IF taken THEN "RUNNING" ELSE real["gcode_state"]
            IN  /\ answer' = [answer EXCEPT ![task] = res]
                /\ real' = [real EXCEPT !["gcode_state"] = now]
                /\ wire' = wire \o <<Reply(task, res),
                                     Report([k \in {"gcode_state"} |-> now])>>
  /\ UNCHANGED <<changes, gone, online, pull, breaks>>

\* start: _reply_event.clear(), then project_file.
Send ==
  /\ pc = "send" /\ Publish
  /\ pc' = "wait" /\ noise' = FALSE
  /\ replyEvent' = FALSE
  /\ UNCHANGED <<replies, accv, task, outcome, deaf>>

\* Fault: the reply that came last is taken for this command's.
ReplyToAny(q) == {replies[i][2] : i \in {Len(replies)} \ {0}}

ReplyTo(q) == {replies[i][2] : i \in {j \in DOMAIN replies : replies[j][1] = q}}

\* Any reply ends the wait, or START_TIMEOUT; only a refusal that is this
\* command's own is an error.
WaitEnds(timeout) ==
  /\ pc = "wait"
  /\ timeout \/ replyEvent
  /\ pc' = "idle" /\ task' = None /\ noise' = FALSE
  /\ LET mine == IF timeout THEN {} ELSE ReplyTo(task)
     IN  outcome' = [outcome EXCEPT ![task] =
                       IF "refused" \in mine THEN "failed" ELSE "started"]
  /\ deaf' = IF timeout \/ noise THEN deaf \cup {task} ELSE deaf
  /\ UNCHANGED <<printerv, netv, accv, replies, replyEvent, answer>>

-----------------------------------------------------------------------------
Init ==
  /\ real = [gcode_state |-> "IDLE", hms |-> {},
             ams |-> [u \in Units |-> [s \in Trays |-> [f \in Fields |-> CHOOSE v \in Values : TRUE]]]]
  /\ online = FALSE /\ pull = FALSE /\ wire = <<>>
  /\ raw = Empty /\ told = Shown(Empty)
  /\ stateEvent = FALSE
  /\ replies = <<>> /\ replyEvent = FALSE
  /\ pc = "idle" /\ task = None
  /\ answer = [t \in Tasks |-> None] /\ outcome = [t \in Tasks |-> None]
  /\ noise = FALSE /\ deaf = {}
  /\ gone = {} /\ changes = 0 /\ breaks = 0

Next ==
  \/ PrinterChanges \/ PushAll \/ Break \/ OnConnect \/ RequestPushall \/ OnMessage
  \/ \E t \in Tasks : GetState(t)
  \/ \E u \in Units : Unplug(u)
  \/ Send \/ WaitEnds(TRUE) \/ WaitEnds(FALSE)

\* paho connects again, the printer answers, paho reads.
Fairness == WF_netv(OnConnect \/ PushAll \/ Read)

Spec == Init /\ [][Next]_vars /\ Fairness

-----------------------------------------------------------------------------
(* Properties.                                                             *)

\* What is shown of the units that are still plugged in.
Kept(r) ==
  LET left == {GlobalId(u, s) : u \in gone, s \in Trays}
  IN  [Shown(r) EXCEPT !.trays = {x \in @ : x[1] \notin left}]

(* Types; a state that was waited for is there to be read (lan.py:263),    *)
(* and the table of replies stays small (lan.py:272).                      *)
TypeOK ==
  /\ DOMAIN raw \subseteq Keys
  /\ stateEvent => "gcode_state" \in DOMAIN raw
  /\ Len(replies) <= MaxReplies
  /\ \A i, j \in DOMAIN replies : replies[i][1] = replies[j][1] => i = j
  /\ pc \in {"idle", "send", "wait"} /\ (pc = "idle" <=> task = None)
  /\ told.state \in {"IDLE", "RUNNING", "UNKNOWN"}
  /\ outcome \in [Tasks -> {None, "aborted", "started", "failed"}]
  /\ answer \in [Tasks -> {None, "success", "refused"}]

(* report.py:271: merging increments must neither lose what they leave out *)
(* nor misplace it.  Once the full report of this connection and all that  *)
(* followed have been merged, the snapshot is what the printer would say.  *)
(* Only a unit that was unplugged stays in it, for nothing ever resets.    *)
SnapshotFaithful ==
  online /\ ~pull /\ wire = <<>> => Kept(raw) = Kept(real)

(* What the listener put together from patches is the snapshot, whatever   *)
(* appeared, changed and went away in between (report.py:104).             *)
ToldIsShown == told = Shown(raw)

(* lan.py:429: what start makes of the replies is what the printer said to *)
(* this command, whatever others are about.  A task that the printer took  *)
(* is never recorded as failed, and one it refused, or never got, is not   *)
(* recorded as started - unless the wait timed out or another command's    *)
(* reply ended it.                                                         *)
OutcomeHonest ==
  \A t \in Tasks :
    /\ outcome[t] = "failed" => answer[t] = "refused"
    /\ outcome[t] = "started" /\ answer[t] # "success" => t \in deaf

(* After a break the picture is made right again by itself.                *)
PictureRecovers == <>[](online /\ Kept(raw) = Kept(real))
-----------------------------------------------------------------------------
(* Inductive strengthenings.                                               *)

\* The places of a report: its state, its alarms, and the fields of its trays.
Spots == {<<"gcode_state">>, <<"hms">>} \cup ({"ams"} \X Units \X Trays \X Fields)

Has(r, x) ==
  /\ x[1] \in DOMAIN r
  /\ x[1] = "ams" => /\ x[2] \in DOMAIN r["ams"]
                     /\ x[3] \in DOMAIN r["ams"][x[2]]
                     /\ x[4] \in DOMAIN r["ams"][x[2]][x[3]]

At(r, x) == IF x[1] = "ams" THEN r["ams"][x[2]][x[3]][x[4]] ELSE r[x[1]]

\* What of the trays is in a report is in its place.
Shaped(r) ==
  "ams" \in DOMAIN r =>
    /\ DOMAIN r["ams"] \subseteq Units
    /\ \A u \in DOMAIN r["ams"] :
         /\ DOMAIN r["ams"][u] \subseteq Trays
         /\ \A s \in DOMAIN r["ams"][u] :
              LET tray == r["ams"][u][s]
              IN  DOMAIN tray \subseteq Fields /\ tray = [f \in DOMAIN tray |-> tray[f]]

\* A full report on the units that are plugged in.
Full(r, units) ==
  /\ DOMAIN r = Keys /\ DOMAIN r["ams"] = units
  /\ \A u \in units : /\ DOMAIN r["ams"][u] = Trays
                      /\ \A s \in Trays : DOMAIN r["ams"][u][s] = Fields

\* The last of the messages w that has x has it right; if none has it, the
\* picture has it right, or everything is about to be sent.
Heard(w, picture, truth, pending, x) ==
  /\ \A i \in 1 .. Len(w) :
       Has(w[i].report, x) /\ (\A j \in i + 1 .. Len(w) : ~Has(w[j].report, x)) =>
         At(w[i].report, x) = At(truth, x)
  /\ (\A i \in 1 .. Len(w) : ~Has(w[i].report, x)) =>
       pending \/ (Has(picture, x) /\ At(picture, x) = At(truth, x))

(* While the connection is up, what is on its way and has been merged      *)
(* makes up what the printer would report.                                 *)
PictureInv ==
  /\ online \in BOOLEAN /\ pull \in BOOLEAN
  /\ Full(real, Units \ gone) /\ Shaped(real) /\ Shaped(raw)
  /\ \A i \in 1 .. Len(wire) : Shaped(wire[i].report)
  /\ ~online => wire = <<>>
  /\ online => \A x \in Spots : Has(real, x) => Heard(wire, raw, real, pull, x)
=============================================================================
