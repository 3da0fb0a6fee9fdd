---------------------------- MODULE PrinterLink ----------------------------
(***************************************************************************)
(* The printer accepts one MQTT connection, and PrinterLink owns it: it    *)
(* lends it to fires and uploads, yields it to Bambu Studio and takes it   *)
(* back, reconnects from a watchdog, and is reconfigured and probed from   *)
(* HTTP handlers.                                                          *)
(*                                                                         *)
(* _state_lock is held over single assignments only, so dropping one       *)
(* connection and making the next are separate steps, and each thread      *)
(* works on the transport it has in hand.  A LanTransport connects when it *)
(* is first used, and again when it is used after close().                 *)
(***************************************************************************)
EXTENDS Integers, FiniteSets

CONSTANTS
  Users,      \* threads of HTTP handlers
  Fires,      \* threads that run TaskRunner.fire
  Dog,        \* the watchdog thread
  Conns,      \* transports that can exist side by side
  Cfgs,       \* printer configurations
  Requests,   \* what the handlers are asked to do
  NoTp, NoOne

Threads == Users \cup Fires \cup {Dog}
AllRequests == {"yield", "resume", "refresh", "probe", "patch", "upload"}

ASSUME LinkAssumption ==
  /\ Users \cap Fires = {} /\ Dog \notin Users \cup Fires
  /\ NoOne \notin Threads /\ NoTp \notin Conns
  /\ Conns # {} /\ Cfgs # {} /\ "none" \notin Cfgs
  /\ Requests \subseteq AllRequests

VARIABLES
  tp,         \* PrinterLink._tp
  yielded,    \* PrinterLink._yielded
  cfg,        \* PrinterLink.cfg
  snap,       \* whose report PrinterLink._snapshot holds
  live,       \* _last_report_at lies within stale_after
  useLock, probeLock,
  open,       \* transports whose MQTT connection is up
  heard,      \* transports whose reports go to _on_report
  cfgOf,      \* the configuration each transport was built with
  filled,     \* transports that have received a report
  reach,      \* can the printer be reached
  promised,   \* a user was told that Studio has the connection
  pc, job, mine, was, fresh, \* each thread: where, in what call, which
                             \* transport; a probe's was_yielded, a new cfg
  crossed     \* in what ways calls have got in each other's way so far

link   == <<tp, yielded, cfg, snap, live, promised>>
locks  == <<useLock, probeLock>>
wires  == <<open, heard, cfgOf, filled>>
calls  == <<pc, job, mine, was, fresh>>
work   == <<tp, yielded, cfg, snap, live, useLock, probeLock, open, heard, cfgOf,
            filled, reach, promised, pc, job, mine, was, fresh>>
vars   == <<tp, yielded, cfg, snap, live, useLock, probeLock, open, heard, cfgOf,
            filled, reach, promised, pc, job, mine, was, fresh, crossed>>

Job == {"none", "watch", "yield", "resume", "refresh", "probe", "patch",
        "reconfigure", "upload", "fire"}
Pc  == {"idle", "resume", "build", "publish", "dial", "version", "adopt",
        "drop", "hangup", "renew", "enter", "take", "state", "start", "leave",
        "ask", "trial", "probed", "restore", "unprobe", "reload"}

Goto(x, label) == pc' = [pc EXCEPT ![x] = label] /\ UNCHANGED fresh
Hold(x, k)     == mine' = [mine EXCEPT ![x] = k]
Busy(x)        == pc[x] # "idle"

\* A call ends; the thread lets go of its transport.
Return(x) ==
  /\ pc' = [pc EXCEPT ![x] = "idle"] /\ Hold(x, NoTp)
  /\ fresh' = [fresh EXCEPT ![x] = "none"]
  /\ job' = [job EXCEPT ![x] = "none"] /\ was' = [was EXCEPT ![x] = FALSE]

\* On to the next step of a call; at the last one the call returns.
Proceed(x, label) ==
  IF label = "idle" THEN Return(x) ELSE Goto(x, label) /\ UNCHANGED <<job, mine, was>>

Call(x, j, label) ==
  /\ ~Busy(x)
  /\ job' = [job EXCEPT ![x] = j] /\ Goto(x, label)

\* A transport nobody has: the factory makes a new one.
Unused(k) ==
  k # tp /\ k \notin open \cup heard /\ \A x \in Threads : mine[x] # k

-----------------------------------------------------------------------------
(* _ensure_mqtt: connects a transport that is not connected, if it can.    *)
Dial(k) == open' = IF reach THEN open \cup {k} ELSE open

(* _connect: build, publish, wait for the first report, take a snapshot.   *)
AfterConnect(x) ==
  CASE job[x] \in {"probe", "patch"}  -> "unprobe"
    [] job[x] \in {"fire", "upload"}  -> IF useLock = x THEN "take" ELSE "enter"
    [] OTHER                          -> "idle"

\* Fault: nobody listens to the new transport.
BuildDeaf(x) ==
  /\ pc[x] = "build"
  /\ \E k \in Conns :
       /\ Unused(k)
       /\ cfgOf' = [cfgOf EXCEPT ![k] = cfg]
       /\ heard' = heard /\ filled' = filled \ {k}
       /\ Hold(x, k)
  /\ Goto(x, "publish")
  /\ UNCHANGED <<link, locks, open, reach, job, was>>

Build(x) ==
  /\ pc[x] = "build"
  /\ \E k \in Conns :
       /\ Unused(k)
       /\ cfgOf' = [cfgOf EXCEPT ![k] = cfg]
       /\ heard' = heard \cup {k} /\ filled' = filled \ {k}
       /\ Hold(x, k)
  /\ Goto(x, "publish")
  /\ UNCHANGED <<link, locks, open, reach, job, was>>

Publish(x) ==
  /\ pc[x] = "publish"
  /\ tp' = mine[x]
  /\ Goto(x, "dial")
  /\ UNCHANGED <<yielded, cfg, snap, live, promised, locks, wires, reach, job, mine, was>>

\* get_state, then get_version: either one connects.
ConnectDial(x) ==
  /\ pc[x] \in {"dial", "version"}
  /\ Dial(mine[x])
  /\ Goto(x, IF pc[x] = "dial" THEN "version" ELSE "adopt")
  /\ UNCHANGED <<link, locks, heard, cfgOf, filled, reach, job, mine, was>>

\* The transport's snapshot replaces the link's; it may still be empty.
Adopt(x) ==
  /\ pc[x] = "adopt"
  /\ snap' = IF mine[x] \in filled THEN cfgOf[mine[x]] ELSE "none"
  /\ live' = (live \/ mine[x] \in filled)
  /\ Proceed(x, AfterConnect(x))
  /\ UNCHANGED <<tp, yielded, cfg, promised, locks, wires, reach>>

(* _drop: takes the transport out of the link, then closes it.             *)
AfterDrop(x) ==
  CASE job[x] = "watch"               -> "build"
    [] job[x] \in {"probe", "patch"}  -> "trial"
    [] job[x] = "reconfigure"         -> "renew"
    [] OTHER                          -> "idle"

Drop(x) ==
  /\ pc[x] = "drop"
  /\ tp' = NoTp
  /\ IF tp = NoTp THEN Proceed(x, AfterDrop(x))
     ELSE Goto(x, "hangup") /\ Hold(x, tp) /\ UNCHANGED <<job, was>>
  /\ UNCHANGED <<yielded, cfg, snap, live, promised, locks, wires, reach>>

\* Fault: the transport is let go without close().
HangupOpen(x) ==
  /\ pc[x] = "hangup"
  /\ heard' = heard \ {mine[x]} /\ open' = open
  /\ Proceed(x, AfterDrop(x))
  /\ UNCHANGED <<link, locks, cfgOf, filled, reach>>

Hangup(x) ==
  /\ pc[x] = "hangup"
  /\ heard' = heard \ {mine[x]} /\ open' = open \ {mine[x]}
  /\ Proceed(x, AfterDrop(x))
  /\ UNCHANGED <<link, locks, cfgOf, filled, reach>>

\* Fault: resume clears the flag and leaves connecting to the watchdog.
ResumeFlagOnly(x) ==
  /\ pc[x] = "resume"
  /\ yielded' = FALSE
  /\ promised' = (promised /\ job[x] \in {"probe", "patch"})
  /\ Proceed(x, AfterConnect(x))
  /\ UNCHANGED <<tp, cfg, snap, live, locks, wires, reach>>

(* resume_connection, of a handler, a session or a probe that restores.    *)
Resume(x) ==
  /\ pc[x] = "resume"
  /\ yielded' = FALSE
  /\ promised' = (promised /\ job[x] \in {"probe", "patch"})
  /\ Proceed(x, IF tp = NoTp THEN "build" ELSE AfterConnect(x))
  /\ UNCHANGED <<tp, cfg, snap, live, locks, wires, reach>>

-----------------------------------------------------------------------------
(* Handlers: yield, resume, refresh.                                       *)

\* yield_connection; a probe yields too, and promises nothing to anybody.
YieldIt(x, j) ==
  /\ yielded' = TRUE
  /\ promised' = (promised \/ j = "yield")

AskYield(u) ==
  /\ "yield" \in Requests
  /\ IF yielded THEN ~Busy(u) /\ UNCHANGED <<pc, job, fresh>>
     ELSE Call(u, "yield", "drop")
  /\ YieldIt(u, "yield")
  /\ UNCHANGED <<tp, cfg, snap, live, locks, wires, reach, mine, was>>

AskResume(u) ==
  /\ "resume" \in Requests /\ Call(u, "resume", "resume")
  /\ UNCHANGED <<link, locks, wires, reach, mine, was>>

\* Fault: the yielded link is asked all the same.
AskRefreshUnchecked(x, j) ==
  /\ Call(x, j, "ask") /\ Hold(x, tp)
  /\ UNCHANGED <<link, locks, wires, reach, was>>

\* request_pushall, and state() in the fast path of a probe.
AskRefresh(x, j) ==
  /\ tp # NoTp /\ Call(x, j, "ask") /\ Hold(x, tp)
  /\ UNCHANGED <<link, locks, wires, reach, was>>

Refresh(x) ==
  /\ pc[x] = "ask"
  /\ Dial(mine[x]) /\ Return(x)
  /\ UNCHANGED <<link, locks, heard, cfgOf, filled, reach>>

(* _probe_printer: yields, tries a connection of its own, restores.        *)

Probe(u, j) ==
  /\ j \in Requests /\ probeLock = NoOne
  /\ Call(u, j, IF yielded THEN "trial" ELSE "drop")
  /\ probeLock' = u /\ was' = [was EXCEPT ![u] = yielded]
  /\ YieldIt(u, j)
  /\ UNCHANGED <<tp, cfg, snap, live, useLock, wires, reach, mine>>

Trial(u) ==
  /\ pc[u] = "trial"
  /\ \E k \in Conns : Unused(k) /\ Dial(k) /\ Hold(u, k)
  /\ Goto(u, "probed")
  /\ UNCHANGED <<link, locks, heard, cfgOf, filled, reach, job, was>>

Probed(u) ==
  /\ pc[u] = "probed"
  /\ open' = open \ {mine[u]}
  /\ Proceed(u, "restore")
  /\ UNCHANGED <<link, locks, heard, cfgOf, filled, reach>>

\* Fault: the link is taken back even if it was yielded before.
RestoreAlways(u) ==
  /\ pc[u] = "restore"
  /\ Proceed(u, "resume")
  /\ UNCHANGED <<link, locks, wires, reach>>

Restore(u) ==
  /\ pc[u] = "restore"
  /\ Proceed(u, IF was[u] THEN "unprobe" ELSE "resume")
  /\ UNCHANGED <<link, locks, wires, reach>>

\* patch_printer_config goes on if the probe succeeded or force is set.
Unprobe(u) ==
  /\ pc[u] = "unprobe"
  /\ probeLock' = NoOne
  /\ \/ Return(u)
     \/ job[u] = "patch" /\ Proceed(u, "reload")
  /\ UNCHANGED <<link, useLock, wires, reach>>

\* Fault: reconfigure connects first and drops nothing.
ReloadKeeping(u) ==
  /\ pc[u] = "reload"
  /\ \E c \in Cfgs : cfg' = c /\ fresh' = [fresh EXCEPT ![u] = c]
  /\ pc' = [pc EXCEPT ![u] = "renew"] /\ job' = [job EXCEPT ![u] = "reconfigure"]
  /\ UNCHANGED <<tp, yielded, snap, live, promised, locks, wires, reach, mine, was>>

\* DaemonContext.replace_config, then reconfigure: drop, renew, connect.
Reload(u) ==
  /\ pc[u] = "reload"
  /\ \E c \in Cfgs : cfg' = c /\ fresh' = [fresh EXCEPT ![u] = c]
  /\ pc' = [pc EXCEPT ![u] = "drop"] /\ job' = [job EXCEPT ![u] = "reconfigure"]
  /\ UNCHANGED <<tp, yielded, snap, live, promised, locks, wires, reach, mine, was>>

Renew(u) ==
  /\ pc[u] = "renew"
  /\ yielded' = FALSE /\ promised' = FALSE /\ snap' = "none" /\ live' = FALSE
  /\ cfg' = fresh[u]
  /\ Proceed(u, "build")
  /\ UNCHANGED <<tp, locks, wires, reach>>

-----------------------------------------------------------------------------
(* session(): a fire takes the connection back before it asks for the      *)
(* lock, and everybody does inside.                                        *)

Borrow(x, j) ==
  /\ Call(x, j, IF j = "fire" THEN "resume" ELSE "enter")
  /\ UNCHANGED <<link, locks, wires, reach, mine, was>>

Enter(x) ==
  /\ pc[x] = "enter" /\ useLock = NoOne
  /\ useLock' = x /\ Proceed(x, "resume")
  /\ UNCHANGED <<link, probeLock, wires, reach>>

\* Without a transport session() raises; an upload goes over FTPS.
Take(x) ==
  /\ pc[x] = "take"
  /\ Hold(x, tp)
  /\ Goto(x, IF tp # NoTp /\ job[x] = "fire" THEN "state" ELSE "leave")
  /\ UNCHANGED <<link, locks, wires, reach, job, was>>

\* get_state and start go through _ensure_mqtt; a fire may give up between.
Use(x) ==
  /\ pc[x] \in {"state", "start"}
  /\ Dial(mine[x])
  /\ \E next \in (IF pc[x] = "state" THEN {"start", "leave"} ELSE {"leave"}) : Goto(x, next)
  /\ UNCHANGED <<link, locks, heard, cfgOf, filled, reach, job, mine, was>>

Leave(x) ==
  /\ pc[x] = "leave"
  /\ useLock' = NoOne /\ Return(x)
  /\ UNCHANGED <<link, probeLock, wires, reach>>

-----------------------------------------------------------------------------
(* The watchdog's tick, and the printer.                                   *)

\* Fault: the watchdog does not look whether the connection is yielded.
WatchYielded ==
  /\ \/ tp = NoTp /\ Call(Dog, "watch", "build")
     \/ tp # NoTp /\ ~live /\ Call(Dog, "watch", "drop")
  /\ UNCHANGED <<link, locks, wires, reach, mine, was>>

\* Fault: the watchdog takes a transport that is there for a connection.
WatchMissingOnly ==
  /\ ~yielded /\ tp = NoTp /\ Call(Dog, "watch", "build")
  /\ UNCHANGED <<link, locks, wires, reach, mine, was>>

Watch ==
  /\ ~yielded
  /\ \/ tp = NoTp /\ Call(Dog, "watch", "build")
     \/ tp # NoTp /\ ~live /\ Call(Dog, "watch", "drop")
  /\ UNCHANGED <<link, locks, wires, reach, mine, was>>

WatchPull == ~yielded /\ live /\ AskRefresh(Dog, "refresh")

\* A report reaches a transport, and the link's _on_report if it listens.
OnReport(k) ==
  /\ k \in open /\ reach
  /\ filled' = filled \cup {k}
  /\ snap' = IF k \in heard THEN cfgOf[k] ELSE snap
  /\ live' = (live \/ k \in heard)
  /\ UNCHANGED <<tp, yielded, cfg, promised, locks, open, heard, cfgOf, reach, calls>>

Silence ==
  /\ live /\ live' = FALSE
  /\ UNCHANGED <<tp, yielded, cfg, snap, promised, locks, wires, reach, calls>>

PrinterGoes ==
  /\ reach' = ~reach
  /\ UNCHANGED <<link, locks, wires, calls>>

-----------------------------------------------------------------------------
(* Where calls get in each other's way.  A thread that replaces the        *)
(* connection works on the link from its first look to its last            *)
(* assignment; one that uses it works on the transport it took.  No lock   *)
(* covers either.  `crossed` remembers that it happened that two replaced  *)
(* at once, that one replaced what another used, and that a user yielded   *)
(* while a probe was under way that is to take the connection back.        *)
Apart  == {"build", "publish", "hangup", "trial", "probed", "restore", "renew"}
WithIt == {"dial", "version", "adopt", "ask", "state", "start"}

Replaces(x)  == pc[x] \in Apart \cup {"drop"}
Uses(x)      == pc[x] \in WithIt \/ (pc[x] = "take" /\ x \in Fires)
TakesBack(x) ==
  /\ job[x] \in {"probe", "patch"} /\ ~was[x]
  /\ pc[x] \in {"drop", "hangup", "trial", "probed", "restore", "resume"}

Overlaps ==
  {o \in {"replaced", "used", "promised"} :
     CASE o = "replaced" -> \E x, y \in Threads : x # y /\ Replaces(x) /\ Replaces(y)
       [] o = "used"     -> \E x, y \in Threads : x # y /\ Replaces(x) /\ Uses(y)
       [] OTHER          -> promised /\ \E x \in Threads : TakesBack(x)}

-----------------------------------------------------------------------------
\* After open(): built from the only configuration, reachable or not.
Init ==
  /\ cfg \in Cfgs
  /\ tp \in Conns
  /\ open \in {{}, {tp}} /\ heard = {tp}
  /\ cfgOf = [k \in Conns |-> cfg]
  /\ filled \in SUBSET open
  /\ snap = (IF filled = {} THEN "none" ELSE cfg) /\ live = (filled # {})
  /\ yielded = FALSE /\ promised = FALSE
  /\ useLock = NoOne /\ probeLock = NoOne
  /\ reach \in BOOLEAN
  /\ pc = [x \in Threads |-> "idle"] /\ job = [x \in Threads |-> "none"]
  /\ mine = [x \in Threads |-> NoTp] /\ was = [x \in Threads |-> FALSE]
  /\ fresh = [x \in Threads |-> "none"]
  /\ crossed = {}

Connecting(x) == Build(x) \/ Publish(x) \/ ConnectDial(x) \/ Adopt(x)
Dropping(x)   == Drop(x) \/ Hangup(x)
Session(x)    == Enter(x) \/ Take(x) \/ Use(x) \/ Leave(x)
Probing(u)    == Trial(u) \/ Probed(u) \/ Restore(u) \/ Unprobe(u) \/ Reload(u) \/ Renew(u)

\* The rest of the call a thread is in.
Working(x) == Connecting(x) \/ Dropping(x) \/ Resume(x) \/ Refresh(x) \/ Session(x) \/ Probing(x)

Ask(u) ==
  \/ AskYield(u) \/ AskResume(u)
  \/ "refresh" \in Requests /\ AskRefresh(u, "refresh")
  \/ Probe(u, "probe") \/ Probe(u, "patch")
  \/ "upload" \in Requests /\ Borrow(u, "upload")

Step ==
  \/ \E x \in Threads : Working(x)
  \/ \E u \in Users : Ask(u)
  \/ \E f \in Fires : Borrow(f, "fire")
  \/ Watch \/ WatchPull
  \/ \E k \in Conns : OnReport(k)
  \/ Silence \/ PrinterGoes

Next == Step /\ crossed' = crossed \cup Overlaps'

Spec == Init /\ [][Next]_vars

(* Every wait inside a call has a timeout, so calls run to their end; the  *)
(* watchdog ticks every WATCHDOG_TICK seconds; and a report grows old.     *)
Fairness ==
  /\ WF_work(Watch) /\ WF_work(Silence)
  /\ \A x \in Threads : WF_work(Working(x))
FairSpec == Spec /\ Fairness

-----------------------------------------------------------------------------
\* Every variable has its type.
TypeOK ==
  /\ tp \in Conns \cup {NoTp} /\ cfg \in Cfgs /\ snap \in Cfgs \cup {"none"}
  /\ yielded \in BOOLEAN /\ live \in BOOLEAN /\ promised \in BOOLEAN /\ reach \in BOOLEAN
  /\ useLock \in Threads \cup {NoOne} /\ probeLock \in Users \cup {NoOne}
  /\ open \subseteq Conns /\ heard \subseteq Conns /\ cfgOf \in [Conns -> Cfgs]
  /\ filled \subseteq Conns
  /\ pc \in [Threads -> Pc] /\ job \in [Threads -> Job]
  /\ mine \in [Threads -> Conns \cup {NoTp}] /\ was \in [Threads -> BOOLEAN]
  /\ fresh \in [Threads -> Cfgs \cup {"none"}]
  /\ crossed \subseteq {"replaced", "used", "promised"}

(* What follows is claimed, for any overlap of calls, as long as they have *)
(* not crossed in the ways named.                                          *)
Clean(ways) == crossed \cap ways = {}
AtRest      == \A x \in Threads : ~Replaces(x)

(* The printer accepts one MQTT connection: the daemon never has two       *)
(* (link.py:106).                                                          *)
OneConnection == Clean({"replaced", "used"}) => Cardinality(open) <= 1

(* A user who was told that Studio may connect is not told wrong: nothing  *)
(* connects behind his back, whoever is still at work (link.py:197).       *)
YieldFrees ==
  Clean({"replaced", "used", "promised"}) /\ promised /\ AtRest => open = {}

(* The connection stays yielded until somebody asks for it or a task fires *)
(* (web/app.py:593).                                                       *)
YieldKept == Clean({"promised"}) /\ promised => yielded

(* When nobody is replacing it, the connection is the one the              *)
(* configuration names, and what is shown is not a report of the printer   *)
(* before (link.py:182).                                                   *)
ConfigInForce ==
  Clean({"replaced", "used"}) /\ AtRest =>
    /\ tp # NoTp => cfgOf[tp] = cfg
    /\ snap \in {"none", cfg}

(* A connection that was yielded never makes a fire fail (link.py:238).    *)
FireGetsLink ==
  Clean({"used"}) => \A f \in Fires : pc[f] = "take" => tp # NoTp

(* What the link holds is heard: no published transport is deaf.           *)
HeldIsHeard == tp # NoTp => tp \in heard

(* Unless the connection is yielded or the printer is gone, the link comes *)
(* back.                                                                   *)
LinkRecovers == []<>(tp # NoTp /\ tp \in open) \/ []<>yielded \/ []<>~reach

-----------------------------------------------------------------------------
(* Inductive strengthenings, used by the proofs.                           *)

(* A thread that is to use a transport has one, and one that is to renew   *)
(* the configuration has the new one.                                      *)
Handed == {"publish", "dial", "version", "adopt", "hangup", "ask", "probed",
           "state", "start"}

HandInv ==
  \A x \in Threads :
    /\ pc[x] \in Handed => mine[x] \in Conns
    /\ job[x] = "reconfigure" \/ pc[x] = "renew" => fresh[x] \in Cfgs

(* A transport that is about to be published is in nobody else's hand, and *)
(* one that is being closed is not the link's any more.                    *)
HeldInv ==
  /\ HeldIsHeard
  /\ \A x \in Threads : pc[x] = "publish" =>
       /\ mine[x] \in heard /\ mine[x] # tp
       /\ \A y \in Threads : mine[y] = mine[x] => y = x
  /\ \A x \in Threads : pc[x] = "hangup" => mine[x] # tp

(* Where the link's transport, the thread's and the open connections are  *)
(* at each step of a call, as long as calls have not crossed.              *)
Reconfigures(x) == job[x] = "reconfigure" /\ pc[x] \in {"drop", "hangup", "renew"}

UseInv ==
  \A x \in Threads :
    /\ pc[x] \in WithIt => mine[x] = tp
    /\ pc[x] = "take" /\ x \in Fires => tp # NoTp

BackInv == promised => yielded

ReplaceInv ==
  /\ yielded /\ tp # NoTp => \E x \in Threads : pc[x] = "drop"
  /\ \A x \in Threads :
       /\ pc[x] \in Apart => tp = NoTp
       /\ (pc[x] \in {"build", "publish"} \/ (job[x] = "watch" /\ Replaces(x))) => ~yielded

OpenInv ==
  \A k \in open :
    k = tp \/ \E x \in Threads : pc[x] \in {"hangup", "probed"} /\ k = mine[x]

ForceInv ==
  /\ \A x \in Threads : /\ pc[x] = "probed" => mine[x] \notin heard
                        /\ pc[x] = "publish" => cfgOf[mine[x]] = cfg
  /\ \/ \E x \in Threads : Reconfigures(x)
     \/ /\ tp # NoTp => cfgOf[tp] = cfg
        /\ snap \in {"none", cfg}
        /\ \A x \in Threads : pc[x] = "hangup" => cfgOf[mine[x]] = cfg

CallInv ==
  \A x \in Threads :
    /\ ~Busy(x) => job[x] = "none"
    /\ pc[x] = "enter" => job[x] \in {"fire", "upload"}
    /\ pc[x] = "resume" /\ job[x] \in {"probe", "patch"} => ~was[x]

\* Calls have not got in each other's way now.
OneReplaces == \A x, y \in Threads : Replaces(x) /\ Replaces(y) => x = y
NoneUsed    == \A x, y \in Threads : Replaces(x) /\ Uses(y) => x = y
NoneBack    == promised => \A x \in Threads : ~TakesBack(x)

CrossInv ==
  /\ Overlaps \subseteq crossed /\ CallInv
  /\ Clean({"used"}) => UseInv
  /\ Clean({"promised"}) => BackInv
  /\ Clean({"replaced"}) => ReplaceInv
  /\ Clean({"replaced", "used"}) => (OpenInv /\ ForceInv)
=============================================================================
