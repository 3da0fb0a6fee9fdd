-------------------------- MODULE DaemonLifecycle --------------------------
(***************************************************************************)
(* Who may hold the printer's only connection, and when: launches of the   *)
(* daemon (from a terminal, by a double click, or under the tray icon),    *)
(* `bpq` commands beside them, and the jobs that come due meanwhile.       *)
(*                                                                         *)
(* One file lock says which process is the daemon.  Between the lock and   *)
(* the connection lie the order in which serve() starts and stops its      *)
(* parts, the watchdog and the jobs, which are threads of their own.       *)
(* What the link does while it is open is the business of PrinterLink.     *)
(***************************************************************************)
EXTENDS Naturals, FiniteSets

CONSTANTS
  Daemons,    \* launches of a daemon
  Trays,      \* those under the tray icon (traymain.main)
  Commands,   \* `bpq submit` and `bpq status` commands
  WebOn,      \* [web] enabled
  NoOne

ASSUME DaemonAssumption ==
  /\ Trays \subseteq Daemons
  /\ Daemons \cap Commands = {}
  /\ NoOne \notin Daemons \cup Commands
  /\ WebOn \in BOOLEAN

VARIABLES
  lock,     \* holder of the OS lock on var/bpq.lock
  pc,       \* how far each daemon's serve() is
  sched,    \* daemons whose scheduler runs
  current,  \* daemons whose runtime is registered
  web,      \* daemons whose web server answers
  stop,     \* daemons whose stop event is set
  dog,      \* watchdog of each daemon's link
  fire,     \* the job each daemon's executor is running
  tray,     \* main thread of a tray launch
  cmd,      \* each command
  conns,    \* the MQTT connections that are open, as <<process, owner>>
  slips     \* ghost: the unguarded moments this behaviour has met

vars == <<lock, pc, sched, current, web, stop, dog, fire, tray, cmd,
          conns, slips>>

Held == {"starting", "linked", "scheduled", "registered", "serving", "stopping",
         "webdown", "scheddown", "linkdown"}
Pc     == {"off", "asking", "ended"} \cup Held
DogPc  == {"none", "watching", "connecting"}
FirePc == {"none", "due", "link", "onlink", "own"}
TrayPc == {"off", "waiting", "icon", "leaving"}
CmdPc  == {"idle", "ask", "check", "checked", "free", "direct"}

(* The moments nothing guards:                                             *)
(*   alone   a job runs before the runtime is registered, or after it was  *)
(*           taken out of the registry                                     *)
(*   left    the link is closed while its watchdog is connecting, a job    *)
(*           uses the link after it was closed, start-up fails with it open *)
(*   beside  a daemon or command starts while a command goes direct        *)
Slip == {"alone", "left", "beside"}

Link(p) == <<p, "link">>
Job(p)  == <<p, "job">>
Own(c)  == <<c, "command">>

Goto(p, label) == pc' = [pc EXCEPT ![p] = label]
Slipped(s, cond) == slips' = IF cond THEN slips \cup {s} ELSE slips
Direct == {c \in Commands : cmd[c] \in {"free", "direct"}}
LinkClosed(p) == pc[p] \in {"linkdown", "ended"}

-----------------------------------------------------------------------------
(* Starting: the lock, then the parts, in this order.                      *)

Launch(p) ==
  /\ pc[p] = "off"
  /\ Goto(p, "asking")
  /\ tray' = [tray EXCEPT ![p] = IF p \in Trays THEN "waiting" ELSE "off"]
  /\ UNCHANGED <<lock, sched, current, web, stop, dog, fire, cmd, conns, slips>>

\* Fault: a lock that a second process gets as well.
AcquireShared(p) ==
  /\ pc[p] = "asking" /\ lock \notin Commands
  /\ lock' = p
  /\ Goto(p, "starting")
  /\ Slipped("beside", Direct # {})
  /\ UNCHANGED <<sched, current, web, stop, dog, fire, tray, cmd, conns>>

Acquire(p) ==
  /\ pc[p] = "asking" /\ lock = NoOne
  /\ lock' = p
  /\ Goto(p, "starting")
  /\ Slipped("beside", Direct # {})
  /\ UNCHANGED <<sched, current, web, stop, dog, fire, tray, cmd, conns>>

\* AlreadyRunning: the launch ends; a tray points the browser to the other one.
Refused(p) ==
  /\ pc[p] = "asking" /\ lock # NoOne
  /\ Goto(p, "off")
  /\ tray' = [tray EXCEPT ![p] = "off"]
  /\ UNCHANGED <<lock, sched, current, web, stop, dog, fire, cmd, conns, slips>>

\* PrinterLink.open: it connects, or leaves that to the watchdog.
OpenLink(p) ==
  /\ pc[p] = "starting"
  /\ conns' \in {conns, conns \cup {Link(p)}}
  /\ dog' = [dog EXCEPT ![p] = "watching"]
  /\ Goto(p, "linked")
  /\ UNCHANGED <<lock, sched, current, web, stop, fire, tray, cmd, slips>>

\* The journal, the database or the scheduler fails: nothing closes the link.
StartFails(p) ==
  /\ pc[p] \in {"starting", "linked"}
  /\ lock' = NoOne
  /\ Goto(p, "ended")
  /\ tray' = [tray EXCEPT ![p] = "off"]
  /\ Slipped("left", pc[p] = "linked")
  /\ UNCHANGED <<sched, current, web, stop, dog, fire, cmd, conns>>

StartScheduler(p) ==
  /\ pc[p] = "linked"
  /\ sched' = sched \cup {p}
  /\ Goto(p, "scheduled")
  /\ UNCHANGED <<lock, current, web, stop, dog, fire, tray, cmd, conns, slips>>

Register(p) ==
  /\ pc[p] = "scheduled"
  /\ current' = current \cup {p}
  /\ Goto(p, "registered")
  /\ UNCHANGED <<lock, sched, web, stop, dog, fire, tray, cmd, conns, slips>>

\* _start_web: switched off, refused (AuthError), not up in time, or up.
StartWeb(p) ==
  /\ pc[p] = "registered"
  /\ web' \in {web} \cup {web \cup {p} : on \in {WebOn} \ {FALSE}}
  /\ Goto(p, "serving")
  /\ UNCHANGED <<lock, sched, current, stop, dog, fire, tray, cmd, conns, slips>>

-----------------------------------------------------------------------------
(* Stopping, in reverse; every wait in it has a timeout.                   *)

Unregister(p) ==
  /\ pc[p] = "serving" /\ p \in stop
  /\ current' = current \ {p}
  /\ Goto(p, "stopping")
  /\ UNCHANGED <<lock, sched, web, stop, dog, fire, tray, cmd, conns, slips>>

StopWeb(p) ==
  /\ pc[p] = "stopping"
  /\ web' = web \ {p}
  /\ Goto(p, "webdown")
  /\ UNCHANGED <<lock, sched, current, stop, dog, fire, tray, cmd, conns, slips>>

\* Fault: shutdown(wait=True).
StopSchedulerWaiting(p) ==
  /\ pc[p] = "webdown" /\ fire[p] = "none"
  /\ sched' = sched \ {p}
  /\ Goto(p, "scheddown")
  /\ UNCHANGED <<lock, current, web, stop, dog, fire, tray, cmd, conns, slips>>

\* shutdown(wait=False): a job that runs keeps running.
StopScheduler(p) ==
  /\ pc[p] = "webdown"
  /\ sched' = sched \ {p}
  /\ Goto(p, "scheddown")
  /\ UNCHANGED <<lock, current, web, stop, dog, fire, tray, cmd, conns, slips>>

\* Fault: the link stays open when the daemon stops.
CloseLinkNot(p) ==
  /\ pc[p] = "scheddown"
  /\ dog' = [dog EXCEPT ![p] = IF @ = "connecting" THEN @ ELSE "none"]
  /\ Slipped("left", dog[p] = "connecting")
  /\ Goto(p, "linkdown")
  /\ UNCHANGED <<lock, sched, current, web, stop, fire, tray, cmd, conns>>

\* PrinterLink.close waits a while for the watchdog, then hangs up.
CloseLink(p) ==
  /\ pc[p] = "scheddown"
  /\ conns' = conns \ {Link(p)}
  /\ dog' = [dog EXCEPT ![p] = IF @ = "connecting" THEN @ ELSE "none"]
  /\ Slipped("left", dog[p] = "connecting")
  /\ Goto(p, "linkdown")
  /\ UNCHANGED <<lock, sched, current, web, stop, fire, tray, cmd>>

\* store.close, daemon_stop, and the lock is given back.
Unlock(p) ==
  /\ pc[p] = "linkdown"
  /\ lock' = NoOne
  /\ Goto(p, "ended")
  /\ UNCHANGED <<sched, current, web, stop, dog, fire, tray, cmd, conns, slips>>

Gone(p) ==
  /\ Goto(p, "off")
  /\ conns' = conns \ {Link(p), Job(p)}
  /\ sched' = sched \ {p} /\ current' = current \ {p} /\ web' = web \ {p}
  /\ stop' = stop \ {p}
  /\ dog' = [dog EXCEPT ![p] = "none"]
  /\ fire' = [fire EXCEPT ![p] = "none"]
  /\ tray' = [tray EXCEPT ![p] = "off"]

\* The interpreter waits for the executor's threads, and kills the watchdog.
\* The double-click window waits for a key besides; no fairness is assumed.
Exit(p) ==
  /\ pc[p] = "ended" /\ fire[p] = "none" /\ tray[p] = "off"
  /\ Gone(p)
  /\ UNCHANGED <<lock, cmd, slips>>

\* Fault: a PID file in place of an OS lock.
KillLeavingLock(p) ==
  /\ pc[p] # "off"
  /\ Gone(p)
  /\ UNCHANGED <<lock, cmd, slips>>

\* A kill at any moment: the kernel closes what it held, the lock too.
Kill(p) ==
  /\ pc[p] # "off"
  /\ lock' = IF lock = p THEN NoOne ELSE lock
  /\ Gone(p)
  /\ UNCHANGED <<cmd, slips>>

-----------------------------------------------------------------------------
(* Who sets the stop event.                                                *)

\* SIGINT or SIGTERM; under a tray serve() is not in the main thread.
Signal(p) ==
  /\ p \notin Trays /\ pc[p] \in Held \ {"starting"}
  /\ stop' = stop \cup {p}
  /\ UNCHANGED <<lock, pc, sched, current, web, dog, fire, tray, cmd, conns, slips>>

\* The icon appears once the web server answers, or the runtime if it is off.
TrayReady(p) ==
  /\ tray[p] = "waiting"
  /\ IF WebOn THEN p \in web ELSE p \in current
  /\ tray' = [tray EXCEPT ![p] = "icon"]
  /\ UNCHANGED <<lock, pc, sched, current, web, stop, dog, fire, cmd, conns, slips>>

\* web_ready.wait(30) runs out: taken for a daemon that did not start.
TrayGivesUp(p) ==
  /\ tray[p] = "waiting" /\ WebOn
  /\ pc[p] = "serving" /\ p \notin web
  /\ stop' = stop \cup {p}
  /\ tray' = [tray EXCEPT ![p] = "leaving"]
  /\ UNCHANGED <<lock, pc, sched, current, web, dog, fire, cmd, conns, slips>>

\* The menu's Quit, confirmed when tasks are waiting.
TrayQuit(p) ==
  /\ tray[p] = "icon"
  /\ stop' = stop \cup {p}
  /\ tray' = [tray EXCEPT ![p] = "leaving"]
  /\ UNCHANGED <<lock, pc, sched, current, web, dog, fire, cmd, conns, slips>>

\* join(10) ends, one way or the other, and main returns.
TrayLeaves(p) ==
  /\ tray[p] = "leaving"
  /\ tray' = [tray EXCEPT ![p] = "off"]
  /\ UNCHANGED <<lock, pc, sched, current, web, stop, dog, fire, cmd, conns, slips>>

-----------------------------------------------------------------------------
(* The watchdog of the link: it drops a silent or missing connection, then *)
(* connects, and looks at its stop event between two rounds only.          *)

DogDrops(p) ==
  /\ dog[p] = "watching"
  /\ dog' = [dog EXCEPT ![p] = "connecting"]
  /\ conns' = conns \ {Link(p)}
  /\ UNCHANGED <<lock, pc, sched, current, web, stop, fire, tray, cmd, slips>>

DogConnects(p) ==
  /\ dog[p] = "connecting"
  /\ dog' = [dog EXCEPT ![p] = IF LinkClosed(p) THEN "none" ELSE "watching"]
  /\ conns' \in {conns, conns \cup {Link(p)}}
  /\ UNCHANGED <<lock, pc, sched, current, web, stop, fire, tray, cmd, slips>>

-----------------------------------------------------------------------------
(* A job that comes due, in the executor of the daemon's scheduler.        *)

Due(p) ==
  /\ p \in sched /\ fire[p] = "none"
  /\ fire' = [fire EXCEPT ![p] = "due"]
  /\ UNCHANGED <<lock, pc, sched, current, web, stop, dog, tray, cmd, conns, slips>>

\* run_task: the running daemon's link, or a connection of its own.
RunTask(p) ==
  /\ fire[p] = "due"
  /\ IF p \in current
       THEN fire' = [fire EXCEPT ![p] = "link"] /\ conns' = conns
       ELSE fire' = [fire EXCEPT ![p] = "own"] /\ conns' = conns \cup {Job(p)}
  /\ Slipped("alone", p \notin current)
  /\ UNCHANGED <<lock, pc, sched, current, web, stop, dog, tray, cmd>>

\* resume_connection, session(), and later a command on the transport in
\* hand: each connects if there is no connection, closed or not, and the
\* first two start a watchdog if there is none.
FireOnLink(p) ==
  /\ \/ fire[p] = "link" /\ fire' = [fire EXCEPT ![p] = "onlink"]
        /\ dog' = [dog EXCEPT ![p] = IF @ = "none" THEN "watching" ELSE @]
     \/ fire[p] = "onlink" /\ UNCHANGED <<fire, dog>>
  /\ conns' \in {conns, conns \cup {Link(p)}}
  /\ Slipped("left", LinkClosed(p))
  /\ UNCHANGED <<lock, pc, sched, current, web, stop, tray, cmd>>

\* A session leaves the link's connection open; `with build_transport` does not.
FireEnds(p) ==
  /\ fire[p] \in {"onlink", "own"}
  /\ fire' = [fire EXCEPT ![p] = "none"]
  /\ conns' = conns \ {Job(p)}
  /\ UNCHANGED <<lock, pc, sched, current, web, stop, dog, tray, cmd, slips>>

-----------------------------------------------------------------------------
(* A command: through the daemon if it answers, else directly, unless the  *)
(* lock says that there is one.                                            *)

CmdStep(c, from, to) == cmd[c] = from /\ cmd' = [cmd EXCEPT ![c] = to]

CmdRest == UNCHANGED <<pc, sched, current, web, stop, dog, fire, tray>>

\* With --no-daemon nobody is probed, but the lock is looked at all the same.
CmdBegin(c) ==
  /\ CmdStep(c, "idle", "ask") \/ CmdStep(c, "idle", "check")
  /\ CmdRest /\ UNCHANGED <<lock, conns, slips>>

\* DaemonClient.probe: a daemon that answers and takes the request, which
\* needs no connection of the command's; or none, too slow, or no login.
CmdProbe(c) ==
  /\ (WebOn /\ web # {} /\ CmdStep(c, "ask", "idle")) \/ CmdStep(c, "ask", "check")
  /\ CmdRest /\ UNCHANGED <<lock, conns, slips>>

\* _refuse_if_daemon_holds_lock takes the lock and gives it back.
CmdCheck(c) ==
  /\ \/ lock = NoOne /\ CmdStep(c, "check", "checked") /\ lock' = c
     \/ lock # NoOne /\ CmdStep(c, "check", "idle") /\ lock' = lock
  /\ CmdRest /\ UNCHANGED <<conns, slips>>

CmdRelease(c) ==
  /\ CmdStep(c, "checked", "free")
  /\ lock' = NoOne
  /\ Slipped("beside", Direct # {})
  /\ CmdRest /\ UNCHANGED conns

CmdConnect(c) ==
  /\ CmdStep(c, "free", "direct")
  /\ conns' = conns \cup {Own(c)}
  /\ CmdRest /\ UNCHANGED <<lock, slips>>

CmdEnds(c) ==
  /\ CmdStep(c, "direct", "idle")
  /\ conns' = conns \ {Own(c)}
  /\ CmdRest /\ UNCHANGED <<lock, slips>>

-----------------------------------------------------------------------------
Init ==
  /\ lock = NoOne
  /\ pc = [p \in Daemons |-> "off"]
  /\ sched = {} /\ current = {} /\ web = {} /\ stop = {}
  /\ dog = [p \in Daemons |-> "none"]
  /\ fire = [p \in Daemons |-> "none"]
  /\ tray = [p \in Daemons |-> "off"]
  /\ cmd = [c \in Commands |-> "idle"]
  /\ conns = {} /\ slips = {}

Serve(p) ==
  \/ Acquire(p) \/ Refused(p) \/ OpenLink(p) \/ StartScheduler(p) \/ Register(p)
  \/ StartWeb(p) \/ Unregister(p) \/ StopWeb(p) \/ StopScheduler(p)
  \/ CloseLink(p) \/ Unlock(p)
Others(p) ==
  \/ Launch(p) \/ StartFails(p) \/ Exit(p) \/ Kill(p) \/ Signal(p)
  \/ TrayReady(p) \/ TrayGivesUp(p) \/ TrayQuit(p) \/ TrayLeaves(p)
  \/ DogDrops(p) \/ DogConnects(p)
Fire(p) == Due(p) \/ RunTask(p) \/ FireOnLink(p) \/ FireEnds(p)
Command(c) ==
  \/ CmdBegin(c) \/ CmdProbe(c) \/ CmdCheck(c) \/ CmdRelease(c)
  \/ CmdConnect(c) \/ CmdEnds(c)

Next ==
  \/ \E p \in Daemons : Serve(p) \/ Others(p) \/ Fire(p)
  \/ \E c \in Commands : Command(c)

\* serve() runs on: every wait in it has a timeout.  Jobs, users, the
\* watchdog and the printer owe nothing.
Fairness == \A p \in Daemons : WF_vars(Serve(p))

Spec == Init /\ [][Next]_vars /\ Fairness

-----------------------------------------------------------------------------
(* Properties.                                                             *)

(* Types; and the lock is never in the hands of a process that is gone or  *)
(* past it (daemon.py:47 on why it is no PID file).                        *)
TypeOK ==
  /\ lock \in Daemons \cup Commands \cup {NoOne}
  /\ pc \in [Daemons -> Pc]
  /\ sched \subseteq Daemons /\ current \subseteq Daemons /\ web \subseteq Daemons
  /\ stop \subseteq Daemons
  /\ dog \in [Daemons -> DogPc]
  /\ fire \in [Daemons -> FirePc]
  /\ tray \in [Daemons -> TrayPc]
  /\ cmd \in [Commands -> CmdPc]
  /\ conns \subseteq {Link(p) : p \in Daemons} \cup {Job(p) : p \in Daemons}
                     \cup {Own(c) : c \in Commands}
  /\ slips \subseteq Slip
  /\ \A p \in Daemons : lock = p <=> pc[p] \in Held
  /\ \A c \in Commands : lock = c <=> cmd[c] = "checked"

(* daemon.py:82, transport/base.py: the printer serves one MQTT client.    *)
(* Across daemons that start, stop and are killed, commands beside them    *)
(* and jobs, which borrow the daemon's connection, there is one, unless    *)
(* one of the unguarded moments was met.                                   *)
OneClient == slips = {} => Cardinality(conns) <= 1

(* Whoever keeps the daemon's connection holds the instance lock, so that  *)
(* a launch that gets the lock finds the printer free; only a watchdog at  *)
(* the wrong moment, a job that outlives the link and a failed start leave *)
(* a connection behind.                                                    *)
LockCoversLink ==
  "left" \notin slips
    => \A p \in Daemons : Link(p) \in conns => lock = p

(* A daemon that is told to stop gives the lock back, whatever its jobs,   *)
(* its watchdog and the printer do: the next launch is not refused.        *)
StopEnds == \A p \in Daemons : p \in stop ~> lock # p

(* daemon.py:348: a daemon whose web server does not start carries on with *)
(* its tasks; nobody but its user, or a signal, ends it.                   *)
EndedByUser ==
  [][\A p \in Daemons : p \in stop' \ stop => tray[p] # "waiting"]_vars
=============================================================================
