---------------------------- MODULE EventBroker ----------------------------
(***************************************************************************)
(* How a browser's picture of the printer and of the tasks follows the     *)
(* daemon's.  A stream begins with a snapshot and goes on with patches;    *)
(* what changes is announced by the thread that changed it, broadcast by   *)
(* the event loop into one bounded queue per browser, and put into the     *)
(* browser's store.  A queue that overflows is replaced by one "resync",   *)
(* on which the browser asks for everything again; a stream that breaks is *)
(* opened again.                                                           *)
(*                                                                         *)
(* A cell is a part of the picture that is compared and sent as one: a     *)
(* field of the printer's snapshot, or the list of tasks.                  *)
(***************************************************************************)
EXTENDS Integers, Sequences, FiniteSets, SequencesExt

CONSTANTS
  Browsers,
  Stuck,        \* browsers that may stop reading for good
  Fields,       \* fields of the printer's snapshot
  Values,       \* what a cell can show; Default before anything is known
  Default,
  Paho,         \* the thread that receives reports
  Writers,      \* threads that change tasks and write the journal
  None, Due,    \* nothing to do; still to be read
  QueueSize, WireMax,                               \* capacities
  MaxChanges, MaxEvents  \* bounds

Cells     == Fields \cup {"tasks"}
Sources   == {"printer", "tasks"}
CellsOf(s) == IF s = "tasks" THEN {"tasks"} ELSE Fields
Threads   == Writers \cup {Paho}

ASSUME BrokerAssumption ==
  /\ Stuck \subseteq Browsers
  /\ "tasks" \notin Fields /\ Default \in Values /\ Paho \notin Writers
  /\ QueueSize \in Nat \ {0} /\ WireMax \in Nat \ {0}
  /\ MaxChanges \in Nat /\ MaxEvents \in Nat

VARIABLES
  acc,       \* ReportAccumulator of the transport in use
  srv,       \* the daemon's picture: PrinterLink._snapshot and the tasks
  adopt,     \* what _connect is about to adopt: None, Due, or a snapshot
  todo,      \* what a thread has still to announce: None, Due, a message
  bound, loop,  \* EventBroker._loop is known; its callbacks, oldest first
  phase,     \* of a browser's stream
  initial,   \* the snapshot events() has read for it
  queue,     \* its asyncio.Queue
  wire,      \* frames on their way to it
  store,     \* what it shows
  asked,     \* its requests the daemon has not answered yet
  answers,   \* answers on their way to it
  failed,    \* sources it could not read again when it was told to
  untold,    \* cells whose last change was announced to nobody, or perhaps
             \* not last
  lost,      \* cells that a browser may show wrong: an announcement passed
             \* its stream by, or overtook an answer
  changes,   \* reports and changes of tasks so far
  events     \* transports replaced, streams broken, restarts, pages that
             \* asked by themselves, so far

server == <<acc, srv, adopt, todo, bound, loop>>
stream == <<phase, initial, queue, wire>>
page   == <<store, asked, answers, failed>>
counts == <<changes, events>>
vars   == <<acc, srv, adopt, todo, bound, loop, phase, initial, queue, wire, store,
            asked, answers, failed, untold, lost, changes, events>>

\* A frame replaces some cells of the store and asks for some sources.
Nothing   == [c \in {} |-> Default]
Put(part) == [put |-> part, ask |-> {}]
Resync    == [put |-> Nothing, ask |-> Sources]
Parts     == UNION {[C -> Values] : C \in SUBSET Cells}
Frames    == [put : Parts, ask : SUBSET Sources]

\* The marks of a thread's variable are no messages.
ASSUME MarksAssumption == None # Due /\ {None, Due} \cap Frames = {}

\* One part of the picture put over another.
Over(part, whole) ==
  [c \in DOMAIN part \cup DOMAIN whole |-> IF c \in DOMAIN part THEN part[c] ELSE whole[c]]

Fresh           == [c \in Fields |-> Default]
Differing(f, g) == {c \in DOMAIN f \cap DOMAIN g : f[c] # g[c]}
Open(b)         == phase[b] = "open"

\* What a frame tells the browser, by a value or by having it ask.
CellsOfAll(S) == UNION {CellsOf(s) : s \in S}
Told(m)       == DOMAIN m.put \cup CellsOfAll(m.ask)

\* The event loop runs nothing else while it reads a snapshot.
LoopFree == \A b \in Browsers : phase[b] # "reading"

\* What service.list_tasks() returns.
List == [c \in {"tasks"} |-> srv[c]]

---------------------------------------------------------------------------
\* Threads of the daemon.

\* A report changes some fields: apply() computes the patch against what the
\* same transport reported before, _on_report replaces the link's snapshot.
Report ==
  /\ changes < MaxChanges /\ todo[Paho] = None
  /\ \E new \in [Fields -> Values] :
       LET changed == Differing(acc, new) IN
       /\ changed # {}
       /\ acc' = new /\ srv' = Over(new, srv)
       /\ todo' = [todo EXCEPT ![Paho] = Put([c \in changed |-> new[c]])]
       /\ untold' = (untold \cup Differing(new, srv)) \ changed
  /\ changes' = changes + 1
  /\ UNCHANGED <<adopt, bound, loop, stream, page, lost, events>>

\* The link replaces its transport: the new one starts from nothing.  With a
\* new configuration the link's own snapshot is cleared as well.
Renew ==
  /\ events < MaxEvents /\ todo[Paho] = None
  /\ acc' = Fresh /\ adopt' = Due
  /\ \E part \in {Nothing, Fresh} :
       /\ srv' = Over(part, srv)
       /\ untold' = untold \cup Differing(part, srv)
  /\ events' = events + 1
  /\ UNCHANGED <<todo, bound, loop, stream, page, lost, changes>>

\* _connect reads the transport's snapshot, and then adopts it.
Pull ==
  /\ adopt = Due /\ adopt' = acc
  /\ UNCHANGED <<acc, srv, todo, bound, loop, stream, page, untold, lost, counts>>

Adopt ==
  /\ adopt \notin {None, Due}
  /\ srv' = Over(adopt, srv) /\ untold' = untold \cup Differing(adopt, srv)
  /\ adopt' = None
  /\ UNCHANGED <<acc, todo, bound, loop, stream, page, lost, counts>>

\* A task is written; the thread has its journal record announced next.
ChangeTasks(w) ==
  /\ changes < MaxChanges /\ todo[w] = None
  /\ \E v \in Values \ {srv["tasks"]} : srv' = [srv EXCEPT !["tasks"] = v]
  /\ todo' = [todo EXCEPT ![w] = Due] /\ changes' = changes + 1
  /\ UNCHANGED <<acc, adopt, bound, loop, stream, page, untold, lost, events>>

\* _on_journal lists the tasks; of two lists in hand, the older may be posted
\* last...
ReadTasks(w) ==
  /\ todo[w] = Due
  /\ todo' = [todo EXCEPT ![w] = Put(List)]
  /\ untold' = IF \E v \in Writers : todo[v] \notin {None, Due}
               THEN untold \cup {"tasks"} ELSE untold \ {"tasks"}
  /\ UNCHANGED <<acc, srv, adopt, bound, loop, stream, page, lost, counts>>

\* ...and posts them, as the receiving thread posts its patch: a callback of
\* the loop, or nothing as long as no stream has made the loop known.  Then a
\* stream that has read its snapshot misses it.
Post(p) ==
  /\ todo[p] \notin {None, Due}
  /\ loop' = IF bound THEN Append(loop, todo[p]) ELSE loop
  /\ lost' = [b \in Browsers |->
       IF bound THEN lost[b] ELSE lost[b] \cup (Told(todo[p]) \cap DOMAIN initial[b])]
  /\ todo' = [todo EXCEPT ![p] = None]
  /\ UNCHANGED <<acc, srv, adopt, bound, stream, page, untold, counts>>

---------------------------------------------------------------------------
\* The event loop.

\* Faults: the queue is not drained; the message is dropped without a word.
EnqueueUndrained(q, m) == Append(q, IF Len(q) < QueueSize THEN m ELSE Resync)
EnqueueSilent(q, m)    == IF Len(q) < QueueSize THEN Append(q, m) ELSE q

Enqueue(q, m) == IF Len(q) < QueueSize THEN Append(q, m) ELSE <<Resync>>

\* What a queue is given is no longer lost; what is broadcast while a stream is
\* about to subscribe passes it by.
Passed ==
  lost' = [b \in Browsers |->
    IF Open(b) THEN lost[b] \ Told(Last(queue'[b]))
    ELSE lost[b] \cup (Told(Head(loop)) \cap DOMAIN initial[b])]

\* Fault: put() instead of put_nowait(), which waits for room.
DeliverWaiting ==
  /\ loop # <<>> /\ LoopFree /\ \A b \in Browsers : Len(queue[b]) < QueueSize
  /\ queue' = [b \in Browsers |-> IF Open(b) THEN Append(queue[b], Head(loop)) ELSE queue[b]]
  /\ loop' = Tail(loop) /\ Passed
  /\ UNCHANGED <<acc, srv, adopt, todo, bound, phase, initial, wire, page, untold, counts>>

\* _publish: a full queue is drained and left with one resync.
Deliver ==
  /\ loop # <<>> /\ LoopFree
  /\ queue' = [b \in Browsers |-> IF Open(b) THEN Enqueue(queue[b], Head(loop)) ELSE queue[b]]
  /\ loop' = Tail(loop) /\ Passed
  /\ UNCHANGED <<acc, srv, adopt, todo, bound, phase, initial, wire, page, untold, counts>>

\* events() reads the printer's snapshot, then the tasks.
Connect(b) ==
  /\ phase[b] = "closed" /\ LoopFree
  /\ phase' = [phase EXCEPT ![b] = "reading"]
  /\ initial' = [initial EXCEPT ![b] = [c \in Fields |-> srv[c]]]
  /\ lost' = [lost EXCEPT ![b] = {}]
  /\ UNCHANGED <<server, queue, wire, page, untold, counts>>

Welcome(b) ==
  /\ phase[b] = "reading"
  /\ phase' = [phase EXCEPT ![b] = "starting"]
  /\ initial' = [initial EXCEPT ![b] = Over(List, initial[b])]
  /\ UNCHANGED <<server, queue, wire, page, untold, lost, counts>>

\* stream() subscribes, and its first frame is the snapshot.
Subscribe(b) ==
  /\ phase[b] = "starting"
  /\ phase' = [phase EXCEPT ![b] = "open"] /\ bound' = TRUE
  /\ wire' = [wire EXCEPT ![b] = <<Put(initial[b])>>]
  /\ initial' = [initial EXCEPT ![b] = Nothing]
  /\ UNCHANGED <<acc, srv, adopt, todo, loop, queue, page, untold, lost, counts>>

Pump(b) ==
  /\ Open(b) /\ queue[b] # <<>> /\ Len(wire[b]) < WireMax
  /\ wire' = [wire EXCEPT ![b] = Append(@, Head(queue[b]))]
  /\ queue' = [queue EXCEPT ![b] = Tail(@)]
  /\ UNCHANGED <<server, phase, initial, page, untold, lost, counts>>

---------------------------------------------------------------------------
\* A browser.

Covered(part)   == {s \in Sources : CellsOf(s) \subseteq DOMAIN part}
Show(b, part)   == /\ store' = [store EXCEPT ![b] = Over(part, store[b])]
                   /\ failed' = [failed EXCEPT ![b] = @ \ Covered(part)]
UnderWay(b)     == UNION {DOMAIN a : a \in ToSet(answers[b])}

\* A snapshot, a patch and a list of tasks are shown; on a resync the browser
\* asks for the tasks and for the printer.  An answer under way may be older.
Receive(b) ==
  /\ wire[b] # <<>>
  /\ LET m == Head(wire[b]) IN
     /\ Show(b, m.put)
     /\ asked' = [asked EXCEPT ![b] = [s \in Sources |-> @[s] + (IF s \in m.ask THEN 1 ELSE 0)]]
     /\ lost' = [lost EXCEPT ![b] = @ \cup (Told(m) \cap UnderWay(b))]
  /\ wire' = [wire EXCEPT ![b] = Tail(@)]
  /\ UNCHANGED <<server, phase, initial, queue, answers, untold, counts>>

\* GET /api/tasks and GET /api/printer, answered by threads of the pool.
Answer(b, s) ==
  /\ asked[b][s] > 0
  /\ answers' = [answers EXCEPT ![b] = Append(@, [c \in CellsOf(s) |-> srv[c]])]
  /\ asked' = [asked EXCEPT ![b][s] = @ - 1]
  /\ UNCHANGED <<server, stream, store, failed, untold, lost, counts>>

\* Answers arrive in any order.
Arrive(b) ==
  /\ \E i \in 1..Len(answers[b]) :
       /\ Show(b, answers[b][i])
       /\ answers' = [answers EXCEPT ![b] = RemoveAt(@, i)]
  /\ UNCHANGED <<server, stream, asked, untold, lost, counts>>

\* The rejection is swallowed: nobody asks again.
RequestFails(b, s) ==
  /\ asked[b][s] > 0
  /\ asked' = [asked EXCEPT ![b][s] = @ - 1]
  /\ failed' = [failed EXCEPT ![b] = @ \cup {s}]
  /\ UNCHANGED <<server, stream, store, answers, untold, lost, counts>>

\* A page calls refreshTasks after an operation of its own.
RefreshTasks(b) ==
  /\ events < MaxEvents /\ events' = events + 1
  /\ asked' = [asked EXCEPT ![b]["tasks"] = @ + 1]
  /\ UNCHANGED <<server, stream, store, answers, failed, untold, lost, changes>>

\* The stream breaks: the browser closes it and has it opened again by a
\* timer; the generator is cancelled and its queue unsubscribed.
Break(b) ==
  /\ phase[b] # "closed" /\ events < MaxEvents
  /\ phase' = [phase EXCEPT ![b] = "closed"] /\ initial' = [initial EXCEPT ![b] = Nothing]
  /\ queue' = [queue EXCEPT ![b] = <<>>] /\ wire' = [wire EXCEPT ![b] = <<>>]
  /\ events' = events + 1
  /\ UNCHANGED <<server, page, untold, lost, changes>>

\* The daemon stops and starts again: the tasks are in the database, all else
\* is new, and every stream and every request breaks.
Restart ==
  /\ events < MaxEvents /\ events' = events + 1
  /\ acc' = Fresh /\ srv' = Over(Fresh, srv) /\ adopt' = Due /\ untold' = {}
  /\ todo' = [p \in Threads |-> None] /\ bound' = FALSE /\ loop' = <<>>
  /\ phase' = [b \in Browsers |-> "closed"] /\ initial' = [b \in Browsers |-> Nothing]
  /\ queue' = [b \in Browsers |-> <<>>] /\ wire' = [b \in Browsers |-> <<>>]
  /\ failed' = [b \in Browsers |-> failed[b] \cup {s \in Sources : asked[b][s] > 0}
                                   \cup UNION {Covered(a) : a \in ToSet(answers[b])}]
  /\ asked' = [b \in Browsers |-> [s \in Sources |-> 0]]
  /\ answers' = [b \in Browsers |-> <<>>] /\ lost' = [b \in Browsers |-> {}]
  /\ UNCHANGED <<store, changes>>

---------------------------------------------------------------------------
Init ==
  /\ acc = Fresh /\ adopt = None
  /\ srv = [c \in Cells |-> Default]
  /\ todo = [p \in Threads |-> None] /\ bound = FALSE /\ loop = <<>>
  /\ phase = [b \in Browsers |-> "closed"] /\ initial = [b \in Browsers |-> Nothing]
  /\ queue = [b \in Browsers |-> <<>>] /\ wire = [b \in Browsers |-> <<>>]
  /\ store = [b \in Browsers |-> [c \in Cells |-> Default]]
  /\ asked = [b \in Browsers |-> [s \in Sources |-> 0]]
  /\ answers = [b \in Browsers |-> <<>>] /\ failed = [b \in Browsers |-> {}]
  /\ untold = {} /\ lost = [b \in Browsers |-> {}]
  /\ changes = 0 /\ events = 0

Daemon == Report \/ Renew \/ Pull \/ Adopt \/ \E w \in Writers : ChangeTasks(w) \/ ReadTasks(w)
Loop   == Deliver \/ \E b \in Browsers : Connect(b) \/ Welcome(b) \/ Subscribe(b) \/ Pump(b)
Page(b) ==
  \/ Receive(b) \/ Arrive(b) \/ RefreshTasks(b) \/ Break(b)
  \/ \E s \in Sources : Answer(b, s) \/ RequestFails(b, s)

Next ==
  \/ Daemon \/ Loop \/ Restart
  \/ \E p \in Threads : Post(p)
  \/ \E b \in Browsers : Page(b)

Spec == Init /\ [][Next]_vars

\* Threads and the loop go on, answers are given; a browser that is not stuck
\* reads its stream and opens a broken one again.
Fairness ==
  /\ WF_vars(Pull) /\ WF_vars(Adopt) /\ WF_vars(Deliver)
  /\ \A w \in Writers : WF_vars(ReadTasks(w))
  /\ \A p \in Threads : WF_vars(Post(p))
  /\ \A b \in Browsers : WF_vars(Welcome(b)) /\ WF_vars(Subscribe(b))
  /\ \A b \in Browsers \ Stuck :
       /\ WF_vars(Connect(b)) /\ WF_vars(Pump(b)) /\ WF_vars(Receive(b)) /\ WF_vars(Arrive(b))
       /\ \A s \in Sources : WF_vars(Answer(b, s))

FairSpec == Spec /\ Fairness
---------------------------------------------------------------------------
\* Every variable keeps its type, and no browser's queue or connection holds
\* more than its capacity, however slowly it reads.
TypeOK ==
  /\ acc \in [Fields -> Values] /\ srv \in [Cells -> Values]
  /\ adopt \in {None, Due} \cup [Fields -> Values]
  /\ todo \in [Threads -> {None, Due} \cup Frames]
  /\ bound \in BOOLEAN /\ loop \in Seq(Frames)
  /\ phase \in [Browsers -> {"closed", "reading", "starting", "open"}]
  /\ initial \in [Browsers -> Parts]
  /\ queue \in [Browsers -> Seq(Frames)] /\ wire \in [Browsers -> Seq(Frames)]
  /\ \A b \in Browsers : Len(queue[b]) <= QueueSize /\ Len(wire[b]) <= WireMax
  /\ \A b \in Browsers : ~Open(b) => queue[b] = <<>> /\ wire[b] = <<>>
  /\ store \in [Browsers -> [Cells -> Values]]
  /\ asked \in [Browsers -> [Sources -> Nat]] /\ answers \in [Browsers -> Seq(Parts)]
  /\ failed \in [Browsers -> SUBSET Sources] /\ untold \in SUBSET Cells
  /\ lost \in [Browsers -> SUBSET Cells]
  /\ changes \in Nat /\ events \in Nat

\* What a browser shows of a cell can be right: its change was announced, no
\* announcement passed it by or overtook an answer since it heard of the cell,
\* and it did not fail to read it again.
Knowable(b) == Cells \ (untold \cup lost[b] \cup CellsOfAll(failed[b]))
Right(b, C) == \A c \in C : store[b][c] = srv[c]
Settled(b) ==
  /\ Open(b) /\ loop = <<>> /\ \A p \in Threads : todo[p] = None
  /\ queue[b] = <<>> /\ wire[b] = <<>> /\ answers[b] = <<>>
  /\ \A s \in Sources : asked[b][s] = 0

\* When all that was announced has reached a browser, it shows what the daemon
\* holds: an overflow loses no change, for the resync that replaces the queue
\* makes the browser read everything that was dropped.
Converged == \A b \in Browsers : Settled(b) => Right(b, Knowable(b))

\* A browser that reads its stream gets there and stays there once nothing
\* changes, whatever breaks on the way and though another one has stopped
\* reading for good.
EventuallyAligned == \A b \in Browsers \ Stuck : <>[]Right(b, Knowable(b))

\* What report.py says of reset() and of a patch: after a reconnect the old
\* snapshot is replaced by what the new connection reports, and a patch tells
\* the difference to the snapshot before it.  So a settled browser shows the
\* daemon's picture of the printer, whatever transport it came by.
Mirrored == \A b \in Browsers : Settled(b) /\ failed[b] = {} => Right(b, Cells)

=============================================================================
