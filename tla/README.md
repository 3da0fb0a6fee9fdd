# A verification development for Bambu-Print-Queue

Bambu-Print-Queue (`bpq`) is a daemon that keeps a queue of print jobs for one
Bambu Lab printer: a task is a 3mf file and a time; the file is uploaded to the
printer's storage over FTPS, early or when the task is due, and at its time the
daemon checks that the printer is idle and sends it one MQTT command,
`project_file`. This directory holds TLA+ models of the parts of it in which
threads, processes, crashes and the printer meet, TLC runs that check them on
small instances, and TLAPS proofs of what holds for every instance.

Paths below are relative to `src/bpq/` of the repository unless they start with
another directory; those that start with `web/src/` are the browser's, in the
repository's `web/`.

## The system

| part | state it keeps | operations |
|---|---|---|
| task store (`store.py`, `models.py`) | SQLite table `tasks` | `add`, `get`, `list`, `set_state`, `replace`, `delete`, each one committed statement; `_migrate` at start |
| scheduler (`scheduler.py`) | APScheduler job store (SQLite) and executor | `submit`, `fire`, `cancel`; the misfire rule |
| service (`service.py`) | none of its own | `submit`, `update`, `cancel`, `delete`, used by web and CLI alike |
| printer link (`link.py`) | `_tp`, `_yielded`, `cfg`, `_snapshot`, `_last_report_at`, `_use_lock`, `_state_lock` | `open`, `close`, `session`, `yield_connection`, `resume_connection`, `reconfigure`, `request_pushall`, watchdog |
| LAN transport (`transport/lan.py`) | MQTT client, merged state, events for replies | `upload`, `get_state`, `start`, `close` |
| daemon (`daemon.py`, `runtime.py`) | instance lock, process-wide context | start and stop, `run_task` |
| web (`web/app.py`) | probe lock, current configuration | routes; `_probe_printer`, `patch_printer_config`, `patch_config` |
| event stream (`web/events.py`, `web/src/store/app.ts`) | one bounded queue per browser; the browser's copy | publish, stream, resync, reconnect |
| reports (`report.py`, `snapshot.py`) | merged report | `apply`, patches between snapshots |
| journal (`journal.py`) | one JSON-lines file | `write`, `query`, `clear` |
| configuration (`config.py`, `configwrite.py`) | one TOML file | load, update in place |
| 3mf (`threemf.py`) | none | inspect, slim, colour matching |
| tray (`tray.py`, `traymain.py`) | child process | start and end the daemon |

How they meet. HTTP handlers run in a thread pool inside the daemon, `bpq`
commands in processes of their own, fires in the executor of APScheduler, the
watchdog and paho's receiver in threads of the link. All of them share the two
SQLite tables; those inside the daemon share one `PrinterLink`. No lock is held
over more than one SQL statement, and the link's `_state_lock` over no more than
one assignment. So every read of a row, and every look at the link, is stale by
the time it is used. That, and what a crash leaves between two commits, is what
is hard about this program and what its tests, which call one operation after
another, do not reach. `PROJECT.json` lists these hazards line by line.

What makes each part correct:

* tasks: started at most once; never left open with nobody to fire it; no job
  without a row; a recorded time is never lost; a task shown as uploaded has its
  file; cancel means cancel; a printing printer is left alone.
* link: one connection; a yielded one is free and stays so; the configuration in
  force is the one that was saved; the transport in use is heard; a lost
  connection comes back; a fire is never refused because of a yield.
* stream: when nothing changes any more, every browser shows what is there.
* reports: a merge of increments equals the state they describe.
* journal, configuration: nothing written is lost by a concurrent rewrite.
* daemon: one daemon at a time; whatever order it starts and stops in, it has at
  most one connection, and a healthy one is not killed.

## Modules

| module | what it is | proofs |
|---|---|---|
| `TaskLifecycle` | rows, jobs, handlers, commands, fires, the printer, crashes | `TaskLifecycle_proofs` |
| `TaskPromise` | what a task is to whoever submitted it; `TaskLifecycle` implements it | `TaskLifecycle_proofs` |
| `PrinterLink` | the one connection and the threads that use it | `PrinterLink_proofs` |
| `DaemonLifecycle` | the instance lock, the order of start and stop, and who is a client of the printer meanwhile | `DaemonLifecycle_proofs` |
| `LanTransport` | reports that are merged, breaks, and a command that waits for its reply | `LanTransport_proofs` |
| `EventBroker` | the daemon's picture, the threads that announce changes, the broker's queues and the browsers' stores | `EventBroker_proofs` |
| `Submission` | file, plate, spools and options of a task, from the page to the start command | `Submission_proofs` |
| `ConfigReload` | `config.toml`, and everybody who holds what was read from it | `ConfigReload_proofs` |
| `Journal` | `bpq.jsonl`: appended to, read in pages, cleared | `DiskFiles_proofs` |
| `StoreMigration` | several processes that open and migrate one database | `DiskFiles_proofs` |

`MCTaskLifecycle`, `MCPrinterLink`, `MCDaemonLifecycle`, `MCLanTransport`,
`MCEventBroker` and `MCSubmission` are the instances of these for TLC.
`MCDiskFiles` takes `ConfigReload`, `Journal` and `StoreMigration` together: the
three files are handled alike (looked at, then replaced, with a crash between)
but share nothing, so a behaviour of it exercises one of them. `DiskFiles_proofs`
is about that composition, and builds on `ConfigReload_proofs`.

The modules meet at the places where one hands over to another, and each leaves
to the others what is theirs. `TaskLifecycle` sees of the link who may use the
printer and that a session may be refused; why it is refused is `PrinterLink`'s.
`PrinterLink` sees a transport as connected or not; what a connected one knows
is `LanTransport`'s, and how it reaches a browser `EventBroker`'s. Who opens and
closes the link is `DaemonLifecycle`'s. `TaskLifecycle` follows a task in time and
`Submission` follows what it prints.

Each module models one step of the code as one action: a step is a statement
that another thread can observe (a committed SQL statement, an assignment under
`_state_lock`, a call that leaves the process). Below each specification come
its properties and then the strengthenings that only the proofs use. Operators
marked "Fault:" are plausible bugs in the definition that follows them; they are
no part of any specification, and serve to show that a property can tell the
code from a broken version of it (`PROJECT.json`, "mutants").

### TaskLifecycle

`state`, `at`, `stamps` are the columns of a row (`stamps` says which of
`uploaded_at`, `triggered_at`, `sent_payload` are set); `jobs` is APScheduler's
job store; `useLock` the holder of `PrinterLink._use_lock`; `storage` whose
whole file lies under each name on the printer; `printer` and `seen` what the
printer does and what the last merged report said; `sent` counts the start
commands. `pc`, `subject`, `copy`, `when` are each thread's place, task and copy
of the row: `copy` is what makes the races visible. The thread of `fire(t)` in the
running daemon is `t` itself, because the job store has one job per task and
`max_instances` is 1; `Old[t]` is the thread of a daemon that was stopped while
the fire ran. `due` and `taken` are the scheduler's pass: the jobs it has read and
not handed over, and the one it has handed over and not removed.

| code | actions |
|---|---|
| `TaskService.submit` | `Submit`, upload (`UploadBegin`, `UploadEnd`, `UploadFail`, `RecordUploaded`, `RecordUnsent`), `Schedule` |
| `TaskService.update` | `Update`, `Replace`, then `Schedule` at the new time |
| `TaskService.cancel`, `delete` | `Cancel`, `RecordCancelled`, `Unschedule`; `Delete`, `PurgeJob`, `PurgeRow` |
| APScheduler | `ReadDue`, `HandOver`, `Remove`, `RemoveRaises`; in the executor `RunJob` (in time, or a misfire) |
| `TaskRunner.fire` | `FireRead`, `FireSession`, `FireUnreachable`, upload, `FireCheck`, `FireAbort`, `FireSend`, `FireReply`, `RecordStarted`, `RecordFailed` |
| outside | `Tick`, `PrinterMoves`, `Report`, `Crash`, `Stop`, `Restart`, `Interrupt` |

APScheduler reads the jobs that are due, hands each to the executor and removes
it afterwards, in a commit of its own, all of it with its job store lock in hand:
handlers of the daemon wait for it (`JobstoreFree`), `bpq` commands do not. So a
fire runs while its job is still in the store, and a daemon that ends in that
moment, a database that stays locked (`RemoveRaises`: nobody catches it, and the
scheduler's thread ends) or a stop that the removal comes too late for leaves the
job to the next scheduler, which fires the task again. The ghost `kept` names
these tasks. The ghost `unsized` names those whose last upload the printer would
not tell the size of: `lan.py:200` skips the check then.

A crash ends every thread. A stop does not: `shutdown(wait=False)` waits for no
job, but the interpreter does before it exits, so a fire goes on, as `Old[t]`,
beside the daemon that is started next. It has no lock in common with that one,
and what its connection hears is left open (`Heard`). Simpler than the code: one
stopped daemon at a time; handlers end before a stop, while `web.stop` gives them
5 seconds; of two late fires of one stopped daemon neither waits for the other,
so there are more behaviours than the code's; and of the SQL statements only the
removal of a job can fail. `TaskRunner` reaches the printer through the daemon's
link; the connection itself (reconnecting, yielding) is the business of
`PrinterLink`, and a session that cannot be had is the first disjunct of
`FireUnreachable`.

### TaskPromise

`phase` is all a user cares about: a task waits, then it is sent, once, or it is
over. The mapping of `TaskLifecycle` onto it: a task is sent when its start
command went out; it waits while something can still send it (a handler that is
submitting it, its job, its fire before the start); else it is over. So
`PromiseKept` says more than that nothing is started twice: once nothing is left
that could start a task, nothing appears that can, whatever is cancelled,
crashes, or overwrites a cancelled row (`scheduler.py:106`). `loose` are the tasks
that may be sent again: those of `kept`, and no others. With edits the promise is
not kept, because an edit makes jobs of finished tasks (`TaskEditRace`).

### PrinterLink

`tp` is `_tp`; `open` the transports whose MQTT connection is up, which need not
be the one the link holds; `heard` those whose reports reach `_on_report`;
`cfgOf` the configuration each was built with; `live` stands for the age of the
last report. Each thread has a `pc`, the call it is in (`job`), and the
transport it has in hand (`mine`), which another thread may already have closed:
a `LanTransport` connects when it is used, and again when it is used after
`close()`. `promised` records that a user was told that Bambu Studio may connect.
Calls overlap freely. The history variable `crossed` records in which of three ways
they have got in each other's way so far: two threads replaced the transport at
once (`replaced`), one replaced it while another used it or was about to
(`used`), and a probe or a change of the printer, begun before a user yielded,
was about to take the connection back (`promised`). Nothing in the code guards these, and each
property says which of them it does not survive; it holds in all other overlaps.

| code | actions |
|---|---|
| `_connect` | `Build`, `Publish`, `ConnectDial` (state, then version), `Adopt` |
| `_drop` | `Drop`, `Hangup` |
| `yield_connection`, `resume_connection`, `request_pushall` | `AskYield`, `AskResume` + `Resume`, `AskRefresh` + `Refresh` |
| `session` | `Borrow`, `Enter`, `Resume`, `Take`, `Use`, `Leave` |
| `_probe_printer`, `patch_printer_config` | `Probe`, `Trial`, `Probed`, `Restore`, `Unprobe`, `Reload`, `Renew` |
| `_watch`, `_on_report` | `Watch`, `WatchPull`, `OnReport`, `Silence` |
| the printer | `PrinterGoes` |

`close()` of a transport joins paho's thread, so no report reaches a transport
that has been hung up; `Hangup` is therefore one step. `open()` and `close()` of
the link belong to the daemon's start and stop: `DaemonLifecycle`.

### DaemonLifecycle

`lock` is the OS lock on `var/bpq.lock`; `pc` how far each launch of `serve()`
is; `sched`, `current`, `web`, `stop` the launches whose scheduler runs, whose
runtime is registered, whose web server answers, whose stop event is set; `dog`,
`fire`, `tray`, `cmd` the threads and processes beside it; `conns` the MQTT
connections that are open, each with its process and its owner.

| code | actions |
|---|---|
| `lazy.run`, `traymain.main`, `cli daemon` | `Launch`; `TrayReady`, `TrayGivesUp`, `TrayQuit`, `TrayLeaves`; `Signal`, `Exit`, `Kill` |
| `single_instance` | `Acquire`, `Refused`, `Unlock` |
| `serve` | `OpenLink`, `StartFails`, `StartScheduler`, `Register`, `StartWeb`; then `Unregister`, `StopWeb`, `StopScheduler`, `CloseLink` |
| the link's watchdog | `DogDrops`, `DogConnects` |
| `run_task` | `Due`, `RunTask`, `FireOnLink`, `FireEnds` |
| `cli.py`: `_daemon`, `_refuse_if_daemon_holds_lock`, direct use | `CmdBegin`, `CmdProbe`, `CmdCheck`, `CmdRelease`, `CmdConnect`, `CmdEnds` |

The ghost `slips` names the moments that nothing in the code guards: a job that
finds no runtime (`alone`), a thread of the link that outlives `close()` or a
start that fails (`left`), and a daemon or command that starts beside a command
that goes direct (`beside`). `OneClient` is claimed outside them and nowhere
else, which says that these are all.

### LanTransport

`real` is what the printer would report in full, `wire` what it has said and
paho has not read, `raw` the accumulator, `told` what a listener has made of the
patches, `replies` and `replyEvent` the shared table and event for answers to
commands, `pc` and `task` the one fire at a time that the use lock lets through.
Three kinds of field stand for the report: a scalar (`gcode_state`, with a value
that no enum knows), a list that is replaced whole (`hms`) and the two nested
lists that are merged by id (`ams`).

| code | actions |
|---|---|
| the printer | `PrinterChanges` (an increment with what changed), `Unplug`, `PushAll`, `Break` |
| paho, `_on_connect` | `OnConnect` (subscribes, asks for a full report) |
| `request_pushall` | `RequestPushall` |
| `_on_message`, `ReportAccumulator.apply`, `_deep_merge` | `OnMessage` with `DeepMerge`, `MergeById`, `Keep` |
| `get_state`, `start` | `GetState` (waits, then decides), `Send`, `WaitEnds` |

`noise` and `deaf` mark a wait that another command's reply, or the timeout,
ended: `lan.py:429` takes both for a missing reply, and that for success. `gone` are
units that were unplugged: nothing ever takes them out of the merged report.

### EventBroker

`srv` is what the daemon would show now: the fields of `PrinterLink._snapshot`
and the task list; `acc` what the transport in use has accumulated, which is not
the same after the link has replaced its transport. `todo` is what a thread has
changed and not yet announced, `loop` the callbacks of the event loop, `queue`
and `wire` each browser's `asyncio.Queue` and connection, `store` its page's
state, `asked` and `answers` its requests under way. Frames are one kind of
record: a part of the picture to put over the store, and sources to ask for
(only a resync asks). `Values` are compared and nothing else, so two of them do.

| code | actions |
|---|---|
| `ReportAccumulator.apply`, `PrinterLink._on_report` | `Report` |
| `_connect`, `reconfigure` as the stream sees them | `Renew`, `Pull`, `Adopt` |
| `Journal.write`, `_on_journal` | `ChangeTasks`, `ReadTasks` |
| `publish_threadsafe`, `_publish` | `Post`, `Deliver` |
| `GET /api/events`, `stream` | `Connect`, `Welcome`, `Subscribe`, `Pump` |
| `store/app.ts` | `Receive`, `Answer`, `Arrive`, `RequestFails`, `RefreshTasks`, `Break` |
| the daemon | `Restart` |

Three ghosts say what a browser cannot know: `failed`, the sources whose re-read
failed (the page swallows the error); `untold`, what changed with nothing to say
so, or was announced out of order (two threads with a task list in hand,
`daemon.py:374`); and `lost`, for each browser, the cells whose announcement passed
its stream by between snapshot and subscription, or overtook an answer on its way
to the page. A cell is lost until the browser is told a newer value of it. Not in
this module: the link's health, the journal
and the configuration events, which neither a resync nor a snapshot repeats in
full; a stream refused for want of a login; the old transport's thread, which
`close()` joins before a new transport starts.

### Submission

`disk` is the spool directory and the user's own files, `storage` the printer's,
`trays` the AMS and `seen` what the link's snapshot says of it, `defaults` the
print options in the configuration and `conn` those the live transport was built
with; `page` is the state of `TaskNew.tsx` and `asks` its requests under way;
`row` and `pc` are the tasks. A file is its model and whether it still carries
`Auxiliaries/`; a colour is a point on a line, since only distances are compared.

| code | actions |
|---|---|
| `accept_upload` with `inspect` and `slim` | `Upload` |
| `TaskNew.tsx` | `ChoosePlate`, `Arrive`, `PickTray`, `PageSubmits` |
| `TaskService.submit` for other clients, `cli submit` | `ServiceSubmits`, `CmdSubmits` with `PickPlate`, `MatchAms` |
| `scheduler._upload`, `LanTransport.upload` | `Borrow`, `PutBegin`, `PutEnd`, `PutFails` |
| `fire`, `LanTransport.start` | `Fire`, `FireGivesUp`, `Start` with `Payload` |
| outside | `Save` (the user's file), `Swap` (a spool), `PrintEnds`, `Report`, `Disconnect`, `Connect`, `ChangeDefaults` |

`foreign` records why the printer may hold something else than what a task
means: another upload under the same name, an altered file, an upload of which
the printer would not tell the size (a short file of which it does is a failure). The mapping is checked against a definition of its own
(`Fits`), not against `MatchAms`.

### ConfigReload

`file` is `config.toml`, `holder` the object each of web, context, runner, service
and link has, `jobs` what the job store's defaults were made from, `conn` the
printer section that the connection was made with. A request reads (`ReadDoc`),
replaces (`Write`), loads (`Load`), and then tells the holders one after the
other (`Tell`, the link last, with `ReconfigureDrop`, `ReconfigureRenew`,
`ReconfigureDial`); there is no lock over any of it.

| code | actions |
|---|---|
| `patch_printer_config`, `_probe_printer` | `PatchPrinter`, `ProbeFast`, `ProbeSlow` |
| `patch_config` | `PatchSettings`, `Refuse` (`app.py:477`) |
| `configwrite.update` | `ReadDoc`, `Write` |
| `load`, `reload_config` | `LoadFails`, `Load`, `Tell`, `Reconfigure*` |
| `lazy.ensure_config` | `EnsureCheck`, `EnsureOpen`, `EnsureCopy` |
| outside | `EditByHand`, `Lose`, `Watch` (the connection), `Start`, `Crash` |

`shutil.copyfile` empties the file and then fills it, so a first start that is
killed in between leaves `Half`, a file that `load` refuses; the
next start finds it there and does not replace it. Left out: a half that happens to be a
whole configuration, and two first starts at once.

Four ghosts: `wanted`, what was last put into each section; `raced`, that a file
was replaced which had changed since it was read; `behind`, why memory may differ
from the file; `adopted`, that memory took over a printer which the connection
did not.

### Journal and StoreMigration

`Journal`: `lines` is the file, `cut` that a crash left its last line without a
line break. `write` is `Stamp` (the time is taken) and `Append1`; `query` is
`ReadPage`; `clear` is `ClearRead` and `ClearReplace`; `Crash` cuts a record
short. `garbled` says that one was cut inside a character: records are written
with `ensure_ascii=False`, and the file is decoded as a whole outside the `try`
(`journal.py:75`), so from then on every read, page and delete fails
(`Readable`, `ClearFails`) although the lines are there. The ghosts name what nothing prevents: a record appended between a
delete's look and its replacement (`slipped`), one appended to a cut line
(`blurred`), deletes that overlap (`crossed`), and a delete that takes a record
from among newer ones, because stamps need not be in the order of lines
(`shifted`).

`StoreMigration`: `table` is the set of new columns the table has, `version` the
`user_version`, `writer` who holds SQLite's write lock, `backup` the copies by
the second in their names. `TaskStore.__init__` and `_migrate` are `Open`, `Look`,
`Create`, `CreateIndex` and `SetVersion` (a new database: `executescript` commits
each statement by itself) or `LookAtColumns`, `Backup`, `Alter`,
`Commit`; `Fails` is a statement that fails because another process was first,
`Kill` the end of a process in a transaction or not. The ghost `clashed` says that
a copy replaced another of the same second.

## Runs

Every run is a question. The bounds are small because the races of this code
need few actors: two handlers or one handler and one fire, one task (two where
tasks meet: the lock, the printer, a file name), two clock values (due, and too
late), one crash or two.

| run | instance | shows |
|---|---|---|
| `TaskRestart` | one task, a handler, a `bpq` command, early uploads, submit and cancel; two of: a stop, a crash, an interrupt, a locked database, at any step | types; a task shown as uploaded has its whole file, unless the printer would not tell its size; at most one start, and `TaskPromise`, unless the job outlived its scheduler |
| `TaskOneUser` | one task, one handler with every operation, late uploads, a misfire, starts after a failed print | a waiting task has its job at the time its row shows and a deleted one leaves none; what a row shows is backed by its stamps, which are never lost |
| `TaskSettled` | fairness; two tasks, late uploads, jobs in time, no edits, no crash | exclusive use of the printer; every open task is settled in the end |
| `LinkOverlaps` | one user, one fire, the watchdog, two transports, two configurations, every operation, in any overlap; a behaviour is followed until two calls cross (`CONSTRAINT NotCrossed`) | all promises about the connection, and under fairness the watchdog brings it back |
| `DaemonOneClient` | one launch from a terminal, one under the tray icon, one command | one client of the printer; the lock covers the link; under fairness a daemon that is told to stop gives the lock back |
| `LanReplies` | two tasks, two AMS units with one tray of two fields, two values, one alarm; a table of one reply, two changes, two breaks | the merged report is what the printer shows, the patches tell all of it, a start concludes what the printer answered, and under fairness the picture comes right again after a break |
| `StreamAligned` | fairness; two browsers, one of which may stop reading for good, one writer, capacities of one | capacities are kept, no overflow loses a change, and the browser that reads shows in the end what is there, but for what `untold`, `lost` and `failed` name |
| `Submission` | two files (a plate without a spool, a plate that leaves out a filament number, a plate alone with number 3 that needs no AMS), one name on the printer, two spools | the printer prints the file that was submitted and feeds it from the right spools |
| `DiskFiles` | two requests, two values, one edit by hand, one crash; three records, two deletes, two days, pages of one, a crash inside a character or not; two processes, two columns, three seconds, two kills | nothing written is lost by a concurrent rewrite, and what is shown or used is what is there, outside the moments the ghosts name |
| `TaskEditRace`, `DefaultsFollow`, `SpoolAsChosen` | see below | disagreements between the code and its documents |

No run checks for deadlock where the system may stop: the changes, breaks and
upsets of `LanReplies`, `StreamAligned` and `Submission` are bounded, and in
`DiskFiles` every request, record and process comes once. The end of such a
behaviour, a quiet system, is a state it should reach.

Bounds. `MaxTime` bounds the clock, `MaxCrashes` stops, crashes, interrupts and
locked databases (crashes alone in `DiskFiles`),
`MaxStarts` the start commands counted per task (two are enough to violate "at
most one"). `Grace` is in ticks. `Conns` bounds the transports that exist side by
side; two are enough, for the one that is closed and the one that replaces it.
`MaxChanges` bounds reports and task changes, `MaxEvents` what else happens to
the stream (transports replaced, streams broken, restarts, pages that refresh by
themselves), `MaxBreaks` broken connections and refreshes, `MaxWire` reports on
their way, `MaxReplies` is the code's own limit made small, `MaxAsks` a page's
mapping requests, `MaxUpsets` what the user changes under a task, `MaxEdits` and
`MaxKills` what is done to the files from outside. Capacities of one make every
second message overflow. The one name in `Submission` is enough: its run has
behaviours in which the second task replaces the first one's file, and those in
which each prints its own. `NotCrossed` keeps `LinkOverlaps` small enough for
liveness: a state in which calls have crossed is checked and not followed any
further. What a property still claims beyond that point (`FireGetsLink` after
`replaced`, `YieldKept` after `replaced` and `used`) is proved, not checked.

### Fairness

`TaskLifecycle`: weak fairness of every handler, command and fire once begun
(each wait inside them has a timeout), of the scheduler's pass while its thread
lives, the clock and a restart. Nobody is obliged to ask for anything, and the printer is not
obliged to do anything.

`PrinterLink`: weak fairness of every call once begun; weak fairness of
`Silence` (an unrefreshed report grows old) and of `Watch`, the watchdog's tick.

`EventBroker`: weak fairness of the daemon's threads once they have something to
announce, of the event loop, of answers and of `_connect`; and, for a browser
that is not `Stuck`, of its retry timer and of reading. Nothing has to change or
break, and no fairness is given to a browser that stops reading.

`DaemonLifecycle`: weak fairness of each step of `serve()`, from the lock to its
release. Every wait in it has a timeout (the stop event, the web server's
thread, the watchdog's join, the scheduler's shutdown without waiting). Jobs,
users, the watchdog and the printer owe nothing.

`LanTransport`: weak fairness of paho's reconnection and reading and of the
printer's answer to a request for a full report, taken together. Breaks are
bounded, so the connection stays in the end: of a printer that keeps breaking
it nothing is claimed.

### Where the code and its documents disagree

Each of these is a run that TLC finds violated; `PROJECT.json` quotes the lines.

* An edit that overlaps a fire can make a task print twice (`TaskEditRace`).
* A task that follows the global default is printed with the default of the time
  when the connection was made (`DefaultsFollow`; `lan.py:385`).
* The page stores the slot chosen for a filament at the filament's place in the
  plate's list, while the printer reads the mapping by filament number: on a
  plate that leaves out a number the choice goes to another filament
  (`SpoolAsChosen`; `web/src/pages/TaskNew.tsx:338`).

More of them appear when one constant, or the property, of a passing run is
changed. Tasks:

* `NoStartAfterCancel` with `TaskOneUser`: a cancel between a fire's read and its
  start does not stop the print (`scheduler.py:111`).
* `BusyPrinterSpared` with two tasks due together, `Panel = FALSE` and no check
  for deadlock: the second fire still sees the idle report of before the first
  start (`scheduler.py:125`).
* `JobsFollowRows` with two handlers: a task purged during its upload leaves a
  job (`service.py:368` says that must not happen).
* `UploadedFileWhole` with two tasks of one file name in `TaskRestart`: the
  second upload replaces the first task's file (`service.py:302`). With one task,
  and `unsized` taken out of the property: a short file is shown as uploaded
  when the printer refuses `SIZE` (`lan.py:200`, which says it skips the check).
* `AtMostOneStart` without `kept` in `TaskRestart`: the daemon is killed, or
  stopped, after APScheduler has handed the job over and before it has removed
  it, and the next daemon fires the task again (`daemon.py:112`).
* `EventuallySettled` with two clock values: a misfire leaves a task that waits
  for ever (`config.example.toml:54` calls it given up). With one crash: a crash
  between a row and its job, or inside a fire, leaves a task that waits for ever
  (`models.py:150` says pending tasks outlive a restart). With edits beside a
  fire: `Replace` after the fire's end reopens a task that nobody fires.

The connection and the daemon:

* `LinkOverlaps` without the `CONSTRAINT`, and with an excuse taken out of the
  property: two threads can each connect and one connection leaks
  (`OneConnection`, `replaced`); a transport in use when the connection is yielded
  connects again (`OneConnection` and `YieldFrees`, `used`); a yield at the wrong
  moment makes a fire fail (`FireGetsLink`, `used`). With two users, no fire and
  only yields and probes: a yield during a probe is undone (`YieldKept` and
  `YieldFrees`, `promised`; `web/app.py:593`). For `ConfigInForce` TLC found none in
  8.5 million states; its proof needs the excuse, and by reading, a connection
  used after it was given up may still report into a link that has been
  reconfigured.
* `EndedByUser` with `DaemonOneClient`: the tray takes a daemon whose web server
  did not come up for a dead one and ends it, though `daemon.py:348` lets it
  carry on (`traymain.py:122`).
* `GraceInForce` with `DiskFiles`: `misfire_grace_time` goes into the defaults of
  the job store when it is built and is never handed out again
  (`scheduler.py:48`, `runtime.py:52`).

The stream (`Converged` of `StreamAligned`, unless another is named):

* Without `lost` in `Knowable`: an event between a stream's snapshot and its
  subscription reaches nobody (`web/events.py:92`), and an old answer replaces a
  newer list (`web/src/store/app.ts:95`).
* With two writers and three changes, and a `ReadTasks` that makes nothing
  `untold`: the older of two task lists is published last (`daemon.py:374`).
* Without `untold`, or without `failed`: a change that no patch tells, or a
  re-read that failed, leaves the old value on the page.
* `Mirrored`: what went back to its default while the link had no transport, an
  HMS alarm for instance, is in no patch and stays on every open page
  (`report.py:104`; `report.py:81` says the snapshot is rebuilt from the new
  pushall).

* A journal record that a crash cuts inside a character makes every later read
  and delete fail, while `journal.py:132` says that a bad line is skipped; `Told`
  of `Journal` is empty then, and `JournalExact` speaks of the lines.

The excuses in a property are of the same kind: `raced`, `slipped`, `clashed`,
`deaf`, `foreign`, `kept`, `unsized`, `lost` and `slips` each name a thing that the code lets
happen, and taking one out of the property makes TLC show it.

Met while reading, and in no run: `reset_state` has no caller (`lan.py:365`,
`report.py:79`), so a unit of the AMS that was unplugged stays in the report, and
`get_state` right after a reconnection answers with what was known before the
break; `accept_local` has no caller (`service.py:193`) and `cli.py:224` leaves the
user's file where it lies; a spool at 0 percent is stored as unknown
(`report.py:353`), so the warning of an empty spool (`threemf.py:248`) cannot
appear; the second of two processes that migrate fails with a duplicate column;
`bpq` commands publish nothing (`cli.py:243`), so a page shows their tasks when it
next asks; tasks are sorted by the text of their times (`store.py:330`).

## Proofs

TLAPS checks these for every value of the constants: any number of tasks,
handlers, commands, fires, transports, browsers, daemons, requests, records,
processes, units, plates and slots, and any bounds. The assumptions are those the
modules name, and TLC evaluates them on every run: sets of threads are disjoint,
sentinels are not elements, bounds and capacities are numbers. Some say more, and
it is what the code is given:

* `SubmissionAssumption`: a slicer numbers the filaments of a plate from 1 and no
  two alike (`threemf.py:180` builds the mapping on that), colours and plate
  numbers are integers, an original is not a spool file.
* `LanAssumption`: a tray has a field, and the printer's table holds a reply.
* `JournalAssumption`: records and days are counted from 1, and a page holds
  something (`web/src/pages/Journal.tsx:25` offers 25 to 200).
* `StoreAssumption`: there is a column to add, and a first second.

Some theorems have a hypothesis besides, which their statement shows: no edits
(`"update" \notin Ops`), a name on the printer for every task (`OwnNames`), one
handler and no stop, crash or locked database so far (`OneHandler`, `crashes = 0`),
a printer with a slot (`TrayIds # {}`).

| theorem | argument |
|---|---|
| `TypeCorrect` | inductive with `Fresh`: nobody works on a task before it is submitted |
| `SessionsAlwaysExclude` | lock holder and place in a session agree; inductive with the types |
| `EvidenceAlwaysKept`, `StampsAlwaysGrow` | `EvidenceInv`: a stale copy is still true of the stamps, because stamps only grow |
| `StartedAtMostOnce` | without edits. `TokenInv`: a task has one token, which goes from its submit to the job, from the job to the fire, and is spent by the start; only a scheduler that ends between hand-over and removal leaves a second one, which is what `kept` says |
| `FilesAlwaysWhole` | without edits, a name for every task. `FileInv`: nobody uploads a file whose row says it is there, and one that is marked uploaded is whole unless it is in `unsized` |
| `PromiseAlwaysKept` | without edits, `TaskLifecycle` implements `TaskPromise`. From `TokenInv`, action by action, every step takes a task `Onward`: the hope of a start is never raised again, and a start spends it |
| `JobsAlwaysFollowRows` | one handler, before the first crash. `JobsInv`: whatever its fires write meanwhile, a job that is not what its row says is about to be set or removed by the handler that wrote the row |
| `LinkTypeCorrect` | inductive with `HandInv`: who is to use a transport has one |
| `LinkHeldIsHeard` | calls overlap freely. `HeldInv`: a transport about to be published is in no other hand, and one being closed is not the link's |
| `LinkOneConnection`, `LinkYield`, `LinkStaysYielded`, `LinkInForce`, `FireAlwaysGetsLink` | calls overlap freely. `CrossInv`: as long as calls have not crossed in the ways a part names, it holds. `UseInv`: whoever uses a transport uses the link's; `BackInv`: a promise lasts; `ReplaceInv`: while a transport is replaced the link holds none, and nothing is replaced while the link is yielded; `OpenInv`: what is open is the link's or about to be hung up; `ForceInv`: and of the configuration in force, or of one that is being replaced. At the step where calls cross a part falls, and nothing is claimed of it any more |
| `DaemonTypeCorrect` | inductive: the lock is held by the process whose `serve()` is between `Acquire` and `Unlock`, or by a command that checks |
| `LinkAlwaysLocked`, `ClientAlwaysOne` | `ClientInv`. Each connection has its place: the link's, its watchdog's and its jobs' between the steps of `serve()` that make and end them (`PlaceInv`), a job's own only where it found no runtime (`BorrowInv`), a command's only while no daemon has the lock (`DirectInv`); two at once then mean that a slip was met |
| `LanTypeCorrect` | inductive with `stateEvent` implying a merged state and a table of replies without repetitions |
| `PatchesTellAll` | what a patch leaves out is equal before and after, so the old picture and the patch make the new one |
| `OutcomeAlwaysHonest` | `LanInv`: what is on the wire and in the table of replies is what the printer answered (`WireInv`, `ReplyInv`), a command has no answer before it is sent (`FireInv`), and a wait that ends without noise finds its own reply in the table (`WaitInv`) |
| `NothingEverLost` | `ConfigInv`. `WriteInv`: a request about to replace the file has in hand what the file was when it looked, with its own section changed; `FileInv`: unless that is no longer so, which `raced` says |
| `ConfigAlwaysInForce` | `HandInv`: unless `behind` says otherwise one request at a time hands out, everybody it has told has what it loaded, and that is the file, or somebody else is about to load it |
| `ProbeAlwaysHonest` | `ConnInv`: unless `adopted` says otherwise, a connection is of the section that web and link hold, or is about to be dropped for the one being handed out |
| `SnapshotAlwaysFaithful` | `PictureInv`, place by place (a scalar, the alarms, a field of a tray of a unit): while the connection is up, the last message on the wire that mentions the place has it right; if none does, the merged report has it right, or a full report is asked for or on its way. `MergeAt` says what `DeepMerge` puts in one place: the report's value where it has one, the old one elsewhere |
| `SubmissionTypeCorrect` | inductive with `TaskInv`: whoever fires has the link to itself |
| `PrintsItsFileAlways` | `StoreInv`: what lies in the spool is slim and stays; `TaskInv`: a row that was not excused names a file that is what was submitted, and a row that says uploaded has it, whole, under its name |
| `FeedsRightSpoolAlways` | `PageInv` and `TaskInv`: a mapping, shown, on its way or in a row, is `MatchAms` of the plate and the trays it says it was made of; and `NearestFits`: what `MatchAms` chooses for a filament is a loaded slot of its type, of the nearest colour and the lowest number, which is `Fits` |
| `FilesAlwaysTyped` | inductive for the three files together: a half-written configuration is in the copy of a first start, or in a daemon that does not start |
| `JournalAlwaysExact` | `PresentInv`: what was written is in the file or excused; `AheadInv`: what the one delete that looks will put back is all that is to stay, but for what came later |
| `PagesAlwaysMissNothing` | `OrderInv`: what a delete has in hand is in the file in the same order; `PagesInv`: a record that a reader has not seen has at least as many newer records in the file as he has turned past, so it is not on a page behind him; a page that is not full therefore has it. Pages are cut by position (`PageHolds`), and `NewerIs` turns positions into numbers of records |
| `SchemaAlwaysWhole` | `SchemaInv`: what a process has seen of the schema is still true when it acts on it, because the table only grows and whoever alters it knows all that is missing but what it added itself |
| `OldAlwaysKept` | `CopyInv`: whoever may alter the table has copied it while it had none of the columns |
| `StreamTypeCorrect` | inductive: a queue is filled only below its capacity or replaced by one resync, and only an open stream has frames |
| `BrowsersConverge` | no hypothesis: any number of browsers and writers, both gaps open. `StreamInv`, cell by cell: unless the cell is untold, lost to the browser or failed, the last word on it between the daemon and the browser (announced, queued, on the connection, in the snapshot a stream will begin with, in an answer under way, else in the store) is its value, or the browser is about to ask; an overflow loses no word because the resync asks for everything (`EndsEnqueue`) |

The hypotheses of `StartedAtMostOnce`, `FilesAlwaysWhole`, `PromiseAlwaysKept` and
`JobsAlwaysFollowRows` are necessary, and so are the excuses of the properties of
the link and the stream, but for those of `ConfigInForce`: the violated runs and
the changes above show what happens without them. So the theorems and those runs together say where the
program is right and where exactly it stops being right.

Three of the arguments need induction on data, which the library states with an
operator as a parameter and the provers cannot use. They go a way around.
`Only` in `Journal` filters a sequence by a recursive function; `DiskFiles_proofs`
shows that the function exists and what it has kept after n steps by
`SetInduction`: a set of numbers with 0 in it and with every successor is `Nat`,
which follows from `WFMin` and speaks of a set, not of an operator. What
`MatchAms` chooses, the least of the nearest, comes from the principle of the
least number in the same way (`Least` in `Submission_proofs`). And what folding a
whole queue of messages over a picture gives is never computed: `PictureInv` and
the invariant of `BrowsersConverge` speak of the last message about one place,
which one more message at either end changes in an obvious way.

Proving found two things that the runs had not. `ProbeHonest`, true with two
requests, was false with three, because two of them could finish handing out in
either order before the third probed; the ghost `adopted` now says so. And
`shifted` excused a reader also where a delete had only taken a line that does not
parse, which is on no page; it no longer does.

Only model-checked: liveness, which needs fairness and `ENABLED`
(`EventuallySettled`, `LinkRecovers`, `EventuallyAligned`, `StopEnds`,
`PictureRecovers`). Every invariant and every action property of the passing
runs is stated by a theorem.

## Plan

Done: every module of the first plan, and a proof of every safety property. What
a next step would be, in this order:

1. An abstract specification of the stream, which `EventBroker` implements: a
   browser shows some earlier picture, cell by cell, and in the end the last one;
   and the same for the transport's merged report.
2. `TaskLifecycle` over `PrinterLink` in one module, so that a refused session has
   its reasons; the link's own promises without `crossed` once the code takes
   `_state_lock` over connecting.
3. The journal and configuration events of the stream, which a resync does not
   repeat in full.
4. The clean-up of the spool directory, the login throttle, `parse_when`.

## Not modelled

* Login, tokens and static files (`web/auth.py`, `web/server.py`, `web/static.py`):
  library use without state that other parts read.
* What only presents: the pages other than `TaskNew.tsx`, menus and colours of the
  tray, notifications, icons, printing of the CLI; power management.
* Formats: ZIP and XML of 3mf archives, thumbnails, TOML syntax, the strings of
  times (`parse_when` takes the current year for a date without one).
* `discover_serial`, which only reads, and reuse of TLS sessions for FTPS.
* Files that stay in the spool directory after their task has gone.
* The link's health, the journal and the configuration events of the stream.
* The cloud transport is only declared. The scripts and the deployment files are
  not part of the program.
