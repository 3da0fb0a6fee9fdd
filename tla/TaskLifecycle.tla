--------------------------- MODULE TaskLifecycle ---------------------------
(***************************************************************************)
(* The life of a print task: the rows of the tasks table, the APScheduler  *)
(* job store, and every thread that reads and writes them.                 *)
(*                                                                         *)
(* HTTP handlers run in a thread pool of the daemon, `bpq` commands run in *)
(* processes of their own, and the scheduler's thread hands a job that is  *)
(* due to its executor, where it runs TaskRunner.fire.  None of them holds *)
(* a lock over more than one SQL statement, so a handler works on a copy   *)
(* of a row that another thread may already have changed.  One action      *)
(* below is one such statement, or one call that leaves the process.       *)
(***************************************************************************)
EXTENDS Integers, FiniteSets

CONSTANTS
  Tasks,              \* task ids, drawn by uuid4 and never reused
  Old,                \* a second fire() of each task: that of a stopped daemon
  Web,                \* threads of the HTTP handlers inside the daemon
  Cli,                \* `bpq` commands, each a process of its own
  Names,              \* file names on the printer's storage
  RemoteName,         \* Task.remote_name, a function of the task
  Ops,                \* the user operations this instance allows
  Timing,             \* [scheduler] upload_timing
  StartAfterFailure,  \* [scheduler] start_after_failure
  Grace,              \* [scheduler] misfire_grace_time
  GcodeStates,        \* gcode states the printer goes through
  Panel,              \* does anyone start prints but this program
  MaxTime,            \* bound on the clock
  MaxCrashes,         \* bound on stops, crashes, interrupts and locked databases
  MaxStarts,          \* bound on the start commands of one task
  NoOne, NoFile

Operations == {"submit", "update", "cancel", "delete"}

\* The fire() of task t is the thread t of the running daemon, or, when the
\* daemon was stopped meanwhile, the thread Old[t] of the one before it.
Late    == {Old[t] : t \in Tasks}
Fires   == Tasks \cup Late
Threads == Web \cup Cli \cup Fires

ASSUME TaskAssumption ==
  /\ Tasks # {}
  /\ Web \cap Cli = {} /\ Web \cap Fires = {} /\ Cli \cap Fires = {}
  /\ Tasks \cap Late = {} /\ \A t, u \in Tasks : Old[t] = Old[u] => t = u
  /\ NoOne \notin Threads
  /\ NoFile \notin Tasks
  /\ RemoteName \in [Tasks -> Names]
  /\ Ops \subseteq Operations
  /\ Timing \in {"early", "late"}
  /\ StartAfterFailure \in BOOLEAN /\ Panel \in BOOLEAN
  /\ {"IDLE", "RUNNING"} \subseteq GcodeStates
  /\ "UNKNOWN" \notin GcodeStates
  /\ {Grace, MaxTime, MaxCrashes, MaxStarts} \subseteq Nat

VARIABLES
  state,    \* TaskState of the row; "unborn" and "purged" mean there is no row
  at,       \* Task.scheduled_at of the row
  stamps,   \* which of uploaded_at, triggered_at, sent_payload the row has
  jobs,     \* run date of the job in the job store, or NoJob
  now,      \* the clock
  due,      \* run dates of the jobs the scheduler's pass has read, not yet handed over
  taken,    \* the task whose job is handed over and not yet removed
  ticking,  \* does the scheduler's thread live
  pc, subject, copy, when,  \* each thread: where it is, and its copy of a row
  useLock,  \* holder of PrinterLink._use_lock
  storage,  \* the task whose whole file lies under a name, or NoFile
  printer,  \* what the printer is doing
  seen,     \* gcode_state of the last report the link has merged
  sent,     \* number of project_file commands sent for a task
  up,       \* is the daemon running
  crashes,  \* stops, crashes, interrupts and locked databases so far
  unsized,  \* tasks whose last upload the printer would not tell the size of
  kept      \* tasks whose job outlived the scheduler that had handed it over

(* The last two record what happened; no action reads them.                *)
rows    == <<state, at, stamps>>
threads == <<pc, subject, copy, when>>
device  == <<storage, printer, seen, sent>>
pass    == <<due, taken, ticking>>
history == <<unsized, kept>>
vars    == <<state, at, stamps, jobs, now, pc, subject, copy, when, useLock,
             storage, printer, seen, sent, up, crashes, due, taken, ticking,
             unsized, kept>>

Times == 0 .. MaxTime
NoJob == -1

Open       == {"pending", "uploaded"}
TaskState  == Open \cup {"started", "cancelled", "aborted", "failed"}
HasRow(t)  == state[t] \in TaskState
Stamp      == {"uploaded", "triggered", "payload"}

(* Where a thread can be.  Every pc names the step that comes next.        *)
UploadPc  == {"upload", "store", "uploaded", "unsent"}
HandlerPc == {"idle", "schedule", "edit", "move", "cancel", "unschedule",
              "purgejob", "purgerow"} \cup UploadPc
FirePc    == {"idle", "handed", "fire", "session", "check", "abort", "send", "reply",
              "started", "failed"} \cup UploadPc

-----------------------------------------------------------------------------
(* TaskStore: one committed statement each.                                *)

\* Fault: the UPDATE without COALESCE.
SetStateErasing(t, s, marks) ==
  /\ state' = IF HasRow(t) THEN [state EXCEPT ![t] = s] ELSE state
  /\ stamps' = IF HasRow(t) THEN [stamps EXCEPT ![t] = marks] ELSE stamps
  /\ at' = at

\* UPDATE ... COALESCE: no effect without a row, and stamps are only added.
SetState(t, s, marks) ==
  /\ state' = IF HasRow(t) THEN [state EXCEPT ![t] = s] ELSE state
  /\ stamps' = IF HasRow(t) THEN [stamps EXCEPT ![t] = @ \cup marks] ELSE stamps
  /\ at' = at

\* TaskStore.replace writes the whole copy back, its state included.
Overwrite(t, s, w) ==
  /\ state' = IF HasRow(t) THEN [state EXCEPT ![t] = s] ELSE state
  /\ at' = IF HasRow(t) THEN [at EXCEPT ![t] = w] ELSE at
  /\ stamps' = stamps

-----------------------------------------------------------------------------
Goto(x, label) == pc' = [pc EXCEPT ![x] = label]

Begin(x, label, t, s, w) ==
  /\ Goto(x, label)
  /\ subject' = [subject EXCEPT ![x] = t]
  /\ copy' = [copy EXCEPT ![x] = s]
  /\ when' = [when EXCEPT ![x] = w]

\* A thread that ends forgets its copy; what an idle thread holds is moot.
Home(x) == CHOOSE t \in Tasks : x \in Fires => x \in {t, Old[t]}
End(x)  == Begin(x, "idle", Home(x), "unborn", 0)

Advance(x, label) == Goto(x, label) /\ UNCHANGED <<subject, copy, when, pass, history>>

Free(h)  == pc[h] = "idle" /\ (h \in Web => up)
IsFire(x) == x \in Fires

\* Fault: session() without the use lock.
MayEnterUnlocked(x) == TRUE

(* PrinterLink.session: handlers and fires of the daemon share one         *)
(* re-entrant lock.  A bpq command builds a transport of its own, and so   *)
(* does run_task once the daemon is stopped; what is left of the lock in   *)
(* the stopped process is not followed, its fires wait for nobody.         *)
Apart(x)    == x \in Cli \cup Late
MayEnter(x) == Apart(x) \/ useLock \in {NoOne, x}
Enter(x)    == useLock' = IF Apart(x) THEN useLock ELSE x
Leave(x)    == useLock' = IF Apart(x) THEN useLock ELSE NoOne

-----------------------------------------------------------------------------
(* Submitting: TaskStore.add, the upload, the job.                         *)

Submit(h, t) ==
  /\ "submit" \in Ops /\ Free(h) /\ state[t] = "unborn"
  /\ \E w \in Times :
       /\ at' = [at EXCEPT ![t] = w]
       /\ Begin(h, IF Timing = "early" THEN "upload" ELSE "schedule", t, "pending", w)
  /\ state' = [state EXCEPT ![t] = "pending"]
  /\ UNCHANGED <<stamps, jobs, now, useLock, device, up, crashes, pass, history>>

(* TaskRunner._upload, called by submit and by fire.  STOR truncates the   *)
(* file that lay under the name, so until it ends there is no whole file.  *)
UploadBegin(x) ==
  /\ pc[x] = "upload" /\ MayEnter(x)
  /\ Enter(x)
  /\ storage' = [storage EXCEPT ![RemoteName[subject[x]]] = NoFile]
  /\ Advance(x, "store")
  /\ UNCHANGED <<rows, jobs, now, printer, seen, sent, up, crashes, pass, history>>

\* Fault: the sizes are not compared.
UploadEndUnchecked(x) ==
  /\ pc[x] = "store"
  /\ \E whole \in BOOLEAN :
       storage' = [storage EXCEPT ![RemoteName[subject[x]]] = IF whole THEN subject[x] ELSE @]
  /\ unsized' = unsized \ {subject[x]}
  /\ IF IsFire(x) THEN UNCHANGED useLock ELSE Leave(x)
  /\ Advance(x, "uploaded")
  /\ UNCHANGED <<rows, jobs, now, printer, seen, sent, up, crashes, pass, kept>>

(* STOR returned.  A file that the printer says is short is a lost upload  *)
(* (UploadFail); when SIZE is refused or breaks off, the check is skipped. *)
UploadEnd(x) ==
  /\ pc[x] = "store"
  /\ \E whole \in BOOLEAN, told \in BOOLEAN :
       /\ told => whole
       /\ storage' = [storage EXCEPT ![RemoteName[subject[x]]] = IF whole THEN subject[x] ELSE @]
       /\ unsized' = IF told THEN unsized \ {subject[x]} ELSE unsized \cup {subject[x]}
  /\ IF IsFire(x) THEN UNCHANGED useLock ELSE Leave(x)
  /\ Advance(x, "uploaded")
  /\ UNCHANGED <<rows, jobs, now, printer, seen, sent, up, crashes, pass, kept>>

\* The printer cannot be reached, the transfer breaks off, or the sizes differ.
UploadFail(x) ==
  /\ \/ pc[x] = "upload" /\ MayEnter(x)
     \/ pc[x] = "store"
  /\ IF IsFire(x) THEN UNCHANGED useLock ELSE Leave(x)
  /\ Advance(x, "unsent")
  /\ UNCHANGED <<rows, jobs, now, device, up, crashes, pass, history>>

RecordUploaded(x) ==
  /\ pc[x] = "uploaded"
  /\ SetState(subject[x], "uploaded", {"uploaded"})
  /\ Advance(x, IF IsFire(x) THEN "send" ELSE "schedule")
  /\ UNCHANGED <<jobs, now, useLock, device, up, crashes, pass, history>>

\* Fault: a lost upload does not leave the session of the fire.
RecordUnsentLocked(x) ==
  /\ pc[x] = "unsent"
  /\ SetState(subject[x], "failed", {})
  /\ IF IsFire(x) THEN Advance(x, "failed") ELSE End(x)
  /\ UNCHANGED <<jobs, now, useLock, device, up, crashes, pass, history>>

\* Fault: a submit goes on to the outer handler that only a fire has.
RecordUnsentRunsOn(x) ==
  /\ pc[x] = "unsent"
  /\ SetState(subject[x], "failed", {})
  /\ IF IsFire(x) THEN Leave(x) ELSE UNCHANGED useLock
  /\ Advance(x, "failed")
  /\ UNCHANGED <<jobs, now, device, up, crashes, pass, history>>

\* The exception ends a submit; in a fire it first leaves the session.
RecordUnsent(x) ==
  /\ pc[x] = "unsent"
  /\ SetState(subject[x], "failed", {})
  /\ IF IsFire(x) THEN Leave(x) ELSE UNCHANGED useLock
  /\ IF IsFire(x) THEN Advance(x, "failed") ELSE End(x)
  /\ UNCHANGED <<jobs, now, device, up, crashes, pass, history>>

(* The scheduler's pass holds _jobstores_lock from get_due_jobs to the     *)
(* last remove_job; a bpq command has a scheduler object of its own.       *)
Passing         == taken # NoOne \/ \E t \in Tasks : due[t] # NoJob
JobstoreFree(h) == h \in Web => ~Passing

\* schedule_task: add_job with the task's id and replace_existing.
Schedule(h) ==
  /\ pc[h] = "schedule" /\ JobstoreFree(h)
  /\ jobs' = [jobs EXCEPT ![subject[h]] = when[h]]
  /\ End(h)
  /\ UNCHANGED <<rows, now, useLock, device, up, crashes, pass, history>>

-----------------------------------------------------------------------------
(* Editing: TaskService.update reads the row, then writes its copy back.   *)

Update(h, t) ==
  /\ "update" \in Ops /\ h \in Web /\ Free(h) /\ state[t] \in Open
  /\ \/ Begin(h, "edit", t, state[t], at[t])
     \/ \E w \in Times : Begin(h, "move", t, state[t], w)
  /\ UNCHANGED <<rows, jobs, now, useLock, device, up, crashes, pass, history>>

\* Fault: the row gets its new time, the job does not.
ReplaceOnly(h) ==
  /\ pc[h] \in {"edit", "move"}
  /\ Overwrite(subject[h], copy[h], when[h])
  /\ End(h)
  /\ UNCHANGED <<jobs, now, useLock, device, up, crashes, pass, history>>

Replace(h) ==
  /\ pc[h] \in {"edit", "move"}
  /\ Overwrite(subject[h], copy[h], when[h])
  /\ IF pc[h] = "move" THEN Advance(h, "schedule") ELSE End(h)
  /\ UNCHANGED <<jobs, now, useLock, device, up, crashes, pass, history>>

(* Cancelling: a bpq command does it itself only when no daemon answers.   *)

Cancel(h, t) ==
  /\ "cancel" \in Ops /\ Free(h) /\ (h \in Cli => ~up) /\ state[t] \in Open
  /\ Begin(h, "cancel", t, "unborn", 0)
  /\ UNCHANGED <<rows, jobs, now, useLock, device, up, crashes, pass, history>>

RecordCancelled(h) ==
  /\ pc[h] = "cancel"
  /\ SetState(subject[h], "cancelled", {})
  /\ Advance(h, "unschedule")
  /\ UNCHANGED <<jobs, now, useLock, device, up, crashes, pass, history>>

Unschedule(h) ==
  /\ pc[h] = "unschedule" /\ JobstoreFree(h)
  /\ jobs' = [jobs EXCEPT ![subject[h]] = NoJob]
  /\ End(h)
  /\ UNCHANGED <<rows, now, useLock, device, up, crashes, pass, history>>

(* Deleting for good: only a task that has ended.                          *)

Delete(h, t) ==
  /\ "delete" \in Ops /\ h \in Web /\ Free(h) /\ state[t] \in TaskState \ Open
  /\ Begin(h, "purgejob", t, "unborn", 0)
  /\ UNCHANGED <<rows, jobs, now, useLock, device, up, crashes, pass, history>>

PurgeJob(h) ==
  /\ pc[h] = "purgejob" /\ JobstoreFree(h)
  /\ jobs' = [jobs EXCEPT ![subject[h]] = NoJob]
  /\ Advance(h, "purgerow")
  /\ UNCHANGED <<rows, now, useLock, device, up, crashes, pass, history>>

PurgeRow(h) ==
  /\ pc[h] = "purgerow"
  /\ state' = [state EXCEPT ![subject[h]] = "purged"]
  /\ End(h)
  /\ UNCHANGED <<at, stamps, jobs, now, useLock, device, up, crashes, pass, history>>

-----------------------------------------------------------------------------
(* The scheduler.  BackgroundScheduler._process_jobs reads the jobs that   *)
(* are due, hands each to the executor and removes it afterwards, by a     *)
(* DELETE of its own commit; misfire_grace_time is looked at in the        *)
(* executor, when the job is about to run.                                 *)

Due(t)   == jobs[t] # NoJob /\ jobs[t] <= now
NoneDue  == [t \in Tasks |-> NoJob]

ReadDue ==
  /\ ticking /\ ~Passing /\ \E t \in Tasks : Due(t)
  /\ due' = [t \in Tasks |-> IF Due(t) THEN jobs[t] ELSE NoJob]
  /\ UNCHANGED <<rows, jobs, now, threads, useLock, device, up, crashes, taken, ticking, history>>

\* A job that still runs is not handed over again (max_instances).
HandOver(t) ==
  /\ due[t] # NoJob /\ taken = NoOne
  /\ due' = [due EXCEPT ![t] = NoJob]
  /\ taken' = t
  /\ IF pc[t] = "idle" THEN Begin(t, "handed", t, "unborn", due[t]) ELSE UNCHANGED threads
  /\ UNCHANGED <<rows, jobs, now, useLock, device, up, crashes, ticking, history>>

\* Fault: the job stays in the store, as that of a repeating trigger does.
RemoveKeeping(t) ==
  /\ taken = t /\ jobs[t] # NoJob
  /\ taken' = NoOne
  /\ UNCHANGED <<rows, jobs, now, threads, useLock, device, up, crashes, due, ticking, history>>

Remove(t) ==
  /\ taken = t /\ jobs[t] # NoJob
  /\ jobs' = [jobs EXCEPT ![t] = NoJob]
  /\ taken' = NoOne
  /\ UNCHANGED <<rows, now, threads, useLock, device, up, crashes, due, ticking, history>>

\* Tasks whose job is in the store although it was handed over.
HandedOver == {t \in Tasks : taken = t /\ jobs[t] # NoJob}
EndOfPass  == due' = NoneDue /\ taken' = NoOne /\ ticking' = FALSE

(* remove_job raises, because a bpq command has removed the job (a         *)
(* JobLookupError) or because the database is locked for too long.  Nobody *)
(* catches it, and the scheduler's thread ends.                            *)
RemoveRaises(t) ==
  /\ taken = t
  /\ \/ jobs[t] = NoJob /\ UNCHANGED crashes
     \/ jobs[t] # NoJob /\ crashes < MaxCrashes /\ crashes' = crashes + 1
  /\ EndOfPass
  /\ kept' = kept \cup HandedOver
  /\ UNCHANGED <<rows, jobs, now, threads, useLock, device, up, unsized>>

\* run_job in the executor, and run_task.
RunJob(x) ==
  /\ pc[x] = "handed"
  /\ IF now - when[x] <= Grace THEN Begin(x, "fire", subject[x], "unborn", 0) ELSE End(x)
  /\ UNCHANGED <<rows, jobs, now, useLock, device, up, crashes, pass, history>>

-----------------------------------------------------------------------------
(* TaskRunner.fire.                                                        *)

FireRead(x) ==
  /\ pc[x] = "fire"
  /\ IF HasRow(subject[x]) /\ state[subject[x]] \notin {"cancelled", "started"}
     THEN Begin(x, "session", subject[x], state[subject[x]], 0)
     ELSE End(x)
  /\ UNCHANGED <<rows, jobs, now, useLock, device, up, crashes, pass, history>>

FireSession(x) ==
  /\ pc[x] = "session" /\ MayEnter(x)
  /\ Enter(x)
  /\ Advance(x, "check")
  /\ UNCHANGED <<rows, jobs, now, device, up, crashes, pass, history>>

\* There is no connection to borrow, or it is lost before the command is out.
FireUnreachable(x) ==
  /\ \/ pc[x] = "session" /\ MayEnter(x) /\ UNCHANGED useLock
     \/ pc[x] = "send" /\ Leave(x)
  /\ Advance(x, "failed")
  /\ UNCHANGED <<rows, jobs, now, device, up, crashes, pass, history>>

\* What a stopped daemon's link, or a temporary one, has heard is not followed.
Heard(x) == IF x \in Late THEN GcodeStates \cup {"UNKNOWN"} ELSE {seen}
Ready(g) == g = "IDLE" \/ (g = "FAILED" /\ StartAfterFailure)

\* Fault: fire takes it that the file is on the printer by now.
FireCheckNoUpload(x) ==
  /\ pc[x] = "check"
  /\ \E g \in Heard(x) : Advance(x, IF Ready(g) THEN "send" ELSE "abort")
  /\ UNCHANGED <<rows, jobs, now, useLock, device, up, crashes, pass, history>>

FireCheck(x) ==
  /\ pc[x] = "check"
  /\ \E g \in Heard(x) :
       Advance(x, IF ~Ready(g) THEN "abort"
                  ELSE IF copy[x] = "uploaded" THEN "send" ELSE "upload")
  /\ UNCHANGED <<rows, jobs, now, useLock, device, up, crashes, pass, history>>

FireAbort(x) ==
  /\ pc[x] = "abort"
  /\ SetState(subject[x], "aborted", {"triggered"})
  /\ Leave(x)
  /\ End(x)
  /\ UNCHANGED <<jobs, now, device, up, crashes, pass, history>>

\* The command is published; the printer obeys, refuses or never gets it.
FireSend(x) ==
  /\ pc[x] = "send" /\ sent[subject[x]] < MaxStarts
  /\ sent' = [sent EXCEPT ![subject[x]] = @ + 1]
  /\ printer' \in {printer, "RUNNING"}
  /\ Advance(x, "reply")
  /\ UNCHANGED <<rows, jobs, now, useLock, storage, seen, up, crashes, pass, history>>

\* No reply within START_TIMEOUT counts as success, a refusal as failure.
FireReply(x) ==
  /\ pc[x] = "reply"
  /\ Leave(x)
  /\ \E outcome \in {"started", "failed"} : Advance(x, outcome)
  /\ UNCHANGED <<rows, jobs, now, device, up, crashes, pass, history>>

RecordStarted(x) ==
  /\ pc[x] = "started"
  /\ SetState(subject[x], "started", {"triggered", "payload"})
  /\ End(x)
  /\ UNCHANGED <<jobs, now, useLock, device, up, crashes, pass, history>>

RecordFailed(x) ==
  /\ pc[x] = "failed"
  /\ SetState(subject[x], "failed", {"triggered"})
  /\ End(x)
  /\ UNCHANGED <<jobs, now, useLock, device, up, crashes, pass, history>>

-----------------------------------------------------------------------------
(* The world around the program.                                           *)

Tick ==
  /\ now < MaxTime /\ now' = now + 1
  /\ UNCHANGED <<rows, jobs, threads, useLock, device, up, crashes, pass, history>>

\* A print ends, fails, or someone starts one at the panel.
PrinterMoves ==
  /\ printer' \in GcodeStates \ {printer}
  /\ printer' = "RUNNING" => Panel
  /\ UNCHANGED <<rows, jobs, now, threads, useLock, storage, seen, sent, up, crashes, pass, history>>

Report ==
  /\ up /\ seen # printer /\ seen' = printer
  /\ UNCHANGED <<rows, jobs, now, threads, useLock, storage, printer, sent, up, crashes, pass, history>>

\* The daemon dies with its threads, its lock and what the link had merged.
Crash ==
  /\ up /\ crashes < MaxCrashes
  /\ up' = FALSE /\ crashes' = crashes + 1
  /\ pc' = [x \in Threads |-> IF Apart(x) THEN pc[x] ELSE "idle"]
  /\ subject' = [x \in Threads |-> IF Apart(x) THEN subject[x] ELSE Home(x)]
  /\ copy' = [x \in Threads |-> IF Apart(x) THEN copy[x] ELSE "unborn"]
  /\ when' = [x \in Threads |-> IF Apart(x) THEN when[x] ELSE 0]
  /\ useLock' = NoOne /\ seen' = "UNKNOWN"
  /\ EndOfPass /\ kept' = kept \cup HandedOver
  /\ UNCHANGED <<rows, jobs, now, storage, printer, sent, unsized>>

(* A stop: web.stop waits for the handlers, and shutdown(wait=False) for   *)
(* no job, but the interpreter does, so a fire goes on beside the daemon   *)
(* that is started next.  A pass that is under way when the scheduler is   *)
(* marked as stopped can no longer remove its job.                         *)
Stop ==
  /\ up /\ crashes < MaxCrashes
  /\ \A h \in Web : pc[h] = "idle"
  /\ \A y \in Late : pc[y] = "idle"     \* bound: one stopped daemon at a time
  /\ up' = FALSE /\ crashes' = crashes + 1
  /\ pc' = [x \in Threads |-> IF x \in Late THEN pc[Home(x)]
                              ELSE IF x \in Tasks THEN "idle" ELSE pc[x]]
  /\ copy' = [x \in Threads |-> IF x \in Late THEN copy[Home(x)]
                                ELSE IF x \in Tasks THEN "unborn" ELSE copy[x]]
  /\ when' = [x \in Threads |-> IF x \in Late THEN when[Home(x)]
                                ELSE IF x \in Tasks THEN 0 ELSE when[x]]
  /\ useLock' = NoOne /\ seen' = "UNKNOWN"
  /\ EndOfPass /\ kept' = kept \cup HandedOver
  /\ UNCHANGED <<rows, jobs, now, subject, storage, printer, sent, unsized>>

Restart ==
  /\ ~up /\ up' = TRUE /\ ticking' = TRUE
  /\ UNCHANGED <<rows, jobs, now, threads, useLock, device, crashes, due, taken, history>>

\* Ctrl-C in the middle of a bpq command, or a kill of a stopped daemon.
Interrupt(x) ==
  /\ Apart(x) /\ pc[x] # "idle" /\ crashes < MaxCrashes
  /\ crashes' = crashes + 1
  /\ End(x)
  /\ UNCHANGED <<rows, jobs, now, useLock, device, up, pass, history>>

-----------------------------------------------------------------------------
Init ==
  /\ state = [t \in Tasks |-> "unborn"]
  /\ at = [t \in Tasks |-> 0]
  /\ stamps = [t \in Tasks |-> {}]
  /\ jobs = [t \in Tasks |-> NoJob]
  /\ now = 0
  /\ pc = [x \in Threads |-> "idle"]
  /\ subject = [x \in Threads |-> Home(x)]
  /\ copy = [x \in Threads |-> "unborn"]
  /\ when = [x \in Threads |-> 0]
  /\ useLock = NoOne
  /\ storage = [n \in Names |-> NoFile]
  /\ printer \in GcodeStates
  /\ seen = "UNKNOWN"
  /\ sent = [t \in Tasks |-> 0]
  /\ up \in BOOLEAN
  /\ crashes = 0
  /\ due = NoneDue /\ taken = NoOne /\ ticking = up
  /\ unsized = {} /\ kept = {}

Uploading(x) ==
  UploadBegin(x) \/ UploadEnd(x) \/ UploadFail(x) \/ RecordUploaded(x) \/ RecordUnsent(x)

\* What a handler still has to do for the request it has accepted.
Working(h) ==
  \/ Uploading(h) \/ Schedule(h) \/ Replace(h) \/ RecordCancelled(h)
  \/ Unschedule(h) \/ PurgeJob(h) \/ PurgeRow(h)

Handler(h) ==
  \/ \E t \in Tasks : Submit(h, t) \/ Update(h, t) \/ Cancel(h, t) \/ Delete(h, t)
  \/ Working(h)

Fire(x) ==
  \/ RunJob(x) \/ FireRead(x) \/ FireSession(x) \/ FireUnreachable(x) \/ FireCheck(x)
  \/ FireAbort(x) \/ FireSend(x) \/ FireReply(x) \/ RecordStarted(x)
  \/ RecordFailed(x) \/ Uploading(x)

ProcessJobs ==
  \/ ReadDue
  \/ \E t \in Tasks : HandOver(t) \/ Remove(t) \/ RemoveRaises(t)

Next ==
  \/ \E h \in Web \cup Cli : Handler(h)
  \/ \E x \in Fires : Fire(x)
  \/ \E x \in Cli \cup Late : Interrupt(x)
  \/ ProcessJobs
  \/ Tick \/ PrinterMoves \/ Report \/ Crash \/ Stop \/ Restart

Spec == Init /\ [][Next]_vars

(***************************************************************************)
(* Fairness.  Once begun, a request runs to its end: every wait inside it  *)
(* has a timeout (FTPS 30 s, get_state 10 s, START_TIMEOUT).  The clock    *)
(* runs, and a living scheduler goes through its pass.  Nothing obliges a  *)
(* user to ask, a printer to change state, or a report to arrive.          *)
(***************************************************************************)
Fairness ==
  /\ \A h \in Web \cup Cli : WF_vars(Working(h))
  /\ \A x \in Fires : WF_vars(Fire(x))
  /\ WF_vars(ProcessJobs)
  /\ WF_vars(Tick) /\ WF_vars(Restart)

FairSpec == Spec /\ Fairness

-----------------------------------------------------------------------------
(* Every variable has its type, a fire acts for its own task only, and a   *)
(* pass is under way only in a scheduler that lives.                       *)
TypeOK ==
  /\ state \in [Tasks -> TaskState \cup {"unborn", "purged"}]
  /\ at \in [Tasks -> Times]
  /\ stamps \in [Tasks -> SUBSET Stamp]
  /\ jobs \in [Tasks -> Times \cup {NoJob}]
  /\ now \in Times
  /\ pc \in [Threads -> HandlerPc \cup FirePc]
  /\ \A x \in Threads : pc[x] \in (IF IsFire(x) THEN FirePc ELSE HandlerPc)
  /\ subject \in [Threads -> Tasks]
  /\ \A x \in Fires : subject[x] = Home(x)
  /\ copy \in [Threads -> TaskState \cup {"unborn"}]
  /\ when \in [Threads -> Times]
  /\ useLock \in Web \cup Tasks \cup {NoOne}
  /\ storage \in [Names -> Tasks \cup {NoFile}]
  /\ printer \in GcodeStates /\ seen \in GcodeStates \cup {"UNKNOWN"}
  /\ sent \in [Tasks -> Nat]
  /\ up \in BOOLEAN /\ crashes \in 0 .. MaxCrashes
  /\ due \in [Tasks -> Times \cup {NoJob}] /\ taken \in Tasks \cup {NoOne}
  /\ ticking \in BOOLEAN /\ (ticking => up) /\ (Passing => ticking)
  /\ unsized \subseteq Tasks /\ kept \subseteq Tasks

\* Threads of the running daemon that are inside PrinterLink.session.
InSession(x) ==
  \/ x \in Web /\ pc[x] = "store"
  \/ x \in Tasks /\ pc[x] \in {"check", "abort", "send", "reply"} \cup UploadPc

(* An FTPS upload and a start command of the running daemon never overlap, *)
(* on whatever path a session is left: success, abort, refusal, lost       *)
(* upload.  The lock is the process's own: a bpq command, and a fire that  *)
(* a stopped daemon still runs, are not kept out.                          *)
SessionsExclude ==
  /\ \A x \in Web \cup Tasks : InSession(x) => useLock = x
  /\ useLock # NoOne => InSession(useLock)

(* A row that says "uploaded" or "started" carries its evidence: when the  *)
(* file went up, when it was triggered, what was sent; and "started" is    *)
(* never said of a task whose command was not sent.  Holds whatever edits, *)
(* cancels and deletes run beside the fire.                                *)
EvidenceKept ==
  \A t \in Tasks :
    /\ state[t] = "uploaded" => "uploaded" \in stamps[t]
    /\ state[t] = "started" => stamps[t] = Stamp /\ sent[t] > 0

(* A task that is shown as uploaded, or whose start command is on its way, *)
(* has its own whole file on the printer.  Two exceptions: the printer did *)
(* not tell the size (lan.py:200), or two fires ran for the task because   *)
(* its job outlived the scheduler that had handed it over.                 *)
WholeFile(t) == storage[RemoteName[t]] = t
Sending(t)   == \E x \in Fires : subject[x] = t /\ pc[x] \in {"send", "reply", "started"}

UploadedFileWhole ==
  \A t \in Tasks \ (unsized \cup kept) :
    state[t] = "uploaded" \/ Sending(t) => WholeFile(t)

(* One submitted task is printed at most once, across crashes, stops and   *)
(* restarts, unless the scheduler handed over its job and never came to    *)
(* remove it: a kill between the two, a stop in that moment, a database    *)
(* that stayed locked.                                                     *)
AtMostOneStart == \A t \in Tasks \ kept : sent[t] <= 1

(* Uploaded_at, triggered_at and sent_payload record that something        *)
(* happened: no later transition, edit or failure erases them.             *)
StampsOnlyAdded == [][\A t \in Tasks : stamps[t] \subseteq stamps'[t]]_vars

Busy(t) == \E x \in Threads : pc[x] # "idle" /\ subject[x] = t

(* service.py:343, 379, scheduler.py:181: row and job are written by       *)
(* separate commits.  When nobody is at work on a task, a job of it fires  *)
(* at the time its row shows, and none is left of a task that was          *)
(* cancelled or deleted.                                                   *)
JobsFollowRows ==
  \A t \in Tasks :
    ~Busy(t) /\ jobs[t] # NoJob =>
      state[t] \notin {"cancelled", "purged"} /\ jobs[t] = at[t]

(* A cancelled task is not started.                                        *)
NoStartAfterCancel ==
  [][\A t \in Tasks : sent'[t] # sent[t] => state[t] # "cancelled"]_vars

(* No start command goes to a printer that is already printing.            *)
BusyPrinterSpared ==
  [][sent' # sent => printer # "RUNNING"]_vars

(* Every task that waits is settled in the end: started, given up, failed, *)
(* cancelled or deleted.                                                   *)
EventuallySettled == \A t \in Tasks : state[t] \in Open ~> state[t] \notin Open

-----------------------------------------------------------------------------
(* Inductive strengthenings, used by the proofs.                           *)

(* Nobody works on a task before it is submitted.                          *)
Fresh ==
  /\ \A x \in Threads : pc[x] = "idle" => copy[x] = "unborn"
  /\ \A x \in Threads : pc[x] \in {"edit", "move"} => copy[x] \in Open
  /\ \A t \in Tasks : state[t] = "unborn" =>
       /\ jobs[t] = NoJob /\ due[t] = NoJob /\ taken # t /\ t \notin kept /\ sent[t] = 0
       /\ \A x \in Threads : subject[x] = t => pc[x] = "idle"

(* A stale copy is still true of the stamps, because they only grow.       *)
EvidenceInv ==
  /\ EvidenceKept
  /\ \A x \in Threads :
       copy[x] = "uploaded" /\ HasRow(subject[x]) => "uploaded" \in stamps[subject[x]]
  /\ \A x \in Fires :
       /\ pc[x] \in {"send", "reply", "started"} /\ HasRow(subject[x])
            => "uploaded" \in stamps[subject[x]]
       /\ pc[x] \in {"reply", "started"} => sent[subject[x]] > 0

(* Without edits a task has one token, which goes from the submit to the   *)
(* job, from the job to the fire, and is spent by the start command.  Only *)
(* a scheduler that dies between hand-over and removal leaves a second.    *)
Submitting(h, t) ==
  h \in Web \cup Cli /\ subject[h] = t /\ pc[h] \in UploadPc \cup {"schedule"}
ArmedPc      == {"handed", "fire", "session", "check", "send"} \cup UploadPc
Armed(t)     == \E x \in Fires : subject[x] = t /\ pc[x] \in ArmedPc
Firing(t)    == \E x \in Fires : subject[x] = t /\ pc[x] # "idle"
Scheduled(t) == due[t] # NoJob \/ (jobs[t] # NoJob /\ taken # t)

TokenInv ==
  /\ \A x \in Threads : pc[x] \notin {"edit", "move"}
  /\ \A t \in Tasks \ kept :
       /\ sent[t] <= 1
       /\ Scheduled(t) => ~Firing(t) /\ sent[t] = 0
       /\ Armed(t) => sent[t] = 0
       /\ pc[t] = "idle" \/ pc[Old[t]] = "idle"
       /\ due[t] # NoJob => taken # t
  /\ \A h \in Web \cup Cli, t \in Tasks : Submitting(h, t) =>
       /\ jobs[t] = NoJob /\ due[t] = NoJob /\ taken # t /\ ~Firing(t)
       /\ t \notin kept /\ sent[t] = 0
       /\ \A g \in Web \cup Cli : Submitting(g, t) => g = h

(* Without edits, and with a remote name for every task, nobody uploads a  *)
(* file whose row says it is there.                                        *)
FileInv ==
  /\ UploadedFileWhole
  /\ \A x \in Threads : subject[x] \notin kept =>
       /\ pc[x] \in {"upload", "store"} => state[subject[x]] # "uploaded"
       /\ pc[x] = "uploaded" /\ subject[x] \notin unsized => WholeFile(subject[x])
  /\ \A x \in Fires : subject[x] \notin kept =>
       /\ copy[x] = "uploaded" /\ subject[x] \notin unsized => WholeFile(subject[x])
       /\ pc[x] \in UploadPc => copy[x] # "uploaded"
       /\ pc[x] \in {"session", "check"} /\ copy[x] # "uploaded"
            => state[subject[x]] # "uploaded"

(* With one handler and no crash, a job that is not what its row says is   *)
(* about to be set or removed by the handler that wrote the row.           *)
JobsInv ==
  /\ \A h \in Web \cup Cli :
       /\ pc[h] \in {"schedule", "edit", "move"} \cup UploadPc
            => state[subject[h]] \notin {"cancelled", "purged"}
       /\ pc[h] \in {"schedule", "edit"} \cup UploadPc => when[h] = at[subject[h]]
       /\ pc[h] = "purgerow" => jobs[subject[h]] = NoJob
  /\ \A t \in Tasks : jobs[t] # NoJob =>
       \/ state[t] \notin {"cancelled", "purged"} /\ jobs[t] = at[t]
       \/ \E h \in Web \cup Cli : subject[h] = t /\ pc[h] \in {"schedule", "unschedule"}

-----------------------------------------------------------------------------
(* The promise that the rows, jobs and threads together implement.         *)

\* Something is left that can still bring the start command about.
Live(t) ==
  jobs[t] # NoJob \/ due[t] # NoJob \/ Armed(t) \/ \E h \in Web \cup Cli : Submitting(h, t)

Phase(t) ==
  CASE state[t] = "unborn"                   -> "none"
    [] state[t] # "unborn" /\ sent[t] = 1    -> "sent"
    [] state[t] # "unborn" /\ sent[t] > 1    -> "sent again"
    [] state[t] # "unborn" /\ sent[t] = 0    -> IF Live(t) THEN "waiting" ELSE "over"

Promise == INSTANCE TaskPromise WITH phase <- [t \in Tasks |-> Phase(t)], loose <- kept

(* scheduler.py:112 (fire), daemon.py:138 (schedule_task, a one-shot date  *)
(* job): a task that was submitted prints once or not at all.  When its    *)
(* job, its fire and its submission are gone nothing brings it back - no   *)
(* crash, stop, restart, interrupt, cancel in the middle of an upload,     *)
(* late answer or failure - and after a start there is no other, but for   *)
(* a task whose job outlived the scheduler that had handed it over.        *)
PromiseKept == Promise!Spec

=============================================================================
