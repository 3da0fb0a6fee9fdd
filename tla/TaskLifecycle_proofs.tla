----------------------- MODULE TaskLifecycle_proofs ------------------------
(* Theorems about TaskLifecycle, for every value of its constants.         *)
EXTENDS TaskLifecycle, TLAPS

\* The kinds of threads are disjoint, and none of them is NoOne.
LEMMA ThreadKinds ==
  /\ \A h \in Web \cup Cli : h \in Threads /\ h \notin Fires
  /\ \A t \in Tasks : t \in Fires /\ t \notin Late /\ Old[t] \in Late
  /\ \A x \in Late : x \notin Tasks /\ \E t \in Tasks : x = Old[t]
  /\ \A x \in Fires : x \in Threads /\ x \notin Cli /\ x \notin Web
  /\ \A h \in Web : h \notin Cli
  /\ Fires = Tasks \cup Late
  /\ NoOne \notin Threads
  BY TaskAssumption DEF Threads, Fires, Late

\* A thread always has a task to point at when it is idle, a fire its own.
LEMMA HomeType ==
  ASSUME NEW x \in Threads
  PROVE  /\ Home(x) \in Tasks
         /\ x \in Tasks => Home(x) = x
         /\ x \in Fires => x \in {Home(x), Old[Home(x)]}
         /\ \A t \in Tasks : x = Old[t] => Home(x) = t
<1>1. \E t \in Tasks : x \in Fires => x \in {t, Old[t]}
  BY ThreadKinds, TaskAssumption
<1>2. Home(x) \in Tasks /\ (x \in Fires => x \in {Home(x), Old[Home(x)]})
  BY <1>1 DEF Home
<1>3. QED
  BY <1>2, ThreadKinds, TaskAssumption

\* The late fire of a task is a thread, and the task is its home.
LEMMA OldHome ==
  ASSUME NEW t \in Tasks
  PROVE  Old[t] \in Late /\ Old[t] \in Threads /\ Home(Old[t]) = t /\ Home(t) = t
  BY HomeType, ThreadKinds

\* The part of TypeOK that speaks of the threads.
ThreadTypes ==
  /\ pc \in [Threads -> HandlerPc \cup FirePc]
  /\ \A x \in Threads : pc[x] \in (IF IsFire(x) THEN FirePc ELSE HandlerPc)
  /\ subject \in [Threads -> Tasks]
  /\ \A x \in Fires : subject[x] = Home(x)
  /\ copy \in [Threads -> TaskState \cup {"unborn"}]
  /\ when \in [Threads -> Times]

\* A thread that begins at a label of its kind, on a row of some task.
LEMMA BeginTypes ==
  ASSUME ThreadTypes, NEW x \in Threads,
         NEW label \in (IF IsFire(x) THEN FirePc ELSE HandlerPc),
         NEW t \in Tasks, IsFire(x) => t = Home(x),
         NEW s \in TaskState \cup {"unborn"}, NEW w \in Times,
         Begin(x, label, t, s, w)
  PROVE  ThreadTypes'
  BY ThreadKinds DEF ThreadTypes, Begin, Goto, IsFire

\* A thread that ends.
LEMMA EndTypes ==
  ASSUME ThreadTypes, NEW x \in Threads, End(x) PROVE ThreadTypes'
<1>1. 0 \in Times /\ "idle" \in (IF IsFire(x) THEN FirePc ELSE HandlerPc)
  BY TaskAssumption DEF Times, FirePc, HandlerPc
<1>2. QED
  BY <1>1, BeginTypes, HomeType DEF End, IsFire

\* A thread that goes on to another label of its kind.
LEMMA AdvanceTypes ==
  ASSUME ThreadTypes, NEW x \in Threads,
         NEW label \in (IF IsFire(x) THEN FirePc ELSE HandlerPc), Advance(x, label)
  PROVE  ThreadTypes'
  BY DEF ThreadTypes, Advance, Goto

(* One step of anything keeps the types.                                   *)
LEMMA TypeStep == TypeOK /\ [Next]_vars => TypeOK'
<1> SUFFICES ASSUME TypeOK, [Next]_vars PROVE TypeOK'
  OBVIOUS
<1> USE TaskAssumption, ThreadKinds, HomeType
    DEF TypeOK, Passing, rows, threads, device, pass, history, Begin, End, Goto, Advance, IsFire
<1>1. ASSUME NEW h \in Web \cup Cli, NEW t \in Tasks, Submit(h, t) PROVE TypeOK'
  BY <1>1 DEF Submit, Open, TaskState, HandlerPc, UploadPc, Times
<1>2. ASSUME NEW h \in Web \cup Cli, NEW t \in Tasks, Update(h, t) PROVE TypeOK'
  <2>1. h \in Threads /\ ~IsFire(h) /\ ThreadTypes
    BY DEF ThreadTypes
  <2>2. /\ state[t] \in TaskState /\ at[t] \in Times
        /\ {"edit", "move"} \subseteq HandlerPc
    BY <1>2 DEF Update, TaskState, HandlerPc
  <2>3. CASE Begin(h, "edit", t, state[t], at[t])
    <3>1. ThreadTypes'
      BY <2>1, <2>2, <2>3, BeginTypes
    <3>2. QED
      BY <1>2, <3>1 DEF Update, ThreadTypes
  <2>4. ASSUME NEW w \in Times, Begin(h, "move", t, state[t], w) PROVE TypeOK'
    <3>1. ThreadTypes'
      BY <2>1, <2>2, <2>4, BeginTypes
    <3>2. QED
      BY <1>2, <3>1 DEF Update, ThreadTypes
  <2>5. QED
    BY <1>2, <2>3, <2>4 DEF Update
<1>3. ASSUME NEW h \in Web \cup Cli, NEW t \in Tasks, Cancel(h, t) PROVE TypeOK'
  BY <1>3 DEF Cancel, Open, TaskState, HandlerPc, UploadPc, Times
<1>4. ASSUME NEW h \in Web \cup Cli, NEW t \in Tasks, Delete(h, t) PROVE TypeOK'
  BY <1>4 DEF Delete, Open, TaskState, HandlerPc, UploadPc, Times
<1>5. ASSUME NEW x \in Threads, UploadBegin(x) PROVE TypeOK'
  BY <1>5 DEF UploadBegin, Threads, Fires, HandlerPc, FirePc, UploadPc, Enter, MayEnter, Apart
<1>6. ASSUME NEW x \in Threads, UploadEnd(x) PROVE TypeOK'
  BY <1>6 DEF UploadEnd, HandlerPc, FirePc, UploadPc, Leave
<1>7. ASSUME NEW x \in Threads, UploadFail(x) PROVE TypeOK'
  BY <1>7 DEF UploadFail, HandlerPc, FirePc, UploadPc, Leave
<1>8. ASSUME NEW x \in Threads, RecordUploaded(x) PROVE TypeOK'
  BY <1>8 DEF RecordUploaded, HandlerPc, FirePc, UploadPc, SetState, Open, TaskState, Stamp
<1>9. ASSUME NEW x \in Threads, RecordUnsent(x) PROVE TypeOK'
  <2>1. ThreadTypes /\ "failed" \in FirePc
    BY DEF ThreadTypes, FirePc
  <2>2. ThreadTypes'
    BY <1>9, <2>1, AdvanceTypes, EndTypes DEF RecordUnsent
  <2>3. state' \in [Tasks -> TaskState \cup {"unborn", "purged"}]
        /\ stamps' \in [Tasks -> SUBSET Stamp] /\ at' = at
    BY <1>9 DEF RecordUnsent, SetState, TaskState, Stamp
  <2>4. useLock' \in {useLock, NoOne}
    BY <1>9 DEF RecordUnsent, Leave
  <2>5. QED
    BY <1>9, <2>2, <2>3, <2>4 DEF RecordUnsent, ThreadTypes
<1>10. ASSUME NEW h \in Web \cup Cli, Schedule(h) PROVE TypeOK'
  BY <1>10 DEF Schedule, HandlerPc, Times
<1>11. ASSUME NEW h \in Web \cup Cli, Replace(h) PROVE TypeOK'
  <2>1. h \in Threads /\ ~IsFire(h) /\ ThreadTypes /\ "schedule" \in HandlerPc
    BY DEF ThreadTypes, HandlerPc
  <2>2. ThreadTypes'
    BY <1>11, <2>1, AdvanceTypes, EndTypes DEF Replace
  <2>3. state' \in [Tasks -> TaskState \cup {"unborn", "purged"}]
        /\ at' \in [Tasks -> Times] /\ stamps' = stamps
    BY <1>11, <2>1 DEF Replace, Overwrite
  <2>4. QED
    BY <1>11, <2>2, <2>3 DEF Replace, ThreadTypes
<1>12. ASSUME NEW h \in Web \cup Cli, RecordCancelled(h) PROVE TypeOK'
  BY <1>12 DEF RecordCancelled, HandlerPc, SetState, Open, TaskState, Stamp
<1>13. ASSUME NEW h \in Web \cup Cli, Unschedule(h) PROVE TypeOK'
  BY <1>13 DEF Unschedule, HandlerPc, Times
<1>14. ASSUME NEW h \in Web \cup Cli, PurgeJob(h) PROVE TypeOK'
  BY <1>14 DEF PurgeJob, HandlerPc
<1>15. ASSUME NEW h \in Web \cup Cli, PurgeRow(h) PROVE TypeOK'
  BY <1>15 DEF PurgeRow, HandlerPc, Times
<1>16. ASSUME NEW x \in Cli \cup Late, Interrupt(x) PROVE TypeOK'
  <2>1. x \in Threads /\ ThreadTypes
    BY DEF ThreadTypes
  <2>2. ThreadTypes'
    BY <1>16, <2>1, EndTypes DEF Interrupt
  <2>3. crashes' \in 0 .. MaxCrashes
    BY <1>16 DEF Interrupt
  <2>4. QED
    BY <1>16, <2>2, <2>3 DEF Interrupt, ThreadTypes
<1>17. ASSUME NEW t \in Tasks, HandOver(t) PROVE TypeOK'
  <2>1. /\ t \in Threads /\ IsFire(t) /\ ThreadTypes /\ "handed" \in FirePc
        /\ due[t] \in Times /\ t = Home(t)
    BY <1>17 DEF HandOver, ThreadTypes, FirePc
  <2>2. ThreadTypes'
    <3>1. CASE pc[t] = "idle"
      <4>1. Begin(t, "handed", t, "unborn", due[t])
        BY <1>17, <3>1 DEF HandOver
      <4>2. QED
        BY <2>1, <4>1, BeginTypes
    <3>2. CASE pc[t] # "idle"
      BY <1>17, <2>1, <3>2 DEF HandOver, ThreadTypes
    <3>3. QED
      BY <3>1, <3>2
  <2>3. due' \in [Tasks -> Times \cup {NoJob}] /\ taken' \in Tasks /\ ticking
    BY <1>17 DEF HandOver
  <2>4. QED
    BY <1>17, <2>2, <2>3 DEF HandOver, ThreadTypes
<1>18. ASSUME NEW t \in Tasks, Remove(t) PROVE TypeOK'
  BY <1>18 DEF Remove
<1>35. ASSUME ReadDue PROVE TypeOK'
  BY <1>35 DEF ReadDue
<1>36. ASSUME NEW t \in Tasks, RemoveRaises(t) PROVE TypeOK'
  <2>1. due' \in [Tasks -> Times \cup {NoJob}] /\ taken' = NoOne /\ ticking' = FALSE /\ ~Passing'
    BY <1>36 DEF RemoveRaises, EndOfPass, NoneDue
  <2>2. crashes' \in 0 .. MaxCrashes /\ kept' \subseteq Tasks
    BY <1>36 DEF RemoveRaises, HandedOver
  <2>3. QED
    BY <1>36, <2>1, <2>2 DEF RemoveRaises
<1>37. ASSUME NEW x \in Fires, RunJob(x) PROVE TypeOK'
  <2>1. x \in Threads /\ IsFire(x) /\ ThreadTypes /\ "fire" \in FirePc /\ 0 \in Times
    BY DEF ThreadTypes, FirePc, Times
  <2>2. ThreadTypes'
    <3>1. CASE now - when[x] <= Grace
      <4>1. Begin(x, "fire", subject[x], "unborn", 0)
        BY <1>37, <3>1 DEF RunJob
      <4>2. subject[x] \in Tasks /\ subject[x] = Home(x)
        BY <2>1 DEF ThreadTypes
      <4>3. QED
        BY <2>1, <4>1, <4>2, BeginTypes
    <3>2. CASE ~(now - when[x] <= Grace)
      BY <1>37, <2>1, <3>2, EndTypes DEF RunJob
    <3>3. QED
      BY <3>1, <3>2
  <2>3. QED
    BY <1>37, <2>2 DEF RunJob, ThreadTypes
<1>19. ASSUME NEW x \in Fires, FireRead(x) PROVE TypeOK'
  <2>1. x \in Threads /\ IsFire(x) /\ ThreadTypes /\ "session" \in FirePc /\ 0 \in Times
    BY DEF ThreadTypes, FirePc, Times
  <2>2. ThreadTypes'
    <3>1. CASE HasRow(subject[x]) /\ state[subject[x]] \notin {"cancelled", "started"}
      <4>1. Begin(x, "session", subject[x], state[subject[x]], 0)
        BY <1>19, <3>1 DEF FireRead
      <4>2. subject[x] \in Tasks /\ subject[x] = Home(x) /\ state[subject[x]] \in TaskState
        BY <2>1, <3>1 DEF ThreadTypes, HasRow
      <4>3. QED
        BY <2>1, <4>1, <4>2, BeginTypes
    <3>2. CASE ~(HasRow(subject[x]) /\ state[subject[x]] \notin {"cancelled", "started"})
      BY <1>19, <2>1, <3>2, EndTypes DEF FireRead
    <3>3. QED
      BY <3>1, <3>2
  <2>3. QED
    BY <1>19, <2>2 DEF FireRead, ThreadTypes
<1>20. ASSUME NEW x \in Fires, FireSession(x) PROVE TypeOK'
  BY <1>20 DEF FireSession, FirePc, Enter, Apart, Fires
<1>21. ASSUME NEW x \in Fires, FireUnreachable(x) PROVE TypeOK'
  BY <1>21 DEF FireUnreachable, FirePc, Leave
<1>22. ASSUME NEW x \in Fires, FireCheck(x) PROVE TypeOK'
  BY <1>22 DEF FireCheck, FirePc, UploadPc
<1>23. ASSUME NEW x \in Fires, FireAbort(x) PROVE TypeOK'
  BY <1>23 DEF FireAbort, FirePc, SetState, Open, TaskState, Stamp, Leave, Times
<1>24. ASSUME NEW x \in Fires, FireSend(x) PROVE TypeOK'
  BY <1>24 DEF FireSend, FirePc
<1>25. ASSUME NEW x \in Fires, FireReply(x) PROVE TypeOK'
  BY <1>25 DEF FireReply, FirePc, Leave
<1>26. ASSUME NEW x \in Fires, RecordStarted(x) PROVE TypeOK'
  BY <1>26 DEF RecordStarted, FirePc, SetState, Open, TaskState, Stamp, Times
<1>27. ASSUME NEW x \in Fires, RecordFailed(x) PROVE TypeOK'
  BY <1>27 DEF RecordFailed, FirePc, SetState, Open, TaskState, Stamp, Times
<1>28. ASSUME Tick PROVE TypeOK'
  BY <1>28 DEF Tick, Times
<1>29. ASSUME PrinterMoves PROVE TypeOK'
  BY <1>29 DEF PrinterMoves
<1>30. ASSUME Report PROVE TypeOK'
  BY <1>30 DEF Report
<1>31. ASSUME Crash PROVE TypeOK'
  <2>1. "idle" \in HandlerPc /\ "idle" \in FirePc /\ 0 \in Times
    BY DEF HandlerPc, FirePc, Times
  <2>2. ThreadTypes
    BY DEF ThreadTypes
  <2>3. ThreadTypes'
    BY <1>31, <2>1, <2>2 DEF Crash, ThreadTypes
  <2>4. /\ crashes' \in 0 .. MaxCrashes /\ kept' \subseteq Tasks
        /\ due' \in [Tasks -> Times \cup {NoJob}] /\ taken' = NoOne /\ ticking' = FALSE /\ ~Passing'
    BY <1>31 DEF Crash, EndOfPass, NoneDue, HandedOver
  <2>5. QED
    BY <1>31, <2>3, <2>4 DEF Crash, ThreadTypes
<1>38. ASSUME Stop PROVE TypeOK'
  <2>1. "idle" \in FirePc /\ 0 \in Times /\ ThreadTypes
    BY DEF FirePc, Times, ThreadTypes
  <2>2. \A x \in Late : Home(x) \in Fires
    BY HomeType, ThreadKinds
  <2>3. ThreadTypes'
    BY <1>38, <2>1, <2>2 DEF Stop, ThreadTypes
  <2>4. /\ crashes' \in 0 .. MaxCrashes /\ kept' \subseteq Tasks
        /\ due' \in [Tasks -> Times \cup {NoJob}] /\ taken' = NoOne /\ ticking' = FALSE /\ ~Passing'
    BY <1>38 DEF Stop, EndOfPass, NoneDue, HandedOver
  <2>5. QED
    BY <1>38, <2>3, <2>4 DEF Stop, ThreadTypes
<1>32. ASSUME Restart PROVE TypeOK'
  BY <1>32 DEF Restart
<1>33. CASE UNCHANGED vars
  BY <1>33 DEF vars
<1>34. QED
  BY <1>1, <1>2, <1>3, <1>4, <1>5, <1>6, <1>7, <1>8, <1>9, <1>10, <1>11, <1>12, <1>13, <1>14, <1>15, <1>16, <1>17, <1>18, <1>19, <1>20, <1>21, <1>22, <1>23, <1>24, <1>25, <1>26, <1>27, <1>28, <1>29, <1>30, <1>31, <1>32, <1>33, <1>35, <1>36, <1>37, <1>38
  DEF Next, Handler, Working, Uploading, Fire, ProcessJobs, Threads

(* Type correctness: the variables of every reachable state have the types *)
(* TypeOK gives them, whatever the handlers, fires and crashes do.         *)
THEOREM TypeCorrect == Spec => []TypeOK
<1>1. Init => TypeOK
  BY HomeType, ThreadKinds, TaskAssumption
  DEF Init, TypeOK, HandlerPc, FirePc, Times, Stamp, TaskState, Open, NoJob, NoneDue, Passing, IsFire
<1>2. QED
  BY <1>1, TypeStep, PTL DEF Spec

\* A thread that ends disturbs no task that nobody has submitted.
LEMMA FreshEnd ==
  ASSUME TypeOK, Fresh, NEW x \in Threads, End(x), UNCHANGED <<jobs, sent, due, taken, kept>>,
         \A u \in Tasks : state'[u] = "unborn" => state[u] = "unborn"
  PROVE  Fresh'
  BY HomeType DEF TypeOK, Fresh, End, Begin, Goto

(* A task nobody has submitted stays untouched.                            *)
LEMMA FreshStep == TypeOK /\ TypeOK' /\ Fresh /\ [Next]_vars => Fresh'
<1> SUFFICES ASSUME TypeOK, TypeOK', Fresh, [Next]_vars PROVE Fresh'
  OBVIOUS
<1> USE ThreadKinds, HomeType DEF TypeOK, Fresh, rows, threads, device, pass, history, Begin, End, Goto, Advance, IsFire, HasRow, TaskState, Open, NoJob
<1>1. ASSUME NEW h \in Web \cup Cli, NEW t \in Tasks, Submit(h, t) PROVE Fresh'
  BY <1>1 DEF Submit
<1>2. ASSUME NEW h \in Web \cup Cli, NEW t \in Tasks, Update(h, t) PROVE Fresh'
  <2>1. CASE Begin(h, "edit", t, state[t], at[t])
    BY <1>2, <2>1 DEF Update
  <2>2. ASSUME NEW w \in Times, Begin(h, "move", t, state[t], w) PROVE Fresh'
    BY <1>2, <2>2 DEF Update
  <2>3. QED
    BY <1>2, <2>1, <2>2 DEF Update
<1>3. ASSUME NEW h \in Web \cup Cli, NEW t \in Tasks, Cancel(h, t) PROVE Fresh'
  BY <1>3 DEF Cancel
<1>4. ASSUME NEW h \in Web \cup Cli, NEW t \in Tasks, Delete(h, t) PROVE Fresh'
  BY <1>4 DEF Delete
<1>5. ASSUME NEW x \in Threads, UploadBegin(x) PROVE Fresh'
  BY <1>5 DEF UploadBegin
<1>6. ASSUME NEW x \in Threads, UploadEnd(x) PROVE Fresh'
  BY <1>6 DEF UploadEnd
<1>7. ASSUME NEW x \in Threads, UploadFail(x) PROVE Fresh'
  BY <1>7 DEF UploadFail
<1>8. ASSUME NEW x \in Threads, RecordUploaded(x) PROVE Fresh'
  BY <1>8 DEF RecordUploaded, SetState
<1>9. ASSUME NEW x \in Threads, RecordUnsent(x) PROVE Fresh'
  <2>1. CASE IsFire(x)
    BY <1>9, <2>1 DEF RecordUnsent, SetState
  <2>2. CASE ~IsFire(x)
    <3>1. \A u \in Tasks : state'[u] = "unborn" => state[u] = "unborn"
      BY <1>9 DEF RecordUnsent, SetState
    <3>2. End(x) /\ UNCHANGED <<jobs, sent, due, taken, kept>>
      BY <1>9, <2>2 DEF RecordUnsent
    <3>3. QED
      BY <3>1, <3>2, FreshEnd
  <2>3. QED
    BY <2>1, <2>2
<1>10. ASSUME NEW h \in Web \cup Cli, Schedule(h) PROVE Fresh'
  BY <1>10 DEF Schedule
<1>11. ASSUME NEW h \in Web \cup Cli, Replace(h) PROVE Fresh'
  <2>1. CASE pc[h] = "move"
    BY <1>11, <2>1 DEF Replace, Overwrite
  <2>2. CASE pc[h] = "edit"
    <3>1. \A u \in Tasks : state'[u] = "unborn" => state[u] = "unborn"
      BY <1>11 DEF Replace, Overwrite
    <3>2. h \in Threads /\ End(h) /\ UNCHANGED <<jobs, sent, due, taken, kept>>
      BY <1>11, <2>2 DEF Replace
    <3>3. QED
      BY <3>1, <3>2, FreshEnd
  <2>3. QED
    BY <1>11, <2>1, <2>2 DEF Replace
<1>12. ASSUME NEW h \in Web \cup Cli, RecordCancelled(h) PROVE Fresh'
  BY <1>12 DEF RecordCancelled, SetState
<1>13. ASSUME NEW h \in Web \cup Cli, Unschedule(h) PROVE Fresh'
  BY <1>13 DEF Unschedule
<1>14. ASSUME NEW h \in Web \cup Cli, PurgeJob(h) PROVE Fresh'
  BY <1>14 DEF PurgeJob
<1>15. ASSUME NEW h \in Web \cup Cli, PurgeRow(h) PROVE Fresh'
  BY <1>15 DEF PurgeRow
<1>16. ASSUME NEW x \in Cli \cup Late, Interrupt(x) PROVE Fresh'
  BY <1>16 DEF Interrupt
<1>17. ASSUME NEW t \in Tasks, HandOver(t) PROVE Fresh'
  BY <1>17 DEF HandOver
<1>18. ASSUME NEW t \in Tasks, Remove(t) PROVE Fresh'
  BY <1>18 DEF Remove
<1>35. ASSUME ReadDue PROVE Fresh'
  BY <1>35 DEF ReadDue
<1>36. ASSUME NEW t \in Tasks, RemoveRaises(t) PROVE Fresh'
  BY <1>36 DEF RemoveRaises, EndOfPass, NoneDue, HandedOver
<1>37. ASSUME NEW x \in Fires, RunJob(x) PROVE Fresh'
  <2>1. x \in Threads /\ subject[x] \in Tasks /\ pc[x] # "idle" /\ state[subject[x]] # "unborn"
    BY <1>37 DEF RunJob
  <2>2. CASE now - when[x] <= Grace
    <3>1. Begin(x, "fire", subject[x], "unborn", 0) /\ UNCHANGED <<jobs, sent, state, pass, kept>>
      BY <1>37, <2>2 DEF RunJob
    <3>2. QED
      BY <2>1, <3>1
  <2>3. CASE ~(now - when[x] <= Grace)
    <3>1. End(x) /\ UNCHANGED <<jobs, sent, state, due, taken, kept>>
      BY <1>37, <2>3 DEF RunJob
    <3>2. QED
      BY <2>1, <3>1, FreshEnd
  <2>4. QED
    BY <2>2, <2>3
<1>19. ASSUME NEW x \in Fires, FireRead(x) PROVE Fresh'
  <2>1. CASE HasRow(subject[x]) /\ state[subject[x]] \notin {"cancelled", "started"}
    <3>1. /\ x \in Threads /\ subject[x] \in Tasks /\ state[subject[x]] # "unborn"
          /\ Begin(x, "session", subject[x], state[subject[x]], 0)
          /\ UNCHANGED <<jobs, sent, state, pass, kept>>
      BY <1>19, <2>1 DEF FireRead
    <3>2. QED
      BY <3>1
  <2>2. CASE ~(HasRow(subject[x]) /\ state[subject[x]] \notin {"cancelled", "started"})
    <3>1. x \in Threads /\ End(x) /\ UNCHANGED <<jobs, sent, state, due, taken, kept>>
      BY <1>19, <2>2 DEF FireRead
    <3>2. QED
      BY <3>1, FreshEnd
  <2>3. QED
    BY <2>1, <2>2
<1>20. ASSUME NEW x \in Fires, FireSession(x) PROVE Fresh'
  BY <1>20 DEF FireSession
<1>21. ASSUME NEW x \in Fires, FireUnreachable(x) PROVE Fresh'
  BY <1>21 DEF FireUnreachable
<1>22. ASSUME NEW x \in Fires, FireCheck(x) PROVE Fresh'
  BY <1>22 DEF FireCheck
<1>23. ASSUME NEW x \in Fires, FireAbort(x) PROVE Fresh'
  BY <1>23 DEF FireAbort, SetState
<1>24. ASSUME NEW x \in Fires, FireSend(x) PROVE Fresh'
  BY <1>24 DEF FireSend
<1>25. ASSUME NEW x \in Fires, FireReply(x) PROVE Fresh'
  BY <1>25 DEF FireReply
<1>26. ASSUME NEW x \in Fires, RecordStarted(x) PROVE Fresh'
  BY <1>26 DEF RecordStarted, SetState
<1>27. ASSUME NEW x \in Fires, RecordFailed(x) PROVE Fresh'
  BY <1>27 DEF RecordFailed, SetState
<1>28. ASSUME Tick PROVE Fresh'
  BY <1>28 DEF Tick
<1>29. ASSUME PrinterMoves PROVE Fresh'
  BY <1>29 DEF PrinterMoves
<1>30. ASSUME Report PROVE Fresh'
  BY <1>30 DEF Report
<1>31. ASSUME Crash PROVE Fresh'
  BY <1>31 DEF Crash, EndOfPass, NoneDue, HandedOver, Apart
<1>38. ASSUME Stop PROVE Fresh'
  <2>1. \A y \in Late : y \in Threads /\ Home(y) \in Tasks /\ Home(y) \in Threads
                        /\ subject[y] = subject[Home(y)]
    BY DEF IsFire
  <2>2. /\ \A u \in Tasks : state'[u] = "unborn" => /\ jobs'[u] = NoJob /\ due'[u] = NoJob
                              /\ taken' # u /\ u \notin kept' /\ sent'[u] = 0
    BY <1>38 DEF Stop, EndOfPass, NoneDue, HandedOver
  <2>3. UNCHANGED <<state, subject>>
    BY <1>38 DEF Stop
  <2>4. \A x \in Threads : \/ pc'[x] = "idle" /\ copy'[x] = "unborn"
                           \/ \E y \in Threads : /\ pc'[x] = pc[y] /\ copy'[x] = copy[y]
                                                 /\ subject[x] = subject[y]
    BY <1>38, <2>1 DEF Stop
  <2>5. \A x \in Threads : /\ pc'[x] = "idle" => copy'[x] = "unborn"
                           /\ pc'[x] \in {"edit", "move"} => copy'[x] \in Open
    BY <2>4
  <2>6. \A u \in Tasks : state[u] = "unborn" =>
          \A x \in Threads : subject'[x] = u => pc'[x] = "idle"
    BY <2>3, <2>4
  <2>7. QED
    BY <2>2, <2>3, <2>5, <2>6
<1>32. ASSUME Restart PROVE Fresh'
  BY <1>32 DEF Restart
<1>33. CASE UNCHANGED vars
  BY <1>33 DEF vars
<1>34. QED
  BY <1>1, <1>2, <1>3, <1>4, <1>5, <1>6, <1>7, <1>8, <1>9, <1>10, <1>11, <1>12, <1>13, <1>14, <1>15, <1>16, <1>17, <1>18, <1>19, <1>20, <1>21, <1>22, <1>23, <1>24, <1>25, <1>26, <1>27, <1>28, <1>29, <1>30, <1>31, <1>32, <1>33, <1>35, <1>36, <1>37, <1>38
  DEF Next, Handler, Working, Uploading, Fire, ProcessJobs, Threads

\* A step of one thread that neither enters nor leaves the session.
LEMMA SessionSame ==
  ASSUME TypeOK, SessionsExclude, NEW x \in Threads, UNCHANGED useLock,
         \A y \in Threads \ {x} : pc'[y] = pc[y], InSession(x)' <=> InSession(x)
  PROVE  SessionsExclude'
<1>1. \A y \in Threads : InSession(y)' <=> InSession(y)
  BY DEF InSession
<1>2. QED
  BY <1>1, ThreadKinds DEF SessionsExclude, TypeOK

\* A step by which the holder leaves the session.
LEMMA SessionLeft ==
  ASSUME TypeOK, SessionsExclude, NEW x \in Web \cup Tasks, useLock \in {NoOne, x},
         useLock' = NoOne, \A y \in Threads \ {x} : pc'[y] = pc[y], ~InSession(x)'
  PROVE  SessionsExclude'
<1>1. \A y \in Threads \ {x} : InSession(y)' <=> InSession(y)
  BY DEF InSession
<1>2. \A y \in Web \cup Tasks : ~InSession(y)'
  BY <1>1, ThreadKinds DEF SessionsExclude
<1>3. QED
  BY <1>2 DEF SessionsExclude

\* A step of a bpq command or of a stopped daemon's fire is outside the lock.
LEMMA SessionApart ==
  ASSUME TypeOK, SessionsExclude, NEW x \in Threads, Apart(x), UNCHANGED useLock,
         \A y \in Threads \ {x} : pc'[y] = pc[y]
  PROVE  SessionsExclude'
<1>1. ~InSession(x) /\ ~InSession(x)'
  BY ThreadKinds DEF InSession, Apart
<1>2. QED
  BY <1>1, SessionSame

(* The lock and the places inside the session go together.                 *)
LEMMA SessionStep == TypeOK /\ TypeOK' /\ SessionsExclude /\ [Next]_vars => SessionsExclude'
<1> SUFFICES ASSUME TypeOK, TypeOK', SessionsExclude, [Next]_vars PROVE SessionsExclude'
  OBVIOUS
<1> USE TaskAssumption, ThreadKinds, HomeType DEF TypeOK, SessionsExclude, InSession, Apart, UploadPc, HandlerPc, MayEnter, Enter, Leave, rows, threads, device, pass, history, Begin, End, Goto, Advance, IsFire
<1>1. ASSUME NEW h \in Web \cup Cli, NEW t \in Tasks, Submit(h, t) PROVE SessionsExclude'
  <2>1. h \in Threads /\ ~InSession(h) /\ ~InSession(h)' /\ UNCHANGED useLock
    BY <1>1 DEF Submit, Free
  <2>2. \A y \in Threads \ {h} : pc'[y] = pc[y]
    BY <1>1 DEF Submit, Free
  <2>3. QED
    BY <2>1, <2>2, SessionSame
<1>2. ASSUME NEW h \in Web \cup Cli, NEW t \in Tasks, Update(h, t) PROVE SessionsExclude'
  <2>1. h \in Threads /\ ~InSession(h) /\ ~InSession(h)' /\ UNCHANGED useLock
    BY <1>2 DEF Update, Free
  <2>2. \A y \in Threads \ {h} : pc'[y] = pc[y]
    BY <1>2 DEF Update, Free
  <2>3. QED
    BY <2>1, <2>2, SessionSame
<1>3. ASSUME NEW h \in Web \cup Cli, NEW t \in Tasks, Cancel(h, t) PROVE SessionsExclude'
  <2>1. h \in Threads /\ ~InSession(h) /\ ~InSession(h)' /\ UNCHANGED useLock
    BY <1>3 DEF Cancel, Free
  <2>2. \A y \in Threads \ {h} : pc'[y] = pc[y]
    BY <1>3 DEF Cancel, Free
  <2>3. QED
    BY <2>1, <2>2, SessionSame
<1>4. ASSUME NEW h \in Web \cup Cli, NEW t \in Tasks, Delete(h, t) PROVE SessionsExclude'
  <2>1. h \in Threads /\ ~InSession(h) /\ ~InSession(h)' /\ UNCHANGED useLock
    BY <1>4 DEF Delete, Free
  <2>2. \A y \in Threads \ {h} : pc'[y] = pc[y]
    BY <1>4 DEF Delete, Free
  <2>3. QED
    BY <2>1, <2>2, SessionSame
<1>5. ASSUME NEW x \in Threads, UploadBegin(x) PROVE SessionsExclude'
  <2>1. x \in Threads /\ \A y \in Threads \ {x} : pc'[y] = pc[y]
    BY <1>5 DEF UploadBegin
  <2>2. CASE Apart(x)
    <3>1. UNCHANGED useLock
      BY <1>5, <2>2 DEF UploadBegin
    <3>2. QED
      BY <2>1, <2>2, <3>1, SessionApart
  <2>3. CASE ~Apart(x)
    BY <1>5, <2>1, <2>3 DEF UploadBegin
  <2>4. QED
    BY <2>2, <2>3
<1>6. ASSUME NEW x \in Threads, UploadEnd(x) PROVE SessionsExclude'
  <2>1. pc' = [pc EXCEPT ![x] = "uploaded"]
    BY <1>6 DEF UploadEnd
  <2>2. CASE x \in Tasks
    <3>1. InSession(x) /\ InSession(x)' /\ UNCHANGED useLock
      BY <1>6, <2>1, <2>2 DEF UploadEnd
    <3>2. QED
      BY <2>1, <3>1, SessionSame
  <2>3. CASE x \in Web
    <3>1. useLock \in {NoOne, x} /\ useLock' = NoOne /\ ~InSession(x)'
      BY <1>6, <2>1, <2>3 DEF UploadEnd
    <3>2. QED
      BY <2>1, <2>3, <3>1, SessionLeft
  <2>4. CASE Apart(x)
    <3>1. UNCHANGED useLock
      BY <1>6, <2>4 DEF UploadEnd
    <3>2. QED
      BY <2>1, <2>4, <3>1, SessionApart
  <2>5. QED
    BY <2>2, <2>3, <2>4 DEF Threads
<1>7. ASSUME NEW x \in Threads, UploadFail(x) PROVE SessionsExclude'
  <2>1. pc' = [pc EXCEPT ![x] = "unsent"]
    BY <1>7 DEF UploadFail
  <2>2. CASE x \in Tasks
    <3>1. InSession(x) /\ InSession(x)' /\ UNCHANGED useLock
      BY <1>7, <2>1, <2>2 DEF UploadFail
    <3>2. QED
      BY <2>1, <3>1, SessionSame
  <2>3. CASE x \in Web
    <3>1. useLock \in {NoOne, x} /\ useLock' = NoOne /\ ~InSession(x)'
      BY <1>7, <2>1, <2>3 DEF UploadFail
    <3>2. QED
      BY <2>1, <2>3, <3>1, SessionLeft
  <2>4. CASE Apart(x)
    <3>1. UNCHANGED useLock
      BY <1>7, <2>4 DEF UploadFail
    <3>2. QED
      BY <2>1, <2>4, <3>1, SessionApart
  <2>5. QED
    BY <2>2, <2>3, <2>4 DEF Threads
<1>8. ASSUME NEW x \in Threads, RecordUploaded(x) PROVE SessionsExclude'
  BY <1>8 DEF RecordUploaded, SetState
<1>9. ASSUME NEW x \in Threads, RecordUnsent(x) PROVE SessionsExclude'
  <2>1. CASE IsFire(x)
    <3>1. pc' = [pc EXCEPT ![x] = "failed"]
      BY <1>9, <2>1 DEF RecordUnsent
    <3>2. CASE Apart(x)
      <4>1. UNCHANGED useLock
        BY <1>9, <2>1, <3>2 DEF RecordUnsent
      <4>2. QED
        BY <3>1, <3>2, <4>1, SessionApart
    <3>3. CASE ~Apart(x)
      BY <1>9, <2>1, <3>1, <3>3 DEF RecordUnsent
    <3>4. QED
      BY <3>2, <3>3
  <2>2. CASE ~IsFire(x)
    BY <1>9, <2>2 DEF RecordUnsent, SetState
  <2>3. QED
    BY <2>1, <2>2
<1>10. ASSUME NEW h \in Web \cup Cli, Schedule(h) PROVE SessionsExclude'
  BY <1>10 DEF Schedule
<1>11. ASSUME NEW h \in Web \cup Cli, Replace(h) PROVE SessionsExclude'
  <2>1. CASE pc[h] = "move"
    BY <1>11, <2>1 DEF Replace, Overwrite
  <2>2. CASE pc[h] = "edit"
    BY <1>11, <2>2 DEF Replace, Overwrite
  <2>3. QED
    BY <1>11, <2>1, <2>2 DEF Replace
<1>12. ASSUME NEW h \in Web \cup Cli, RecordCancelled(h) PROVE SessionsExclude'
  BY <1>12 DEF RecordCancelled, SetState
<1>13. ASSUME NEW h \in Web \cup Cli, Unschedule(h) PROVE SessionsExclude'
  BY <1>13 DEF Unschedule
<1>14. ASSUME NEW h \in Web \cup Cli, PurgeJob(h) PROVE SessionsExclude'
  BY <1>14 DEF PurgeJob
<1>15. ASSUME NEW h \in Web \cup Cli, PurgeRow(h) PROVE SessionsExclude'
  BY <1>15 DEF PurgeRow
<1>16. ASSUME NEW x \in Cli \cup Late, Interrupt(x) PROVE SessionsExclude'
  BY <1>16 DEF Interrupt
<1>17. ASSUME NEW t \in Tasks, HandOver(t) PROVE SessionsExclude'
  BY <1>17 DEF HandOver
<1>18. ASSUME NEW t \in Tasks, Remove(t) PROVE SessionsExclude'
  BY <1>18 DEF Remove
<1>35. ASSUME ReadDue PROVE SessionsExclude'
  BY <1>35 DEF ReadDue
<1>36. ASSUME NEW t \in Tasks, RemoveRaises(t) PROVE SessionsExclude'
  BY <1>36 DEF RemoveRaises
<1>37. ASSUME NEW x \in Fires, RunJob(x) PROVE SessionsExclude'
  BY <1>37 DEF RunJob
<1>19. ASSUME NEW x \in Fires, FireRead(x) PROVE SessionsExclude'
  <2>1. CASE HasRow(subject[x]) /\ state[subject[x]] \notin {"cancelled", "started"}
    BY <1>19, <2>1 DEF FireRead
  <2>2. CASE ~(HasRow(subject[x]) /\ state[subject[x]] \notin {"cancelled", "started"})
    BY <1>19, <2>2 DEF FireRead
  <2>3. QED
    BY <2>1, <2>2
<1>20. ASSUME NEW x \in Fires, FireSession(x) PROVE SessionsExclude'
  <2>1. x \in Threads /\ \A y \in Threads \ {x} : pc'[y] = pc[y]
    BY <1>20 DEF FireSession
  <2>2. CASE Apart(x)
    <3>1. UNCHANGED useLock
      BY <1>20, <2>2 DEF FireSession
    <3>2. QED
      BY <2>1, <2>2, <3>1, SessionApart
  <2>3. CASE ~Apart(x)
    BY <1>20, <2>1, <2>3 DEF FireSession
  <2>4. QED
    BY <2>2, <2>3
<1>21. ASSUME NEW x \in Fires, FireUnreachable(x) PROVE SessionsExclude'
  <2>1. x \in Threads /\ \A y \in Threads \ {x} : pc'[y] = pc[y]
    BY <1>21 DEF FireUnreachable
  <2>2. CASE Apart(x)
    <3>1. UNCHANGED useLock
      BY <1>21, <2>2 DEF FireUnreachable
    <3>2. QED
      BY <2>1, <2>2, <3>1, SessionApart
  <2>3. CASE ~Apart(x)
    BY <1>21, <2>1, <2>3 DEF FireUnreachable
  <2>4. QED
    BY <2>2, <2>3
<1>22. ASSUME NEW x \in Fires, FireCheck(x) PROVE SessionsExclude'
  BY <1>22 DEF FireCheck
<1>23. ASSUME NEW x \in Fires, FireAbort(x) PROVE SessionsExclude'
  <2>1. x \in Threads /\ \A y \in Threads \ {x} : pc'[y] = pc[y]
    BY <1>23 DEF FireAbort, SetState
  <2>2. CASE Apart(x)
    <3>1. UNCHANGED useLock
      BY <1>23, <2>2 DEF FireAbort, SetState
    <3>2. QED
      BY <2>1, <2>2, <3>1, SessionApart
  <2>3. CASE ~Apart(x)
    BY <1>23, <2>1, <2>3 DEF FireAbort, SetState
  <2>4. QED
    BY <2>2, <2>3
<1>24. ASSUME NEW x \in Fires, FireSend(x) PROVE SessionsExclude'
  BY <1>24 DEF FireSend
<1>25. ASSUME NEW x \in Fires, FireReply(x) PROVE SessionsExclude'
  <2>1. x \in Threads /\ \A y \in Threads \ {x} : pc'[y] = pc[y]
    BY <1>25 DEF FireReply
  <2>2. CASE Apart(x)
    <3>1. UNCHANGED useLock
      BY <1>25, <2>2 DEF FireReply
    <3>2. QED
      BY <2>1, <2>2, <3>1, SessionApart
  <2>3. CASE ~Apart(x)
    BY <1>25, <2>1, <2>3 DEF FireReply
  <2>4. QED
    BY <2>2, <2>3
<1>26. ASSUME NEW x \in Fires, RecordStarted(x) PROVE SessionsExclude'
  BY <1>26 DEF RecordStarted, SetState
<1>27. ASSUME NEW x \in Fires, RecordFailed(x) PROVE SessionsExclude'
  BY <1>27 DEF RecordFailed, SetState
<1>28. ASSUME Tick PROVE SessionsExclude'
  BY <1>28 DEF Tick
<1>29. ASSUME PrinterMoves PROVE SessionsExclude'
  BY <1>29 DEF PrinterMoves
<1>30. ASSUME Report PROVE SessionsExclude'
  BY <1>30 DEF Report
<1>31. ASSUME Crash PROVE SessionsExclude'
  BY <1>31 DEF Crash
<1>38. ASSUME Stop PROVE SessionsExclude'
  BY <1>38 DEF Stop
<1>32. ASSUME Restart PROVE SessionsExclude'
  BY <1>32 DEF Restart
<1>33. CASE UNCHANGED vars
  BY <1>33 DEF vars
<1>34. QED
  BY <1>1, <1>2, <1>3, <1>4, <1>5, <1>6, <1>7, <1>8, <1>9, <1>10, <1>11, <1>12, <1>13, <1>14, <1>15, <1>16, <1>17, <1>18, <1>19, <1>20, <1>21, <1>22, <1>23, <1>24, <1>25, <1>26, <1>27, <1>28, <1>29, <1>30, <1>31, <1>32, <1>33, <1>35, <1>36, <1>37, <1>38
  DEF Next, Handler, Working, Uploading, Fire, ProcessJobs, Threads

\* A thread that begins, or ends, outside the steps of a start command.
LEMMA EvidenceBegin ==
  ASSUME TypeOK, EvidenceInv, EvidenceKept', NEW x \in Threads,
         NEW label, label \notin {"send", "reply", "started"}, NEW t \in Tasks, NEW s, NEW w,
         Begin(x, label, t, s, w),
         s = "uploaded" => HasRow(t) /\ state[t] = "uploaded",
         UNCHANGED sent, \A u \in Tasks : HasRow(u)' => HasRow(u),
         \A u \in Tasks : stamps[u] \subseteq stamps'[u]
  PROVE  EvidenceInv'
<1>1. /\ pc' = [pc EXCEPT ![x] = label]
      /\ subject' = [subject EXCEPT ![x] = t]
      /\ copy' = [copy EXCEPT ![x] = s]
  BY DEF Begin, Goto
<1>2. \A y \in Threads \ {x} : /\ subject'[y] = subject[y] /\ subject[y] \in Tasks
                              /\ pc'[y] = pc[y] /\ copy'[y] = copy[y]
  BY <1>1 DEF TypeOK
<1>3. pc'[x] = label /\ subject'[x] = t /\ copy'[x] = s
  BY <1>1 DEF TypeOK
<1>4. s = "uploaded" => "uploaded" \in stamps[t]
  BY DEF EvidenceInv, EvidenceKept
<1>5. QED
  BY <1>2, <1>3, <1>4, ThreadKinds DEF EvidenceInv

LEMMA EvidenceEnd ==
  ASSUME TypeOK, EvidenceInv, EvidenceKept', NEW x \in Threads, End(x),
         UNCHANGED sent, \A u \in Tasks : HasRow(u)' => HasRow(u),
         \A u \in Tasks : stamps[u] \subseteq stamps'[u]
  PROVE  EvidenceInv'
  BY EvidenceBegin, HomeType DEF End

\* A thread that begins or ends and leaves the rows alone.
LEMMA EvidenceSame ==
  ASSUME TypeOK, EvidenceInv, NEW x \in Threads, UNCHANGED <<state, stamps, sent>>
  PROVE  /\ End(x) => EvidenceInv'
         /\ \A label \in {"handed", "fire", "session"}, t \in Tasks : \A s, w :
              Begin(x, label, t, s, w) /\ (s = "uploaded" => state[t] = "uploaded") => EvidenceInv'
<1>1. /\ EvidenceKept' /\ UNCHANGED sent /\ \A u \in Tasks : HasRow(u)' => HasRow(u)
      /\ \A u \in Tasks : stamps[u] \subseteq stamps'[u]
  BY DEF EvidenceInv, EvidenceKept, HasRow
<1>2. CASE End(x)
  BY <1>1, <1>2, EvidenceEnd
<1>3. ASSUME NEW label \in {"handed", "fire", "session"}, NEW t \in Tasks, NEW s, NEW w,
             Begin(x, label, t, s, w), s = "uploaded" => state[t] = "uploaded"
      PROVE  EvidenceInv'
  <2>1. s = "uploaded" => HasRow(t) /\ state[t] = "uploaded"
    BY <1>3 DEF HasRow, TaskState, Open
  <2>2. QED
    BY <1>1, <1>3, <2>1, EvidenceBegin
<1>4. QED
  BY <1>2, <1>3

(* Whatever is written over a row, its evidence stays.                     *)
LEMMA EvidenceStep == TypeOK /\ TypeOK' /\ Fresh /\ EvidenceInv /\ [Next]_vars => EvidenceInv'
<1> SUFFICES ASSUME TypeOK, TypeOK', Fresh, EvidenceInv, [Next]_vars PROVE EvidenceInv'
  OBVIOUS
<1> USE ThreadKinds, HomeType DEF TypeOK, Fresh, EvidenceInv, EvidenceKept, HasRow, TaskState, Open, Stamp, NoJob, rows, threads, device, pass, history, Begin, End, Goto, Advance, IsFire
<1>1. ASSUME NEW h \in Web \cup Cli, NEW t \in Tasks, Submit(h, t) PROVE EvidenceInv'
  BY <1>1 DEF Submit
<1>2. ASSUME NEW h \in Web \cup Cli, NEW t \in Tasks, Update(h, t) PROVE EvidenceInv'
  <2>1. CASE Begin(h, "edit", t, state[t], at[t])
    BY <1>2, <2>1 DEF Update
  <2>2. ASSUME NEW w \in Times, Begin(h, "move", t, state[t], w) PROVE EvidenceInv'
    BY <1>2, <2>2 DEF Update
  <2>3. QED
    BY <1>2, <2>1, <2>2 DEF Update
<1>3. ASSUME NEW h \in Web \cup Cli, NEW t \in Tasks, Cancel(h, t) PROVE EvidenceInv'
  BY <1>3 DEF Cancel
<1>4. ASSUME NEW h \in Web \cup Cli, NEW t \in Tasks, Delete(h, t) PROVE EvidenceInv'
  BY <1>4 DEF Delete
<1>5. ASSUME NEW x \in Threads, UploadBegin(x) PROVE EvidenceInv'
  BY <1>5 DEF UploadBegin
<1>6. ASSUME NEW x \in Threads, UploadEnd(x) PROVE EvidenceInv'
  BY <1>6 DEF UploadEnd
<1>7. ASSUME NEW x \in Threads, UploadFail(x) PROVE EvidenceInv'
  BY <1>7 DEF UploadFail
<1>8. ASSUME NEW x \in Threads, RecordUploaded(x) PROVE EvidenceInv'
  BY <1>8 DEF RecordUploaded, SetState
<1>9. ASSUME NEW x \in Threads, RecordUnsent(x) PROVE EvidenceInv'
  <2>1. CASE IsFire(x)
    BY <1>9, <2>1 DEF RecordUnsent, SetState
  <2>2. CASE ~IsFire(x)
    <3>1. End(x) /\ UNCHANGED sent
      BY <1>9, <2>2 DEF RecordUnsent
    <3>2. /\ \A u \in Tasks : HasRow(u)' => HasRow(u)
          /\ \A u \in Tasks : stamps[u] \subseteq stamps'[u]
          /\ EvidenceKept'
      BY <1>9 DEF RecordUnsent, SetState
    <3>3. QED
      BY <2>2, <3>1, <3>2, EvidenceEnd
  <2>3. QED
    BY <2>1, <2>2
<1>10. ASSUME NEW h \in Web \cup Cli, Schedule(h) PROVE EvidenceInv'
  <2>1. h \in Threads /\ End(h) /\ UNCHANGED <<state, stamps, sent>>
    BY <1>10 DEF Schedule
  <2>2. QED
    BY <2>1, EvidenceSame
<1>11. ASSUME NEW h \in Web \cup Cli, Replace(h) PROVE EvidenceInv'
  <2>1. CASE pc[h] = "move"
    BY <1>11, <2>1 DEF Replace, Overwrite
  <2>2. CASE pc[h] = "edit"
    <3>1. h \in Threads /\ ~IsFire(h) /\ End(h) /\ UNCHANGED sent
      BY <1>11, <2>2 DEF Replace
    <3>2. /\ \A u \in Tasks : HasRow(u)' => HasRow(u)
          /\ \A u \in Tasks : stamps[u] \subseteq stamps'[u]
          /\ EvidenceKept'
      BY <1>11 DEF Replace, Overwrite
    <3>3. QED
      BY <3>1, <3>2, EvidenceEnd
  <2>3. QED
    BY <1>11, <2>1, <2>2 DEF Replace
<1>12. ASSUME NEW h \in Web \cup Cli, RecordCancelled(h) PROVE EvidenceInv'
  BY <1>12 DEF RecordCancelled, SetState
<1>13. ASSUME NEW h \in Web \cup Cli, Unschedule(h) PROVE EvidenceInv'
  BY <1>13 DEF Unschedule
<1>14. ASSUME NEW h \in Web \cup Cli, PurgeJob(h) PROVE EvidenceInv'
  BY <1>14 DEF PurgeJob
<1>15. ASSUME NEW h \in Web \cup Cli, PurgeRow(h) PROVE EvidenceInv'
  BY <1>15 DEF PurgeRow
<1>16. ASSUME NEW x \in Cli \cup Late, Interrupt(x) PROVE EvidenceInv'
  BY <1>16 DEF Interrupt
<1>17. ASSUME NEW t \in Tasks, HandOver(t) PROVE EvidenceInv'
  <2>1. t \in Threads /\ UNCHANGED <<state, stamps, sent>> /\ due[t] \in Times \cup {NoJob}
    BY <1>17 DEF HandOver
  <2>2. CASE pc[t] = "idle"
    <3>1. Begin(t, "handed", t, "unborn", due[t])
      BY <1>17, <2>2 DEF HandOver
    <3>2. QED
      BY <2>1, <3>1, EvidenceSame
  <2>3. CASE pc[t] # "idle"
    BY <1>17, <2>3 DEF HandOver
  <2>4. QED
    BY <2>2, <2>3
<1>18. ASSUME NEW t \in Tasks, Remove(t) PROVE EvidenceInv'
  BY <1>18 DEF Remove
<1>35. ASSUME ReadDue PROVE EvidenceInv'
  BY <1>35 DEF ReadDue
<1>36. ASSUME NEW t \in Tasks, RemoveRaises(t) PROVE EvidenceInv'
  BY <1>36 DEF RemoveRaises
<1>37. ASSUME NEW x \in Fires, RunJob(x) PROVE EvidenceInv'
  <2>1. x \in Threads /\ subject[x] \in Tasks /\ UNCHANGED <<state, stamps, sent>>
    BY <1>37 DEF RunJob
  <2>2. CASE now - when[x] <= Grace
    <3>1. Begin(x, "fire", subject[x], "unborn", 0)
      BY <1>37, <2>2 DEF RunJob
    <3>2. QED
      BY <2>1, <3>1, EvidenceSame
  <2>3. CASE ~(now - when[x] <= Grace)
    <3>1. End(x)
      BY <1>37, <2>3 DEF RunJob
    <3>2. QED
      BY <2>1, <3>1, EvidenceSame
  <2>4. QED
    BY <2>2, <2>3
<1>19. ASSUME NEW x \in Fires, FireRead(x) PROVE EvidenceInv'
  <2>1. x \in Threads /\ subject[x] \in Tasks /\ UNCHANGED <<state, stamps, sent>>
    BY <1>19 DEF FireRead
  <2>2. CASE HasRow(subject[x]) /\ state[subject[x]] \notin {"cancelled", "started"}
    <3>1. Begin(x, "session", subject[x], state[subject[x]], 0)
      BY <1>19, <2>2 DEF FireRead
    <3>2. QED
      BY <2>1, <2>2, <3>1, EvidenceSame
  <2>3. CASE ~(HasRow(subject[x]) /\ state[subject[x]] \notin {"cancelled", "started"})
    <3>1. End(x)
      BY <1>19, <2>3 DEF FireRead
    <3>2. QED
      BY <2>1, <3>1, EvidenceSame
  <2>4. QED
    BY <2>2, <2>3
<1>20. ASSUME NEW x \in Fires, FireSession(x) PROVE EvidenceInv'
  BY <1>20 DEF FireSession
<1>21. ASSUME NEW x \in Fires, FireUnreachable(x) PROVE EvidenceInv'
  BY <1>21 DEF FireUnreachable
<1>22. ASSUME NEW x \in Fires, FireCheck(x) PROVE EvidenceInv'
  BY <1>22 DEF FireCheck
<1>23. ASSUME NEW x \in Fires, FireAbort(x) PROVE EvidenceInv'
  BY <1>23 DEF FireAbort, SetState
<1>24. ASSUME NEW x \in Fires, FireSend(x) PROVE EvidenceInv'
  BY <1>24 DEF FireSend
<1>25. ASSUME NEW x \in Fires, FireReply(x) PROVE EvidenceInv'
  BY <1>25 DEF FireReply
<1>26. ASSUME NEW x \in Fires, RecordStarted(x) PROVE EvidenceInv'
  BY <1>26 DEF RecordStarted, SetState
<1>27. ASSUME NEW x \in Fires, RecordFailed(x) PROVE EvidenceInv'
  BY <1>27 DEF RecordFailed, SetState
<1>28. ASSUME Tick PROVE EvidenceInv'
  BY <1>28 DEF Tick
<1>29. ASSUME PrinterMoves PROVE EvidenceInv'
  BY <1>29 DEF PrinterMoves
<1>30. ASSUME Report PROVE EvidenceInv'
  BY <1>30 DEF Report
<1>31. ASSUME Crash PROVE EvidenceInv'
  BY <1>31 DEF Crash
<1>38. ASSUME Stop PROVE EvidenceInv'
  BY <1>38 DEF Stop
<1>32. ASSUME Restart PROVE EvidenceInv'
  BY <1>32 DEF Restart
<1>33. CASE UNCHANGED vars
  BY <1>33 DEF vars
<1> HIDE DEF TypeOK, Fresh, EvidenceInv, EvidenceKept, HasRow, TaskState, Open, Stamp, NoJob, rows, threads, device, pass, history, Begin, End, Goto, Advance, IsFire
<1>34. QED
  BY <1>1, <1>2, <1>3, <1>4, <1>5, <1>6, <1>7, <1>8, <1>9, <1>10, <1>11, <1>12, <1>13, <1>14, <1>15, <1>16, <1>17, <1>18, <1>19, <1>20, <1>21, <1>22, <1>23, <1>24, <1>25, <1>26, <1>27, <1>28, <1>29, <1>30, <1>31, <1>32, <1>33, <1>35, <1>36, <1>37, <1>38
  DEF Next, Handler, Working, Uploading, Fire, ProcessJobs, Threads

(* No step of anything takes a stamp away.                                 *)
LEMMA StampsStep == TypeOK /\ [Next]_vars => \A t \in Tasks : stamps[t] \subseteq stamps'[t]
  BY DEF Next, Handler, Working, Uploading, Fire, Interrupt, Submit, Update, Cancel, Delete,
         UploadBegin, UploadEnd, UploadFail, RecordUploaded, RecordUnsent, Schedule, Replace,
         RecordCancelled, Unschedule, PurgeJob, PurgeRow, ReadDue, HandOver, Remove, RemoveRaises, RunJob, FireRead,
         FireSession, FireUnreachable, FireCheck, FireAbort, FireSend, FireReply,
         RecordStarted, RecordFailed, Tick, PrinterMoves, Report, Crash, Stop, Restart, ProcessJobs,
         SetState, Overwrite, rows, vars, TypeOK

(* What is counted, and what has come loose, only grows.                   *)
LEMMA CountStep == TypeOK /\ [Next]_vars => crashes' \in {crashes, crashes + 1} /\ kept \subseteq kept'
  BY DEF Next, Handler, Working, Uploading, Fire, Interrupt, Submit, Update, Cancel, Delete,
         UploadBegin, UploadEnd, UploadFail, RecordUploaded, RecordUnsent, Schedule, Replace,
         RecordCancelled, Unschedule, PurgeJob, PurgeRow, ReadDue, HandOver, Remove, RemoveRaises, RunJob, FireRead,
         FireSession, FireUnreachable, FireCheck, FireAbort, FireSend, FireReply,
         RecordStarted, RecordFailed, Tick, PrinterMoves, Report, Crash, Stop, Restart, ProcessJobs,
         End, Begin, Advance, pass, history, vars

\* A step of thread x that begins no submission, no job and no start command.
Quiet(x) ==
  /\ \A y \in Threads \ {x} : pc'[y] = pc[y] /\ subject'[y] = subject[y]
  /\ pc'[x] \notin {"edit", "move"}
  /\ x \in Fires => /\ subject'[x] = subject[x]
                    /\ pc'[x] # "idle" => pc[x] # "idle"
                    /\ pc'[x] \in ArmedPc => pc[x] \in ArmedPc
  /\ x \notin Fires /\ pc'[x] \in UploadPc \cup {"schedule"}
       => subject'[x] = subject[x] /\ pc[x] \in UploadPc \cup {"schedule"}
  /\ UNCHANGED <<sent, due, taken, ticking, kept>>
  /\ \A u \in Tasks : jobs'[u] \in {jobs[u], NoJob}
  /\ \A u \in Tasks : state[u] = "unborn" <=> state'[u] = "unborn"

\* Almost every step of a thread is one.
LEMMA QuietUpload ==
  ASSUME TypeOK, TypeOK', NEW x \in Threads, Uploading(x) PROVE Quiet(x)
<1> USE ThreadKinds, HomeType
    DEF TypeOK, Quiet, UploadPc, ArmedPc, HasRow, TaskState, Open, rows, threads, device, pass, history,
        Begin, End, Goto, Advance, IsFire
<1>1. CASE UploadBegin(x)
  BY <1>1 DEF UploadBegin
<1>2. CASE UploadEnd(x)
  BY <1>2 DEF UploadEnd
<1>3. CASE UploadFail(x)
  BY <1>3 DEF UploadFail
<1>4. CASE RecordUploaded(x)
  BY <1>4 DEF RecordUploaded, SetState
<1>5. CASE RecordUnsent(x)
  <2>1. CASE IsFire(x)
    BY <1>5, <2>1 DEF RecordUnsent, SetState
  <2>2. CASE ~IsFire(x)
    BY <1>5, <2>2 DEF RecordUnsent, SetState
  <2>3. QED
    BY <2>1, <2>2
<1>6. QED
  BY <1>1, <1>2, <1>3, <1>4, <1>5 DEF Uploading

LEMMA QuietHandler ==
  ASSUME TypeOK, TypeOK', Fresh, NEW h \in Web \cup Cli,
         \/ RecordCancelled(h) \/ Unschedule(h) \/ PurgeJob(h) \/ PurgeRow(h)
         \/ \E t \in Tasks : Cancel(h, t) \/ Delete(h, t)
  PROVE  Quiet(h)
<1> USE ThreadKinds, HomeType
    DEF TypeOK, Quiet, UploadPc, ArmedPc, HasRow, TaskState, Open, rows, threads, device, pass, history,
        Begin, End, Goto, Advance, IsFire
<1>1. CASE RecordCancelled(h)
  BY <1>1 DEF RecordCancelled, SetState
<1>2. CASE Unschedule(h)
  BY <1>2 DEF Unschedule
<1>3. CASE PurgeJob(h)
  BY <1>3 DEF PurgeJob
<1>4. CASE PurgeRow(h)
  <2>1. h \in Threads /\ subject[h] \in Tasks /\ pc[h] # "idle"
    BY <1>4 DEF PurgeRow
  <2>2. state[subject[h]] # "unborn"
    BY <2>1 DEF Fresh
  <2>3. QED
    BY <1>4, <2>2 DEF PurgeRow
<1>5. ASSUME NEW t \in Tasks, Cancel(h, t) PROVE Quiet(h)
  BY <1>5 DEF Cancel
<1>6. ASSUME NEW t \in Tasks, Delete(h, t) PROVE Quiet(h)
  BY <1>6 DEF Delete
<1>7. QED
  BY <1>1, <1>2, <1>3, <1>4, <1>5, <1>6

LEMMA QuietFire ==
  ASSUME TypeOK, TypeOK', NEW x \in Threads,
         \/ x \in Fires /\ Fire(x) /\ ~FireSend(x) /\ ~Uploading(x)
         \/ Interrupt(x)
  PROVE  Quiet(x)
<1> USE ThreadKinds, HomeType
    DEF TypeOK, Quiet, UploadPc, ArmedPc, HasRow, TaskState, Open, rows, threads, device, pass, history,
        Begin, End, Goto, Advance, IsFire
<1>1. ASSUME x \in Fires, RunJob(x) PROVE Quiet(x)
  BY <1>1 DEF RunJob
<1>2. ASSUME x \in Fires, FireRead(x) PROVE Quiet(x)
  BY <1>2 DEF FireRead
<1>3. ASSUME x \in Fires, FireSession(x) PROVE Quiet(x)
  BY <1>3 DEF FireSession
<1>4. ASSUME x \in Fires, FireUnreachable(x) PROVE Quiet(x)
  BY <1>4 DEF FireUnreachable
<1>5. ASSUME x \in Fires, FireCheck(x) PROVE Quiet(x)
  BY <1>5 DEF FireCheck
<1>6. ASSUME x \in Fires, FireAbort(x) PROVE Quiet(x)
  BY <1>6 DEF FireAbort, SetState
<1>7. ASSUME x \in Fires, FireReply(x) PROVE Quiet(x)
  BY <1>7 DEF FireReply
<1>8. ASSUME x \in Fires, RecordStarted(x) PROVE Quiet(x)
  BY <1>8 DEF RecordStarted, SetState
<1>9. ASSUME x \in Fires, RecordFailed(x) PROVE Quiet(x)
  BY <1>9 DEF RecordFailed, SetState
<1>10. CASE Interrupt(x)
  BY <1>10 DEF Interrupt
<1>11. QED
  BY <1>1, <1>2, <1>3, <1>4, <1>5, <1>6, <1>7, <1>8, <1>9, <1>10 DEF Fire

\* What a quiet step does to the tokens: it may lose some.
LEMMA QuietTokens ==
  ASSUME TypeOK, TypeOK', NEW x \in Threads, Quiet(x)
  PROVE  /\ \A t \in Tasks : /\ Firing(t)' => Firing(t)
                             /\ Armed(t)' => Armed(t)
                             /\ pc[t] = "idle" => pc'[t] = "idle"
                             /\ pc[Old[t]] = "idle" => pc'[Old[t]] = "idle"
                             /\ Scheduled(t)' => Scheduled(t)
         /\ \A h \in Web \cup Cli, t \in Tasks : Submitting(h, t)' => Submitting(h, t)
<1>1. \A y \in Fires : /\ subject'[y] = subject[y]
                       /\ pc'[y] # "idle" => pc[y] # "idle"
                       /\ pc'[y] \in ArmedPc => pc[y] \in ArmedPc
  BY ThreadKinds DEF Quiet
<1>2. \A t \in Tasks : Scheduled(t)' => Scheduled(t)
  BY DEF Quiet, Scheduled
<1>3. \A h \in Web \cup Cli, t \in Tasks : Submitting(h, t)' => Submitting(h, t)
  BY ThreadKinds DEF Quiet, Submitting
<1>4. \A t \in Tasks : (Firing(t)' => Firing(t)) /\ (Armed(t)' => Armed(t))
  BY <1>1 DEF Firing, Armed, ArmedPc, UploadPc
<1>5. \A t \in Tasks : /\ pc[t] = "idle" => pc'[t] = "idle"
                       /\ pc[Old[t]] = "idle" => pc'[Old[t]] = "idle"
  BY <1>1, ThreadKinds
<1>6. QED
  BY <1>2, <1>3, <1>4, <1>5

LEMMA TokenQuiet ==
  ASSUME TypeOK, TypeOK', TokenInv, NEW x \in Threads, Quiet(x) PROVE TokenInv'
<1>1. \A y \in Threads : pc'[y] \notin {"edit", "move"}
  BY DEF Quiet, TokenInv
<1>2. UNCHANGED <<sent, due, taken, kept>> /\ \A u \in Tasks : jobs[u] = NoJob => jobs'[u] = NoJob
  BY DEF Quiet
<1>3. QED
  BY <1>1, <1>2, QuietTokens DEF TokenInv

\* The pass ends with the scheduler, or the threads with the daemon.
LEMMA TokenLost ==
  ASSUME TypeOK, TypeOK', TokenInv, UNCHANGED <<sent, jobs>>,
         \A x \in Threads : /\ pc'[x] \in {pc[x], "idle"}
                            /\ pc'[x] # "idle" \/ x \in Fires => subject'[x] = subject[x],
         due' = NoneDue, taken' = NoOne,
         kept' = kept \cup HandedOver
  PROVE  TokenInv'
<1>1. \A t \in Tasks \ kept' : Scheduled(t)' => Scheduled(t)
  BY DEF Scheduled, HandedOver, NoneDue
<1>2. \A t \in Tasks : (Firing(t)' => Firing(t)) /\ (Armed(t)' => Armed(t))
  BY ThreadKinds DEF Firing, Armed, ArmedPc, UploadPc
<1>3. \A h \in Web \cup Cli, t \in Tasks : Submitting(h, t)' => Submitting(h, t)
  BY ThreadKinds DEF Submitting, UploadPc
<1>4. /\ \A t \in Tasks : due'[t] = NoJob /\ taken' # t
      /\ \A t \in Tasks : t \in kept' => t \in kept \/ taken = t
  BY ThreadKinds DEF NoneDue, HandedOver
<1>5. QED
  BY <1>1, <1>2, <1>3, <1>4, ThreadKinds DEF TokenInv

(* Without edits, the token of a task is passed on and never copied.       *)
LEMMA TokenStep ==
  ASSUME "update" \notin Ops
  PROVE  TypeOK /\ TypeOK' /\ Fresh /\ TokenInv /\ [Next]_vars => TokenInv'
<1> SUFFICES ASSUME TypeOK, TypeOK', Fresh, TokenInv, [Next]_vars PROVE TokenInv'
  OBVIOUS
<1>1. ASSUME NEW h \in Web \cup Cli, NEW t \in Tasks, Submit(h, t) PROVE TokenInv'
  <2>1. /\ h \in Threads /\ h \notin Fires /\ state[t] = "unborn"
        /\ UNCHANGED <<jobs, due, taken, kept, sent>>
        /\ \E s \in {"upload", "schedule"} : pc' = [pc EXCEPT ![h] = s]
        /\ subject' = [subject EXCEPT ![h] = t]
    BY <1>1, ThreadKinds DEF Submit, Begin, Goto, pass, history, device
  <2>2. \A y \in Threads \ {h} : pc'[y] = pc[y] /\ subject'[y] = subject[y]
    BY <2>1 DEF TypeOK
  <2>3. pc'[h] \in {"upload", "schedule"} /\ subject'[h] = t
    BY <2>1 DEF TypeOK
  <2>4. \A u \in Tasks : /\ Firing(u)' <=> Firing(u)
                         /\ Armed(u)' <=> Armed(u)
                         /\ Scheduled(u)' <=> Scheduled(u)
    BY <2>1, <2>2, ThreadKinds DEF Firing, Armed, Scheduled
  <2>5. \A g \in Web \cup Cli, u \in Tasks : Submitting(g, u)' =>
          (g = h /\ u = t) \/ (g # h /\ u # t /\ Submitting(g, u))
    <3>1. \A g \in Web \cup Cli : g \in Threads
      BY ThreadKinds
    <3>2. \A g \in Web \cup Cli : subject[g] = t => pc[g] = "idle"
      BY <2>1, <3>1 DEF Fresh
    <3>3. QED
      BY <2>2, <2>3, <3>1, <3>2 DEF Submitting, UploadPc
  <2>6. jobs[t] = NoJob /\ due[t] = NoJob /\ taken # t /\ t \notin kept /\ sent[t] = 0 /\ ~Firing(t)
    BY <2>1, ThreadKinds DEF Fresh, Firing
  <2>7. \A u \in Tasks : pc'[u] = pc[u] /\ pc'[Old[u]] = pc[Old[u]]
    BY <2>1, <2>2, ThreadKinds
  <2>8. \A y \in Threads : pc'[y] \notin {"edit", "move"}
    BY <2>2, <2>3 DEF TokenInv
  <2>9. QED
    BY <2>1, <2>4, <2>5, <2>6, <2>7, <2>8 DEF TokenInv
<1>2. ASSUME NEW h \in Web \cup Cli, NEW t \in Tasks, Update(h, t) PROVE TokenInv'
  BY <1>2 DEF Update
<1>3. ASSUME NEW h \in Web \cup Cli,
             \/ RecordCancelled(h) \/ Unschedule(h) \/ PurgeJob(h) \/ PurgeRow(h)
             \/ \E t \in Tasks : Cancel(h, t) \/ Delete(h, t)
      PROVE  TokenInv'
  BY <1>3, QuietHandler, TokenQuiet, ThreadKinds
<1>4. ASSUME NEW x \in Threads, Uploading(x) PROVE TokenInv'
  BY <1>4, QuietUpload, TokenQuiet
<1>5. ASSUME NEW h \in Web \cup Cli, Schedule(h) PROVE TokenInv'
  <2> DEFINE t == subject[h]
  <2>1. /\ h \in Threads /\ h \notin Fires /\ t \in Tasks /\ Submitting(h, t)
        /\ UNCHANGED <<due, taken, kept, sent>>
        /\ jobs' = [jobs EXCEPT ![t] = when[h]]
        /\ pc' = [pc EXCEPT ![h] = "idle"] /\ subject' = [subject EXCEPT ![h] = Home(h)]
    BY <1>5, ThreadKinds DEF Schedule, End, Begin, Goto, pass, history, device, Submitting, TypeOK
  <2> HIDE DEF t
  <2>2. \A y \in Threads \ {h} : pc'[y] = pc[y] /\ subject'[y] = subject[y]
    BY <2>1 DEF TypeOK
  <2>3. pc'[h] = "idle"
    BY <2>1 DEF TypeOK
  <2>4. \A u \in Tasks : /\ Firing(u)' <=> Firing(u)
                         /\ Armed(u)' <=> Armed(u)
                         /\ u # t => (Scheduled(u)' <=> Scheduled(u)) /\ jobs'[u] = jobs[u]
    BY <2>1, <2>2, ThreadKinds DEF Firing, Armed, Scheduled, TypeOK
  <2>5. \A g \in Web \cup Cli, u \in Tasks : Submitting(g, u)' => u # t /\ Submitting(g, u)
    <3>1. \A g \in Web \cup Cli : g \in Threads
      BY ThreadKinds
    <3>2. \A g \in Web \cup Cli : Submitting(g, t) => g = h
      BY <2>1 DEF TokenInv
    <3>3. QED
      BY <2>2, <2>3, <3>1, <3>2 DEF Submitting, UploadPc
  <2>6. due[t] = NoJob /\ taken # t /\ t \notin kept /\ sent[t] = 0 /\ ~Firing(t)
    BY <2>1 DEF TokenInv
  <2>7. \A u \in Tasks : pc'[u] = pc[u] /\ pc'[Old[u]] = pc[Old[u]]
    BY <2>1, <2>2, ThreadKinds
  <2>8. \A y \in Threads : pc'[y] \notin {"edit", "move"}
    BY <2>2, <2>3 DEF TokenInv
  <2>9. QED
    BY <2>1, <2>4, <2>5, <2>6, <2>7, <2>8 DEF TokenInv
<1>6. ASSUME NEW h \in Web \cup Cli, Replace(h) PROVE TokenInv'
  BY <1>6, ThreadKinds DEF Replace, TokenInv
<1>7. ASSUME NEW x \in Threads, \/ x \in Fires /\ Fire(x) /\ ~FireSend(x) /\ ~Uploading(x)
                                \/ Interrupt(x)
      PROVE  TokenInv'
  BY <1>7, QuietFire, TokenQuiet
<1>8. ASSUME NEW x \in Fires, FireSend(x) PROVE TokenInv'
  <2>0. PICK t \in Tasks : t = subject[x]
    BY ThreadKinds DEF TypeOK
  <2>1. /\ x \in Threads /\ t \in Tasks /\ t = Home(x) /\ pc[x] = "send"
        /\ UNCHANGED <<jobs, due, taken, kept, subject>>
        /\ sent' = [sent EXCEPT ![t] = @ + 1] /\ pc' = [pc EXCEPT ![x] = "reply"]
    BY <1>8, <2>0, ThreadKinds DEF FireSend, Advance, Goto, pass, history, TypeOK
  <2>2. /\ \A y \in Threads \ {x} : pc'[y] = pc[y]
        /\ pc'[x] = "reply" /\ x \in {t, Old[t]}
        /\ \A u \in Tasks \ {t} : sent'[u] = sent[u]
        /\ sent[t] = 0 => sent'[t] = 1
    BY <2>0, <2>1, HomeType DEF TypeOK
  <2>3. Firing(t) /\ Armed(t)
    BY <2>0, <2>1 DEF Firing, Armed, ArmedPc
  <2>4. \A u \in Tasks : /\ Firing(u)' => Firing(u)
                         /\ Armed(u)' => Armed(u)
                         /\ pc[u] = "idle" => pc'[u] = "idle"
                         /\ pc[Old[u]] = "idle" => pc'[Old[u]] = "idle"
                         /\ Scheduled(u)' <=> Scheduled(u)
    BY <2>0, <2>1, <2>2, ThreadKinds DEF Firing, Armed, ArmedPc, UploadPc, Scheduled
  <2>5. t \notin kept => ~Armed(t)'
    <3>1. t \notin kept => \A y \in Fires \ {x} : subject[y] = t => pc[y] = "idle"
      BY <2>1, <2>2, ThreadKinds, HomeType, OldHome DEF TokenInv, TypeOK
    <3>2. t \notin kept => \A y \in Fires : subject'[y] = t => pc'[y] \in {"idle", "reply"}
      BY <2>1, <2>2, <3>1, ThreadKinds
    <3>3. QED
      BY <3>2 DEF Armed, ArmedPc, UploadPc
  <2>6. \A g \in Web \cup Cli, u \in Tasks : Submitting(g, u)' => Submitting(g, u)
    BY <2>1, <2>2, ThreadKinds DEF Submitting
  <2>7. \A g \in Web \cup Cli : ~Submitting(g, t)
    BY <2>1, <2>3 DEF TokenInv
  <2>8. \A y \in Threads : pc'[y] \notin {"edit", "move"}
    BY <2>2 DEF TokenInv
  <2>9. t \notin kept => sent[t] = 0 /\ ~Scheduled(t)
    BY <2>1, <2>3 DEF TokenInv
  <2>10. \A u \in Tasks \ kept' :
           /\ sent'[u] <= 1
           /\ Scheduled(u)' => ~Firing(u)' /\ sent'[u] = 0
           /\ Armed(u)' => sent'[u] = 0
           /\ pc'[u] = "idle" \/ pc'[Old[u]] = "idle"
           /\ due'[u] # NoJob => taken' # u
    <3>1. TAKE u \in Tasks \ kept'
    <3>2. CASE u = t
      BY <2>1, <2>2, <2>4, <2>5, <2>9, <3>2 DEF TokenInv
    <3>3. CASE u # t
      BY <2>1, <2>2, <2>4, <3>3 DEF TokenInv
    <3>4. QED
      BY <3>2, <3>3
  <2>11. \A g \in Web \cup Cli, u \in Tasks : Submitting(g, u)' =>
           /\ jobs'[u] = NoJob /\ due'[u] = NoJob /\ taken' # u /\ ~Firing(u)'
           /\ u \notin kept' /\ sent'[u] = 0
           /\ \A f \in Web \cup Cli : Submitting(f, u)' => f = g
    BY <2>1, <2>2, <2>4, <2>6, <2>7 DEF TokenInv
  <2>12. QED
    BY <2>8, <2>10, <2>11 DEF TokenInv
<1>9. CASE ReadDue
  <2>1. /\ taken = NoOne /\ UNCHANGED <<jobs, taken, kept, sent, pc, subject>>
        /\ \A u \in Tasks : due'[u] # NoJob => jobs[u] # NoJob
    BY <1>9, ThreadKinds DEF ReadDue, Passing, threads, history, device
  <2>2. \A u \in Tasks : /\ Firing(u)' <=> Firing(u)
                         /\ Armed(u)' <=> Armed(u)
                         /\ Scheduled(u)' => Scheduled(u)
    BY <2>1, ThreadKinds DEF Firing, Armed, Scheduled
  <2>3. \A g \in Web \cup Cli, u \in Tasks : Submitting(g, u)' <=> Submitting(g, u)
    BY <2>1 DEF Submitting
  <2>4. \A u \in Tasks : taken' # u
    BY <2>1, ThreadKinds
  <2>5. QED
    BY <2>1, <2>2, <2>3, <2>4 DEF TokenInv
<1>10. ASSUME NEW t \in Tasks, HandOver(t) PROVE TokenInv'
  <2>1. /\ due[t] # NoJob /\ taken = NoOne /\ UNCHANGED <<jobs, kept, sent>>
        /\ due' = [due EXCEPT ![t] = NoJob] /\ taken' = t /\ due'[t] = NoJob
        /\ \A y \in Threads \ {t} : pc'[y] = pc[y]
        /\ \A y \in Threads : subject'[y] = subject[y]
        /\ pc'[t] = IF pc[t] = "idle" THEN "handed" ELSE pc[t]
    <3>1. t \in Threads /\ subject[t] = t
      BY ThreadKinds, HomeType DEF TypeOK
    <3>2. QED
      BY <1>10, <3>1 DEF HandOver, Begin, Goto, threads, history, device, TypeOK
  <2>2. Scheduled(t)
    BY <2>1 DEF Scheduled
  <2>3. t \notin kept => ~Firing(t) /\ sent[t] = 0
    BY <2>2 DEF TokenInv
  <2>4. \A u \in Tasks \ {t} : /\ Firing(u)' => Firing(u)
                               /\ Armed(u)' => Armed(u)
                               /\ Scheduled(u)' => Scheduled(u)
                               /\ due'[u] = due[u]
                               /\ pc'[u] = pc[u] /\ pc'[Old[u]] = pc[Old[u]]
    <3>1. subject[t] = t
      BY ThreadKinds, HomeType DEF TypeOK
    <3>2. \A u \in Tasks \ {t} : due'[u] = due[u] /\ taken # u
      BY <2>1, ThreadKinds DEF TypeOK
    <3>3. QED
      BY <2>1, <3>1, <3>2, ThreadKinds DEF Firing, Armed, Scheduled
  <2>5. ~Scheduled(t)'
    BY <2>1 DEF Scheduled
  <2>6. t \notin kept => pc'[Old[t]] = "idle"
    <3>1. subject[Old[t]] = t /\ Old[t] \in Fires /\ Old[t] \in Threads /\ Old[t] # t
      BY ThreadKinds, OldHome DEF TypeOK
    <3>2. QED
      BY <2>1, <2>3, <3>1 DEF Firing
  <2>7. \A g \in Web \cup Cli, u \in Tasks : Submitting(g, u)' => Submitting(g, u) /\ u # t
    <3>1. \A g \in Web \cup Cli, u \in Tasks : Submitting(g, u)' => Submitting(g, u)
      BY <2>1, ThreadKinds DEF Submitting
    <3>2. QED
      BY <2>1, <3>1 DEF TokenInv
  <2>8. \A y \in Threads : pc'[y] \notin {"edit", "move"}
    BY <2>1 DEF TokenInv
  <2>9. \A u \in Tasks \ {t} : taken' # u
    BY <2>1
  <2>10. QED
    BY <2>1, <2>3, <2>4, <2>5, <2>6, <2>7, <2>8, <2>9 DEF TokenInv
<1>11. ASSUME NEW t \in Tasks, Remove(t) PROVE TokenInv'
  <2>1. /\ taken = t /\ taken' = NoOne /\ UNCHANGED <<due, kept, sent, pc, subject>>
        /\ jobs' = [jobs EXCEPT ![t] = NoJob]
    BY <1>11 DEF Remove, threads, history, device
  <2>2. \A u \in Tasks : /\ Firing(u)' <=> Firing(u)
                         /\ Armed(u)' <=> Armed(u)
                         /\ Scheduled(u)' => Scheduled(u)
                         /\ jobs[u] = NoJob => jobs'[u] = NoJob
    BY <2>1, ThreadKinds DEF Firing, Armed, Scheduled, TypeOK
  <2>3. \A g \in Web \cup Cli, u \in Tasks : Submitting(g, u)' <=> Submitting(g, u)
    BY <2>1 DEF Submitting
  <2>4. \A u \in Tasks : taken' # u
    BY <2>1, ThreadKinds
  <2>5. QED
    BY <2>1, <2>2, <2>3, <2>4 DEF TokenInv
<1>12. ASSUME NEW t \in Tasks, RemoveRaises(t) PROVE TokenInv'
  <2>1. /\ UNCHANGED <<sent, jobs, pc, subject>> /\ due' = NoneDue /\ taken' = NoOne
        /\ kept' = kept \cup HandedOver
    BY <1>12 DEF RemoveRaises, EndOfPass, threads, device
  <2>2. QED
    BY <2>1, TokenLost
<1>13. CASE Crash
  <2>1. /\ UNCHANGED <<sent, jobs>> /\ due' = NoneDue /\ taken' = NoOne
        /\ kept' = kept \cup HandedOver
        /\ \A x \in Threads : pc'[x] \in {pc[x], "idle"}
        /\ \A x \in Threads : pc'[x] # "idle" \/ x \in Fires => subject'[x] = subject[x]
    BY <1>13, ThreadKinds DEF Crash, EndOfPass, Apart, TypeOK
  <2>2. QED
    BY <2>1, TokenLost
<1>14. CASE Stop
  <2>1. /\ UNCHANGED <<sent, jobs, subject>> /\ due' = NoneDue /\ taken' = NoOne
        /\ kept' = kept \cup HandedOver
    BY <1>14 DEF Stop, EndOfPass
  <2>2. \A t \in Tasks : pc'[t] = "idle" /\ pc'[Old[t]] = pc[t] /\ pc[Old[t]] = "idle"
    BY <1>14, ThreadKinds, OldHome DEF Stop
  <2>3. \A h \in Web \cup Cli : pc'[h] = pc[h]
    BY <1>14, ThreadKinds DEF Stop
  <2>4. \A t \in Tasks : (Firing(t)' => Firing(t)) /\ (Armed(t)' => Armed(t))
    <3>1. \A x \in Fires : pc'[x] # "idle" =>
            \E y \in Fires : subject[y] = subject[x] /\ pc[y] = pc'[x]
      <4>1. TAKE x \in Fires
      <4>2. CASE x \in Tasks
        BY <2>2, <4>2
      <4>3. ASSUME NEW u \in Tasks, x = Old[u]
            PROVE  u \in Fires /\ subject[u] = subject[x] /\ pc[u] = pc'[x]
        BY <2>2, <4>3, ThreadKinds, OldHome DEF TypeOK
      <4>4. QED
        BY <4>2, <4>3, ThreadKinds
    <3>2. QED
      BY <2>1, <3>1 DEF Firing, Armed, ArmedPc, UploadPc
  <2>5. \A t \in Tasks \ kept' : Scheduled(t)' => Scheduled(t)
    BY <2>1 DEF Scheduled, HandedOver, NoneDue
  <2>6. \A g \in Web \cup Cli, u \in Tasks : Submitting(g, u)' <=> Submitting(g, u)
    BY <2>1, <2>3 DEF Submitting
  <2>7. /\ \A t \in Tasks : due'[t] = NoJob /\ taken' # t
        /\ \A t \in Tasks : t \in kept' => t \in kept \/ taken = t
    BY <2>1, ThreadKinds DEF NoneDue, HandedOver
  <2>8. \A y \in Threads : pc'[y] \notin {"edit", "move"}
    BY <1>14, ThreadKinds, HomeType DEF Stop, TokenInv
  <2>9. QED
    BY <2>1, <2>2, <2>4, <2>5, <2>6, <2>7, <2>8 DEF TokenInv
<1>15. CASE Tick \/ PrinterMoves \/ Report \/ Restart \/ UNCHANGED vars
  <2>1. UNCHANGED <<sent, jobs, due, taken, kept, pc, subject>>
    BY <1>15 DEF Tick, PrinterMoves, Report, Restart, vars, threads, device, pass, history
  <2>2. QED
    BY <2>1 DEF TokenInv, Firing, Armed, Submitting, Scheduled
<1>16. QED
  BY <1>1, <1>2, <1>3, <1>4, <1>5, <1>6, <1>7, <1>8, <1>9, <1>10, <1>11, <1>12, <1>13, <1>14,
     <1>15, ThreadKinds
  DEF Next, Handler, Working, Fire, ProcessJobs

\* Nobody uploads a task beside the thread that is at it.
LEMMA UploadAlone ==
  ASSUME TypeOK, Fresh, TokenInv, NEW x \in Threads, pc[x] \in UploadPc, subject[x] \notin kept
  PROVE  \A y \in Threads :
           subject[y] = subject[x] /\ (pc[y] \in UploadPc \/ (y \in Fires /\ pc[y] # "idle")) => y = x
<1>1. ASSUME NEW y \in Threads, subject[y] = subject[x],
             pc[y] \in UploadPc \/ (y \in Fires /\ pc[y] # "idle")
      PROVE  y = x
  <2>1. CASE x \in Fires /\ y \in Fires
    <3>1. subject[x] \in Tasks /\ x \in {subject[x], Old[subject[x]]} /\ y \in {subject[x], Old[subject[x]]}
      BY <1>1, <2>1, HomeType DEF TypeOK
    <3>2. pc[x] # "idle" /\ pc[y] # "idle"
      BY <1>1 DEF UploadPc
    <3>3. pc[subject[x]] = "idle" \/ pc[Old[subject[x]]] = "idle"
      BY <3>1 DEF TokenInv
    <3>4. QED
      BY <3>1, <3>2, <3>3
  <2>2. CASE x \notin Fires
    <3>1. x \in Web \cup Cli /\ subject[x] \in Tasks /\ Submitting(x, subject[x])
      BY <2>2 DEF Threads, TypeOK, Submitting
    <3>2. y \notin Fires \/ pc[y] = "idle"
      BY <1>1, <3>1 DEF TokenInv, Firing
    <3>3. y \in Web \cup Cli => Submitting(y, subject[x])
      BY <1>1, <3>2 DEF Submitting, UploadPc, Threads
    <3>4. QED
      BY <1>1, <3>1, <3>2, <3>3 DEF TokenInv, Threads, UploadPc
  <2>3. CASE y \notin Fires
    <3>1. y \in Web \cup Cli /\ subject[x] \in Tasks /\ Submitting(y, subject[x])
      BY <1>1, <2>3 DEF Threads, TypeOK, Submitting
    <3>2. x \notin Fires
      BY <3>1 DEF TokenInv, Firing, UploadPc
    <3>3. QED
      BY <2>2, <3>2
  <2>4. QED
    BY <2>1, <2>2, <2>3
<1>2. QED
  BY <1>1

\* Tasks that have names of their own do not overwrite each other's files.
OwnNames == \A t, u \in Tasks : RemoteName[t] = RemoteName[u] => t = u

\* What the steps of a thread change of its own variables, and of others'.
LEMMA BeginSets ==
  ASSUME TypeOK, NEW x \in Threads, NEW label, NEW t, NEW s, NEW w, Begin(x, label, t, s, w)
  PROVE  /\ pc'[x] = label /\ subject'[x] = t /\ copy'[x] = s /\ when'[x] = w
         /\ \A y \in Threads \ {x} : /\ pc'[y] = pc[y] /\ subject'[y] = subject[y]
                                     /\ copy'[y] = copy[y] /\ when'[y] = when[y]
  BY DEF TypeOK, Begin, Goto

LEMMA EndSets ==
  ASSUME TypeOK, NEW x \in Threads, End(x)
  PROVE  /\ pc'[x] = "idle" /\ subject'[x] = Home(x) /\ copy'[x] = "unborn" /\ when'[x] = 0
         /\ \A y \in Threads \ {x} : /\ pc'[y] = pc[y] /\ subject'[y] = subject[y]
                                     /\ copy'[y] = copy[y] /\ when'[y] = when[y]
  BY BeginSets DEF End

LEMMA AdvanceSets ==
  ASSUME TypeOK, NEW x \in Threads, NEW label, Advance(x, label)
  PROVE  /\ pc'[x] = label /\ UNCHANGED <<subject, copy, when, pass, history>>
         /\ \A y \in Threads \ {x} : /\ pc'[y] = pc[y] /\ subject'[y] = subject[y]
                                     /\ copy'[y] = copy[y] /\ when'[y] = when[y]
  BY DEF TypeOK, Advance, Goto

\* FileInv, one row and one thread at a time.
FileOfRow(t) == t \notin unsized \cup kept /\ state[t] = "uploaded" => WholeFile(t)
FileOf(x) ==
  subject[x] \notin kept =>
    /\ pc[x] \in {"upload", "store"} => state[subject[x]] # "uploaded"
    /\ pc[x] = "uploaded" /\ subject[x] \notin unsized => WholeFile(subject[x])
    /\ x \in Fires =>
         /\ copy[x] = "uploaded" /\ subject[x] \notin unsized => WholeFile(subject[x])
         /\ pc[x] \in UploadPc => copy[x] # "uploaded"
         /\ pc[x] \in {"session", "check"} /\ copy[x] # "uploaded"
              => state[subject[x]] # "uploaded"
         /\ pc[x] \in {"send", "reply", "started"} /\ subject[x] \notin unsized
              => WholeFile(subject[x])

LEMMA FileParts ==
  TypeOK => (FileInv <=> (\A t \in Tasks : FileOfRow(t)) /\ (\A x \in Threads : FileOf(x)))
<1> SUFFICES ASSUME TypeOK
             PROVE  FileInv <=> (\A t \in Tasks : FileOfRow(t)) /\ (\A x \in Threads : FileOf(x))
  OBVIOUS
<1>1. \A x \in Threads : subject[x] \in Tasks
  BY DEF TypeOK
<1>2. ASSUME FileInv, NEW t \in Tasks PROVE FileOfRow(t)
  BY <1>2 DEF FileInv, UploadedFileWhole, FileOfRow
<1>3. ASSUME FileInv, NEW x \in Threads PROVE FileOf(x)
  <2>1. x \in Fires /\ pc[x] \in {"send", "reply", "started"} => Sending(subject[x])
    BY DEF Sending
  <2>2. QED
    BY <1>1, <1>3, <2>1 DEF FileInv, UploadedFileWhole, FileOf
<1>4. ASSUME \A t \in Tasks : FileOfRow(t), \A x \in Threads : FileOf(x) PROVE FileInv
  <2>1. ASSUME NEW t \in Tasks \ (unsized \cup kept), Sending(t) PROVE WholeFile(t)
    BY <1>4, <2>1, ThreadKinds DEF Sending, FileOf
  <2>2. UploadedFileWhole
    BY <1>4, <2>1 DEF UploadedFileWhole, FileOfRow
  <2>3. QED
    BY <1>4, <2>2, ThreadKinds DEF FileInv, FileOf
<1>5. QED
  BY <1>2, <1>3, <1>4

LEMMA FilePartsNext ==
  TypeOK' => (FileInv' <=> (\A t \in Tasks : FileOfRow(t)') /\ (\A x \in Threads : FileOf(x)'))
<1>1. (TypeOK => (FileInv <=> (\A t \in Tasks : FileOfRow(t)) /\ (\A x \in Threads : FileOf(x))))'
  BY FileParts, PTL
<1>2. QED
  BY <1>1

\* A step of thread x that uploads nothing, and calls no row uploaded.
Hands(x) ==
  /\ \A y \in Threads \ {x} : pc'[y] = pc[y] /\ subject'[y] = subject[y] /\ copy'[y] = copy[y]
  /\ UNCHANGED <<storage, unsized, kept>>
  /\ \A u \in Tasks : state'[u] = "uploaded" => state[u] = "uploaded"

LEMMA FileFrame ==
  ASSUME TypeOK, TypeOK', FileInv, NEW x \in Threads, Hands(x), FileOf(x)' PROVE FileInv'
<1>1. \A t \in Tasks : FileOfRow(t)'
  BY FileParts DEF Hands, FileOfRow, WholeFile
<1>2. ASSUME NEW y \in Threads \ {x} PROVE FileOf(y)'
  <2>1. FileOf(y) /\ subject[y] \in Tasks
    BY FileParts DEF TypeOK
  <2>2. QED
    BY <2>1 DEF Hands, FileOf, WholeFile
<1>3. QED
  BY <1>1, <1>2, FilePartsNext

\* A handler that does not upload, and a fire that is not yet at it.
LEMMA FileIdle ==
  ASSUME TypeOK, TypeOK', FileInv, NEW x \in Threads, Hands(x),
         IF x \in Fires THEN pc'[x] \in {"idle", "handed", "fire"} /\ copy'[x] # "uploaded"
                        ELSE pc'[x] \notin {"upload", "store", "uploaded"}
  PROVE  FileInv'
<1>1. FileOf(x)'
  BY DEF FileOf, UploadPc
<1>2. QED
  BY <1>1, FileFrame

\* A thread that ends.
LEMMA FileEnd ==
  ASSUME TypeOK, TypeOK', FileInv, NEW x \in Threads, End(x), UNCHANGED <<storage, unsized, kept>>,
         \A u \in Tasks : state'[u] = "uploaded" => state[u] = "uploaded"
  PROVE  FileInv'
<1>1. Hands(x) /\ pc'[x] = "idle" /\ copy'[x] = "unborn"
  BY EndSets DEF Hands
<1>2. QED
  BY <1>1, FileIdle

\* Nobody moves; a fire may have come loose from its job.
LEMMA FileStill ==
  ASSUME TypeOK, TypeOK', FileInv, UNCHANGED <<state, pc, subject, copy, storage, unsized>>,
         kept \subseteq kept'
  PROVE  FileInv'
<1>1. /\ \A t \in Tasks : FileOfRow(t)'
      /\ \A x \in Threads : FileOf(x)'
  BY FileParts DEF FileOfRow, FileOf, WholeFile
<1>2. QED
  BY <1>1, FilePartsNext

\* The daemon dies or is stopped: its threads end, or go on as late fires.
LEMMA FileDown ==
  ASSUME TypeOK, TypeOK', FileInv, UNCHANGED <<state, storage, unsized>>, kept \subseteq kept',
         \A x \in Threads :
           \/ pc'[x] = "idle" /\ copy'[x] = "unborn"
           \/ \E y \in Threads : /\ pc'[x] = pc[y] /\ subject'[x] = subject[y]
                                 /\ copy'[x] = copy[y] /\ (x \in Fires <=> y \in Fires)
  PROVE  FileInv'
<1>1. \A t \in Tasks : FileOfRow(t)'
  BY FileParts DEF FileOfRow, WholeFile
<1>2. ASSUME NEW x \in Threads PROVE FileOf(x)'
  <2>1. CASE pc'[x] = "idle" /\ copy'[x] = "unborn"
    BY <2>1 DEF FileOf, UploadPc
  <2>2. ASSUME NEW y \in Threads, pc'[x] = pc[y], subject'[x] = subject[y],
               copy'[x] = copy[y], x \in Fires <=> y \in Fires
        PROVE  FileOf(x)'
    <3>1. FileOf(y)
      BY FileParts
    <3>2. QED
      BY <2>2, <3>1 DEF FileOf, WholeFile
  <2>3. QED
    BY <2>1, <2>2
<1>3. QED
  BY <1>1, <1>2, FilePartsNext

(* One step of an upload: only the file and the row of its own task, which *)
(* nobody else is at.                                                      *)
LEMMA FileUpload ==
  ASSUME OwnNames, TypeOK, TypeOK', Fresh, TokenInv, FileInv, NEW x \in Threads,
         pc[x] \in UploadPc, \A y \in Threads \ {x} : pc'[y] = pc[y],
         UNCHANGED <<subject, copy, kept>>,
         \A u \in Tasks \ {subject[x]} : /\ state'[u] = state[u]
                                         /\ u \in unsized' <=> u \in unsized
                                         /\ WholeFile(u) => WholeFile(u)',
         subject[x] \notin kept => FileOf(x)' /\ FileOfRow(subject[x])'
  PROVE  FileInv'
<1>0. PICK t \in Tasks : t = subject[x]
  BY DEF TypeOK
<1>1. ASSUME NEW u \in Tasks PROVE FileOfRow(u)'
  <2>1. CASE u = t /\ t \notin kept
    <3>1. FileOfRow(subject[x])'
      BY <1>0, <2>1
    <3>2. QED
      BY <1>0, <2>1, <3>1 DEF FileOfRow, WholeFile
  <2>2. CASE u = t /\ t \in kept
    BY <2>2 DEF FileOfRow
  <2>3. CASE u # t
    <3>1. FileOfRow(u)
      BY FileParts
    <3>2. QED
      BY <1>0, <2>3, <3>1 DEF FileOfRow
  <2>4. QED
    BY <2>1, <2>2, <2>3
<1>2. ASSUME NEW y \in Threads PROVE FileOf(y)'
  <2>1. CASE subject[y] \in kept
    BY <2>1 DEF FileOf
  <2>2. CASE y = x /\ subject[y] \notin kept
    BY <2>2
  <2>3. CASE y # x /\ subject[y] = t /\ t \notin kept
    <3>1. pc[y] \notin UploadPc /\ (y \in Fires => pc[y] = "idle")
      BY <1>0, <2>3, UploadAlone
    <3>2. pc'[y] = pc[y] /\ copy'[y] = copy[y] /\ (pc[y] = "idle" => copy[y] = "unborn")
      BY <2>3 DEF Fresh
    <3>3. QED
      BY <3>1, <3>2 DEF FileOf, UploadPc
  <2>4. CASE y # x /\ subject[y] # t
    <3>1. PICK u \in Tasks : u = subject[y]
      BY DEF TypeOK
    <3>2. /\ FileOf(y) /\ pc'[y] = pc[y] /\ state'[u] = state[u] /\ (WholeFile(u) => WholeFile(u)')
          /\ u \in unsized' <=> u \in unsized
      BY <1>0, <2>4, <3>1, FileParts
    <3>3. QED
      BY <3>1, <3>2 DEF FileOf, WholeFile
  <2>5. QED
    BY <1>0, <2>1, <2>2, <2>3, <2>4
<1>3. QED
  BY <1>1, <1>2, FilePartsNext

(* Without edits and with names of their own, files stay whole.           *)
LEMMA FileStep ==
  ASSUME "update" \notin Ops, OwnNames
  PROVE  TypeOK /\ TypeOK' /\ Fresh /\ TokenInv /\ FileInv /\ [Next]_vars => FileInv'
<1> SUFFICES ASSUME TypeOK, TypeOK', Fresh, TokenInv, FileInv, [Next]_vars PROVE FileInv'
  OBVIOUS
<1> USE ThreadKinds
<1>0. \A x \in Threads : FileOf(x) /\ subject[x] \in Tasks
  BY FileParts DEF TypeOK
<1>1. ASSUME NEW h \in Web \cup Cli, NEW t \in Tasks, Submit(h, t) PROVE FileInv'
  <2>1. PICK w \in Times, label \in {"upload", "schedule"} : Begin(h, label, t, "pending", w)
    BY <1>1 DEF Submit
  <2>2. /\ state' = [state EXCEPT ![t] = "pending"]
        /\ UNCHANGED <<storage, unsized, kept>>
    BY <1>1 DEF Submit, device, history
  <2>3. Hands(h) /\ pc'[h] \in {"upload", "schedule"} /\ subject'[h] = t /\ state'[t] = "pending"
    BY <2>1, <2>2, BeginSets DEF Hands, TypeOK
  <2>4. FileOf(h)'
    BY <2>3 DEF FileOf
  <2>5. QED
    BY <2>3, <2>4, FileFrame
<1>2. ASSUME NEW h \in Web \cup Cli, NEW t \in Tasks, Update(h, t) PROVE FileInv'
  BY <1>2 DEF Update
<1>3. ASSUME NEW h \in Web \cup Cli, NEW t \in Tasks, Cancel(h, t) \/ Delete(h, t) PROVE FileInv'
  <2>1. PICK label \in {"cancel", "purgejob"} : Begin(h, label, t, "unborn", 0)
    BY <1>3 DEF Cancel, Delete
  <2>2. UNCHANGED <<state, storage, unsized, kept>>
    BY <1>3 DEF Cancel, Delete, rows, device, history
  <2>3. Hands(h) /\ pc'[h] \in {"cancel", "purgejob"}
    BY <2>1, <2>2, BeginSets DEF Hands
  <2>4. QED
    BY <2>3, FileIdle
<1>4. ASSUME NEW h \in Web \cup Cli, Schedule(h) \/ Unschedule(h) \/ PurgeRow(h) PROVE FileInv'
  <2>1. End(h) /\ UNCHANGED <<storage, unsized, kept>>
    BY <1>4 DEF Schedule, Unschedule, PurgeRow, device, history
  <2>2. \A u \in Tasks : state'[u] = "uploaded" => state[u] = "uploaded"
    BY <1>4 DEF Schedule, Unschedule, PurgeRow, rows, TypeOK
  <2>3. QED
    BY <2>1, <2>2, FileEnd
<1>5. ASSUME NEW h \in Web \cup Cli, RecordCancelled(h) \/ PurgeJob(h) PROVE FileInv'
  <2>1. PICK label \in {"unschedule", "purgerow"} : Advance(h, label)
    BY <1>5 DEF RecordCancelled, PurgeJob
  <2>2. UNCHANGED storage /\ \A u \in Tasks : state'[u] = "uploaded" => state[u] = "uploaded"
    BY <1>5 DEF RecordCancelled, PurgeJob, SetState, rows, device, TypeOK
  <2>3. Hands(h) /\ pc'[h] \in {"unschedule", "purgerow"}
    BY <2>1, <2>2, AdvanceSets DEF Hands, history
  <2>4. QED
    BY <2>3, FileIdle
<1>6. ASSUME NEW h \in Web \cup Cli, Replace(h) PROVE FileInv'
  BY <1>6 DEF Replace, TokenInv
<1>7. ASSUME NEW x \in Threads, UploadBegin(x) PROVE FileInv'
  <2>1. /\ pc[x] = "upload" /\ pc'[x] = "store" /\ UNCHANGED <<state, subject, copy, kept, unsized>>
        /\ \A y \in Threads \ {x} : pc'[y] = pc[y]
        /\ storage' = [storage EXCEPT ![RemoteName[subject[x]]] = NoFile]
    BY <1>7, AdvanceSets DEF UploadBegin, rows, history
  <2>2. \A u \in Tasks \ {subject[x]} : WholeFile(u) => WholeFile(u)'
    BY <1>0, <2>1, TaskAssumption DEF WholeFile, OwnNames, TypeOK
  <2>3. subject[x] \notin kept => FileOf(x)' /\ FileOfRow(subject[x])'
    <3>1. subject[x] \notin kept => state[subject[x]] # "uploaded" /\ (x \in Fires => copy[x] # "uploaded")
      BY <1>0, <2>1 DEF FileOf, UploadPc
    <3>2. QED
      BY <2>1, <3>1 DEF FileOf, FileOfRow
  <2>4. QED
    BY <2>1, <2>2, <2>3, FileUpload DEF UploadPc
<1>8. ASSUME NEW x \in Threads, UploadEnd(x) PROVE FileInv'
  <2>1. /\ pc[x] = "store" /\ pc'[x] = "uploaded" /\ UNCHANGED <<state, subject, copy, kept>>
        /\ \A y \in Threads \ {x} : pc'[y] = pc[y]
    BY <1>8 DEF UploadEnd, rows, Advance, Goto, TypeOK
  <2>2. PICK whole \in BOOLEAN, told \in BOOLEAN :
          /\ told => whole
          /\ storage' = [storage EXCEPT ![RemoteName[subject[x]]] = IF whole THEN subject[x] ELSE @]
          /\ unsized' = IF told THEN unsized \ {subject[x]} ELSE unsized \cup {subject[x]}
    BY <1>8 DEF UploadEnd
  <2>3. \A u \in Tasks \ {subject[x]} : (WholeFile(u) => WholeFile(u)') /\ (u \in unsized' <=> u \in unsized)
    BY <1>0, <2>2, TaskAssumption DEF WholeFile, OwnNames, TypeOK
  <2>4. subject[x] \notin unsized' => WholeFile(subject[x])'
    BY <1>0, <2>1, <2>2, TaskAssumption DEF WholeFile, TypeOK
  <2>5. subject[x] \notin kept => FileOf(x)' /\ FileOfRow(subject[x])'
    <3>1. subject[x] \notin kept => state[subject[x]] # "uploaded" /\ (x \in Fires => copy[x] # "uploaded")
      BY <1>0, <2>1 DEF FileOf, UploadPc
    <3>2. QED
      BY <2>1, <2>4, <3>1 DEF FileOf, FileOfRow
  <2>6. QED
    BY <2>1, <2>3, <2>5, FileUpload DEF UploadPc
<1>9. ASSUME NEW x \in Threads, RecordUploaded(x) PROVE FileInv'
  <2>1. /\ pc[x] = "uploaded" /\ pc'[x] \in {"send", "schedule"}
        /\ UNCHANGED <<subject, copy, kept, unsized, storage>>
        /\ \A y \in Threads \ {x} : pc'[y] = pc[y]
    BY <1>9, AdvanceSets DEF RecordUploaded, device, history
  <2>2. \A u \in Tasks \ {subject[x]} : state'[u] = state[u]
    BY <1>9 DEF RecordUploaded, SetState, TypeOK
  <2>3. \A u \in Tasks : WholeFile(u)' <=> WholeFile(u)
    BY <2>1 DEF WholeFile
  <2>4. subject[x] \notin kept => FileOf(x)' /\ FileOfRow(subject[x])'
    <3>1. subject[x] \notin kept =>
            /\ subject[x] \notin unsized => WholeFile(subject[x])
            /\ x \in Fires => copy[x] # "uploaded"
      BY <1>0, <2>1 DEF FileOf, UploadPc
    <3>2. QED
      BY <2>1, <3>1 DEF FileOf, FileOfRow, WholeFile, UploadPc
  <2>5. QED
    BY <2>1, <2>2, <2>3, <2>4, FileUpload DEF UploadPc
<1>10. ASSUME NEW x \in Threads, UploadFail(x) PROVE FileInv'
  <2>1. /\ pc[x] \in {"upload", "store"} /\ pc'[x] = "unsent" /\ Hands(x)
        /\ UNCHANGED <<state, subject, copy>>
    BY <1>10, AdvanceSets DEF UploadFail, rows, device, history, Hands
  <2>2. FileOf(x)'
    BY <1>0, <2>1 DEF FileOf, Hands, WholeFile, UploadPc
  <2>3. QED
    BY <2>1, <2>2, FileFrame
<1>11. ASSUME NEW x \in Threads, RecordUnsent(x) PROVE FileInv'
  <2>1. /\ UNCHANGED storage
        /\ \A u \in Tasks : state'[u] = "uploaded" => state[u] = "uploaded"
    BY <1>11 DEF RecordUnsent, SetState, device, TypeOK
  <2>2. CASE IsFire(x)
    <3>1. pc[x] = "unsent" /\ pc'[x] = "failed" /\ Hands(x) /\ UNCHANGED <<subject, copy>>
      BY <1>11, <2>1, <2>2, AdvanceSets DEF RecordUnsent, history, Hands
    <3>2. FileOf(x)'
      BY <1>0, <3>1 DEF FileOf, Hands, WholeFile, UploadPc
    <3>3. QED
      BY <3>1, <3>2, FileFrame
  <2>3. CASE ~IsFire(x)
    <3>1. End(x) /\ UNCHANGED <<unsized, kept>>
      BY <1>11, <2>3 DEF RecordUnsent, history, IsFire
    <3>2. QED
      BY <2>1, <3>1, FileEnd
  <2>4. QED
    BY <2>2, <2>3
<1>12. ASSUME NEW x \in Cli \cup Late, Interrupt(x) PROVE FileInv'
  <2>1. x \in Threads /\ End(x) /\ UNCHANGED <<state, storage, unsized, kept>>
    BY <1>12 DEF Interrupt, rows, device, history
  <2>2. QED
    BY <2>1, FileEnd
<1>13. ASSUME NEW t \in Tasks, HandOver(t) PROVE FileInv'
  <2>1. t \in Threads /\ UNCHANGED <<state, storage, unsized, kept>>
    BY <1>13 DEF HandOver, rows, device, history
  <2>2. CASE pc[t] = "idle"
    <3>1. Begin(t, "handed", t, "unborn", due[t])
      BY <1>13, <2>2 DEF HandOver
    <3>2. Hands(t) /\ pc'[t] = "handed" /\ copy'[t] = "unborn"
      BY <2>1, <3>1, BeginSets DEF Hands
    <3>3. QED
      BY <2>1, <3>2, FileIdle
  <2>3. CASE pc[t] # "idle"
    BY <1>13, <2>1, <2>3, FileStill DEF HandOver, threads
  <2>4. QED
    BY <2>2, <2>3
<1>14. ASSUME NEW x \in Fires, RunJob(x) PROVE FileInv'
  <2>1. x \in Threads /\ UNCHANGED <<state, storage, unsized, kept>>
    BY <1>14 DEF RunJob, rows, device, history
  <2>2. CASE now - when[x] <= Grace
    <3>1. Begin(x, "fire", subject[x], "unborn", 0)
      BY <1>14, <2>2 DEF RunJob
    <3>2. Hands(x) /\ pc'[x] = "fire" /\ copy'[x] = "unborn"
      BY <2>1, <3>1, BeginSets DEF Hands
    <3>3. QED
      BY <2>1, <3>2, FileIdle
  <2>3. CASE ~(now - when[x] <= Grace)
    BY <1>14, <2>1, <2>3, FileEnd DEF RunJob
  <2>4. QED
    BY <2>2, <2>3
<1>15. ASSUME NEW x \in Fires, FireRead(x) PROVE FileInv'
  <2>1. x \in Threads /\ UNCHANGED <<state, storage, unsized, kept>>
    BY <1>15 DEF FireRead, rows, device, history
  <2>2. CASE HasRow(subject[x]) /\ state[subject[x]] \notin {"cancelled", "started"}
    <3>1. Begin(x, "session", subject[x], state[subject[x]], 0)
      BY <1>15, <2>2 DEF FireRead
    <3>2. Hands(x) /\ pc'[x] = "session" /\ copy'[x] = state[subject[x]] /\ subject'[x] = subject[x]
      BY <2>1, <3>1, BeginSets DEF Hands
    <3>3. FileOf(x)'
      <4>1. FileOfRow(subject[x])
        BY <1>0, <2>1, FileParts
      <4>2. QED
        BY <2>1, <3>2, <4>1 DEF FileOf, FileOfRow, WholeFile, UploadPc
    <3>4. QED
      BY <2>1, <3>2, <3>3, FileFrame
  <2>3. CASE ~(HasRow(subject[x]) /\ state[subject[x]] \notin {"cancelled", "started"})
    BY <1>15, <2>1, <2>3, FileEnd DEF FireRead
  <2>4. QED
    BY <2>2, <2>3
<1>16. ASSUME NEW x \in Fires, \/ FireSession(x) \/ FireUnreachable(x) \/ FireCheck(x)
                               \/ FireSend(x) \/ FireReply(x)
       PROVE  FileInv'
  <2>1. PICK label \in FirePc : Advance(x, label)
    <3>1. {"check", "failed", "abort", "send", "upload", "reply", "started"} \subseteq FirePc
      BY DEF FirePc, UploadPc
    <3>2. CASE FireCheck(x)
      BY <3>1, <3>2 DEF FireCheck
    <3>3. CASE FireReply(x)
      BY <3>1, <3>3 DEF FireReply
    <3>4. QED
      BY <1>16, <3>1, <3>2, <3>3 DEF FireSession, FireUnreachable, FireSend
  <2>2. x \in Threads /\ UNCHANGED <<state, storage, subject, copy, unsized, kept>>
    BY <1>16, <2>1, AdvanceSets
    DEF FireSession, FireUnreachable, FireCheck, FireSend, FireReply, rows, device, history
  <2>3. Hands(x) /\ pc'[x] = label
    BY <2>1, <2>2, AdvanceSets DEF Hands
  <2>4. \/ pc[x] = "session" /\ pc'[x] \in {"check", "failed"}
        \/ pc[x] = "send" /\ pc'[x] \in {"failed", "reply"}
        \/ pc[x] = "reply" /\ pc'[x] \in {"failed", "started"}
        \/ pc[x] = "check" /\ pc'[x] = "abort"
        \/ pc[x] = "check" /\ pc'[x] = (IF copy[x] = "uploaded" THEN "send" ELSE "upload")
    <3>1. CASE FireCheck(x)
      BY <2>2, <3>1, AdvanceSets DEF FireCheck
    <3>2. CASE FireReply(x)
      BY <2>2, <3>2, AdvanceSets DEF FireReply
    <3>3. CASE FireSession(x)
      BY <2>2, <3>3, AdvanceSets DEF FireSession
    <3>4. CASE FireUnreachable(x)
      BY <2>2, <3>4, AdvanceSets DEF FireUnreachable
    <3>5. CASE FireSend(x)
      BY <2>2, <3>5, AdvanceSets DEF FireSend
    <3>6. QED
      BY <1>16, <3>1, <3>2, <3>3, <3>4, <3>5
  <2>5. FileOf(x)'
    BY <1>0, <2>2, <2>4 DEF FileOf, WholeFile, UploadPc
  <2>6. QED
    BY <2>2, <2>3, <2>5, FileFrame
<1>17. ASSUME NEW x \in Fires, FireAbort(x) \/ RecordStarted(x) \/ RecordFailed(x) PROVE FileInv'
  <2>1. x \in Threads /\ End(x) /\ UNCHANGED <<storage, unsized, kept>>
    BY <1>17 DEF FireAbort, RecordStarted, RecordFailed, device, history
  <2>2. \A u \in Tasks : state'[u] = "uploaded" => state[u] = "uploaded"
    BY <1>17 DEF FireAbort, RecordStarted, RecordFailed, SetState, TypeOK
  <2>3. QED
    BY <2>1, <2>2, FileEnd
<1>18. ASSUME \/ ReadDue \/ \E t \in Tasks : Remove(t) \/ RemoveRaises(t)
              \/ Tick \/ PrinterMoves \/ Report \/ Restart \/ UNCHANGED vars
       PROVE  FileInv'
  <2>1. UNCHANGED <<state, pc, subject, copy, storage, unsized>> /\ kept \subseteq kept'
    BY <1>18 DEF ReadDue, Remove, RemoveRaises, Tick, PrinterMoves, Report, Restart, vars, rows,
                 threads, device, history
  <2>2. QED
    BY <2>1, FileStill
<1>19. CASE Crash
  <2>1. UNCHANGED <<state, storage, unsized>> /\ kept \subseteq kept'
    BY <1>19 DEF Crash, rows
  <2>2. \A x \in Threads : \/ pc'[x] = "idle" /\ copy'[x] = "unborn"
                           \/ pc'[x] = pc[x] /\ subject'[x] = subject[x] /\ copy'[x] = copy[x]
    BY <1>19 DEF Crash
  <2>3. QED
    BY <2>1, <2>2, FileDown
<1>20. CASE Stop
  <2>1. UNCHANGED <<state, subject, storage, unsized>> /\ kept \subseteq kept'
    BY <1>20 DEF Stop, rows
  <2>2. ASSUME NEW x \in Late
        PROVE  /\ Home(x) \in Threads /\ Home(x) \in Fires /\ x \in Threads /\ x \in Fires
               /\ subject[x] = subject[Home(x)]
    BY HomeType DEF TypeOK
  <2>3. ASSUME NEW x \in Threads
        PROVE  \/ pc'[x] = "idle" /\ copy'[x] = "unborn"
               \/ \E y \in Threads : /\ pc'[x] = pc[y] /\ subject'[x] = subject[y]
                                     /\ copy'[x] = copy[y] /\ (x \in Fires <=> y \in Fires)
    <3>1. CASE x \in Late
      BY <1>20, <2>1, <2>2, <3>1 DEF Stop
    <3>2. CASE x \notin Late
      BY <1>20, <2>1, <3>2 DEF Stop
    <3>3. QED
      BY <3>1, <3>2
  <2>4. QED
    BY <2>1, <2>3, FileDown
<1>21. QED
  BY <1>1, <1>2, <1>3, <1>4, <1>5, <1>6, <1>7, <1>8, <1>9, <1>10, <1>11, <1>12, <1>13, <1>14,
     <1>15, <1>16, <1>17, <1>18, <1>19, <1>20
  DEF Next, Handler, Working, Uploading, Fire, ProcessJobs, Threads

-----------------------------------------------------------------------------
(* An upload and a start command of the daemon never overlap, and the lock *)
(* is held by nobody who is not inside PrinterLink.session.                *)
THEOREM SessionsAlwaysExclude == Spec => []SessionsExclude
<1>1. Init => SessionsExclude
  BY ThreadKinds, TaskAssumption DEF Init, SessionsExclude, InSession, UploadPc
<1>2. QED
  BY <1>1, SessionStep, TypeCorrect, PTL DEF Spec

\* Nobody works on a task before it is submitted, in any reachable state.
LEMMA FreshAlways == Spec => []Fresh
<1>1. Init => Fresh
  BY ThreadKinds DEF Init, Fresh, NoneDue
<1>2. QED
  BY <1>1, FreshStep, TypeCorrect, PTL DEF Spec

(* TaskStore.set_state and replace keep the evidence of "uploaded" and     *)
(* "started", whatever stale copies the handlers and fires write back.     *)
THEOREM EvidenceAlwaysKept == Spec => []EvidenceKept
<1>1. Init => EvidenceInv
  BY ThreadKinds DEF Init, EvidenceInv, EvidenceKept, HasRow, TaskState, Open
<1>2. EvidenceInv => EvidenceKept
  BY DEF EvidenceInv
<1>3. QED
  BY <1>1, <1>2, EvidenceStep, FreshAlways, TypeCorrect, PTL DEF Spec

(* No transition, edit or failure erases uploaded_at, triggered_at or      *)
(* sent_payload from a row.                                                *)
THEOREM StampsAlwaysGrow == Spec => StampsOnlyAdded
<1>1. TypeOK /\ [Next]_vars => [\A t \in Tasks : stamps[t] \subseteq stamps'[t]]_vars
  BY StampsStep
<1>2. QED
  BY <1>1, TypeCorrect, PTL DEF Spec, StampsOnlyAdded

\* Without edits a task has one token, in every reachable state.
LEMMA TokenAlways == ASSUME "update" \notin Ops PROVE Spec => []TokenInv
<1>1. Init => TokenInv
  BY ThreadKinds, TaskAssumption
  DEF Init, TokenInv, Submitting, Armed, ArmedPc, Firing, Scheduled, UploadPc, NoneDue
<1>2. QED
  BY <1>1, TokenStep, FreshAlways, TypeCorrect, PTL DEF Spec

(* If nobody edits tasks, a submitted task is sent to the printer at most  *)
(* once, over any number of crashes, stops, restarts, misfires and         *)
(* interrupts (daemon.py:112, scheduler.py:142), unless its job outlived   *)
(* the scheduler that had handed it over (`kept`).                         *)
THEOREM StartedAtMostOnce ==
  ASSUME "update" \notin Ops PROVE Spec => []AtMostOneStart
<1>1. TokenInv => AtMostOneStart
  BY DEF TokenInv, AtMostOneStart
<1>2. QED
  BY <1>1, TokenAlways, PTL

(* If nobody edits tasks and no two share a remote name, a task shown as   *)
(* uploaded, or about to start, has its own whole file on the printer      *)
(* (lan.py:195), unless the printer would not tell its size (`unsized`) or *)
(* its job outlived the scheduler that had handed it over (`kept`).        *)
THEOREM FilesAlwaysWhole ==
  ASSUME "update" \notin Ops, OwnNames PROVE Spec => []UploadedFileWhole
<1>1. Init => FileInv
  BY ThreadKinds DEF Init, FileInv, UploadedFileWhole, Sending, UploadPc
<1>2. FileInv => UploadedFileWhole
  BY DEF FileInv
<1>3. QED
  BY <1>1, <1>2, FileStep, TokenAlways, FreshAlways, TypeCorrect, PTL DEF Spec

\* One handler, of the daemon or of a bpq command.
OneHandler == \A g, h \in Web \cup Cli : g = h

\* As long as nothing has crashed.
JobsHold == crashes = 0 => JobsInv

\* What JobsInv says of the one handler there is.
JobsOf(h) ==
  /\ pc[h] \in {"schedule", "edit", "move"} \cup UploadPc
       => state[subject[h]] \notin {"cancelled", "purged"}
  /\ pc[h] \in {"schedule", "edit"} \cup UploadPc => when[h] = at[subject[h]]
  /\ pc[h] = "purgerow" => jobs[subject[h]] = NoJob
  /\ \A t \in Tasks : jobs[t] # NoJob =>
       \/ state[t] \notin {"cancelled", "purged"} /\ jobs[t] = at[t]
       \/ subject[h] = t /\ pc[h] \in {"schedule", "unschedule"}

LEMMA JobsOfOne ==
  ASSUME OneHandler, NEW h \in Web \cup Cli
  PROVE  (JobsInv <=> JobsOf(h)) /\ (JobsInv' <=> JobsOf(h)')
<1>1. \A g \in Web \cup Cli : g = h
  BY DEF OneHandler
<1>2. JobsInv <=> JobsOf(h)
  BY <1>1 DEF JobsInv, JobsOf
<1>3. JobsInv' <=> JobsOf(h)'
  BY <1>1 DEF JobsInv, JobsOf
<1>4. QED
  BY <1>2, <1>3

\* Fires, the scheduler and the world call no row cancelled, and set no job.
LEMMA JobsFrame ==
  ASSUME TypeOK, JobsInv,
         \A h \in Web \cup Cli : pc'[h] = pc[h] /\ subject'[h] = subject[h] /\ when'[h] = when[h],
         UNCHANGED at, \A u \in Tasks : jobs'[u] \in {jobs[u], NoJob},
         \A u \in Tasks : state'[u] \in {"cancelled", "purged"} => state[u] \in {"cancelled", "purged"}
  PROVE  JobsInv'
<1>1. \A h \in Web \cup Cli : subject[h] \in Tasks
  BY ThreadKinds DEF TypeOK
<1>2. \A h \in Web \cup Cli :
        /\ pc'[h] \in {"schedule", "edit", "move"} \cup UploadPc
             => state'[subject'[h]] \notin {"cancelled", "purged"}
        /\ pc'[h] \in {"schedule", "edit"} \cup UploadPc => when'[h] = at'[subject'[h]]
        /\ pc'[h] = "purgerow" => jobs'[subject'[h]] = NoJob
  BY <1>1 DEF JobsInv
<1>3. ASSUME NEW t \in Tasks, jobs'[t] # NoJob
      PROVE  \/ state'[t] \notin {"cancelled", "purged"} /\ jobs'[t] = at'[t]
             \/ \E h \in Web \cup Cli : subject'[h] = t /\ pc'[h] \in {"schedule", "unschedule"}
  BY <1>3 DEF JobsInv
<1>4. QED
  BY <1>2, <1>3 DEF JobsInv, UploadPc

(* The two commits of an operation, with the fire of any task in between.  *)
LEMMA JobsStep ==
  ASSUME OneHandler
  PROVE  TypeOK /\ TypeOK' /\ Fresh /\ JobsHold /\ [Next]_vars => JobsHold'
<1> SUFFICES ASSUME TypeOK, TypeOK', Fresh, JobsHold, [Next]_vars, crashes' = 0
             PROVE  JobsInv'
  BY DEF JobsHold
<1> USE ThreadKinds
<1>0. crashes = 0 /\ JobsInv /\ \A x \in Threads : subject[x] \in Tasks
  BY CountStep DEF JobsHold, TypeOK
<1>a. \A h \in Web \cup Cli : JobsOf(h) /\ h \in Threads /\ h \notin Fires
  BY <1>0, JobsOfOne
<1>1. ASSUME NEW h \in Web \cup Cli, NEW t \in Tasks, Submit(h, t) PROVE JobsInv'
  <2>1. PICK w \in Times :
          /\ at' = [at EXCEPT ![t] = w]
          /\ Begin(h, IF Timing = "early" THEN "upload" ELSE "schedule", t, "pending", w)
    BY <1>1 DEF Submit
  <2>2. pc'[h] \in {"upload", "schedule"} /\ subject'[h] = t /\ when'[h] = w /\ at'[t] = w
    BY <1>a, <2>1, BeginSets DEF TypeOK
  <2>3. /\ state'[t] = "pending" /\ jobs[t] = NoJob /\ pc[h] = "idle" /\ jobs' = jobs
        /\ \A u \in Tasks \ {t} : state'[u] = state[u] /\ at'[u] = at[u]
    BY <1>1, <2>1 DEF Submit, Free, Fresh, TypeOK
  <2>4. JobsOf(h)'
    BY <1>a, <2>2, <2>3 DEF JobsOf
  <2>5. QED
    BY <2>4, JobsOfOne
<1>2. ASSUME NEW h \in Web \cup Cli, NEW t \in Tasks, Update(h, t) PROVE JobsInv'
  <2>1. UNCHANGED <<state, at, jobs>> /\ state[t] \in Open /\ pc[h] = "idle"
    BY <1>2 DEF Update, rows, Free
  <2>2. /\ pc'[h] \in {"edit", "move"} /\ subject'[h] = t
        /\ pc'[h] = "edit" => when'[h] = at[t]
    <3>1. CASE Begin(h, "edit", t, state[t], at[t])
      BY <1>a, <3>1, BeginSets
    <3>2. ASSUME NEW w \in Times, Begin(h, "move", t, state[t], w)
          PROVE  pc'[h] = "move" /\ subject'[h] = t
      BY <1>a, <3>2, BeginSets
    <3>3. QED
      BY <1>2, <3>1, <3>2 DEF Update
  <2>3. JobsOf(h)'
    BY <1>a, <2>1, <2>2 DEF JobsOf, Open, UploadPc
  <2>4. QED
    BY <2>3, JobsOfOne
<1>3. ASSUME NEW h \in Web \cup Cli, NEW t \in Tasks, Cancel(h, t) \/ Delete(h, t) PROVE JobsInv'
  <2>1. pc'[h] \in {"cancel", "purgejob"} /\ pc[h] = "idle" /\ UNCHANGED <<state, at, jobs>>
    BY <1>3, <1>a, BeginSets DEF Cancel, Delete, rows, Free
  <2>2. JobsOf(h)'
    BY <1>a, <2>1 DEF JobsOf, UploadPc
  <2>3. QED
    BY <2>2, JobsOfOne
<1>4. ASSUME NEW h \in Web \cup Cli, UploadBegin(h) \/ UploadEnd(h) \/ UploadFail(h) PROVE JobsInv'
  <2>1. UNCHANGED <<state, at, jobs, subject, when>> /\ pc[h] \in UploadPc
    BY <1>4 DEF UploadBegin, UploadEnd, UploadFail, Advance, rows, UploadPc
  <2>2. pc'[h] \in UploadPc
    BY <1>4, <1>a, TypeOK DEF UploadBegin, UploadEnd, UploadFail, Advance, Goto, UploadPc, TypeOK
  <2>3. JobsOf(h)'
    BY <1>a, <2>1, <2>2 DEF JobsOf, UploadPc
  <2>4. QED
    BY <2>3, JobsOfOne
<1>5. ASSUME NEW h \in Web \cup Cli, RecordUploaded(h) PROVE JobsInv'
  <2>1. /\ UNCHANGED <<at, jobs, subject, when>> /\ pc[h] = "uploaded" /\ pc'[h] = "schedule"
        /\ \A u \in Tasks : state'[u] \in {state[u], "uploaded"}
    BY <1>5, <1>a, AdvanceSets DEF RecordUploaded, SetState, IsFire, TypeOK
  <2>2. JobsOf(h)'
    BY <1>0, <1>a, <2>1 DEF JobsOf, UploadPc
  <2>3. QED
    BY <2>2, JobsOfOne
<1>6. ASSUME NEW h \in Web \cup Cli, RecordUnsent(h) PROVE JobsInv'
  <2>1. End(h)
    BY <1>6, <1>a DEF RecordUnsent, IsFire
  <2>2. /\ UNCHANGED <<at, jobs>> /\ pc[h] = "unsent" /\ pc'[h] = "idle"
        /\ \A u \in Tasks : state'[u] \in {state[u], "failed"}
    BY <1>6, <1>a, <2>1, EndSets DEF RecordUnsent, SetState, TypeOK
  <2>3. JobsOf(h)'
    BY <1>a, <2>2 DEF JobsOf, UploadPc
  <2>4. QED
    BY <2>3, JobsOfOne
<1>7. ASSUME NEW h \in Web \cup Cli, Schedule(h) PROVE JobsInv'
  <2>1. pc[h] = "schedule" /\ pc'[h] = "idle" /\ UNCHANGED <<state, at>>
        /\ jobs' = [jobs EXCEPT ![subject[h]] = when[h]]
    BY <1>7, <1>a, EndSets DEF Schedule, rows
  <2>2. \A u \in Tasks \ {subject[h]} : jobs'[u] = jobs[u]
    BY <2>1 DEF TypeOK
  <2>3. jobs'[subject[h]] = at[subject[h]] /\ state[subject[h]] \notin {"cancelled", "purged"}
    BY <1>0, <1>a, <2>1 DEF JobsOf, TypeOK
  <2>4. JobsOf(h)'
    BY <1>a, <2>1, <2>2, <2>3 DEF JobsOf, UploadPc
  <2>5. QED
    BY <2>4, JobsOfOne
<1>8. ASSUME NEW h \in Web \cup Cli, Replace(h) PROVE JobsInv'
  <2>1. \A u \in Tasks \ {subject[h]} : state'[u] = state[u] /\ at'[u] = at[u]
    BY <1>8 DEF Replace, Overwrite, TypeOK
  <2>2. /\ state[subject[h]] \notin {"cancelled", "purged"} /\ copy[h] \in Open
        /\ pc[h] \in {"edit", "move"} /\ jobs' = jobs
    BY <1>8, <1>a DEF Replace, JobsOf, Fresh
  <2>3. HasRow(subject[h])
    BY <1>0, <1>a, <2>2 DEF HasRow, TypeOK, Fresh
  <2>4. state'[subject[h]] = copy[h] /\ at'[subject[h]] = when[h]
    BY <1>0, <1>8, <1>a, <2>3 DEF Replace, Overwrite, TypeOK
  <2>5. CASE pc[h] = "edit"
    <3>1. pc'[h] = "idle" /\ when[h] = at[subject[h]]
      BY <1>8, <1>a, <2>5, EndSets DEF Replace, JobsOf
    <3>2. JobsOf(h)'
      BY <1>a, <2>1, <2>2, <2>4, <2>5, <3>1 DEF JobsOf, Open, UploadPc
    <3>3. QED
      BY <3>2, JobsOfOne
  <2>6. CASE pc[h] = "move"
    <3>1. pc'[h] = "schedule" /\ UNCHANGED <<subject, when>>
      BY <1>8, <1>a, <2>6, AdvanceSets DEF Replace
    <3>2. JobsOf(h)'
      BY <1>a, <2>1, <2>2, <2>4, <2>6, <3>1 DEF JobsOf, Open, UploadPc
    <3>3. QED
      BY <3>2, JobsOfOne
  <2>7. QED
    BY <2>2, <2>5, <2>6
<1>9. ASSUME NEW h \in Web \cup Cli, RecordCancelled(h) PROVE JobsInv'
  <2>1. /\ UNCHANGED <<at, jobs, subject>> /\ pc[h] = "cancel" /\ pc'[h] = "unschedule"
        /\ \A u \in Tasks \ {subject[h]} : state'[u] = state[u]
    BY <1>9, <1>a, AdvanceSets DEF RecordCancelled, SetState, TypeOK
  <2>2. JobsOf(h)'
    BY <1>a, <2>1 DEF JobsOf, UploadPc
  <2>3. QED
    BY <2>2, JobsOfOne
<1>10. ASSUME NEW h \in Web \cup Cli, Unschedule(h) PROVE JobsInv'
  <2>1. /\ pc[h] = "unschedule" /\ pc'[h] = "idle" /\ UNCHANGED <<state, at>>
        /\ jobs' = [jobs EXCEPT ![subject[h]] = NoJob]
    BY <1>10, <1>a, EndSets DEF Unschedule, rows
  <2>2. jobs'[subject[h]] = NoJob /\ \A u \in Tasks \ {subject[h]} : jobs'[u] = jobs[u]
    BY <1>0, <1>a, <2>1 DEF TypeOK
  <2>3. JobsOf(h)'
    BY <1>a, <2>1, <2>2 DEF JobsOf, UploadPc
  <2>4. QED
    BY <2>3, JobsOfOne
<1>11. ASSUME NEW h \in Web \cup Cli, PurgeJob(h) PROVE JobsInv'
  <2>1. /\ pc[h] = "purgejob" /\ pc'[h] = "purgerow" /\ UNCHANGED <<state, at, subject>>
        /\ jobs' = [jobs EXCEPT ![subject[h]] = NoJob]
    BY <1>11, <1>a, AdvanceSets DEF PurgeJob, rows
  <2>2. jobs'[subject[h]] = NoJob /\ \A u \in Tasks \ {subject[h]} : jobs'[u] = jobs[u]
    BY <1>0, <1>a, <2>1 DEF TypeOK
  <2>3. JobsOf(h)'
    BY <1>a, <2>1, <2>2 DEF JobsOf, UploadPc
  <2>4. QED
    BY <2>3, JobsOfOne
<1>12. ASSUME NEW h \in Web \cup Cli, PurgeRow(h) PROVE JobsInv'
  <2>1. /\ pc[h] = "purgerow" /\ pc'[h] = "idle" /\ UNCHANGED <<at, jobs>>
        /\ \A u \in Tasks \ {subject[h]} : state'[u] = state[u]
    BY <1>12, <1>a, EndSets DEF PurgeRow, TypeOK
  <2>2. JobsOf(h)'
    BY <1>a, <2>1 DEF JobsOf, UploadPc
  <2>3. QED
    BY <2>2, JobsOfOne
<1>13. ASSUME NEW x \in Fires, Fire(x) PROVE JobsInv'
  <2>1. /\ \A u \in Tasks : state'[u] \in {state[u], "uploaded", "failed", "aborted", "started"}
        /\ UNCHANGED <<at, jobs>>
    BY <1>13 DEF Fire, RunJob, FireRead, FireSession, FireUnreachable, FireCheck, FireAbort,
         FireSend, FireReply, RecordStarted, RecordFailed, Uploading, UploadBegin, UploadEnd,
         UploadFail, RecordUploaded, RecordUnsent, SetState, rows, TypeOK
  <2>2. \A y \in Threads \ {x} : pc'[y] = pc[y] /\ subject'[y] = subject[y] /\ when'[y] = when[y]
    <3>1. x \in Threads /\ (End(x) \/ (\E label : Advance(x, label))
                            \/ \E label, t, s, w : Begin(x, label, t, s, w))
      BY <1>13 DEF Fire, RunJob, FireRead, FireSession, FireUnreachable, FireCheck, FireAbort,
         FireSend, FireReply, RecordStarted, RecordFailed, Uploading, UploadBegin, UploadEnd,
         UploadFail, RecordUploaded, RecordUnsent
    <3>2. CASE End(x)
      BY <3>1, <3>2, EndSets
    <3>3. ASSUME NEW label, Advance(x, label) PROVE \A y \in Threads \ {x} : pc'[y] = pc[y] /\ subject'[y] = subject[y] /\ when'[y] = when[y]
      BY <3>1, <3>3, AdvanceSets
    <3>4. ASSUME NEW label, NEW t, NEW s, NEW w, Begin(x, label, t, s, w)
          PROVE \A y \in Threads \ {x} : pc'[y] = pc[y] /\ subject'[y] = subject[y] /\ when'[y] = when[y]
      BY <3>1, <3>4, BeginSets
    <3>5. QED
      BY <3>1, <3>2, <3>3, <3>4
  <2>3. \A h \in Web \cup Cli : pc'[h] = pc[h] /\ subject'[h] = subject[h] /\ when'[h] = when[h]
    BY <2>2
  <2>4. \A u \in Tasks : state'[u] \in {"cancelled", "purged"} => state[u] \in {"cancelled", "purged"}
    BY <2>1
  <2>5. QED
    BY <1>0, <2>1, <2>3, <2>4, JobsFrame
<1>14. ASSUME \/ ProcessJobs \/ Tick \/ PrinterMoves \/ Report \/ Restart \/ UNCHANGED vars
       PROVE  JobsInv'
  <2>1. UNCHANGED <<state, at>> /\ \A u \in Tasks : jobs'[u] \in {jobs[u], NoJob}
    BY <1>14 DEF ProcessJobs, ReadDue, HandOver, Remove, RemoveRaises, Tick, PrinterMoves,
                 Report, Restart, vars, rows, TypeOK
  <2>2. \A h \in Web \cup Cli : pc'[h] = pc[h] /\ subject'[h] = subject[h] /\ when'[h] = when[h]
    <3>1. ASSUME NEW t \in Tasks, HandOver(t), NEW h \in Web \cup Cli
          PROVE  pc'[h] = pc[h] /\ subject'[h] = subject[h] /\ when'[h] = when[h]
      <4>1. CASE pc[t] = "idle"
        BY <3>1, <4>1, BeginSets DEF HandOver
      <4>2. CASE pc[t] # "idle"
        BY <3>1, <4>2 DEF HandOver, threads
      <4>3. QED
        BY <4>1, <4>2
    <3>2. QED
      BY <1>14, <3>1 DEF ProcessJobs, ReadDue, Remove, RemoveRaises, Tick, PrinterMoves,
                         Report, Restart, vars, threads
  <2>3. QED
    BY <1>0, <2>1, <2>2, JobsFrame
<1>15. ASSUME Crash \/ Stop \/ \E x \in Cli \cup Late : Interrupt(x) PROVE JobsInv'
  BY <1>0, <1>15 DEF Crash, Stop, Interrupt
<1>16. QED
  BY <1>1, <1>2, <1>3, <1>4, <1>5, <1>6, <1>7, <1>8, <1>9, <1>10, <1>11, <1>12, <1>13,
     <1>14, <1>15 DEF Next, Handler, Working, Uploading

(* service.py:343, 379, scheduler.py:181: while one client at a time asks  *)
(* and nothing has crashed, the two commits of each operation leave row    *)
(* and job in agreement, whatever the fires of the tasks write meanwhile.  *)
THEOREM JobsAlwaysFollowRows ==
  ASSUME OneHandler PROVE Spec => [](crashes = 0 => JobsFollowRows)
<1>1. Init => JobsHold
  BY ThreadKinds DEF Init, JobsHold, JobsInv, UploadPc, NoJob
<1>2. JobsHold => (crashes = 0 => JobsFollowRows)
  BY ThreadKinds DEF JobsHold, JobsInv, JobsFollowRows, Busy, Threads
<1>3. QED
  BY <1>1, <1>2, JobsStep, FreshAlways, TypeCorrect, PTL DEF Spec

-----------------------------------------------------------------------------
(* The rows, jobs and threads of TaskLifecycle implement TaskPromise.      *)

(* What a step may do to one task: its row stays a row; the hope of a      *)
(* start is never raised again; a start spends it, unless the job outlived *)
(* its scheduler; a new row comes with hope.                               *)
Onward(u) ==
  /\ state[u] # "unborn" => state'[u] # "unborn"
  /\ state[u] # "unborn" /\ Live(u)' => Live(u)
  /\ \/ sent'[u] = sent[u]
     \/ /\ Live(u) /\ state[u] # "unborn" /\ sent'[u] = sent[u] + 1
        /\ sent[u] = 0 \/ u \in kept
  /\ state[u] = "unborn" /\ state'[u] # "unborn" => Live(u)'

\* What is left of a task's hope when nothing is added to it.
LEMMA OnwardLess ==
  ASSUME UNCHANGED sent, \A u \in Tasks : state[u] = "unborn" <=> state'[u] = "unborn",
         \A u \in Tasks : Live(u)' => Live(u)
  PROVE  \A u \in Tasks : Onward(u)
  BY DEF Onward

LEMMA OnwardQuiet ==
  ASSUME TypeOK, TypeOK', NEW x \in Threads, Quiet(x) PROVE \A u \in Tasks : Onward(u)
<1>1. \A u \in Tasks : (jobs'[u] # NoJob => jobs[u] # NoJob) /\ due'[u] = due[u]
  BY DEF Quiet
<1>2. \A u \in Tasks : Live(u)' => Live(u)
  BY <1>1, QuietTokens DEF Live
<1>3. QED
  BY <1>2, OnwardLess DEF Quiet

(* Without edits, every step takes every task onward.                      *)
LEMMA OnwardStep ==
  ASSUME "update" \notin Ops, TypeOK, TypeOK', Fresh, TokenInv, [Next]_vars
  PROVE  \A u \in Tasks : Onward(u)
<1> DEFINE Goal == \A u \in Tasks : Onward(u)
<1> SUFFICES Goal
  OBVIOUS
<1> USE ThreadKinds
<1>1. ASSUME NEW h \in Web \cup Cli, NEW t \in Tasks, Submit(h, t) PROVE Goal
  <2>1. /\ state[t] = "unborn" /\ state' = [state EXCEPT ![t] = "pending"] /\ pc[h] = "idle"
        /\ UNCHANGED <<jobs, due, sent>>
    BY <1>1 DEF Submit, Free, device, pass
  <2>2. PICK w \in Times, label \in {"upload", "schedule"} : Begin(h, label, t, "pending", w)
    BY <1>1 DEF Submit
  <2>3. /\ pc'[h] \in {"upload", "schedule"} /\ subject'[h] = t /\ h \in Threads
        /\ \A y \in Threads \ {h} : pc'[y] = pc[y] /\ subject'[y] = subject[y]
    BY <2>2, BeginSets
  <2>4. Live(t)'
    BY <2>3 DEF Live, Submitting, UploadPc
  <2>5. ASSUME NEW u \in Tasks \ {t} PROVE Live(u)' => Live(u)
    BY <2>1, <2>3 DEF Live, Submitting, Armed
  <2>6. /\ state'[t] = "pending" /\ sent' = sent
        /\ \A u \in Tasks \ {t} : state'[u] = state[u]
    BY <2>1 DEF TypeOK
  <2>7. ASSUME NEW u \in Tasks PROVE Onward(u)
    <3>1. CASE u = t
      BY <2>1, <2>4, <2>6, <3>1 DEF Onward
    <3>2. CASE u # t
      BY <2>5, <2>6, <3>2 DEF Onward
    <3>3. QED
      BY <3>1, <3>2
  <2>8. QED
    BY <2>7
<1>2. ASSUME NEW h \in Web \cup Cli, NEW t \in Tasks, Update(h, t) PROVE Goal
  BY <1>2 DEF Update
<1>3. ASSUME NEW h \in Web \cup Cli,
             \/ RecordCancelled(h) \/ Unschedule(h) \/ PurgeJob(h) \/ PurgeRow(h)
             \/ \E t \in Tasks : Cancel(h, t) \/ Delete(h, t)
      PROVE  Goal
  BY <1>3, QuietHandler, OnwardQuiet
<1>4. ASSUME NEW x \in Threads, Uploading(x) PROVE Goal
  BY <1>4, QuietUpload, OnwardQuiet
<1>5. ASSUME NEW h \in Web \cup Cli, Schedule(h) PROVE Goal
  <2>1. /\ pc[h] = "schedule" /\ End(h) /\ UNCHANGED <<state, due, sent>>
        /\ jobs' = [jobs EXCEPT ![subject[h]] = when[h]]
    BY <1>5 DEF Schedule, rows, device, pass
  <2>2. /\ pc'[h] = "idle"
        /\ \A y \in Threads \ {h} : pc'[y] = pc[y] /\ subject'[y] = subject[y]
    BY <2>1, EndSets
  <2>3. Submitting(h, subject[h])
    BY <2>1 DEF Submitting
  <2>4. ASSUME NEW u \in Tasks, Live(u)' PROVE Live(u)
    <3>1. CASE u = subject[h]
      BY <2>3, <3>1 DEF Live
    <3>2. CASE u # subject[h]
      <4>1. jobs'[u] = jobs[u]
        BY <2>1, <3>2 DEF TypeOK
      <4>2. (Armed(u)' => Armed(u)) /\ \A g \in Web \cup Cli : Submitting(g, u)' => Submitting(g, u)
        BY <2>2 DEF Armed, ArmedPc, Submitting, UploadPc
      <4>3. QED
        BY <2>1, <2>4, <4>1, <4>2 DEF Live
    <3>3. QED
      BY <3>1, <3>2
  <2>5. QED
    BY <2>1, <2>4, OnwardLess
<1>6. ASSUME NEW h \in Web \cup Cli, Replace(h) PROVE Goal
  BY <1>6 DEF Replace, TokenInv
<1>7. ASSUME NEW x \in Threads, \/ x \in Fires /\ Fire(x) /\ ~FireSend(x) /\ ~Uploading(x)
                                \/ Interrupt(x)
      PROVE  Goal
  BY <1>7, QuietFire, OnwardQuiet
<1>8. ASSUME NEW x \in Fires, FireSend(x) PROVE Goal
  <2>0. PICK t \in Tasks : t = subject[x]
    BY DEF TypeOK
  <2>1. /\ x \in Threads /\ pc[x] = "send" /\ UNCHANGED <<state, jobs, due, subject>>
        /\ sent' = [sent EXCEPT ![t] = @ + 1] /\ pc' = [pc EXCEPT ![x] = "reply"]
    BY <1>8, <2>0 DEF FireSend, Advance, Goto, rows, pass
  <2>2. \A y \in Threads : pc'[y] = IF y = x THEN "reply" ELSE pc[y]
    BY <2>1 DEF TypeOK
  <2>3. Armed(t) /\ Live(t) /\ state[t] # "unborn" /\ sent[t] \in Nat
    <3>1. Armed(t)
      BY <2>0, <2>1 DEF Armed, ArmedPc
    <3>2. QED
      BY <2>0, <2>1, <3>1 DEF Live, Fresh, TypeOK
  <2>4. sent[t] = 0 \/ t \in kept
    BY <2>3 DEF TokenInv
  <2>5. \A u \in Tasks : Live(u)' => Live(u)
    <3>1. \A u \in Tasks : Armed(u)' => Armed(u)
      BY <2>1, <2>2 DEF Armed, ArmedPc, UploadPc
    <3>2. \A g \in Web \cup Cli, u \in Tasks : Submitting(g, u)' => Submitting(g, u)
      BY <2>1, <2>2 DEF Submitting
    <3>3. QED
      BY <2>1, <3>1, <3>2 DEF Live
  <2>6. \A u \in Tasks : sent'[u] = IF u = t THEN sent[t] + 1 ELSE sent[u]
    BY <2>1 DEF TypeOK
  <2>7. QED
    BY <2>1, <2>3, <2>4, <2>5, <2>6 DEF Onward
<1>9. CASE ReadDue
  <2>1. UNCHANGED <<state, jobs, sent, pc, subject>> /\ \A u \in Tasks : due'[u] # NoJob => jobs[u] # NoJob
    BY <1>9 DEF ReadDue, rows, threads, device
  <2>2. \A u \in Tasks : Live(u)' => Live(u)
    BY <2>1 DEF Live, Armed, Submitting
  <2>3. QED
    BY <2>1, <2>2, OnwardLess
<1>10. ASSUME NEW t \in Tasks, HandOver(t) PROVE Goal
  <2>1. /\ due[t] # NoJob /\ UNCHANGED <<state, jobs, sent>>
        /\ due' = [due EXCEPT ![t] = NoJob]
    BY <1>10 DEF HandOver, rows, device
  <2>2. t \in Threads /\ subject[t] = t
    BY HomeType DEF TypeOK
  <2>3. /\ \A y \in Threads \ {t} : pc'[y] = pc[y] /\ subject'[y] = subject[y]
        /\ subject'[t] = t
    <3>1. CASE pc[t] = "idle"
      BY <1>10, <2>2, <3>1, BeginSets DEF HandOver
    <3>2. CASE pc[t] # "idle"
      BY <1>10, <2>2, <3>2 DEF HandOver, threads
    <3>3. QED
      BY <3>1, <3>2
  <2>4. ASSUME NEW u \in Tasks, Live(u)' PROVE Live(u)
    <3>1. CASE u = t
      BY <2>1, <3>1 DEF Live
    <3>2. CASE u # t
      <4>1. due'[u] = due[u]
        BY <2>1, <3>2 DEF TypeOK
      <4>2. (Armed(u)' => Armed(u)) /\ \A g \in Web \cup Cli : Submitting(g, u)' => Submitting(g, u)
        BY <2>2, <2>3, <3>2 DEF Armed, ArmedPc, Submitting, UploadPc
      <4>3. QED
        BY <2>1, <2>4, <4>1, <4>2 DEF Live
    <3>3. QED
      BY <3>1, <3>2
  <2>5. QED
    BY <2>1, <2>4, OnwardLess
<1>11. ASSUME NEW t \in Tasks, Remove(t) PROVE Goal
  <2>1. /\ UNCHANGED <<state, due, sent, pc, subject>>
        /\ \A u \in Tasks : jobs'[u] \in {jobs[u], NoJob}
    BY <1>11 DEF Remove, rows, threads, device, TypeOK
  <2>2. \A u \in Tasks : Live(u)' => Live(u)
    BY <2>1 DEF Live, Armed, Submitting
  <2>3. QED
    BY <2>1, <2>2, OnwardLess
<1>12. ASSUME NEW t \in Tasks, RemoveRaises(t) PROVE Goal
  <2>1. /\ UNCHANGED <<state, jobs, sent, pc, subject>>
        /\ \A u \in Tasks : due'[u] = NoJob
    BY <1>12 DEF RemoveRaises, EndOfPass, NoneDue, rows, threads, device
  <2>2. \A u \in Tasks : Live(u)' => Live(u)
    BY <2>1 DEF Live, Armed, Submitting
  <2>3. QED
    BY <2>1, <2>2, OnwardLess
<1>13. CASE Crash
  <2>1. /\ UNCHANGED <<state, jobs, sent>> /\ \A u \in Tasks : due'[u] = NoJob
        /\ \A x \in Threads : \/ pc'[x] = "idle"
                              \/ pc'[x] = pc[x] /\ subject'[x] = subject[x]
    BY <1>13 DEF Crash, EndOfPass, NoneDue, rows
  <2>2. \A u \in Tasks : Armed(u)' => Armed(u)
    BY <2>1 DEF Armed, ArmedPc, UploadPc
  <2>3. \A g \in Web \cup Cli, u \in Tasks : Submitting(g, u)' => Submitting(g, u)
    BY <2>1 DEF Submitting, UploadPc
  <2>4. \A u \in Tasks : Live(u)' => Live(u)
    BY <2>1, <2>2, <2>3 DEF Live
  <2>5. QED
    BY <2>1, <2>4, OnwardLess
<1>14. CASE Stop
  <2>1. /\ UNCHANGED <<state, jobs, sent, subject>> /\ \A u \in Tasks : due'[u] = NoJob
        /\ \A h \in Web \cup Cli : pc'[h] = pc[h]
    BY <1>14 DEF Stop, EndOfPass, NoneDue, rows
  <2>2. ASSUME NEW x \in Late
        PROVE  Home(x) \in Fires /\ subject[x] = subject[Home(x)] /\ x \in Threads
    BY HomeType DEF TypeOK
  <2>3. ASSUME NEW x \in Fires, pc'[x] # "idle"
        PROVE  \E y \in Fires : pc[y] = pc'[x] /\ subject[y] = subject'[x]
    <3>1. CASE x \in Late
      BY <1>14, <2>1, <2>2, <3>1 DEF Stop
    <3>2. CASE x \in Tasks
      BY <1>14, <2>3, <3>2 DEF Stop
    <3>3. QED
      BY <3>1, <3>2
  <2>4. \A u \in Tasks : Armed(u)' => Armed(u)
    BY <2>3 DEF Armed, ArmedPc, UploadPc
  <2>5. \A g \in Web \cup Cli, u \in Tasks : Submitting(g, u)' => Submitting(g, u)
    BY <2>1 DEF Submitting
  <2>6. \A u \in Tasks : Live(u)' => Live(u)
    BY <2>1, <2>4, <2>5 DEF Live
  <2>7. QED
    BY <2>1, <2>6, OnwardLess
<1>15. CASE Tick \/ PrinterMoves \/ Report \/ Restart \/ UNCHANGED vars
  <2>1. UNCHANGED <<state, jobs, due, sent, pc, subject>>
    BY <1>15 DEF Tick, PrinterMoves, Report, Restart, vars, rows, threads, device, pass
  <2>2. \A u \in Tasks : Live(u)' => Live(u)
    BY <2>1 DEF Live, Armed, Submitting
  <2>3. QED
    BY <2>1, <2>2, OnwardLess
<1> HIDE DEF Goal
<1>16. QED
  BY <1>1, <1>2, <1>3, <1>4, <1>5, <1>6, <1>7, <1>8, <1>9, <1>10, <1>11, <1>12, <1>13, <1>14,
     <1>15
  DEF Next, Handler, Working, Fire, ProcessJobs, Threads

(* The same, of the phases.                                                *)
LEMMA PhaseStep ==
  ASSUME TypeOK, TypeOK', Fresh, NEW u \in Tasks, Onward(u)
  PROVE  \/ Phase(u)' = Phase(u)
         \/ <<Phase(u), Phase(u)'>>
              \in Promise!Moves \cup (IF u \in kept THEN Promise!Again ELSE {})
<1>1. sent[u] \in Nat /\ sent'[u] \in Nat
  BY DEF TypeOK
<1>2. state[u] = "unborn" => sent[u] = 0 /\ sent'[u] = 0
  BY <1>1 DEF Fresh, Onward
<1>3. CASE state'[u] = "unborn"
  BY <1>3 DEF Onward, Phase
<1>4. CASE state[u] = "unborn" /\ state'[u] # "unborn"
  <2>1. Phase(u) = "none"
    BY <1>4 DEF Phase
  <2>2. Phase(u)' = "waiting"
    BY <1>2, <1>4 DEF Onward, Phase
  <2>3. QED
    BY <2>1, <2>2 DEF Promise!Moves
<1>5. CASE state[u] # "unborn" /\ state'[u] # "unborn"
  <2>1. CASE sent[u] = 0 /\ sent'[u] = 0
    BY <1>5, <2>1 DEF Onward, Phase, Promise!Moves
  <2>2. CASE sent[u] = 0 /\ sent'[u] # 0
    <3>1. Live(u) /\ sent'[u] = 1
      BY <1>1, <2>2 DEF Onward
    <3>2. Phase(u) = "waiting" /\ Phase(u)' = "sent"
      BY <1>5, <2>2, <3>1 DEF Phase
    <3>3. QED
      BY <3>2 DEF Promise!Moves
  <2>3. CASE sent[u] = 1
    <3>1. Phase(u) = "sent"
      BY <1>5, <2>3 DEF Phase
    <3>2. CASE sent'[u] = 1
      <4>1. Phase(u)' = "sent"
        BY <1>5, <3>2 DEF Phase
      <4>2. QED
        BY <3>1, <4>1
    <3>3. CASE sent'[u] # 1
      <4>1. sent'[u] = 2 /\ u \in kept
        BY <2>3, <3>3 DEF Onward
      <4>2. Phase(u)' = "sent again"
        BY <1>5, <4>1 DEF Phase
      <4>3. QED
        BY <3>1, <4>1, <4>2 DEF Promise!Again
    <3>4. QED
      BY <3>2, <3>3
  <2>4. CASE sent[u] > 1
    <3>1. sent'[u] > 1 /\ sent'[u] # 1 /\ sent'[u] # 0 /\ sent[u] # 1 /\ sent[u] # 0
      BY <1>1, <2>4 DEF Onward
    <3>2. Phase(u) = "sent again"
      BY <1>5, <2>4, <3>1 DEF Phase
    <3>3. Phase(u)' = "sent again"
      BY <1>5, <3>1 DEF Phase
    <3>4. QED
      BY <3>2, <3>3
  <2>5. QED
    BY <1>1, <2>1, <2>2, <2>3, <2>4
<1>6. QED
  BY <1>3, <1>4, <1>5

(* scheduler.py:112, daemon.py:138: if nobody edits tasks, the daemon      *)
(* keeps the promise of TaskPromise.  A submitted task waits, and is then  *)
(* sent once or never; a task that lost its job, its fire and its          *)
(* submission is not brought back; and only a task whose job outlived the  *)
(* scheduler that had handed it over can be sent again.                    *)
THEOREM PromiseAlwaysKept ==
  ASSUME "update" \notin Ops PROVE Spec => PromiseKept
<1>1. Init => Promise!Init
  BY DEF Init, Promise!Init, Phase
<1>2. TypeOK /\ TypeOK' /\ Fresh /\ TokenInv /\ [Next]_vars
      => [Promise!Next]_<<[t \in Tasks |-> Phase(t)], kept>>
  <2> SUFFICES ASSUME TypeOK, TypeOK', Fresh, TokenInv, [Next]_vars
               PROVE  Promise!Next
    OBVIOUS
  <2>1. \A u \in Tasks : Onward(u)
    BY OnwardStep
  <2>2. \A u \in Tasks :
          \/ Phase(u)' = Phase(u)
          \/ <<Phase(u), Phase(u)'>>
               \in Promise!Moves \cup (IF u \in kept THEN Promise!Again ELSE {})
    BY <2>1, PhaseStep
  <2>3. \A u \in Tasks : Phase(u)' \in Promise!Phases
    <3>1. TAKE u \in Tasks
    <3>2. sent'[u] \in Nat
      BY DEF TypeOK
    <3>3. sent'[u] = 0 \/ sent'[u] = 1 \/ sent'[u] > 1
      BY <3>2
    <3>4. QED
      BY <3>3 DEF Phase, Promise!Phases
  <2>4. kept \subseteq kept'
    BY CountStep
  <2>5. QED
    BY <2>2, <2>3, <2>4 DEF Promise!Next
<1>3. QED
  BY <1>1, <1>2, TypeCorrect, FreshAlways, TokenAlways, PTL DEF Spec, PromiseKept, Promise!Spec
=============================================================================
