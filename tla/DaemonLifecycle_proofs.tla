------------------------ MODULE DaemonLifecycle_proofs ------------------------
(* Theorems about DaemonLifecycle, for any number of launches, trays and   *)
(* commands.                                                               *)
EXTENDS DaemonLifecycle, FiniteSetTheorems, TLAPS

LEMMA Apart ==
  /\ \A p, q \in Daemons : Link(p) # Job(q) /\ (Link(p) = Link(q) => p = q)
                           /\ (Job(p) = Job(q) => p = q)
  /\ \A p \in Daemons, c \in Commands : Own(c) # Link(p) /\ Own(c) # Job(p)
  /\ \A c, d \in Commands : Own(c) = Own(d) => c = d
  BY DEF Link, Job, Own

(* While its connection, its watchdog's or its jobs can be there, serve()  *)
(* is between the steps that make and end them.                            *)
Opened == {"linked", "scheduled", "registered", "serving", "stopping", "webdown",
           "scheddown"}

PlaceInv ==
  /\ \A p \in Daemons :
       /\ p \in sched => pc[p] \in {"scheduled", "registered", "serving", "stopping",
                                    "webdown"}
       /\ p \in current => pc[p] \in {"registered", "serving"}
       /\ fire[p] # "none" => pc[p] \notin {"off", "asking", "starting", "linked"}
  /\ "left" \notin slips =>
       \A p \in Daemons : Link(p) \in conns \/ dog[p] # "none" => pc[p] \in Opened

(* A job has a connection of its own only where it found no runtime.       *)
BorrowInv ==
  \A p \in Daemons : Job(p) \in conns \/ fire[p] = "own" => "alone" \in slips

(* A command goes direct after it held the lock, and keeps others out of   *)
(* it, or is seen to have failed to.                                       *)
DirectInv ==
  /\ \A c \in Commands : Own(c) \in conns => cmd[c] = "direct"
  /\ "beside" \notin slips =>
       /\ Direct # {} => lock \notin Daemons
       /\ \A c, d \in Direct : c = d

ClientInv == PlaceInv /\ BorrowInv /\ DirectInv

LEMMA TypeInit ==
  ASSUME Init PROVE TypeOK /\ ClientInv
  BY DaemonAssumption DEF Init, TypeOK, ClientInv, PlaceInv, BorrowInv, DirectInv, Direct, Held, Pc, DogPc, FirePc, TrayPc, CmdPc, Slip

LEMMA TypeStep ==
  ASSUME TypeOK, [Next]_vars
  PROVE  TypeOK'
<1> USE DaemonAssumption DEF TypeOK, Held, Pc, DogPc, FirePc, TrayPc, CmdPc, Slip, Goto, Slipped
<1>1. ASSUME NEW p \in Daemons, Launch(p) PROVE TypeOK'
  BY <1>1 DEF Launch
<1>2. ASSUME NEW p \in Daemons, Acquire(p) PROVE TypeOK'
  BY <1>2 DEF Acquire
<1>3. ASSUME NEW p \in Daemons, Refused(p) PROVE TypeOK'
  BY <1>3 DEF Refused
<1>4. ASSUME NEW p \in Daemons, OpenLink(p) PROVE TypeOK'
  BY <1>4 DEF OpenLink
<1>5. ASSUME NEW p \in Daemons, StartFails(p) PROVE TypeOK'
  BY <1>5 DEF StartFails
<1>6. ASSUME NEW p \in Daemons, StartScheduler(p) PROVE TypeOK'
  BY <1>6 DEF StartScheduler
<1>7. ASSUME NEW p \in Daemons, Register(p) PROVE TypeOK'
  BY <1>7 DEF Register
<1>8. ASSUME NEW p \in Daemons, StartWeb(p) PROVE TypeOK'
  <2>1. web' \subseteq web \cup {p} /\ pc[p] = "registered" /\ pc' = [pc EXCEPT ![p] = "serving"]
        /\ UNCHANGED <<lock, sched, current, stop, dog, fire, tray, cmd, conns, slips>>
    BY <1>8 DEF StartWeb
  <2>2. QED
    BY <2>1
<1>9. ASSUME NEW p \in Daemons, Unregister(p) PROVE TypeOK'
  BY <1>9 DEF Unregister
<1>10. ASSUME NEW p \in Daemons, StopWeb(p) PROVE TypeOK'
  BY <1>10 DEF StopWeb
<1>11. ASSUME NEW p \in Daemons, StopScheduler(p) PROVE TypeOK'
  BY <1>11 DEF StopScheduler
<1>12. ASSUME NEW p \in Daemons, CloseLink(p) PROVE TypeOK'
  BY <1>12 DEF CloseLink
<1>13. ASSUME NEW p \in Daemons, Unlock(p) PROVE TypeOK'
  BY <1>13 DEF Unlock
<1>14. ASSUME NEW p \in Daemons, Exit(p) PROVE TypeOK'
  BY <1>14 DEF Exit, Gone
<1>15. ASSUME NEW p \in Daemons, Kill(p) PROVE TypeOK'
  BY <1>15 DEF Kill, Gone
<1>16. ASSUME NEW p \in Daemons, Signal(p) \/ TrayReady(p) \/ TrayGivesUp(p) \/ TrayQuit(p) \/ TrayLeaves(p)
       PROVE TypeOK'
  <2>1. /\ stop' \subseteq stop \cup {p}
        /\ \E w \in TrayPc : tray' = [tray EXCEPT ![p] = w]
        /\ UNCHANGED <<lock, pc, sched, current, web, dog, fire, cmd, conns, slips>>
    <3>1. CASE Signal(p)
      BY <3>1 DEF Signal
    <3>2. CASE TrayReady(p)
      BY <3>2 DEF TrayReady
    <3>3. CASE TrayGivesUp(p)
      BY <3>3 DEF TrayGivesUp
    <3>4. CASE TrayQuit(p)
      BY <3>4 DEF TrayQuit
    <3>5. CASE TrayLeaves(p)
      BY <3>5 DEF TrayLeaves
    <3>6. QED
      BY <1>16, <3>1, <3>2, <3>3, <3>4, <3>5
  <2>2. QED
    BY <2>1
<1>17. ASSUME NEW p \in Daemons, DogDrops(p) \/ DogConnects(p) PROVE TypeOK'
  BY <1>17 DEF DogDrops, DogConnects
<1>18. ASSUME NEW p \in Daemons, Due(p) PROVE TypeOK'
  BY <1>18 DEF Due
<1>19. ASSUME NEW p \in Daemons, RunTask(p) PROVE TypeOK'
  BY <1>19 DEF RunTask
<1>20. ASSUME NEW p \in Daemons, FireOnLink(p) PROVE TypeOK'
  BY <1>20 DEF FireOnLink
<1>21. ASSUME NEW p \in Daemons, FireEnds(p) PROVE TypeOK'
  BY <1>21 DEF FireEnds
<1>22. ASSUME NEW c \in Commands, CmdBegin(c) \/ CmdProbe(c) PROVE TypeOK'
  <2>1. /\ cmd[c] \in {"idle", "ask"}
        /\ \E to \in {"idle", "ask", "check"} : cmd' = [cmd EXCEPT ![c] = to]
        /\ UNCHANGED <<lock, pc, sched, current, web, stop, dog, fire, tray, conns, slips>>
    BY <1>22 DEF CmdBegin, CmdProbe, CmdStep, CmdRest
  <2>2. QED
    BY <2>1
<1>23. ASSUME NEW c \in Commands, CmdCheck(c) PROVE TypeOK'
  BY <1>23 DEF CmdCheck, CmdStep, CmdRest
<1>24. ASSUME NEW c \in Commands, CmdRelease(c) PROVE TypeOK'
  BY <1>24 DEF CmdRelease, CmdStep, CmdRest
<1>25. ASSUME NEW c \in Commands, CmdConnect(c) \/ CmdEnds(c) PROVE TypeOK'
  BY <1>25 DEF CmdConnect, CmdEnds, CmdStep, CmdRest
<1>26. CASE UNCHANGED vars
  BY <1>26 DEF vars
<1>27. QED
  BY <1>1, <1>2, <1>3, <1>4, <1>5, <1>6, <1>7, <1>8, <1>9, <1>10, <1>11, <1>12, <1>13, <1>14, <1>15, <1>16, <1>17, <1>18, <1>19, <1>20, <1>21, <1>22, <1>23, <1>24, <1>25, <1>26
     DEF Next, Serve, Others, Fire, Command

LEMMA PlaceStep ==
  ASSUME TypeOK, TypeOK', PlaceInv, [Next]_vars
  PROVE  PlaceInv'
<1> USE DaemonAssumption, Apart DEF PlaceInv, TypeOK, Held, Opened, LinkClosed, Goto, Slipped
<1>1. ASSUME NEW p \in Daemons, Launch(p) PROVE PlaceInv'
  BY <1>1 DEF Launch
<1>2. ASSUME NEW p \in Daemons, Acquire(p) PROVE PlaceInv'
  BY <1>2 DEF Acquire
<1>3. ASSUME NEW p \in Daemons, Refused(p) PROVE PlaceInv'
  BY <1>3 DEF Refused
<1>4. ASSUME NEW p \in Daemons, OpenLink(p) PROVE PlaceInv'
  BY <1>4 DEF OpenLink
<1>5. ASSUME NEW p \in Daemons, StartFails(p) PROVE PlaceInv'
  BY <1>5 DEF StartFails
<1>6. ASSUME NEW p \in Daemons, StartScheduler(p) PROVE PlaceInv'
  BY <1>6 DEF StartScheduler
<1>7. ASSUME NEW p \in Daemons, Register(p) PROVE PlaceInv'
  BY <1>7 DEF Register
<1>8. ASSUME NEW p \in Daemons, StartWeb(p) PROVE PlaceInv'
  BY <1>8 DEF StartWeb
<1>9. ASSUME NEW p \in Daemons, Unregister(p) PROVE PlaceInv'
  BY <1>9 DEF Unregister
<1>10. ASSUME NEW p \in Daemons, StopWeb(p) PROVE PlaceInv'
  BY <1>10 DEF StopWeb
<1>11. ASSUME NEW p \in Daemons, StopScheduler(p) PROVE PlaceInv'
  BY <1>11 DEF StopScheduler
<1>12. ASSUME NEW p \in Daemons, CloseLink(p) PROVE PlaceInv'
  BY <1>12 DEF CloseLink
<1>13. ASSUME NEW p \in Daemons, Unlock(p) PROVE PlaceInv'
  BY <1>13 DEF Unlock
<1>14. ASSUME NEW p \in Daemons, Exit(p) PROVE PlaceInv'
  BY <1>14 DEF Exit, Gone
<1>15. ASSUME NEW p \in Daemons, Kill(p) PROVE PlaceInv'
  BY <1>15 DEF Kill, Gone
<1>16. ASSUME NEW p \in Daemons, Signal(p) PROVE PlaceInv'
  BY <1>16 DEF Signal
<1>17. ASSUME NEW p \in Daemons, TrayReady(p) PROVE PlaceInv'
  BY <1>17 DEF TrayReady
<1>18. ASSUME NEW p \in Daemons, TrayGivesUp(p) PROVE PlaceInv'
  BY <1>18 DEF TrayGivesUp
<1>19. ASSUME NEW p \in Daemons, TrayQuit(p) PROVE PlaceInv'
  BY <1>19 DEF TrayQuit
<1>20. ASSUME NEW p \in Daemons, TrayLeaves(p) PROVE PlaceInv'
  BY <1>20 DEF TrayLeaves
<1>21. ASSUME NEW p \in Daemons, DogDrops(p) PROVE PlaceInv'
  BY <1>21 DEF DogDrops
<1>22. ASSUME NEW p \in Daemons, DogConnects(p) PROVE PlaceInv'
  BY <1>22 DEF DogConnects
<1>23. ASSUME NEW p \in Daemons, Due(p) PROVE PlaceInv'
  BY <1>23 DEF Due
<1>24. ASSUME NEW p \in Daemons, RunTask(p) PROVE PlaceInv'
  BY <1>24 DEF RunTask
<1>25. ASSUME NEW p \in Daemons, FireOnLink(p) PROVE PlaceInv'
  <2>1. /\ fire[p] # "none" /\ conns' \subseteq conns \cup {Link(p)}
        /\ UNCHANGED <<pc, sched, current>> /\ slips \subseteq slips'
        /\ LinkClosed(p) => "left" \in slips'
    BY <1>25 DEF FireOnLink
  <2>2. \A q \in Daemons \ {p} : fire'[q] = fire[q] /\ dog'[q] = dog[q]
    BY <1>25 DEF FireOnLink
  <2>3. "left" \notin slips' => pc[p] \in Opened
    BY <2>1 DEF Pc
  <2>4. QED
    BY <2>1, <2>2, <2>3
<1>26. ASSUME NEW p \in Daemons, FireEnds(p) PROVE PlaceInv'
  BY <1>26 DEF FireEnds
<1>27. ASSUME NEW c \in Commands, CmdBegin(c) PROVE PlaceInv'
  BY <1>27 DEF CmdBegin, CmdStep, CmdRest
<1>28. ASSUME NEW c \in Commands, CmdProbe(c) PROVE PlaceInv'
  BY <1>28 DEF CmdProbe, CmdStep, CmdRest
<1>29. ASSUME NEW c \in Commands, CmdCheck(c) PROVE PlaceInv'
  BY <1>29 DEF CmdCheck, CmdStep, CmdRest
<1>30. ASSUME NEW c \in Commands, CmdRelease(c) PROVE PlaceInv'
  BY <1>30 DEF CmdRelease, CmdStep, CmdRest
<1>31. ASSUME NEW c \in Commands, CmdConnect(c) PROVE PlaceInv'
  BY <1>31 DEF CmdConnect, CmdStep, CmdRest
<1>32. ASSUME NEW c \in Commands, CmdEnds(c) PROVE PlaceInv'
  BY <1>32 DEF CmdEnds, CmdStep, CmdRest
<1>33. CASE UNCHANGED vars
  BY <1>33 DEF vars
<1>34. QED
  BY <1>1, <1>2, <1>3, <1>4, <1>5, <1>6, <1>7, <1>8, <1>9, <1>10, <1>11, <1>12, <1>13,
     <1>14, <1>15, <1>16, <1>17, <1>18, <1>19, <1>20, <1>21, <1>22, <1>23, <1>24, <1>25, <1>26,
     <1>27, <1>28, <1>29, <1>30, <1>31, <1>32, <1>33
     DEF Next, Serve, Others, Fire, Command

LEMMA BorrowStep ==
  ASSUME TypeOK, TypeOK', BorrowInv, [Next]_vars
  PROVE  BorrowInv'
<1> USE DaemonAssumption, Apart DEF BorrowInv, TypeOK, Goto, Slipped
<1>1. ASSUME NEW p \in Daemons, Launch(p) PROVE BorrowInv'
  BY <1>1 DEF Launch
<1>2. ASSUME NEW p \in Daemons, Acquire(p) PROVE BorrowInv'
  BY <1>2 DEF Acquire
<1>3. ASSUME NEW p \in Daemons, Refused(p) PROVE BorrowInv'
  BY <1>3 DEF Refused
<1>4. ASSUME NEW p \in Daemons, OpenLink(p) PROVE BorrowInv'
  BY <1>4 DEF OpenLink
<1>5. ASSUME NEW p \in Daemons, StartFails(p) PROVE BorrowInv'
  BY <1>5 DEF StartFails
<1>6. ASSUME NEW p \in Daemons, StartScheduler(p) PROVE BorrowInv'
  BY <1>6 DEF StartScheduler
<1>7. ASSUME NEW p \in Daemons, Register(p) PROVE BorrowInv'
  BY <1>7 DEF Register
<1>8. ASSUME NEW p \in Daemons, StartWeb(p) PROVE BorrowInv'
  BY <1>8 DEF StartWeb
<1>9. ASSUME NEW p \in Daemons, Unregister(p) PROVE BorrowInv'
  BY <1>9 DEF Unregister
<1>10. ASSUME NEW p \in Daemons, StopWeb(p) PROVE BorrowInv'
  BY <1>10 DEF StopWeb
<1>11. ASSUME NEW p \in Daemons, StopScheduler(p) PROVE BorrowInv'
  BY <1>11 DEF StopScheduler
<1>12. ASSUME NEW p \in Daemons, CloseLink(p) PROVE BorrowInv'
  BY <1>12 DEF CloseLink
<1>13. ASSUME NEW p \in Daemons, Unlock(p) PROVE BorrowInv'
  BY <1>13 DEF Unlock
<1>14. ASSUME NEW p \in Daemons, Exit(p) PROVE BorrowInv'
  BY <1>14 DEF Exit, Gone
<1>15. ASSUME NEW p \in Daemons, Kill(p) PROVE BorrowInv'
  BY <1>15 DEF Kill, Gone
<1>16. ASSUME NEW p \in Daemons, Signal(p) PROVE BorrowInv'
  BY <1>16 DEF Signal
<1>17. ASSUME NEW p \in Daemons, TrayReady(p) PROVE BorrowInv'
  BY <1>17 DEF TrayReady
<1>18. ASSUME NEW p \in Daemons, TrayGivesUp(p) PROVE BorrowInv'
  BY <1>18 DEF TrayGivesUp
<1>19. ASSUME NEW p \in Daemons, TrayQuit(p) PROVE BorrowInv'
  BY <1>19 DEF TrayQuit
<1>20. ASSUME NEW p \in Daemons, TrayLeaves(p) PROVE BorrowInv'
  BY <1>20 DEF TrayLeaves
<1>21. ASSUME NEW p \in Daemons, DogDrops(p) PROVE BorrowInv'
  BY <1>21 DEF DogDrops
<1>22. ASSUME NEW p \in Daemons, DogConnects(p) PROVE BorrowInv'
  BY <1>22 DEF DogConnects
<1>23. ASSUME NEW p \in Daemons, Due(p) PROVE BorrowInv'
  BY <1>23 DEF Due
<1>24. ASSUME NEW p \in Daemons, RunTask(p) PROVE BorrowInv'
  BY <1>24 DEF RunTask
<1>25. ASSUME NEW p \in Daemons, FireOnLink(p) PROVE BorrowInv'
  BY <1>25 DEF FireOnLink
<1>26. ASSUME NEW p \in Daemons, FireEnds(p) PROVE BorrowInv'
  BY <1>26 DEF FireEnds
<1>27. ASSUME NEW c \in Commands, CmdBegin(c) PROVE BorrowInv'
  BY <1>27 DEF CmdBegin, CmdStep, CmdRest
<1>28. ASSUME NEW c \in Commands, CmdProbe(c) PROVE BorrowInv'
  BY <1>28 DEF CmdProbe, CmdStep, CmdRest
<1>29. ASSUME NEW c \in Commands, CmdCheck(c) PROVE BorrowInv'
  BY <1>29 DEF CmdCheck, CmdStep, CmdRest
<1>30. ASSUME NEW c \in Commands, CmdRelease(c) PROVE BorrowInv'
  BY <1>30 DEF CmdRelease, CmdStep, CmdRest
<1>31. ASSUME NEW c \in Commands, CmdConnect(c) PROVE BorrowInv'
  BY <1>31 DEF CmdConnect, CmdStep, CmdRest
<1>32. ASSUME NEW c \in Commands, CmdEnds(c) PROVE BorrowInv'
  BY <1>32 DEF CmdEnds, CmdStep, CmdRest
<1>33. CASE UNCHANGED vars
  BY <1>33 DEF vars
<1>34. QED
  BY <1>1, <1>2, <1>3, <1>4, <1>5, <1>6, <1>7, <1>8, <1>9, <1>10, <1>11, <1>12, <1>13,
     <1>14, <1>15, <1>16, <1>17, <1>18, <1>19, <1>20, <1>21, <1>22, <1>23, <1>24, <1>25, <1>26,
     <1>27, <1>28, <1>29, <1>30, <1>31, <1>32, <1>33
     DEF Next, Serve, Others, Fire, Command

LEMMA DirectStep ==
  ASSUME TypeOK, TypeOK', DirectInv, [Next]_vars
  PROVE  DirectInv'
<1> USE DaemonAssumption, Apart DEF DirectInv, Direct, TypeOK, Held, Goto, Slipped
<1>1. ASSUME NEW p \in Daemons, Launch(p) PROVE DirectInv'
  BY <1>1 DEF Launch
<1>2. ASSUME NEW p \in Daemons, Acquire(p) PROVE DirectInv'
  BY <1>2 DEF Acquire
<1>3. ASSUME NEW p \in Daemons, Refused(p) PROVE DirectInv'
  BY <1>3 DEF Refused
<1>4. ASSUME NEW p \in Daemons, OpenLink(p) PROVE DirectInv'
  BY <1>4 DEF OpenLink
<1>5. ASSUME NEW p \in Daemons, StartFails(p) PROVE DirectInv'
  BY <1>5 DEF StartFails
<1>6. ASSUME NEW p \in Daemons, StartScheduler(p) PROVE DirectInv'
  BY <1>6 DEF StartScheduler
<1>7. ASSUME NEW p \in Daemons, Register(p) PROVE DirectInv'
  BY <1>7 DEF Register
<1>8. ASSUME NEW p \in Daemons, StartWeb(p) PROVE DirectInv'
  BY <1>8 DEF StartWeb
<1>9. ASSUME NEW p \in Daemons, Unregister(p) PROVE DirectInv'
  BY <1>9 DEF Unregister
<1>10. ASSUME NEW p \in Daemons, StopWeb(p) PROVE DirectInv'
  BY <1>10 DEF StopWeb
<1>11. ASSUME NEW p \in Daemons, StopScheduler(p) PROVE DirectInv'
  BY <1>11 DEF StopScheduler
<1>12. ASSUME NEW p \in Daemons, CloseLink(p) PROVE DirectInv'
  BY <1>12 DEF CloseLink
<1>13. ASSUME NEW p \in Daemons, Unlock(p) PROVE DirectInv'
  BY <1>13 DEF Unlock
<1>14. ASSUME NEW p \in Daemons, Exit(p) PROVE DirectInv'
  BY <1>14 DEF Exit, Gone
<1>15. ASSUME NEW p \in Daemons, Kill(p) PROVE DirectInv'
  BY <1>15 DEF Kill, Gone
<1>16. ASSUME NEW p \in Daemons, Signal(p) PROVE DirectInv'
  BY <1>16 DEF Signal
<1>17. ASSUME NEW p \in Daemons, TrayReady(p) PROVE DirectInv'
  BY <1>17 DEF TrayReady
<1>18. ASSUME NEW p \in Daemons, TrayGivesUp(p) PROVE DirectInv'
  BY <1>18 DEF TrayGivesUp
<1>19. ASSUME NEW p \in Daemons, TrayQuit(p) PROVE DirectInv'
  BY <1>19 DEF TrayQuit
<1>20. ASSUME NEW p \in Daemons, TrayLeaves(p) PROVE DirectInv'
  BY <1>20 DEF TrayLeaves
<1>21. ASSUME NEW p \in Daemons, DogDrops(p) PROVE DirectInv'
  BY <1>21 DEF DogDrops
<1>22. ASSUME NEW p \in Daemons, DogConnects(p) PROVE DirectInv'
  BY <1>22 DEF DogConnects
<1>23. ASSUME NEW p \in Daemons, Due(p) PROVE DirectInv'
  BY <1>23 DEF Due
<1>24. ASSUME NEW p \in Daemons, RunTask(p) PROVE DirectInv'
  BY <1>24 DEF RunTask
<1>25. ASSUME NEW p \in Daemons, FireOnLink(p) PROVE DirectInv'
  BY <1>25 DEF FireOnLink
<1>26. ASSUME NEW p \in Daemons, FireEnds(p) PROVE DirectInv'
  BY <1>26 DEF FireEnds
<1>27. ASSUME NEW c \in Commands, CmdBegin(c) PROVE DirectInv'
  BY <1>27 DEF CmdBegin, CmdStep, CmdRest
<1>28. ASSUME NEW c \in Commands, CmdProbe(c) PROVE DirectInv'
  BY <1>28 DEF CmdProbe, CmdStep, CmdRest
<1>29. ASSUME NEW c \in Commands, CmdCheck(c) PROVE DirectInv'
  BY <1>29 DEF CmdCheck, CmdStep, CmdRest
<1>30. ASSUME NEW c \in Commands, CmdRelease(c) PROVE DirectInv'
  BY <1>30 DEF CmdRelease, CmdStep, CmdRest
<1>31. ASSUME NEW c \in Commands, CmdConnect(c) PROVE DirectInv'
  BY <1>31 DEF CmdConnect, CmdStep, CmdRest
<1>32. ASSUME NEW c \in Commands, CmdEnds(c) PROVE DirectInv'
  BY <1>32 DEF CmdEnds, CmdStep, CmdRest
<1>33. CASE UNCHANGED vars
  BY <1>33 DEF vars
<1>34. QED
  BY <1>1, <1>2, <1>3, <1>4, <1>5, <1>6, <1>7, <1>8, <1>9, <1>10, <1>11, <1>12, <1>13,
     <1>14, <1>15, <1>16, <1>17, <1>18, <1>19, <1>20, <1>21, <1>22, <1>23, <1>24, <1>25, <1>26,
     <1>27, <1>28, <1>29, <1>30, <1>31, <1>32, <1>33
     DEF Next, Serve, Others, Fire, Command

(* Types, and an instance lock that is never in the hands of a process     *)
(* that is gone or past it (daemon.py:47).                                 *)
THEOREM DaemonTypeCorrect == Spec => []TypeOK
<1>1. Init => TypeOK
  BY TypeInit
<1>2. TypeOK /\ [Next]_vars => TypeOK'
  BY TypeStep
<1>3. QED
  BY <1>1, <1>2, PTL DEF Spec

\* The invariant that the next two theorems rest on.
LEMMA ClientsInPlace == Spec => [](TypeOK /\ ClientInv)
<1>1. Init => TypeOK /\ ClientInv
  BY TypeInit
<1>2. (TypeOK /\ ClientInv) /\ [Next]_vars => (TypeOK /\ ClientInv)'
  BY TypeStep, PlaceStep, BorrowStep, DirectStep DEF ClientInv
<1>3. QED
  BY <1>1, <1>2, PTL DEF Spec

(* Whoever keeps the daemon's connection holds the instance lock           *)
(* (daemon.py:215, link.py:148), so a launch that gets it finds the        *)
(* printer free; until a close() while the watchdog connects, a job that   *)
(* uses the link after close(), or a start that fails after open().        *)
THEOREM LinkAlwaysLocked == Spec => []LockCoversLink
<1>1. TypeOK /\ ClientInv => LockCoversLink
  BY DEF TypeOK, ClientInv, PlaceInv, LockCoversLink, Opened, Held
<1>2. QED
  BY <1>1, ClientsInPlace, PTL

(* daemon.py:82: however many daemons are launched, stopped and killed,    *)
(* however many commands run beside them and jobs come due: outside the    *)
(* named moments the printer has one client.                               *)
THEOREM ClientAlwaysOne == Spec => []OneClient
<1>1. ASSUME TypeOK, ClientInv PROVE OneClient
  <2> SUFFICES ASSUME slips = {} PROVE Cardinality(conns) <= 1
    BY DEF OneClient
  <2>1. \A x \in conns : \/ \E p \in Daemons : x = Link(p) /\ lock = p
                         \/ \E c \in Commands : x = Own(c) /\ c \in Direct
    BY <1>1 DEF TypeOK, ClientInv, PlaceInv, BorrowInv, DirectInv, Direct, Opened, Held
  <2>2. \A x, y \in conns : x = y
    BY <1>1, <2>1 DEF ClientInv, DirectInv
  <2>3. CASE conns = {}
    BY <2>3, FS_EmptySet
  <2>4. CASE conns # {}
    <3>1. PICK x : conns = {x}
      BY <2>2, <2>4
    <3>2. QED
      BY <3>1, FS_Singleton
  <2>5. QED
    BY <2>3, <2>4
<1>2. QED
  BY <1>1, ClientsInPlace, PTL
=============================================================================
