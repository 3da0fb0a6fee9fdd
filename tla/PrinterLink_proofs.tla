------------------------ MODULE PrinterLink_proofs -------------------------
(* Theorems about PrinterLink, for every value of its constants: any number *)
(* of handlers and fires, whose calls overlap in any way.                  *)
EXTENDS PrinterLink, FiniteSetTheorems, TLAPS

\* The part of the invariant that speaks of the threads.
CallTypes ==
  /\ pc \in [Threads -> Pc] /\ job \in [Threads -> Job]
  /\ mine \in [Threads -> Conns \cup {NoTp}] /\ was \in [Threads -> BOOLEAN]
  /\ fresh \in [Threads -> Cfgs \cup {"none"}]
  /\ HandInv

\* A call that goes on to a step for which the thread is equipped.
LEMMA ProceedTypes ==
  ASSUME CallTypes, NEW x \in Threads, NEW label \in Pc, Proceed(x, label),
         label \in Handed => mine[x] \in Conns,
         label = "renew" => job[x] = "reconfigure"
  PROVE  CallTypes'
<1> USE DEF CallTypes, HandInv, Handed
<1>1. CASE label = "idle"
  <2>1. Return(x)
    BY <1>1 DEF Proceed
  <2>2. pc' \in [Threads -> Pc] /\ pc'[x] = "idle"
    BY <2>1 DEF Return, Pc
  <2>3. job' \in [Threads -> Job] /\ job'[x] = "none"
    BY <2>1 DEF Return, Job
  <2>4. mine' \in [Threads -> Conns \cup {NoTp}]
    BY <2>1 DEF Return, Hold
  <2>5. was' \in [Threads -> BOOLEAN] /\ fresh' \in [Threads -> Cfgs \cup {"none"}]
    BY <2>1 DEF Return
  <2>6. \A y \in Threads \ {x} : pc'[y] = pc[y] /\ job'[y] = job[y]
                                  /\ mine'[y] = mine[y] /\ fresh'[y] = fresh[y]
    BY <2>1 DEF Return, Hold
  <2>7. HandInv'
    BY <2>2, <2>3, <2>6
  <2>8. QED
    BY <2>2, <2>3, <2>4, <2>5, <2>7
<1>2. CASE label # "idle"
  BY <1>2 DEF Proceed, Goto
<1>3. QED
  BY <1>1, <1>2

LEMMA InitTypes == Init => TypeOK /\ HandInv
<1> SUFFICES ASSUME Init PROVE TypeOK /\ HandInv
  OBVIOUS
<1> USE LinkAssumption DEF Init
<1>1. open \subseteq Conns /\ filled \subseteq Conns /\ heard \subseteq Conns
  OBVIOUS
<1>2. cfgOf \in [Conns -> Cfgs] /\ snap \in Cfgs \cup {"none"} /\ live \in BOOLEAN
  OBVIOUS
<1>3. pc \in [Threads -> Pc] /\ job \in [Threads -> Job]
  BY DEF Pc, Job
<1>4. mine \in [Threads -> Conns \cup {NoTp}] /\ was \in [Threads -> BOOLEAN]
  OBVIOUS
<1>5. fresh \in [Threads -> Cfgs \cup {"none"}]
  OBVIOUS
<1>6. \A x \in Threads : pc[x] = "idle" /\ job[x] = "none"
  OBVIOUS
<1>7. HandInv
  BY <1>6 DEF HandInv, Handed
<1>8. QED
  BY <1>1, <1>2, <1>3, <1>4, <1>5, <1>7 DEF TypeOK

(* One step of anything keeps the types.                                   *)
LEMMA TypeStep == TypeOK /\ HandInv /\ [Next]_vars => TypeOK' /\ HandInv'
<1> SUFFICES ASSUME TypeOK, HandInv, [Next]_vars PROVE TypeOK' /\ HandInv'
  OBVIOUS
<1> USE LinkAssumption DEF TypeOK, HandInv, Handed, link, locks, wires, calls, Goto, Hold, Pc, Job
<1>0. crossed' \subseteq {"replaced", "used", "promised"}
  BY DEF Next, Overlaps, vars
<1>1. ASSUME NEW x \in Threads, Build(x) PROVE TypeOK' /\ HandInv'
  BY <1>0, <1>1 DEF Build, Unused
<1>2. ASSUME NEW x \in Threads, Publish(x) PROVE TypeOK' /\ HandInv'
  BY <1>0, <1>2 DEF Publish
<1>3. ASSUME NEW x \in Threads, ConnectDial(x) PROVE TypeOK' /\ HandInv'
  BY <1>0, <1>3 DEF ConnectDial, Dial
<1>4. ASSUME NEW x \in Threads, Adopt(x) PROVE TypeOK' /\ HandInv'
  <2>1. CallTypes /\ x \in Threads
    BY DEF CallTypes
  <2>2. CallTypes'
    BY <1>4, <2>1, ProceedTypes DEF Adopt, AfterConnect
  <2>3. QED
    BY <1>0, <1>4, <2>2 DEF Adopt, CallTypes
<1>5. ASSUME NEW x \in Threads, Drop(x) PROVE TypeOK' /\ HandInv'
  <2>1. CASE tp = NoTp
    <3>1. CallTypes
      BY DEF CallTypes
    <3>2. AfterDrop(x) \in Pc \ Handed /\ (AfterDrop(x) = "renew" => job[x] = "reconfigure")
      BY DEF AfterDrop
    <3>3. CallTypes'
      BY <1>5, <2>1, <3>1, <3>2, ProceedTypes DEF Drop
    <3>4. QED
      BY <1>0, <1>5, <3>3 DEF Drop, CallTypes
  <2>2. CASE tp # NoTp
    BY <1>0, <1>5, <2>2 DEF Drop
  <2>3. QED
    BY <2>1, <2>2
<1>6. ASSUME NEW x \in Threads, Hangup(x) PROVE TypeOK' /\ HandInv'
  <2>1. CallTypes /\ x \in Threads
    BY DEF CallTypes
  <2>2. CallTypes'
    BY <1>6, <2>1, ProceedTypes DEF Hangup, AfterDrop
  <2>3. QED
    BY <1>0, <1>6, <2>2 DEF Hangup, CallTypes
<1>7. ASSUME NEW x \in Threads, Resume(x) PROVE TypeOK' /\ HandInv'
  <2>1. CallTypes /\ x \in Threads
    BY DEF CallTypes
  <2>2. CallTypes'
    BY <1>7, <2>1, ProceedTypes DEF Resume, AfterConnect
  <2>3. QED
    BY <1>0, <1>7, <2>2 DEF Resume, CallTypes
<1>8. ASSUME NEW x \in Threads, Refresh(x) PROVE TypeOK' /\ HandInv'
  BY <1>0, <1>8 DEF Refresh, Dial, Return
<1>9. ASSUME NEW x \in Threads, Enter(x) PROVE TypeOK' /\ HandInv'
  <2>1. CallTypes /\ x \in Threads
    BY DEF CallTypes
  <2>2. CallTypes'
    BY <1>9, <2>1, ProceedTypes DEF Enter
  <2>3. QED
    BY <1>0, <1>9, <2>2 DEF Enter, CallTypes
<1>10. ASSUME NEW x \in Threads, Take(x) PROVE TypeOK' /\ HandInv'
  BY <1>0, <1>10 DEF Take
<1>11. ASSUME NEW x \in Threads, Use(x) PROVE TypeOK' /\ HandInv'
  BY <1>0, <1>11 DEF Use, Dial
<1>12. ASSUME NEW x \in Threads, Leave(x) PROVE TypeOK' /\ HandInv'
  BY <1>0, <1>12 DEF Leave, Return
<1>13. ASSUME NEW x \in Threads, Trial(x) PROVE TypeOK' /\ HandInv'
  BY <1>0, <1>13 DEF Trial, Unused, Dial
<1>14. ASSUME NEW x \in Threads, Probed(x) PROVE TypeOK' /\ HandInv'
  <2>1. CallTypes /\ x \in Threads
    BY DEF CallTypes
  <2>2. CallTypes'
    BY <1>14, <2>1, ProceedTypes DEF Probed
  <2>3. QED
    BY <1>0, <1>14, <2>2 DEF Probed, CallTypes
<1>15. ASSUME NEW x \in Threads, Restore(x) PROVE TypeOK' /\ HandInv'
  <2>1. CallTypes /\ x \in Threads
    BY DEF CallTypes
  <2>2. CallTypes'
    BY <1>15, <2>1, ProceedTypes DEF Restore
  <2>3. QED
    BY <1>0, <1>15, <2>2 DEF Restore, CallTypes
<1>16. ASSUME NEW x \in Threads, Unprobe(x) PROVE TypeOK' /\ HandInv'
  <2>1. CallTypes
    BY DEF CallTypes
  <2>2. Return(x) => Proceed(x, "idle")
    BY DEF Proceed
  <2>3. CallTypes'
    BY <1>16, <2>1, <2>2, ProceedTypes DEF Unprobe
  <2>4. QED
    BY <1>0, <1>16, <2>3 DEF Unprobe, CallTypes
<1>17. ASSUME NEW x \in Threads, Reload(x) PROVE TypeOK' /\ HandInv'
  BY <1>0, <1>17 DEF Reload
<1>18. ASSUME NEW x \in Threads, Renew(x) PROVE TypeOK' /\ HandInv'
  <2>1. CallTypes /\ fresh[x] \in Cfgs
    BY <1>18 DEF CallTypes, Renew
  <2>2. CallTypes'
    BY <1>18, <2>1, ProceedTypes DEF Renew
  <2>3. QED
    BY <1>0, <1>18, <2>1, <2>2 DEF Renew, CallTypes
<1>19. ASSUME NEW u \in Users, AskYield(u) PROVE TypeOK' /\ HandInv'
  BY <1>0, <1>19 DEF AskYield, Call, YieldIt
<1>20. ASSUME NEW u \in Users, AskResume(u) PROVE TypeOK' /\ HandInv'
  BY <1>0, <1>20 DEF AskResume, Call
<1>21. ASSUME NEW x \in Threads, AskRefresh(x, "refresh") PROVE TypeOK' /\ HandInv'
  BY <1>0, <1>21 DEF AskRefresh, Call
<1>22. ASSUME NEW u \in Users, NEW j \in {"probe", "patch"}, Probe(u, j) PROVE TypeOK' /\ HandInv'
  BY <1>0, <1>22 DEF Probe, Call, YieldIt
<1>23. ASSUME NEW x \in Threads, NEW j \in {"upload", "fire"}, Borrow(x, j) PROVE TypeOK' /\ HandInv'
  BY <1>0, <1>23 DEF Borrow, Call
<1>24. ASSUME Watch PROVE TypeOK' /\ HandInv'
  BY <1>0, <1>24 DEF Watch, Call
<1>25. ASSUME NEW k \in Conns, OnReport(k) PROVE TypeOK' /\ HandInv'
  BY <1>0, <1>25 DEF OnReport
<1>26. ASSUME Silence PROVE TypeOK' /\ HandInv'
  BY <1>0, <1>26 DEF Silence
<1>27. ASSUME PrinterGoes PROVE TypeOK' /\ HandInv'
  BY <1>0, <1>27 DEF PrinterGoes
<1>28. CASE UNCHANGED vars
  BY <1>0, <1>28 DEF vars
<1>29. QED
  BY <1>1, <1>2, <1>3, <1>4, <1>5, <1>6, <1>7, <1>8, <1>9, <1>10, <1>11, <1>12, <1>13, <1>14, <1>15, <1>16, <1>17, <1>18, <1>19, <1>20, <1>21, <1>22, <1>23, <1>24, <1>25, <1>26, <1>27, <1>28
  DEF Next, Step, Working, Connecting, Dropping, Session, Probing, Ask, WatchPull, Threads

(* No step makes the link's transport deaf.                                *)
LEMMA HeldStep == TypeOK /\ HandInv /\ HeldInv /\ [Next]_vars => HeldInv'
<1> SUFFICES ASSUME TypeOK, HandInv, HeldInv, [Next]_vars PROVE HeldInv'
  OBVIOUS
<1> USE LinkAssumption DEF TypeOK, HandInv, Handed, HeldInv, HeldIsHeard, link, locks, wires, calls, Goto, Hold, Proceed, Return, Pc
<1>1. ASSUME NEW x \in Threads, Build(x) PROVE HeldInv'
  BY <1>1 DEF Build, Unused
<1>2. ASSUME NEW x \in Threads, Publish(x) PROVE HeldInv'
  BY <1>2 DEF Publish
<1>3. ASSUME NEW x \in Threads, ConnectDial(x) PROVE HeldInv'
  BY <1>3 DEF ConnectDial, Dial
<1>4. ASSUME NEW x \in Threads, Adopt(x) PROVE HeldInv'
  BY <1>4 DEF Adopt, AfterConnect
<1>5. ASSUME NEW x \in Threads, Drop(x) PROVE HeldInv'
  BY <1>5 DEF Drop, AfterDrop
<1>6. ASSUME NEW x \in Threads, Hangup(x) PROVE HeldInv'
  BY <1>6 DEF Hangup, AfterDrop
<1>7. ASSUME NEW x \in Threads, Resume(x) PROVE HeldInv'
  BY <1>7 DEF Resume, AfterConnect
<1>8. ASSUME NEW x \in Threads, Refresh(x) PROVE HeldInv'
  BY <1>8 DEF Refresh, Dial
<1>9. ASSUME NEW x \in Threads, Enter(x) PROVE HeldInv'
  BY <1>9 DEF Enter
<1>10. ASSUME NEW x \in Threads, Take(x) PROVE HeldInv'
  BY <1>10 DEF Take
<1>11. ASSUME NEW x \in Threads, Use(x) PROVE HeldInv'
  BY <1>11 DEF Use, Dial
<1>12. ASSUME NEW x \in Threads, Leave(x) PROVE HeldInv'
  BY <1>12 DEF Leave
<1>13. ASSUME NEW x \in Threads, Trial(x) PROVE HeldInv'
  BY <1>13 DEF Trial, Unused, Dial
<1>14. ASSUME NEW x \in Threads, Probed(x) PROVE HeldInv'
  BY <1>14 DEF Probed
<1>15. ASSUME NEW x \in Threads, Restore(x) PROVE HeldInv'
  BY <1>15 DEF Restore
<1>16. ASSUME NEW x \in Threads, Unprobe(x) PROVE HeldInv'
  BY <1>16 DEF Unprobe
<1>17. ASSUME NEW x \in Threads, Reload(x) PROVE HeldInv'
  BY <1>17 DEF Reload
<1>18. ASSUME NEW x \in Threads, Renew(x) PROVE HeldInv'
  BY <1>18 DEF Renew
<1>19. ASSUME NEW u \in Users, AskYield(u) PROVE HeldInv'
  BY <1>19 DEF AskYield, Call, YieldIt
<1>20. ASSUME NEW u \in Users, AskResume(u) PROVE HeldInv'
  BY <1>20 DEF AskResume, Call
<1>21. ASSUME NEW x \in Threads, AskRefresh(x, "refresh") PROVE HeldInv'
  BY <1>21 DEF AskRefresh, Call
<1>22. ASSUME NEW u \in Users, NEW j \in {"probe", "patch"}, Probe(u, j) PROVE HeldInv'
  BY <1>22 DEF Probe, Call, YieldIt
<1>23. ASSUME NEW x \in Threads, NEW j \in {"upload", "fire"}, Borrow(x, j) PROVE HeldInv'
  BY <1>23 DEF Borrow, Call
<1>24. ASSUME Watch PROVE HeldInv'
  BY <1>24 DEF Watch, Call
<1>25. ASSUME NEW k \in Conns, OnReport(k) PROVE HeldInv'
  BY <1>25 DEF OnReport
<1>26. ASSUME Silence PROVE HeldInv'
  BY <1>26 DEF Silence
<1>27. ASSUME PrinterGoes PROVE HeldInv'
  BY <1>27 DEF PrinterGoes
<1>28. CASE UNCHANGED vars
  BY <1>28 DEF vars
<1>29. QED
  BY <1>1, <1>2, <1>3, <1>4, <1>5, <1>6, <1>7, <1>8, <1>9, <1>10, <1>11, <1>12, <1>13, <1>14, <1>15, <1>16, <1>17, <1>18, <1>19, <1>20, <1>21, <1>22, <1>23, <1>24, <1>25, <1>26, <1>27, <1>28
  DEF Next, Step, Working, Connecting, Dropping, Session, Probing, Ask, WatchPull, Threads

(* Type correctness, however the calls of handlers, fires and the watchdog *)
(* overlap; in particular nobody uses a transport that is not there.       *)
THEOREM LinkTypeCorrect == Spec => []TypeOK
<1>1. Init => TypeOK /\ HandInv
  BY InitTypes
<1>2. TypeOK /\ HandInv /\ [Next]_vars => (TypeOK /\ HandInv)'
  BY TypeStep
<1>3. QED
  BY <1>1, <1>2, PTL DEF Spec

(* The transport PrinterLink holds reports to it, whoever connects, drops  *)
(* or reconfigures at the same time.                                       *)
THEOREM LinkHeldIsHeard == Spec => []HeldIsHeard
<1>1. Init => TypeOK /\ HandInv /\ HeldInv
  <2>1. Init => TypeOK /\ HandInv
    BY InitTypes
  <2>2. Init => HeldInv
    BY DEF Init, HeldInv, HeldIsHeard
  <2>3. QED
    BY <2>1, <2>2
<1>2. TypeOK /\ HandInv /\ HeldInv /\ [Next]_vars => (TypeOK /\ HandInv /\ HeldInv)'
  BY TypeStep, HeldStep
<1>3. HeldInv => HeldIsHeard
  BY DEF HeldInv
<1>4. QED
  BY <1>1, <1>2, <1>3, PTL DEF Spec

(* A thread that does nothing has no call, a session is a fire's or an     *)
(* upload's, and a probe takes back what was not yielded before it.        *)
LEMMA CallStep ==
  ASSUME TypeOK, HandInv, CallInv, Step
  PROVE  CallInv'
<1> USE LinkAssumption DEF TypeOK, HandInv, Handed, Busy, Goto, Hold, Proceed, Return,
        link, locks, wires, calls, Pc, Job, CallInv
<1>1. ASSUME NEW x \in Threads, Build(x) PROVE CallInv'
  BY <1>1 DEF Build, Unused
<1>2. ASSUME NEW x \in Threads, Publish(x) PROVE CallInv'
  BY <1>2 DEF Publish
<1>3. ASSUME NEW x \in Threads, ConnectDial(x) PROVE CallInv'
  BY <1>3 DEF ConnectDial, Dial
<1>4. ASSUME NEW x \in Threads, Adopt(x) PROVE CallInv'
  BY <1>4 DEF Adopt, AfterConnect
<1>5. ASSUME NEW x \in Threads, Drop(x) PROVE CallInv'
  BY <1>5 DEF Drop, AfterDrop
<1>6. ASSUME NEW x \in Threads, Hangup(x) PROVE CallInv'
  BY <1>6 DEF Hangup, AfterDrop
<1>7. ASSUME NEW x \in Threads, Resume(x) PROVE CallInv'
  BY <1>7 DEF Resume, AfterConnect
<1>8. ASSUME NEW x \in Threads, Refresh(x) PROVE CallInv'
  BY <1>8 DEF Refresh, Dial
<1>9. ASSUME NEW x \in Threads, Enter(x) PROVE CallInv'
  BY <1>9 DEF Enter
<1>10. ASSUME NEW x \in Threads, Take(x) PROVE CallInv'
  BY <1>10 DEF Take
<1>11. ASSUME NEW x \in Threads, Use(x) PROVE CallInv'
  BY <1>11 DEF Use, Dial
<1>12. ASSUME NEW x \in Threads, Leave(x) PROVE CallInv'
  BY <1>12 DEF Leave
<1>13. ASSUME NEW x \in Threads, Trial(x) PROVE CallInv'
  BY <1>13 DEF Trial, Unused, Dial
<1>14. ASSUME NEW x \in Threads, Probed(x) PROVE CallInv'
  BY <1>14 DEF Probed
<1>15. ASSUME NEW x \in Threads, Restore(x) PROVE CallInv'
  BY <1>15 DEF Restore
<1>16. ASSUME NEW x \in Threads, Unprobe(x) PROVE CallInv'
  BY <1>16 DEF Unprobe
<1>17. ASSUME NEW x \in Threads, Reload(x) PROVE CallInv'
  BY <1>17 DEF Reload
<1>18. ASSUME NEW x \in Threads, Renew(x) PROVE CallInv'
  BY <1>18 DEF Renew
<1>19. ASSUME NEW x \in Users, AskYield(x) PROVE CallInv'
  BY <1>19 DEF AskYield, Call, YieldIt, Threads
<1>20. ASSUME NEW x \in Users, AskResume(x) PROVE CallInv'
  BY <1>20 DEF AskResume, Call, Threads
<1>21. ASSUME NEW x \in Threads, AskRefresh(x, "refresh") PROVE CallInv'
  BY <1>21 DEF AskRefresh, Call
<1>22. ASSUME NEW x \in Users, NEW j \in {"probe", "patch"}, Probe(x, j) PROVE CallInv'
  BY <1>22 DEF Probe, Call, YieldIt, Threads
<1>23. ASSUME NEW x \in Threads, NEW j \in {"upload", "fire"}, Borrow(x, j) PROVE CallInv'
  BY <1>23 DEF Borrow, Call
<1>24. ASSUME Watch PROVE CallInv'
  BY <1>24 DEF Watch, Call, Threads
<1>25. ASSUME NEW k \in Conns, OnReport(k) PROVE CallInv'
  BY <1>25 DEF OnReport
<1>26. ASSUME Silence PROVE CallInv'
  BY <1>26 DEF Silence
<1>27. ASSUME PrinterGoes PROVE CallInv'
  BY <1>27 DEF PrinterGoes
<1>28. QED
  BY <1>1, <1>2, <1>3, <1>4, <1>5, <1>6, <1>7, <1>8, <1>9, <1>10, <1>11, <1>12, <1>13, <1>14, <1>15, <1>16, <1>17, <1>18, <1>19, <1>20, <1>21, <1>22, <1>23, <1>24, <1>25, <1>26, <1>27
  DEF Step, Working, Connecting, Dropping, Session, Probing, Ask, WatchPull, Threads

(* Who uses a transport uses the link's, unless another replaced it.       *)
LEMMA UseStep ==
  ASSUME TypeOK, HandInv, UseInv, NoneUsed, NoneUsed', Step
  PROVE  UseInv'
<1> USE LinkAssumption DEF TypeOK, HandInv, Handed, Busy, Goto, Hold, Proceed, Return,
        link, locks, wires, calls, Pc, Job, UseInv, NoneUsed, Uses, Replaces, Apart, WithIt
<1>1. ASSUME NEW x \in Threads, Build(x) PROVE UseInv'
  BY <1>1 DEF Build, Unused
<1>2. ASSUME NEW x \in Threads, Publish(x) PROVE UseInv'
  BY <1>2 DEF Publish
<1>3. ASSUME NEW x \in Threads, ConnectDial(x) PROVE UseInv'
  BY <1>3 DEF ConnectDial, Dial
<1>4. ASSUME NEW x \in Threads, Adopt(x) PROVE UseInv'
  BY <1>4 DEF Adopt, AfterConnect
<1>5. ASSUME NEW x \in Threads, Drop(x) PROVE UseInv'
  BY <1>5 DEF Drop, AfterDrop
<1>6. ASSUME NEW x \in Threads, Hangup(x) PROVE UseInv'
  BY <1>6 DEF Hangup, AfterDrop
<1>7. ASSUME NEW x \in Threads, Resume(x) PROVE UseInv'
  BY <1>7 DEF Resume, AfterConnect
<1>8. ASSUME NEW x \in Threads, Refresh(x) PROVE UseInv'
  BY <1>8 DEF Refresh, Dial
<1>9. ASSUME NEW x \in Threads, Enter(x) PROVE UseInv'
  BY <1>9 DEF Enter
<1>10. ASSUME NEW x \in Threads, Take(x) PROVE UseInv'
  BY <1>10 DEF Take
<1>11. ASSUME NEW x \in Threads, Use(x) PROVE UseInv'
  BY <1>11 DEF Use, Dial
<1>12. ASSUME NEW x \in Threads, Leave(x) PROVE UseInv'
  BY <1>12 DEF Leave
<1>13. ASSUME NEW x \in Threads, Trial(x) PROVE UseInv'
  BY <1>13 DEF Trial, Unused, Dial
<1>14. ASSUME NEW x \in Threads, Probed(x) PROVE UseInv'
  BY <1>14 DEF Probed
<1>15. ASSUME NEW x \in Threads, Restore(x) PROVE UseInv'
  BY <1>15 DEF Restore
<1>16. ASSUME NEW x \in Threads, Unprobe(x) PROVE UseInv'
  BY <1>16 DEF Unprobe
<1>17. ASSUME NEW x \in Threads, Reload(x) PROVE UseInv'
  BY <1>17 DEF Reload
<1>18. ASSUME NEW x \in Threads, Renew(x) PROVE UseInv'
  BY <1>18 DEF Renew
<1>19. ASSUME NEW x \in Users, AskYield(x) PROVE UseInv'
  BY <1>19 DEF AskYield, Call, YieldIt, Threads
<1>20. ASSUME NEW x \in Users, AskResume(x) PROVE UseInv'
  BY <1>20 DEF AskResume, Call, Threads
<1>21. ASSUME NEW x \in Threads, AskRefresh(x, "refresh") PROVE UseInv'
  BY <1>21 DEF AskRefresh, Call
<1>22. ASSUME NEW x \in Users, NEW j \in {"probe", "patch"}, Probe(x, j) PROVE UseInv'
  BY <1>22 DEF Probe, Call, YieldIt, Threads
<1>23. ASSUME NEW x \in Threads, NEW j \in {"upload", "fire"}, Borrow(x, j) PROVE UseInv'
  BY <1>23 DEF Borrow, Call
<1>24. ASSUME Watch PROVE UseInv'
  BY <1>24 DEF Watch, Call, Threads
<1>25. ASSUME NEW k \in Conns, OnReport(k) PROVE UseInv'
  BY <1>25 DEF OnReport
<1>26. ASSUME Silence PROVE UseInv'
  BY <1>26 DEF Silence
<1>27. ASSUME PrinterGoes PROVE UseInv'
  BY <1>27 DEF PrinterGoes
<1>28. QED
  BY <1>1, <1>2, <1>3, <1>4, <1>5, <1>6, <1>7, <1>8, <1>9, <1>10, <1>11, <1>12, <1>13, <1>14, <1>15, <1>16, <1>17, <1>18, <1>19, <1>20, <1>21, <1>22, <1>23, <1>24, <1>25, <1>26, <1>27
  DEF Step, Working, Connecting, Dropping, Session, Probing, Ask, WatchPull, Threads

(* Only a probe under way undoes what a user was promised.                 *)
LEMMA BackStep ==
  ASSUME TypeOK, HandInv, CallInv, BackInv, NoneBack, Step
  PROVE  BackInv'
<1> USE LinkAssumption DEF TypeOK, HandInv, Handed, Busy, Goto, Hold, Proceed, Return,
        link, locks, wires, calls, Pc, Job, CallInv, BackInv, NoneBack, TakesBack
<1>1. ASSUME NEW x \in Threads, Build(x) PROVE BackInv'
  BY <1>1 DEF Build, Unused
<1>2. ASSUME NEW x \in Threads, Publish(x) PROVE BackInv'
  BY <1>2 DEF Publish
<1>3. ASSUME NEW x \in Threads, ConnectDial(x) PROVE BackInv'
  BY <1>3 DEF ConnectDial, Dial
<1>4. ASSUME NEW x \in Threads, Adopt(x) PROVE BackInv'
  BY <1>4 DEF Adopt, AfterConnect
<1>5. ASSUME NEW x \in Threads, Drop(x) PROVE BackInv'
  BY <1>5 DEF Drop, AfterDrop
<1>6. ASSUME NEW x \in Threads, Hangup(x) PROVE BackInv'
  BY <1>6 DEF Hangup, AfterDrop
<1>7. ASSUME NEW x \in Threads, Resume(x) PROVE BackInv'
  BY <1>7 DEF Resume, AfterConnect
<1>8. ASSUME NEW x \in Threads, Refresh(x) PROVE BackInv'
  BY <1>8 DEF Refresh, Dial
<1>9. ASSUME NEW x \in Threads, Enter(x) PROVE BackInv'
  BY <1>9 DEF Enter
<1>10. ASSUME NEW x \in Threads, Take(x) PROVE BackInv'
  BY <1>10 DEF Take
<1>11. ASSUME NEW x \in Threads, Use(x) PROVE BackInv'
  BY <1>11 DEF Use, Dial
<1>12. ASSUME NEW x \in Threads, Leave(x) PROVE BackInv'
  BY <1>12 DEF Leave
<1>13. ASSUME NEW x \in Threads, Trial(x) PROVE BackInv'
  BY <1>13 DEF Trial, Unused, Dial
<1>14. ASSUME NEW x \in Threads, Probed(x) PROVE BackInv'
  BY <1>14 DEF Probed
<1>15. ASSUME NEW x \in Threads, Restore(x) PROVE BackInv'
  BY <1>15 DEF Restore
<1>16. ASSUME NEW x \in Threads, Unprobe(x) PROVE BackInv'
  BY <1>16 DEF Unprobe
<1>17. ASSUME NEW x \in Threads, Reload(x) PROVE BackInv'
  BY <1>17 DEF Reload
<1>18. ASSUME NEW x \in Threads, Renew(x) PROVE BackInv'
  BY <1>18 DEF Renew
<1>19. ASSUME NEW x \in Users, AskYield(x) PROVE BackInv'
  BY <1>19 DEF AskYield, Call, YieldIt, Threads
<1>20. ASSUME NEW x \in Users, AskResume(x) PROVE BackInv'
  BY <1>20 DEF AskResume, Call, Threads
<1>21. ASSUME NEW x \in Threads, AskRefresh(x, "refresh") PROVE BackInv'
  BY <1>21 DEF AskRefresh, Call
<1>22. ASSUME NEW x \in Users, NEW j \in {"probe", "patch"}, Probe(x, j) PROVE BackInv'
  BY <1>22 DEF Probe, Call, YieldIt, Threads
<1>23. ASSUME NEW x \in Threads, NEW j \in {"upload", "fire"}, Borrow(x, j) PROVE BackInv'
  BY <1>23 DEF Borrow, Call
<1>24. ASSUME Watch PROVE BackInv'
  BY <1>24 DEF Watch, Call, Threads
<1>25. ASSUME NEW k \in Conns, OnReport(k) PROVE BackInv'
  BY <1>25 DEF OnReport
<1>26. ASSUME Silence PROVE BackInv'
  BY <1>26 DEF Silence
<1>27. ASSUME PrinterGoes PROVE BackInv'
  BY <1>27 DEF PrinterGoes
<1>28. QED
  BY <1>1, <1>2, <1>3, <1>4, <1>5, <1>6, <1>7, <1>8, <1>9, <1>10, <1>11, <1>12, <1>13, <1>14, <1>15, <1>16, <1>17, <1>18, <1>19, <1>20, <1>21, <1>22, <1>23, <1>24, <1>25, <1>26, <1>27
  DEF Step, Working, Connecting, Dropping, Session, Probing, Ask, WatchPull, Threads

(* While one thread replaces the connection the link has none, and it does *)
(* not make one that is yielded.                                           *)
LEMMA ReplaceStep ==
  ASSUME TypeOK, HandInv, ReplaceInv, OneReplaces, OneReplaces', Step
  PROVE  ReplaceInv'
<1> USE LinkAssumption DEF TypeOK, HandInv, Handed, Busy, Goto, Hold, Proceed, Return,
        link, locks, wires, calls, Pc, Job, ReplaceInv, OneReplaces, Replaces, Apart
<1>1. ASSUME NEW x \in Threads, Build(x) PROVE ReplaceInv'
  BY <1>1 DEF Build, Unused
<1>2. ASSUME NEW x \in Threads, Publish(x) PROVE ReplaceInv'
  BY <1>2 DEF Publish
<1>3. ASSUME NEW x \in Threads, ConnectDial(x) PROVE ReplaceInv'
  BY <1>3 DEF ConnectDial, Dial
<1>4. ASSUME NEW x \in Threads, Adopt(x) PROVE ReplaceInv'
  BY <1>4 DEF Adopt, AfterConnect
<1>5. ASSUME NEW x \in Threads, Drop(x) PROVE ReplaceInv'
  BY <1>5 DEF Drop, AfterDrop
<1>6. ASSUME NEW x \in Threads, Hangup(x) PROVE ReplaceInv'
  BY <1>6 DEF Hangup, AfterDrop
<1>7. ASSUME NEW x \in Threads, Resume(x) PROVE ReplaceInv'
  BY <1>7 DEF Resume, AfterConnect
<1>8. ASSUME NEW x \in Threads, Refresh(x) PROVE ReplaceInv'
  BY <1>8 DEF Refresh, Dial
<1>9. ASSUME NEW x \in Threads, Enter(x) PROVE ReplaceInv'
  BY <1>9 DEF Enter
<1>10. ASSUME NEW x \in Threads, Take(x) PROVE ReplaceInv'
  BY <1>10 DEF Take
<1>11. ASSUME NEW x \in Threads, Use(x) PROVE ReplaceInv'
  BY <1>11 DEF Use, Dial
<1>12. ASSUME NEW x \in Threads, Leave(x) PROVE ReplaceInv'
  BY <1>12 DEF Leave
<1>13. ASSUME NEW x \in Threads, Trial(x) PROVE ReplaceInv'
  BY <1>13 DEF Trial, Unused, Dial
<1>14. ASSUME NEW x \in Threads, Probed(x) PROVE ReplaceInv'
  BY <1>14 DEF Probed
<1>15. ASSUME NEW x \in Threads, Restore(x) PROVE ReplaceInv'
  BY <1>15 DEF Restore
<1>16. ASSUME NEW x \in Threads, Unprobe(x) PROVE ReplaceInv'
  BY <1>16 DEF Unprobe
<1>17. ASSUME NEW x \in Threads, Reload(x) PROVE ReplaceInv'
  BY <1>17 DEF Reload
<1>18. ASSUME NEW x \in Threads, Renew(x) PROVE ReplaceInv'
  BY <1>18 DEF Renew
<1>19. ASSUME NEW x \in Users, AskYield(x) PROVE ReplaceInv'
  BY <1>19 DEF AskYield, Call, YieldIt, Threads
<1>20. ASSUME NEW x \in Users, AskResume(x) PROVE ReplaceInv'
  BY <1>20 DEF AskResume, Call, Threads
<1>21. ASSUME NEW x \in Threads, AskRefresh(x, "refresh") PROVE ReplaceInv'
  BY <1>21 DEF AskRefresh, Call
<1>22. ASSUME NEW x \in Users, NEW j \in {"probe", "patch"}, Probe(x, j) PROVE ReplaceInv'
  BY <1>22 DEF Probe, Call, YieldIt, Threads
<1>23. ASSUME NEW x \in Threads, NEW j \in {"upload", "fire"}, Borrow(x, j) PROVE ReplaceInv'
  BY <1>23 DEF Borrow, Call
<1>24. ASSUME Watch PROVE ReplaceInv'
  BY <1>24 DEF Watch, Call, Threads
<1>25. ASSUME NEW k \in Conns, OnReport(k) PROVE ReplaceInv'
  BY <1>25 DEF OnReport
<1>26. ASSUME Silence PROVE ReplaceInv'
  BY <1>26 DEF Silence
<1>27. ASSUME PrinterGoes PROVE ReplaceInv'
  BY <1>27 DEF PrinterGoes
<1>28. QED
  BY <1>1, <1>2, <1>3, <1>4, <1>5, <1>6, <1>7, <1>8, <1>9, <1>10, <1>11, <1>12, <1>13, <1>14, <1>15, <1>16, <1>17, <1>18, <1>19, <1>20, <1>21, <1>22, <1>23, <1>24, <1>25, <1>26, <1>27
  DEF Step, Working, Connecting, Dropping, Session, Probing, Ask, WatchPull, Threads

(* What is open is the link's, or is being closed, or is a probe's.        *)
LEMMA OpenStep ==
  ASSUME TypeOK, HandInv, OneReplaces, OneReplaces', ReplaceInv, UseInv, OpenInv, Step
  PROVE  OpenInv'
<1> USE LinkAssumption DEF TypeOK, HandInv, Handed, Busy, Goto, Hold, Proceed, Return,
        link, locks, wires, calls, Pc, Job, ReplaceInv, UseInv, OpenInv, OneReplaces, Replaces, Apart, WithIt
<1>1. ASSUME NEW x \in Threads, Build(x) PROVE OpenInv'
  BY <1>1 DEF Build, Unused
<1>2. ASSUME NEW x \in Threads, Publish(x) PROVE OpenInv'
  BY <1>2 DEF Publish
<1>3. ASSUME NEW x \in Threads, ConnectDial(x) PROVE OpenInv'
  BY <1>3 DEF ConnectDial, Dial
<1>4. ASSUME NEW x \in Threads, Adopt(x) PROVE OpenInv'
  BY <1>4 DEF Adopt, AfterConnect
<1>5. ASSUME NEW x \in Threads, Drop(x) PROVE OpenInv'
  BY <1>5 DEF Drop, AfterDrop
<1>6. ASSUME NEW x \in Threads, Hangup(x) PROVE OpenInv'
  BY <1>6 DEF Hangup, AfterDrop
<1>7. ASSUME NEW x \in Threads, Resume(x) PROVE OpenInv'
  BY <1>7 DEF Resume, AfterConnect
<1>8. ASSUME NEW x \in Threads, Refresh(x) PROVE OpenInv'
  BY <1>8 DEF Refresh, Dial
<1>9. ASSUME NEW x \in Threads, Enter(x) PROVE OpenInv'
  BY <1>9 DEF Enter
<1>10. ASSUME NEW x \in Threads, Take(x) PROVE OpenInv'
  BY <1>10 DEF Take
<1>11. ASSUME NEW x \in Threads, Use(x) PROVE OpenInv'
  BY <1>11 DEF Use, Dial
<1>12. ASSUME NEW x \in Threads, Leave(x) PROVE OpenInv'
  BY <1>12 DEF Leave
<1>13. ASSUME NEW x \in Threads, Trial(x) PROVE OpenInv'
  BY <1>13 DEF Trial, Unused, Dial
<1>14. ASSUME NEW x \in Threads, Probed(x) PROVE OpenInv'
  BY <1>14 DEF Probed
<1>15. ASSUME NEW x \in Threads, Restore(x) PROVE OpenInv'
  BY <1>15 DEF Restore
<1>16. ASSUME NEW x \in Threads, Unprobe(x) PROVE OpenInv'
  BY <1>16 DEF Unprobe
<1>17. ASSUME NEW x \in Threads, Reload(x) PROVE OpenInv'
  BY <1>17 DEF Reload
<1>18. ASSUME NEW x \in Threads, Renew(x) PROVE OpenInv'
  BY <1>18 DEF Renew
<1>19. ASSUME NEW x \in Users, AskYield(x) PROVE OpenInv'
  BY <1>19 DEF AskYield, Call, YieldIt, Threads
<1>20. ASSUME NEW x \in Users, AskResume(x) PROVE OpenInv'
  BY <1>20 DEF AskResume, Call, Threads
<1>21. ASSUME NEW x \in Threads, AskRefresh(x, "refresh") PROVE OpenInv'
  BY <1>21 DEF AskRefresh, Call
<1>22. ASSUME NEW x \in Users, NEW j \in {"probe", "patch"}, Probe(x, j) PROVE OpenInv'
  BY <1>22 DEF Probe, Call, YieldIt, Threads
<1>23. ASSUME NEW x \in Threads, NEW j \in {"upload", "fire"}, Borrow(x, j) PROVE OpenInv'
  BY <1>23 DEF Borrow, Call
<1>24. ASSUME Watch PROVE OpenInv'
  BY <1>24 DEF Watch, Call, Threads
<1>25. ASSUME NEW k \in Conns, OnReport(k) PROVE OpenInv'
  BY <1>25 DEF OnReport
<1>26. ASSUME Silence PROVE OpenInv'
  BY <1>26 DEF Silence
<1>27. ASSUME PrinterGoes PROVE OpenInv'
  BY <1>27 DEF PrinterGoes
<1>28. QED
  BY <1>1, <1>2, <1>3, <1>4, <1>5, <1>6, <1>7, <1>8, <1>9, <1>10, <1>11, <1>12, <1>13, <1>14, <1>15, <1>16, <1>17, <1>18, <1>19, <1>20, <1>21, <1>22, <1>23, <1>24, <1>25, <1>26, <1>27
  DEF Step, Working, Connecting, Dropping, Session, Probing, Ask, WatchPull, Threads

(* What is the link's, or reports to it, was built with its configuration, *)
(* until somebody is about to build with a new one.                        *)
LEMMA ForceStep ==
  ASSUME TypeOK, HandInv, OneReplaces, OneReplaces', ReplaceInv, UseInv, OpenInv, ForceInv, Step
  PROVE  ForceInv'
<1> USE LinkAssumption DEF TypeOK, HandInv, Handed, Busy, Goto, Hold, Proceed, Return,
        link, locks, wires, calls, Pc, Job, ReplaceInv, UseInv, OpenInv, ForceInv, OneReplaces, Replaces, Reconfigures, Apart, WithIt
<1>1. ASSUME NEW x \in Threads, Build(x) PROVE ForceInv'
  BY <1>1 DEF Build, Unused
<1>2. ASSUME NEW x \in Threads, Publish(x) PROVE ForceInv'
  BY <1>2 DEF Publish
<1>3. ASSUME NEW x \in Threads, ConnectDial(x) PROVE ForceInv'
  BY <1>3 DEF ConnectDial, Dial
<1>4. ASSUME NEW x \in Threads, Adopt(x) PROVE ForceInv'
  BY <1>4 DEF Adopt, AfterConnect
<1>5. ASSUME NEW x \in Threads, Drop(x) PROVE ForceInv'
  BY <1>5 DEF Drop, AfterDrop
<1>6. ASSUME NEW x \in Threads, Hangup(x) PROVE ForceInv'
  BY <1>6 DEF Hangup, AfterDrop
<1>7. ASSUME NEW x \in Threads, Resume(x) PROVE ForceInv'
  BY <1>7 DEF Resume, AfterConnect
<1>8. ASSUME NEW x \in Threads, Refresh(x) PROVE ForceInv'
  BY <1>8 DEF Refresh, Dial
<1>9. ASSUME NEW x \in Threads, Enter(x) PROVE ForceInv'
  BY <1>9 DEF Enter
<1>10. ASSUME NEW x \in Threads, Take(x) PROVE ForceInv'
  BY <1>10 DEF Take
<1>11. ASSUME NEW x \in Threads, Use(x) PROVE ForceInv'
  BY <1>11 DEF Use, Dial
<1>12. ASSUME NEW x \in Threads, Leave(x) PROVE ForceInv'
  BY <1>12 DEF Leave
<1>13. ASSUME NEW x \in Threads, Trial(x) PROVE ForceInv'
  BY <1>13 DEF Trial, Unused, Dial
<1>14. ASSUME NEW x \in Threads, Probed(x) PROVE ForceInv'
  BY <1>14 DEF Probed
<1>15. ASSUME NEW x \in Threads, Restore(x) PROVE ForceInv'
  BY <1>15 DEF Restore
<1>16. ASSUME NEW x \in Threads, Unprobe(x) PROVE ForceInv'
  BY <1>16 DEF Unprobe
<1>17. ASSUME NEW x \in Threads, Reload(x) PROVE ForceInv'
  BY <1>17 DEF Reload
<1>18. ASSUME NEW x \in Threads, Renew(x) PROVE ForceInv'
  BY <1>18 DEF Renew
<1>19. ASSUME NEW x \in Users, AskYield(x) PROVE ForceInv'
  BY <1>19 DEF AskYield, Call, YieldIt, Threads
<1>20. ASSUME NEW x \in Users, AskResume(x) PROVE ForceInv'
  BY <1>20 DEF AskResume, Call, Threads
<1>21. ASSUME NEW x \in Threads, AskRefresh(x, "refresh") PROVE ForceInv'
  BY <1>21 DEF AskRefresh, Call
<1>22. ASSUME NEW x \in Users, NEW j \in {"probe", "patch"}, Probe(x, j) PROVE ForceInv'
  BY <1>22 DEF Probe, Call, YieldIt, Threads
<1>23. ASSUME NEW x \in Threads, NEW j \in {"upload", "fire"}, Borrow(x, j) PROVE ForceInv'
  BY <1>23 DEF Borrow, Call
<1>24. ASSUME Watch PROVE ForceInv'
  BY <1>24 DEF Watch, Call, Threads
<1>25. ASSUME NEW k \in Conns, OnReport(k) PROVE ForceInv'
  BY <1>25 DEF OnReport
<1>26. ASSUME Silence PROVE ForceInv'
  BY <1>26 DEF Silence
<1>27. ASSUME PrinterGoes PROVE ForceInv'
  BY <1>27 DEF PrinterGoes
<1>28. QED
  BY <1>1, <1>2, <1>3, <1>4, <1>5, <1>6, <1>7, <1>8, <1>9, <1>10, <1>11, <1>12, <1>13, <1>14, <1>15, <1>16, <1>17, <1>18, <1>19, <1>20, <1>21, <1>22, <1>23, <1>24, <1>25, <1>26, <1>27
  DEF Step, Working, Connecting, Dropping, Session, Probing, Ask, WatchPull, Threads

(* Calls that did not cross so far do not get in each other's way now.     *)
LEMMA CleanMeans ==
  ASSUME Overlaps \subseteq crossed
  PROVE  /\ Clean({"replaced"}) => OneReplaces
         /\ Clean({"used"}) => NoneUsed
         /\ Clean({"promised"}) => NoneBack
<1>1. Clean({"replaced"}) => OneReplaces
  BY DEF Clean, Overlaps, OneReplaces
<1>2. Clean({"used"}) => NoneUsed
  BY DEF Clean, Overlaps, NoneUsed
<1>3. Clean({"promised"}) => NoneBack
  BY DEF Clean, Overlaps, NoneBack
<1>4. QED
  BY <1>1, <1>2, <1>3

(* One step of anything keeps the invariant of crossings.                  *)
LEMMA CrossStep == TypeOK /\ HandInv /\ CrossInv /\ [Next]_vars => CrossInv'
<1> SUFFICES ASSUME TypeOK, HandInv, CrossInv, [Next]_vars PROVE CrossInv'
  OBVIOUS
<1>1. CASE Next
  <2>1. Step /\ crossed \subseteq crossed' /\ (Overlaps \subseteq crossed)'
    BY <1>1 DEF Next
  <2>2. Overlaps \subseteq crossed
    BY DEF CrossInv
  <2>3. /\ Clean({"replaced"}) => OneReplaces
        /\ Clean({"used"}) => NoneUsed
        /\ Clean({"promised"}) => NoneBack
    BY <2>2, CleanMeans
  <2>4. /\ Clean({"replaced"})' => OneReplaces'
        /\ Clean({"used"})' => NoneUsed'
    <3>1. (Clean({"replaced"}) => OneReplaces)'
      BY <2>1 DEF Clean, Overlaps, OneReplaces, Replaces
    <3>2. (Clean({"used"}) => NoneUsed)'
      BY <2>1 DEF Clean, Overlaps, NoneUsed, Replaces, Uses
    <3>3. QED
      BY <3>1, <3>2
  <2>5. \A w \in SUBSET {"replaced", "used", "promised"} : Clean(w)' => Clean(w)
    BY <2>1 DEF Clean
  <2>6. /\ Clean({"replaced"})' => Clean({"replaced"})
        /\ Clean({"used"})' => Clean({"used"})
        /\ Clean({"promised"})' => Clean({"promised"})
        /\ Clean({"replaced", "used"})' =>
             /\ Clean({"replaced"})' /\ Clean({"used"})' /\ Clean({"replaced", "used"})
    BY <2>1 DEF Clean
  <2>7. CallInv'
    BY <2>1, CallStep DEF CrossInv
  <2>8. Clean({"used"})' => UseInv'
    BY <2>1, <2>3, <2>4, <2>6, UseStep DEF CrossInv
  <2>9. Clean({"promised"})' => BackInv'
    BY <2>1, <2>3, <2>6, BackStep DEF CrossInv
  <2>10. Clean({"replaced"})' => ReplaceInv'
    BY <2>1, <2>3, <2>4, <2>6, ReplaceStep DEF CrossInv
  <2>11. Clean({"replaced", "used"})' => OpenInv' /\ ForceInv'
    <3>1. SUFFICES ASSUME Clean({"replaced", "used"})' PROVE OpenInv' /\ ForceInv'
      OBVIOUS
    <3>2. OneReplaces /\ OneReplaces' /\ ReplaceInv /\ UseInv /\ OpenInv /\ ForceInv
      BY <3>1, <2>3, <2>4, <2>6 DEF CrossInv
    <3>3. QED
      BY <2>1, <3>2, OpenStep, ForceStep
  <2>12. QED
    BY <2>1, <2>7, <2>8, <2>9, <2>10, <2>11 DEF CrossInv
<1>2. CASE UNCHANGED vars
  BY <1>2 DEF vars, CrossInv, Overlaps, Clean, CallInv, UseInv, BackInv, ReplaceInv, OpenInv, ForceInv,
     Replaces, Uses, TakesBack, Reconfigures, Busy
<1>3. QED
  BY <1>1, <1>2

LEMMA InitCross == Init => CrossInv
<1> SUFFICES ASSUME Init PROVE CrossInv
  OBVIOUS
<1>1. \A x \in Threads : pc[x] = "idle" /\ job[x] = "none"
  BY DEF Init
<1>2. Overlaps = {}
  BY <1>1 DEF Init, Overlaps, Replaces, Uses, TakesBack, Apart, WithIt
<1>3. CallInv /\ UseInv /\ BackInv
  BY <1>1 DEF Init, CallInv, UseInv, BackInv, Busy, WithIt
<1>4. ReplaceInv /\ OpenInv /\ ForceInv
  BY <1>1 DEF Init, ReplaceInv, OpenInv, ForceInv, Replaces, Apart
<1>5. QED
  BY <1>2, <1>3, <1>4 DEF CrossInv

(* What the invariant says of the promises of the link.                    *)
LEMMA CrossConsequences ==
  ASSUME TypeOK, CrossInv
  PROVE  OneConnection /\ YieldFrees /\ YieldKept /\ ConfigInForce /\ FireGetsLink
<1> USE LinkAssumption DEF TypeOK
<1>0. /\ Clean({"replaced"}) => OneReplaces
      /\ Clean({"replaced", "used"}) => Clean({"replaced"}) /\ Clean({"used"})
      /\ Clean({"replaced", "used", "promised"}) =>
           Clean({"replaced"}) /\ Clean({"replaced", "used"}) /\ Clean({"promised"})
  <2>1. Overlaps \subseteq crossed
    BY DEF CrossInv
  <2>2. QED
    BY <2>1, CleanMeans DEF Clean
<1>1. OneConnection
  <2>0. SUFFICES ASSUME Clean({"replaced", "used"}) PROVE Cardinality(open) <= 1
    BY DEF OneConnection
  <2>a. OneReplaces /\ ReplaceInv /\ OpenInv
    BY <1>0, <2>0 DEF CrossInv
  <2>1. \E k \in Conns \cup {NoTp} : open \subseteq {k}
    <3>1. CASE \E x \in Threads : pc[x] \in {"hangup", "probed"}
      <4>1. PICK x \in Threads : pc[x] \in {"hangup", "probed"}
        BY <3>1
      <4>2. tp = NoTp
        BY <2>a, <4>1 DEF ReplaceInv, Apart
      <4>3. \A y \in Threads : pc[y] \in {"hangup", "probed"} => y = x
        BY <2>a, <4>1 DEF OneReplaces, Replaces, Apart
      <4>4. open \subseteq {mine[x]}
        BY <2>a, <4>2, <4>3 DEF OpenInv
      <4>5. QED
        BY <4>4
    <3>2. CASE ~\E x \in Threads : pc[x] \in {"hangup", "probed"}
      BY <2>a, <3>2 DEF OpenInv
    <3>3. QED
      BY <3>1, <3>2
  <2>2. PICK k : open \subseteq {k}
    BY <2>1
  <2>3. open = {} \/ open = {k}
    BY <2>2
  <2>4. Cardinality(open) = 0 \/ Cardinality(open) = 1
    BY <2>3, FS_EmptySet, FS_Singleton
  <2>5. QED
    BY <2>4
<1>2. YieldFrees
  <2>1. SUFFICES ASSUME Clean({"replaced", "used", "promised"}), promised, AtRest
                 PROVE  open = {}
    BY DEF YieldFrees
  <2>2. ReplaceInv /\ OpenInv /\ yielded
    BY <1>0, <2>1 DEF CrossInv, BackInv
  <2>3. \A x \in Threads : pc[x] \notin {"drop", "hangup", "probed"}
    BY <2>1 DEF AtRest, Replaces, Apart
  <2>4. QED
    BY <2>2, <2>3 DEF ReplaceInv, OpenInv
<1>3. YieldKept
  BY DEF YieldKept, CrossInv, BackInv
<1>4. ConfigInForce
  <2>1. SUFFICES ASSUME Clean({"replaced", "used"}), AtRest
                 PROVE  (tp # NoTp => cfgOf[tp] = cfg) /\ snap \in {"none", cfg}
    BY DEF ConfigInForce
  <2>2. ForceInv
    BY <2>1 DEF CrossInv
  <2>3. \A x \in Threads : ~Reconfigures(x)
    BY <2>1 DEF AtRest, Replaces, Apart, Reconfigures
  <2>4. QED
    BY <2>2, <2>3 DEF ForceInv
<1>5. FireGetsLink
  <2>1. SUFFICES ASSUME Clean({"used"}), NEW f \in Fires, pc[f] = "take" PROVE tp # NoTp
    BY DEF FireGetsLink
  <2>2. UseInv
    BY <2>1 DEF CrossInv
  <2>3. QED
    BY <2>1, <2>2 DEF UseInv, Threads
<1>6. QED
  BY <1>1, <1>2, <1>3, <1>4, <1>5

LEMMA CrossReached ==
  Spec => [](OneConnection /\ YieldFrees /\ YieldKept /\ ConfigInForce /\ FireGetsLink)
<1>1. Init => TypeOK /\ HandInv /\ CrossInv
  BY InitTypes, InitCross
<1>2. TypeOK /\ HandInv /\ CrossInv /\ [Next]_vars => (TypeOK /\ HandInv /\ CrossInv)'
  BY TypeStep, CrossStep
<1>3. TypeOK /\ CrossInv
      => OneConnection /\ YieldFrees /\ YieldKept /\ ConfigInForce /\ FireGetsLink
  BY CrossConsequences
<1>4. QED
  BY <1>1, <1>2, <1>3, PTL DEF Spec

(* However calls overlap, the printer never sees a second connection of the *)
(* daemon before two of them replaced the connection at once, or one what   *)
(* another was using (link.py:222).                                        *)
THEOREM LinkOneConnection == Spec => []OneConnection
<1>1. Spec => [](OneConnection /\ YieldFrees /\ YieldKept /\ ConfigInForce /\ FireGetsLink)
  BY CrossReached
<1>2. QED
  BY <1>1, PTL

(* However calls overlap, a user who was told that Studio may connect is    *)
(* told right, up to the first crossing (link.py:197).                     *)
THEOREM LinkYield == Spec => []YieldFrees
<1>1. Spec => [](OneConnection /\ YieldFrees /\ YieldKept /\ ConfigInForce /\ FireGetsLink)
  BY CrossReached
<1>2. QED
  BY <1>1, PTL

(* However calls overlap, a yielded connection stays yielded until somebody *)
(* asks for it, unless a user yielded during a probe (web/app.py:593).     *)
THEOREM LinkStaysYielded == Spec => []YieldKept
<1>1. Spec => [](OneConnection /\ YieldFrees /\ YieldKept /\ ConfigInForce /\ FireGetsLink)
  BY CrossReached
<1>2. QED
  BY <1>1, PTL

(* However calls overlap, the connection and the report shown are those of  *)
(* the configured printer, up to the first crossing (link.py:182).         *)
THEOREM LinkInForce == Spec => []ConfigInForce
<1>1. Spec => [](OneConnection /\ YieldFrees /\ YieldKept /\ ConfigInForce /\ FireGetsLink)
  BY CrossReached
<1>2. QED
  BY <1>1, PTL

(* However calls overlap, a fire that entered its session has the           *)
(* connection, yielded or not, unless somebody replaced it under it         *)
(* (link.py:238).                                                          *)
THEOREM FireAlwaysGetsLink == Spec => []FireGetsLink
<1>1. Spec => [](OneConnection /\ YieldFrees /\ YieldKept /\ ConfigInForce /\ FireGetsLink)
  BY CrossReached
<1>2. QED
  BY <1>1, PTL

=============================================================================
