------------------------- MODULE EventBroker_proofs -------------------------
(* Theorems about EventBroker, for every value of its constants.           *)
EXTENDS EventBroker, SequenceTheorems, TLAPS

\* Showing a part of the picture replaces cells and leaves a whole picture.
LEMMA OverWhole ==
  ASSUME NEW whole \in [Cells -> Values], NEW part \in Parts
  PROVE  Over(part, whole) \in [Cells -> Values]
  BY DEF Parts, Over

\* Two parts make a part.
LEMMA OverParts ==
  ASSUME NEW p \in Parts, NEW q \in Parts PROVE Over(p, q) \in Parts
<1>1. PICK C \in SUBSET Cells : p \in [C -> Values]
  BY DEF Parts
<1>2. PICK D \in SUBSET Cells : q \in [D -> Values]
  BY DEF Parts
<1>3. Over(p, q) \in [C \cup D -> Values]
  BY <1>1, <1>2 DEF Over
<1>4. C \cup D \in SUBSET Cells
  OBVIOUS
<1>5. QED
  BY <1>3, <1>4 DEF Parts

\* A function on some of the cells is a part.
LEMMA PartOf ==
  ASSUME NEW C \in SUBSET Cells, NEW p \in [C -> Values] PROVE p \in Parts
  BY DEF Parts

LEMMA PartFrames ==
  /\ Nothing \in Parts /\ Resync \in Frames
  /\ \A p \in Parts : Put(p) \in Frames
<1>1. Nothing \in Parts
  BY {} \in SUBSET Cells, PartOf DEF Nothing
<1>2. QED
  BY <1>1 DEF Resync, Put, Frames

\* Head, Tail and RemoveAt stay within the sequences over a set.
LEMMA SeqOps ==
  ASSUME NEW S, NEW s \in Seq(S)
  PROVE  /\ s # <<>> => Head(s) \in S /\ Tail(s) \in Seq(S) /\ Len(Tail(s)) = Len(s) - 1
         /\ \A e \in S : Append(s, e) \in Seq(S) /\ Len(Append(s, e)) = Len(s) + 1
         /\ \A i \in 1..Len(s) : s[i] \in S /\ RemoveAt(s, i) \in Seq(S)
<1>1. s # <<>> => Head(s) \in S /\ Tail(s) \in Seq(S) /\ Len(Tail(s)) = Len(s) - 1
  OBVIOUS
<1>2. \A e \in S : Append(s, e) \in Seq(S) /\ Len(Append(s, e)) = Len(s) + 1
  OBVIOUS
<1>3. ASSUME NEW i \in 1..Len(s) PROVE s[i] \in S /\ RemoveAt(s, i) \in Seq(S)
  <2>1. SubSeq(s, 1, i - 1) \in Seq(S) /\ SubSeq(s, i + 1, Len(s)) \in Seq(S)
    OBVIOUS
  <2>2. QED
    BY <2>1 DEF RemoveAt
<1>4. QED
  BY <1>1, <1>2, <1>3

\* What is in a sequence, after something is put in or taken out.
LEMMA SeqElements ==
  ASSUME NEW S, NEW s \in Seq(S)
  PROVE  /\ \A e \in S : ToSet(Append(s, e)) = ToSet(s) \cup {e}
         /\ \A i \in 1..Len(s) :
              /\ s[i] \in ToSet(s) /\ ToSet(RemoveAt(s, i)) \subseteq ToSet(s)
              /\ ToSet(s) \subseteq ToSet(RemoveAt(s, i)) \cup {s[i]}
         /\ ToSet(<<>>) = {} /\ ToSet(s) \subseteq S
<1>1. ASSUME NEW e \in S PROVE ToSet(Append(s, e)) = ToSet(s) \cup {e}
  <2>1. /\ Len(Append(s, e)) = Len(s) + 1 /\ Append(s, e)[Len(s) + 1] = e
        /\ \A i \in 1..Len(s) : Append(s, e)[i] = s[i]
        /\ DOMAIN s = 1..Len(s) /\ DOMAIN Append(s, e) = 1 .. Len(s) + 1 /\ Len(s) \in Nat
    OBVIOUS
  <2>2. QED
    BY <2>1 DEF ToSet
<1>2. ASSUME NEW i \in 1..Len(s)
      PROVE  /\ s[i] \in ToSet(s) /\ ToSet(RemoveAt(s, i)) \subseteq ToSet(s)
             /\ ToSet(s) \subseteq ToSet(RemoveAt(s, i)) \cup {s[i]}
  <2> DEFINE t == RemoveAt(s, i)
  <2>1. Len(s) \in Nat /\ i \in Nat /\ DOMAIN s = 1..Len(s)
    OBVIOUS
  <2>2. /\ Len(t) = Len(s) - 1 /\ DOMAIN t = 1 .. Len(s) - 1
        /\ \A j \in 1 .. Len(s) - 1 : t[j] = s[IF j < i THEN j ELSE j + 1]
    <3>1. /\ SubSeq(s, 1, i - 1) \in Seq(S) /\ Len(SubSeq(s, 1, i - 1)) = i - 1
          /\ SubSeq(s, i + 1, Len(s)) \in Seq(S) /\ Len(SubSeq(s, i + 1, Len(s))) = Len(s) - i
          /\ \A j \in 1 .. i - 1 : SubSeq(s, 1, i - 1)[j] = s[j]
          /\ \A j \in 1 .. Len(s) - i : SubSeq(s, i + 1, Len(s))[j] = s[i + j]
      OBVIOUS
    <3>2. t = SubSeq(s, 1, i - 1) \o SubSeq(s, i + 1, Len(s))
      BY DEF RemoveAt
    <3> DEFINE front == SubSeq(s, 1, i - 1)
               back  == SubSeq(s, i + 1, Len(s))
    <3> HIDE DEF t, front, back
    <3>3. /\ front \in Seq(S) /\ Len(front) = i - 1 /\ back \in Seq(S) /\ Len(back) = Len(s) - i
          /\ \A j \in 1 .. i - 1 : front[j] = s[j]
          /\ \A j \in 1 .. Len(s) - i : back[j] = s[i + j]
      BY <3>1 DEF front, back
    <3>4. t = front \o back
      BY <3>2 DEF front, back
    <3>5. t \in Seq(S) /\ Len(t) = Len(s) - 1 /\ DOMAIN t = 1 .. Len(s) - 1
      <4>1. front \o back \in Seq(S) /\ Len(front \o back) = Len(front) + Len(back)
        BY <3>3, ConcatProperties
      <4>2. t \in Seq(S) /\ Len(t) = Len(front) + Len(back) /\ DOMAIN t = 1..Len(t)
        BY <3>4, <4>1
      <4>3. QED
        BY <2>1, <3>3, <4>2
    <3>6. ASSUME NEW j \in 1 .. Len(s) - 1, j < i PROVE t[j] = s[j]
      BY <2>1, <3>3, <3>4, <3>6
    <3>7. ASSUME NEW j \in 1 .. Len(s) - 1, ~(j < i) PROVE t[j] = s[j + 1]
      <4>1. t[j] = back[j - (i - 1)] /\ j - (i - 1) \in 1 .. Len(s) - i
        BY <2>1, <3>3, <3>4, <3>7
      <4>2. i + (j - (i - 1)) = j + 1
        BY <2>1
      <4>3. QED
        BY <3>3, <4>1, <4>2
    <3>8. QED
      BY <3>5, <3>6, <3>7
  <2> HIDE DEF t
  <2>3. s[i] \in ToSet(s)
    BY <2>1 DEF ToSet
  <2>4. ASSUME NEW e \in ToSet(t) PROVE e \in ToSet(s)
    <3>1. PICK j \in 1 .. Len(s) - 1 : e = t[j]
      BY <2>2, <2>4 DEF ToSet
    <3>2. (IF j < i THEN j ELSE j + 1) \in 1..Len(s)
      BY <2>1
    <3>3. QED
      BY <2>1, <2>2, <3>1, <3>2 DEF ToSet
  <2>5. ASSUME NEW e \in ToSet(s), e # s[i] PROVE e \in ToSet(t)
    <3>1. PICK k \in 1..Len(s) : e = s[k]
      BY <2>1, <2>5 DEF ToSet
    <3>2. CASE k < i
      BY <2>1, <2>2, <3>1, <3>2 DEF ToSet
    <3>3. CASE k > i
      <4>1. k - 1 \in 1 .. Len(s) - 1 /\ ~(k - 1 < i) /\ (k - 1) + 1 = k
        BY <2>1, <3>3
      <4>2. QED
        BY <2>2, <3>1, <4>1 DEF ToSet
    <3>4. QED
      BY <2>1, <2>5, <3>1, <3>2, <3>3
  <2>6. QED
    BY <2>3, <2>4, <2>5 DEF t
<1>3. ToSet(<<>>) = {} /\ ToSet(s) \subseteq S
  BY DEF ToSet
<1>4. QED
  BY <1>1, <1>2, <1>3

\* What the capacities leave of a queue.
LEMMA EnqueueType ==
  ASSUME NEW q \in Seq(Frames), NEW m \in Frames, Len(q) <= QueueSize
  PROVE  Enqueue(q, m) \in Seq(Frames) /\ Len(Enqueue(q, m)) <= QueueSize
<1>1. <<Resync>> \in Seq(Frames) /\ Len(<<Resync>>) = 1
  BY PartFrames
<1>2. QED
  BY <1>1, SeqOps, BrokerAssumption DEF Enqueue

LEMMA TypeInit == Init => TypeOK
<1> SUFFICES ASSUME Init PROVE TypeOK
  OBVIOUS
<1>1. <<>> \in Seq(Frames) /\ <<>> \in Seq(Parts) /\ Len(<<>>) = 0
  OBVIOUS
<1>2. Nothing \in Parts
  BY PartFrames
<1>3. /\ Fresh \in [Fields -> Values] /\ [c \in Cells |-> Default] \in [Cells -> Values]
      /\ [s \in Sources |-> 0] \in [Sources -> Nat]
  BY BrokerAssumption DEF Fresh
<1>4. /\ \A b \in Browsers : Len(queue[b]) <= QueueSize /\ Len(wire[b]) <= WireMax
      /\ \A b \in Browsers : queue[b] = <<>> /\ wire[b] = <<>>
      /\ queue \in [Browsers -> Seq(Frames)] /\ wire \in [Browsers -> Seq(Frames)]
      /\ answers \in [Browsers -> Seq(Parts)] /\ loop \in Seq(Frames)
  BY <1>1, BrokerAssumption DEF Init
<1>5. /\ acc \in [Fields -> Values] /\ srv \in [Cells -> Values] /\ adopt = None
      /\ todo \in [Threads -> {None, Due} \cup Frames] /\ untold = {}
      /\ lost \in [Browsers -> SUBSET Cells]
      /\ store \in [Browsers -> [Cells -> Values]]
      /\ asked \in [Browsers -> [Sources -> Nat]]
  BY <1>3 DEF Init
<1>6. /\ bound \in BOOLEAN /\ initial \in [Browsers -> Parts]
      /\ phase \in [Browsers -> {"closed", "reading", "starting", "open"}]
      /\ failed \in [Browsers -> SUBSET Sources] /\ changes \in Nat /\ events \in Nat
  BY <1>2 DEF Init
<1>7. QED
  BY <1>4, <1>5, <1>6 DEF TypeOK, Open

\* One step of anything keeps the types.
LEMMA TypeStep == TypeOK /\ [Next]_vars => TypeOK'
<1> SUFFICES ASSUME TypeOK, [Next]_vars PROVE TypeOK'
  OBVIOUS
<1> USE BrokerAssumption DEF TypeOK, server, stream, page, counts, Open, Cells
<1>0. /\ [Fields -> Values] \subseteq Parts /\ Nothing \in Parts
      /\ Fresh \in [Fields -> Values] /\ List \in Parts
      /\ \A p \in Parts : Put(p) \in Frames /\ Over(p, srv) \in [Cells -> Values]
  BY PartOf, PartFrames, OverWhole DEF Fresh, List
<1>1. CASE Report
  <2>1. PICK new \in [Fields -> Values] :
          LET changed == Differing(acc, new) IN
          /\ acc' = new /\ srv' = Over(new, srv)
          /\ todo' = [todo EXCEPT ![Paho] = Put([c \in changed |-> new[c]])]
          /\ untold' = (untold \cup Differing(new, srv)) \ changed
    BY <1>1 DEF Report
  <2>2. Differing(acc, new) \subseteq Fields /\ Differing(new, srv) \subseteq Fields
    BY <2>1 DEF Differing
  <2>3. [c \in Differing(acc, new) |-> new[c]] \in Parts
    <3>1. [c \in Differing(acc, new) |-> new[c]] \in [Differing(acc, new) -> Values]
      BY <2>2
    <3>2. QED
      BY <3>1, <2>2, PartOf
  <2>4. todo' \in [Threads -> {None, Due} \cup Frames]
    BY <2>1, <2>3, <1>0
  <2>5. srv' \in [Cells -> Values] /\ acc' \in [Fields -> Values]
    BY <2>1, <1>0
  <2>6. untold' \in SUBSET Cells
    BY <2>1, <2>2
  <2>7. /\ changes' \in Nat
        /\ UNCHANGED <<adopt, bound, loop, stream, page, lost, events>>
    BY <1>1 DEF Report
  <2>8. QED
    BY <2>4, <2>5, <2>6, <2>7
<1>2. CASE Renew
  <2>1. PICK part \in {Nothing, Fresh} :
          srv' = Over(part, srv) /\ untold' = untold \cup Differing(part, srv)
    BY <1>2 DEF Renew
  <2>2. Differing(part, srv) \subseteq Fields
    BY DEF Differing, Nothing, Fresh
  <2>3. srv' \in [Cells -> Values] /\ untold' \in SUBSET Cells
    <3>1. part \in Parts
      BY <1>0
    <3>2. QED
      BY <1>0, <2>1, <2>2, <3>1
  <2>4. /\ acc' \in [Fields -> Values] /\ adopt' = Due /\ events' \in Nat
        /\ UNCHANGED <<todo, bound, loop, stream, page, lost, changes>>
    BY <1>0, <1>2 DEF Renew
  <2>5. QED
    BY <2>3, <2>4
<1>3. CASE Pull
  BY <1>3 DEF Pull
<1>4. CASE Adopt
  <2>1. adopt \in [Fields -> Values] /\ Differing(adopt, srv) \subseteq Fields
    BY <1>4 DEF Adopt, Differing
  <2>2. QED
    BY <1>0, <1>4, <2>1 DEF Adopt
<1>5. ASSUME NEW w \in Writers, ChangeTasks(w) PROVE TypeOK'
  <2>1. /\ srv' \in [Cells -> Values] /\ todo' \in [Threads -> {None, Due} \cup Frames]
        /\ changes' \in Nat
    BY <1>5 DEF ChangeTasks, Threads
  <2>2. QED
    BY <1>5, <2>1 DEF ChangeTasks
<1>6. ASSUME NEW w \in Writers, ReadTasks(w) PROVE TypeOK'
  BY <1>0, <1>6 DEF ReadTasks, Threads
<1>7. ASSUME NEW p \in Threads, Post(p) PROVE TypeOK'
  <2>1. todo[p] \in Frames
    BY <1>7 DEF Post
  <2>2. loop' \in Seq(Frames)
    BY <1>7, <2>1, SeqOps DEF Post
  <2>3. lost' \in [Browsers -> SUBSET Cells]
    <3>1. ASSUME NEW b \in Browsers PROVE DOMAIN initial[b] \subseteq Cells
      BY DEF Parts
    <3>2. QED
      BY <1>7, <3>1 DEF Post
  <2>4. QED
    BY <1>7, <2>2, <2>3 DEF Post
<1>8. CASE Deliver
  <2>1. Head(loop) \in Frames /\ loop' \in Seq(Frames)
    BY <1>8, SeqOps DEF Deliver
  <2>2. \A b \in Browsers : /\ Enqueue(queue[b], Head(loop)) \in Seq(Frames)
                            /\ Len(Enqueue(queue[b], Head(loop))) <= QueueSize
    BY <2>1, EnqueueType
  <2>3. /\ queue' \in [Browsers -> Seq(Frames)]
        /\ \A b \in Browsers : Len(queue'[b]) <= QueueSize
        /\ \A b \in Browsers : phase[b] # "open" => queue'[b] = queue[b]
    BY <1>8, <2>2 DEF Deliver
  <2>4. lost' \in [Browsers -> SUBSET Cells]
    <3>1. ASSUME NEW b \in Browsers PROVE DOMAIN initial[b] \subseteq Cells
      BY DEF Parts
    <3>2. QED
      BY <1>8, <3>1 DEF Deliver, Passed
  <2>5. QED
    BY <1>8, <2>1, <2>3, <2>4 DEF Deliver
<1>9. ASSUME NEW b \in Browsers, Connect(b) PROVE TypeOK'
  <2>1. [c \in Fields |-> srv[c]] \in Parts
    BY <1>0
  <2>2. initial' \in [Browsers -> Parts]
    BY <1>9, <2>1 DEF Connect
  <2>3. QED
    BY <1>9, <2>2 DEF Connect
<1>10. ASSUME NEW b \in Browsers, Welcome(b) PROVE TypeOK'
  <2>1. Over(List, initial[b]) \in Parts
    BY <1>0, OverParts
  <2>2. initial' \in [Browsers -> Parts]
    BY <1>10, <2>1 DEF Welcome
  <2>3. QED
    BY <1>10, <2>2 DEF Welcome
<1>11. ASSUME NEW b \in Browsers, Subscribe(b) PROVE TypeOK'
  <2>1. Put(initial[b]) \in Frames
    BY <1>0
  <2>2. <<Put(initial[b])>> \in Seq(Frames) /\ Len(<<Put(initial[b])>>) = 1
    BY <2>1
  <2>3. wire' \in [Browsers -> Seq(Frames)] /\ \A c \in Browsers : Len(wire'[c]) <= WireMax
    BY <1>11, <2>2 DEF Subscribe
  <2>4. initial' \in [Browsers -> Parts]
    BY <1>11, <1>0 DEF Subscribe
  <2>5. QED
    BY <1>11, <2>3, <2>4 DEF Subscribe
<1>12. ASSUME NEW b \in Browsers, Pump(b) PROVE TypeOK'
  <2>1. /\ Head(queue[b]) \in Frames /\ Tail(queue[b]) \in Seq(Frames)
        /\ Len(Tail(queue[b])) <= QueueSize
        /\ Append(wire[b], Head(queue[b])) \in Seq(Frames)
        /\ Len(Append(wire[b], Head(queue[b]))) <= WireMax
    <3>1. Head(queue[b]) \in Frames /\ Tail(queue[b]) \in Seq(Frames)
          /\ Len(Tail(queue[b])) = Len(queue[b]) - 1
      BY <1>12, SeqOps DEF Pump
    <3>2. /\ Append(wire[b], Head(queue[b])) \in Seq(Frames)
          /\ Len(Append(wire[b], Head(queue[b]))) = Len(wire[b]) + 1
      BY <3>1, SeqOps
    <3>3. QED
      BY <1>12, <3>1, <3>2 DEF Pump
  <2>2. QED
    BY <1>12, <2>1 DEF Pump
<1>13. ASSUME NEW b \in Browsers, Receive(b) PROVE TypeOK'
  <2>1. /\ Head(wire[b]) \in Frames /\ Tail(wire[b]) \in Seq(Frames)
        /\ Len(Tail(wire[b])) <= WireMax
    <3>1. Head(wire[b]) \in Frames /\ Tail(wire[b]) \in Seq(Frames)
          /\ Len(Tail(wire[b])) = Len(wire[b]) - 1
      BY <1>13, SeqOps DEF Receive
    <3>2. QED
      BY <3>1
  <2>2. Over(Head(wire[b]).put, store[b]) \in [Cells -> Values]
    BY <2>1, OverWhole DEF Frames
  <2>3. store' \in [Browsers -> [Cells -> Values]] /\ failed' \in [Browsers -> SUBSET Sources]
    BY <1>13, <2>2 DEF Receive, Show
  <2>4. asked' \in [Browsers -> [Sources -> Nat]]
    BY <1>13 DEF Receive
  <2>5. lost' \in [Browsers -> SUBSET Cells]
    <3>1. Told(Head(wire[b])) \subseteq Cells
      BY <2>1 DEF Told, Frames, Parts, CellsOfAll, CellsOf
    <3>2. QED
      BY <1>13, <3>1 DEF Receive
  <2>6. QED
    BY <1>13, <2>1, <2>3, <2>4, <2>5 DEF Receive
<1>14. ASSUME NEW b \in Browsers, NEW s \in Sources, Answer(b, s) PROVE TypeOK'
  <2>1. [c \in CellsOf(s) |-> srv[c]] \in Parts
    <3>1. CellsOf(s) \in SUBSET Cells
      BY DEF CellsOf
    <3>2. [c \in CellsOf(s) |-> srv[c]] \in [CellsOf(s) -> Values]
      BY <3>1
    <3>3. QED
      BY <3>1, <3>2, PartOf
  <2>2. answers' \in [Browsers -> Seq(Parts)]
    BY <1>14, <2>1 DEF Answer
  <2>3. asked' \in [Browsers -> [Sources -> Nat]]
    BY <1>14 DEF Answer
  <2>4. QED
    BY <1>14, <2>2, <2>3 DEF Answer
<1>15. ASSUME NEW b \in Browsers, Arrive(b) PROVE TypeOK'
  <2>1. PICK i \in 1..Len(answers[b]) :
          Show(b, answers[b][i]) /\ answers' = [answers EXCEPT ![b] = RemoveAt(@, i)]
    BY <1>15 DEF Arrive
  <2>2. answers[b][i] \in Parts /\ RemoveAt(answers[b], i) \in Seq(Parts)
    BY SeqOps
  <2>3. store' \in [Browsers -> [Cells -> Values]] /\ failed' \in [Browsers -> SUBSET Sources]
    BY <2>1, <2>2, OverWhole DEF Show
  <2>4. QED
    BY <1>15, <2>1, <2>2, <2>3 DEF Arrive
<1>16. ASSUME NEW b \in Browsers, NEW s \in Sources, RequestFails(b, s) PROVE TypeOK'
  <2>1. asked' \in [Browsers -> [Sources -> Nat]]
    BY <1>16 DEF RequestFails
  <2>2. failed' \in [Browsers -> SUBSET Sources]
    BY <1>16 DEF RequestFails
  <2>3. UNCHANGED <<server, stream, store, answers, untold, lost, counts>>
    BY <1>16 DEF RequestFails
  <2>4. QED
    BY <2>1, <2>2, <2>3
<1>17. ASSUME NEW b \in Browsers, RefreshTasks(b) PROVE TypeOK'
  <2>1. asked' \in [Browsers -> [Sources -> Nat]]
    BY <1>17 DEF RefreshTasks, Sources
  <2>2. events' \in Nat /\ UNCHANGED <<server, stream, store, answers, failed, untold, lost, changes>>
    BY <1>17 DEF RefreshTasks
  <2>3. QED
    BY <2>1, <2>2
<1>18. ASSUME NEW b \in Browsers, Break(b) PROVE TypeOK'
  <2>1. <<>> \in Seq(Frames) /\ Len(<<>>) = 0
    OBVIOUS
  <2>2. /\ queue' \in [Browsers -> Seq(Frames)] /\ wire' \in [Browsers -> Seq(Frames)]
        /\ \A c \in Browsers : Len(queue'[c]) <= QueueSize /\ Len(wire'[c]) <= WireMax
    BY <1>18, <2>1 DEF Break
  <2>3. /\ phase' \in [Browsers -> {"closed", "reading", "starting", "open"}]
        /\ initial' \in [Browsers -> Parts]
        /\ \A c \in Browsers : phase'[c] # "open" => queue'[c] = <<>> /\ wire'[c] = <<>>
    BY <1>0, <1>18 DEF Break
  <2>4. events' \in Nat /\ UNCHANGED <<server, page, untold, lost, changes>>
    BY <1>18 DEF Break
  <2>5. QED
    BY <2>2, <2>3, <2>4
<1>19. CASE Restart
  <2>1. <<>> \in Seq(Frames) /\ Len(<<>>) = 0 /\ <<>> \in Seq(Parts)
    OBVIOUS
  <2>2. failed' \in [Browsers -> SUBSET Sources]
    <3>1. \A b \in Browsers : UNION {Covered(a) : a \in ToSet(answers[b])} \subseteq Sources
      BY DEF Covered
    <3>2. QED
      BY <1>19, <3>1 DEF Restart
  <2>3. asked' \in [Browsers -> [Sources -> Nat]] /\ answers' \in [Browsers -> Seq(Parts)]
    BY <1>19, <2>1 DEF Restart
  <2>4. /\ srv' \in [Cells -> Values] /\ acc' \in [Fields -> Values] /\ adopt' = Due
        /\ todo' \in [Threads -> {None, Due} \cup Frames] /\ bound' \in BOOLEAN
        /\ loop' \in Seq(Frames) /\ untold' = {} /\ events' \in Nat
        /\ UNCHANGED <<store, changes>>
    <3>1. Over(Fresh, srv) \in [Cells -> Values]
      BY <1>0
    <3>2. acc' = Fresh /\ srv' = Over(Fresh, srv) /\ todo' = [p \in Threads |-> None]
      BY <1>19 DEF Restart
    <3>3. bound' \in BOOLEAN
      <4>1. bound' = FALSE
        BY <1>19 DEF Restart
      <4>2. QED
        BY <4>1, Zenon
    <3>4. /\ loop' = <<>> /\ untold' = {} /\ adopt' = Due
          /\ events' = events + 1 /\ UNCHANGED <<store, changes>>
      BY <1>19 DEF Restart
    <3>5. todo' \in [Threads -> {None, Due} \cup Frames]
      BY <3>2
    <3>6. srv' \in [Cells -> Values] /\ acc' \in [Fields -> Values]
      BY <1>0, <3>1, <3>2
    <3>7. QED
      BY <2>1, <3>3, <3>5, <3>6, <3>4
  <2>5. /\ phase' \in [Browsers -> {"closed", "reading", "starting", "open"}]
        /\ initial' \in [Browsers -> Parts]
        /\ queue' \in [Browsers -> Seq(Frames)] /\ wire' \in [Browsers -> Seq(Frames)]
        /\ \A c \in Browsers : queue'[c] = <<>> /\ wire'[c] = <<>>
    BY <1>0, <1>19, <2>1 DEF Restart
  <2>6. \A c \in Browsers : Len(queue'[c]) <= QueueSize /\ Len(wire'[c]) <= WireMax
    BY <2>1, <2>5
  <2>7. lost' \in [Browsers -> SUBSET Cells]
    BY <1>19 DEF Restart
  <2>8. QED
    BY <2>2, <2>3, <2>4, <2>5, <2>6, <2>7
<1>20. CASE UNCHANGED vars
  BY <1>20 DEF vars
<1>21. QED
  BY <1>1, <1>2, <1>3, <1>4, <1>5, <1>6, <1>7, <1>8, <1>9, <1>10, <1>11, <1>12, <1>13,
     <1>14, <1>15, <1>16, <1>17, <1>18, <1>19, <1>20 DEF Next, Daemon, Loop, Page

\* Every variable keeps its type, and whatever a browser does, neither its
\* queue nor its connection grows past its capacity.
THEOREM StreamTypeCorrect == Spec => []TypeOK
  BY TypeInit, TypeStep, PTL DEF Spec

---------------------------------------------------------------------------
\* What a message says of a cell: it names the cell's value, or it has the
\* browser ask for it; and which it says last, of a sequence of messages.
Source(c)         == IF c = "tasks" THEN "tasks" ELSE "printer"
Tells(m, c)       == c \in DOMAIN m.put \/ Source(c) \in m.ask
Good(m, c, v)     == Source(c) \in m.ask \/ (c \in DOMAIN m.put /\ m.put[c] = v)
Heard(s, c)       == \E i \in 1..Len(s) : Tells(s[i], c)
EndsGood(s, c, v) == \A i \in 1..Len(s) :
  Tells(s[i], c) => Good(s[i], c, v) \/ \E j \in i + 1 .. Len(s) : Tells(s[j], c)

\* A message at the end of the sequence is the last to say anything.
LEMMA EndsAppend ==
  ASSUME NEW s \in Seq(Frames), NEW m \in Frames, NEW c, NEW v
  PROVE  /\ Heard(Append(s, m), c) <=> Heard(s, c) \/ Tells(m, c)
         /\ Tells(m, c) /\ Good(m, c, v) => EndsGood(Append(s, m), c, v)
         /\ ~Tells(m, c) /\ EndsGood(s, c, v) => EndsGood(Append(s, m), c, v)
<1> DEFINE t == Append(s, m)
<1>1. /\ Len(s) \in Nat /\ Len(t) = Len(s) + 1 /\ t[Len(s) + 1] = m
      /\ \A i \in 1..Len(s) : t[i] = s[i]
  OBVIOUS
<1> HIDE DEF t
<1>2. Heard(t, c) <=> Heard(s, c) \/ Tells(m, c)
  <2>1. 1..Len(t) = 1..Len(s) \cup {Len(s) + 1}
    BY <1>1
  <2>2. QED
    BY <1>1, <2>1 DEF Heard
<1>3. ASSUME Tells(m, c), Good(m, c, v) PROVE EndsGood(t, c, v)
  <2>1. ASSUME NEW i \in 1..Len(t), ~Good(t[i], c, v)
        PROVE  \E j \in i + 1 .. Len(t) : Tells(t[j], c)
    <3>1. Len(s) + 1 \in i + 1 .. Len(t)
      BY <1>1, <1>3, <2>1
    <3>2. QED
      BY <1>1, <1>3, <3>1
  <2>2. QED
    BY <2>1 DEF EndsGood
<1>4. ASSUME ~Tells(m, c), EndsGood(s, c, v) PROVE EndsGood(t, c, v)
  <2>1. ASSUME NEW i \in 1..Len(t), Tells(t[i], c), ~Good(t[i], c, v)
        PROVE  \E j \in i + 1 .. Len(t) : Tells(t[j], c)
    <3>1. i \in 1..Len(s)
      BY <1>1, <1>4, <2>1
    <3>2. PICK j \in i + 1 .. Len(s) : Tells(s[j], c)
      BY <1>1, <1>4, <2>1, <3>1 DEF EndsGood
    <3>3. j \in 1..Len(s) /\ j \in i + 1 .. Len(t)
      BY <1>1, <3>1
    <3>4. QED
      BY <1>1, <3>2, <3>3
  <2>2. QED
    BY <2>1 DEF EndsGood
<1>5. QED
  BY <1>2, <1>3, <1>4 DEF t

\* Taking the first message leaves the last word to the rest, or was the
\* last word.
LEMMA EndsTail ==
  ASSUME NEW s \in Seq(Frames), s # <<>>, NEW c, NEW v
  PROVE  /\ Heard(s, c) <=> Tells(Head(s), c) \/ Heard(Tail(s), c)
         /\ EndsGood(s, c, v) => EndsGood(Tail(s), c, v)
         /\ EndsGood(s, c, v) /\ ~Heard(Tail(s), c) /\ Tells(Head(s), c) => Good(Head(s), c, v)
<1> DEFINE t == Tail(s)
<1>1. /\ Len(s) \in Nat \ {0} /\ Len(t) = Len(s) - 1 /\ Head(s) = s[1]
      /\ \A i \in 1..Len(t) : t[i] = s[i + 1]
  OBVIOUS
<1> HIDE DEF t
<1>2. \A i \in 2..Len(s) : i - 1 \in 1..Len(t) /\ t[i - 1] = s[i]
  BY <1>1
<1>3. Heard(s, c) <=> Tells(Head(s), c) \/ Heard(t, c)
  <2>1. ASSUME Heard(s, c), ~Tells(Head(s), c) PROVE Heard(t, c)
    <3>1. PICK i \in 1..Len(s) : Tells(s[i], c)
      BY <2>1 DEF Heard
    <3>2. i \in 2..Len(s)
      BY <1>1, <2>1, <3>1
    <3>3. QED
      BY <1>2, <3>1, <3>2 DEF Heard
  <2>2. ASSUME Tells(Head(s), c) PROVE Heard(s, c)
    BY <1>1, <2>2 DEF Heard
  <2>3. ASSUME Heard(t, c) PROVE Heard(s, c)
    <3>1. PICK i \in 1..Len(t) : Tells(t[i], c)
      BY <2>3 DEF Heard
    <3>2. i + 1 \in 1..Len(s)
      BY <1>1
    <3>3. QED
      BY <1>1, <3>1, <3>2 DEF Heard
  <2>4. QED
    BY <2>1, <2>2, <2>3
<1>4. ASSUME EndsGood(s, c, v) PROVE EndsGood(t, c, v)
  <2>1. ASSUME NEW i \in 1..Len(t), Tells(t[i], c), ~Good(t[i], c, v)
        PROVE  \E j \in i + 1 .. Len(t) : Tells(t[j], c)
    <3>1. i + 1 \in 1..Len(s) /\ t[i] = s[i + 1]
      BY <1>1
    <3>2. PICK j \in i + 2 .. Len(s) : Tells(s[j], c)
      BY <1>4, <2>1, <3>1 DEF EndsGood
    <3>3. j \in 2..Len(s) /\ j - 1 \in i + 1 .. Len(t)
      BY <1>1, <3>1
    <3>4. QED
      BY <1>2, <3>2, <3>3
  <2>2. QED
    BY <2>1 DEF EndsGood
<1>5. ASSUME EndsGood(s, c, v), ~Heard(t, c), Tells(Head(s), c) PROVE Good(Head(s), c, v)
  <2>1. ASSUME NEW j \in 2..Len(s) PROVE ~Tells(s[j], c)
    BY <1>2, <1>5, <2>1 DEF Heard
  <2>2. 1 \in 1..Len(s) /\ 1 + 1 = 2
    BY <1>1
  <2>3. QED
    BY <1>1, <1>5, <2>1, <2>2 DEF EndsGood
<1>6. QED
  BY <1>3, <1>4, <1>5 DEF t

\* Of no message and of a single one.
LEMMA EndsFew ==
  ASSUME NEW m, NEW c, NEW v
  PROVE  /\ ~Heard(<<>>, c) /\ EndsGood(<<>>, c, v)
         /\ Heard(<<m>>, c) <=> Tells(m, c)
         /\ (Tells(m, c) => Good(m, c, v)) => EndsGood(<<m>>, c, v)
<1>1. Len(<<>>) = 0 /\ 1..0 = {} /\ Len(<<m>>) = 1 /\ <<m>>[1] = m /\ 1..1 = {1}
  OBVIOUS
<1>2. QED
  BY <1>1 DEF Heard, EndsGood

\* The cells a frame tells of.
LEMMA ToldTells ==
  ASSUME NEW m \in Frames, NEW c \in Cells PROVE c \in Told(m) <=> Tells(m, c)
  BY BrokerAssumption DEF Told, Tells, Frames, CellsOfAll, CellsOf, Source, Sources, Cells

\* An overflow loses no word: the resync has everything asked for.
LEMMA EndsEnqueue ==
  ASSUME NEW q \in Seq(Frames), NEW m \in Frames, NEW c \in Cells, NEW v
  PROVE  /\ Heard(q, c) \/ Tells(m, c) => Heard(Enqueue(q, m), c)
         /\ c \in Told(Last(Enqueue(q, m))) => Heard(Enqueue(q, m), c)
         /\ (IF Tells(m, c) THEN Good(m, c, v) ELSE EndsGood(q, c, v))
              => EndsGood(Enqueue(q, m), c, v)
<1>1. Tells(Resync, c) /\ Good(Resync, c, v)
  BY DEF Tells, Good, Resync, Source, Sources
<1>2. Last(Enqueue(q, m)) = IF Len(q) < QueueSize THEN m ELSE Resync
  <2>1. Append(q, m)[Len(Append(q, m))] = m /\ <<Resync>>[Len(<<Resync>>)] = Resync
    OBVIOUS
  <2>2. QED
    BY <2>1 DEF Enqueue, Last
<1>3. c \in Told(Last(Enqueue(q, m))) => Heard(Enqueue(q, m), c)
  BY <1>1, <1>2, EndsFew, EndsAppend, ToldTells, PartFrames DEF Enqueue
<1>4. QED
  BY <1>1, <1>3, EndsFew, EndsAppend DEF Enqueue

---------------------------------------------------------------------------
\* What is on its way to a browser.
Message(p)   == todo[p] \notin {None, Due}
Pending(c)   == \E p \in Threads : \/ todo[p] = Due /\ c = "tasks"
                                   \/ Message(p) /\ Tells(todo[p], c)
Coming(b, c) == Pending(c) \/ Heard(loop, c) \/ Heard(queue[b], c) \/ Heard(wire[b], c)

\* Which cells which thread speaks of, and what a stream begins with.
Shape ==
  /\ todo[Paho] # Due
  /\ Message(Paho) => DOMAIN todo[Paho].put \subseteq Fields /\ todo[Paho].ask = {}
  /\ \A w \in Writers : Message(w) => DOMAIN todo[w].put = {"tasks"} /\ todo[w].ask = {}
  /\ bound \/ (loop = <<>> /\ \A b \in Browsers : ~Open(b))
  /\ \A b \in Browsers : phase[b] = "reading" => DOMAIN initial[b] = Fields
  /\ \A b \in Browsers : phase[b] = "starting" => DOMAIN initial[b] = Cells

\* The last word on a cell is its value: among what is announced, in the
\* snapshot a stream will begin with, in the queue and on the connection, in
\* the answers under way, and else in the store of the browser.  A list of
\* tasks in hand may be old as long as another thread has still to list them.
OnItsWay(c) ==
  /\ \A p \in Threads : Message(p) /\ Tells(todo[p], c)
       => Good(todo[p], c, srv[c]) \/ (c = "tasks" /\ \E w \in Writers : todo[w] = Due)
  /\ Pending(c) \/ EndsGood(loop, c, srv[c])
Starting(b, c) ==
  phase[b] \in {"reading", "starting"} /\ c \in DOMAIN initial[b] /\ c \notin lost[b]
    => Pending(c) \/ Heard(loop, c) \/ initial[b][c] = srv[c]
Streaming(b, c) ==
  Open(b) =>
    /\ Pending(c) \/ Heard(loop, c) \/ EndsGood(queue[b], c, srv[c])
    /\ \/ c \in lost[b] \/ Pending(c) \/ Heard(loop, c) \/ Heard(queue[b], c)
       \/ EndsGood(wire[b], c, srv[c])
Answering(b, c) ==
  Open(b) /\ c \notin lost[b]
    => \A a \in ToSet(answers[b]) : c \in DOMAIN a => Coming(b, c) \/ a[c] = srv[c]
Showing(b, c) ==
  Open(b) /\ c \notin lost[b]
    => \/ Coming(b, c) \/ Source(c) \in failed[b] \/ asked[b][Source(c)] > 0
       \/ c \in UnderWay(b) \/ store[b][c] = srv[c]
Follows(b, c) == Starting(b, c) /\ Streaming(b, c) /\ Answering(b, c) /\ Showing(b, c)
Followed == \A c \in Cells \ untold : OnItsWay(c) /\ \A b \in Browsers : Follows(b, c)

\* The inductive invariant behind Converged.
StreamInv == TypeOK /\ Shape /\ Followed

\* The cells, and who speaks of them.
LEMMA CellSource ==
  ASSUME NEW c \in Cells
  PROVE  /\ Source(c) \in Sources /\ c \in CellsOf(Source(c))
         /\ \A s \in Sources : c \in CellsOf(s) => s = Source(c)
         /\ c \in Fields <=> c # "tasks"
  BY BrokerAssumption DEF Cells, Source, Sources, CellsOf

\* A message is a frame.
LEMMA MessageFrame ==
  ASSUME TypeOK, NEW p \in Threads, Message(p) PROVE todo[p] \in Frames
  BY DEF TypeOK, Message

\* What a step of the daemon's threads owes for a cell: an announcement under
\* way, or the value it had.
LEMMA DaemonCell ==
  ASSUME NEW c, UNCHANGED <<bound, loop, stream, page, lost>>,
         \A p \in Threads : Message(p)' /\ Tells(todo'[p], c)
           => Good(todo'[p], c, srv'[c]) \/ (c = "tasks" /\ \E w \in Writers : todo'[w] = Due),
         \/ Pending(c)'
         \/ /\ srv'[c] = srv[c] /\ ~Pending(c)
            /\ OnItsWay(c) /\ \A b \in Browsers : Follows(b, c)
  PROVE  OnItsWay(c)' /\ \A b \in Browsers : Follows(b, c)'
<1> USE DEF stream, page
<1>1. OnItsWay(c)'
  BY DEF OnItsWay
<1>2. ASSUME NEW b \in Browsers PROVE Follows(b, c)'
  <2>1. CASE Pending(c)'
    BY <2>1 DEF Follows, Starting, Streaming, Answering, Showing, Coming
  <2>2. CASE ~Pending(c) /\ Follows(b, c) /\ srv'[c] = srv[c]
    BY <2>2 DEF Follows, Starting, Streaming, Answering, Showing, Coming, Open, UnderWay
  <2>3. QED
    BY <2>1, <2>2
<1>3. QED
  BY <1>1, <1>2

\* A browser that a step does not touch.
LEMMA OtherBrowser ==
  ASSUME NEW c, NEW b \in Browsers, Follows(b, c),
         UNCHANGED <<srv, todo, loop>>, UNCHANGED <<phase[b], initial[b], queue[b], wire[b]>>,
         UNCHANGED <<store[b], asked[b], answers[b], failed[b], lost[b]>>
  PROVE  Follows(b, c)'
  BY DEF Follows, Starting, Streaming, Answering, Showing, Coming, Open, Pending, Message, UnderWay

\* The announcements a step leaves alone.
LEMMA SameNews ==
  ASSUME NEW c, UNCHANGED <<srv, todo, loop>>
  PROVE  /\ Pending(c)' <=> Pending(c)
         /\ OnItsWay(c) => OnItsWay(c)'
  BY DEF OnItsWay, Pending, Message

\* A step of one browser leaves what the others follow.
LEMMA OneBrowser ==
  ASSUME Followed, NEW b \in Browsers, UNCHANGED <<srv, todo, loop, untold>>,
         \A d \in Browsers \ {b} :
           /\ UNCHANGED <<phase[d], initial[d], queue[d], wire[d]>>
           /\ UNCHANGED <<store[d], asked[d], answers[d], failed[d], lost[d]>>,
         \A c \in Cells \ untold : Follows(b, c) => Follows(b, c)'
  PROVE  Followed'
<1> SUFFICES ASSUME NEW c \in Cells, c \notin untold
             PROVE  OnItsWay(c)' /\ \A d \in Browsers : Follows(d, c)'
  BY DEF Followed
<1>1. OnItsWay(c) /\ \A d \in Browsers : Follows(d, c)
  BY DEF Followed
<1>2. OnItsWay(c)'
  BY <1>1, SameNews
<1>3. ASSUME NEW d \in Browsers, d # b PROVE Follows(d, c)'
  BY <1>1, <1>3, OtherBrowser
<1>4. QED
  BY <1>1, <1>2, <1>3

LEMMA StreamInit == Init => Shape /\ Followed
<1> SUFFICES ASSUME Init PROVE Shape /\ Followed
  OBVIOUS
<1>1. \A p \in Threads : todo[p] = None
  BY DEF Init
<1>2. Paho \in Threads /\ Writers \subseteq Threads
  BY DEF Threads
<1>3. Len(<<>>) = 0
  OBVIOUS
<1>4. Shape
  BY <1>1, <1>2, <1>3, MarksAssumption DEF Init, Shape, Message, Open
<1>5. ASSUME NEW c \in Cells PROVE OnItsWay(c)
  BY <1>1, EndsFew DEF OnItsWay, Message, Init
<1>6. ASSUME NEW c, NEW b \in Browsers PROVE Follows(b, c)
  BY DEF Init, Follows, Starting, Streaming, Answering, Showing, Open
<1>7. QED
  BY <1>4, <1>5, <1>6 DEF Followed

LEMMA ShapeStep ==
  ASSUME TypeOK, Shape, [Next]_vars PROVE Shape'
<1>0. Paho \in Threads /\ Writers \subseteq Threads /\ Paho \notin Writers
  BY BrokerAssumption DEF Threads
<1> USE DEF server, stream, page, counts, Message, Open
<1>1. CASE Report
  <2>1. PICK C, new :
          C \in SUBSET Fields /\ todo' = [todo EXCEPT ![Paho] = Put([c \in C |-> new[c]])]
    <3>1. PICK new \in [Fields -> Values] :
            todo' = [todo EXCEPT ![Paho] = Put([c \in Differing(acc, new) |-> new[c]])]
      BY <1>1 DEF Report
    <3>2. Differing(acc, new) \subseteq Fields
      BY DEF Differing
    <3>3. QED
      BY <3>1, <3>2
  <2>2. DOMAIN todo'[Paho].put \subseteq Fields /\ todo'[Paho].ask = {}
    BY <1>0, <2>1 DEF Put, TypeOK
  <2>3. todo'[Paho] # Due
    <3>1. PICK rep \in [Fields -> Values] :
            todo' = [todo EXCEPT ![Paho] = Put([c \in Differing(acc, rep) |-> rep[c]])]
      BY <1>1 DEF Report
    <3>2. [c \in Differing(acc, rep) |-> rep[c]] \in [Differing(acc, rep) -> Values]
      BY DEF Differing
    <3>3. Differing(acc, rep) \in SUBSET Cells
      BY DEF Differing, Cells
    <3>4. todo'[Paho] \in Frames
      BY <1>0, <3>1, <3>2, <3>3, PartOf, PartFrames DEF TypeOK
    <3>5. QED
      BY <3>4, MarksAssumption
  <2>4. \A w \in Writers : todo'[w] = todo[w]
    BY <1>0, <2>1
  <2>5. QED
    BY <1>1, <2>2, <2>3, <2>4 DEF Report, Shape
<1>2. CASE Renew \/ Pull \/ Adopt \/ UNCHANGED vars
  BY <1>2 DEF Renew, Pull, Adopt, vars, Shape
<1>3. ASSUME NEW w \in Writers, ChangeTasks(w) PROVE Shape'
  <2>1. todo'[w] = Due /\ \A p \in Threads \ {w} : todo'[p] = todo[p]
    BY <1>0, <1>3 DEF ChangeTasks, TypeOK
  <2>2. QED
    BY <1>0, <1>3, <2>1 DEF ChangeTasks, Shape
<1>4. ASSUME NEW w \in Writers, ReadTasks(w) PROVE Shape'
  <2>1. todo'[w] = Put(List) /\ \A p \in Threads \ {w} : todo'[p] = todo[p]
    BY <1>0, <1>4 DEF ReadTasks, TypeOK
  <2>2. todo'[w].ask = {} /\ DOMAIN todo'[w].put = {"tasks"}
    BY <2>1 DEF Put, List
  <2>3. QED
    BY <1>0, <1>4, <2>1, <2>2 DEF ReadTasks, Shape
<1>5. ASSUME NEW p \in Threads, Post(p) PROVE Shape'
  <2>1. todo'[p] = None /\ \A q \in Threads \ {p} : todo'[q] = todo[q]
    BY <1>5 DEF Post, TypeOK
  <2>2. bound' = bound /\ (~bound => loop' = loop)
    BY <1>5 DEF Post
  <2>3. QED
    BY <1>0, <1>5, <2>1, <2>2, MarksAssumption DEF Post, Shape
<1>6. CASE Deliver
  BY <1>6 DEF Deliver, Shape
<1>7. ASSUME NEW b \in Browsers, Connect(b) PROVE Shape'
  <2>1. /\ DOMAIN initial'[b] = Fields /\ phase'[b] = "reading"
        /\ \A d \in Browsers \ {b} : phase'[d] = phase[d] /\ initial'[d] = initial[d]
    BY <1>7 DEF Connect, TypeOK
  <2>2. QED
    BY <1>7, <2>1 DEF Connect, Shape
<1>8. ASSUME NEW b \in Browsers, Welcome(b) PROVE Shape'
  <2>1. /\ DOMAIN initial'[b] = Cells /\ phase'[b] = "starting"
        /\ \A d \in Browsers \ {b} : phase'[d] = phase[d] /\ initial'[d] = initial[d]
    BY <1>8 DEF Welcome, TypeOK, Shape, Over, List, Cells
  <2>2. QED
    BY <1>8, <2>1 DEF Welcome, Shape
<1>9. ASSUME NEW b \in Browsers, Subscribe(b) PROVE Shape'
  <2>1. /\ phase'[b] = "open" /\ bound' = TRUE
        /\ \A d \in Browsers \ {b} : phase'[d] = phase[d] /\ initial'[d] = initial[d]
    BY <1>9 DEF Subscribe, TypeOK
  <2>2. UNCHANGED todo
    BY <1>9 DEF Subscribe
  <2>3. /\ \A d \in Browsers : phase'[d] = "reading" => DOMAIN initial'[d] = Fields
        /\ \A d \in Browsers : phase'[d] = "starting" => DOMAIN initial'[d] = Cells
    BY <2>1 DEF Shape
  <2>4. bound'
    BY <2>1, Zenon
  <2>5. QED
    BY <2>2, <2>3, <2>4 DEF Shape
<1>10. ASSUME NEW b \in Browsers, Pump(b) \/ Receive(b) \/ RefreshTasks(b) PROVE Shape'
  BY <1>10 DEF Pump, Receive, RefreshTasks, Shape
<1>11. ASSUME NEW b \in Browsers, NEW s \in Sources, Answer(b, s) PROVE Shape'
  BY <1>11 DEF Answer, Shape
<1>12. ASSUME NEW b \in Browsers, NEW s \in Sources, RequestFails(b, s) PROVE Shape'
  BY <1>12 DEF RequestFails, Shape
<1>13. ASSUME NEW b \in Browsers, Arrive(b) PROVE Shape'
  BY <1>13 DEF Arrive, Shape
<1>14. ASSUME NEW b \in Browsers, Break(b) PROVE Shape'
  <2>1. /\ phase'[b] = "closed" /\ UNCHANGED <<server, page>>
        /\ \A d \in Browsers \ {b} : phase'[d] = phase[d] /\ initial'[d] = initial[d]
    BY <1>14 DEF Break, TypeOK
  <2>2. QED
    BY <2>1 DEF Shape
<1>15. CASE Restart
  <2>1. /\ \A p \in Threads : todo'[p] = None
        /\ loop' = <<>> /\ \A b \in Browsers : phase'[b] = "closed"
    BY <1>15 DEF Restart
  <2>2. Len(<<>>) = 0
    OBVIOUS
  <2>3. QED
    BY <1>0, <2>1, <2>2, MarksAssumption DEF Shape
<1>16. QED
  BY <1>1, <1>2, <1>3, <1>4, <1>5, <1>6, <1>7, <1>8, <1>9, <1>10, <1>11, <1>12, <1>13,
     <1>14, <1>15 DEF Next, Daemon, Loop, Page

LEMMA FollowedStep ==
  ASSUME TypeOK, Shape, Followed, [Next]_vars PROVE Followed'
<1>0. /\ Paho \in Threads /\ Writers \subseteq Threads /\ Paho \notin Writers
      /\ Fields \subseteq Cells /\ "tasks" \in Cells /\ "tasks" \notin Fields
  BY BrokerAssumption DEF Threads, Cells
<1>a. ASSUME NEW c \in Cells, c \notin untold PROVE OnItsWay(c) /\ \A b \in Browsers : Follows(b, c)
  BY <1>a DEF Followed
<1>b. \A p \in Threads : Message(p) => todo[p] \in Frames
  BY MessageFrame
<1>1. CASE Report
  <2>1. PICK new \in [Fields -> Values] :
          /\ acc' = new /\ srv' = Over(new, srv)
          /\ todo' = [todo EXCEPT ![Paho] = Put([c \in Differing(acc, new) |-> new[c]])]
          /\ untold' = (untold \cup Differing(new, srv)) \ Differing(acc, new)
    BY <1>1 DEF Report
  <2> DEFINE changed == Differing(acc, new)
  <2>2. /\ changed \subseteq Fields /\ todo[Paho] = None
        /\ UNCHANGED <<bound, loop, stream, page, lost>>
    BY <1>1 DEF Report, Differing
  <2>3. todo'[Paho] \in Frames
    <3>1. [c \in changed |-> new[c]] \in [changed -> Values] /\ changed \in SUBSET Cells
      BY <1>0, <2>2
    <3>2. QED
      BY <1>0, <2>1, <3>1, PartOf, PartFrames DEF TypeOK
  <2>4. /\ DOMAIN todo'[Paho].put = changed /\ todo'[Paho].ask = {}
        /\ \A c \in changed : todo'[Paho].put[c] = new[c]
        /\ \A p \in Threads \ {Paho} : todo'[p] = todo[p]
    BY <1>0, <2>1 DEF Put, TypeOK
  <2>5. Message(Paho)' /\ ~Message(Paho)
    BY <2>2, <2>3, MarksAssumption DEF Message
  <2>6. /\ \A c \in Fields : srv'[c] = new[c]
        /\ srv'["tasks"] = srv["tasks"]
    BY <1>0, <2>1 DEF Over, TypeOK
  <2>7. SUFFICES ASSUME NEW c \in Cells, c \notin untold'
                 PROVE  OnItsWay(c)' /\ \A b \in Browsers : Follows(b, c)'
    BY DEF Followed
  <2>8. c \in changed \/ (c \notin untold /\ c \notin changed /\ srv'[c] = srv[c])
    <3>1. ASSUME c \notin changed PROVE c \notin untold /\ srv'[c] = srv[c]
      <4>1. c \notin untold /\ c \notin Differing(new, srv)
        BY <2>1, <2>7, <3>1
      <4>2. QED
        BY <1>0, <2>6, <4>1 DEF Differing, TypeOK, Cells
    <3>2. QED
      BY <3>1
  <2>9. ASSUME NEW p \in Threads, Message(p)', Tells(todo'[p], c)
        PROVE  Good(todo'[p], c, srv'[c]) \/ (c = "tasks" /\ \E v \in Writers : todo'[v] = Due)
    <3>1. CASE p = Paho
      BY <2>2, <2>4, <2>6, <2>9, <3>1 DEF Tells, Good
    <3>2. CASE p # Paho
      <4>1. Message(p) /\ todo'[p] = todo[p] /\ Tells(todo[p], c)
        BY <2>4, <2>9, <3>2 DEF Message
      <4>2. c = "tasks"
        BY <3>2, <4>1 DEF Threads, Shape, Tells
      <4>3. c \notin changed
        BY <1>0, <2>2, <4>2
      <4>4. Good(todo[p], c, srv[c]) \/ \E w \in Writers : todo[w] = Due
        BY <1>a, <2>8, <4>1, <4>3 DEF OnItsWay
      <4>5. \A w \in Writers : todo'[w] = todo[w]
        BY <1>0, <2>4
      <4>6. QED
        BY <2>8, <4>1, <4>2, <4>3, <4>4, <4>5
    <3>3. QED
      BY <3>1, <3>2
  <2>10. CASE c \in changed
    <3>1. Pending(c)'
      BY <1>0, <2>4, <2>5, <2>10 DEF Pending, Tells
    <3>2. QED
      BY <2>2, <2>9, <3>1, DaemonCell
  <2>11. CASE c \notin changed
    <3>1. Pending(c) => Pending(c)'
      BY <1>0, <2>4, <2>5, <2>2, MarksAssumption DEF Pending, Message
    <3>2. QED
      BY <1>a, <2>2, <2>8, <2>9, <2>11, <3>1, DaemonCell
  <2>12. QED
    BY <2>10, <2>11
<1>2. CASE Renew \/ Pull \/ Adopt
  <2>1. /\ UNCHANGED <<todo, bound, loop, stream, page, lost>>
        /\ untold \subseteq untold'
        /\ \A c \in Cells \ untold' : srv'[c] = srv[c]
    <3>1. ASSUME NEW part, srv' = Over(part, srv), untold' = untold \cup Differing(part, srv)
          PROVE  \A c \in Cells \ untold' : srv'[c] = srv[c]
      BY <3>1 DEF Over, Differing, TypeOK
    <3>2. CASE Renew
      BY <3>1, <3>2 DEF Renew
    <3>3. CASE Pull
      BY <3>3 DEF Pull
    <3>4. CASE Adopt
      BY <3>1, <3>4 DEF Adopt
    <3>5. QED
      BY <1>2, <3>2, <3>3, <3>4
  <2>2. SUFFICES ASSUME NEW c \in Cells, c \notin untold'
                 PROVE  OnItsWay(c)' /\ \A b \in Browsers : Follows(b, c)'
    BY DEF Followed
  <2>3. c \notin untold /\ srv'[c] = srv[c]
    BY <2>1, <2>2
  <2>4. Pending(c) <=> Pending(c)'
    BY <2>1 DEF Pending, Message
  <2>5. \A p \in Threads : Message(p)' /\ Tells(todo'[p], c)
          => Good(todo'[p], c, srv'[c]) \/ (c = "tasks" /\ \E v \in Writers : todo'[v] = Due)
    BY <1>a, <2>1, <2>3 DEF OnItsWay, Message
  <2>6. QED
    BY <1>a, <2>1, <2>3, <2>4, <2>5, DaemonCell
<1>3. ASSUME NEW w \in Writers, ChangeTasks(w) PROVE Followed'
  <2>1. /\ todo[w] = None /\ todo'[w] = Due /\ \A p \in Threads \ {w} : todo'[p] = todo[p]
        /\ UNCHANGED <<bound, loop, stream, page, untold, lost>>
        /\ \A c \in Fields : srv'[c] = srv[c]
    BY <1>0, <1>3 DEF ChangeTasks, TypeOK
  <2>2. SUFFICES ASSUME NEW c \in Cells, c \notin untold
                 PROVE  OnItsWay(c)' /\ \A b \in Browsers : Follows(b, c)'
    BY <2>1 DEF Followed
  <2>3. ASSUME NEW p \in Threads, Message(p)', Tells(todo'[p], c)
        PROVE  Good(todo'[p], c, srv'[c]) \/ (c = "tasks" /\ \E v \in Writers : todo'[v] = Due)
    <3>1. CASE c = "tasks"
      BY <2>1, <3>1
    <3>2. CASE c # "tasks"
      <4>1. Message(p) /\ todo'[p] = todo[p] /\ c \in Fields
        BY <2>1, <2>3, <3>2 DEF Message, Cells
      <4>2. QED
        BY <1>a, <2>1, <2>2, <2>3, <3>2, <4>1 DEF OnItsWay
    <3>3. QED
      BY <3>1, <3>2
  <2>4. CASE c = "tasks"
    <3>1. Pending(c)'
      BY <1>0, <2>1, <2>4 DEF Pending
    <3>2. QED
      BY <2>1, <2>3, <3>1, DaemonCell
  <2>5. CASE c # "tasks"
    <3>1. srv'[c] = srv[c]
      BY <2>1, <2>5 DEF Cells
    <3>2. Pending(c) => Pending(c)'
      BY <2>1, <2>5, MarksAssumption DEF Pending, Message
    <3>3. QED
      BY <1>a, <2>1, <2>2, <2>3, <3>1, <3>2, DaemonCell
  <2>6. QED
    BY <2>4, <2>5
<1>4. ASSUME NEW w \in Writers, ReadTasks(w) PROVE Followed'
  <2>1. /\ todo[w] = Due /\ todo'[w] = Put(List)
        /\ \A p \in Threads \ {w} : todo'[p] = todo[p]
        /\ UNCHANGED <<srv, bound, loop, stream, page, lost>>
        /\ untold' = IF \E v \in Writers : todo[v] \notin {None, Due}
                     THEN untold \cup {"tasks"} ELSE untold \ {"tasks"}
    BY <1>0, <1>4 DEF ReadTasks, TypeOK
  <2>2. SUFFICES ASSUME NEW c \in Cells, c \notin untold'
                 PROVE  OnItsWay(c)' /\ \A b \in Browsers : Follows(b, c)'
    BY DEF Followed
  <2>3. /\ DOMAIN todo'[w].put = {"tasks"} /\ todo'[w].ask = {}
        /\ todo'[w].put["tasks"] = srv["tasks"]
    BY <2>1 DEF Put, List
  <2>4. Message(w)'
    <3>1. List \in Parts
      <4>1. List \in [{"tasks"} -> Values]
        BY <1>0 DEF List, TypeOK
      <4>2. {"tasks"} \in SUBSET Cells
        BY <1>0
      <4>3. QED
        BY <4>1, <4>2, PartOf
    <3>2. QED
      BY <2>1, <3>1, PartFrames, MarksAssumption DEF Message
  <2>5. CASE c = "tasks"
    <3>1. \A v \in Writers : ~Message(v)
      BY <2>1, <2>2, <2>5 DEF Message
    <3>2. ASSUME NEW p \in Threads, Message(p)', Tells(todo'[p], c)
          PROVE  Good(todo'[p], c, srv'[c])
      <4>1. p = w
        <5>1. ASSUME p # w PROVE Message(p) /\ todo'[p] = todo[p]
          BY <2>1, <3>2, <5>1 DEF Message
        <5>2. ASSUME p # w PROVE p = Paho
          BY <3>1, <5>1, <5>2 DEF Threads
        <5>3. ASSUME p # w PROVE FALSE
          BY <1>0, <2>5, <3>2, <5>1, <5>2, <5>3 DEF Shape, Tells
        <5>4. QED
          BY <5>3
      <4>2. QED
        BY <2>1, <2>3, <2>5, <3>2, <4>1 DEF Tells, Good
    <3>3. Pending(c)'
      BY <1>0, <2>3, <2>4, <2>5 DEF Pending, Tells
    <3>4. QED
      BY <2>1, <3>2, <3>3, DaemonCell
  <2>6. CASE c # "tasks"
    <3>1. c \notin untold /\ ~Tells(todo'[w], c)
      BY <2>1, <2>2, <2>3, <2>6 DEF Tells, Source
    <3>2. ASSUME NEW p \in Threads, Message(p)', Tells(todo'[p], c)
          PROVE  Good(todo'[p], c, srv'[c])
      <4>1. p # w /\ Message(p) /\ todo'[p] = todo[p]
        BY <2>1, <3>1, <3>2 DEF Message
      <4>2. QED
        BY <1>a, <2>1, <2>6, <3>1, <3>2, <4>1 DEF OnItsWay
    <3>3. Pending(c) => Pending(c)'
      <4>1. ASSUME NEW p \in Threads, Message(p), Tells(todo[p], c) PROVE Pending(c)'
        <5>1. p # w
          BY <2>1, <4>1 DEF Message
        <5>2. todo'[p] = todo[p]
          BY <2>1, <5>1
        <5>3. QED
          BY <4>1, <5>2 DEF Pending, Message
      <4>2. QED
        BY <2>6, <4>1 DEF Pending
    <3>4. QED
      BY <1>a, <2>1, <3>1, <3>2, <3>3, DaemonCell
  <2>7. QED
    BY <2>5, <2>6

<1>5. ASSUME NEW p \in Threads, Post(p) PROVE Followed'
  <2>1. /\ Message(p) /\ todo'[p] = None /\ \A q \in Threads \ {p} : todo'[q] = todo[q]
        /\ todo[p] \in Frames /\ loop \in Seq(Frames)
        /\ UNCHANGED <<srv, bound, stream, page, untold>>
    BY <1>5, <1>b DEF Post, TypeOK, Message
  <2>2. SUFFICES ASSUME NEW c \in Cells, c \notin untold
                 PROVE  OnItsWay(c)' /\ \A b \in Browsers : Follows(b, c)'
    BY <2>1 DEF Followed
  <2>3. OnItsWay(c) /\ \A b \in Browsers : Follows(b, c)
    BY <1>a, <2>2
  <2>4. \A w \in Writers : todo[w] = Due => w # p /\ todo'[w] = Due
    BY <1>0, <2>1 DEF Message
  <2>5. ASSUME NEW q \in Threads, Message(q)', Tells(todo'[q], c)
        PROVE  Good(todo'[q], c, srv'[c]) \/ (c = "tasks" /\ \E v \in Writers : todo'[v] = Due)
    <3>1. q # p /\ Message(q) /\ todo'[q] = todo[q]
      BY <2>1, <2>5 DEF Message
    <3>2. QED
      BY <2>1, <2>3, <2>4, <2>5, <3>1 DEF OnItsWay
  <2>6. Pending(c) => Pending(c)' \/ Tells(todo[p], c)
    BY <2>1, MarksAssumption DEF Pending, Message
  <2>7. CASE bound
    <3>1. loop' = Append(loop, todo[p]) /\ \A b \in Browsers : lost'[b] = lost[b]
      BY <1>5, <2>7 DEF Post
    <3>2. /\ Heard(loop', c) <=> Heard(loop, c) \/ Tells(todo[p], c)
          /\ Tells(todo[p], c) => Pending(c)' \/ EndsGood(loop', c, srv[c])
          /\ ~Tells(todo[p], c) /\ EndsGood(loop, c, srv[c]) => EndsGood(loop', c, srv[c])
      <4>1. Tells(todo[p], c) => Pending(c)' \/ Good(todo[p], c, srv[c])
        BY <1>0, <2>1, <2>3, <2>4 DEF OnItsWay, Pending
      <4>2. QED
        BY <2>1, <3>1, <4>1, EndsAppend
    <3>3. OnItsWay(c)'
      BY <2>1, <2>3, <2>5, <2>6, <3>2 DEF OnItsWay
    <3>4. ASSUME NEW b \in Browsers PROVE Follows(b, c)'
      BY <2>1, <2>3, <2>6, <3>1, <3>2
         DEF Follows, Starting, Streaming, Answering, Showing, Coming, Open, UnderWay, stream, page
    <3>5. QED
      BY <3>3, <3>4
  <2>8. CASE ~bound
    <3>1. /\ loop' = loop /\ loop = <<>> /\ \A b \in Browsers : phase[b] # "open"
          /\ lost' = [b \in Browsers |-> lost[b] \cup (Told(todo[p]) \cap DOMAIN initial[b])]
      BY <1>5, <2>8 DEF Post, Shape, Open
    <3>2. OnItsWay(c)'
      BY <2>1, <2>5, <3>1, EndsFew DEF OnItsWay
    <3>3. ASSUME NEW b \in Browsers PROVE Starting(b, c)'
      <4>1. CASE Tells(todo[p], c)
        <5>1. c \in Told(todo[p])
          BY <2>1, <4>1, ToldTells
        <5>2. QED
          BY <2>1, <3>1, <5>1 DEF Starting, stream
      <4>2. CASE ~Tells(todo[p], c)
        BY <2>1, <2>3, <2>6, <3>1, <4>2 DEF Follows, Starting, stream
      <4>3. QED
        BY <4>1, <4>2
    <3>4. ASSUME NEW b \in Browsers PROVE Follows(b, c)'
      BY <2>1, <3>1, <3>3 DEF stream, Follows, Streaming, Answering, Showing, Open
    <3>5. QED
      BY <3>2, <3>4
  <2>9. QED
    BY <2>7, <2>8
<1>6. CASE Deliver
  <2> DEFINE m == Head(loop)
  <2>1. /\ loop # <<>> /\ loop' = Tail(loop)
        /\ queue' = [b \in Browsers |-> IF Open(b) THEN Enqueue(queue[b], m) ELSE queue[b]]
        /\ lost' = [b \in Browsers |-> IF Open(b) THEN lost[b] \ Told(Last(queue'[b]))
                                       ELSE lost[b] \cup (Told(m) \cap DOMAIN initial[b])]
        /\ UNCHANGED <<srv, todo, phase, initial, wire, page, untold>>
    BY <1>6 DEF Deliver, Passed
  <2>2. loop \in Seq(Frames) /\ m \in Frames
    BY <2>1, SeqOps DEF TypeOK
  <2>3. SUFFICES ASSUME NEW c \in Cells, c \notin untold
                 PROVE  OnItsWay(c)' /\ \A b \in Browsers : Follows(b, c)'
    BY <2>1 DEF Followed
  <2>4. /\ Heard(loop, c) <=> Tells(m, c) \/ Heard(loop', c)
        /\ EndsGood(loop, c, srv[c]) => EndsGood(loop', c, srv[c])
        /\ EndsGood(loop, c, srv[c]) /\ ~Heard(loop', c) /\ Tells(m, c)
              => Good(m, c, srv[c])
    BY <2>1, <2>2, EndsTail
  <2>5. OnItsWay(c) /\ (Pending(c)' <=> Pending(c))
    BY <1>a, <2>1, <2>3 DEF Pending, Message
  <2>6. OnItsWay(c)'
    BY <2>1, <2>4, <2>5 DEF OnItsWay, Message
  <2> HIDE DEF m
  <2>7. ASSUME NEW b \in Browsers PROVE Follows(b, c)'
    <3>1. CASE ~Open(b)
      <4>1. Follows(b, c) /\ lost'[b] = lost[b] \cup (Told(m) \cap DOMAIN initial[b])
        BY <1>a, <2>1, <2>3, <3>1
      <4>2. Tells(m, c) => c \in Told(m)
        BY <2>2, ToldTells
      <4>3. Starting(b, c)'
        BY <2>1, <2>4, <2>5, <4>1, <4>2 DEF Follows, Starting
      <4>4. QED
        BY <2>1, <3>1, <4>3 DEF Open, Follows, Streaming, Answering, Showing
    <3>2. CASE Open(b)
      <4>1. /\ queue'[b] = Enqueue(queue[b], m) /\ queue[b] \in Seq(Frames)
            /\ lost'[b] = lost[b] \ Told(Last(queue'[b]))
        BY <2>1, <3>2 DEF TypeOK
      <4>2. /\ Heard(queue[b], c) \/ Tells(m, c) => Heard(queue'[b], c)
            /\ c \in Told(Last(queue'[b])) => Heard(queue'[b], c)
            /\ Tells(m, c) /\ Good(m, c, srv[c]) => EndsGood(queue'[b], c, srv[c])
            /\ ~Tells(m, c) /\ EndsGood(queue[b], c, srv[c])
                 => EndsGood(queue'[b], c, srv[c])
        BY <2>2, <4>1, EndsEnqueue
      <4>3. Follows(b, c) /\ phase'[b] = "open" /\ srv'[c] = srv[c] /\ wire'[b] = wire[b]
        BY <1>a, <2>1, <2>3, <3>2 DEF Open
      <4>4. (Coming(b, c) => Coming(b, c)') /\ (Heard(queue'[b], c) => Coming(b, c)')
        BY <2>4, <2>5, <4>2, <4>3 DEF Coming
      <4>5. c \notin lost'[b] => c \notin lost[b] \/ Heard(queue'[b], c)
        BY <4>1, <4>2
      <4>6. Streaming(b, c)'
        BY <2>4, <2>5, <3>2, <4>2, <4>3, <4>5 DEF Follows, Streaming, OnItsWay
      <4>7. Starting(b, c)' /\ Answering(b, c)' /\ Showing(b, c)'
        BY <2>1, <3>2, <4>3, <4>4, <4>5
           DEF Follows, Starting, Answering, Showing, UnderWay, page
      <4>8. QED
        BY <4>6, <4>7 DEF Follows
    <3>3. QED
      BY <3>1, <3>2
  <2>8. QED
    BY <2>6, <2>7

<1>7. ASSUME NEW b \in Browsers, Connect(b) PROVE Followed'
  <2>1. /\ phase'[b] = "reading" /\ initial'[b] = [c \in Fields |-> srv[c]]
        /\ \A d \in Browsers \ {b} : phase'[d] = phase[d] /\ initial'[d] = initial[d]
        /\ \A d \in Browsers \ {b} : lost'[d] = lost[d]
        /\ UNCHANGED <<server, queue, wire, page, untold>>
    BY <1>7 DEF Connect, TypeOK
  <2>2. \A c \in Cells : Follows(b, c)'
    BY <2>1 DEF server, Follows, Starting, Streaming, Answering, Showing, Open
  <2>3. QED
    BY <2>1, <2>2, OneBrowser DEF server, page
<1>8. ASSUME NEW b \in Browsers, Welcome(b) PROVE Followed'
  <2>1. /\ phase[b] = "reading"
        /\ phase'[b] = "starting" /\ initial'[b] = Over(List, initial[b])
        /\ \A d \in Browsers \ {b} : phase'[d] = phase[d] /\ initial'[d] = initial[d]
        /\ UNCHANGED <<server, queue, wire, page, untold, lost>>
    BY <1>8 DEF Welcome, TypeOK
  <2>2. ASSUME NEW c \in Cells, Follows(b, c) PROVE Follows(b, c)'
    <3>1. initial'[b][c] = IF c = "tasks" THEN srv[c] ELSE initial[b][c]
      BY <2>1 DEF Over, List, Shape, Cells
    <3>2. c # "tasks" => c \in DOMAIN initial[b]
      BY <2>1 DEF Shape, Cells
    <3>3. Starting(b, c)'
      BY <2>1, <2>2, <3>1, <3>2, SameNews DEF server, Follows, Starting
    <3>4. QED
      BY <2>1, <3>3 DEF Follows, Streaming, Answering, Showing, Open
  <2>3. QED
    BY <2>1, <2>2, OneBrowser DEF server, page
<1>9. ASSUME NEW b \in Browsers, Subscribe(b) PROVE Followed'
  <2>1. /\ phase[b] = "starting" /\ phase'[b] = "open" /\ wire'[b] = <<Put(initial[b])>>
        /\ \A d \in Browsers \ {b} :
             phase'[d] = phase[d] /\ initial'[d] = initial[d] /\ wire'[d] = wire[d]
        /\ UNCHANGED <<srv, todo, loop, queue, page, untold, lost>>
    BY <1>9 DEF Subscribe, TypeOK
  <2>2. queue[b] = <<>> /\ DOMAIN initial[b] = Cells
    BY <2>1 DEF TypeOK, Open, Shape
  <2>3. ASSUME NEW c \in Cells, Follows(b, c) PROVE Follows(b, c)'
    <3>1. Tells(Put(initial[b]), c) /\ Put(initial[b]).put = initial[b]
      BY <2>2 DEF Tells, Put
    <3>2. Heard(wire'[b], c)
      BY <2>1, <3>1, EndsFew
    <3>3. c \in lost[b] \/ Pending(c) \/ Heard(loop, c) \/ EndsGood(wire'[b], c, srv[c])
      <4>1. c \in lost[b] \/ Pending(c) \/ Heard(loop, c) \/ Good(Put(initial[b]), c, srv[c])
        BY <2>1, <2>2, <2>3, <3>1 DEF Follows, Starting, Good
      <4>2. QED
        BY <2>1, <4>1, EndsFew
    <3>4. EndsGood(queue'[b], c, srv'[c])
      BY <2>1, <2>2, EndsFew
    <3>5. Pending(c)' <=> Pending(c)
      BY <2>1, SameNews
    <3>6. QED
      BY <2>1, <3>2, <3>3, <3>4, <3>5
         DEF Follows, Starting, Streaming, Answering, Showing, Coming, Open, UnderWay
  <2>4. QED
    BY <2>1, <2>3, OneBrowser DEF page
<1>10. ASSUME NEW b \in Browsers, Pump(b) PROVE Followed'
  <2>1. /\ Open(b) /\ queue[b] # <<>>
        /\ wire'[b] = Append(wire[b], Head(queue[b])) /\ queue'[b] = Tail(queue[b])
        /\ \A d \in Browsers \ {b} : queue'[d] = queue[d] /\ wire'[d] = wire[d]
        /\ UNCHANGED <<server, phase, initial, page, untold, lost>>
    BY <1>10 DEF Pump, TypeOK
  <2>2. queue[b] \in Seq(Frames) /\ wire[b] \in Seq(Frames) /\ Head(queue[b]) \in Frames
    BY <2>1, SeqOps DEF TypeOK
  <2>3. ASSUME NEW c \in Cells, Follows(b, c) PROVE Follows(b, c)'
    <3> DEFINE m == Head(queue[b])
    <3>1. /\ Heard(queue[b], c) <=> Tells(m, c) \/ Heard(queue'[b], c)
          /\ EndsGood(queue[b], c, srv[c]) => EndsGood(queue'[b], c, srv[c])
          /\ EndsGood(queue[b], c, srv[c]) /\ ~Heard(queue'[b], c) /\ Tells(m, c)
               => Good(m, c, srv[c])
      <4>1. queue[b] # <<>> /\ queue'[b] = Tail(queue[b])
        BY <2>1
      <4>2. QED
        BY <2>2, <4>1, EndsTail
    <3>2. /\ Heard(wire'[b], c) <=> Heard(wire[b], c) \/ Tells(m, c)
          /\ Tells(m, c) /\ Good(m, c, srv[c]) => EndsGood(wire'[b], c, srv[c])
          /\ ~Tells(m, c) /\ EndsGood(wire[b], c, srv[c]) => EndsGood(wire'[b], c, srv[c])
      <4>1. wire'[b] = Append(wire[b], m)
        BY <2>1
      <4>2. QED
        BY <2>2, <4>1, EndsAppend
    <3>3. (Pending(c)' <=> Pending(c)) /\ UNCHANGED <<srv, loop, phase, page>>
      BY <2>1, SameNews DEF server
    <3>4. Streaming(b, c)'
      BY <2>1, <2>3, <3>1, <3>2, <3>3 DEF Follows, Streaming
    <3>5. Coming(b, c) <=> Coming(b, c)'
      BY <3>1, <3>2, <3>3 DEF Coming
    <3>6. QED
      BY <2>1, <2>3, <3>3, <3>4, <3>5
         DEF Follows, Starting, Answering, Showing, Open, UnderWay, page
  <2>4. QED
    BY <2>1, <2>3, OneBrowser DEF server, page
<1>11. ASSUME NEW b \in Browsers, Receive(b) PROVE Followed'
  <2> DEFINE m == Head(wire[b])
  <2>1. /\ wire[b] # <<>> /\ wire'[b] = Tail(wire[b])
        /\ store'[b] = Over(m.put, store[b]) /\ failed'[b] = failed[b] \ Covered(m.put)
        /\ asked'[b] = [s \in Sources |-> asked[b][s] + (IF s \in m.ask THEN 1 ELSE 0)]
        /\ lost'[b] = lost[b] \cup (Told(m) \cap UnderWay(b))
        /\ \A d \in Browsers \ {b} : /\ wire'[d] = wire[d] /\ store'[d] = store[d]
                                     /\ failed'[d] = failed[d] /\ asked'[d] = asked[d]
                                     /\ lost'[d] = lost[d]
        /\ UNCHANGED <<server, phase, initial, queue, answers, untold>>
    BY <1>11 DEF Receive, Show, TypeOK
  <2>2. wire[b] \in Seq(Frames) /\ m \in Frames
    BY <2>1, SeqOps DEF TypeOK
  <2>3. ASSUME NEW c \in Cells, Follows(b, c) PROVE Follows(b, c)'
    <3>1. /\ Heard(wire[b], c) <=> Tells(m, c) \/ Heard(wire'[b], c)
          /\ EndsGood(wire[b], c, srv[c]) => EndsGood(wire'[b], c, srv[c])
          /\ EndsGood(wire[b], c, srv[c]) /\ ~Heard(wire'[b], c) /\ Tells(m, c)
               => Good(m, c, srv[c])
      <4>1. wire[b] # <<>> /\ wire'[b] = Tail(wire[b])
        BY <2>1
      <4>2. QED
        BY <2>2, <4>1, EndsTail
    <3>2. /\ Pending(c)' <=> Pending(c)
          /\ UNCHANGED <<srv, loop, queue, phase, initial, answers, UnderWay(b)>>
      BY <2>1, SameNews DEF server, UnderWay
    <3>3. /\ c \notin lost'[b] => c \notin lost[b]
          /\ c \notin lost'[b] /\ Tells(m, c) => c \notin UnderWay(b)
      BY <2>1, <2>2, ToldTells
    <3> HIDE DEF m
    <3>4. Starting(b, c)'
      BY <2>3, <3>2, <3>3 DEF Follows, Starting
    <3>5. Streaming(b, c)'
      BY <2>3, <3>1, <3>2, <3>3 DEF Follows, Streaming, Open
    <3>6. ~Tells(m, c) => (Coming(b, c)' <=> Coming(b, c))
      BY <3>1, <3>2 DEF Coming
    <3>7. Answering(b, c)'
      BY <2>3, <3>2, <3>3, <3>6 DEF Follows, Answering, Open, UnderWay
    <3>8. Showing(b, c)'
      <4>0. SUFFICES ASSUME Open(b), ~Coming(b, c)', c \notin lost'[b], c \notin UnderWay(b)
                     PROVE  \/ Source(c) \in failed'[b] \/ asked'[b][Source(c)] > 0
                            \/ store'[b][c] = srv'[c]
        BY <3>2 DEF Showing, Open
      <4>1. Source(c) \in Sources /\ asked[b][Source(c)] \in Nat
        BY CellSource DEF TypeOK
      <4>2. store'[b][c] = IF c \in DOMAIN m.put THEN m.put[c] ELSE store[b][c]
        BY <2>1 DEF Over, TypeOK, m
      <4>3. CASE Tells(m, c)
        <5>1. Good(m, c, srv[c])
          BY <2>3, <3>1, <3>2, <3>3, <4>0, <4>3 DEF Follows, Streaming, Coming
        <5>2. CASE Source(c) \in m.ask
          BY <2>1, <4>1, <5>2 DEF m
        <5>3. CASE Source(c) \notin m.ask
          BY <3>2, <4>2, <5>1, <5>3 DEF Good
        <5>4. QED
          BY <5>2, <5>3
      <4>4. CASE ~Tells(m, c)
        <5>1. Source(c) \notin Covered(m.put)
          BY <4>4, CellSource DEF Covered, Tells
        <5>2. asked'[b][Source(c)] = asked[b][Source(c)]
          BY <2>1, <4>1, <4>4 DEF Tells, m
        <5>3. \/ Source(c) \in failed[b] \/ asked[b][Source(c)] > 0
              \/ store[b][c] = srv[c]
          BY <2>3, <3>3, <3>6, <4>0, <4>4 DEF Follows, Showing
        <5>4. failed'[b] = failed[b] \ Covered(m.put)
          BY <2>1 DEF m
        <5>5. QED
          BY <3>2, <4>2, <4>4, <5>1, <5>2, <5>3, <5>4 DEF Tells
      <4>5. QED
        BY <4>3, <4>4
    <3>9. QED
      BY <3>4, <3>5, <3>7, <3>8 DEF Follows
  <2>4. QED
    BY <2>1, <2>3, OneBrowser DEF server

<1>12. ASSUME NEW b \in Browsers, NEW s \in Sources, Answer(b, s) PROVE Followed'
  <2> DEFINE a == [c \in CellsOf(s) |-> srv[c]]
  <2>1. /\ answers'[b] = Append(answers[b], a)
        /\ \A t \in Sources \ {s} : asked'[b][t] = asked[b][t]
        /\ \A d \in Browsers \ {b} : answers'[d] = answers[d] /\ asked'[d] = asked[d]
        /\ UNCHANGED <<server, stream, store, failed, untold, lost>>
    BY <1>12 DEF Answer, TypeOK
  <2>2. ToSet(answers'[b]) = ToSet(answers[b]) \cup {a}
    <3>1. CellsOf(s) \in SUBSET Cells
      BY DEF CellsOf, Cells
    <3>2. a \in [CellsOf(s) -> Values]
      BY <3>1 DEF TypeOK
    <3>3. a \in Parts /\ answers[b] \in Seq(Parts)
      BY <3>1, <3>2, PartOf DEF TypeOK
    <3>4. QED
      BY <2>1, <3>3, SeqElements
  <2>3. ASSUME NEW c \in Cells, Follows(b, c) PROVE Follows(b, c)'
    <3>1. (Pending(c)' <=> Pending(c)) /\ (Coming(b, c)' <=> Coming(b, c))
      BY <2>1, SameNews DEF Coming, server, stream
    <3>2. Starting(b, c)' /\ Streaming(b, c)'
      BY <2>1, <2>3, <3>1 DEF server, stream, Follows, Starting, Streaming, Open
    <3>3. Answering(b, c)'
      BY <2>1, <2>2, <2>3, <3>1 DEF Follows, Answering, server, stream, Open
    <3>4. Showing(b, c)'
      <4>1. CASE c \in CellsOf(s)
        <5>1. c \in DOMAIN a /\ a \in ToSet(answers'[b])
          BY <2>2, <4>1
        <5>2. c \in UnderWay(b)'
          BY <5>1 DEF UnderWay
        <5>3. QED
          BY <5>2 DEF Showing
      <4>2. CASE c \notin CellsOf(s)
        <5>1. asked'[b][Source(c)] = asked[b][Source(c)]
          BY <2>1, <4>2, CellSource
        <5>2. c \in UnderWay(b) => c \in UnderWay(b)'
          BY <2>2 DEF UnderWay
        <5>3. QED
          BY <2>1, <2>3, <3>1, <5>1, <5>2 DEF Follows, Showing, server, stream, Open
      <4>3. QED
        BY <4>1, <4>2
    <3>5. QED
      BY <3>2, <3>3, <3>4 DEF Follows
  <2>4. QED
    BY <2>1, <2>3, OneBrowser DEF server, stream
<1>13. ASSUME NEW b \in Browsers, Arrive(b) PROVE Followed'
  <2>1. PICK i \in 1..Len(answers[b]) :
          Show(b, answers[b][i]) /\ answers' = [answers EXCEPT ![b] = RemoveAt(@, i)]
    BY <1>13 DEF Arrive
  <2> DEFINE a == answers[b][i]
  <2>2. /\ a \in ToSet(answers[b]) /\ ToSet(answers'[b]) \subseteq ToSet(answers[b])
        /\ ToSet(answers[b]) \subseteq ToSet(answers'[b]) \cup {a}
    <3>1. answers[b] \in Seq(Parts) /\ answers'[b] = RemoveAt(answers[b], i)
      BY <2>1 DEF TypeOK
    <3>2. QED
      BY <3>1, SeqElements
  <2>3. /\ store'[b] = Over(a, store[b]) /\ failed'[b] = failed[b] \ Covered(a)
        /\ \A d \in Browsers \ {b} : /\ answers'[d] = answers[d] /\ store'[d] = store[d]
                                     /\ failed'[d] = failed[d]
        /\ UNCHANGED <<server, stream, asked, untold, lost>>
    BY <1>13, <2>1 DEF Arrive, Show, TypeOK
  <2> HIDE DEF a
  <2>4. ASSUME NEW c \in Cells, Follows(b, c) PROVE Follows(b, c)'
    <3>1. (Pending(c)' <=> Pending(c)) /\ (Coming(b, c)' <=> Coming(b, c))
      BY <2>3, SameNews DEF Coming, server, stream
    <3>2. Starting(b, c)' /\ Streaming(b, c)'
      BY <2>3, <2>4, <3>1 DEF server, stream, Follows, Starting, Streaming, Open
    <3>3. Answering(b, c)'
      BY <2>2, <2>3, <2>4, <3>1 DEF Follows, Answering, server, stream, Open
    <3>4. Showing(b, c)'
      <4>1. store'[b][c] = IF c \in DOMAIN a THEN a[c] ELSE store[b][c]
        BY <2>3 DEF Over, TypeOK
      <4>2. CASE c \in DOMAIN a
        <5>1. Open(b) /\ c \notin lost[b] => Coming(b, c) \/ a[c] = srv[c]
          BY <2>2, <2>4, <4>2 DEF Follows, Answering
        <5>2. QED
          BY <2>3, <3>1, <4>1, <4>2, <5>1 DEF Showing, server, stream, Open
      <4>3. CASE c \notin DOMAIN a
        <5>1. Source(c) \notin Covered(a)
          BY <4>3, CellSource DEF Covered
        <5>2. c \in UnderWay(b) => c \in UnderWay(b)'
          BY <2>2, <4>3 DEF UnderWay
        <5>3. QED
          BY <2>3, <2>4, <3>1, <4>1, <4>3, <5>1, <5>2
             DEF Follows, Showing, server, stream, Open
      <4>4. QED
        BY <4>2, <4>3
    <3>5. QED
      BY <3>2, <3>3, <3>4 DEF Follows
  <2>5. QED
    BY <2>3, <2>4, OneBrowser DEF server, stream
<1>14. ASSUME NEW b \in Browsers, NEW s \in Sources, RequestFails(b, s) PROVE Followed'
  <2>1. /\ \A t \in Sources \ {s} : asked'[b][t] = asked[b][t]
        /\ failed'[b] = failed[b] \cup {s}
        /\ \A d \in Browsers \ {b} : failed'[d] = failed[d] /\ asked'[d] = asked[d]
        /\ UNCHANGED <<server, stream, store, answers, untold, lost>>
    BY <1>14 DEF RequestFails, TypeOK
  <2>2. ASSUME NEW c \in Cells, Follows(b, c) PROVE Follows(b, c)'
    <3>1. (Pending(c)' <=> Pending(c)) /\ (Coming(b, c)' <=> Coming(b, c))
      BY <2>1, SameNews DEF Coming, server, stream
    <3>2. Source(c) = s \/ asked'[b][Source(c)] = asked[b][Source(c)]
      BY <2>1, CellSource
    <3>3. QED
      BY <2>1, <2>2, <3>1, <3>2
         DEF server, stream, Follows, Starting, Streaming, Answering, Showing, Open, UnderWay
  <2>3. QED
    BY <2>1, <2>2, OneBrowser DEF server, stream
<1>15. ASSUME NEW b \in Browsers, RefreshTasks(b) PROVE Followed'
  <2>1. /\ asked'[b] = [asked[b] EXCEPT !["tasks"] = @ + 1]
        /\ \A d \in Browsers \ {b} : asked'[d] = asked[d]
        /\ UNCHANGED <<server, stream, store, answers, failed, untold, lost>>
    BY <1>15 DEF RefreshTasks, TypeOK
  <2>2. ASSUME NEW c \in Cells, Follows(b, c) PROVE Follows(b, c)'
    <3>1. (Pending(c)' <=> Pending(c)) /\ (Coming(b, c)' <=> Coming(b, c))
      BY <2>1, SameNews DEF Coming, server, stream
    <3>2. asked[b][Source(c)] > 0 => asked'[b][Source(c)] > 0
      BY <2>1, CellSource DEF TypeOK, Sources
    <3>3. QED
      BY <2>1, <2>2, <3>1, <3>2
         DEF server, stream, Follows, Starting, Streaming, Answering, Showing, Open, UnderWay
  <2>3. QED
    BY <2>1, <2>2, OneBrowser DEF server, stream
<1>16. ASSUME NEW b \in Browsers, Break(b) PROVE Followed'
  <2>1. /\ phase'[b] = "closed" /\ UNCHANGED <<server, page, untold, lost>>
        /\ \A d \in Browsers \ {b} : /\ phase'[d] = phase[d] /\ initial'[d] = initial[d]
                                     /\ queue'[d] = queue[d] /\ wire'[d] = wire[d]
    BY <1>16 DEF Break, TypeOK
  <2>2. \A c \in Cells : Follows(b, c)'
    BY <2>1 DEF Follows, Starting, Streaming, Answering, Showing, Open
  <2>3. QED
    BY <2>1, <2>2, OneBrowser DEF server, page
<1>17. CASE Restart
  <2>1. /\ \A p \in Threads : todo'[p] = None
        /\ loop' = <<>> /\ \A b \in Browsers : phase'[b] = "closed"
    BY <1>17 DEF Restart
  <2>2. \A c \in Cells : OnItsWay(c)'
    BY <2>1, EndsFew DEF OnItsWay, Message
  <2>3. \A c \in Cells, b \in Browsers : Follows(b, c)'
    BY <2>1 DEF Follows, Starting, Streaming, Answering, Showing, Open
  <2>4. QED
    BY <2>2, <2>3 DEF Followed
<1>18. CASE UNCHANGED vars
  <2>1. UNCHANGED <<srv, todo, loop, untold>>
    BY <1>18 DEF vars
  <2>2. ASSUME NEW c \in Cells, NEW b \in Browsers, Follows(b, c) PROVE Follows(b, c)'
    BY <1>18, <2>2, OtherBrowser DEF vars
  <2>3. QED
    BY <2>1, <2>2, SameNews DEF Followed
<1>19. QED
  BY <1>1, <1>2, <1>3, <1>4, <1>5, <1>6, <1>7, <1>8, <1>9, <1>10, <1>11, <1>12, <1>13,
     <1>14, <1>15, <1>16, <1>17, <1>18 DEF Next, Daemon, Loop, Page

\* With nothing under way, the last word is what the browser shows.
LEMMA StreamSettled == StreamInv => Converged
<1> SUFFICES ASSUME StreamInv, NEW b \in Browsers, Settled(b), NEW c \in Knowable(b)
             PROVE  store[b][c] = srv[c]
  BY DEF Converged, Right
<1>1. /\ c \in Cells /\ c \notin untold /\ Source(c) \in Sources
      /\ \A s \in failed[b] : c \notin CellsOf(s)
  BY CellSource DEF Knowable, CellsOfAll
<1>2. Source(c) \notin failed[b]
  BY <1>1, CellSource
<1>3. ~Coming(b, c)
  BY EndsFew, MarksAssumption DEF Settled, Coming, Pending, Message
<1>4. /\ Showing(b, c) /\ Open(b) /\ asked[b][Source(c)] = 0
      /\ answers[b] = <<>> /\ c \notin lost[b]
  BY <1>1 DEF StreamInv, Followed, Follows, Settled, Knowable
<1>5. c \notin UnderWay(b)
  <2>1. ToSet(<<>>) = {}
    BY DEF ToSet
  <2>2. QED
    BY <1>4, <2>1 DEF UnderWay
<1>6. QED
  BY <1>2, <1>3, <1>4, <1>5 DEF Showing

\* A settled browser shows what the daemon holds of every cell whose change was
\* announced, unless the announcement passed its stream by before it subscribed
\* (lost), overtook an answer (lost), or was one of two lists of tasks in hand
\* at once (untold), or unless a request of its own failed: no overflow, no
\* reconnect and no restart loses a change (web/events.py:65-104).
THEOREM BrowsersConverge == Spec => []Converged
<1>1. Init => StreamInv
  BY TypeInit, StreamInit DEF StreamInv
<1>2. StreamInv /\ [Next]_vars => StreamInv'
  BY TypeStep, ShapeStep, FollowedStep DEF StreamInv
<1>3. QED
  BY <1>1, <1>2, StreamSettled, PTL DEF Spec

=============================================================================
