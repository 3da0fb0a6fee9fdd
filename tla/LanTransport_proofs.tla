------------------------- MODULE LanTransport_proofs -------------------------
(* Theorems about LanTransport, for any number of tasks, units, trays,     *)
(* values, changes and breaks.                                             *)
EXTENDS LanTransport, TLAPS

IsASeq(s) == \E S : s \in Seq(S)

Answers == {"success", "refused"}

(* What comes over the wire and what is kept of it is what the printer     *)
(* answered; a command has no answer before it is sent.                    *)
Honest(m, said) ==
  /\ DOMAIN m.report \subseteq Keys
  /\ m.seq \in Tasks \cup {None}
  /\ m.seq # None => m.result \in Answers /\ said[m.seq] = m.result

WireInv ==
  /\ IsASeq(wire) /\ \A i \in 1 .. Len(wire) : Honest(wire[i], answer)
  /\ DOMAIN real = Keys

ReplyInv ==
  /\ replies \in Seq(Tasks \X Answers)
  /\ \A i \in 1 .. Len(replies) : answer[replies[i][1]] = replies[i][2]

FireInv ==
  /\ task \in Tasks \cup {None}
  /\ pc = "send" => answer[task] = None
  /\ pc # "idle" => outcome[task] = None
  /\ \A t \in Tasks : outcome[t] = None /\ ~(pc = "wait" /\ task = t) => answer[t] = None

(* A wait that only its own reply can have ended finds that reply.         *)
WaitInv ==
  pc = "wait" /\ replyEvent /\ ~noise =>
    answer[task] # None /\ \E i \in 1 .. Len(replies) : replies[i] = <<task, answer[task]>>

LanInv == TypeOK /\ ToldIsShown /\ WireInv /\ ReplyInv /\ FireInv /\ WaitInv /\ OutcomeHonest

-----------------------------------------------------------------------------
LEMMA SeqAppend ==
  ASSUME NEW s, IsASeq(s), NEW m
  PROVE  /\ IsASeq(Append(s, m)) /\ Len(Append(s, m)) = Len(s) + 1 /\ Len(s) \in Nat
         /\ \A i \in 1 .. Len(s) : Append(s, m)[i] = s[i]
         /\ Append(s, m)[Len(s) + 1] = m
<1>1. PICK S : s \in Seq(S)
  BY DEF IsASeq
<1> DEFINE R == S \cup {m}
<1>2. s \in Seq(R)
  BY <1>1
<1>3. Append(s, m) \in Seq(R)
  BY <1>2
<1>4. QED
  BY <1>2, <1>3 DEF IsASeq

LEMMA SeqTail ==
  ASSUME NEW s, IsASeq(s), s # <<>>
  PROVE  /\ IsASeq(Tail(s)) /\ Len(Tail(s)) = Len(s) - 1 /\ Len(s) \in Nat \ {0}
         /\ \A i \in 1 .. Len(s) - 1 : Tail(s)[i] = s[i + 1]
         /\ Head(s) = s[1]
<1>1. PICK S : s \in Seq(S)
  BY DEF IsASeq
<1>2. Tail(s) \in Seq(S)
  BY <1>1
<1>3. QED
  BY <1>1, <1>2 DEF IsASeq

(* report.py:246: a merge loses no key and invents none.                   *)
LEMMA MergeKeys ==
  ASSUME NEW base, NEW inc
  PROVE  DOMAIN DeepMerge(base, inc) = DOMAIN base \cup DOMAIN inc
  BY DEF DeepMerge, Over

(* report.py:291: a patch put over the old picture gives the new one.      *)
LEMMA PatchAddsUp ==
  ASSUME NEW a, NEW b
  PROVE  Over(Shown(a), MergePatch(Shown(a), Shown(b))) = Shown(b)
<1> DEFINE Parts == {"state", "hms", "trays"}
           old == Shown(a)
           new == Shown(b)
           patch == MergePatch(old, new)
<1>1. DOMAIN old = Parts /\ DOMAIN new = Parts /\ new = [k \in Parts |-> new[k]]
  BY DEF Shown
<1> HIDE DEF old, new
<1>2. /\ DOMAIN patch = {k \in Parts : old[k] # new[k]}
      /\ \A k \in DOMAIN patch : patch[k] = new[k]
  BY <1>1 DEF MergePatch
<1> HIDE DEF patch
<1>3. Over(old, patch) = [k \in Parts |-> IF k \in DOMAIN patch THEN patch[k] ELSE old[k]]
  BY <1>1, <1>2 DEF Over
<1>4. Over(old, patch) = [k \in Parts |-> new[k]]
  BY <1>2, <1>3
<1>5. QED
  BY <1>1, <1>4 DEF old, new, patch

(* lan.py:270: of the replies kept, each is one of before or the new one,  *)
(* the new one is among them, and there is one to a command.               *)
LEMMA KeepReplies ==
  ASSUME NEW rs \in Seq(Tasks \X Answers), NEW q \in Tasks, NEW res \in Answers,
         Len(rs) <= MaxReplies,
         \A i, j \in DOMAIN rs : rs[i][1] = rs[j][1] => i = j,
         NEW kept, kept = Keep(rs, q, res)
  PROVE  /\ kept \in Seq(Tasks \X Answers) /\ Len(kept) <= MaxReplies
         /\ \A i, j \in DOMAIN kept : kept[i][1] = kept[j][1] => i = j
         /\ \A i \in DOMAIN kept : kept[i] = <<q, res>> \/ \E j \in DOMAIN rs : kept[i] = rs[j]
         /\ \E i \in DOMAIN kept : kept[i] = <<q, res>>
<1>1. PICK all : all = Entered(rs, q, res)
  OBVIOUS
<1>2. /\ DOMAIN rs = 1 .. Len(rs) /\ Len(rs) \in Nat /\ MaxReplies \in Nat \ {0}
      /\ \A i \in 1 .. Len(rs) : rs[i] \in Tasks \X Answers
  BY LanAssumption
<1>3. <<q, res>> \in Tasks \X Answers /\ <<q, res>>[1] = q
  OBVIOUS
<1>4. kept = IF Len(all) > MaxReplies THEN Tail(all) ELSE all
  BY <1>1 DEF Keep
<1>5. CASE \E i \in DOMAIN rs : rs[i][1] = q
  <2>1. all = [i \in 1 .. Len(rs) |-> IF rs[i][1] = q THEN <<q, res>> ELSE rs[i]]
    BY <1>1, <1>2, <1>5 DEF Entered
  <2>2. /\ all \in Seq(Tasks \X Answers) /\ Len(all) = Len(rs) /\ DOMAIN all = 1 .. Len(rs)
        /\ \A i \in 1 .. Len(rs) : all[i] = IF rs[i][1] = q THEN <<q, res>> ELSE rs[i]
    BY <2>1, <1>2, <1>3
  <2>3. kept = all
    <3>1. Len(all) = Len(rs) /\ Len(rs) \in Nat /\ MaxReplies \in Nat
      BY <2>2, <1>2
    <3>2. ~(Len(all) > MaxReplies)
      BY <3>1
    <3>3. QED
      BY <3>2, <1>4
  <2>4. \A i \in 1 .. Len(rs) : all[i][1] = rs[i][1]
    BY <2>2, <1>3
  <2>5. \A i, j \in DOMAIN kept : kept[i][1] = kept[j][1] => i = j
    BY <2>2, <2>3, <2>4, <1>2
  <2>6. \E i \in DOMAIN kept : kept[i] = <<q, res>>
    BY <2>2, <2>3, <1>2, <1>5
  <2>7. \A i \in DOMAIN kept : kept[i] = <<q, res>> \/ \E j \in DOMAIN rs : kept[i] = rs[j]
    BY <2>2, <2>3, <1>2
  <2>8. QED
    BY <2>2, <2>3, <2>5, <2>6, <2>7
<1>6. CASE ~\E i \in DOMAIN rs : rs[i][1] = q
  <2>1. all = Append(rs, <<q, res>>)
    BY <1>1, <1>6 DEF Entered
  <2>2. /\ all \in Seq(Tasks \X Answers) /\ Len(all) = Len(rs) + 1 /\ DOMAIN all = 1 .. Len(rs) + 1
        /\ all[Len(rs) + 1] = <<q, res>> /\ \A i \in 1 .. Len(rs) : all[i] = rs[i]
    BY <2>1, <1>2, <1>3
  <2>3. \A i, j \in 1 .. Len(rs) + 1 : all[i][1] = all[j][1] => i = j
    <3>1. SUFFICES ASSUME NEW i \in 1 .. Len(rs) + 1, NEW j \in 1 .. Len(rs) + 1,
                          all[i][1] = all[j][1]
                   PROVE  i = j
      OBVIOUS
    <3>2. CASE i \in 1 .. Len(rs) /\ j \in 1 .. Len(rs)
      BY <2>2, <3>1, <3>2, <1>2
    <3>3. all[Len(rs) + 1][1] = q /\ \A k \in 1 .. Len(rs) : all[k][1] # q
      BY <2>2, <1>2, <1>3, <1>6
    <3>4. i = Len(rs) + 1 <=> j = Len(rs) + 1
      BY <3>1, <3>3, <1>2
    <3>5. QED
      BY <3>2, <3>4, <1>2
  <2>4. CASE Len(all) > MaxReplies
    <3>1. kept = Tail(all)
      BY <2>4, <1>4
    <3>2. /\ kept \in Seq(Tasks \X Answers) /\ Len(kept) = Len(rs) /\ DOMAIN kept = 1 .. Len(rs)
          /\ \A i \in 1 .. Len(rs) : kept[i] = all[i + 1]
      BY <2>2, <3>1, <1>2
    <3>3. Len(rs) \in 1 .. Len(rs) /\ kept[Len(rs)] = <<q, res>>
      BY <2>2, <2>4, <3>2, <1>2
    <3>4. \A i, j \in 1 .. Len(rs) : kept[i][1] = kept[j][1] => i = j
      <4>1. SUFFICES ASSUME NEW i \in 1 .. Len(rs), NEW j \in 1 .. Len(rs),
                            kept[i][1] = kept[j][1]
                     PROVE  i = j
        OBVIOUS
      <4>2. i + 1 \in 1 .. Len(rs) + 1 /\ j + 1 \in 1 .. Len(rs) + 1
        BY <1>2
      <4>3. all[i + 1][1] = all[j + 1][1]
        BY <4>1, <3>2
      <4>4. i + 1 = j + 1
        BY <4>2, <4>3, <2>3
      <4>5. QED
        BY <4>4, <1>2
    <3>5. \A i \in 1 .. Len(rs) : kept[i] = <<q, res>> \/ \E j \in DOMAIN rs : kept[i] = rs[j]
      <4>1. TAKE i \in 1 .. Len(rs)
      <4>2. i + 1 \in 1 .. Len(rs) \/ i + 1 = Len(rs) + 1
        BY <1>2
      <4>3. kept[i] = all[i + 1]
        BY <3>2
      <4>4. i + 1 \in 1 .. Len(rs) => all[i + 1] = rs[i + 1] /\ i + 1 \in DOMAIN rs
        BY <2>2, <1>2
      <4>5. QED
        BY <4>2, <4>3, <4>4, <2>2
    <3>6. QED
      BY <3>2, <3>3, <3>4, <3>5
  <2>5. CASE ~(Len(all) > MaxReplies)
    <3>1. kept = all /\ Len(kept) <= MaxReplies
      BY <2>2, <2>5, <1>2, <1>4
    <3>2. \A i \in 1 .. Len(rs) + 1 : kept[i] = <<q, res>> \/ \E j \in DOMAIN rs : kept[i] = rs[j]
      <4>1. TAKE i \in 1 .. Len(rs) + 1
      <4>2. i \in 1 .. Len(rs) \/ i = Len(rs) + 1
        BY <1>2
      <4>3. i \in 1 .. Len(rs) => all[i] = rs[i] /\ i \in DOMAIN rs
        BY <2>2, <1>2
      <4>4. QED
        BY <4>2, <4>3, <2>2, <3>1
    <3>3. \E i \in DOMAIN kept : kept[i] = <<q, res>>
      BY <2>2, <3>1, <1>2
    <3>4. QED
      BY <2>2, <2>3, <3>1, <3>2, <3>3
  <2>6. QED
    BY <2>4, <2>5
<1>7. QED
  BY <1>5, <1>6

-----------------------------------------------------------------------------
LEMMA ShownParts ==
  ASSUME NEW r
  PROVE  Shown(r).state \in {"IDLE", "RUNNING", "UNKNOWN"}
BY DEF Shown, Job

LEMMA LanInit == Init => LanInv
<1> SUFFICES ASSUME Init PROVE LanInv
  OBVIOUS
<1>1. TypeOK /\ ToldIsShown
  <2>1. told.state \in {"IDLE", "RUNNING", "UNKNOWN"}
    BY ShownParts DEF Init
  <2>2. DOMAIN Empty = {} /\ Len(<<>>) = 0 /\ DOMAIN <<>> = {}
    BY DEF Empty
  <2>3. QED
    BY <2>1, <2>2, LanAssumption DEF Init, TypeOK, ToldIsShown
<1>2. WireInv
  <2>1. IsASeq(<<>>)
    BY <<>> \in Seq({}) DEF IsASeq
  <2>2. QED
    BY <2>1 DEF Init, WireInv, Keys
<1>3. ReplyInv /\ FireInv /\ WaitInv /\ OutcomeHonest
  BY DEF Init, ReplyInv, FireInv, WaitInv, OutcomeHonest, None
<1>4. QED
  BY <1>1, <1>2, <1>3 DEF LanInv

(* Steps that only the printer and the network take.                       *)
LEMMA RestKept ==
  ASSUME LanInv, UNCHANGED <<accv, replyv, firev, answer>>, WireInv'
  PROVE  LanInv'
BY DEF LanInv, accv, replyv, firev, TypeOK, ToldIsShown, ReplyInv, FireInv, WaitInv, OutcomeHonest

LEMMA SaidIsHonest ==
  ASSUME WireInv, NEW m, Honest(m, answer), answer' = answer,
         wire' = wire \/ wire' = Append(wire, m), DOMAIN real' = Keys
  PROVE  WireInv'
<1>1. CASE wire' = wire
  BY <1>1 DEF WireInv, Honest
<1>2. CASE wire' = Append(wire, m)
  <2>1. /\ IsASeq(wire') /\ Len(wire') = Len(wire) + 1 /\ Len(wire) \in Nat
        /\ \A i \in 1 .. Len(wire) : wire'[i] = wire[i]
        /\ wire'[Len(wire) + 1] = m
    BY <1>2, SeqAppend DEF WireInv
  <2>2. \A i \in 1 .. Len(wire) + 1 : Honest(wire'[i], answer)
    BY <2>1 DEF WireInv
  <2>3. QED
    BY <2>1, <2>2 DEF WireInv, Honest
<1>3. QED
  BY <1>1, <1>2

LEMMA ReportIsHonest ==
  ASSUME NEW r, DOMAIN r \subseteq Keys
  PROVE  Honest(Report(r), answer)
BY DEF Honest, Report

LEMMA PrinterStep ==
  ASSUME LanInv, PrinterChanges PROVE LanInv'
<1>1. UNCHANGED <<accv, replyv, firev, answer>>
  BY DEF PrinterChanges
<1>2. PICK m : Say(m) /\ Honest(m, answer) /\ DOMAIN real' = Keys
  <2>1. CASE \E s \in Gcode \ {real["gcode_state"]} :
               /\ real' = [real EXCEPT !["gcode_state"] = s]
               /\ Say(Report([k \in {"gcode_state"} |-> s]))
    BY <2>1, ReportIsHonest DEF Keys, LanInv, WireInv
  <2>2. CASE \E a \in (SUBSET Alarms) \ {real["hms"]} :
               /\ real' = [real EXCEPT !["hms"] = a]
               /\ Say(Report([k \in {"hms"} |-> a]))
    BY <2>2, ReportIsHonest DEF Keys, LanInv, WireInv
  <2>3. CASE \E u \in DOMAIN real["ams"], s \in Trays, f \in Fields, v \in Values :
               /\ real["ams"][u][s][f] # v
               /\ real' = [real EXCEPT !["ams"][u][s][f] = v]
               /\ Say(Report([k \in {"ams"} |->
                               [i \in {u} |-> [j \in {s} |-> [x \in {f} |-> v]]]]))
    BY <2>3, ReportIsHonest DEF Keys, LanInv, WireInv
  <2>4. QED
    BY <2>1, <2>2, <2>3 DEF PrinterChanges
<1>3. wire' = wire \/ wire' = Append(wire, m)
  BY <1>2 DEF Say
<1>4. WireInv'
  BY <1>1, <1>2, <1>3, SaidIsHonest DEF LanInv
<1>5. QED
  BY <1>1, <1>4, RestKept

LEMMA NetStep ==
  ASSUME LanInv, PushAll \/ Break \/ OnConnect \/ RequestPushall \/ \E u \in Units : Unplug(u)
  PROVE  LanInv'
<1>1. UNCHANGED <<accv, replyv, firev, answer>>
  BY DEF PushAll, Break, OnConnect, RequestPushall, Unplug
<1>2. CASE PushAll
  <2>1. Honest(Report(real), answer) /\ wire' = Append(wire, Report(real)) /\ real' = real
    BY <1>2, ReportIsHonest DEF PushAll, printerv, LanInv, WireInv
  <2>2. WireInv'
    BY <2>1, <1>1, SaidIsHonest DEF LanInv, WireInv
  <2>3. QED
    BY <1>1, <2>2, RestKept
<1>3. CASE Break
  <2>1. IsASeq(<<>>)
    BY <<>> \in Seq({}) DEF IsASeq
  <2>2. WireInv'
    BY <1>3, <2>1 DEF Break, printerv, LanInv, WireInv
  <2>3. QED
    BY <1>1, <2>2, RestKept
<1>4. CASE OnConnect \/ RequestPushall \/ \E u \in Units : Unplug(u)
  <2>1. wire' = wire /\ DOMAIN real' = Keys
    BY <1>4 DEF OnConnect, RequestPushall, Unplug, printerv, netv, LanInv, WireInv
  <2>2. WireInv'
    BY <1>1, <2>1 DEF LanInv, WireInv, Honest
  <2>3. QED
    BY <1>1, <2>2, RestKept
<1>5. QED
  BY <1>2, <1>3, <1>4

LEMMA MessageStep ==
  ASSUME LanInv, OnMessage PROVE LanInv'
<1> DEFINE m == Head(wire)
           after == DeepMerge(raw, m.report)
<1>1. /\ wire # <<>> /\ wire' = Tail(wire)
      /\ UNCHANGED <<printerv, firev, answer>>
  BY DEF OnMessage, Read
<1>2. /\ raw' = after
      /\ told' = Over(told, MergePatch(Shown(raw), Shown(after)))
      /\ stateEvent' = (stateEvent \/ StateSeen(m.report))
  BY DEF OnMessage
<1>3. IF m.seq = None THEN UNCHANGED replyv
      ELSE /\ replies' = Keep(replies, m.seq, m.result)
           /\ replyEvent' = TRUE
           /\ noise' = (noise \/ (pc = "wait" /\ m.seq # task))
  BY DEF OnMessage
<1>4. /\ IsASeq(wire') /\ Len(wire') = Len(wire) - 1 /\ Len(wire) \in Nat \ {0}
      /\ \A i \in 1 .. Len(wire) - 1 : wire'[i] = wire[i + 1]
      /\ m = wire[1]
  BY <1>1, SeqTail DEF LanInv, WireInv
<1>5. Honest(m, answer)
  BY <1>4 DEF LanInv, WireInv
<1>6. WireInv'
  <2>1. \A i \in 1 .. Len(wire) - 1 : Honest(wire[i + 1], answer)
    BY <1>4 DEF LanInv, WireInv
  <2>2. \A i \in 1 .. Len(wire') : Honest(wire'[i], answer)
    BY <1>4, <2>1
  <2>3. QED
    BY <1>1, <1>4, <2>2 DEF LanInv, WireInv, Honest, printerv
<1> HIDE DEF m, after
<1>7. ToldIsShown' /\ told'.state \in {"IDLE", "RUNNING", "UNKNOWN"}
  BY <1>2, PatchAddsUp, ShownParts DEF LanInv, ToldIsShown
<1>8. DOMAIN raw' \subseteq Keys /\ (stateEvent' => "gcode_state" \in DOMAIN raw')
  <2>1. DOMAIN raw' = DOMAIN raw \cup DOMAIN m.report
    BY <1>2, MergeKeys DEF after
  <2>2. DOMAIN raw \subseteq Keys /\ (stateEvent => "gcode_state" \in DOMAIN raw)
    BY DEF LanInv, TypeOK
  <2>3. QED
    BY <1>2, <1>5, <2>1, <2>2 DEF Honest, StateSeen
<1>9. UNCHANGED <<pc, task, outcome, deaf, answer>>
  BY <1>1 DEF firev
<1>10. FireInv' /\ OutcomeHonest'
  BY <1>9 DEF LanInv, FireInv, OutcomeHonest
<1>11. CASE m.seq = None
  <2>1. UNCHANGED <<replies, replyEvent, noise>>
    BY <1>3, <1>11 DEF replyv
  <2>2. TypeOK'
    BY <2>1, <1>7, <1>8, <1>9 DEF LanInv, TypeOK
  <2>3. ReplyInv' /\ WaitInv'
    BY <2>1, <1>9 DEF LanInv, ReplyInv, WaitInv
  <2>4. QED
    BY <1>6, <1>7, <1>10, <2>2, <2>3 DEF LanInv
<1>12. CASE m.seq # None
  <2>1. m.seq \in Tasks /\ m.result \in Answers /\ answer[m.seq] = m.result
    BY <1>5, <1>12 DEF Honest
  <2>2. /\ replies' = Keep(replies, m.seq, m.result)
        /\ replyEvent' = TRUE
        /\ noise' = (noise \/ (pc = "wait" /\ m.seq # task))
    BY <1>3, <1>12
  <2>3. /\ replies \in Seq(Tasks \X Answers) /\ Len(replies) <= MaxReplies
        /\ \A i, j \in DOMAIN replies : replies[i][1] = replies[j][1] => i = j
    BY DEF LanInv, TypeOK, ReplyInv
  <2>4. /\ replies' \in Seq(Tasks \X Answers) /\ Len(replies') <= MaxReplies
        /\ \A i, j \in DOMAIN replies' : replies'[i][1] = replies'[j][1] => i = j
        /\ \A i \in DOMAIN replies' : \/ replies'[i] = <<m.seq, m.result>>
                                      \/ \E j \in DOMAIN replies : replies'[i] = replies[j]
        /\ \E i \in DOMAIN replies' : replies'[i] = <<m.seq, m.result>>
    <3>1. PICK rs, q, res, kept :
            rs = replies /\ q = m.seq /\ res = m.result /\ kept = replies'
      OBVIOUS
    <3>2. /\ rs \in Seq(Tasks \X Answers) /\ Len(rs) <= MaxReplies
          /\ \A i, j \in DOMAIN rs : rs[i][1] = rs[j][1] => i = j
          /\ q \in Tasks /\ res \in Answers /\ kept = Keep(rs, q, res)
      BY <2>1, <2>2, <2>3, <3>1
    <3>3. /\ kept \in Seq(Tasks \X Answers) /\ Len(kept) <= MaxReplies
          /\ \A i, j \in DOMAIN kept : kept[i][1] = kept[j][1] => i = j
          /\ \A i \in DOMAIN kept : kept[i] = <<q, res>> \/ \E j \in DOMAIN rs : kept[i] = rs[j]
          /\ \E i \in DOMAIN kept : kept[i] = <<q, res>>
      BY <3>2, KeepReplies
    <3>4. QED
      BY <3>1, <3>3
  <2>5. DOMAIN replies = 1 .. Len(replies) /\ DOMAIN replies' = 1 .. Len(replies')
    BY <2>3, <2>4
  <2>6. TypeOK'
    BY <2>4, <1>7, <1>8, <1>9 DEF LanInv, TypeOK
  <2>7. ReplyInv'
    <3>1. \A i \in DOMAIN replies' : answer[replies'[i][1]] = replies'[i][2]
      BY <2>1, <2>4, <2>5 DEF LanInv, ReplyInv
    <3>2. QED
      BY <3>1, <2>4, <2>5, <1>9 DEF ReplyInv
  <2>8. WaitInv'
    <3>1. SUFFICES ASSUME pc = "wait", ~noise'
                   PROVE  /\ answer[task] # None
                          /\ \E i \in 1 .. Len(replies') : replies'[i] = <<task, answer[task]>>
      BY <1>9 DEF WaitInv
    <3>2. m.seq = task
      BY <3>1, <2>2
    <3>3. QED
      BY <3>2, <2>1, <2>4, <2>5 DEF Answers, None
  <2>9. QED
    BY <1>6, <1>7, <1>10, <2>6, <2>7, <2>8 DEF LanInv
<1>13. QED
  BY <1>11, <1>12

LEMMA GetStateStep ==
  ASSUME LanInv, NEW t \in Tasks, GetState(t) PROVE LanInv'
<1>1. UNCHANGED <<real, wire, accv, replyv, deaf, answer>>
  BY DEF GetState, printerv, netv
<1>2. pc = "idle" /\ task = None /\ outcome[t] = None /\ answer[t] = None
  BY DEF GetState, LanInv, TypeOK, FireInv
<1>3. \/ pc' = "send" /\ task' = t /\ outcome' = outcome
      \/ pc' = pc /\ task' = task /\ outcome' = [outcome EXCEPT ![t] = "aborted"]
  BY DEF GetState
<1>4. WireInv' /\ ReplyInv' /\ ToldIsShown'
  BY <1>1 DEF LanInv, WireInv, Honest, ReplyInv, ToldIsShown, accv, replyv
<1>5. TypeOK'
  BY <1>1, <1>2, <1>3, LanAssumption DEF LanInv, TypeOK, accv, replyv
<1>6. FireInv' /\ WaitInv' /\ OutcomeHonest'
  BY <1>1, <1>2, <1>3, LanAssumption
     DEF LanInv, TypeOK, FireInv, WaitInv, OutcomeHonest, accv, replyv, None
<1>7. QED
  BY <1>4, <1>5, <1>6 DEF LanInv

LEMMA SendStep ==
  ASSUME LanInv, Send PROVE LanInv'
<1>1. /\ pc = "send" /\ pc' = "wait" /\ noise' = FALSE /\ replyEvent' = FALSE
      /\ UNCHANGED <<replies, accv, task, outcome, deaf>>
  BY DEF Send
<1>2. task \in Tasks /\ answer[task] = None /\ outcome[task] = None
  BY <1>1 DEF LanInv, FireInv, TypeOK
<1>3. CASE UNCHANGED <<real, wire, answer>>
  <2>1. WireInv' /\ ReplyInv' /\ ToldIsShown'
    BY <1>1, <1>3 DEF LanInv, WireInv, Honest, ReplyInv, ToldIsShown, accv
  <2>2. TypeOK' /\ FireInv' /\ WaitInv' /\ OutcomeHonest'
    BY <1>1, <1>2, <1>3, LanAssumption
       DEF LanInv, TypeOK, FireInv, WaitInv, OutcomeHonest, accv
  <2>3. QED
    BY <2>1, <2>2 DEF LanInv
<1>4. ASSUME NEW ok \in BOOLEAN, NEW res \in Answers, NEW now,
             answer' = [answer EXCEPT ![task] = res],
             real' = [real EXCEPT !["gcode_state"] = now],
             wire' = wire \o <<Reply(task, res), Report([k \in {"gcode_state"} |-> now])>>
      PROVE  LanInv'
  <2> DEFINE first == Reply(task, res)
             second == Report([k \in {"gcode_state"} |-> now])
  <2>1. answer \in [Tasks -> {None, "success", "refused"}]
    BY DEF LanInv, TypeOK
  <2>2. /\ answer' \in [Tasks -> {None, "success", "refused"}]
        /\ answer'[task] = res /\ \A t \in Tasks : t # task => answer'[t] = answer[t]
    BY <1>2, <1>4, <2>1 DEF Answers
  <2>3. \A t \in Tasks : answer[t] \in Answers => t # task
    BY <1>2 DEF Answers, None
  <2>4. Honest(first, answer')
    BY <1>2, <2>2 DEF Honest, Reply, Empty
  <2>5. Honest(second, answer')
    BY DEF Honest, Report, Keys
  <2>6. WireInv'
    <3>1. \A i \in 1 .. Len(wire) : (wire[i].seq # None => answer'[wire[i].seq] = answer[wire[i].seq])
      BY <2>2, <2>3 DEF LanInv, WireInv, Honest
    <3>2. PICK S : wire \in Seq(S)
      BY DEF LanInv, WireInv, IsASeq
    <3> HIDE DEF first, second
    <3>3. wire \in Seq(S \cup {first, second}) /\ <<first, second>> \in Seq(S \cup {first, second})
      BY <3>2
    <3>4. /\ wire' \in Seq(S \cup {first, second})
          /\ Len(wire') = Len(wire) + 2 /\ Len(wire) \in Nat
          /\ \A i \in 1 .. Len(wire) : wire'[i] = wire[i]
          /\ wire'[Len(wire) + 1] = first /\ wire'[Len(wire) + 2] = second
      BY <3>3, <1>4 DEF first, second
    <3>5. ASSUME NEW i \in 1 .. Len(wire')
          PROVE  Honest(wire'[i], answer')
      <4>1. i \in 1 .. Len(wire) \/ i = Len(wire) + 1 \/ i = Len(wire) + 2
        BY <3>4
      <4>2. i \in 1 .. Len(wire) => Honest(wire[i], answer)
        BY DEF LanInv, WireInv
      <4>3. CASE i \in 1 .. Len(wire)
        BY <4>2, <4>3, <3>1, <3>4 DEF Honest
      <4>4. QED
        BY <4>1, <4>3, <2>4, <2>5, <3>4
    <3>6. DOMAIN real' = Keys
      BY <1>4 DEF LanInv, WireInv
    <3>7. QED
      BY <3>4, <3>5, <3>6 DEF WireInv, IsASeq
  <2>7. ReplyInv'
    <3>1. \A i \in 1 .. Len(replies) : replies[i] \in Tasks \X Answers
      BY DEF LanInv, ReplyInv
    <3>2. \A i \in 1 .. Len(replies) : answer'[replies[i][1]] = replies[i][2]
      BY <3>1, <2>2, <2>3 DEF LanInv, ReplyInv
    <3>3. QED
      BY <3>2, <1>1 DEF LanInv, ReplyInv
  <2>8. ToldIsShown'
    BY <1>1 DEF LanInv, ToldIsShown, accv
  <2>9. TypeOK'
    BY <1>1, <1>2, <2>2, LanAssumption DEF LanInv, TypeOK, accv
  <2>10. FireInv' /\ WaitInv' /\ OutcomeHonest'
    BY <1>1, <1>2, <2>2, LanAssumption DEF LanInv, TypeOK, FireInv, WaitInv, OutcomeHonest, None
  <2>11. QED
    BY <2>6, <2>7, <2>8, <2>9, <2>10 DEF LanInv
<1>5. QED
  BY <1>3, <1>4 DEF Send, Publish, Answers

LEMMA WaitEndsStep ==
  ASSUME LanInv, NEW timeout \in BOOLEAN, WaitEnds(timeout) PROVE LanInv'
<1> DEFINE mine == IF timeout THEN {} ELSE ReplyTo(task)
<1>1. /\ pc = "wait" /\ (timeout \/ replyEvent)
      /\ pc' = "idle" /\ task' = None /\ noise' = FALSE
      /\ outcome' = [outcome EXCEPT ![task] = IF "refused" \in mine THEN "failed" ELSE "started"]
      /\ deaf' = IF timeout \/ noise THEN deaf \cup {task} ELSE deaf
      /\ UNCHANGED <<real, wire, accv, replies, replyEvent, answer>>
  BY DEF WaitEnds, printerv, netv
<1>2. task \in Tasks /\ outcome[task] = None
  BY <1>1 DEF LanInv, FireInv, TypeOK
<1>3. /\ outcome' \in [Tasks -> {None, "aborted", "started", "failed"}]
      /\ outcome'[task] = IF "refused" \in mine THEN "failed" ELSE "started"
      /\ \A t \in Tasks : t # task => outcome'[t] = outcome[t]
  BY <1>1, <1>2 DEF LanInv, TypeOK
<1>4. WireInv' /\ ReplyInv' /\ ToldIsShown'
  BY <1>1 DEF LanInv, WireInv, Honest, ReplyInv, ToldIsShown, accv
<1>5. TypeOK'
  BY <1>1, <1>3 DEF LanInv, TypeOK, accv
<1>6. FireInv' /\ WaitInv'
  BY <1>1, <1>3, LanAssumption DEF LanInv, FireInv, WaitInv, None
<1>7. "refused" \in mine => answer[task] = "refused"
  <2>1. DOMAIN replies = 1 .. Len(replies)
    BY DEF LanInv, ReplyInv
  <2>2. QED
    BY <2>1 DEF ReplyTo, LanInv, ReplyInv
<1>8. ~timeout /\ ~noise /\ "refused" \notin mine => answer[task] = "success"
  <2>1. SUFFICES ASSUME ~timeout, ~noise, "refused" \notin mine
                 PROVE  answer[task] = "success"
    OBVIOUS
  <2>2. PICK i \in 1 .. Len(replies) : replies[i] = <<task, answer[task]>>
    BY <2>1, <1>1 DEF LanInv, WaitInv
  <2>3. answer[task] \in {"success", "refused"}
    BY <2>1, <1>1, <1>2 DEF LanInv, WaitInv, TypeOK
  <2>4. DOMAIN replies = 1 .. Len(replies)
    BY DEF LanInv, ReplyInv
  <2>5. answer[task] \in ReplyTo(task)
    BY <2>2, <2>4 DEF ReplyTo
  <2>6. QED
    BY <2>1, <2>3, <2>5
<1> HIDE DEF mine
<1>9. OutcomeHonest'
  BY <1>1, <1>2, <1>3, <1>7, <1>8 DEF LanInv, OutcomeHonest
<1>10. QED
  BY <1>4, <1>5, <1>6, <1>9 DEF LanInv

LEMMA LanStep == LanInv /\ [Next]_vars => LanInv'
<1> SUFFICES ASSUME LanInv, [Next]_vars PROVE LanInv'
  OBVIOUS
<1>1. CASE PrinterChanges
  BY <1>1, PrinterStep
<1>2. CASE PushAll \/ Break \/ OnConnect \/ RequestPushall \/ \E u \in Units : Unplug(u)
  BY <1>2, NetStep
<1>3. CASE OnMessage
  BY <1>3, MessageStep
<1>4. CASE \E t \in Tasks : GetState(t)
  BY <1>4, GetStateStep
<1>5. CASE Send
  BY <1>5, SendStep
<1>6. CASE WaitEnds(TRUE) \/ WaitEnds(FALSE)
  BY <1>6, WaitEndsStep
<1>7. CASE UNCHANGED vars
  BY <1>7 DEF vars, printerv, netv, accv, replyv, firev, LanInv, TypeOK, ToldIsShown,
              WireInv, Honest, ReplyInv, FireInv, WaitInv, OutcomeHonest
<1>8. QED
  BY <1>1, <1>2, <1>3, <1>4, <1>5, <1>6, <1>7 DEF Next

-----------------------------------------------------------------------------
(* lan.py:263 and 272: a state that was waited for is there to be read,    *)
(* and the table of replies stays small, with one reply to a command.      *)
THEOREM LanTypeCorrect == Spec => []TypeOK
<1>1. LanInv => TypeOK
  BY DEF LanInv
<1>2. QED
  BY LanInit, LanStep, <1>1, PTL DEF Spec

(* report.py:104: what a page put together from patches is the snapshot.   *)
THEOREM PatchesTellAll == Spec => []ToldIsShown
<1>1. LanInv => ToldIsShown
  BY DEF LanInv
<1>2. QED
  BY LanInit, LanStep, <1>1, PTL DEF Spec

(* lan.py:429: what start makes of the replies is what the printer said,   *)
(* unless the wait timed out or another command's reply ended it.          *)
THEOREM OutcomeAlwaysHonest == Spec => []OutcomeHonest
<1>1. LanInv => OutcomeHonest
  BY DEF LanInv
<1>2. QED
  BY LanInit, LanStep, <1>1, PTL DEF Spec

-----------------------------------------------------------------------------
(* Merging: nothing is lost, nothing gets to another place.                *)

\* What dict.update does, key by key.
LEMMA OverIs ==
  ASSUME NEW f, NEW g
  PROVE  /\ DOMAIN Over(f, g) = DOMAIN f \cup DOMAIN g
         /\ \A k \in DOMAIN g : Over(f, g)[k] = g[k]
         /\ \A k \in DOMAIN f \ DOMAIN g : Over(f, g)[k] = f[k]
BY DEF Over

LEMMA OverPlain ==
  ASSUME NEW f, NEW g
  PROVE  Over(f, g) = [k \in DOMAIN Over(f, g) |-> Over(f, g)[k]]
BY DEF Over

LEMMA TraysMerge ==
  ASSUME NEW cur, NEW inc
  PROVE  LET both == MergeTrays(cur, inc)
         IN  /\ DOMAIN both = DOMAIN cur \cup DOMAIN inc
             /\ \A k \in DOMAIN cur \cap DOMAIN inc : both[k] = Over(cur[k], inc[k])
             /\ \A k \in DOMAIN inc \ DOMAIN cur : both[k] = inc[k]
             /\ \A k \in DOMAIN cur \ DOMAIN inc : both[k] = cur[k]
<1> DEFINE g == [k \in DOMAIN cur \cap DOMAIN inc |-> Over(cur[k], inc[k])]
           f == Over(cur, inc)
<1>1. MergeTrays(cur, inc) = Over(f, g)
  BY DEF MergeTrays, MergeById
<1>2. DOMAIN g = DOMAIN cur \cap DOMAIN inc /\ \A k \in DOMAIN g : g[k] = Over(cur[k], inc[k])
  OBVIOUS
<1> HIDE DEF g
<1>3. /\ DOMAIN f = DOMAIN cur \cup DOMAIN inc
      /\ \A k \in DOMAIN inc : f[k] = inc[k]
      /\ \A k \in DOMAIN cur \ DOMAIN inc : f[k] = cur[k]
  BY OverIs, Zenon
<1> HIDE DEF f
<1>4. /\ DOMAIN Over(f, g) = DOMAIN f \cup DOMAIN g
      /\ \A k \in DOMAIN g : Over(f, g)[k] = g[k]
      /\ \A k \in DOMAIN f \ DOMAIN g : Over(f, g)[k] = f[k]
  BY OverIs, Zenon
<1>5. QED
  BY <1>1, <1>2, <1>3, <1>4

LEMMA UnitsMerge ==
  ASSUME NEW cur, NEW inc
  PROVE  LET both == MergeUnits(cur, inc)
         IN  /\ DOMAIN both = DOMAIN cur \cup DOMAIN inc
             /\ \A k \in DOMAIN cur \cap DOMAIN inc : both[k] = MergeTrays(cur[k], inc[k])
             /\ \A k \in DOMAIN inc \ DOMAIN cur : both[k] = inc[k]
             /\ \A k \in DOMAIN cur \ DOMAIN inc : both[k] = cur[k]
<1> DEFINE g == [k \in DOMAIN cur \cap DOMAIN inc |-> MergeTrays(cur[k], inc[k])]
           f == Over(cur, inc)
<1>1. MergeUnits(cur, inc) = Over(f, g)
  BY DEF MergeUnits, MergeById
<1>2. DOMAIN g = DOMAIN cur \cap DOMAIN inc /\ \A k \in DOMAIN g : g[k] = MergeTrays(cur[k], inc[k])
  OBVIOUS
<1> HIDE DEF g
<1>3. /\ DOMAIN f = DOMAIN cur \cup DOMAIN inc
      /\ \A k \in DOMAIN inc : f[k] = inc[k]
      /\ \A k \in DOMAIN cur \ DOMAIN inc : f[k] = cur[k]
  BY OverIs, Zenon
<1> HIDE DEF f
<1>4. /\ DOMAIN Over(f, g) = DOMAIN f \cup DOMAIN g
      /\ \A k \in DOMAIN g : Over(f, g)[k] = g[k]
      /\ \A k \in DOMAIN f \ DOMAIN g : Over(f, g)[k] = f[k]
  BY OverIs, Zenon
<1>5. QED
  BY <1>1, <1>2, <1>3, <1>4

LEMMA ReportsMerge ==
  ASSUME NEW base, NEW inc
  PROVE  LET both == DeepMerge(base, inc)
         IN  /\ DOMAIN both = DOMAIN base \cup DOMAIN inc
             /\ "ams" \in DOMAIN base \cap DOMAIN inc =>
                  both["ams"] = MergeUnits(base["ams"], inc["ams"])
             /\ \A k \in DOMAIN inc : k # "ams" \/ k \notin DOMAIN base => both[k] = inc[k]
             /\ \A k \in DOMAIN base \ DOMAIN inc : both[k] = base[k]
<1> DEFINE g == [k \in {"ams"} \cap DOMAIN base \cap DOMAIN inc |-> MergeUnits(base[k], inc[k])]
           f == Over(base, inc)
<1>1. DeepMerge(base, inc) = Over(f, g)
  BY DEF DeepMerge
<1>2. /\ DOMAIN g = {"ams"} \cap DOMAIN base \cap DOMAIN inc
      /\ \A k \in DOMAIN g : g[k] = MergeUnits(base[k], inc[k])
  OBVIOUS
<1> HIDE DEF g
<1>3. /\ DOMAIN f = DOMAIN base \cup DOMAIN inc
      /\ \A k \in DOMAIN inc : f[k] = inc[k]
      /\ \A k \in DOMAIN base \ DOMAIN inc : f[k] = base[k]
  BY OverIs, Zenon
<1> HIDE DEF f
<1>4. /\ DOMAIN Over(f, g) = DOMAIN f \cup DOMAIN g
      /\ \A k \in DOMAIN g : Over(f, g)[k] = g[k]
      /\ \A k \in DOMAIN f \ DOMAIN g : Over(f, g)[k] = f[k]
  BY OverIs, Zenon
<1>5. QED
  BY <1>1, <1>2, <1>3, <1>4

(* report.py:246: a merged report has what either has, and of what both    *)
(* have what is newer.                                                     *)
LEMMA MergeAt ==
  ASSUME NEW base, NEW inc, NEW x
  PROVE  /\ Has(DeepMerge(base, inc), x) <=> Has(base, x) \/ Has(inc, x)
         /\ Has(inc, x) => At(DeepMerge(base, inc), x) = At(inc, x)
         /\ Has(base, x) /\ ~Has(inc, x) => At(DeepMerge(base, inc), x) = At(base, x)
<1> DEFINE both == DeepMerge(base, inc)
<1>1. /\ DOMAIN both = DOMAIN base \cup DOMAIN inc
      /\ "ams" \in DOMAIN base \cap DOMAIN inc =>
           both["ams"] = MergeUnits(base["ams"], inc["ams"])
      /\ \A k \in DOMAIN inc : k # "ams" \/ k \notin DOMAIN base => both[k] = inc[k]
      /\ \A k \in DOMAIN base \ DOMAIN inc : both[k] = base[k]
  BY ReportsMerge
<1> HIDE DEF both
<1>2. CASE x[1] # "ams"
  BY <1>1, <1>2 DEF Has, At, both
<1>3. CASE x[1] = "ams"
  <2>1. CASE "ams" \notin DOMAIN base
    <3>1. "ams" \in DOMAIN both <=> "ams" \in DOMAIN inc
      BY <1>1, <2>1
    <3>2. "ams" \in DOMAIN inc => both["ams"] = inc["ams"]
      BY <1>1, <2>1
    <3>3. QED
      BY <1>3, <2>1, <3>1, <3>2 DEF Has, At, both
  <2>2. CASE "ams" \notin DOMAIN inc
    <3>1. "ams" \in DOMAIN both <=> "ams" \in DOMAIN base
      BY <1>1, <2>2
    <3>2. "ams" \in DOMAIN base => both["ams"] = base["ams"]
      BY <1>1, <2>2
    <3>3. QED
      BY <1>3, <2>2, <3>1, <3>2 DEF Has, At, both
  <2>3. CASE "ams" \in DOMAIN base \cap DOMAIN inc
    <3> DEFINE b == base["ams"]
               c == inc["ams"]
               m == MergeUnits(b, c)
               u == x[2]
               s == x[3]
               f == x[4]
    <3>1. both["ams"] = m /\ "ams" \in DOMAIN both
      BY <1>1, <2>3
    <3>2. /\ Has(both, x) <=> u \in DOMAIN m /\ s \in DOMAIN m[u] /\ f \in DOMAIN m[u][s]
          /\ At(both, x) = m[u][s][f]
      BY <1>3, <3>1 DEF Has, At
    <3>3. /\ Has(base, x) <=> u \in DOMAIN b /\ s \in DOMAIN b[u] /\ f \in DOMAIN b[u][s]
          /\ At(base, x) = b[u][s][f]
      BY <1>3, <2>3 DEF Has, At
    <3>4. /\ Has(inc, x) <=> u \in DOMAIN c /\ s \in DOMAIN c[u] /\ f \in DOMAIN c[u][s]
          /\ At(inc, x) = c[u][s][f]
      BY <1>3, <2>3 DEF Has, At
    <3>5. /\ DOMAIN m = DOMAIN b \cup DOMAIN c
          /\ u \in DOMAIN b \cap DOMAIN c => m[u] = MergeTrays(b[u], c[u])
          /\ u \in DOMAIN c \ DOMAIN b => m[u] = c[u]
          /\ u \in DOMAIN b \ DOMAIN c => m[u] = b[u]
      <4> HIDE DEF b, c, u
      <4>1. /\ DOMAIN m = DOMAIN b \cup DOMAIN c
            /\ \A k \in DOMAIN b \cap DOMAIN c : m[k] = MergeTrays(b[k], c[k])
            /\ \A k \in DOMAIN c \ DOMAIN b : m[k] = c[k]
            /\ \A k \in DOMAIN b \ DOMAIN c : m[k] = b[k]
        BY UnitsMerge, Zenon
      <4> HIDE DEF m
      <4>2. QED
        BY <4>1
    <3> DEFINE w == MergeTrays(b[u], c[u])
    <3>6. /\ DOMAIN w = DOMAIN b[u] \cup DOMAIN c[u]
          /\ s \in DOMAIN b[u] \cap DOMAIN c[u] => w[s] = Over(b[u][s], c[u][s])
          /\ s \in DOMAIN c[u] \ DOMAIN b[u] => w[s] = c[u][s]
          /\ s \in DOMAIN b[u] \ DOMAIN c[u] => w[s] = b[u][s]
      <4> HIDE DEF b, c, u, s
      <4>1. /\ DOMAIN w = DOMAIN b[u] \cup DOMAIN c[u]
            /\ \A k \in DOMAIN b[u] \cap DOMAIN c[u] : w[k] = Over(b[u][k], c[u][k])
            /\ \A k \in DOMAIN c[u] \ DOMAIN b[u] : w[k] = c[u][k]
            /\ \A k \in DOMAIN b[u] \ DOMAIN c[u] : w[k] = b[u][k]
        BY TraysMerge, Zenon
      <4> HIDE DEF w
      <4>2. QED
        BY <4>1
    <3> DEFINE o == Over(b[u][s], c[u][s])
    <3>7. /\ DOMAIN o = DOMAIN b[u][s] \cup DOMAIN c[u][s]
          /\ f \in DOMAIN c[u][s] => o[f] = c[u][s][f]
          /\ f \in DOMAIN b[u][s] \ DOMAIN c[u][s] => o[f] = b[u][s][f]
      <4> HIDE DEF b, c, u, s, f
      <4>1. /\ DOMAIN o = DOMAIN b[u][s] \cup DOMAIN c[u][s]
            /\ \A k \in DOMAIN c[u][s] : o[k] = c[u][s][k]
            /\ \A k \in DOMAIN b[u][s] \ DOMAIN c[u][s] : o[k] = b[u][s][k]
        BY OverIs, Zenon
      <4> HIDE DEF o
      <4>2. QED
        BY <4>1
    <3> HIDE DEF b, c, m, u, s, f, w, o
    <3>8. CASE u \in DOMAIN b \cap DOMAIN c
      <4>1. m[u] = w
        BY <3>5, <3>8 DEF w
      <4>2. CASE s \in DOMAIN b[u] \cap DOMAIN c[u]
        <5>1. m[u][s] = o
          BY <3>6, <4>1, <4>2 DEF o
        <5>2. QED
          BY <3>2, <3>3, <3>4, <3>5, <3>6, <3>7, <3>8, <4>1, <4>2, <5>1 DEF both
      <4>3. CASE ~(s \in DOMAIN b[u] \cap DOMAIN c[u])
        BY <3>2, <3>3, <3>4, <3>5, <3>6, <3>8, <4>1, <4>3 DEF both
      <4>4. QED
        BY <4>2, <4>3
    <3>9. CASE ~(u \in DOMAIN b \cap DOMAIN c)
      BY <3>2, <3>3, <3>4, <3>5, <3>9 DEF both
    <3>10. QED
      BY <3>8, <3>9
  <2>4. QED
    BY <2>1, <2>2, <2>3
<1>4. QED
  BY <1>2, <1>3

\* What is in its place stays there.
LEMMA MergeShaped ==
  ASSUME NEW base, NEW inc, Shaped(base), Shaped(inc)
  PROVE  Shaped(DeepMerge(base, inc))
<1> DEFINE both == DeepMerge(base, inc)
<1>1. /\ DOMAIN both = DOMAIN base \cup DOMAIN inc
      /\ "ams" \in DOMAIN base \cap DOMAIN inc =>
           both["ams"] = MergeUnits(base["ams"], inc["ams"])
      /\ \A k \in DOMAIN inc : k # "ams" \/ k \notin DOMAIN base => both[k] = inc[k]
      /\ \A k \in DOMAIN base \ DOMAIN inc : both[k] = base[k]
  BY ReportsMerge
<1> HIDE DEF both
<1>2. CASE "ams" \notin DOMAIN base
  BY <1>1, <1>2 DEF Shaped, both
<1>3. CASE "ams" \notin DOMAIN inc
  BY <1>1, <1>3 DEF Shaped, both
<1>4. CASE "ams" \in DOMAIN base \cap DOMAIN inc
  <2> DEFINE b == base["ams"]
             c == inc["ams"]
             m == MergeUnits(b, c)
             Plain(tray) == DOMAIN tray \subseteq Fields /\ tray = [f \in DOMAIN tray |-> tray[f]]
  <2>1. /\ DOMAIN b \subseteq Units
        /\ \A u \in DOMAIN b : DOMAIN b[u] \subseteq Trays /\ \A s \in DOMAIN b[u] : Plain(b[u][s])
    BY <1>4 DEF Shaped
  <2>2. /\ DOMAIN c \subseteq Units
        /\ \A u \in DOMAIN c : DOMAIN c[u] \subseteq Trays /\ \A s \in DOMAIN c[u] : Plain(c[u][s])
    BY <1>4 DEF Shaped
  <2>3. ASSUME NEW f, NEW g, Plain(f), Plain(g) PROVE Plain(Over(f, g))
    <3>1. DOMAIN f \subseteq Fields /\ DOMAIN g \subseteq Fields
      BY <2>3, Zenon
    <3>2. DOMAIN Over(f, g) = DOMAIN f \cup DOMAIN g
      BY OverIs, Zenon
    <3>3. DOMAIN Over(f, g) \subseteq Fields
      BY <3>1, <3>2, Zenon
    <3>4. QED
      BY <3>3, OverPlain, Zenon
  <2>4. both["ams"] = m
    BY <1>1, <1>4
  <2> HIDE DEF b, c, Plain
  <2>5. /\ DOMAIN m = DOMAIN b \cup DOMAIN c
        /\ \A k \in DOMAIN b \cap DOMAIN c : m[k] = MergeTrays(b[k], c[k])
        /\ \A k \in DOMAIN c \ DOMAIN b : m[k] = c[k]
        /\ \A k \in DOMAIN b \ DOMAIN c : m[k] = b[k]
    BY UnitsMerge
  <2> HIDE DEF m
  <2>6. ASSUME NEW u \in DOMAIN m
        PROVE  DOMAIN m[u] \subseteq Trays /\ \A s \in DOMAIN m[u] : Plain(m[u][s])
    <3>1. CASE u \in DOMAIN b \cap DOMAIN c
      <4> DEFINE w == MergeTrays(b[u], c[u])
      <4>1. /\ DOMAIN w = DOMAIN b[u] \cup DOMAIN c[u]
            /\ \A k \in DOMAIN b[u] \cap DOMAIN c[u] : w[k] = Over(b[u][k], c[u][k])
            /\ \A k \in DOMAIN c[u] \ DOMAIN b[u] : w[k] = c[u][k]
            /\ \A k \in DOMAIN b[u] \ DOMAIN c[u] : w[k] = b[u][k]
        BY TraysMerge, Zenon
      <4>2. m[u] = w
        BY <2>5, <3>1
      <4> HIDE DEF w
      <4>3. ASSUME NEW s \in DOMAIN w PROVE Plain(w[s])
        <5>1. CASE s \in DOMAIN b[u] \cap DOMAIN c[u]
          <6>1. Plain(b[u][s]) /\ Plain(c[u][s])
            BY <2>1, <2>2, <3>1, <5>1
          <6>2. QED
            BY <2>3, <4>1, <5>1, <6>1
        <5>2. CASE s \in DOMAIN c[u] \ DOMAIN b[u]
          BY <2>2, <3>1, <4>1, <5>2
        <5>3. CASE s \in DOMAIN b[u] \ DOMAIN c[u]
          BY <2>1, <3>1, <4>1, <5>3
        <5>4. QED
          BY <4>1, <5>1, <5>2, <5>3
      <4>4. QED
        BY <2>1, <2>2, <3>1, <4>1, <4>2, <4>3
    <3>2. CASE u \in DOMAIN c \ DOMAIN b
      BY <2>2, <2>5, <3>2
    <3>3. CASE u \in DOMAIN b \ DOMAIN c
      BY <2>1, <2>5, <3>3
    <3>4. QED
      BY <2>5, <3>1, <3>2, <3>3
  <2>7. DOMAIN m \subseteq Units
    BY <2>1, <2>2, <2>5
  <2>8. QED
    BY <2>4, <2>6, <2>7 DEF Shaped, both, Plain
<1>5. QED
  BY <1>2, <1>3, <1>4

-----------------------------------------------------------------------------
(* What is on its way and what has been merged.                            *)

\* One more message is on its way, with the last word on x or none.
LEMMA HeardMore ==
  ASSUME NEW w, IsASeq(w), NEW m, NEW picture, NEW truth, NEW now,
         NEW pending \in BOOLEAN, NEW x,
         \/ Has(m.report, x) /\ At(m.report, x) = At(now, x)
         \/ /\ ~Has(m.report, x) /\ At(now, x) = At(truth, x)
            /\ Heard(w, picture, truth, pending, x)
  PROVE  Heard(Append(w, m), picture, now, pending, x)
<1> DEFINE more == Append(w, m)
           n == Len(w)
<1>1. /\ Len(more) = n + 1 /\ n \in Nat
      /\ \A i \in 1 .. n : more[i] = w[i]
      /\ more[n + 1] = m
  BY SeqAppend
<1> HIDE DEF more, n
<1>2. \A i \in 1 .. n + 1 : i \in 1 .. n \/ i = n + 1
  BY <1>1
<1>3. n + 1 \in 1 .. n + 1 /\ \A i \in 1 .. n : n + 1 \in i + 1 .. n + 1
  BY <1>1
<1>4. CASE Has(m.report, x) /\ At(m.report, x) = At(now, x)
  <2>1. ASSUME NEW i \in 1 .. n + 1, \A j \in i + 1 .. n + 1 : ~Has(more[j].report, x)
        PROVE  i = n + 1
    BY <1>1, <1>2, <1>3, <1>4, <2>1
  <2>2. QED
    BY <1>1, <1>3, <1>4, <2>1 DEF Heard, more
<1>5. CASE /\ ~Has(m.report, x) /\ At(now, x) = At(truth, x)
           /\ Heard(w, picture, truth, pending, x)
  <2>1. ASSUME NEW i \in 1 .. n + 1, Has(more[i].report, x),
               \A j \in i + 1 .. n + 1 : ~Has(more[j].report, x)
        PROVE  At(more[i].report, x) = At(now, x)
    <3>1. i \in 1 .. n /\ more[i] = w[i]
      BY <1>1, <1>2, <1>5, <2>1
    <3>2. \A j \in i + 1 .. n : j \in i + 1 .. n + 1 /\ j \in 1 .. n
      BY <1>1, <3>1
    <3>3. \A j \in i + 1 .. n : ~Has(w[j].report, x)
      BY <1>1, <2>1, <3>2
    <3>4. At(w[i].report, x) = At(truth, x)
      BY <1>5, <2>1, <3>1, <3>3 DEF Heard, n
    <3>5. QED
      BY <1>5, <3>1, <3>4
  <2>2. ASSUME \A i \in 1 .. n + 1 : ~Has(more[i].report, x)
        PROVE  pending \/ (Has(picture, x) /\ At(picture, x) = At(now, x))
    <3>1. \A i \in 1 .. n : ~Has(w[i].report, x)
      <4>1. \A i \in 1 .. n : i \in 1 .. n + 1
        BY <1>1
      <4>2. QED
        BY <1>1, <2>2, <4>1
    <3>2. QED
      BY <1>5, <3>1 DEF Heard, n
  <2>3. QED
    BY <1>1, <2>1, <2>2 DEF Heard, more
<1>6. QED
  BY <1>4, <1>5

\* The oldest message is merged.
LEMMA HeardMerged ==
  ASSUME NEW w, IsASeq(w), w # <<>>, NEW picture, NEW truth, NEW pending \in BOOLEAN, NEW x,
         Heard(w, picture, truth, pending, x)
  PROVE  Heard(Tail(w), DeepMerge(picture, Head(w).report), truth, pending, x)
<1> DEFINE left == Tail(w)
           n == Len(w)
           m == Head(w)
           after == DeepMerge(picture, m.report)
<1>1. /\ Len(left) = n - 1 /\ n \in Nat \ {0}
      /\ \A i \in 1 .. n - 1 : left[i] = w[i + 1]
      /\ m = w[1]
  BY SeqTail, Zenon
<1>2. /\ Has(after, x) <=> Has(picture, x) \/ Has(m.report, x)
      /\ Has(m.report, x) => At(after, x) = At(m.report, x)
      /\ Has(picture, x) /\ ~Has(m.report, x) => At(after, x) = At(picture, x)
  BY MergeAt, Zenon
<1> HIDE DEF left, n, m, after
<1>3. ASSUME NEW i \in 1 .. n - 1, Has(left[i].report, x),
             \A j \in i + 1 .. n - 1 : ~Has(left[j].report, x)
      PROVE  At(left[i].report, x) = At(truth, x)
  <2>1. i + 1 \in 1 .. n /\ \A k \in (i + 1) + 1 .. n : k - 1 \in i + 1 .. n - 1 /\ k - 1 \in 1 .. n - 1
    BY <1>1
  <2>2. \A k \in (i + 1) + 1 .. n : left[k - 1] = w[k]
    <3>1. SUFFICES ASSUME NEW k \in (i + 1) + 1 .. n PROVE left[k - 1] = w[k]
      OBVIOUS
    <3>2. (k - 1) + 1 = k
      BY <1>1
    <3>3. QED
      BY <1>1, <2>1, <3>2
  <2>3. \A k \in (i + 1) + 1 .. n : ~Has(w[k].report, x)
    BY <1>3, <2>1, <2>2
  <2>4. QED
    BY <1>1, <1>3, <2>1, <2>3 DEF Heard, n
<1>4. ASSUME \A i \in 1 .. n - 1 : ~Has(left[i].report, x)
      PROVE  pending \/ (Has(after, x) /\ At(after, x) = At(truth, x))
  <2>1. \A k \in 1 + 1 .. n : ~Has(w[k].report, x)
    <3>1. SUFFICES ASSUME NEW k \in 1 + 1 .. n PROVE ~Has(w[k].report, x)
      OBVIOUS
    <3>2. k - 1 \in 1 .. n - 1 /\ (k - 1) + 1 = k
      BY <1>1
    <3>3. QED
      BY <1>1, <1>4, <3>2
  <2>2. CASE Has(m.report, x)
    <3>1. 1 \in 1 .. n
      BY <1>1
    <3>2. At(m.report, x) = At(truth, x)
      BY <1>1, <2>1, <2>2, <3>1 DEF Heard, n
    <3>3. QED
      BY <1>2, <2>2, <3>2
  <2>3. CASE ~Has(m.report, x)
    <3>1. \A k \in 1 .. n : k = 1 \/ k \in 1 + 1 .. n
      BY <1>1
    <3>2. \A k \in 1 .. n : ~Has(w[k].report, x)
      BY <1>1, <2>1, <2>3, <3>1
    <3>3. pending \/ (Has(picture, x) /\ At(picture, x) = At(truth, x))
      BY <3>2 DEF Heard, n
    <3>4. QED
      BY <1>2, <2>3, <3>3
  <2>4. QED
    BY <2>2, <2>3
<1>5. QED
  BY <1>1, <1>3, <1>4 DEF Heard, left, after, m

\* The printer may have changed where x is not.
LEMMA HeardStill ==
  ASSUME NEW w, NEW picture, NEW truth, NEW now, NEW pending \in BOOLEAN, NEW x,
         Heard(w, picture, truth, pending, x), At(now, x) = At(truth, x)
  PROVE  Heard(w, picture, now, pending, x)
BY DEF Heard

-----------------------------------------------------------------------------
(* Each step keeps it.                                                     *)

LEMMA PictureInit == Init => PictureInv
<1> SUFFICES ASSUME Init PROVE PictureInv
  OBVIOUS
<1>1. Full(real, Units \ gone) /\ Shaped(real)
  <2> DEFINE tray == [f \in Fields |-> CHOOSE v \in Values : TRUE]
             unit == [s \in Trays |-> tray]
  <2>1. real = [gcode_state |-> "IDLE", hms |-> {}, ams |-> [u \in Units |-> unit]] /\ gone = {}
    BY DEF Init
  <2>2. DOMAIN tray = Fields /\ tray = [f \in DOMAIN tray |-> tray[f]]
    OBVIOUS
  <2> HIDE DEF tray
  <2>3. /\ DOMAIN real = Keys /\ DOMAIN real["ams"] = Units
        /\ \A u \in Units : DOMAIN real["ams"][u] = Trays /\ \A s \in Trays : real["ams"][u][s] = tray
    BY <2>1 DEF Keys
  <2>4. QED
    BY <2>1, <2>2, <2>3 DEF Full, Shaped
<1>2. Shaped(raw) /\ wire = <<>> /\ ~online /\ online \in BOOLEAN /\ pull \in BOOLEAN
  BY DEF Init, Shaped, Empty
<1>3. \A i \in 1 .. Len(wire) : FALSE
  BY <1>2
<1>4. QED
  BY <1>1, <1>2, <1>3 DEF PictureInv

\* A full report is in its place, when each tray is a table of fields.
LEMMA FullShaped ==
  ASSUME NEW r, NEW units, units \subseteq Units, Full(r, units),
         \A u \in units : \A s \in Trays :
           r["ams"][u][s] = [f \in DOMAIN r["ams"][u][s] |-> r["ams"][u][s][f]]
  PROVE  Shaped(r)
<1> DEFINE Plain(tray) == DOMAIN tray \subseteq Fields /\ tray = [f \in DOMAIN tray |-> tray[f]]
<1>1. DOMAIN r["ams"] = units /\ \A u \in units : DOMAIN r["ams"][u] = Trays
  BY DEF Full
<1>2. \A u \in units : \A s \in Trays : Plain(r["ams"][u][s])
  BY DEF Full
<1> HIDE DEF Plain
<1>3. \A u \in DOMAIN r["ams"] : /\ DOMAIN r["ams"][u] \subseteq Trays
                                 /\ \A s \in DOMAIN r["ams"][u] : Plain(r["ams"][u][s])
  BY <1>1, <1>2
<1>4. QED
  BY <1>1, <1>3, Zenon DEF Shaped, Plain

\* The printer says one thing, or says it to nobody.
LEMMA PictureSaid ==
  ASSUME PictureInv, IsASeq(wire), NEW m, Shaped(m.report),
         wire' = IF online THEN Append(wire, m) ELSE wire,
         Full(real', Units \ gone'), Shaped(real'),
         raw' = raw, online' = online, pull' \in BOOLEAN,
         \A x \in Spots : Has(real', x) =>
           \/ Has(m.report, x) /\ At(m.report, x) = At(real', x)
           \/ /\ ~Has(m.report, x) /\ pull' = pull
              /\ Has(real, x) /\ At(real', x) = At(real, x)
  PROVE  PictureInv'
<1>1. CASE ~online
  <2>1. wire' = <<>> /\ \A i \in 1 .. Len(wire') : FALSE
    BY <1>1 DEF PictureInv
  <2>2. QED
    BY <1>1, <2>1 DEF PictureInv
<1>2. CASE online
  <2>1. wire' = Append(wire, m)
    BY <1>2
  <2>2. /\ Len(wire') = Len(wire) + 1 /\ Len(wire) \in Nat
        /\ \A i \in 1 .. Len(wire) : wire'[i] = wire[i]
        /\ wire'[Len(wire) + 1] = m
    BY <2>1, SeqAppend
  <2>3. \A i \in 1 .. Len(wire') : Shaped(wire'[i].report)
    <3>1. \A i \in 1 .. Len(wire') : i \in 1 .. Len(wire) \/ i = Len(wire) + 1
      BY <2>2
    <3>2. QED
      BY <2>2, <3>1 DEF PictureInv
  <2>4. ASSUME NEW x \in Spots, Has(real', x)
        PROVE  Heard(wire', raw', real', pull', x)
    <3>1. PICK w, picture, truth, now, pending :
            /\ w = wire /\ picture = raw /\ truth = real /\ now = real' /\ pending = pull'
      OBVIOUS
    <3>2. pending \in BOOLEAN /\ IsASeq(w)
      BY <3>1
    <3>3. \/ Has(m.report, x) /\ At(m.report, x) = At(now, x)
          \/ /\ ~Has(m.report, x) /\ At(now, x) = At(truth, x)
             /\ Heard(w, picture, truth, pending, x)
      BY <1>2, <2>4, <3>1 DEF PictureInv
    <3>4. Heard(Append(w, m), picture, now, pending, x)
      BY <3>2, <3>3, HeardMore
    <3>5. QED
      BY <2>1, <3>1, <3>4
  <2>5. QED
    BY <1>2, <2>3, <2>4 DEF PictureInv
<1>3. QED
  BY <1>1, <1>2 DEF PictureInv

\* Nothing is said that the listener has not.
LEMMA PictureKept ==
  ASSUME PictureInv, UNCHANGED <<real, gone, netv, raw>>
  PROVE  PictureInv'
BY DEF PictureInv, netv

\* The printer reports what it changed.
LEMMA PictureChanges ==
  ASSUME PictureInv, IsASeq(wire), PrinterChanges
  PROVE  PictureInv'
<1>1. UNCHANGED <<online, pull, gone, raw>>
  BY DEF PrinterChanges, accv
<1>2. Full(real, Units \ gone) /\ Shaped(real) /\ pull \in BOOLEAN
  BY DEF PictureInv
<1>3. DOMAIN real = Keys /\ "ams" \in Keys /\ "hms" \in Keys /\ "gcode_state" \in Keys
  BY <1>2 DEF Full, Keys
<1>4. ASSUME NEW k \in {"gcode_state", "hms"}, NEW v,
             real' = [real EXCEPT ![k] = v], Say(Report([j \in {k} |-> v]))
      PROVE  PictureInv'
  <2> DEFINE m == Report([j \in {k} |-> v])
  <2>1. m.report = [j \in {k} |-> v] /\ wire' = IF online THEN Append(wire, m) ELSE wire
    BY <1>4 DEF Report, Say
  <2> HIDE DEF m
  <2>2. DOMAIN m.report = {k} /\ m.report[k] = v /\ k # "ams"
    BY <2>1
  <2>3. Shaped(m.report)
    BY <2>2 DEF Shaped
  <2>4. /\ DOMAIN real' = Keys /\ real'["ams"] = real["ams"] /\ real'[k] = v
        /\ \A j \in Keys \ {k} : real'[j] = real[j]
    BY <1>3, <1>4
  <2>5. Full(real', Units \ gone') /\ Shaped(real')
    BY <1>1, <1>2, <2>4 DEF Full, Shaped
  <2>6. ASSUME NEW x \in Spots, Has(real', x)
        PROVE  \/ Has(m.report, x) /\ At(m.report, x) = At(real', x)
               \/ /\ ~Has(m.report, x) /\ pull' = pull
                  /\ Has(real, x) /\ At(real', x) = At(real, x)
    BY <1>1, <1>3, <2>2, <2>4, <2>6 DEF Has, At
  <2>7. QED
    BY <1>1, <1>2, <2>1, <2>3, <2>5, <2>6, PictureSaid
<1>5. ASSUME NEW u \in DOMAIN real["ams"], NEW s \in Trays, NEW f \in Fields, NEW v,
             real' = [real EXCEPT !["ams"][u][s][f] = v],
             Say(Report([k \in {"ams"} |->
                          [i \in {u} |-> [j \in {s} |-> [x \in {f} |-> v]]]]))
      PROVE  PictureInv'
  <2> DEFINE m == Report([k \in {"ams"} |->
                           [i \in {u} |-> [j \in {s} |-> [x \in {f} |-> v]]]])
             r == m.report
             tray == real["ams"][u][s]
             unit == real["ams"][u]
  <2>1. r = [k \in {"ams"} |-> [i \in {u} |-> [j \in {s} |-> [x \in {f} |-> v]]]]
    BY DEF Report
  <2>2. wire' = IF online THEN Append(wire, m) ELSE wire
    BY <1>5 DEF Say
  <2> HIDE DEF m
  <2>3. /\ DOMAIN r = {"ams"} /\ DOMAIN r["ams"] = {u} /\ DOMAIN r["ams"][u] = {s}
        /\ DOMAIN r["ams"][u][s] = {f} /\ r["ams"][u][s][f] = v
        /\ r["ams"][u][s] = [x \in {f} |-> r["ams"][u][s][x]]
    BY <2>1
  <2>4. /\ DOMAIN real["ams"] = Units \ gone /\ DOMAIN unit = Trays /\ DOMAIN tray = Fields
    BY <1>2 DEF Full
  <2> HIDE DEF r
  <2>5. Shaped(r)
    BY <2>3, <2>4 DEF Shaped
  <2> DEFINE newtray == [tray EXCEPT ![f] = v]
             newunit == [unit EXCEPT ![s] = newtray]
             newams  == [real["ams"] EXCEPT ![u] = newunit]
  <2>6. real' = [real EXCEPT !["ams"] = newams]
    BY <1>5
  <2>7. /\ DOMAIN newtray = Fields /\ newtray[f] = v /\ \A y \in Fields \ {f} : newtray[y] = tray[y]
        /\ newtray = [y \in DOMAIN newtray |-> newtray[y]]
    BY <2>4
  <2> HIDE DEF newtray
  <2>8. DOMAIN newunit = Trays /\ newunit[s] = newtray /\ \A y \in Trays \ {s} : newunit[y] = unit[y]
    BY <2>4
  <2> HIDE DEF newunit, tray, unit
  <2>9. /\ DOMAIN newams = Units \ gone /\ newams[u] = newunit
        /\ \A y \in (Units \ gone) \ {u} : newams[y] = real["ams"][y]
    BY <2>4
  <2> HIDE DEF newams
  <2>10. /\ DOMAIN real' = Keys /\ real'["ams"] = newams
         /\ \A j \in Keys \ {"ams"} : real'[j] = real[j]
    BY <1>3, <2>6
  <2>11. Full(real', Units \ gone')
    <3>1. ASSUME NEW y \in Units \ gone
          PROVE  DOMAIN newams[y] = Trays /\ \A z \in Trays : DOMAIN newams[y][z] = Fields
      <4>1. CASE y = u
        BY <1>2, <2>4, <2>7, <2>8, <2>9, <4>1 DEF Full, unit
      <4>2. CASE y # u
        BY <1>2, <2>9, <4>2 DEF Full
      <4>3. QED
        BY <4>1, <4>2
    <3>2. QED
      BY <1>1, <2>9, <2>10, <3>1 DEF Full
  <2>12. Shaped(real')
    <3>1. ASSUME NEW y \in Units \ gone, NEW z \in Trays
          PROVE  newams[y][z] = [k \in DOMAIN newams[y][z] |-> newams[y][z][k]]
      <4>1. real["ams"][y][z] = [k \in DOMAIN real["ams"][y][z] |-> real["ams"][y][z][k]]
        BY <1>2, <1>3 DEF Full, Shaped
      <4>2. CASE y = u /\ z = s
        BY <2>7, <2>8, <2>9, <4>2
      <4>3. CASE y = u /\ z # s
        <5>1. newams[y][z] = real["ams"][y][z]
          BY <2>8, <2>9, <4>3 DEF unit
        <5>2. QED
          BY <4>1, <5>1
      <4>4. CASE y # u
        <5>1. newams[y][z] = real["ams"][y][z]
          BY <2>9, <4>4
        <5>2. QED
          BY <4>1, <5>1
      <4>5. QED
        BY <4>2, <4>3, <4>4
    <3>2. PICK now, units : now = real' /\ units = Units \ gone
      OBVIOUS
    <3>3. /\ Full(now, units)
          /\ \A y \in units : \A z \in Trays :
               now["ams"][y][z] = [k \in DOMAIN now["ams"][y][z] |-> now["ams"][y][z][k]]
      BY <1>1, <2>10, <2>11, <3>1, <3>2
    <3>4. Shaped(now)
      BY <3>2, <3>3, FullShaped
    <3>5. QED
      BY <3>2, <3>4
  <2>13. ASSUME NEW x \in Spots, Has(real', x)
         PROVE  \/ Has(r, x) /\ At(r, x) = At(real', x)
                \/ /\ ~Has(r, x) /\ pull' = pull
                   /\ Has(real, x) /\ At(real', x) = At(real, x)
    <3>1. CASE x[1] # "ams"
      BY <1>1, <1>3, <2>3, <2>10, <2>13, <3>1 DEF Has, At
    <3>2. CASE x[1] = "ams" /\ x[2] = u /\ x[3] = s /\ x[4] = f
      <4>1. Has(r, x) /\ At(r, x) = v
        BY <2>3, <3>2 DEF Has, At
      <4>2. At(real', x) = v
        BY <2>7, <2>8, <2>9, <2>10, <3>2 DEF At
      <4>3. QED
        BY <4>1, <4>2
    <3>3. CASE x[1] = "ams" /\ ~(x[2] = u /\ x[3] = s /\ x[4] = f)
      <4>1. ~Has(r, x)
        BY <2>3, <3>3 DEF Has
      <4>2. x[2] \in Units \ gone /\ x[3] \in Trays /\ x[4] \in Fields
        BY <1>1, <2>11, <2>13, <3>3 DEF Has, Full
      <4>3. Has(real, x)
        BY <1>2, <1>3, <3>3, <4>2 DEF Has, Full
      <4>4. newams[x[2]][x[3]][x[4]] = real["ams"][x[2]][x[3]][x[4]]
        <5>1. CASE x[2] # u
          BY <2>9, <4>2, <5>1
        <5>2. CASE x[2] = u /\ x[3] # s
          BY <2>8, <2>9, <4>2, <5>2 DEF unit
        <5>3. CASE x[2] = u /\ x[3] = s /\ x[4] # f
          BY <2>7, <2>8, <2>9, <4>2, <5>3 DEF tray
        <5>4. QED
          BY <3>3, <5>1, <5>2, <5>3
      <4>5. QED
        BY <1>1, <2>10, <3>3, <4>1, <4>3, <4>4 DEF At
    <3>4. QED
      BY <3>1, <3>2, <3>3
  <2>14. QED
    BY <1>1, <1>2, <2>2, <2>5, <2>11, <2>12, <2>13, PictureSaid DEF r
<1>6. CASE \E v \in Gcode \ {real["gcode_state"]} :
             /\ real' = [real EXCEPT !["gcode_state"] = v]
             /\ Say(Report([k \in {"gcode_state"} |-> v]))
  BY <1>4, <1>6
<1>7. CASE \E v \in (SUBSET Alarms) \ {real["hms"]} :
             /\ real' = [real EXCEPT !["hms"] = v]
             /\ Say(Report([k \in {"hms"} |-> v]))
  BY <1>4, <1>7
<1>8. CASE \E u \in DOMAIN real["ams"], s \in Trays, f \in Fields, v \in Values :
             /\ real["ams"][u][s][f] # v
             /\ real' = [real EXCEPT !["ams"][u][s][f] = v]
             /\ Say(Report([k \in {"ams"} |->
                             [i \in {u} |-> [j \in {s} |-> [x \in {f} |-> v]]]]))
  <2>1. PICK u \in DOMAIN real["ams"], s \in Trays, f \in Fields, v \in Values :
             /\ real' = [real EXCEPT !["ams"][u][s][f] = v]
             /\ Say(Report([k \in {"ams"} |->
                             [i \in {u} |-> [j \in {s} |-> [x \in {f} |-> v]]]]))
    BY <1>8
  <2>2. QED
    BY <1>5, <2>1
<1>9. QED
  BY <1>6, <1>7, <1>8 DEF PrinterChanges

\* Full reports, breaks, reconnections; a unit that is unplugged is not missed.
LEMMA PictureNet ==
  ASSUME PictureInv, IsASeq(wire),
         PushAll \/ Break \/ OnConnect \/ RequestPushall \/ \E u \in Units : Unplug(u)
  PROVE  PictureInv'
<1>1. raw' = raw
  BY DEF PushAll, Break, OnConnect, RequestPushall, Unplug, accv
<1>2. CASE PushAll
  <2> DEFINE m == Report(real)
  <2>1. /\ online /\ wire' = Append(wire, m) /\ pull' = FALSE
        /\ UNCHANGED <<real, gone, online>> /\ m.report = real
    BY <1>2 DEF PushAll, printerv, Report
  <2> HIDE DEF m
  <2>2. Full(real', Units \ gone') /\ Shaped(real') /\ Shaped(m.report)
    BY <2>1 DEF PictureInv
  <2>3. \A x \in Spots : Has(real', x) => Has(m.report, x) /\ At(m.report, x) = At(real', x)
    BY <2>1
  <2>4. QED
    BY <1>1, <2>1, <2>2, <2>3, PictureSaid
<1>3. CASE Break
  <2>1. wire' = <<>> /\ online' = FALSE /\ pull' = FALSE /\ UNCHANGED <<real, gone>>
    BY <1>3 DEF Break, printerv
  <2>2. \A i \in 1 .. Len(wire') : FALSE
    BY <2>1
  <2>3. QED
    BY <1>1, <2>1, <2>2 DEF PictureInv
<1>4. CASE OnConnect
  <2>1. wire' = <<>> /\ pull' = TRUE /\ online' = TRUE /\ UNCHANGED <<real, gone, wire>>
    BY <1>4 DEF OnConnect, printerv, PictureInv
  <2>2. \A i \in 1 .. Len(wire') : FALSE
    BY <2>1
  <2>3. \A x \in Spots : Heard(wire', raw', real', pull', x)
    BY <2>1, <2>2 DEF Heard
  <2>4. QED
    BY <1>1, <2>1, <2>2, <2>3 DEF PictureInv
<1>5. CASE RequestPushall
  <2>1. pull' = TRUE /\ UNCHANGED <<real, gone, online, wire>>
    BY <1>5 DEF RequestPushall, printerv
  <2>2. \A x \in Spots : Heard(wire, raw, real, pull, x) => Heard(wire', raw', real', pull', x)
    BY <1>1, <2>1 DEF Heard
  <2>3. QED
    BY <1>1, <2>1, <2>2 DEF PictureInv
<1>6. ASSUME NEW u \in Units, Unplug(u) PROVE PictureInv'
  <2>1. /\ real' = [real EXCEPT !["ams"] = [i \in (DOMAIN @) \ {u} |-> @[i]]]
        /\ gone' = gone \cup {u} /\ UNCHANGED <<online, wire, pull>>
    BY <1>6 DEF Unplug, netv
  <2>2. DOMAIN real = Keys /\ "ams" \in Keys /\ DOMAIN real["ams"] = Units \ gone
    BY DEF PictureInv, Full, Keys
  <2>3. /\ DOMAIN real' = Keys /\ \A k \in Keys \ {"ams"} : real'[k] = real[k]
        /\ real'["ams"] = [i \in (Units \ gone) \ {u} |-> real["ams"][i]]
    BY <2>1, <2>2
  <2>4. (Units \ gone) \ {u} = Units \ gone'
    BY <2>1
  <2>5. DOMAIN real'["ams"] = Units \ gone' /\ \A y \in Units \ gone' : real'["ams"][y] = real["ams"][y]
    BY <2>3, <2>4
  <2>6. Full(real', Units \ gone')
    BY <2>1, <2>3, <2>5 DEF PictureInv, Full
  <2>7. Shaped(real')
    BY <2>1, <2>2, <2>3, <2>5 DEF PictureInv, Shaped
  <2>8. ASSUME NEW x \in Spots, Has(real', x) PROVE Has(real, x) /\ At(real', x) = At(real, x)
    BY <2>1, <2>2, <2>3, <2>5, <2>8 DEF Has, At
  <2>9. ASSUME online, NEW x \in Spots, Has(real', x) PROVE Heard(wire, raw, real', pull, x)
    <3>1. Heard(wire, raw, real, pull, x) /\ At(real', x) = At(real, x) /\ pull \in BOOLEAN
      BY <2>8, <2>9 DEF PictureInv
    <3>2. PICK now : now = real'
      OBVIOUS
    <3>3. Heard(wire, raw, now, pull, x)
      BY <3>1, <3>2, HeardStill
    <3>4. QED
      BY <3>2, <3>3
  <2>10. QED
    BY <1>1, <2>1, <2>6, <2>7, <2>9 DEF PictureInv
<1>7. QED
  BY <1>2, <1>3, <1>4, <1>5, <1>6

\* What is read is merged.
LEMMA PictureMerges ==
  ASSUME PictureInv, IsASeq(wire), OnMessage
  PROVE  PictureInv'
<1> DEFINE m == Head(wire)
<1>1. /\ wire # <<>> /\ wire' = Tail(wire) /\ UNCHANGED <<real, gone, online, pull>>
      /\ raw' = DeepMerge(raw, m.report)
  BY DEF OnMessage, Read, printerv
<1>2. /\ Len(Tail(wire)) = Len(wire) - 1 /\ Len(wire) \in Nat \ {0}
      /\ \A i \in 1 .. Len(wire) - 1 : Tail(wire)[i] = wire[i + 1]
      /\ m = wire[1]
  BY <1>1, SeqTail
<1> HIDE DEF m
<1>3. online /\ pull \in BOOLEAN
  BY <1>1 DEF PictureInv
<1>4. Shaped(raw')
  <2>1. Shaped(m.report) /\ Shaped(raw)
    BY <1>2 DEF PictureInv
  <2>2. QED
    BY <1>1, <2>1, MergeShaped
<1>5. \A i \in 1 .. Len(wire') : Shaped(wire'[i].report)
  <2>1. \A i \in 1 .. Len(wire) - 1 : i + 1 \in 1 .. Len(wire)
    BY <1>2
  <2>2. QED
    BY <1>1, <1>2, <2>1 DEF PictureInv
<1>6. ASSUME NEW x \in Spots, Has(real, x) PROVE Heard(wire', raw', real', pull', x)
  <2>1. Heard(wire, raw, real, pull, x)
    BY <1>3, <1>6 DEF PictureInv
  <2>2. Heard(Tail(wire), DeepMerge(raw, Head(wire).report), real, pull, x)
    BY <1>1, <1>3, <2>1, HeardMerged
  <2>3. QED
    BY <1>1, <2>2 DEF m
<1>7. QED
  BY <1>1, <1>3, <1>4, <1>5, <1>6 DEF PictureInv

\* The reply says nothing about the printer, the report after it its state.
LEMMA PictureSends ==
  ASSUME PictureInv, IsASeq(wire), Send
  PROVE  PictureInv'
<1>1. raw' = raw /\ UNCHANGED <<gone, online, pull>>
  BY DEF Send, Publish, accv
<1>2. CASE UNCHANGED <<real, wire>>
  BY <1>1, <1>2 DEF PictureInv
<1>3. CASE ~UNCHANGED <<real, wire>>
  <2>1. PICK res, now :
          /\ online /\ real' = [real EXCEPT !["gcode_state"] = now]
          /\ wire' = wire \o <<Reply(task, res), Report([k \in {"gcode_state"} |-> now])>>
    <3>1. online
      BY <1>3 DEF Send, Publish
    <3>2. PICK ok \in BOOLEAN :
            LET taken == ok /\ real["gcode_state"] = "IDLE"
                res   == IF taken THEN "success" ELSE "refused"
                now   == IF taken THEN "RUNNING" ELSE real["gcode_state"]
            IN  /\ answer' = [answer EXCEPT ![task] = res]
                /\ real' = [real EXCEPT !["gcode_state"] = now]
                /\ wire' = wire \o <<Reply(task, res), Report([k \in {"gcode_state"} |-> now])>>
      BY <3>1 DEF Send, Publish
    <3>3. QED
      BY <3>1, <3>2, Zenon
  <2> DEFINE first == Reply(task, res)
             second == Report([k \in {"gcode_state"} |-> now])
  <2>2. /\ DOMAIN first.report = {} /\ DOMAIN second.report = {"gcode_state"}
        /\ second.report["gcode_state"] = now
    BY DEF Reply, Report, Empty
  <2> HIDE DEF first, second
  <2>3. wire' = Append(Append(wire, first), second) /\ IsASeq(Append(wire, first))
    <3>1. PICK S : wire \in Seq(S)
      BY DEF IsASeq
    <3>2. wire \in Seq(S \cup {first, second})
      BY <3>1
    <3>3. wire \o <<first, second>> = Append(Append(wire, first), second)
      BY <3>2
    <3>4. QED
      BY <2>1, <3>3, SeqAppend DEF first, second
  <2>4. DOMAIN real = Keys /\ "ams" \in Keys /\ "gcode_state" \in Keys
    BY DEF PictureInv, Full, Keys
  <2>5. /\ DOMAIN real' = Keys /\ real'["gcode_state"] = now
        /\ \A k \in Keys \ {"gcode_state"} : real'[k] = real[k]
    BY <2>1, <2>4
  <2>6. real'["ams"] = real["ams"]
    BY <2>4, <2>5
  <2>7. Full(real', Units \ gone') /\ Shaped(real')
    <3>1. Full(real', Units \ gone')
      BY <1>1, <2>5, <2>6 DEF PictureInv, Full
    <3>2. Shaped(real')
      BY <2>4, <2>5, <2>6 DEF PictureInv, Shaped
    <3>3. QED
      BY <3>1, <3>2
  <2>8. Shaped(first.report) /\ Shaped(second.report)
    BY <2>2 DEF Shaped
  <2>9. \A i \in 1 .. Len(wire') : Shaped(wire'[i].report)
    <3>1. PICK one : one = Append(wire, first)
      OBVIOUS
    <3>2. /\ Len(one) = Len(wire) + 1 /\ Len(wire) \in Nat
          /\ \A i \in 1 .. Len(wire) : one[i] = wire[i]
          /\ one[Len(wire) + 1] = first
      BY <3>1, SeqAppend
    <3>3. /\ Len(wire') = Len(one) + 1
          /\ \A i \in 1 .. Len(one) : wire'[i] = one[i]
          /\ wire'[Len(one) + 1] = second
      BY <2>3, <3>1, SeqAppend
    <3>4. \A i \in 1 .. Len(wire') : i \in 1 .. Len(wire) \/ i = Len(wire) + 1 \/ i = Len(one) + 1
      BY <3>2, <3>3
    <3>5. \A i \in 1 .. Len(wire) : i \in 1 .. Len(one)
      BY <3>2
    <3>6. Len(wire) + 1 \in 1 .. Len(one)
      BY <3>2
    <3>7. QED
      BY <2>8, <3>2, <3>3, <3>4, <3>5, <3>6 DEF PictureInv
  <2>10. ASSUME NEW x \in Spots, Has(real', x)
         PROVE  Heard(wire', raw', real', pull', x)
    <3>1. PICK w, picture, truth, then, pending :
            /\ w = wire /\ picture = raw /\ truth = real /\ then = real' /\ pending = pull
      OBVIOUS
    <3>2. Has(truth, x) /\ Heard(w, picture, truth, pending, x) /\ pending \in BOOLEAN
      BY <2>1, <2>4, <2>5, <2>6, <2>10, <3>1 DEF PictureInv, Has
    <3>3. ~Has(first.report, x)
      BY <2>2 DEF Has
    <3>4. Heard(Append(w, first), picture, truth, pending, x)
      BY <3>1, <3>2, <3>3, HeardMore
    <3>5. \/ Has(second.report, x) /\ At(second.report, x) = At(then, x)
          \/ ~Has(second.report, x) /\ At(then, x) = At(truth, x)
      <4>1. CASE x[1] = "gcode_state"
        BY <2>2, <2>5, <3>1, <4>1 DEF Has, At
      <4>2. CASE x[1] # "gcode_state"
        BY <2>2, <2>4, <2>5, <2>6, <2>10, <3>1, <4>2 DEF Has, At
      <4>3. QED
        BY <4>1, <4>2
    <3>6. Heard(Append(Append(w, first), second), picture, then, pending, x)
      BY <2>3, <3>1, <3>2, <3>4, <3>5, HeardMore
    <3>7. QED
      BY <1>1, <2>3, <3>1, <3>6
  <2>11. QED
    BY <1>1, <2>1, <2>7, <2>9, <2>10 DEF PictureInv
<1>4. QED
  BY <1>2, <1>3

LEMMA PictureStep == LanInv /\ PictureInv /\ [Next]_vars => PictureInv'
<1> SUFFICES ASSUME LanInv, PictureInv, [Next]_vars PROVE PictureInv'
  OBVIOUS
<1>1. IsASeq(wire)
  BY DEF LanInv, WireInv
<1>2. CASE PrinterChanges
  BY <1>1, <1>2, PictureChanges
<1>3. CASE PushAll \/ Break \/ OnConnect \/ RequestPushall \/ \E u \in Units : Unplug(u)
  BY <1>1, <1>3, PictureNet
<1>4. CASE OnMessage
  BY <1>1, <1>4, PictureMerges
<1>5. CASE Send
  BY <1>1, <1>5, PictureSends
<1>6. CASE (\E t \in Tasks : GetState(t)) \/ WaitEnds(TRUE) \/ WaitEnds(FALSE) \/ UNCHANGED vars
  BY <1>6, PictureKept DEF GetState, WaitEnds, vars, printerv, accv
<1>7. QED
  BY <1>2, <1>3, <1>4, <1>5, <1>6 DEF Next

\* A picture that has every field of the units plugged in, as they are, shows
\* them as they are.
LEMMA PictureShows ==
  ASSUME PictureInv, online, ~pull, wire = <<>>
  PROVE  Kept(raw) = Kept(real)
<1>1. ASSUME NEW x \in Spots, Has(real, x)
      PROVE  Has(raw, x) /\ At(raw, x) = At(real, x)
  <2>1. \A i \in 1 .. Len(wire) : FALSE
    OBVIOUS
  <2>2. QED
    BY <1>1, <2>1 DEF PictureInv, Heard
<1>2. DOMAIN real = Keys
  BY DEF PictureInv, Full
<1>3. \A k \in {"gcode_state", "hms"} : k \in DOMAIN raw /\ raw[k] = real[k]
  <2>1. SUFFICES ASSUME NEW k \in {"gcode_state", "hms"} PROVE k \in DOMAIN raw /\ raw[k] = real[k]
    OBVIOUS
  <2>2. PICK x \in Spots : x = <<k>>
    BY DEF Spots
  <2>3. x[1] = k /\ x[1] # "ams" /\ k \in DOMAIN real
    BY <1>2, <2>2 DEF Keys
  <2>4. QED
    BY <1>1, <2>3 DEF Has, At
<1>4. Job(raw) = Job(real) /\ Hms(raw) = Hms(real)
  BY <1>2, <1>3 DEF Job, Hms, Keys
<1> DEFINE up == Units \ gone
           left == {GlobalId(u, s) : u \in gone, s \in Trays}
           Pairs(units) == UNION {{<<GlobalId(u, s), units[u][s]>> : s \in DOMAIN units[u]} :
                                    u \in DOMAIN units}
<1>5. /\ DOMAIN Ams(real) = up
      /\ \A u \in up : DOMAIN Ams(real)[u] = Trays
  BY <1>2 DEF PictureInv, Full, Ams, Keys
<1>6. DOMAIN Ams(raw) \subseteq Units /\ \A u \in DOMAIN Ams(raw) : DOMAIN Ams(raw)[u] \subseteq Trays
  BY DEF PictureInv, Shaped, Ams
<1>7. ASSUME NEW u \in up, NEW s \in Trays
      PROVE  /\ u \in DOMAIN Ams(raw) /\ s \in DOMAIN Ams(raw)[u]
             /\ Ams(raw)[u][s] = Ams(real)[u][s]
  <2>1. /\ "ams" \in DOMAIN real /\ DOMAIN real["ams"] = up /\ DOMAIN real["ams"][u] = Trays
        /\ DOMAIN real["ams"][u][s] = Fields
    BY <1>2 DEF PictureInv, Full, Keys
  <2>2. ASSUME NEW f \in Fields
        PROVE  /\ "ams" \in DOMAIN raw /\ u \in DOMAIN raw["ams"] /\ s \in DOMAIN raw["ams"][u]
               /\ f \in DOMAIN raw["ams"][u][s]
               /\ raw["ams"][u][s][f] = real["ams"][u][s][f]
    <3>1. PICK x \in Spots : x = <<"ams", u, s, f>>
      BY DEF Spots
    <3>2. x[1] = "ams" /\ x[2] = u /\ x[3] = s /\ x[4] = f
      BY <3>1
    <3>3. Has(real, x)
      BY <2>1, <3>2 DEF Has
    <3>4. QED
      BY <1>1, <3>2, <3>3 DEF Has, At
  <2>3. "ams" \in DOMAIN raw /\ u \in DOMAIN raw["ams"] /\ s \in DOMAIN raw["ams"][u]
    BY <2>2, LanAssumption
  <2> DEFINE a == raw["ams"][u][s]
             b == real["ams"][u][s]
  <2>4. DOMAIN a \subseteq Fields /\ a = [f \in DOMAIN a |-> a[f]]
    BY <2>3 DEF PictureInv, Shaped
  <2>5. b = [f \in DOMAIN b |-> b[f]]
    BY <2>1 DEF PictureInv, Shaped
  <2>6. DOMAIN a = Fields /\ DOMAIN b = Fields /\ \A f \in Fields : a[f] = b[f]
    BY <2>1, <2>2, <2>4
  <2> HIDE DEF a, b
  <2>7. a = b
    BY <2>4, <2>5, <2>6
  <2>8. QED
    BY <2>1, <2>3, <2>7 DEF Ams, a, b
<1> HIDE DEF up
<1>8. {x \in Pairs(Ams(raw)) : x[1] \notin left} = {x \in Pairs(Ams(real)) : x[1] \notin left}
  <2>1. PICK a, b : a = Ams(raw) /\ b = Ams(real)
    OBVIOUS
  <2>2. /\ DOMAIN b = up /\ \A u \in up : DOMAIN b[u] = Trays
        /\ DOMAIN a \subseteq Units /\ \A u \in DOMAIN a : DOMAIN a[u] \subseteq Trays
        /\ \A u \in up : \A s \in Trays : u \in DOMAIN a /\ s \in DOMAIN a[u] /\ a[u][s] = b[u][s]
    BY <1>5, <1>6, <1>7, <2>1
  <2>3. ASSUME NEW x \in Pairs(a), x[1] \notin left PROVE x \in Pairs(b)
    <3>1. PICK u \in DOMAIN a : \E s \in DOMAIN a[u] : x = <<GlobalId(u, s), a[u][s]>>
      OBVIOUS
    <3>2. PICK s \in DOMAIN a[u] : x = <<GlobalId(u, s), a[u][s]>>
      BY <3>1
    <3>3. s \in Trays /\ u \in Units /\ x[1] = GlobalId(u, s)
      BY <2>2, <3>2
    <3>4. u \notin gone
      BY <2>3, <3>3
    <3>5. u \in up
      BY <3>3, <3>4 DEF up
    <3>6. x = <<GlobalId(u, s), b[u][s]>> /\ s \in DOMAIN b[u] /\ u \in DOMAIN b
      BY <2>2, <3>2, <3>3, <3>5
    <3>7. QED
      BY <3>6
  <2>4. ASSUME NEW x \in Pairs(b) PROVE x \in Pairs(a)
    <3>1. PICK u \in DOMAIN b : \E s \in DOMAIN b[u] : x = <<GlobalId(u, s), b[u][s]>>
      OBVIOUS
    <3>2. PICK s \in DOMAIN b[u] : x = <<GlobalId(u, s), b[u][s]>>
      BY <3>1
    <3>3. u \in up /\ s \in Trays
      BY <2>2
    <3>4. x = <<GlobalId(u, s), a[u][s]>> /\ s \in DOMAIN a[u] /\ u \in DOMAIN a
      BY <2>2, <3>2, <3>3
    <3>5. QED
      BY <3>4
  <2> HIDE DEF Pairs, left
  <2>5. {x \in Pairs(a) : x[1] \notin left} = {x \in Pairs(b) : x[1] \notin left}
    BY <2>3, <2>4
  <2>6. QED
    BY <2>1, <2>5
<1>9. ASSUME NEW r
      PROVE  Kept(r) = [state |-> Job(r), hms |-> Hms(r),
                        trays |-> {x \in Pairs(Ams(r)) : x[1] \notin left}]
  <2>1. Shown(r) = [state |-> Job(r), hms |-> Hms(r), trays |-> Pairs(Ams(r))]
    BY Zenon DEF Shown
  <2>2. PICK p, ps : p = Shown(r) /\ ps = Pairs(Ams(r))
    OBVIOUS
  <2>3. Kept(r) = [p EXCEPT !.trays = {x \in p.trays : x[1] \notin left}]
    BY <2>2 DEF Kept
  <2> HIDE DEF Pairs, left
  <2>4. p = [state |-> Job(r), hms |-> Hms(r), trays |-> ps]
    BY <2>1, <2>2
  <2>5. p.trays = ps
    BY <2>4
  <2>6. Kept(r) = [state |-> Job(r), hms |-> Hms(r), trays |-> {x \in ps : x[1] \notin left}]
    BY <2>3, <2>4, <2>5
  <2>7. QED
    BY <2>2, <2>6
<1> HIDE DEF Pairs, left
<1>10. QED
  BY <1>4, <1>8, <1>9

(* report.py:271: for any units, trays and fields, however many changes    *)
(* are merged and however often the connection breaks, the snapshot is     *)
(* what the printer would say once everything has arrived.                 *)
THEOREM SnapshotAlwaysFaithful == Spec => []SnapshotFaithful
<1>1. PictureInv => SnapshotFaithful
  BY PictureShows DEF SnapshotFaithful
<1>2. QED
  BY LanInit, LanStep, PictureInit, PictureStep, <1>1, PTL DEF Spec
=============================================================================
