------------------------- MODULE ConfigReload_proofs -------------------------
(* Theorems about ConfigReload, for any number of requests, edits, losses  *)
(* and crashes.                                                            *)
EXTENDS ConfigReload, TLAPS

Places == {"idle", "done", "probe", "read", "write", "load",
           "web", "ctx", "runner", "service", "link", "drop", "renew", "dial"}

Entry == Sections \X (Values \cup {Bad})

TypeInv ==
  /\ TypeOK
  /\ pc \in [Requests -> Places] /\ todo \in [Requests -> Seq(Entry)]
  /\ holder \in [HolderSet -> Content \cup {Missing}] /\ DOMAIN doc = Requests

(* What is to be written is what was read with one section changed.        *)
WriteInv ==
  \A r \in Requests : pc[r] = "write" =>
    /\ todo[r][1] \in Sections \X Values
    /\ doc[r].new = [doc[r].base EXCEPT ![todo[r][1][1]] = todo[r][1][2]]

(* Nothing takes the file away; the template is copied where none is, and  *)
(* a file half copied is one that nobody had put anything into.            *)
FileInv ==
  /\ file = Missing => wanted = Missing
  /\ wanted = Missing => file \in {Missing, Half}
  /\ up = "up" => file \notin {Missing, Half}
  /\ up = "checked" /\ ~raced => file = Missing
  /\ up = "copying" /\ ~raced => file = Half
  /\ NothingLost

(* Who still has to load, and who is handing out what was loaded, and to   *)
(* whom that has been handed already.                                      *)
Waiting == {r \in Requests : pc[r] \in {"read", "write", "load"}}
Telling == {r \in Requests : pc[r] \in HolderSet \cup {"drop", "renew"}}
Dialing == {r \in Requests : pc[r] = "dial"}

ToldAt(place) ==
  CASE place = "web"     -> {}
    [] place = "ctx"     -> {"web"}
    [] place = "runner"  -> {"web", "ctx"}
    [] place = "service" -> {"web", "ctx", "runner"}
    [] place = "link"    -> {"web", "ctx", "runner", "service"}
    [] OTHER             -> {"web", "ctx", "runner", "service", "link"}

(* Unless memory has a reason to be behind: one request at a time hands    *)
(* out, everybody it told has what it loaded, and that is the file, or     *)
(* somebody else is about to load.                                         *)
HandInv ==
  up = "up" /\ behind = {} =>
    /\ \A r, q \in Telling \cup Dialing : r = q
    /\ \A r \in Telling :
         /\ \A h \in ToldAt(pc[r]) : holder[h] = doc[r]
         /\ doc[r] = file \/ Waiting # {}
    /\ Telling = {} =>
         /\ \A h \in HolderSet : holder[h] = holder["web"]
         /\ holder["web"] = file \/ Waiting # {}

(* Unless memory took over another printer: the connection, if any, is to  *)
(* the printer that the link and the pages know, or is about to be dropped *)
(* for the one that is being handed out.                                   *)
Agreed(printer) ==
  /\ holder["web"]["printer"] = printer /\ holder["link"]["printer"] = printer
  /\ conn \in {None, printer}

ConnInv ==
  /\ kind \in [Requests -> {"printer", "settings"}]
  /\ up = "up" /\ ~adopted =>
       /\ \A r, q \in Telling \cup Dialing : r = q
       /\ \A r \in Telling :
            /\ \A h \in ToldAt(pc[r]) : holder[h] = doc[r]
            /\ kind[r] = "settings" => Agreed(doc[r]["printer"])
            /\ pc[r] = "renew" => conn \in {None, doc[r]["printer"]}
       /\ Telling = {} => Agreed(holder["web"]["printer"])

RestInv == up # "up" => \A r \in Requests : pc[r] \in {"idle", "done"}

ConfigInv == TypeInv /\ WriteInv /\ FileInv /\ RestInv /\ HandInv

-----------------------------------------------------------------------------
LEMMA HoldersAre ==
  /\ DOMAIN Holders = 1 .. 5 /\ Len(Holders) = 5
  /\ Holders[1] = "web" /\ Holders[2] = "ctx" /\ Holders[3] = "runner"
  /\ Holders[4] = "service" /\ Holders[5] = "link"
  /\ HolderSet = {"web", "ctx", "runner", "service", "link"}
<1>1. /\ DOMAIN Holders = 1 .. 5 /\ Len(Holders) = 5
      /\ Holders[1] = "web" /\ Holders[2] = "ctx" /\ Holders[3] = "runner"
      /\ Holders[4] = "service" /\ Holders[5] = "link"
  BY DEF Holders
<1>2. 1 .. 5 = {1, 2, 3, 4, 5}
  OBVIOUS
<1>3. QED
  BY <1>1, <1>2 DEF HolderSet

LEMMA NoContent ==
  /\ Missing \notin Content /\ Broken \notin Content /\ Half \notin Content
  /\ Missing # Broken /\ Missing # Half /\ Broken # Half
<1>1. DOMAIN Missing = {"missing"} /\ DOMAIN Broken = {"broken"} /\ DOMAIN Half = {"half"}
  BY DEF Missing, Broken, Half
<1>2. \A f \in Content : DOMAIN f = Sections
  BY DEF Content
<1>3. QED
  BY <1>1, <1>2 DEF Sections

LEMMA ConfigInit == Init => ConfigInv
<1> SUFFICES ASSUME Init PROVE ConfigInv
  OBVIOUS
<1>1. TypeInv
  BY HoldersAre DEF Init, TypeInv, TypeOK, Places
<1>2. WriteInv /\ RestInv /\ HandInv
  BY DEF Init, WriteInv, RestInv, HandInv
<1>3. FileInv
  BY NoContent DEF Init, FileInv, NothingLost, Parses
<1>4. QED
  BY <1>1, <1>2, <1>3 DEF ConfigInv

LEMMA HandingIs ==
  ASSUME TypeInv PROVE Handing = Telling \cup Dialing
BY HoldersAre DEF TypeInv, Handing, Telling, Dialing, Places

-----------------------------------------------------------------------------
(* The part of TypeOK about one request.                                   *)
TypesAt(r) ==
  /\ pc[r] \in {"write"} => doc[r] \in [base : Content, new : Content]
  /\ pc[r] \in HolderSet \cup {"drop", "renew"} => doc[r] \in Content
  /\ pc[r] \in {"probe", "read", "write"} => todo[r] # <<>>

(* A step of one request leaves the others where they are.                 *)
LEMMA TypeStep ==
  ASSUME TypeInv, NEW r \in Requests, TypesAt(r)', pc'[r] \in Places,
         pc' = [pc EXCEPT ![r] = pc'[r]],
         todo' \in [Requests -> Seq(Entry)], \A q \in Requests : q # r => todo'[q] = todo[q],
         DOMAIN doc' = Requests, \A q \in Requests : q # r => doc'[q] = doc[q],
         holder' \in [HolderSet -> Content \cup {Missing}],
         up' = "up" => file' # Half /\ \A h \in HolderSet : holder'[h] \in Content,
         file' \in Content \cup {Missing, Broken, Half}, wanted' \in Content \cup {Missing},
         conn' \in Values \cup {None}, up' \in {"down", "checked", "copying", "up"}
  PROVE  TypeInv'
<1>1. \A q \in Requests : q # r => TypesAt(q)'
  BY DEF TypeInv, TypeOK, TypesAt
<1>2. \A q \in Requests : TypesAt(q)'
  BY <1>1
<1>3. pc' \in [Requests -> Places]
  BY DEF TypeInv
<1>4. TypeOK'
  BY <1>2 DEF TypeOK, TypesAt
<1>5. QED
  BY <1>3, <1>4 DEF TypeInv

-----------------------------------------------------------------------------
(* Steps of a request that write nothing and hand nothing out.             *)
LEMMA AskStep ==
  ASSUME ConfigInv, NEW r \in Requests,
         PatchPrinter(r) \/ PatchSettings(r) \/ ProbeFast(r) \/ ProbeSlow(r)
  PROVE  ConfigInv'
<1>1. /\ up = "up" /\ UNCHANGED <<filev, holder, doc, up, behind>>
      /\ pc[r] \in {"idle", "probe"} /\ pc' = [pc EXCEPT ![r] = pc'[r]]
      /\ pc'[r] \in {"probe", "read", "done"}
  BY DEF PatchPrinter, PatchSettings, ProbeFast, ProbeSlow, At, Goto, memv, ConfigInv, TypeInv
<1>2. /\ todo' \in [Requests -> Seq(Entry)]
      /\ \A q \in Requests : q # r => todo'[q] = todo[q]
      /\ todo'[r] # <<>>
  <2>1. CASE PatchPrinter(r)
    <3>1. PICK v \in Values : todo' = [todo EXCEPT ![r] = <<<<"printer", v>>>>]
      BY <2>1 DEF PatchPrinter
    <3>2. <<"printer", v>> \in Entry
      BY DEF Entry, Sections
    <3>3. <<<<"printer", v>>>> \in Seq(Entry) /\ <<<<"printer", v>>>> # <<>>
      BY <3>2
    <3>4. QED
      BY <3>1, <3>3 DEF ConfigInv, TypeInv
  <2>2. CASE PatchSettings(r)
    <3>1. PICK p \in Values \cup {None}, s \in Values \cup {None, Bad} :
            /\ <<p, s>> # <<None, None>>
            /\ todo' = [todo EXCEPT ![r] =
                 (IF p = None THEN <<>> ELSE <<<<"print", p>>>>)
                   \o (IF s = None THEN <<>> ELSE <<<<"scheduler", s>>>>)]
      BY <2>2 DEF PatchSettings
    <3> DEFINE a == IF p = None THEN <<>> ELSE <<<<"print", p>>>>
               b == IF s = None THEN <<>> ELSE <<<<"scheduler", s>>>>
    <3>2. (p # None => <<"print", p>> \in Entry) /\ (s # None => <<"scheduler", s>> \in Entry)
      BY DEF Entry, Sections
    <3>3. a \in Seq(Entry) /\ b \in Seq(Entry) /\ (Len(a) > 0 \/ Len(b) > 0)
      BY <3>1, <3>2
    <3> HIDE DEF a, b
    <3>4. a \o b \in Seq(Entry) /\ Len(a \o b) > 0
      BY <3>3
    <3>5. todo' = [todo EXCEPT ![r] = a \o b]
      BY <3>1 DEF a, b
    <3>6. QED
      BY <3>4, <3>5 DEF ConfigInv, TypeInv
  <2>3. CASE ProbeFast(r) \/ ProbeSlow(r)
    BY <2>3 DEF ProbeFast, ProbeSlow, At, ConfigInv, TypeInv, TypeOK
  <2>4. QED
    BY <2>1, <2>2, <2>3
<1>3. conn' \in Values \cup {None}
  BY HoldersAre DEF PatchPrinter, PatchSettings, ProbeFast, ProbeSlow, memv, ConfigInv, TypeInv, TypeOK,
     At, Content, Sections
<1>4. TypeInv'
  <2>1. pc'[r] \in {"probe", "read", "done"} /\ todo'[r] # <<>>
    BY <1>1, <1>2
  <2>2. TypesAt(r)' /\ pc'[r] \in Places
    BY <2>1, HoldersAre DEF TypesAt, Places
  <2>3. QED
    BY <1>1, <1>2, <1>3, <2>2, TypeStep DEF ConfigInv, TypeInv, TypeOK, filev
<1>5. WriteInv' /\ FileInv' /\ RestInv'
  <2>1. WriteInv' /\ RestInv'
    BY <1>1, <1>2 DEF ConfigInv, TypeInv, WriteInv, RestInv, filev
  <2>2. FileInv'
    BY <1>1 DEF ConfigInv, FileInv, NothingLost, Parses, filev
  <2>3. QED
    BY <2>1, <2>2
<1>6. HandInv'
  <2>1. Telling' = Telling /\ Dialing' = Dialing /\ Waiting \subseteq Waiting'
    BY <1>1, HoldersAre DEF ConfigInv, TypeInv, Telling, Dialing, Waiting
  <2>2. \A q \in Telling : pc'[q] = pc[q]
    BY <1>1, HoldersAre DEF ConfigInv, TypeInv, Telling
  <2>3. QED
    BY <1>1, <2>1, <2>2 DEF ConfigInv, HandInv, filev
<1>7. QED
  BY <1>4, <1>5, <1>6 DEF ConfigInv

(* A 400, a 500, or a file that does not load.                             *)
LEMMA RefuseStep ==
  ASSUME ConfigInv, NEW r \in Requests, Refuse(r) \/ LoadFails(r) PROVE ConfigInv'
<1>1. /\ up = "up" /\ UNCHANGED <<filev, memv, todo, doc, up>>
      /\ pc[r] \in {"read", "load"} /\ pc' = [pc EXCEPT ![r] = "done"]
  BY DEF Refuse, LoadFails, At, Goto
<1>2. pc'[r] = "done" /\ \A q \in Requests : q # r => pc'[q] = pc[q]
  BY <1>1 DEF ConfigInv, TypeInv
<1>3. TypeInv'
  <2>1. TypesAt(r)' /\ pc'[r] \in Places
    BY <1>2, HoldersAre DEF TypesAt, Places
  <2>2. QED
    BY <1>1, <1>2, <2>1, TypeStep DEF ConfigInv, TypeInv, TypeOK, filev, memv
<1>4. WriteInv' /\ FileInv' /\ RestInv'
  BY <1>1, <1>2 DEF ConfigInv, WriteInv, FileInv, NothingLost, RestInv, filev
<1>5. HandInv'
  <2>1. Telling' = Telling /\ Dialing' = Dialing /\ \A q \in Telling : pc'[q] = pc[q]
    BY <1>1, <1>2, HoldersAre DEF Telling, Dialing
  <2>2. SUFFICES ASSUME behind' = {} PROVE HandInv'
    BY DEF HandInv
  <2>3. behind = {} /\ file = holder["web"] /\ Telling = {} /\ Dialing = {}
    BY <2>2, HandingIs DEF Refuse, LoadFails, ConfigInv
  <2>4. QED
    BY <1>1, <2>1, <2>3 DEF ConfigInv, HandInv, filev, memv
<1>6. QED
  BY <1>3, <1>4, <1>5 DEF ConfigInv

LEMMA TailOf ==
  ASSUME NEW s \in Seq(Entry), s # <<>>
  PROVE  Tail(s) \in Seq(Entry) /\ (Len(s) # 1 => Tail(s) # <<>>) /\ s[1] \in Entry
<1>1. Len(s) \in Nat /\ Len(s) # 0 /\ Tail(s) \in Seq(Entry) /\ Len(Tail(s)) = Len(s) - 1
  OBVIOUS
<1>2. Len(s) # 1 => Tail(s) # <<>>
  <2>1. ASSUME NEW t \in Seq(Entry), Len(t) # 0 PROVE t # <<>>
    BY <2>1
  <2>2. Len(s) # 1 => Len(Tail(s)) # 0
    BY <1>1
  <2>3. QED
    BY <1>1, <2>1, <2>2
<1>3. 1 \in 1 .. Len(s)
  BY <1>1
<1>4. QED
  BY <1>1, <1>2, <1>3

LEMMA ReadDocStep ==
  ASSUME ConfigInv, NEW r \in Requests, ReadDoc(r) PROVE ConfigInv'
<1> DEFINE new == [file EXCEPT ![todo[r][1][1]] = todo[r][1][2]]
<1>1. /\ up = "up" /\ UNCHANGED <<filev, memv, kind, up, behind>>
      /\ pc[r] = "read" /\ todo[r][1][2] # Bad /\ file \in Content
  BY DEF ReadDoc, At, Parses
<1>2. todo[r] \in Seq(Entry) /\ todo[r] # <<>> /\ todo[r][1] \in Entry
  BY <1>1, TailOf DEF ConfigInv, TypeInv, TypeOK
<1>3. todo[r][1] \in Sections \X Values
  BY <1>1, <1>2 DEF Entry
<1>4. \/ /\ todo' = [todo EXCEPT ![r] = Tail(@)] /\ doc' = doc
         /\ pc' = [pc EXCEPT ![r] = IF Len(todo[r]) = 1 THEN "load" ELSE "read"]
      \/ /\ doc' = [doc EXCEPT ![r] = [base |-> file, new |-> new]]
         /\ pc' = [pc EXCEPT ![r] = "write"] /\ todo' = todo
  BY DEF ReadDoc, Document, Goto
<1>5. /\ \A q \in Requests : q # r => pc'[q] = pc[q] /\ todo'[q] = todo[q] /\ doc'[q] = doc[q]
      /\ DOMAIN doc' = Requests /\ pc' = [pc EXCEPT ![r] = pc'[r]]
      /\ pc'[r] \in {"load", "read", "write"}
  BY <1>4 DEF ConfigInv, TypeInv
<1>6. /\ todo' \in [Requests -> Seq(Entry)]
      /\ pc'[r] \in {"read", "write"} => todo'[r] # <<>>
  BY <1>2, <1>4, TailOf DEF ConfigInv, TypeInv
<1>7. pc'[r] = "write" => todo'[r] = todo[r] /\ doc'[r] = [base |-> file, new |-> new]
  BY <1>4 DEF ConfigInv, TypeInv
<1>8. new \in Content
  BY <1>1, <1>3 DEF Content
<1> HIDE DEF new
<1>9. TypeInv'
  <2>1. TypesAt(r)' /\ pc'[r] \in Places
    BY <1>1, <1>5, <1>6, <1>7, <1>8, HoldersAre DEF TypesAt, Places
  <2>2. QED
    BY <1>1, <1>5, <1>6, <2>1, TypeStep DEF ConfigInv, TypeInv, TypeOK, filev, memv
<1>10. WriteInv'
  BY <1>3, <1>5, <1>7 DEF ConfigInv, WriteInv, new
<1>11. FileInv' /\ RestInv'
  BY <1>1 DEF ConfigInv, FileInv, NothingLost, RestInv, filev
<1>12. HandInv'
  <2>1. Telling' = Telling /\ Dialing' = Dialing /\ r \notin Telling /\ r \in Waiting'
    BY <1>1, <1>5, HoldersAre DEF Telling, Dialing, Waiting
  <2>2. \A q \in Telling : pc'[q] = pc[q] /\ doc'[q] = doc[q]
    BY <1>5, <2>1 DEF Telling
  <2>3. QED
    BY <1>1, <2>1, <2>2 DEF ConfigInv, HandInv, filev, memv
<1>13. QED
  BY <1>9, <1>10, <1>11, <1>12 DEF ConfigInv

LEMMA WriteStep ==
  ASSUME ConfigInv, NEW r \in Requests, Write(r) PROVE ConfigInv'
<1>1. /\ up = "up" /\ UNCHANGED <<memv, kind, up, behind>> /\ pc[r] = "write"
      /\ file' = doc[r].new
      /\ wanted' = [wanted EXCEPT ![todo[r][1][1]] = todo[r][1][2]]
      /\ raced' = (raced \/ file # doc[r].base)
      /\ todo' = [todo EXCEPT ![r] = Tail(@)]
      /\ doc' = [doc EXCEPT ![r] = None]
      /\ pc' = [pc EXCEPT ![r] = IF Len(todo[r]) = 1 THEN "load" ELSE "read"]
  BY DEF Write, At, Goto
<1>2. /\ \A q \in Requests : q # r => pc'[q] = pc[q] /\ todo'[q] = todo[q] /\ doc'[q] = doc[q]
      /\ DOMAIN doc' = Requests /\ pc' = [pc EXCEPT ![r] = pc'[r]]
      /\ pc'[r] = IF Len(todo[r]) = 1 THEN "load" ELSE "read"
  BY <1>1 DEF ConfigInv, TypeInv
<1>3. todo[r] \in Seq(Entry) /\ todo[r] # <<>>
  BY <1>1 DEF ConfigInv, TypeInv, TypeOK
<1>4. todo' \in [Requests -> Seq(Entry)] /\ (pc'[r] = "read" => todo'[r] # <<>>)
  BY <1>1, <1>2, <1>3, TailOf DEF ConfigInv, TypeInv
<1>5. /\ doc[r].base \in Content /\ doc[r].new \in Content
      /\ todo[r][1] \in Sections \X Values
      /\ doc[r].new = [doc[r].base EXCEPT ![todo[r][1][1]] = todo[r][1][2]]
  BY <1>1 DEF ConfigInv, TypeInv, TypeOK, WriteInv
<1>6. wanted \in Content
  BY <1>1 DEF ConfigInv, FileInv, TypeInv, TypeOK
<1>7. wanted' \in Content
  BY <1>1, <1>5, <1>6 DEF Content
<1>8. TypeInv'
  <2>1. TypesAt(r)' /\ pc'[r] \in Places
    BY <1>2, <1>4, HoldersAre DEF TypesAt, Places
  <2>2. QED
    BY <1>1, <1>2, <1>4, <1>5, <1>7, <2>1, TypeStep, NoContent DEF ConfigInv, TypeInv, TypeOK, memv
<1>9. WriteInv' /\ RestInv'
  BY <1>1, <1>2 DEF ConfigInv, WriteInv, RestInv
<1>10. FileInv'
  <2>1. file' \notin {Missing, Half} /\ wanted' # Missing
    BY <1>1, <1>5, <1>7, NoContent
  <2>2. ~raced' => file' = wanted'
    <3>1. SUFFICES ASSUME ~raced' PROVE file' = wanted'
      OBVIOUS
    <3>2. file = doc[r].base /\ ~raced
      BY <1>1, <3>1
    <3>3. doc[r].base = wanted
      BY <3>2, <1>5 DEF ConfigInv, FileInv, NothingLost, Parses
    <3>4. QED
      BY <1>1, <1>5, <3>3
  <2>3. QED
    BY <1>1, <2>1, <2>2 DEF FileInv, NothingLost, Parses
<1>11. HandInv'
  <2>1. Telling' = Telling /\ Dialing' = Dialing /\ r \notin Telling /\ r \in Waiting'
    BY <1>1, <1>2, HoldersAre DEF Telling, Dialing, Waiting
  <2>2. \A q \in Telling : pc'[q] = pc[q] /\ doc'[q] = doc[q]
    BY <1>2, <2>1 DEF Telling
  <2>3. QED
    BY <1>1, <2>1, <2>2 DEF ConfigInv, HandInv, memv
<1>12. QED
  BY <1>8, <1>9, <1>10, <1>11 DEF ConfigInv

-----------------------------------------------------------------------------
LEMMA LoadStep ==
  ASSUME ConfigInv, NEW r \in Requests, Load(r) PROVE ConfigInv'
<1>1. /\ up = "up" /\ UNCHANGED <<filev, holder, jobs, conn, todo, kind, up>>
      /\ pc[r] = "load" /\ file \in Content
      /\ doc' = [doc EXCEPT ![r] = file] /\ pc' = [pc EXCEPT ![r] = "web"]
      /\ behind' = IF Handing = {} THEN {} ELSE {"crossed"}
  BY HoldersAre DEF Load, At, Goto, Loads
<1>2. /\ \A q \in Requests : q # r => pc'[q] = pc[q] /\ doc'[q] = doc[q]
      /\ DOMAIN doc' = Requests /\ pc'[r] = "web" /\ doc'[r] = file
  BY <1>1 DEF ConfigInv, TypeInv
<1>3. TypeInv'
  <2>1. TypesAt(r)' /\ pc'[r] \in Places
    BY <1>1, <1>2, HoldersAre DEF TypesAt, Places
  <2>2. QED
    BY <1>1, <1>2, <2>1, TypeStep DEF ConfigInv, TypeInv, TypeOK, filev
<1>4. WriteInv' /\ FileInv' /\ RestInv'
  BY <1>1, <1>2 DEF ConfigInv, WriteInv, FileInv, NothingLost, RestInv, filev
<1>5. HandInv'
  <2>1. SUFFICES ASSUME behind' = {} PROVE HandInv'
    BY DEF HandInv
  <2>2. Telling = {} /\ Dialing = {}
    BY <1>1, <2>1, HandingIs DEF ConfigInv
  <2>3. Telling' = {r} /\ Dialing' = {}
    BY <1>2, <2>2, HoldersAre DEF Telling, Dialing
  <2>4. ToldAt("web") = {}
    BY DEF ToldAt
  <2>5. QED
    BY <1>1, <1>2, <2>3, <2>4 DEF HandInv, filev
<1>6. QED
  BY <1>3, <1>4, <1>5 DEF ConfigInv

(* One more holder is told.                                                *)
LEMMA TellStep ==
  ASSUME ConfigInv, NEW r \in Requests, Tell(r) PROVE ConfigInv'
<1>1. PICK i \in 1 .. 5 :
        /\ up = "up" /\ UNCHANGED <<filev, jobs, conn, todo, kind, up, behind>>
        /\ pc[r] = Holders[i]
        /\ holder' = [h \in HolderSet |-> IF h = Holders[i] THEN doc[r] ELSE holder[h]]
        /\ \/ i < 5 /\ pc' = [pc EXCEPT ![r] = Holders[i + 1]] /\ doc' = doc
           \/ i = 5 /\ kind[r] = "printer" /\ pc' = [pc EXCEPT ![r] = "drop"] /\ doc' = doc
           \/ /\ i = 5 /\ kind[r] # "printer"
              /\ pc' = [pc EXCEPT ![r] = "done"] /\ doc' = [doc EXCEPT ![r] = None]
  BY HoldersAre DEF Tell, At, Goto, Tells
<1> DEFINE next == IF i < 5 THEN Holders[i + 1] ELSE IF kind[r] = "printer" THEN "drop" ELSE "done"
<1>2. Holders[i] \in HolderSet /\ next \in HolderSet \cup {"drop", "done"}
  BY HoldersAre
<1>3. /\ pc' = [pc EXCEPT ![r] = next] /\ pc'[r] = next
      /\ \A q \in Requests : q # r => pc'[q] = pc[q] /\ doc'[q] = doc[q]
      /\ DOMAIN doc' = Requests
      /\ next # "done" => doc'[r] = doc[r]
  <2>1. pc' = [pc EXCEPT ![r] = next]
    BY <1>1
  <2>2. doc' = doc \/ (next = "done" /\ doc' = [doc EXCEPT ![r] = None])
    BY <1>1
  <2>3. QED
    BY <2>1, <2>2 DEF ConfigInv, TypeInv
<1>4. doc[r] \in Content /\ r \in Telling
  BY <1>1, <1>2 DEF ConfigInv, TypeInv, TypeOK, Telling
<1>5. TypeInv'
  <2>1. TypesAt(r)' /\ pc'[r] \in Places
    BY <1>2, <1>3, <1>4, HoldersAre DEF TypesAt, Places
  <2>2. /\ holder' \in [HolderSet -> Content \cup {Missing}]
        /\ \A h \in HolderSet : holder'[h] \in Content
    BY <1>1, <1>4 DEF ConfigInv, TypeInv, TypeOK
  <2>3. QED
    BY <1>1, <1>3, <2>1, <2>2, TypeStep DEF ConfigInv, TypeInv, TypeOK, filev
<1>6. WriteInv' /\ FileInv' /\ RestInv'
  <2>1. next # "write"
    BY <1>2, HoldersAre
  <2>2. QED
    BY <1>1, <1>3, <2>1 DEF ConfigInv, WriteInv, FileInv, NothingLost, RestInv, filev
<1>7. HandInv'
  <2>1. SUFFICES ASSUME behind = {} PROVE HandInv'
    BY <1>1 DEF HandInv
  <2>2. /\ Telling = {r} /\ Dialing = {}
        /\ \A h \in ToldAt(pc[r]) : holder[h] = doc[r]
        /\ doc[r] = file \/ Waiting # {}
    BY <1>1, <1>4, <2>1, HoldersAre DEF ConfigInv, HandInv, Telling, Dialing
  <2>3. /\ Holders[i] \in HolderSet /\ ToldAt(Holders[i]) \subseteq HolderSet
        /\ next # "done" => ToldAt(next) = ToldAt(Holders[i]) \cup {Holders[i]}
        /\ next = "done" => HolderSet = ToldAt(Holders[i]) \cup {Holders[i]}
    BY HoldersAre DEF ToldAt
  <2>4. \A h \in ToldAt(Holders[i]) \cup {Holders[i]} : holder'[h] = doc[r]
    BY <1>1, <2>2, <2>3
  <2>5. Waiting' = Waiting /\ Dialing' = {}
    BY <1>1, <1>2, <1>3, <2>2, HoldersAre DEF Waiting, Dialing
  <2>6. CASE next = "done"
    <3>1. Telling' = {}
      BY <1>3, <2>2, <2>6, HoldersAre DEF Telling
    <3>2. QED
      BY <1>1, <2>2, <2>3, <2>4, <2>5, <2>6, <3>1, HoldersAre DEF HandInv, filev
  <2>7. CASE next # "done"
    <3>1. Telling' = {r} /\ doc'[r] = doc[r]
      BY <1>2, <1>3, <2>2, <2>7, HoldersAre DEF Telling
    <3>2. QED
      BY <1>1, <1>3, <2>2, <2>3, <2>4, <2>5, <2>7, <3>1 DEF HandInv, filev
  <2>8. QED
    BY <2>6, <2>7
<1>8. QED
  BY <1>5, <1>6, <1>7 DEF ConfigInv

LEMMA ReconfigureStep ==
  ASSUME ConfigInv, NEW r \in Requests,
         ReconfigureDrop(r) \/ ReconfigureRenew(r) \/ ReconfigureDial(r)
  PROVE  ConfigInv'
<1>1. /\ up = "up" /\ UNCHANGED <<filev, todo, up, behind>>
      /\ \/ pc[r] = "drop" /\ pc' = [pc EXCEPT ![r] = "renew"] /\ UNCHANGED <<holder, doc>>
         \/ /\ pc[r] = "renew" /\ pc' = [pc EXCEPT ![r] = "dial"]
            /\ holder' = [holder EXCEPT !["link"] = doc[r]] /\ doc' = [doc EXCEPT ![r] = None]
         \/ pc[r] = "dial" /\ pc' = [pc EXCEPT ![r] = "done"] /\ UNCHANGED <<holder, doc>>
  BY DEF ReconfigureDrop, ReconfigureRenew, ReconfigureDial, At, Goto
<1>2. /\ \A q \in Requests : q # r => pc'[q] = pc[q] /\ doc'[q] = doc[q]
      /\ DOMAIN doc' = Requests /\ pc' = [pc EXCEPT ![r] = pc'[r]]
      /\ pc'[r] \in {"renew", "dial", "done"}
      /\ pc'[r] = "renew" => pc[r] = "drop" /\ doc'[r] = doc[r]
  BY <1>1 DEF ConfigInv, TypeInv
<1>3. pc[r] \in {"drop", "renew"} => doc[r] \in Content
  BY DEF ConfigInv, TypeInv, TypeOK
<1>4. /\ holder' \in [HolderSet -> Content \cup {Missing}]
      /\ \A h \in HolderSet : holder'[h] \in Content
  BY <1>1, <1>3 DEF ConfigInv, TypeInv, TypeOK
<1>5. conn' \in Values \cup {None}
  <2>1. holder["link"] \in Content
    BY <1>1, HoldersAre DEF ConfigInv, TypeInv, TypeOK
  <2>2. holder["link"]["printer"] \in Values
    BY <2>1 DEF Content, Sections
  <2>3. QED
    BY <2>2 DEF ReconfigureDrop, ReconfigureRenew, ReconfigureDial, ConfigInv, TypeInv, TypeOK
<1>6. TypeInv'
  <2>1. TypesAt(r)' /\ pc'[r] \in Places
    BY <1>2, <1>3, HoldersAre DEF TypesAt, Places
  <2>2. QED
    BY <1>1, <1>2, <1>4, <1>5, <2>1, TypeStep DEF ConfigInv, TypeInv, TypeOK, filev
<1>7. WriteInv' /\ FileInv' /\ RestInv'
  BY <1>1, <1>2 DEF ConfigInv, WriteInv, FileInv, NothingLost, RestInv, filev
<1>8. HandInv'
  <2>1. SUFFICES ASSUME behind = {} PROVE HandInv'
    BY <1>1 DEF HandInv
  <2>2. Waiting' = Waiting
    BY <1>1, <1>2 DEF Waiting
  <2>3. \A place \in {"drop", "renew"} : ToldAt(place) = HolderSet
    BY HoldersAre DEF ToldAt
  <2>4. r \in Telling \cup Dialing
    BY <1>1 DEF Telling, Dialing
  <2>5. \A q \in Telling \cup Dialing : q = r
    BY <1>1, <2>1, <2>4 DEF ConfigInv, HandInv
  <2>6. \A q \in Requests : q # r => q \notin Telling' \cup Dialing'
    BY <1>2, <2>5 DEF Telling, Dialing
  <2>7. CASE pc[r] = "drop"
    <3>1. pc'[r] = "renew" /\ doc'[r] = doc[r] /\ holder' = holder
      BY <1>1, <2>7 DEF ConfigInv, TypeInv
    <3>2. r \in Telling /\ Telling' = {r} /\ Dialing' = {}
      BY <2>6, <2>7, <3>1 DEF Telling, Dialing
    <3>3. (\A h \in HolderSet : holder[h] = doc[r]) /\ (doc[r] = file \/ Waiting # {})
      BY <1>1, <2>1, <2>3, <2>7, <3>2 DEF ConfigInv, HandInv
    <3>4. QED
      BY <1>1, <2>2, <2>3, <3>1, <3>2, <3>3 DEF HandInv, filev
  <2>8. CASE pc[r] = "renew"
    <3>1. pc'[r] = "dial" /\ \A h \in HolderSet : holder'[h] = IF h = "link" THEN doc[r] ELSE holder[h]
      BY <1>1, <2>8 DEF ConfigInv, TypeInv
    <3>2. r \in Telling /\ Telling' = {} /\ Dialing' = {r}
      BY <2>6, <2>8, <3>1, HoldersAre DEF Telling, Dialing
    <3>3. (\A h \in HolderSet : holder[h] = doc[r]) /\ (doc[r] = file \/ Waiting # {})
      BY <1>1, <2>1, <2>3, <2>8, <3>2 DEF ConfigInv, HandInv
    <3>4. \A h \in HolderSet : holder'[h] = doc[r]
      BY <3>1, <3>3
    <3>5. QED
      BY <1>1, <2>2, <3>2, <3>3, <3>4, HoldersAre DEF HandInv, filev
  <2>9. CASE pc[r] = "dial"
    <3>1. pc'[r] = "done" /\ holder' = holder
      BY <1>1, <2>9 DEF ConfigInv, TypeInv
    <3>2. Telling = {} /\ Telling' = {} /\ Dialing' = {}
      BY <2>5, <2>6, <2>9, <3>1, HoldersAre DEF Telling, Dialing
    <3>3. QED
      BY <1>1, <2>1, <2>2, <3>1, <3>2 DEF ConfigInv, HandInv, filev
  <2>10. QED
    BY <1>1, <2>7, <2>8, <2>9
<1>9. QED
  BY <1>6, <1>7, <1>8 DEF ConfigInv

-----------------------------------------------------------------------------
(* The connection comes and goes.                                          *)
LEMMA ConnectionStep ==
  ASSUME ConfigInv, Lose \/ Watch PROVE ConfigInv'
<1>1. /\ up = "up" /\ UNCHANGED <<filev, holder, reqv, up, behind>>
      /\ conn' = None \/ conn' = holder["link"]["printer"]
  BY DEF Lose, Watch
<1>2. conn' \in Values \cup {None}
  <2>1. holder["link"] \in Content
    BY <1>1, HoldersAre DEF ConfigInv, TypeInv, TypeOK
  <2>2. QED
    BY <1>1, <2>1 DEF Content, Sections
<1>3. TypeInv'
  BY <1>1, <1>2 DEF ConfigInv, TypeInv, TypeOK, filev, reqv
<1>4. WriteInv' /\ FileInv' /\ RestInv' /\ HandInv'
  BY <1>1 DEF ConfigInv, WriteInv, FileInv, NothingLost, RestInv, HandInv, Telling, Dialing, Waiting,
              filev, reqv
<1>5. QED
  BY <1>3, <1>4 DEF ConfigInv

LEMMA EditStep ==
  ASSUME ConfigInv, EditByHand PROVE ConfigInv'
<1>1. /\ UNCHANGED <<memv, reqv, up>> /\ behind' # {}
      /\ raced' = (raced \/ up \in {"checked", "copying"})
  BY DEF EditByHand
<1>2. /\ file' \in Content \cup {Broken} /\ wanted' \in Content \cup {Missing}
      /\ file' \in Content => wanted' = file'
      /\ file' = Broken => wanted' = wanted /\ file \in Content
  <2>1. CASE /\ \E s \in Sections, v \in Values :
                  file' = IF Parses(file) THEN [file EXCEPT ![s] = v] ELSE [x \in Sections |-> v]
             /\ wanted' = file'
    <3>1. file' \in Content
      BY <2>1 DEF Parses, Content
    <3>2. QED
      BY <2>1, <3>1, NoContent
  <2>2. CASE Parses(file) /\ file' = Broken /\ UNCHANGED wanted
    BY <2>2, NoContent DEF Parses, ConfigInv, TypeInv, TypeOK
  <2>3. QED
    BY <2>1, <2>2 DEF EditByHand
<1>3. TypeInv'
  BY <1>1, <1>2, NoContent DEF ConfigInv, TypeInv, TypeOK, memv, reqv
<1>4. WriteInv' /\ RestInv' /\ HandInv'
  BY <1>1 DEF ConfigInv, WriteInv, RestInv, HandInv, reqv
<1>5. FileInv'
  <2>1. file' \notin {Missing, Half} /\ wanted' # Missing
    BY <1>2, NoContent DEF ConfigInv, FileInv
  <2>2. ~(up' \in {"checked", "copying"} /\ ~raced')
    BY <1>1
  <2>3. NothingLost'
    BY <1>2, NoContent DEF NothingLost, Parses
  <2>4. QED
    BY <2>1, <2>2, <2>3 DEF FileInv
<1>6. QED
  BY <1>3, <1>4, <1>5 DEF ConfigInv

LEMMA DaemonStep ==
  ASSUME ConfigInv, EnsureCheck \/ EnsureOpen \/ EnsureCopy \/ Start \/ Crash PROVE ConfigInv'
<1>1. CASE EnsureCheck
  <2>1. /\ UNCHANGED <<filev, memv, reqv, behind>> /\ up' = "checked" /\ file = Missing /\ up = "down"
    BY <1>1 DEF EnsureCheck, NoFile
  <2>2. QED
    BY <2>1 DEF ConfigInv, TypeInv, TypeOK, WriteInv, FileInv, NothingLost, RestInv, HandInv,
                filev, memv, reqv
<1>6. CASE EnsureOpen
  <2>1. /\ UNCHANGED <<wanted, raced, memv, reqv, behind>> /\ up = "checked" /\ up' = "copying"
        /\ file' = Half
    BY <1>6 DEF EnsureOpen
  <2>2. TypeInv'
    BY <2>1 DEF ConfigInv, TypeInv, TypeOK, memv, reqv
  <2>3. FileInv'
    BY <2>1, NoContent DEF ConfigInv, FileInv, NothingLost, Parses
  <2>4. WriteInv' /\ RestInv' /\ HandInv'
    BY <2>1 DEF ConfigInv, WriteInv, RestInv, HandInv, reqv
  <2>5. QED
    BY <2>2, <2>3, <2>4 DEF ConfigInv
<1>2. CASE EnsureCopy
  <2>1. /\ UNCHANGED <<raced, memv, reqv, behind>> /\ up = "copying" /\ up' = "down"
        /\ file' = [s \in Sections |-> Template]
        /\ wanted' = IF wanted = Missing THEN file' ELSE wanted
    BY <1>2 DEF EnsureCopy
  <2>2. file' \in Content
    BY <2>1, ConfigAssumption DEF Content
  <2>3. TypeInv'
    BY <2>1, <2>2 DEF ConfigInv, TypeInv, TypeOK, memv, reqv
  <2>4. FileInv'
    <3>1. file' # Missing /\ wanted' # Missing
      BY <2>1, <2>2, NoContent
    <3>2. ~raced' => wanted' = file'
      BY <2>1, NoContent DEF ConfigInv, FileInv, NothingLost
    <3>3. QED
      BY <2>1, <2>2, <3>1, <3>2, NoContent DEF FileInv, NothingLost
  <2>5. WriteInv' /\ RestInv' /\ HandInv'
    BY <2>1 DEF ConfigInv, WriteInv, RestInv, HandInv, reqv
  <2>6. QED
    BY <2>3, <2>4, <2>5 DEF ConfigInv
<1>3. CASE Start
  <2>1. /\ UNCHANGED <<filev, reqv>> /\ up = "down" /\ up' = "up" /\ file \in Content
        /\ holder' = [h \in HolderSet |-> file] /\ conn' \in {None, file["printer"]}
    BY <1>3 DEF Start, Loads
  <2>2. conn' \in Values \cup {None}
    BY <2>1 DEF Content, Sections
  <2>3. TypeInv'
    BY <2>1, <2>2, NoContent DEF ConfigInv, TypeInv, TypeOK, filev, reqv
  <2>4. Telling' = {} /\ Dialing' = {}
    BY <2>1, HoldersAre DEF ConfigInv, RestInv, Telling, Dialing, reqv
  <2>5. HandInv'
    BY <2>1, <2>4, HoldersAre DEF HandInv, filev
  <2>6. WriteInv' /\ RestInv' /\ FileInv'
    BY <2>1, NoContent DEF ConfigInv, WriteInv, RestInv, FileInv, NothingLost, filev, reqv
  <2>7. QED
    BY <2>3, <2>5, <2>6 DEF ConfigInv
<1>4. CASE Crash
  <2>1. /\ UNCHANGED <<filev, holder>> /\ up # "down" /\ up' = "down" /\ conn' = None
        /\ pc' = [r \in Requests |-> "done"] /\ todo' = [r \in Requests |-> <<>>]
        /\ doc' = [r \in Requests |-> None]
    BY <1>4 DEF Crash
  <2>2. \A r \in Requests : pc'[r] = "done"
    BY <2>1
  <2>3. TypeInv'
    BY <2>1, <2>2, HoldersAre DEF ConfigInv, TypeInv, TypeOK, Places, filev
  <2>4. WriteInv' /\ RestInv' /\ HandInv' /\ FileInv'
    BY <2>1, <2>2 DEF ConfigInv, WriteInv, RestInv, HandInv, FileInv, NothingLost, filev
  <2>5. QED
    BY <2>3, <2>4 DEF ConfigInv
<1>5. QED
  BY <1>1, <1>2, <1>3, <1>4, <1>6

LEMMA ConfigStep == ConfigInv /\ [Next]_vars => ConfigInv'
<1> SUFFICES ASSUME ConfigInv, [Next]_vars PROVE ConfigInv'
  OBVIOUS
<1>1. ASSUME NEW r \in Requests, Step(r) PROVE ConfigInv'
  BY <1>1, AskStep, RefuseStep, ReadDocStep, WriteStep, LoadStep, TellStep, ReconfigureStep DEF Step
<1>2. CASE Lose \/ Watch
  BY <1>2, ConnectionStep
<1>3. CASE EditByHand
  BY <1>3, EditStep
<1>4. CASE EnsureCheck \/ EnsureOpen \/ EnsureCopy \/ Start \/ Crash
  BY <1>4, DaemonStep
<1>5. CASE UNCHANGED vars
  <2>1. TypeInv' /\ WriteInv' /\ FileInv' /\ RestInv'
    BY <1>5 DEF vars, filev, memv, reqv, ConfigInv, TypeInv, TypeOK, WriteInv, FileInv, NothingLost,
                RestInv
  <2>2. HandInv'
    BY <1>5 DEF vars, filev, memv, reqv, ConfigInv, HandInv, Telling, Dialing, Waiting
  <2>3. QED
    BY <2>1, <2>2 DEF ConfigInv
<1>6. QED
  BY <1>1, <1>2, <1>3, <1>4, <1>5 DEF Next

-----------------------------------------------------------------------------
(* The same steps and the connection.                                      *)
LEMMA ConnInit == Init => ConnInv
BY DEF Init, ConnInv

LEMMA ConnKept ==
  ASSUME ConnInv, up' = up, adopted' = adopted, holder' = holder,
         Telling' = Telling, Dialing' = Dialing,
         \A q \in Telling : pc'[q] = pc[q] /\ doc'[q] = doc[q] /\ kind'[q] = kind[q],
         conn' \in {None, conn, holder["link"]["printer"]},
         kind' \in [Requests -> {"printer", "settings"}]
  PROVE  ConnInv'
<1>1. "link" \in ToldAt("renew")
  BY DEF ToldAt
<1>2. QED
  BY <1>1 DEF ConnInv, Agreed

LEMMA ConnAsk ==
  ASSUME ConfigInv, ConnInv, NEW r \in Requests,
         \/ PatchPrinter(r) \/ PatchSettings(r) \/ ProbeFast(r) \/ ProbeSlow(r)
         \/ Refuse(r) \/ LoadFails(r) \/ ReadDoc(r) \/ Write(r)
  PROVE  ConnInv'
<1>1. /\ UNCHANGED <<up, holder, adopted>> /\ conn' \in {None, conn, holder["link"]["printer"]}
      /\ pc[r] \in {"idle", "probe", "read", "write", "load"}
  BY DEF PatchPrinter, PatchSettings, ProbeFast, ProbeSlow, Refuse, LoadFails, ReadDoc, Write, memv, At
<1>2. PICK p \in {"probe", "read", "write", "load", "done"} : pc' = [pc EXCEPT ![r] = p]
  BY DEF PatchPrinter, PatchSettings, ProbeFast, ProbeSlow, Refuse, LoadFails, ReadDoc, Write, Goto
<1>3. \A q \in Requests : q # r => doc'[q] = doc[q]
  <2>1. doc' = doc \/ \E d : doc' = [doc EXCEPT ![r] = d]
    BY DEF PatchPrinter, PatchSettings, ProbeFast, ProbeSlow, Refuse, LoadFails, ReadDoc, Write
  <2>2. QED
    BY <2>1 DEF ConfigInv, TypeInv
<1>4. /\ kind' \in [Requests -> {"printer", "settings"}]
      /\ \A q \in Requests : q # r => kind'[q] = kind[q]
  <2>1. kind' = kind \/ \E k \in {"printer", "settings"} : kind' = [kind EXCEPT ![r] = k]
    BY DEF PatchPrinter, PatchSettings, ProbeFast, ProbeSlow, Refuse, LoadFails, ReadDoc, Write
  <2>2. QED
    BY <2>1 DEF ConnInv
<1>5. /\ Telling' = Telling /\ Dialing' = Dialing /\ r \notin Telling
      /\ \A q \in Telling : pc'[q] = pc[q]
  BY <1>1, <1>2, HoldersAre DEF ConfigInv, TypeInv, Telling, Dialing
<1>6. \A q \in Telling : pc'[q] = pc[q] /\ doc'[q] = doc[q] /\ kind'[q] = kind[q]
  BY <1>3, <1>4, <1>5 DEF Telling
<1>7. QED
  BY <1>1, <1>4, <1>5, <1>6, ConnKept

LEMMA ConnLoad ==
  ASSUME ConfigInv, ConnInv, NEW r \in Requests, Load(r) PROVE ConnInv'
<1>1. SUFFICES ASSUME ~adopted' PROVE ConnInv'
  BY DEF ConnInv, Load
<1>2. /\ up = "up" /\ UNCHANGED <<file, holder, conn, kind, up>>
      /\ pc[r] = "load" /\ pc' = [pc EXCEPT ![r] = "web"]
      /\ doc' = [doc EXCEPT ![r] = file]
      /\ ~adopted /\ Handing = {}
      /\ kind[r] = "settings" => file["printer"] = holder["web"]["printer"]
  BY <1>1, HoldersAre DEF Load, At, Goto, filev
<1>3. Telling = {} /\ Dialing = {}
  BY <1>2, HandingIs DEF ConfigInv
<1>4. /\ Telling' = {r} /\ Dialing' = {} /\ pc'[r] = "web" /\ doc'[r] = file
  BY <1>2, <1>3, HoldersAre DEF ConfigInv, TypeInv, Telling, Dialing
<1>5. ToldAt("web") = {}
  BY DEF ToldAt
<1>6. Agreed(holder["web"]["printer"])
  BY <1>2, <1>3 DEF ConnInv
<1>7. "web" \in HolderSet
  BY HoldersAre
<1>8. kind[r] = "settings" => Agreed(file["printer"])'
  BY <1>2, <1>6 DEF Agreed
<1>9. QED
  BY <1>2, <1>4, <1>5, <1>7, <1>8 DEF ConnInv, Agreed

LEMMA ConnTell ==
  ASSUME ConfigInv, ConnInv, NEW r \in Requests, Tell(r) PROVE ConnInv'
<1>1. SUFFICES ASSUME ~adopted PROVE ConnInv'
  BY DEF ConnInv, Tell
<1>2. PICK i \in 1 .. 5 :
        /\ up = "up" /\ UNCHANGED <<conn, kind, up, adopted>> /\ pc[r] = Holders[i]
        /\ holder' = [h \in HolderSet |-> IF h = Holders[i] THEN doc[r] ELSE holder[h]]
        /\ \/ i < 5 /\ pc' = [pc EXCEPT ![r] = Holders[i + 1]] /\ doc' = doc
           \/ i = 5 /\ kind[r] = "printer" /\ pc' = [pc EXCEPT ![r] = "drop"] /\ doc' = doc
           \/ /\ i = 5 /\ kind[r] # "printer"
              /\ pc' = [pc EXCEPT ![r] = "done"] /\ doc' = [doc EXCEPT ![r] = None]
  BY HoldersAre DEF Tell, At, Goto, Tells
<1>3. r \in Telling
  BY <1>2, HoldersAre DEF Telling
<1>4. /\ Telling = {r} /\ Dialing = {}
      /\ \A h \in ToldAt(Holders[i]) : holder[h] = doc[r]
      /\ kind[r] = "settings" => Agreed(doc[r]["printer"])
  BY <1>1, <1>2, <1>3, HoldersAre DEF ConnInv, Telling, Dialing
<1>5. \A h \in ToldAt(Holders[i]) \cup {Holders[i]} : holder'[h] = doc[r]
  BY <1>2, <1>4, HoldersAre DEF ToldAt
<1>6. kind[r] = "settings" =>
        /\ holder'["web"]["printer"] = doc[r]["printer"]
        /\ holder'["link"]["printer"] = doc[r]["printer"]
        /\ conn' \in {None, doc[r]["printer"]}
  BY <1>2, <1>4, HoldersAre DEF Agreed
<1>7. i < 5 \/ i = 5
  OBVIOUS
<1>8. CASE pc' = [pc EXCEPT ![r] = "done"]
  <2>1. Telling' = {} /\ Dialing' = {}
    BY <1>4, <1>8, HoldersAre DEF ConfigInv, TypeInv, Telling, Dialing
  <2>2. i = 5 /\ kind[r] = "settings"
    BY <1>2, <1>8, HoldersAre DEF ConfigInv, TypeInv, ConnInv
  <2>3. HolderSet = ToldAt(Holders[i]) \cup {Holders[i]}
    BY <2>2, HoldersAre DEF ToldAt
  <2>4. holder'["web"] = doc[r]
    BY <1>5, <2>3, HoldersAre
  <2>5. QED
    BY <1>2, <1>6, <2>1, <2>2, <2>4 DEF ConnInv, Agreed
<1>9. ASSUME NEW next \in HolderSet \cup {"drop"}, pc' = [pc EXCEPT ![r] = next], doc' = doc,
             ToldAt(next) = ToldAt(Holders[i]) \cup {Holders[i]}
      PROVE  ConnInv'
  <2>1. Telling' = {r} /\ Dialing' = {} /\ pc'[r] = next /\ next # "renew"
    BY <1>4, <1>9, HoldersAre DEF ConfigInv, TypeInv, Telling, Dialing
  <2>2. QED
    BY <1>2, <1>5, <1>6, <1>9, <2>1 DEF ConnInv, Agreed
<1>10. /\ \A j \in 1 .. 4 : ToldAt(Holders[j + 1]) = ToldAt(Holders[j]) \cup {Holders[j]}
       /\ ToldAt("drop") = ToldAt(Holders[5]) \cup {Holders[5]}
       /\ \A j \in 1 .. 4 : Holders[j + 1] \in HolderSet
  BY HoldersAre DEF ToldAt
<1>11. QED
  BY <1>2, <1>8, <1>9, <1>10

LEMMA ConnReconfigure ==
  ASSUME ConfigInv, ConnInv, NEW r \in Requests,
         ReconfigureDrop(r) \/ ReconfigureRenew(r) \/ ReconfigureDial(r)
  PROVE  ConnInv'
<1>1. UNCHANGED <<up, kind>> /\ up = "up"
  BY DEF ReconfigureDrop, ReconfigureRenew, ReconfigureDial, At
<1>2. SUFFICES ASSUME ~adopted' PROVE ConnInv'
  BY <1>1 DEF ConnInv
<1>3. \A place \in {"drop", "renew"} : ToldAt(place) = HolderSet
  BY HoldersAre DEF ToldAt
<1>4. CASE ReconfigureDrop(r)
  <2>1. /\ pc[r] = "drop" /\ pc' = [pc EXCEPT ![r] = "renew"] /\ conn' = None
        /\ UNCHANGED <<holder, doc, adopted>>
    BY <1>4 DEF ReconfigureDrop, At, Goto
  <2>2. r \in Telling /\ Telling' = Telling /\ Dialing' = Dialing /\ pc'[r] = "renew"
        /\ \A q \in Requests : q # r => pc'[q] = pc[q]
    BY <2>1, HoldersAre DEF ConfigInv, TypeInv, Telling, Dialing
  <2>3. \A q \in Telling : q = r
    BY <1>1, <1>2, <2>1, <2>2 DEF ConnInv
  <2>4. \A h \in HolderSet : holder[h] = doc[r]
    BY <1>1, <1>2, <1>3, <2>1, <2>2 DEF ConnInv
  <2>5. kind[r] = "settings" => Agreed(doc[r]["printer"])'
    BY <1>1, <1>2, <2>1, <2>2 DEF ConnInv, Agreed
  <2>6. QED
    BY <1>1, <1>2, <1>3, <2>1, <2>2, <2>3, <2>4, <2>5 DEF ConnInv
<1>5. CASE ReconfigureRenew(r)
  <2>1. /\ pc[r] = "renew" /\ pc' = [pc EXCEPT ![r] = "dial"]
        /\ holder' = [holder EXCEPT !["link"] = doc[r]] /\ UNCHANGED <<conn, adopted>>
    BY <1>5 DEF ReconfigureRenew, At, Goto
  <2>2. r \in Telling /\ pc'[r] = "dial" /\ \A q \in Requests : q # r => pc'[q] = pc[q]
    BY <2>1, HoldersAre DEF ConfigInv, TypeInv, Telling
  <2>3. /\ \A q \in Telling \cup Dialing : q = r
        /\ \A h \in HolderSet : holder[h] = doc[r]
        /\ conn \in {None, doc[r]["printer"]}
    BY <1>1, <1>2, <1>3, <2>1, <2>2 DEF ConnInv
  <2>4. Telling' = {} /\ Dialing' = {r}
    BY <2>2, <2>3, HoldersAre DEF Telling, Dialing
  <2>5. holder'["web"] = doc[r] /\ holder'["link"] = doc[r]
    BY <2>1, <2>3, HoldersAre DEF ConfigInv, TypeInv
  <2>6. QED
    BY <1>1, <2>1, <2>3, <2>4, <2>5 DEF ConnInv, Agreed
<1>6. CASE ReconfigureDial(r)
  <2>1. /\ pc[r] = "dial" /\ pc' = [pc EXCEPT ![r] = "done"] /\ UNCHANGED <<holder, doc>>
        /\ conn' = IF conn = None THEN holder["link"]["printer"] ELSE conn
        /\ adopted' = (adopted /\ ~(/\ Handing = {r}
                                    /\ conn' = holder["web"]["printer"]
                                    /\ holder["link"]["printer"] = holder["web"]["printer"]))
    BY <1>6 DEF ReconfigureDial, At, Goto
  <2>2. r \in Dialing /\ r \notin Telling /\ pc'[r] = "done"
        /\ \A q \in Requests : q # r => pc'[q] = pc[q]
    BY <2>1, HoldersAre DEF ConfigInv, TypeInv, Telling, Dialing
  <2>3. \A q \in Telling \cup Dialing : q = r
    <3>1. CASE adopted
      BY <1>2, <2>1, <3>1, HandingIs DEF ConfigInv
    <3>2. CASE ~adopted
      BY <1>1, <2>2, <3>2 DEF ConnInv
    <3>3. QED
      BY <3>1, <3>2
  <2>4. Telling = {} /\ Telling' = {} /\ Dialing' = {}
    BY <2>2, <2>3, HoldersAre DEF Telling, Dialing
  <2>5. Agreed(holder["web"]["printer"])'
    <3>1. CASE adopted
      BY <1>2, <2>1, <3>1 DEF Agreed
    <3>2. CASE ~adopted
      BY <1>1, <2>1, <2>4, <3>2 DEF ConnInv, Agreed
    <3>3. QED
      BY <3>1, <3>2
  <2>6. QED
    BY <1>1, <2>1, <2>4, <2>5 DEF ConnInv
<1>7. QED
  BY <1>4, <1>5, <1>6

LEMMA ConnStep == ConfigInv /\ ConnInv /\ [Next]_vars => ConnInv'
<1> SUFFICES ASSUME ConfigInv, ConnInv, [Next]_vars PROVE ConnInv'
  OBVIOUS
<1>1. ASSUME NEW r \in Requests, Step(r) PROVE ConnInv'
  BY <1>1, ConnAsk, ConnLoad, ConnTell, ConnReconfigure DEF Step
<1>2. CASE Lose \/ Watch \/ EditByHand
  <2>1. /\ UNCHANGED <<up, holder, adopted, pc, doc, kind>>
        /\ conn' \in {None, conn, holder["link"]["printer"]}
    BY <1>2 DEF Lose, Watch, EditByHand, reqv, memv
  <2>2. Telling' = Telling /\ Dialing' = Dialing
    BY <2>1 DEF Telling, Dialing
  <2>3. kind' \in [Requests -> {"printer", "settings"}]
    BY <2>1 DEF ConnInv
  <2>4. QED
    BY <2>1, <2>2, <2>3, ConnKept
<1>3. CASE EnsureCheck \/ EnsureOpen \/ EnsureCopy \/ Crash
  BY <1>3 DEF EnsureCheck, EnsureOpen, EnsureCopy, Crash, ConnInv, reqv
<1>4. CASE Start
  <2>1. /\ UNCHANGED <<pc, kind>> /\ up = "down" /\ file \in Content
        /\ holder' = [h \in HolderSet |-> file] /\ conn' \in {None, file["printer"]}
    BY <1>4 DEF Start, Loads, reqv
  <2>2. Telling' = {} /\ Dialing' = {}
    BY <2>1, HoldersAre DEF ConfigInv, RestInv, Telling, Dialing
  <2>3. QED
    BY <2>1, <2>2, HoldersAre DEF ConnInv, Agreed
<1>5. CASE UNCHANGED vars
  <2>1. UNCHANGED <<up, holder, adopted, pc, doc, kind, conn>>
    BY <1>5 DEF vars, memv, reqv
  <2>2. Telling' = Telling /\ Dialing' = Dialing
    BY <2>1 DEF Telling, Dialing
  <2>3. QED
    BY <2>1, <2>2, ConnKept DEF ConnInv
<1>6. QED
  BY <1>1, <1>2, <1>3, <1>4, <1>5 DEF Next

-----------------------------------------------------------------------------
(* configwrite.py:10: what was put into a section of config.toml stays     *)
(* there until that section is changed, whatever writes, fails or crashes, *)
(* and no file that held something is found half written, unless a writer  *)
(* replaced a file that had changed since it was read.                     *)
THEOREM NothingEverLost == Spec => []NothingLost
<1>1. ConfigInv => NothingLost
  BY DEF ConfigInv, FileInv
<1>2. QED
  BY ConfigInit, ConfigStep, <1>1, PTL DEF Spec

(* runtime.py:52: when no request is under way, everybody who keeps a      *)
(* reference to the configuration has what the file says - or there is a   *)
(* reason: an edit by hand, a refusal, or two requests that handed out at  *)
(* once.                                                                   *)
THEOREM ConfigAlwaysInForce == Spec => []InForce
<1>1. ConfigInv => InForce
  <2>1. SUFFICES ASSUME ConfigInv, up = "up", Quiet, behind = {}, NEW h \in HolderSet
                 PROVE  holder[h] = file
    BY DEF InForce
  <2>2. Telling = {} /\ Waiting = {}
    BY <2>1, HoldersAre DEF Quiet, Telling, Waiting
  <2>3. QED
    BY <2>1, <2>2 DEF ConfigInv, HandInv
<1>2. QED
  BY ConfigInit, ConfigStep, <1>1, PTL DEF Spec

(* web/app.py:541: an answer from the live connection is an answer of the  *)
(* printer that was asked for, unless the configuration is being handed    *)
(* out or memory took over another printer without its connection.         *)
THEOREM ProbeAlwaysHonest == Spec => []ProbeHonest
<1>1. ConfigInv /\ ConnInv => ProbeHonest
  <2>1. SUFFICES ASSUME ConfigInv, ConnInv, NEW r \in Requests, up = "up", ~adopted, Handing = {},
                        conn # None, todo[r][1][2] = holder["web"]["printer"]
                 PROVE  conn = todo[r][1][2]
    BY DEF ProbeHonest, At, FastPath
  <2>2. Telling = {}
    BY <2>1, HandingIs DEF ConfigInv
  <2>3. QED
    BY <2>1, <2>2 DEF ConnInv, Agreed
<1>2. QED
  BY ConfigInit, ConfigStep, ConnInit, ConnStep, <1>1, PTL DEF Spec
=============================================================================
