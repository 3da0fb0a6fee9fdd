------------------------- MODULE Submission_proofs -------------------------
(* Theorems about Submission, for any number of tasks, files, plates,      *)
(* filaments, slots and spools.                                            *)
EXTENDS Submission, FiniteSetTheorems, WellFoundedInduction, TLAPS

-----------------------------------------------------------------------------
(* Numbers.                                                                *)

\* The least number principle.
LEMMA Least ==
  ASSUME NEW S \in SUBSET Nat, S # {}
  PROVE  \E n \in S : \A k \in S : n <= k
<1> DEFINE R == OpToRel(<, Nat)
<1>1. \A m, n \in Nat : m < n => <<m, n>> \in R
  BY DEF OpToRel
<1>2. IsWellFoundedOn(R, Nat)
  BY NatLessThanWellFounded
<1> HIDE DEF R
<1>3. PICK n \in S : \A k \in S : ~(<<k, n>> \in R)
  BY <1>2, WFMin
<1>4. \A k \in S : ~(k < n)
  BY <1>1, <1>3
<1>5. \A k \in S : n <= k
  BY <1>4
<1>6. QED
  BY <1>3, <1>5

\* The numbers of a plate's filaments are bounded.
LEMMA PlateBounded ==
  ASSUME NEW fs, IsPlate(fs)
  PROVE  \E b \in Nat : \A f \in fs : f.id <= b
<1> DEFINE len == Cardinality(fs)
<1>1. len \in Nat /\ ExistsBijection(1 .. len, fs)
  BY FS_CardinalityType DEF IsPlate
<1> HIDE DEF len
<1>2. PICK g \in [1 .. len -> fs] : \A f \in fs : \E j \in 1 .. len : g[j] = f
  BY <1>1 DEF ExistsBijection, Bijection, Injection, Surjection, IsInjective
<1>3. \A j \in 1 .. len : g[j].id \in Nat
  BY <1>2 DEF IsPlate
<1> DEFINE Bad == {k \in Nat : k <= len /\ ~\E b \in Nat : \A j \in 1 .. k : g[j].id <= b}
<1>4. Bad = {}
  <2>1. SUFFICES ASSUME Bad # {} PROVE FALSE
    OBVIOUS
  <2>2. PICK k \in Bad : \A m \in Bad : k <= m
    <3>1. Bad \in SUBSET Nat
      OBVIOUS
    <3> HIDE DEF Bad
    <3>2. QED
      BY <2>1, <3>1, Least
  <2>3. k \in Nat /\ k <= len
    OBVIOUS
  <2>4. CASE k = 0
    <3>1. \A j \in 1 .. 0 : g[j].id <= 0
      OBVIOUS
    <3>2. QED
      BY <2>4, <3>1
  <2>5. CASE k # 0
    <3>1. k - 1 \in Nat /\ k - 1 <= len /\ ~(k <= k - 1) /\ k \in 1 .. len
      BY <1>1, <2>3, <2>5
    <3>2. PICK b \in Nat : \A j \in 1 .. k - 1 : g[j].id <= b
      BY <2>2, <3>1
    <3> DEFINE c == IF g[k].id > b THEN g[k].id ELSE b
    <3>3. c \in Nat /\ b <= c /\ g[k].id <= c
      <4>1. g[k].id \in Nat /\ b \in Nat
        BY <1>3, <3>1
      <4> HIDE DEF Bad
      <4>2. QED
        BY <4>1
    <3> HIDE DEF c
    <3>4. ASSUME NEW j \in 1 .. k PROVE g[j].id <= c
      <4>1. j = k \/ j \in 1 .. k - 1
        BY <2>3
      <4>2. g[j].id \in Nat
        BY <1>3, <2>3, <1>1
      <4> HIDE DEF Bad
      <4>3. CASE j = k
        BY <3>3, <4>3
      <4>4. CASE j \in 1 .. k - 1
        <5>1. g[j].id <= b
          BY <3>2, <4>4
        <5>2. QED
          BY <3>3, <4>2, <5>1
      <4>5. QED
        BY <4>1, <4>3, <4>4
    <3>5. QED
      BY <3>3, <3>4
  <2>6. QED
    BY <2>4, <2>5
<1>5. PICK b \in Nat : \A j \in 1 .. len : g[j].id <= b
  <2>1. len \notin Bad
    BY <1>4
  <2>2. len <= len
    BY <1>1
  <2>3. QED
    BY <1>1, <2>1, <2>2
<1>6. QED
  BY <1>2, <1>5

\* The last number of a plate is one of its numbers.
LEMMA LastIs ==
  ASSUME NEW fs, IsPlate(fs), fs # {}
  PROVE  Last(fs) \in Nat /\ \A k \in Ids(fs) : k \in 1 .. Last(fs)
<1>1. Ids(fs) \subseteq Nat \ {0} /\ Ids(fs) # {}
  BY DEF Ids, IsPlate
<1> DEFINE B == {b \in Nat : \A k \in Ids(fs) : k <= b}
<1>2. B # {}
  BY PlateBounded DEF Ids
<1>3. PICK n \in B : \A b \in B : n <= b
  <2>1. B \in SUBSET Nat
    OBVIOUS
  <2> HIDE DEF B
  <2>2. QED
    BY <1>2, <2>1, Least
<1>4. n \in Ids(fs)
  <2>1. SUFFICES ASSUME n \notin Ids(fs) PROVE FALSE
    OBVIOUS
  <2>2. PICK k \in Ids(fs) : TRUE
    BY <1>1
  <2>3. n \in Nat /\ k <= n /\ k \in Nat \ {0}
    BY <1>1
  <2>4. n - 1 \in Nat /\ ~(n <= n - 1)
    BY <2>3
  <2>5. \A j \in Ids(fs) : j <= n - 1
    BY <1>1, <2>1, <2>3
  <2>6. QED
    BY <1>3, <2>4, <2>5
<1>5. n \in Ids(fs) /\ \A k \in Ids(fs) : k <= n
  BY <1>4
<1>6. Last(fs) \in Ids(fs) /\ \A k \in Ids(fs) : k <= Last(fs)
  BY <1>5, Zenon DEF Last
<1>7. QED
  BY <1>1, <1>6

-----------------------------------------------------------------------------
(* Mapping.                                                                *)

\* Of some slots one is the first of the nearest.
LEMMA NearestIs ==
  ASSUME NEW f, f.color \in Int, NEW held \in [TrayIds -> Reels],
         Candidates(f, held) # {}
  PROVE  /\ Nearest(f, held) \in Candidates(f, held)
         /\ \A j \in Candidates(f, held) :
              Distance(f.color, held[Nearest(f, held)].color)
                <= Distance(f.color, held[j].color)
<1> DEFINE c == Candidates(f, held)
           d(i) == Distance(f.color, held[i].color)
           First(i) == \A j \in c : d(i) < d(j) \/ (d(i) = d(j) /\ i <= j)
<1>1. c \subseteq TrayIds /\ TrayIds \subseteq Nat
  BY SubmissionAssumption DEF Candidates
<1>2. \A i \in c : d(i) \in Nat
  <2>1. ASSUME NEW i \in c PROVE d(i) \in Nat
    <3>1. held[i].color \in Int
      BY <1>1, SubmissionAssumption
    <3>2. QED
      BY <3>1 DEF Distance
  <2>2. QED
    BY <2>1
<1>3. Nearest(f, held) = CHOOSE i \in c : First(i)
  BY DEF Nearest
<1>4. c # {}
  OBVIOUS
<1> HIDE DEF c, d
<1> DEFINE D == {d(i) : i \in c}
<1>5. D \in SUBSET Nat /\ D # {}
  BY <1>2, <1>4
<1>6. PICK n \in D : \A k \in D : n <= k
  <2> HIDE DEF D
  <2>1. QED
    BY <1>5, Least
<1> DEFINE E == {i \in c : d(i) = n}
<1>7. E \in SUBSET Nat /\ E # {}
  BY <1>1, <1>6
<1>8. PICK i \in E : \A k \in E : i <= k
  <2> HIDE DEF E
  <2>1. QED
    BY <1>7, Least
<1>9. First(i)
  <2>1. SUFFICES ASSUME NEW j \in c PROVE d(i) < d(j) \/ (d(i) = d(j) /\ i <= j)
    OBVIOUS
  <2>2. d(i) = n /\ d(j) \in Nat /\ n \in Nat /\ n <= d(j)
    BY <1>2, <1>5, <1>6
  <2>3. d(j) = n => i <= j
    BY <1>8
  <2>4. QED
    BY <2>2, <2>3
<1>10. i \in c
  OBVIOUS
<1> HIDE DEF First
<1>11. Nearest(f, held) \in c /\ First(Nearest(f, held))
  BY <1>3, <1>9, <1>10
<1>12. \A j \in c : d(Nearest(f, held)) <= d(j)
  BY <1>2, <1>11 DEF First
<1>13. QED
  BY <1>11, <1>12 DEF c, d

\* The nearest slot is a slot, or the external spool.
LEMMA NearestSlot ==
  ASSUME NEW f, f.color \in Int, NEW held \in Held
  PROVE  Nearest(f, held) \in Slots
<1>1. CASE Candidates(f, held) = {}
  BY <1>1 DEF Nearest, Slots
<1>2. CASE Candidates(f, held) # {}
  <2>1. held \in [TrayIds -> Reels]
    <3>1. SUFFICES ASSUME held = <<>> PROVE FALSE
      BY DEF Held, Unread
    <3>2. DOMAIN held = {}
      BY <3>1
    <3>3. QED
      BY <1>2, <3>2 DEF Candidates
  <2>2. Nearest(f, held) \in Candidates(f, held)
    BY <1>2, <2>1, NearestIs
  <2>3. QED
    BY <2>1, <2>2 DEF Candidates, Slots
<1>3. QED
  BY <1>1, <1>2

(* threemf.py:180: entry by entry, the mapping holds the nearest slot of   *)
(* each filament, at the filament's own number.                            *)
LEMMA MatchIs ==
  ASSUME NEW fs, IsPlate(fs), NEW held \in Held
  PROVE  /\ MatchAms(fs, held) \in Seq(Slots)
         /\ \A f \in fs : /\ f.id \in DOMAIN MatchAms(fs, held)
                          /\ MatchAms(fs, held)[f.id] = Nearest(f, held)
<1>1. CASE fs = {}
  BY <1>1 DEF MatchAms
<1>2. CASE fs # {}
  <2> DEFINE n == Last(fs)
             m == [k \in 1 .. n |->
                     IF k \in Ids(fs) THEN Nearest(CHOOSE f \in fs : f.id = k, held)
                     ELSE External]
  <2>1. n \in Nat /\ \A k \in Ids(fs) : k \in 1 .. n
    BY <1>2, LastIs
  <2>2. MatchAms(fs, held) = m
    BY <1>2, Zenon DEF MatchAms
  <2> HIDE DEF n
  <2>3. ASSUME NEW k \in 1 .. n PROVE m[k] \in Slots
    <3>1. CASE k \in Ids(fs)
      <4>1. PICK f \in fs : f.id = k
        BY <3>1 DEF Ids
      <4> DEFINE g == CHOOSE h \in fs : h.id = k
      <4>2. g \in fs
        BY <4>1
      <4>3. g.color \in Int
        BY <4>2 DEF IsPlate
      <4>4. m[k] = Nearest(g, held)
        BY <3>1
      <4> HIDE DEF g, m
      <4>5. QED
        BY <4>3, <4>4, NearestSlot
    <3>2. CASE k \notin Ids(fs)
      BY <3>2 DEF Slots
    <3>3. QED
      BY <3>1, <3>2
  <2>4. m \in Seq(Slots)
    <3>1. m \in [1 .. n -> Slots]
      BY <2>3
    <3> HIDE DEF m
    <3>2. QED
      BY <2>1, <3>1
  <2>5. ASSUME NEW f \in fs
        PROVE  f.id \in DOMAIN m /\ m[f.id] = Nearest(f, held)
    <3>1. f.id \in Ids(fs) /\ f.id \in 1 .. n
      BY <2>1 DEF Ids
    <3>2. (CHOOSE h \in fs : h.id = f.id) = f
      BY DEF IsPlate
    <3>3. m[f.id] = Nearest(CHOOSE h \in fs : h.id = f.id, held)
      BY <3>1
    <3>4. QED
      BY <3>1, <3>2, <3>3
  <2> HIDE DEF m
  <2>6. QED
    BY <2>2, <2>4, <2>5
<1>3. QED
  BY <1>1, <1>2

\* The nearest slot fits.
LEMMA NearestFits ==
  ASSUME NEW f, f.color \in Int, trays \in [TrayIds -> Reels]
  PROVE  Fits(f, Nearest(f, trays))
<1>1. External \notin TrayIds
  BY SubmissionAssumption DEF External
<1>2. CASE Candidates(f, trays) = {}
  <2>1. Nearest(f, trays) = External
    BY <1>2 DEF Nearest
  <2>2. \A j \in TrayIds : ~(f.idx # "" /\ trays[j].idx = f.idx) /\ trays[j].type # f.type
    BY <1>2 DEF Candidates
  <2>3. QED
    BY <1>1, <2>1, <2>2 DEF Fits
<1>3. CASE Candidates(f, trays) # {}
  <2> DEFINE i == Nearest(f, trays)
             alike(j) == f.idx # "" /\ trays[j].idx = f.idx
             same(j)  == trays[j].type = f.type
  <2>1. /\ i \in Candidates(f, trays)
        /\ \A j \in Candidates(f, trays) :
             Distance(f.color, trays[i].color) <= Distance(f.color, trays[j].color)
    BY <1>3, NearestIs
  <2>2. Candidates(f, trays) = IF \E j \in TrayIds : alike(j) THEN {j \in TrayIds : alike(j)}
                               ELSE {j \in TrayIds : same(j)}
    BY DEF Candidates
  <2> HIDE DEF i
  <2>3. i \in TrayIds /\ (alike(i) \/ (same(i) /\ \A j \in TrayIds : ~alike(j)))
    BY <2>1, <2>2
  <2>4. \A j \in TrayIds : (alike(i) /\ alike(j)) \/ (~alike(i) /\ same(j)) =>
          j \in Candidates(f, trays)
    BY <2>2, <2>3
  <2>5. Fits(f, i)
    BY <2>1, <2>3, <2>4 DEF Fits
  <2>6. QED
    BY <2>5 DEF i
<1>4. QED
  BY <1>2, <1>3

\* The filaments of a plate.
LEMMA PlateIs ==
  ASSUME NEW s, disk[s] \in File, NEW p
  PROVE  /\ IsPlate(PlateOf(s, p))
         /\ p \in DOMAIN Sliced[disk[s].model] =>
              PlateOf(s, p) = Sliced[disk[s].model][p] /\ p \in PlateNos
<1>1. disk[s].model \in Models
  BY DEF File
<1>2. CASE p \in DOMAIN Sliced[disk[s].model]
  <2>1. PlateOf(s, p) = Sliced[disk[s].model][p]
    BY <1>2 DEF PlateOf
  <2>2. QED
    BY <1>1, <1>2, <2>1, SubmissionAssumption DEF PlateNos
<1>3. CASE p \notin DOMAIN Sliced[disk[s].model]
  <2>1. PlateOf(s, p) = {}
    BY <1>3 DEF PlateOf
  <2>2. QED
    BY <1>3, <2>1, FS_EmptySet DEF IsPlate
<1>4. QED
  BY <1>2, <1>3

-----------------------------------------------------------------------------
(* Steps.                                                                  *)

\* What is told apart: files from what is none, the spool from the user's files.
LEMMA Apart ==
  /\ NoFile \notin File /\ Partial \notin File /\ NoFile # Partial
  /\ \A s \in Spools : s \in Paths /\ s \notin Originals /\ s # None
  /\ \A o \in Originals : o \in Paths /\ o \notin Spools
  BY SubmissionAssumption DEF NoFile, Partial, File, Paths

\* The plates of a model are numbered.
LEMMA PlatesAre ==
  ASSUME NEW m \in Models, NEW p \in DOMAIN Sliced[m]
  PROVE  p \in Nat /\ p \in PlateNos /\ IsPlate(Sliced[m][p])
<1>1. p \in Nat /\ IsPlate(Sliced[m][p])
  BY SubmissionAssumption, Zenon
<1>2. QED
  BY <1>1 DEF PlateNos

(* What a step on another task, or on no task, leaves of a task.           *)
LEMMA OtherKept ==
  ASSUME NEW u \in Tasks, TaskOk(u),
         pc'[u] = pc[u], row'[u] = row[u],
         foreign'[u] = foreign[u] \/ foreign'[u] # {},
         lent = u => lent' = u,
         Open(u) => \/ disk'[row[u].source] = disk[row[u].source]
                    \/ pc[u] \notin {"putting", "fire putting"} \/ foreign'[u] # {},
         Open(u) => \/ storage'[row[u].name] = storage[row[u].name]
                    \/ foreign'[u] # {}
  PROVE  TaskOk(u)'
<1>1. CASE Open(u)
  <2>1. Open(u)' /\ RowOk(u)
    BY <1>1 DEF Open, TaskOk
  <2>2. RowOk(u)'
    BY <1>1, <2>1 DEF RowOk
  <2>3. QED
    BY <2>1, <2>2 DEF TaskOk
<1>2. CASE ~Open(u)
  BY <1>2 DEF TaskOk, Open
<1>3. QED
  BY <1>1, <1>2

\* A step that touches no task and none of their files.
LEMMA TasksKept ==
  ASSUME TaskInv, UNCHANGED <<pc, row, foreign, disk, storage>>,
         \A u \in Tasks : lent = u => lent' = u
  PROVE  TaskInv'
<1>1. ASSUME NEW u \in Tasks PROVE TaskOk(u)'
  BY OtherKept DEF TaskInv
<1>2. QED
  BY <1>1 DEF TaskInv

(* What a step leaves of the page that neither touches it nor the spool.   *)
LEMMA PageKept ==
  ASSUME PageInv, UNCHANGED pagev, \A s \in Spools : disk'[s] = disk[s]
  PROVE  PageInv'
<1>1. page' = page /\ asks' = asks
  BY DEF pagev
<1>2. \A s \in Spools : \A p : PlateOf(s, p)' = PlateOf(s, p)
  BY DEF PlateOf
<1>3. page.for # None => page.for[1] \in Spools
  BY DEF PageInv
<1>4. \A a \in asks : a.for[1] \in Spools
  BY DEF PageInv
<1>5. ASSUME NEW x, x.for[1] \in Spools, Matched(x) PROVE Matched(x)'
  BY <1>2, <1>5 DEF Matched
<1>6. page.for # None => Matched(page)'
  BY <1>1, <1>2, <1>3 DEF PageInv, Matched
<1>7. \A a \in asks : Matched(a)'
  BY <1>4, <1>5 DEF PageInv
<1>8. QED
  BY <1>1, <1>6, <1>7 DEF PageInv

(* The page is left for a new task.                                        *)
LEMMA PageBlank ==
  ASSUME page' = BlankPage, asks' = {}
  PROVE  PageInv'
<1>1. /\ page'.file = None /\ page'.plate = None /\ page'.mapping = <<>>
      /\ page'.for = None /\ page'.basis = Unread
  BY DEF BlankPage
<1>2. page' \in [file : Spools \cup {None}, plate : PlateNos \cup {None},
                 mapping : Seq(Slots), chosen : {page'.chosen},
                 for : (Spools \X PlateNos) \cup {None}, basis : Held]
  BY DEF BlankPage, Held
<1>3. QED
  BY <1>1, <1>2 DEF PageInv

\* A submission on another way leaves the page, or ends it.
LEMMA PageForgets ==
  ASSUME PageInv, NEW t \in Tasks, Forget(t), UNCHANGED disk
  PROVE  PageInv'
  BY PageKept, PageBlank DEF Forget

(* A request for a mapping is answered with the one it asked for.          *)
LEMMA AskIs ==
  ASSUME StoreInv, PageInv, NEW s \in Spools, NEW p \in PlateNos, NEW fs,
         Ask(s, p, fs), seen \in Held,
         disk'[s] \in File, fs = PlateOf(s, p)', IsPlate(fs),
         \A x \in Spools : disk[x] # NoFile => disk'[x] = disk[x]
  PROVE  /\ asks' \subseteq [for : Spools \X PlateNos, basis : Held, mapping : Seq(Slots)]
         /\ \A a \in asks' : Matched(a)'
<1>1. \A a \in asks : Matched(a)'
  <2>1. ASSUME NEW a \in asks PROVE Matched(a)'
    <3>1. a.for[1] \in Spools /\ Matched(a)
      BY DEF PageInv
    <3>2. disk'[a.for[1]] = disk[a.for[1]]
      BY <3>1 DEF Matched
    <3>3. PlateOf(a.for[1], a.for[2])' = PlateOf(a.for[1], a.for[2])
      BY <3>2 DEF PlateOf
    <3>4. QED
      BY <3>1, <3>2, <3>3 DEF Matched
  <2>2. QED
    BY <2>1
<1>2. CASE asks' = asks
  BY <1>1, <1>2 DEF PageInv
<1>3. CASE asks' = asks \cup {[for |-> <<s, p>>, basis |-> seen, mapping |-> MatchAms(fs, seen)]}
  <2> DEFINE a == [for |-> <<s, p>>, basis |-> seen, mapping |-> MatchAms(fs, seen)]
  <2>1. a \in [for : Spools \X PlateNos, basis : Held, mapping : Seq(Slots)]
    BY MatchIs
  <2> HIDE DEF a
  <2>3. asks' = asks \cup {a}
    BY <1>3 DEF a
  <2>4. asks' \subseteq [for : Spools \X PlateNos, basis : Held, mapping : Seq(Slots)]
    BY <2>1, <2>3 DEF PageInv
  <2>5. ASSUME NEW x \in asks' PROVE Matched(x)'
    <3>1. CASE x = a
      <4>1. /\ x.for[1] = s /\ x.for[2] = p /\ x.basis = seen
            /\ x.mapping = MatchAms(fs, seen)
        BY <3>1 DEF a
      <4>2. QED
        BY <4>1, Apart DEF Matched
    <3>2. QED
      BY <1>1, <2>3, <3>1
  <2>6. QED
    BY <2>4, <2>5
<1>4. QED
  BY <1>2, <1>3 DEF Ask

(* A task ends.                                                            *)
LEMMA EndStep ==
  ASSUME TaskInv, NEW t \in Tasks, NEW outcome, End(t, outcome), UNCHANGED <<disk, storage>>
  PROVE  TaskInv' /\ lent' \in {lent, None}
<1>1. /\ row' = [row EXCEPT ![t] = [state |-> outcome]]
      /\ foreign' = [foreign EXCEPT ![t] = {}] /\ pc' = [pc EXCEPT ![t] = "done"]
      /\ lent' = IF lent = t THEN None ELSE lent
  BY DEF End
<1>2. TaskOk(t)'
  BY <1>1 DEF TaskInv, TaskOk, Open, Places
<1>3. ASSUME NEW u \in Tasks \ {t} PROVE TaskOk(u)'
  BY <1>1, OtherKept DEF TaskInv
<1>4. QED
  BY <1>1, <1>2, <1>3 DEF TaskInv

\* What a row must be to be accepted.
Acceptable(r) ==
  /\ r \in Rows /\ r.state = "pending"
  /\ r.plate \in DOMAIN Sliced[r.wanted.model]
  /\ r.source \in Spools => ~r.wanted.aux
  /\ r.basis # Unread => r.mapping = MatchAms(Sliced[r.wanted.model][r.plate], r.basis)

(* A task is submitted that has not been before: no thread is at it.       *)
LEMMA AcceptStep ==
  ASSUME TaskInv, NEW t \in Tasks, NEW r, Acceptable(r), Accept(t, r),
         UNCHANGED <<disk, storage, lent>>
  PROVE  TaskInv'
<1>1. /\ row' = [row EXCEPT ![t] = r] /\ foreign' = [foreign EXCEPT ![t] = {}]
      /\ \/ pc' = [pc EXCEPT ![t] = "put"]
         \/ pc' = [pc EXCEPT ![t] = "due"]
  BY DEF Accept
<1>2. TaskOk(t)'
  <2>1. row'[t] = r /\ pc'[t] \in {"put", "due"}
    BY <1>1 DEF TaskInv
  <2>2. RowOk(t)'
    BY <2>1 DEF RowOk, Acceptable
  <2>3. QED
    BY <2>1, <2>2 DEF TaskOk, Places, Acceptable
<1>3. ASSUME NEW u \in Tasks \ {t} PROVE TaskOk(u)'
  BY <1>1, OtherKept DEF TaskInv
<1>4. QED
  BY <1>1, <1>2, <1>3 DEF TaskInv

(* A row of a plate of a file, with a mapping for it or a choice.          *)
LEMMA RowIs ==
  ASSUME StoreInv, NEW s \in Paths, disk[s] # NoFile, NEW n \in Names,
         NEW p \in DOMAIN Sliced[disk[s].model], NEW m \in Seq(Slots),
         NEW o \in Settings, NEW b \in Held,
         b # Unread => m = MatchAms(PlateOf(s, p), b)
  PROVE  Acceptable([Row(s, n, p, m, o) EXCEPT !.basis = b])
<1>1. disk[s] \in File
  BY DEF StoreInv
<1>2. PlateOf(s, p) = Sliced[disk[s].model][p] /\ p \in PlateNos
  BY <1>1, PlateIs
<1> DEFINE r == [Row(s, n, p, m, o) EXCEPT !.basis = b]
<1>3. r = [state |-> "pending", source |-> s, name |-> n, plate |-> p, mapping |-> m,
           option |-> o, wanted |-> disk[s], basis |-> b]
  BY DEF Row
<1> HIDE DEF r
<1>4. r \in Rows
  BY <1>1, <1>2, <1>3 DEF Rows
<1>5. s \in Spools => ~disk[s].aux
  BY DEF StoreInv
<1>6. r.basis # Unread => r.mapping = MatchAms(Sliced[r.wanted.model][r.plate], r.basis)
  BY <1>2, <1>3
<1>7. QED
  BY <1>3, <1>4, <1>5, <1>6 DEF Acceptable, r

\* The rows the service and the command make of a file.
LEMMA OffersAre ==
  ASSUME StoreInv, NEW s \in Paths, disk[s] # NoFile, NEW held \in Held,
         NEW r \in Offers(s, held)
  PROVE  Acceptable(r)
<1>1. disk[s] \in File
  BY DEF StoreInv
<1> DEFINE plates == UNION {PickPlate(disk[s].model, p) : p \in PlateNos \cup {None}}
           Rowed(k) == {[Row(s, n, k, feed.mapping, o) EXCEPT !.basis = feed.basis] :
                          feed \in Feeds(PlateOf(s, k), held), n \in Names, o \in Settings}
<1>9. PICK k \in plates : r \in Rowed(k)
  <2>1. r \in UNION {Rowed(k) : k \in plates}
    BY DEF Offers
  <2> HIDE DEF plates, Rowed
  <2>2. QED
    BY <2>1
<1>2. PICK feed \in Feeds(PlateOf(s, k), held), n \in Names, o \in Settings :
        r = [Row(s, n, k, feed.mapping, o) EXCEPT !.basis = feed.basis]
  BY <1>9
<1>3. k \in DOMAIN Sliced[disk[s].model]
  BY <1>9 DEF PickPlate
<1>4. IsPlate(PlateOf(s, k))
  BY <1>1, PlateIs
<1>5. MatchAms(PlateOf(s, k), held) \in Seq(Slots)
  BY <1>4, MatchIs
<1>6. /\ feed.mapping \in Seq(Slots) /\ feed.basis \in Held
      /\ feed.basis # Unread => feed.mapping = MatchAms(PlateOf(s, k), feed.basis)
  <2>1. CASE feed = [mapping |-> MatchAms(PlateOf(s, k), held), basis |-> held]
    <3>1. feed.mapping = MatchAms(PlateOf(s, k), held) /\ feed.basis = held
      BY <2>1
    <3>2. QED
      BY <1>5, <3>1
  <2>2. CASE feed = [mapping |-> <<>>, basis |-> Unread]
    <3>1. feed.mapping = <<>> /\ feed.basis = Unread
      BY <2>2
    <3>2. QED
      BY <3>1 DEF Held
  <2>3. QED
    BY <2>1, <2>2 DEF Feeds
<1>7. QED
  BY <1>2, <1>3, <1>6, RowIs

(* What the page does.                                                     *)
LEMMA PageStep ==
  ASSUME StoreInv, PageInv, TaskInv,
         (\E s \in Spools : Upload(s)) \/ ChoosePlate \/ Arrive \/ PickTray
  PROVE  StoreInv' /\ PageInv' /\ TaskInv'
<1>1. ASSUME NEW s \in Spools, Upload(s) PROVE StoreInv' /\ PageInv' /\ TaskInv'
  <2>1. PICK m \in Models :
          /\ DOMAIN Sliced[m] # {}
          /\ disk' = [disk EXCEPT ![s] = Slim([model |-> m, aux |-> m \in Heavy])]
          /\ LET p == CHOOSE k \in DOMAIN Sliced[m] : \A j \in DOMAIN Sliced[m] : k <= j
             IN  page' = [page EXCEPT !.file = s, !.plate = p] /\ Ask(s, p, Sliced[m][p])
    BY <1>1 DEF Upload
  <2> DEFINE p == CHOOSE k \in DOMAIN Sliced[m] : \A j \in DOMAIN Sliced[m] : k <= j
  <2>2. disk[s] = NoFile /\ UNCHANGED <<storage, linkv, realv, row, pc, foreign>>
    BY <1>1 DEF Upload, FreshId
  <2>3. p \in DOMAIN Sliced[m]
    <3>1. \A k \in DOMAIN Sliced[m] : k \in Nat
      BY PlatesAre
    <3>2. PICK k \in DOMAIN Sliced[m] : \A j \in DOMAIN Sliced[m] : k <= j
      BY <2>1, <3>1, Least
    <3>3. QED
      BY <3>2
  <2>4. page' = [page EXCEPT !.file = s, !.plate = p] /\ Ask(s, p, Sliced[m][p])
    BY <2>1
  <2> HIDE DEF p
  <2>5. /\ disk'[s] = [model |-> m, aux |-> FALSE] /\ disk'[s] \in File
        /\ \A x \in Paths \ {s} : disk'[x] = disk[x]
    BY <2>1, Apart DEF StoreInv, Slim, File
  <2>6. StoreInv'
    <3>1. disk' \in [Paths -> File \cup {NoFile}]
      BY <2>1, <2>5, Apart DEF StoreInv
    <3>2. \A x \in Spools : disk'[x] # NoFile => ~disk'[x].aux
      BY <2>5, Apart DEF StoreInv
    <3>3. UNCHANGED <<storage, trays, seen, defaults, conn, lent>>
      BY <2>2 DEF linkv, realv
    <3>4. QED
      BY <3>1, <3>2, <3>3 DEF StoreInv
  <2>7. PlateOf(s, p)' = Sliced[m][p] /\ IsPlate(Sliced[m][p]) /\ p \in PlateNos
    <3>1. PlateOf(s, p)' = Sliced[m][p]
      BY <2>3, <2>5 DEF PlateOf
    <3>2. QED
      BY <2>3, <3>1, SubmissionAssumption DEF PlateNos
  <2>8. \A x \in Spools : disk[x] # NoFile => disk'[x] = disk[x]
    BY <2>2, <2>5, Apart
  <2>9. /\ asks' \subseteq [for : Spools \X PlateNos, basis : Held, mapping : Seq(Slots)]
        /\ \A a \in asks' : Matched(a)'
    BY <2>4, <2>5, <2>7, <2>8, AskIs DEF StoreInv
  <2>10. /\ page'.file = s /\ page'.plate = p /\ page'.for = page.for
         /\ page'.mapping = page.mapping /\ page'.basis = page.basis
         /\ page' \in [file : Spools \cup {None}, plate : PlateNos \cup {None},
                       mapping : Seq(Slots), chosen : {page'.chosen},
                       for : (Spools \X PlateNos) \cup {None}, basis : Held]
    BY <2>4, <2>7 DEF PageInv
  <2>11. page.for # None => Matched(page)'
    <3>1. SUFFICES ASSUME page.for # None PROVE Matched(page)'
      OBVIOUS
    <3>2. page.for[1] \in Spools /\ Matched(page)
      BY <3>1 DEF PageInv
    <3>3. disk'[page.for[1]] = disk[page.for[1]]
      BY <2>8, <3>2 DEF Matched
    <3>4. \A x, y : disk'[x] = disk[x] => PlateOf(x, y)' = PlateOf(x, y)
      BY DEF PlateOf
    <3>5. QED
      BY <2>10, <3>2, <3>3, <3>4 DEF Matched
  <2>12. PageInv'
    BY <2>3, <2>5, <2>9, <2>10, <2>11, Apart DEF PageInv
  <2>13. TaskInv'
    <3>1. ASSUME NEW u \in Tasks PROVE TaskOk(u)'
      <4>1. Open(u) => \/ disk'[row[u].source] = disk[row[u].source]
                       \/ pc[u] \notin {"putting", "fire putting"} \/ foreign[u] # {}
        <5>1. SUFFICES ASSUME Open(u), pc[u] \in {"putting", "fire putting"}, foreign[u] = {}
                       PROVE  disk'[row[u].source] = disk[row[u].source]
          OBVIOUS
        <5>2. row[u] \in Rows /\ disk[row[u].source] = row[u].wanted
          BY <5>1 DEF TaskInv, TaskOk, RowOk
        <5>3. row[u].source \in Paths /\ disk[row[u].source] # NoFile
          BY <5>2, Apart DEF Rows
        <5>4. QED
          BY <2>2, <2>5, <5>3
      <4>2. QED
        BY <2>2, <4>1, OtherKept DEF TaskInv, linkv
    <3>2. QED
      BY <2>2, <3>1 DEF TaskInv
  <2>14. QED
    BY <2>6, <2>12, <2>13
<1>2. ASSUME ChoosePlate PROVE StoreInv' /\ PageInv' /\ TaskInv'
  <2>0. PICK s \in Spools : s = page.file
    BY <1>2, Apart DEF ChoosePlate, InUse, PageInv
  <2>1. PICK p \in DOMAIN Sliced[disk[s].model] \ {page.plate} :
          /\ page' = [page EXCEPT !.plate = p, !.chosen = <<>>]
          /\ Ask(s, p, PlateOf(s, p))
    BY <1>2, <2>0 DEF ChoosePlate
  <2>2. UNCHANGED <<disk, storage, linkv, realv, row, pc, foreign>>
    BY <1>2 DEF ChoosePlate
  <2>3. s # None /\ disk[s] # NoFile /\ disk[s] \in File
    BY <2>0, Apart DEF PageInv, StoreInv
  <2>4. /\ page'.file = s /\ page'.plate = p /\ page'.for = page.for
        /\ page'.mapping = page.mapping /\ page'.basis = page.basis
        /\ page' \in [file : Spools \cup {None}, plate : {p},
                      mapping : Seq(Slots), chosen : {page'.chosen},
                      for : (Spools \X PlateNos) \cup {None}, basis : Held]
    BY <2>0, <2>1 DEF PageInv
  <2>5. IsPlate(PlateOf(s, p)) /\ p \in PlateNos
    BY <2>1, <2>3, PlateIs
  <2>6. PlateOf(s, p) = PlateOf(s, p)'
    BY <2>2 DEF PlateOf
  <2>7. /\ asks' \subseteq [for : Spools \X PlateNos, basis : Held, mapping : Seq(Slots)]
        /\ \A a \in asks' : Matched(a)'
    BY <2>1, <2>2, <2>3, <2>5, <2>6, AskIs DEF StoreInv
  <2>8. page.for # None => Matched(page)'
    <3>1. \A x, y : PlateOf(x, y)' = PlateOf(x, y)
      BY <2>2 DEF PlateOf
    <3>2. QED
      BY <2>2, <2>4, <3>1 DEF PageInv, Matched
  <2>9. PageInv'
    BY <2>1, <2>2, <2>3, <2>4, <2>5, <2>7, <2>8 DEF PageInv
  <2>10. StoreInv'
    BY <2>2 DEF StoreInv, linkv, realv
  <2>11. TaskInv'
    BY <2>2, TasksKept DEF linkv
  <2>12. QED
    BY <2>9, <2>10, <2>11
<1>3. ASSUME Arrive PROVE StoreInv' /\ PageInv' /\ TaskInv'
  <2>1. PICK a \in asks :
          /\ asks' = asks \ {a}
          /\ page' \in
               {[page EXCEPT !.mapping = a.mapping, !.for = a.for, !.basis = a.basis,
                             !.chosen = <<>>],
                [page EXCEPT !.mapping = <<>>, !.for = None, !.basis = Unread, !.chosen = <<>>]}
          /\ UNCHANGED <<disk, storage, linkv, realv, row, pc, foreign>>
    BY <1>3 DEF Arrive
  <2>2. \A x, y : PlateOf(x, y)' = PlateOf(x, y)
    BY <2>1 DEF PlateOf
  <2>3. \A x \in asks' : Matched(x)'
    BY <2>1, <2>2 DEF PageInv, Matched
  <2>4. page'.file = page.file /\ page'.plate = page.plate
    BY <2>1 DEF PageInv
  <2>5. /\ page' \in [file : Spools \cup {None}, plate : PlateNos \cup {None},
                      mapping : Seq(Slots), chosen : {page'.chosen},
                      for : (Spools \X PlateNos) \cup {None}, basis : Held]
        /\ page'.for # None => Matched(page)'
    <3>1. a \in [for : Spools \X PlateNos, basis : Held, mapping : Seq(Slots)] /\ Matched(a)
      BY DEF PageInv
    <3>2. CASE page' = [page EXCEPT !.mapping = a.mapping, !.for = a.for, !.basis = a.basis,
                                    !.chosen = <<>>]
      <4>1. page'.mapping = a.mapping /\ page'.for = a.for /\ page'.basis = a.basis
        BY <3>2 DEF PageInv
      <4>2. Matched(page)'
        BY <2>1, <2>2, <3>1, <4>1 DEF Matched
      <4>3. page' \in [file : Spools \cup {None}, plate : PlateNos \cup {None},
                       mapping : Seq(Slots), chosen : {page'.chosen},
                       for : (Spools \X PlateNos) \cup {None}, basis : Held]
        BY <3>1, <3>2 DEF PageInv
      <4>4. QED
        BY <4>2, <4>3
    <3>3. CASE page' = [page EXCEPT !.mapping = <<>>, !.for = None, !.basis = Unread,
                                    !.chosen = <<>>]
      <4>1. page'.for = None
        BY <3>3 DEF PageInv
      <4>2. page' \in [file : Spools \cup {None}, plate : PlateNos \cup {None},
                       mapping : Seq(Slots), chosen : {page'.chosen},
                       for : (Spools \X PlateNos) \cup {None}, basis : Held]
        <5>1. <<>> \in Seq(Slots) /\ Unread \in Held
          BY DEF Held
        <5>2. QED
          BY <3>3, <5>1 DEF PageInv
      <4>3. QED
        BY <4>1, <4>2
    <3>4. QED
      BY <2>1, <3>2, <3>3
  <2>6. PageInv'
    BY <2>1, <2>3, <2>4, <2>5 DEF PageInv
  <2>7. StoreInv'
    BY <2>1 DEF StoreInv, linkv, realv
  <2>8. TaskInv'
    BY <2>1, TasksKept DEF linkv
  <2>9. QED
    BY <2>6, <2>7, <2>8
<1>4. ASSUME PickTray PROVE StoreInv' /\ PageInv' /\ TaskInv'
  <2> DEFINE fs == PlateOf(page.file, page.plate)
  <2>1. PICK f \in fs, v \in Choices :
          LET i == Cardinality({g \in fs : g.id <= f.id})
              n == IF i > Len(page.mapping) THEN i ELSE Len(page.mapping)
          IN  page' = [page EXCEPT
                !.mapping = [k \in 1..n |-> IF k = i THEN v
                                            ELSE IF k <= Len(@) THEN @[k] ELSE Hole],
                !.for = None, !.basis = Unread,
                !.chosen = [k \in {f.id} \cup DOMAIN @ |-> IF k = f.id THEN v ELSE @[k]]]
    BY <1>4 DEF PickTray
  <2>2. /\ UNCHANGED <<asks, disk, storage, linkv, realv, row, pc, foreign>>
        /\ page.file # None
    BY <1>4 DEF PickTray, InUse
  <2> DEFINE i == Cardinality({g \in fs : g.id <= f.id})
             len == Len(page.mapping)
             n == IF i > len THEN i ELSE len
             m == [k \in 1..n |-> IF k = i THEN v
                                  ELSE IF k <= len THEN page.mapping[k] ELSE Hole]
             ch == [k \in {f.id} \cup DOMAIN page.chosen |->
                      IF k = f.id THEN v ELSE page.chosen[k]]
  <2>3. page' = [page EXCEPT !.mapping = m, !.for = None, !.basis = Unread, !.chosen = ch]
    BY <2>1
  <2>4. i \in Nat
    <3>1. disk[page.file] \in File
      BY <2>2, Apart DEF PageInv, StoreInv
    <3>2. IsFiniteSet(fs)
      BY <3>1, PlateIs DEF IsPlate
    <3> HIDE DEF fs
    <3>3. IsFiniteSet({g \in fs : g.id <= f.id})
      BY <3>2, FS_Subset
    <3>4. QED
      BY <3>3, FS_CardinalityType
  <2> HIDE DEF i, ch, fs
  <2>5. len \in Nat /\ page.mapping \in [1 .. len -> Slots]
    BY DEF PageInv
  <2>6. v \in Slots /\ Hole \in Slots
    BY SubmissionAssumption DEF Slots
  <2> HIDE DEF len
  <2>7. m \in Seq(Slots)
    <3>1. n \in Nat
      BY <2>4, <2>5
    <3>2. ASSUME NEW k \in 1 .. n PROVE m[k] \in Slots
      <4>1. k <= len => k \in 1 .. len
        BY <2>5, <3>1
      <4>2. QED
        BY <2>5, <2>6, <4>1
    <3> HIDE DEF n
    <3>3. m \in [1 .. n -> Slots]
      BY <3>2
    <3> HIDE DEF m
    <3>4. QED
      BY <3>1, <3>3
  <2> HIDE DEF m
  <2>8. page'.file = page.file /\ page'.plate = page.plate /\ page'.for = None
    BY <2>3 DEF PageInv
  <2>9. page' \in [file : Spools \cup {None}, plate : PlateNos \cup {None},
                   mapping : Seq(Slots), chosen : {page'.chosen},
                   for : (Spools \X PlateNos) \cup {None}, basis : Held]
    BY <2>3, <2>7 DEF PageInv, Held
  <2>10. \A x, y : PlateOf(x, y)' = PlateOf(x, y)
    BY <2>2 DEF PlateOf
  <2>11. \A x \in asks' : Matched(x)'
    BY <2>2, <2>10 DEF PageInv, Matched
  <2>12. PageInv'
    BY <2>2, <2>8, <2>9, <2>11 DEF PageInv
  <2>13. StoreInv'
    BY <2>2 DEF StoreInv, linkv, realv
  <2>14. TaskInv'
    BY <2>2, TasksKept DEF linkv
  <2>15. QED
    BY <2>12, <2>13, <2>14
<1>5. QED
  BY <1>1, <1>2, <1>3, <1>4

(* Submissions.                                                            *)
LEMMA SubmitStep ==
  ASSUME StoreInv, PageInv, TaskInv, NEW t \in Tasks,
         PageSubmits(t) \/ ServiceSubmits(t) \/ CmdSubmits(t)
  PROVE  StoreInv' /\ PageInv' /\ TaskInv'
<1>1. UNCHANGED <<disk, storage, linkv, realv>>
  BY DEF PageSubmits, ServiceSubmits, CmdSubmits
<1>2. StoreInv'
  BY <1>1 DEF StoreInv, linkv, realv
<1>3. lent' = lent
  BY <1>1 DEF linkv
<1>4. CASE PageSubmits(t)
  <2>1. PICK n \in Names, o \in Settings :
          Accept(t, [Row(page.file, n, page.plate,
                         IF PlateOf(page.file, page.plate) = {} THEN <<>> ELSE page.mapping, o)
                     EXCEPT !.basis = IF page.for = <<page.file, page.plate>>
                                        THEN page.basis ELSE Unread])
    BY <1>4 DEF PageSubmits
  <2>2. page' = BlankPage /\ asks' = {} /\ page.file # None
    BY <1>4 DEF PageSubmits, InUse
  <2>3. PICK s, p, m, b :
          /\ s = page.file /\ p = page.plate
          /\ m = IF PlateOf(s, p) = {} THEN <<>> ELSE page.mapping
          /\ b = IF page.for = <<s, p>> THEN page.basis ELSE Unread
    OBVIOUS
  <2>4. /\ s \in Paths /\ disk[s] # NoFile /\ p \in DOMAIN Sliced[disk[s].model]
        /\ m \in Seq(Slots) /\ b \in Held
    BY <2>2, <2>3, Apart DEF PageInv, Held
  <2>5. b # Unread => m = MatchAms(PlateOf(s, p), b)
    <3>1. SUFFICES ASSUME b # Unread PROVE m = MatchAms(PlateOf(s, p), b)
      OBVIOUS
    <3>2. page.for = <<s, p>> /\ b = page.basis
      BY <2>3, <3>1
    <3>3. page.for # None
      <4>1. s \in Spools /\ p \in Nat
        BY <2>2, <2>3, <2>4, PlatesAre, Apart DEF PageInv, StoreInv, File
      <4>2. QED
        BY <3>2, <4>1, SubmissionAssumption
    <3>4. Matched(page) /\ page.for[1] = s /\ page.for[2] = p
      BY <3>2, <3>3 DEF PageInv
    <3>5. page.mapping = MatchAms(PlateOf(s, p), b)
      BY <3>2, <3>4 DEF Matched
    <3>6. PlateOf(s, p) = {} => MatchAms(PlateOf(s, p), b) = <<>>
      BY DEF MatchAms
    <3>7. QED
      BY <2>3, <3>5, <3>6
  <2>6. Acceptable([Row(s, n, p, m, o) EXCEPT !.basis = b])
    BY <2>4, <2>5, RowIs
  <2>7. Accept(t, [Row(s, n, p, m, o) EXCEPT !.basis = b])
    BY <2>1, <2>3
  <2>8. TaskInv'
    BY <1>1, <1>3, <2>6, <2>7, AcceptStep
  <2>9. QED
    BY <1>2, <2>2, <2>8, PageBlank
<1>5. CASE ServiceSubmits(t)
  <2>1. PICK s \in Spools : disk[s] # NoFile /\ \E r \in Offers(s, seen) : Accept(t, r)
    BY <1>5 DEF ServiceSubmits
  <2>2. PICK r \in Offers(s, seen) : Accept(t, r)
    BY <2>1
  <2>3. Acceptable(r)
    BY <2>1, OffersAre, Apart DEF StoreInv
  <2>4. TaskInv'
    BY <1>1, <1>3, <2>2, <2>3, AcceptStep
  <2>5. PageInv'
    BY <1>1, <1>5, PageForgets DEF ServiceSubmits
  <2>6. QED
    BY <1>2, <2>4, <2>5
<1>6. CASE CmdSubmits(t)
  <2>1. PICK f \in Originals :
          /\ disk[f] # NoFile
          /\ \E r \in UNION {Offers(f, held) : held \in {seen, trays, Unread}} : Accept(t, r)
    BY <1>6 DEF CmdSubmits
  <2>2. PICK held \in {seen, trays, Unread} : \E r \in Offers(f, held) : Accept(t, r)
    BY <2>1
  <2>3. PICK r \in Offers(f, held) : Accept(t, r)
    BY <2>2
  <2>4. held \in Held
    BY DEF StoreInv, Held
  <2>5. Acceptable(r)
    BY <2>1, <2>4, OffersAre, Apart
  <2>6. TaskInv'
    BY <1>1, <1>3, <2>3, <2>5, AcceptStep
  <2>7. PageInv'
    BY <1>1, <1>6, PageForgets DEF CmdSubmits
  <2>8. QED
    BY <1>2, <2>6, <2>7
<1>7. QED
  BY <1>4, <1>5, <1>6

\* Who borrows the link has it, connected.
LEMMA BorrowIs ==
  ASSUME StoreInv, NEW t \in Tasks, Borrow(t)
  PROVE  lent = None /\ lent' = t /\ conn' \in Switch /\ seen' \in Held
  BY DEF Borrow, StoreInv, Held

(* Uploads.                                                                *)
LEMMA UploadStep ==
  ASSUME StoreInv, PageInv, TaskInv, NEW t \in Tasks,
         PutBegin(t) \/ PutEnd(t) \/ PutFails(t)
  PROVE  StoreInv' /\ PageInv' /\ TaskInv'
<1>1. /\ pc[t] \in {"put", "fire put", "putting", "fire putting"}
      /\ UNCHANGED <<disk, defaults, pagev, realv>>
  BY DEF PutBegin, PutEnd, PutFails
<1>2. /\ Open(t) /\ RowOk(t) /\ row[t].state = "pending" /\ row[t] \in Rows
  BY <1>1 DEF TaskInv, TaskOk, Open, RowOk
<1>3. PageInv'
  BY <1>1, PageKept
<1>4. row[t].name \in Names /\ row[t].source \in Paths
  BY <1>2 DEF Rows
<1>5. ASSUME NEW u \in Tasks \ {t}, NEW own, foreign' = Replaced(t, own)
      PROVE  /\ foreign'[u] = foreign[u] \/ foreign'[u] # {}
             /\ Open(u) /\ row[u].name = row[t].name => foreign'[u] # {}
  BY <1>5 DEF Replaced
<1>6. CASE PutBegin(t)
  <2> DEFINE own == IF disk[row[t].source] = row[t].wanted THEN {} ELSE {"altered"}
  <2>1. /\ pc[t] \in {"put", "fire put"} /\ row' = row
        /\ storage' = [storage EXCEPT ![row[t].name] = Partial]
        /\ foreign' = Replaced(t, own)
        /\ pc' = [pc EXCEPT ![t] = IF pc[t] = "put" THEN "putting" ELSE "fire putting"]
    BY <1>6 DEF PutBegin
  <2>8. own = {} => disk[row[t].source] = row[t].wanted
    OBVIOUS
  <2> HIDE DEF own
  <2>9. (Borrow(t) /\ pc[t] = "put") \/ UNCHANGED <<seen, conn, lent>>
    BY <1>6 DEF PutBegin
  <2>2. seen' \in Held /\ conn' \in Switch \cup {None} /\ lent' \in Tasks \cup {None}
    BY <2>9, BorrowIs DEF StoreInv
  <2>3. StoreInv'
    BY <1>1, <2>1, <2>2 DEF StoreInv, realv
  <2>4. TaskOk(t)'
    <3>1. /\ pc'[t] = IF pc[t] = "put" THEN "putting" ELSE "fire putting"
          /\ foreign'[t] = own
      BY <2>1 DEF TaskInv, Replaced
    <3>2. pc'[t] = "fire putting" => lent' = t
      BY <2>9, <2>1, <3>1 DEF TaskInv, TaskOk
    <3>3. RowOk(t)'
      <4>1. pc'[t] # "start" /\ disk' = disk
        BY <1>1, <3>1
      <4>4. row'[t] = row[t]
        BY <2>1
      <4>2. foreign'[t] = {} => disk'[row[t].source] = row[t].wanted
        BY <1>1, <2>8, <3>1
      <4>3. QED
        BY <1>2, <4>1, <4>2, <4>4 DEF RowOk
    <3>4. QED
      <4>1. pc'[t] \in {"putting", "fire putting"} /\ row'[t] = row[t]
        BY <2>1, <3>1
      <4>2. QED
        BY <1>2, <4>1, <3>2, <3>3 DEF TaskOk, Places
  <2>5. ASSUME NEW u \in Tasks \ {t} PROVE TaskOk(u)'
    <3>1. lent = u => lent' = u
      BY <2>9, BorrowIs, SubmissionAssumption
    <3>2. pc'[u] = pc[u] /\ row'[u] = row[u]
      <4>1. pc' = [pc EXCEPT ![t] = IF pc[t] = "put" THEN "putting" ELSE "fire putting"]
        BY <2>1
      <4>2. pc'[u] = pc[u]
        BY <4>1 DEF TaskInv
      <4>3. row'[u] = row[u]
        BY <2>1
      <4>4. QED
        BY <4>2, <4>3
    <3>3. /\ foreign'[u] = foreign[u] \/ foreign'[u] # {}
          /\ Open(u) /\ row[u].name = row[t].name => foreign'[u] # {}
      BY <2>1, <1>5
    <3>4. row[u].name # row[t].name => storage'[row[u].name] = storage[row[u].name]
      <4>1. storage' = [storage EXCEPT ![row[t].name] = Partial]
        BY <2>1
      <4>2. QED
        BY <4>1
    <3>5. QED
      BY <1>1, <3>1, <3>2, <3>3, <3>4, OtherKept DEF TaskInv
  <2>6. DOMAIN pc' = Tasks /\ DOMAIN row' = Tasks /\ DOMAIN foreign' = Tasks
    BY <2>1 DEF TaskInv, Replaced
  <2>10. QED
    BY <1>3, <2>3, <2>4, <2>5, <2>6 DEF TaskInv
<1>7. CASE PutEnd(t)
  <2>1. PICK arrived \in {storage[row[t].name], disk[row[t].source]}, told \in BOOLEAN :
          LET whole == arrived = disk[row[t].source]
          IN  /\ storage' = [storage EXCEPT ![row[t].name] = arrived]
              /\ \/ /\ told => whole
                    /\ row' = [row EXCEPT ![t].state = "uploaded"]
                    /\ pc' = [pc EXCEPT ![t] = IF @ = "putting" THEN "due" ELSE "start"]
                    /\ lent' = IF lent = t /\ pc[t] = "putting" THEN None ELSE lent
                    /\ foreign' = Replaced(t, foreign[t] \cup IF told THEN {} ELSE {"unchecked"})
                 \/ ~whole /\ End(t, "failed")
    BY <1>7 DEF PutEnd
  <2>2. pc[t] \in {"putting", "fire putting"} /\ UNCHANGED <<seen, conn>>
    BY <1>7 DEF PutEnd
  <2>3. storage' \in [Names -> File \cup {NoFile, Partial}]
    BY <1>4, <2>1 DEF StoreInv
  <2>4. CASE arrived # disk[row[t].source] /\ End(t, "failed")
    <3>1. storage' = storage
      BY <1>4, <2>1, <2>4 DEF StoreInv
    <3>2. TaskInv' /\ lent' \in {lent, None}
      BY <1>1, <2>4, <3>1, EndStep
    <3>3. StoreInv'
      BY <1>1, <2>2, <2>3, <3>2 DEF StoreInv, realv
    <3>4. QED
      BY <1>3, <3>2, <3>3
  <2>5. CASE /\ told => arrived = disk[row[t].source]
             /\ row' = [row EXCEPT ![t].state = "uploaded"]
             /\ pc' = [pc EXCEPT ![t] = IF @ = "putting" THEN "due" ELSE "start"]
             /\ lent' = IF lent = t /\ pc[t] = "putting" THEN None ELSE lent
             /\ foreign' = Replaced(t, foreign[t] \cup IF told THEN {} ELSE {"unchecked"})
    <3>1. StoreInv'
      BY <1>1, <2>2, <2>3, <2>5 DEF StoreInv, realv
    <3>2. /\ row'[t] = [row[t] EXCEPT !.state = "uploaded"]
          /\ pc'[t] = IF pc[t] = "putting" THEN "due" ELSE "start"
          /\ foreign'[t] = foreign[t] \cup IF told THEN {} ELSE {"unchecked"}
      BY <2>5 DEF TaskInv, Replaced
    <3>3. /\ row'[t] \in Rows /\ row'[t].state = "uploaded"
          /\ row'[t].name = row[t].name /\ row'[t].source = row[t].source
          /\ row'[t].plate = row[t].plate /\ row'[t].mapping = row[t].mapping
          /\ row'[t].wanted = row[t].wanted /\ row'[t].basis = row[t].basis
      BY <1>2, <3>2 DEF Rows
    <3>4. foreign'[t] = {} => storage'[row[t].name] = row[t].wanted
      <4>1. SUFFICES ASSUME foreign'[t] = {} PROVE storage'[row[t].name] = row[t].wanted
        OBVIOUS
      <4>2. foreign[t] = {} /\ arrived = disk[row[t].source]
        BY <2>5, <3>2, <4>1
      <4>3. disk[row[t].source] = row[t].wanted
        BY <1>2, <2>2, <4>2 DEF RowOk
      <4>4. QED
        BY <1>4, <2>1, <4>2, <4>3 DEF StoreInv
    <3>5. RowOk(t)'
      <4>1. pc'[t] \notin {"putting", "fire putting"}
        BY <3>2
      <4>2. QED
        BY <1>2, <3>3, <3>4, <4>1 DEF RowOk
    <3>6. TaskOk(t)'
      <4>1. pc'[t] = "start" => lent' = t
        BY <2>2, <2>5, <3>2 DEF TaskInv, TaskOk
      <4>2. QED
        BY <3>2, <3>5, <4>1 DEF TaskOk, Places
    <3>7. ASSUME NEW u \in Tasks \ {t} PROVE TaskOk(u)'
      <4>1. lent = u => lent' = u
        BY <2>5
      <4>2. pc'[u] = pc[u] /\ row'[u] = row[u]
        BY <2>5
      <4>3. /\ foreign'[u] = foreign[u] \/ foreign'[u] # {}
            /\ Open(u) /\ row[u].name = row[t].name => foreign'[u] # {}
        BY <2>5, <1>5
      <4>4. row[u].name # row[t].name => storage'[row[u].name] = storage[row[u].name]
        BY <2>1
      <4>5. QED
        BY <1>1, <4>1, <4>2, <4>3, <4>4, OtherKept DEF TaskInv
    <3>8. DOMAIN pc' = Tasks /\ DOMAIN row' = Tasks /\ DOMAIN foreign' = Tasks
      BY <2>5 DEF TaskInv, Replaced
    <3>9. QED
      BY <1>3, <3>1, <3>6, <3>7, <3>8 DEF TaskInv
  <2>6. QED
    BY <2>1, <2>4, <2>5
<1>8. CASE PutFails(t)
  <2>1. End(t, "failed") /\ UNCHANGED <<disk, storage, seen, defaults, conn, pagev, realv>>
    BY <1>8 DEF PutFails
  <2>2. TaskInv' /\ lent' \in {lent, None}
    BY <2>1, EndStep
  <2>3. StoreInv'
    BY <2>1, <2>2 DEF StoreInv, realv
  <2>4. QED
    BY <1>3, <2>2, <2>3
<1>9. QED
  BY <1>6, <1>7, <1>8

(* Fires.                                                                  *)
LEMMA FireStep ==
  ASSUME StoreInv, PageInv, TaskInv, NEW t \in Tasks,
         Fire(t) \/ FireGivesUp(t) \/ Start(t)
  PROVE  StoreInv' /\ PageInv' /\ TaskInv'
<1>1. UNCHANGED <<disk, storage, defaults, pagev, trays, upsets>>
  BY DEF Fire, FireGivesUp, Start, realv
<1>2. PageInv'
  BY <1>1, PageKept
<1>3. CASE Fire(t)
  <2>1. /\ pc[t] = "due" /\ Borrow(t) /\ row' = row /\ foreign' = foreign
        /\ pc' = [pc EXCEPT ![t] = IF row[t].state = "uploaded" THEN "start" ELSE "fire put"]
    BY <1>3 DEF Fire
  <2>2. StoreInv'
    BY <1>1, <2>1, BorrowIs DEF StoreInv
  <2>3. Open(t) /\ RowOk(t) /\ row[t] \in Rows
    BY <2>1 DEF TaskInv, TaskOk, Open, RowOk
  <2>4. row[t].state \in {"pending", "uploaded"}
    BY <2>3 DEF Rows
  <2>5. pc'[t] = IF row[t].state = "uploaded" THEN "start" ELSE "fire put"
    BY <2>1 DEF TaskInv
  <2>6. RowOk(t)'
    <3>1. pc'[t] \notin {"putting", "fire putting"} /\ (pc'[t] = "start" => row[t].state = "uploaded")
      BY <2>5
    <3>2. row'[t] = row[t] /\ foreign'[t] = foreign[t] /\ storage' = storage
      BY <1>1, <2>1
    <3>3. QED
      BY <2>3, <3>1, <3>2 DEF RowOk
  <2>7. TaskOk(t)'
    <3>1. lent' = t
      BY <2>1, BorrowIs
    <3>2. row'[t] = row[t] /\ (pc'[t] = "fire put" => row[t].state = "pending")
      <4>1. row'[t] = row[t]
        BY <2>1
      <4>2. row[t].state = "uploaded" => pc'[t] = "start"
        BY <2>5
      <4>3. QED
        BY <2>4, <4>1, <4>2
    <3>3. QED
      BY <2>5, <2>6, <3>1, <3>2 DEF TaskOk, Places
  <2>8. ASSUME NEW u \in Tasks \ {t} PROVE TaskOk(u)'
    BY <1>1, <2>1, BorrowIs, OtherKept, SubmissionAssumption DEF TaskInv
  <2>9. QED
    BY <1>2, <2>1, <2>2, <2>7, <2>8 DEF TaskInv
<1>4. ASSUME NEW outcome, End(t, outcome), UNCHANGED <<seen, conn>>
      PROVE  StoreInv' /\ TaskInv'
  <2>1. TaskInv' /\ lent' \in {lent, None}
    BY <1>1, <1>4, EndStep
  <2>2. StoreInv'
    BY <1>1, <1>4, <2>1 DEF StoreInv
  <2>3. QED
    BY <2>1, <2>2
<1>5. CASE FireGivesUp(t)
  BY <1>2, <1>4, <1>5 DEF FireGivesUp
<1>6. CASE Start(t)
  BY <1>2, <1>4, <1>6 DEF Start
<1>7. QED
  BY <1>3, <1>5, <1>6

(* The user, the printer and the link, or nobody.                          *)
LEMMA WorldStep ==
  ASSUME StoreInv, PageInv, TaskInv,
         \/ Save \/ Swap \/ PrintEnds \/ Report \/ Disconnect \/ Connect \/ ChangeDefaults
         \/ UNCHANGED vars
  PROVE  StoreInv' /\ PageInv' /\ TaskInv'
<1>1. UNCHANGED <<storage, pagev, lent, row, pc, foreign>>
  BY DEF Save, Swap, PrintEnds, Report, Disconnect, Connect, ChangeDefaults, linkv, vars
<1>2. CASE Save
  <2>1. PICK o \in Originals, f \in Handed \cup {NoFile} : disk' = [disk EXCEPT ![o] = f]
    BY <1>2 DEF Save
  <2>2. /\ \A t \in Tasks : pc[t] \notin {"putting", "fire putting"}
        /\ UNCHANGED <<linkv, trays>>
    BY <1>2 DEF Save
  <2>3. f \in File \cup {NoFile}
    <3>1. ASSUME f \in Handed PROVE f \in File
      <4>1. PICK m \in Models : f = [model |-> m, aux |-> m \in Heavy]
        BY <3>1 DEF Handed
      <4>2. QED
        BY <4>1 DEF File
    <3>2. QED
      BY <3>1
  <2>4. \A s \in Spools : disk'[s] = disk[s]
    BY <2>1, Apart
  <2>5. StoreInv'
    BY <1>1, <2>1, <2>2, <2>3, <2>4, Apart DEF StoreInv, linkv
  <2>6. PageInv'
    BY <1>1, <2>4, PageKept
  <2>7. ASSUME NEW u \in Tasks PROVE TaskOk(u)'
    BY <1>1, <2>2, OtherKept DEF TaskInv
  <2>8. QED
    BY <1>1, <2>5, <2>6, <2>7 DEF TaskInv
<1>3. CASE Swap
  <2>1. PICK i \in TrayIds, r \in Reels : trays' = [trays EXCEPT ![i] = r]
    BY <1>3 DEF Swap
  <2>2. UNCHANGED <<disk, linkv>>
    BY <1>3 DEF Swap
  <2>3. StoreInv'
    BY <1>1, <2>1, <2>2 DEF StoreInv, linkv
  <2>4. QED
    BY <1>1, <2>2, <2>3, PageKept, TasksKept
<1>4. CASE ~Save /\ ~Swap
  <2>1. disk' = disk /\ trays' = trays
    BY <1>4 DEF PrintEnds, Report, Disconnect, Connect, ChangeDefaults, realv, vars
  <2>2. seen' \in Held /\ conn' \in Switch \cup {None} /\ defaults' \in Switch
    BY <1>4 DEF PrintEnds, Report, Disconnect, Connect, ChangeDefaults, linkv, vars, StoreInv, Held
  <2>3. StoreInv'
    BY <1>1, <2>1, <2>2 DEF StoreInv
  <2>4. QED
    BY <1>1, <2>1, <2>3, PageKept, TasksKept
<1>5. QED
  BY <1>2, <1>3, <1>4

(* The invariant holds, from the start and through every step.             *)
LEMMA SubmissionInit == Init => StoreInv /\ PageInv /\ TaskInv
<1>1. SUFFICES ASSUME Init PROVE StoreInv /\ PageInv /\ TaskInv
  OBVIOUS
<1>2. PICK f \in [Originals -> Handed] : disk = [p \in Paths |-> IF p \in Spools THEN NoFile ELSE f[p]]
  BY <1>1 DEF Init
<1>3. \A h \in Handed : h \in File
  <2>1. SUFFICES ASSUME NEW h \in Handed PROVE h \in File
    OBVIOUS
  <2>2. PICK m \in Models : h = [model |-> m, aux |-> m \in Heavy]
    BY DEF Handed
  <2>3. QED
    BY <2>2 DEF File
<1>4. \A p \in Paths : disk[p] \in File \cup {NoFile}
  BY <1>2, <1>3 DEF Paths
<1>5. StoreInv
  <2>1. disk \in [Paths -> File \cup {NoFile}]
    BY <1>2, <1>4
  <2>2. \A s \in Spools : disk[s] = NoFile
    BY <1>2 DEF Paths
  <2>3. /\ storage \in [Names -> File \cup {NoFile, Partial}]
        /\ trays \in [TrayIds -> Reels] /\ seen \in Held
        /\ defaults \in Switch /\ conn \in Switch \cup {None}
        /\ lent \in Tasks \cup {None}
    BY <1>1, SubmissionAssumption DEF Init, Held, Switch
  <2>4. QED
    BY <2>1, <2>2, <2>3 DEF StoreInv
<1>6. PageInv
  BY <1>1 DEF Init, PageInv, BlankPage, Held
<1>7. TaskInv
  <2>1. DOMAIN pc = Tasks /\ DOMAIN row = Tasks /\ DOMAIN foreign = Tasks
    BY <1>1 DEF Init
  <2>2. \A t \in Tasks : pc[t] = "none"
    BY <1>1 DEF Init
  <2>3. QED
    BY <2>1, <2>2 DEF TaskInv, TaskOk, Open, Places
<1>8. QED
  BY <1>5, <1>6, <1>7

LEMMA SubmissionNext ==
  ASSUME StoreInv, PageInv, TaskInv, [Next]_vars
  PROVE  StoreInv' /\ PageInv' /\ TaskInv'
<1>1. CASE \E t \in Tasks : PageSubmits(t) \/ ServiceSubmits(t) \/ CmdSubmits(t)
  BY <1>1, SubmitStep
<1>2. CASE \E t \in Tasks : PutBegin(t) \/ PutEnd(t) \/ PutFails(t)
  BY <1>2, UploadStep
<1>3. CASE \E t \in Tasks : Fire(t) \/ FireGivesUp(t) \/ Start(t)
  BY <1>3, FireStep
<1>4. CASE (\E s \in Spools : Upload(s)) \/ ChoosePlate \/ Arrive \/ PickTray
  BY <1>4, PageStep
<1>5. CASE \/ Save \/ Swap \/ PrintEnds \/ Report \/ Disconnect \/ Connect \/ ChangeDefaults
           \/ UNCHANGED vars
  BY <1>5, WorldStep
<1>6. QED
  BY <1>1, <1>2, <1>3, <1>4, <1>5 DEF Next

LEMMA SubmissionInvariant == Spec => [](StoreInv /\ PageInv /\ TaskInv)
<1>1. Init => StoreInv /\ PageInv /\ TaskInv
  BY SubmissionInit
<1>2. (StoreInv /\ PageInv /\ TaskInv) /\ [Next]_vars => (StoreInv /\ PageInv /\ TaskInv)'
  BY SubmissionNext
<1>3. QED
  BY <1>1, <1>2, PTL DEF Spec

-----------------------------------------------------------------------------
(* The theorems.                                                           *)

(* Whatever the page, the command line, the printer and the uploads do in  *)
(* whatever order: files, snapshot and mappings are what the code takes    *)
(* them for, and who fires has the link to itself (taskrunner.py:109).     *)
THEOREM SubmissionTypeCorrect == Spec => []TypeOK
<1>1. ASSUME NEW m \in Seq(Slots) PROVE IsMapping(m)
  BY <1>1 DEF IsMapping, Slots
<1>2. StoreInv /\ PageInv /\ TaskInv => TypeOK
  <2>1. SUFFICES ASSUME StoreInv, PageInv, TaskInv PROVE TypeOK
    OBVIOUS
  <2>2. IsMapping(page.mapping)
    BY <1>1, <2>1 DEF PageInv
  <2>3. ASSUME NEW t \in Tasks, Open(t)
        PROVE  row[t].source \in Paths /\ row[t].plate \in PlateNos /\ IsMapping(row[t].mapping)
    <3>1. row[t] \in Rows
      BY <2>1, <2>3 DEF TaskInv, TaskOk, RowOk
    <3>2. QED
      BY <1>1, <3>1 DEF Rows
  <2>4. \A t \in Tasks : pc[t] \in {"fire put", "fire putting", "start"} => lent = t
    BY <2>1 DEF TaskInv, TaskOk
  <2>5. QED
    BY <2>1, <2>2, <2>3, <2>4 DEF TypeOK, StoreInv, Held
<1>3. QED
  BY <1>2, SubmissionInvariant, PTL

\* What the invariant says of a task whose print starts.
LEMMA AtTheStart ==
  ASSUME TaskInv, NEW t \in Tasks, pc[t] = "start", foreign[t] = {}
  PROVE  /\ row[t] \in Rows /\ storage[row[t].name] = row[t].wanted
         /\ row[t].plate \in DOMAIN Sliced[row[t].wanted.model]
         /\ row[t].source \in Spools => ~row[t].wanted.aux
         /\ row[t].basis # Unread =>
              row[t].mapping = MatchAms(Sliced[row[t].wanted.model][row[t].plate], row[t].basis)
  BY DEF TaskInv, TaskOk, RowOk, Open

(* service.py:178, lan.py:205: for any number of tasks that share names    *)
(* and files, the print that starts is of the file that was submitted.     *)
THEOREM PrintsItsFileAlways == Spec => PrintsItsFile
<1> DEFINE Right == \A t \in Tasks : Starts(t) /\ foreign[t] = {} =>
             LET f == storage[Payload(t).name]
             IN  /\ f = row[t].wanted
                 /\ Payload(t).plate \in DOMAIN Sliced[f.model]
                 /\ row[t].source \in Spools => ~f.aux
<1>1. TaskInv => Right
  BY AtTheStart DEF Starts, Payload
<1>2. (StoreInv /\ PageInv /\ TaskInv) /\ [Next]_vars => [Right]_vars
  BY <1>1
<1>3. QED
  BY <1>2, SubmissionInvariant, PTL DEF Spec, PrintsItsFile

(* threemf.py:184: for plates with any filaments and printers with any     *)
(* spools, as long as there is a slot to put one in, the print that starts *)
(* takes each filament from a slot that fits it.                           *)
THEOREM FeedsRightSpoolAlways ==
  ASSUME TrayIds # {}
  PROVE  Spec => FeedsRightSpool
<1> DEFINE Right == \A t \in Tasks :
             Starts(t) /\ row[t].basis = trays /\ foreign[t] = {} =>
               \A f \in Printed(t) :
                 f.id \in DOMAIN Payload(t).mapping /\ Fits(f, Payload(t).mapping[f.id])
<1>1. ASSUME StoreInv, TaskInv PROVE Right
  <2>1. SUFFICES ASSUME NEW t \in Tasks, pc[t] = "start", row[t].basis = trays, foreign[t] = {}
                 PROVE  \A f \in Printed(t) :
                          /\ f.id \in DOMAIN Payload(t).mapping
                          /\ Fits(f, Payload(t).mapping[f.id])
    BY DEF Starts
  <2>2. trays \in Held /\ trays # Unread
    BY <1>1 DEF StoreInv, Held, Unread
  <2> DEFINE fs == Sliced[row[t].wanted.model][row[t].plate]
  <2>3. /\ Printed(t) = fs /\ Payload(t).mapping = MatchAms(fs, trays)
        /\ row[t].wanted.model \in Models /\ row[t].plate \in DOMAIN Sliced[row[t].wanted.model]
    BY <1>1, <2>1, <2>2, AtTheStart DEF Printed, Payload, Rows, File
  <2>4. IsPlate(fs)
    BY <2>3, PlatesAre
  <2> HIDE DEF fs
  <2>5. ASSUME NEW f \in fs
        PROVE  f.id \in DOMAIN MatchAms(fs, trays) /\ Fits(f, MatchAms(fs, trays)[f.id])
    <3>1. f.color \in Int
      BY <2>4 DEF IsPlate
    <3>2. Fits(f, Nearest(f, trays))
      BY <1>1, <3>1, NearestFits DEF StoreInv
    <3>3. QED
      BY <2>2, <2>4, <3>2, MatchIs
  <2>6. QED
    BY <2>3, <2>5
<1>2. (StoreInv /\ PageInv /\ TaskInv) /\ [Next]_vars => [Right]_vars
  BY <1>1
<1>3. QED
  BY <1>2, SubmissionInvariant, PTL DEF Spec, FeedsRightSpool

=============================================================================
