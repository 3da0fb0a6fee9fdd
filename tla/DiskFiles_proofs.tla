-------------------------- MODULE DiskFiles_proofs --------------------------
(* Theorems about the three files of MCDiskFiles: what ConfigReload_proofs *)
(* shows of the configuration, and the proofs for Journal and for          *)
(* StoreMigration, for any number of requests, records, deletes, processes *)
(* that open the database, columns, crashes and kills.                     *)
EXTENDS MCDiskFiles, ConfigReload_proofs, SequenceTheorems, FiniteSetTheorems, FunctionTheorems,
        WellFoundedInduction

-----------------------------------------------------------------------------
(* The journal.                                                            *)

LEMMA SetInduction ==
  ASSUME NEW S \in SUBSET Nat, 0 \in S, \A n \in S : n + 1 \in S PROVE S = Nat
<1> DEFINE R == OpToRel(<, Nat)
<1>1. \A m, n \in Nat : m < n => <<m, n>> \in R
  BY DEF OpToRel
<1>2. IsWellFoundedOn(R, Nat)
  BY NatLessThanWellFounded
<1> HIDE DEF R
<1>3. SUFFICES ASSUME Nat \ S # {} PROVE FALSE
  OBVIOUS
<1>4. PICK x \in Nat \ S : \A y \in Nat \ S : ~(<<y, x>> \in R)
  BY <1>2, <1>3, WFMin
<1>5. x # 0 /\ x - 1 \in Nat /\ x - 1 < x
  OBVIOUS
<1>6. x - 1 \in S
  BY <1>1, <1>4, <1>5
<1>7. (x - 1) + 1 = x
  BY <1>5
<1>8. QED
  BY <1>6, <1>7

Walk(f, n, s, S) == f = [i \in 0 .. n |->
        IF i = 0 THEN <<>>
        ELSE IF s[i] \in S THEN Append(f[i - 1], s[i]) ELSE f[i - 1]]

LEMMA OnlyWalk ==
  ASSUME NEW T, NEW s \in Seq(T), NEW S
  PROVE  \E f : Walk(f, Len(s), s, S) /\ J!Only(s, S) = f[Len(s)]
<1> DEFINE Good == {n \in Nat : \E f : Walk(f, n, s, S)}
<1>1. 0 \in Good
  <2>1. Walk([i \in 0 .. 0 |-> <<>>], 0, s, S)
    BY DEF Walk
  <2>2. QED
    BY <2>1
<1>2. ASSUME NEW n \in Good PROVE n + 1 \in Good
  <2>0. n \in Nat
    OBVIOUS
  <2>1. PICK f : Walk(f, n, s, S)
    OBVIOUS
  <2> HIDE DEF Good
  <2>2. f[0] = <<>>
    BY <2>0, <2>1 DEF Walk
  <2>3. ASSUME NEW i \in 1 .. n
        PROVE  f[i] = IF s[i] \in S THEN Append(f[i - 1], s[i]) ELSE f[i - 1]
    <3>1. i \in 0 .. n /\ i # 0
      BY <2>0
    <3>2. QED
      BY <3>1, <2>1, Zenon DEF Walk
  <2> DEFINE Last == IF s[n + 1] \in S THEN Append(f[n], s[n + 1]) ELSE f[n]
             g == [i \in 0 .. n + 1 |-> IF i = n + 1 THEN Last ELSE f[i]]
             h == [i \in 0 .. n + 1 |->
                     IF i = 0 THEN <<>>
                     ELSE IF s[i] \in S THEN Append(g[i - 1], s[i]) ELSE g[i - 1]]
  <2>4. n + 1 \in 0 .. n + 1 /\ n # n + 1 /\ n + 1 - 1 = n /\ n \in 0 .. n + 1
    BY <2>0
  <2>5. g[n + 1] = Last
    BY <2>4
  <2>6. ASSUME NEW i \in 0 .. n PROVE g[i] = f[i]
    <3>1. i \in 0 .. n + 1 /\ i # n + 1
      BY <2>0
    <3>2. QED
      BY <3>1
  <2>7. ASSUME NEW i \in 0 .. n + 1 PROVE g[i] = h[i]
    <3> HIDE DEF g, Last
    <3>1. CASE i = 0
      <4>1. 0 \in 0 .. n
        BY <2>0
      <4>2. QED
        BY <3>1, <4>1, <2>2, <2>6
    <3>2. CASE i \in 1 .. n
      <4>1. i \in 0 .. n /\ i - 1 \in 0 .. n /\ i # 0
        BY <2>0, <3>2
      <4>2. g[i] = f[i] /\ g[i - 1] = f[i - 1]
        BY <4>1, <2>6
      <4>3. f[i] = IF s[i] \in S THEN Append(f[i - 1], s[i]) ELSE f[i - 1]
        BY <3>2, <2>3
      <4>4. h[i] = IF s[i] \in S THEN Append(g[i - 1], s[i]) ELSE g[i - 1]
        BY <4>1
      <4>5. QED
        BY <4>2, <4>3, <4>4
    <3>3. CASE i = n + 1
      <4>1. i # 0 /\ i - 1 = n /\ n \in 0 .. n
        BY <2>0, <3>3
      <4>2. g[i - 1] = f[n]
        BY <4>1, <2>6
      <4>3. h[i] = IF s[i] \in S THEN Append(g[i - 1], s[i]) ELSE g[i - 1]
        BY <4>1
      <4>4. QED
        BY <4>2, <4>3, <2>5, <3>3 DEF Last
    <3>4. i = 0 \/ i \in 1 .. n \/ i = n + 1
      BY <2>0
    <3>5. QED
      BY <3>1, <3>2, <3>3, <3>4
  <2>8. g = h
    <3>1. \A i \in 0 .. n + 1 : g[i] = h[i]
      BY <2>7
    <3>2. g = [i \in 0 .. n + 1 |-> g[i]]
      OBVIOUS
    <3>3. h = [i \in 0 .. n + 1 |-> h[i]]
      OBVIOUS
    <3> HIDE DEF g, h
    <3>4. [i \in 0 .. n + 1 |-> g[i]] = [i \in 0 .. n + 1 |-> h[i]]
      BY <3>1
    <3>5. QED
      BY <3>2, <3>3, <3>4, Zenon
  <2>9. Walk(g, n + 1, s, S)
    BY <2>8, Zenon DEF Walk
  <2>10. QED
    <3> HIDE DEF g
    <3>1. n + 1 \in Nat
      BY <2>0
    <3>2. QED
      BY <3>1, <2>9 DEF Good
<1>3. Good = Nat
  <2> HIDE DEF Good
  <2>1. Good \subseteq Nat
    BY DEF Good
  <2>2. QED
    BY <1>1, <1>2, <2>1, SetInduction
<1>4. Len(s) \in Good
  <2> HIDE DEF Good
  <2>1. QED
    BY <1>3
<1>5. \E f : Walk(f, Len(s), s, S)
  BY <1>4
<1>6. J!Only(s, S) = (CHOOSE f : Walk(f, Len(s), s, S))[Len(s)]
  BY DEF J!Only, Walk
<1>7. QED
  BY <1>5, <1>6

\* What a walk has kept of the first i members.
Kept(s, S, x, i) ==
  /\ x \in Seq(S)
  /\ J!RangeOf(x) = {s[j] : j \in 1 .. i} \cap S
  /\ J!Once(x)
  /\ \A a, b : J!Older(x, a, b) => \E p, q \in 1 .. i : p < q /\ s[p] = a /\ s[q] = b

LEMMA RangeAppend ==
  ASSUME NEW S, NEW x \in Seq(S), NEW e
  PROVE  J!RangeOf(Append(x, e)) = J!RangeOf(x) \cup {e}
<1>1. DOMAIN x = 1 .. Len(x) /\ Len(x) \in Nat
  OBVIOUS
<1> DEFINE y == Append(x, e)
<1>2. DOMAIN y = 1 .. Len(x) + 1
  OBVIOUS
<1>3. y[Len(x) + 1] = e /\ \A i \in 1 .. Len(x) : y[i] = x[i]
  OBVIOUS
<1> HIDE DEF y
<1>4. \A i : i \in 1 .. Len(x) + 1 <=> i \in 1 .. Len(x) \/ i = Len(x) + 1
  BY <1>1
<1>5. QED
  BY <1>1, <1>2, <1>3, <1>4, Zenon DEF J!RangeOf, y

LEMMA OnceAppend ==
  ASSUME NEW S, NEW x \in Seq(S), NEW e, J!Once(x), e \notin J!RangeOf(x) \/ e = J!None
  PROVE  J!Once(Append(x, e))
<1>1. DOMAIN x = 1 .. Len(x) /\ Len(x) \in Nat
  OBVIOUS
<1> DEFINE y == Append(x, e)
<1>2. DOMAIN y = 1 .. Len(x) + 1
  OBVIOUS
<1>3. y[Len(x) + 1] = e /\ \A i \in 1 .. Len(x) : y[i] = x[i]
  OBVIOUS
<1> HIDE DEF y
<1> SUFFICES ASSUME NEW i \in DOMAIN y, NEW j \in DOMAIN y, y[i] = y[j], y[i] # J!None
             PROVE  i = j
  BY DEF J!Once, y
<1>4. CASE i \in 1 .. Len(x) /\ j \in 1 .. Len(x)
  BY <1>1, <1>3, <1>4 DEF J!Once
<1>5. CASE i = Len(x) + 1 /\ j \in 1 .. Len(x)
  BY <1>1, <1>3, <1>5 DEF J!RangeOf
<1>6. CASE i \in 1 .. Len(x) /\ j = Len(x) + 1
  BY <1>1, <1>3, <1>6 DEF J!RangeOf
<1>7. QED
  BY <1>1, <1>2, <1>4, <1>5, <1>6

LEMMA OlderAppend ==
  ASSUME NEW S, NEW x \in Seq(S), NEW e, NEW a, NEW b
  PROVE  J!Older(Append(x, e), a, b) <=> J!Older(x, a, b) \/ (b = e /\ a \in J!RangeOf(x))
<1>1. DOMAIN x = 1 .. Len(x) /\ Len(x) \in Nat
  OBVIOUS
<1> DEFINE y == Append(x, e)
<1>2. DOMAIN y = 1 .. Len(x) + 1
  OBVIOUS
<1>3. y[Len(x) + 1] = e /\ \A i \in 1 .. Len(x) : y[i] = x[i]
  OBVIOUS
<1> HIDE DEF y
<1>4. ASSUME J!Older(y, a, b) PROVE J!Older(x, a, b) \/ (b = e /\ a \in J!RangeOf(x))
  <2>1. PICK i \in DOMAIN y, j \in DOMAIN y : i < j /\ y[i] = a /\ y[j] = b
    BY <1>4 DEF J!Older
  <2>2. i \in 1 .. Len(x) /\ (j \in 1 .. Len(x) \/ j = Len(x) + 1)
    BY <1>1, <1>2, <2>1
  <2>3. QED
    BY <1>1, <1>3, <2>1, <2>2 DEF J!Older, J!RangeOf
<1>5. ASSUME J!Older(x, a, b) PROVE J!Older(y, a, b)
  <2>1. PICK i \in DOMAIN x, j \in DOMAIN x : i < j /\ x[i] = a /\ x[j] = b
    BY <1>5 DEF J!Older
  <2>2. i \in DOMAIN y /\ j \in DOMAIN y /\ y[i] = a /\ y[j] = b
    BY <1>1, <1>2, <1>3, <2>1
  <2>3. QED
    BY <2>1, <2>2 DEF J!Older
<1>6. ASSUME b = e, a \in J!RangeOf(x) PROVE J!Older(y, a, b)
  <2>1. PICK i \in DOMAIN x : x[i] = a
    BY <1>6 DEF J!RangeOf
  <2>2. i \in DOMAIN y /\ Len(x) + 1 \in DOMAIN y /\ i < Len(x) + 1
        /\ y[i] = a /\ y[Len(x) + 1] = b
    BY <1>1, <1>2, <1>3, <1>6, <2>1
  <2>3. QED
    BY <2>2 DEF J!Older
<1>7. QED
  BY <1>4, <1>5, <1>6 DEF y

LEMMA OnlyKeeps ==
  ASSUME NEW T, NEW s \in Seq(T), NEW S, J!Once(s), J!None \notin S
  PROVE  /\ J!Only(s, S) \in Seq(S)
         /\ J!RangeOf(J!Only(s, S)) = J!RangeOf(s) \cap S
         /\ J!Once(J!Only(s, S))
         /\ \A a, b : J!Older(J!Only(s, S), a, b) => J!Older(s, a, b)
<1>1. PICK f : Walk(f, Len(s), s, S) /\ J!Only(s, S) = f[Len(s)]
  BY OnlyWalk
<1>2. Len(s) \in Nat /\ DOMAIN s = 1 .. Len(s)
  OBVIOUS
<1> DEFINE Good == {n \in Nat : n <= Len(s) => Kept(s, S, f[n], n)}
<1>3. 0 \in Good
  <2>1. 0 \in 0 .. Len(s)
    BY <1>2
  <2>2. f[0] = <<>>
    BY <1>1, <2>1 DEF Walk
  <2>3. 1 .. 0 = {} /\ DOMAIN <<>> = {}
    OBVIOUS
  <2>4. Kept(s, S, <<>>, 0)
    BY <2>3 DEF Kept, J!RangeOf, J!Once, J!Older
  <2>5. QED
    BY <2>2, <2>4
<1>4. ASSUME NEW n \in Good PROVE n + 1 \in Good
  <2>1. n \in Nat /\ (n <= Len(s) => Kept(s, S, f[n], n))
    OBVIOUS
  <2> HIDE DEF Good
  <2>2. SUFFICES ASSUME n + 1 <= Len(s) PROVE Kept(s, S, f[n + 1], n + 1)
    BY <2>1 DEF Good
  <2>3. Kept(s, S, f[n], n)
    BY <1>2, <2>1, <2>2
  <2>4. n + 1 \in 0 .. Len(s) /\ n + 1 # 0 /\ n + 1 - 1 = n /\ n + 1 \in DOMAIN s
    BY <1>2, <2>1, <2>2
  <2>5. f[n + 1] = IF s[n + 1] \in S THEN Append(f[n], s[n + 1]) ELSE f[n]
    <3> DEFINE k == n + 1
    <3>1. k \in 0 .. Len(s) /\ k # 0 /\ k - 1 = n
      BY <1>2, <2>1, <2>2
    <3> HIDE DEF k
    <3>2. f[k] = IF s[k] \in S THEN Append(f[k - 1], s[k]) ELSE f[k - 1]
      BY <1>1, <3>1, Zenon DEF Walk
    <3>3. f[k] = IF s[k] \in S THEN Append(f[n], s[k]) ELSE f[n]
      BY <3>1, <3>2
    <3>4. QED
      BY <3>3 DEF k
  <2>6. {s[j] : j \in 1 .. n + 1} = {s[j] : j \in 1 .. n} \cup {s[n + 1]}
    <3>1. \A j : j \in 1 .. n + 1 <=> j \in 1 .. n \/ j = n + 1
      BY <2>1
    <3>2. QED
      BY <3>1
  <2>7. CASE s[n + 1] \in S
    <3>1. f[n] \in Seq(S) /\ J!Once(f[n])
      BY <2>3 DEF Kept
    <3>2. s[n + 1] \notin J!RangeOf(f[n])
      <4>1. SUFFICES ASSUME s[n + 1] \in J!RangeOf(f[n]) PROVE FALSE
        OBVIOUS
      <4>2. PICK j \in 1 .. n : s[j] = s[n + 1]
        BY <2>3, <4>1 DEF Kept
      <4>3. j \in DOMAIN s /\ j # n + 1
        BY <2>1, <2>2, <1>2
      <4>4. QED
        BY <4>2, <4>3, <2>4, <2>7 DEF J!Once
    <3>3. f[n + 1] = Append(f[n], s[n + 1])
      BY <2>5, <2>7
    <3>4. Append(f[n], s[n + 1]) \in Seq(S)
      BY <3>1, <2>7
    <3>5. J!RangeOf(Append(f[n], s[n + 1])) = J!RangeOf(f[n]) \cup {s[n + 1]}
      BY <3>1, RangeAppend
    <3>6. J!Once(Append(f[n], s[n + 1]))
      BY <3>1, <3>2, OnceAppend
    <3>7. J!RangeOf(f[n]) = {s[j] : j \in 1 .. n} \cap S
      BY <2>3 DEF Kept
    <3>8. J!RangeOf(f[n + 1]) = {s[j] : j \in 1 .. n + 1} \cap S
      BY <3>3, <3>5, <3>7, <2>6, <2>7
    <3>9. ASSUME NEW a, NEW b, J!Older(f[n + 1], a, b)
          PROVE  \E p, q \in 1 .. n + 1 : p < q /\ s[p] = a /\ s[q] = b
      <4>1. J!Older(f[n], a, b) \/ (b = s[n + 1] /\ a \in J!RangeOf(f[n]))
        BY <3>1, <3>3, <3>9, OlderAppend
      <4>2. \A p \in 1 .. n : p \in 1 .. n + 1 /\ p < n + 1
        BY <2>1
      <4>3. CASE J!Older(f[n], a, b)
        <5>1. \E p, q \in 1 .. n : p < q /\ s[p] = a /\ s[q] = b
          BY <2>3, <4>3 DEF Kept
        <5>2. QED
          BY <4>2, <5>1
      <4>4. CASE b = s[n + 1] /\ a \in J!RangeOf(f[n])
        <5>1. PICK p \in 1 .. n : s[p] = a
          BY <3>7, <4>4
        <5>2. n + 1 \in 1 .. n + 1
          BY <2>1
        <5>3. QED
          BY <4>2, <4>4, <5>1, <5>2
      <4>5. QED
        BY <4>1, <4>3, <4>4
    <3>10. QED
      BY <3>3, <3>4, <3>6, <3>8, <3>9 DEF Kept
  <2>8. CASE s[n + 1] \notin S
    <3>1. f[n + 1] = f[n]
      BY <2>5, <2>8
    <3>2. {s[j] : j \in 1 .. n + 1} \cap S = {s[j] : j \in 1 .. n} \cap S
      BY <2>6, <2>8
    <3>3. \A p \in 1 .. n : p \in 1 .. n + 1
      BY <2>1
    <3>4. QED
      BY <2>3, <3>1, <3>2, <3>3 DEF Kept
  <2>9. QED
    BY <2>7, <2>8
<1>5. Good = Nat
  <2> HIDE DEF Good
  <2>1. Good \subseteq Nat
    BY DEF Good
  <2>2. QED
    BY <1>3, <1>4, <2>1, SetInduction
<1>6. Kept(s, S, f[Len(s)], Len(s))
  <2>1. Len(s) \in Good
    <3> HIDE DEF Good
    <3>1. QED
      BY <1>2, <1>5
  <2>2. QED
    BY <1>2, <2>1
<1>7. {s[j] : j \in 1 .. Len(s)} = J!RangeOf(s)
  BY <1>2 DEF J!RangeOf
<1>8. \A a, b : J!Older(f[Len(s)], a, b) => J!Older(s, a, b)
  <2>1. SUFFICES ASSUME NEW a, NEW b, J!Older(f[Len(s)], a, b) PROVE J!Older(s, a, b)
    BY Zenon
  <2>2. \E p, q \in 1 .. Len(s) : p < q /\ s[p] = a /\ s[q] = b
    BY <1>6, <2>1 DEF Kept
  <2>3. QED
    BY <1>2, <2>2 DEF J!Older
<1>9. QED
  BY <1>1, <1>6, <1>7, <1>8 DEF Kept

\* Filtering takes records out and leaves the rest in their order.
LEMMA OnlyOlder ==
  ASSUME NEW T, NEW s \in Seq(T), NEW S, J!Once(s), J!None \notin S,
         NEW a \in S, NEW b \in S
  PROVE  J!Older(J!Only(s, S), a, b) <=> J!Older(s, a, b)
<1> DEFINE x == J!Only(s, S)
<1>1. /\ x \in Seq(S) /\ J!RangeOf(x) = J!RangeOf(s) \cap S
      /\ \A c, d : J!Older(x, c, d) => J!Older(s, c, d)
  BY OnlyKeeps
<1>2. DOMAIN x = 1 .. Len(x) /\ DOMAIN s = 1 .. Len(s) /\ Len(x) \in Nat /\ Len(s) \in Nat
  BY <1>1
<1> HIDE DEF x
<1>3. SUFFICES ASSUME J!Older(s, a, b) PROVE J!Older(x, a, b)
  BY <1>1 DEF x
<1>4. PICK p \in DOMAIN s, q \in DOMAIN s : p < q /\ s[p] = a /\ s[q] = b
  BY <1>3 DEF J!Older
<1>5. PICK i \in DOMAIN x, j \in DOMAIN x : x[i] = a /\ x[j] = b
  BY <1>1, <1>4 DEF J!RangeOf
<1>6. CASE i < j
  BY <1>5, <1>6 DEF J!Older
<1>7. CASE i = j
  <2>1. s[p] = s[q] /\ s[p] # J!None
    BY <1>4, <1>5, <1>7
  <2>2. p = q
    BY <2>1, <1>4 DEF J!Once
  <2>3. QED
    BY <1>2, <1>4, <2>2
<1>8. CASE j < i
  <2>1. J!Older(s, b, a)
    BY <1>1, <1>5, <1>8 DEF J!Older
  <2>2. PICK u \in DOMAIN s, v \in DOMAIN s : u < v /\ s[u] = b /\ s[v] = a
    BY <2>1 DEF J!Older
  <2>3. u = q /\ v = p
    BY <1>4, <2>2 DEF J!Once
  <2>4. QED
    BY <1>2, <1>4, <2>2, <2>3
<1>9. QED
  BY <1>2, <1>6, <1>7, <1>8

LEMMA ReadIs ==
  ASSUME J!LinesInv
  PROVE  /\ J!Read \in Seq(Records) /\ J!Once(J!Read)
         /\ J!RangeOf(J!Read) = J!RangeOf(lines) \cap Records
         /\ \A a, b \in Records : J!Older(J!Read, a, b) <=> J!Older(lines, a, b)
<1>1. lines \in Seq(Records \cup {J!None}) /\ J!Once(lines)
  BY DEF J!LinesInv, J!TypeOK, J!Once
<1>2. J!None \notin Records
  BY JournalAssumption DEF J!None
<1>3. /\ J!Only(lines, Records) \in Seq(Records) /\ J!Once(J!Only(lines, Records))
      /\ J!RangeOf(J!Only(lines, Records)) = J!RangeOf(lines) \cap Records
  BY <1>1, <1>2, OnlyKeeps, Zenon
<1>4. \A a, b \in Records : J!Older(J!Only(lines, Records), a, b) <=> J!Older(lines, a, b)
  BY <1>1, <1>2, OnlyOlder, Zenon
<1>5. QED
  BY <1>3, <1>4 DEF J!Read

\* What a delete with the date b keeps.
LEMMA KeepIs ==
  ASSUME J!LinesInv, NEW b, NEW K, K = {r \in Records : J!Stays(r, b)}
  PROVE  /\ J!Only(J!Read, K) \in Seq(Records) /\ J!Once(J!Only(J!Read, K))
         /\ J!RangeOf(J!Only(J!Read, K)) = J!RangeOf(J!Read) \cap K
         /\ \A a, c \in Records : J!Older(J!Only(J!Read, K), a, c) => J!Older(J!Read, a, c)
<1>1. J!None \notin K /\ K \subseteq Records
  BY JournalAssumption DEF J!None
<1>2. J!Read \in Seq(Records) /\ J!Once(J!Read)
  BY ReadIs
<1>3. /\ J!Only(J!Read, K) \in Seq(K) /\ J!Once(J!Only(J!Read, K))
      /\ J!RangeOf(J!Only(J!Read, K)) = J!RangeOf(J!Read) \cap K
      /\ \A a, c : J!Older(J!Only(J!Read, K), a, c) => J!Older(J!Read, a, c)
  BY <1>1, <1>2, OnlyKeeps
<1>4. J!Only(J!Read, K) \in Seq(Records)
  BY <1>1, <1>3
<1>5. QED
  BY <1>3, <1>4

LEMMA PageIs ==
  ASSUME J!LinesInv, NEW o \in Nat, NEW n \in Nat
  PROVE  J!RangeOf(J!Page(o, n)) \subseteq Records
<1> DEFINE len == Len(J!Read)
           rev == [i \in 1 .. len |-> J!Read[len + 1 - i]]
           last == IF o + n < len THEN o + n ELSE len
           page == SubSeq(rev, o + 1, last)
<1>1. J!Read \in Seq(Records)
  BY ReadIs
<1>2. len \in Nat /\ \A i \in 1 .. len : J!Read[i] \in Records
  BY <1>1
<1>3. ASSUME NEW i \in 1 .. len PROVE rev[i] \in Records
  <2>1. len + 1 - i \in 1 .. len
    BY <1>2
  <2>2. QED
    BY <1>2, <2>1
<1>4. last \in Nat /\ last <= len
  BY <1>2
<1> HIDE DEF len, last
<1>5. rev \in Seq(Records)
  <2>1. rev \in [1 .. len -> Records]
    BY <1>3
  <2> HIDE DEF rev
  <2>2. QED
    BY <1>2, <2>1
<1>6. ASSUME NEW i \in DOMAIN page PROVE page[i] \in Records
  <2> HIDE DEF rev
  <2>1. SubSeq(rev, o + 1, last) \in Seq(Records)
    <3>1. \A k \in o + 1 .. last : k \in DOMAIN rev
      BY <1>2, <1>4 DEF rev
    <3>2. \A k \in o + 1 .. last : rev[k] \in Records
      BY <3>1, <1>5
    <3>3. QED
      BY <1>4, <1>5, <3>2, SubSeqProperties
  <2>2. QED
    BY <2>1
<1>7. J!Page(o, n) = page
  BY DEF J!Page, len, last
<1>8. QED
  BY <1>6, <1>7 DEF J!RangeOf

\* A record of the file is on the page that its place from the end is on.
LEMMA PageHolds ==
  ASSUME J!LinesInv, NEW o \in Nat, NEW n \in Nat, NEW k \in DOMAIN J!Read,
         o < Len(J!Read) + 1 - k, Len(J!Read) + 1 - k <= o + n
  PROVE  J!Read[k] \in J!RangeOf(J!Page(o, n))
<1> DEFINE len == Len(J!Read)
           rev == [i \in 1 .. len |-> J!Read[len + 1 - i]]
           last == IF o + n < len THEN o + n ELSE len
           page == SubSeq(rev, o + 1, last)
           m == len + 1 - k - o
<1>1. J!Read \in Seq(Records)
  BY ReadIs
<1>2. len \in Nat /\ DOMAIN J!Read = 1 .. len
  BY <1>1
<1>3. k \in 1 .. len /\ o < len + 1 - k /\ len + 1 - k <= o + n
  BY <1>2
<1>4. J!Page(o, n) = page
  BY DEF J!Page
<1>5. \A i \in 1 .. len : rev[i] = J!Read[len + 1 - i] /\ rev[i] \in Records
  <2>1. SUFFICES ASSUME NEW i \in 1 .. len
                 PROVE  rev[i] = J!Read[len + 1 - i] /\ rev[i] \in Records
    OBVIOUS
  <2>2. len + 1 - i \in 1 .. len
    BY <1>2
  <2>3. QED
    BY <1>1, <2>2
<1> HIDE DEF len
<1>6. last \in Nat /\ last <= len /\ len + 1 - k <= last /\ m \in 1 .. last - o /\ o + m = len + 1 - k
  BY <1>2, <1>3
<1>7. rev \in Seq(Records)
  <2>1. rev \in [1 .. len -> Records]
    BY <1>5
  <2> HIDE DEF rev
  <2>2. QED
    BY <1>2, <2>1
<1>8. Len(rev) = len
  BY <1>2
<1> HIDE DEF rev, last, m
<1>9. m \in DOMAIN page /\ page[m] = rev[o + m]
  <2>1. o + 1 \in 1 .. len + 1 /\ last \in o .. len
    BY <1>2, <1>3, <1>6
  <2>2. \A i \in 1 .. last - o : i \in DOMAIN page /\ page[i] = rev[o + i]
    <3>1. \A i \in o + 1 .. last : rev[i] \in Records
      BY <1>7, <1>8, <2>1
    <3>2. /\ Len(SubSeq(rev, o + 1, last)) = IF o + 1 <= last THEN last - (o + 1) + 1 ELSE 0
          /\ \A i \in 1 .. last - (o + 1) + 1 : SubSeq(rev, o + 1, last)[i] = rev[o + 1 + i - 1]
      BY <2>1, <3>1, <1>6, <1>7, SubSeqProperties
    <3>3. QED
      BY <2>1, <1>6, <3>2
  <2>3. QED
    BY <1>6, <2>2
<1>10. rev[o + m] = J!Read[k]
  <2>1. len + 1 - k \in 1 .. len /\ len + 1 - (len + 1 - k) = k
    BY <1>2, <1>3
  <2>2. QED
    BY <1>5, <1>6, <2>1
<1>11. QED
  BY <1>4, <1>9, <1>10 DEF J!RangeOf

\* A page that is not full is the last one.
LEMMA PageFull ==
  ASSUME J!LinesInv, NEW o \in Nat, NEW n \in Nat, o + n <= Len(J!Read)
  PROVE  Len(J!Page(o, n)) = n
<1> DEFINE len == Len(J!Read)
           rev == [i \in 1 .. len |-> J!Read[len + 1 - i]]
           last == IF o + n < len THEN o + n ELSE len
<1>1. J!Read \in Seq(Records)
  BY ReadIs
<1>2. len \in Nat /\ DOMAIN J!Read = 1 .. len
  BY <1>1
<1>3. J!Page(o, n) = SubSeq(rev, o + 1, last)
  BY DEF J!Page
<1>4. \A i \in 1 .. len : rev[i] \in Records
  <2>1. \A i \in 1 .. len : len + 1 - i \in 1 .. len
    BY <1>2
  <2>2. QED
    BY <1>1, <2>1
<1> HIDE DEF len
<1>5. last = o + n
  BY <1>2 DEF len
<1>6. rev \in Seq(Records) /\ Len(rev) = len
  <2>1. rev \in [1 .. len -> Records]
    BY <1>4
  <2> HIDE DEF rev
  <2>2. QED
    BY <1>2, <2>1
<1> HIDE DEF rev, last
<1>7. Len(SubSeq(rev, o + 1, o + n)) = n
  <2>1. o + 1 \in Nat /\ o + n \in Nat /\ o + n <= Len(rev)
    BY <1>6 DEF len
  <2>2. QED
    BY <1>6, <2>1
<1>8. QED
  BY <1>3, <1>5, <1>7

LEMMA NewerIs ==
  ASSUME J!LinesInv, NEW k \in DOMAIN J!Read
  PROVE  Cardinality(J!Newer(J!Read[k])) = Len(J!Read) - k
<1> DEFINE s == J!Read
           r == s[k]
           len == Len(s)
           later == k + 1 .. len
<1>1. /\ s \in Seq(Records) /\ J!Once(s)
      /\ \A a, b \in Records : J!Older(s, a, b) <=> J!Older(lines, a, b)
  BY ReadIs
<1>2. J!None \notin Records
  BY JournalAssumption DEF J!None
<1> HIDE DEF s
<1>3. DOMAIN s = 1 .. len /\ len \in Nat /\ k \in 1 .. len
  BY <1>1 DEF s
<1>4. \A i \in 1 .. len : s[i] \in Records
  BY <1>1
<1> HIDE DEF len
<1>5. later \subseteq 1 .. len /\ IsFiniteSet(later) /\ Cardinality(later) = len - k
  <2>1. IsFiniteSet(later) /\ Cardinality(later) = IF k + 1 > len THEN 0 ELSE len - (k + 1) + 1
    <3>1. k + 1 \in Int /\ len \in Int
      BY <1>3
    <3>2. QED
      BY <3>1, FS_Interval, Zenon
  <2>2. QED
    BY <1>3, <2>1
<1>6. J!Newer(r) = {s[j] : j \in later}
  <2>1. ASSUME NEW q \in J!Newer(r) PROVE q \in {s[j] : j \in later}
    <3>1. q \in Records /\ J!Older(s, r, q)
      BY <1>1, <1>3, <1>4 DEF J!Newer
    <3>2. PICK i \in DOMAIN s, j \in DOMAIN s : i < j /\ s[i] = r /\ s[j] = q
      BY <3>1 DEF J!Older
    <3>3. i = k
      BY <1>1, <1>2, <1>3, <1>4, <3>2 DEF J!Once
    <3>4. j \in later
      BY <1>3, <3>2, <3>3
    <3>5. QED
      BY <3>2, <3>4
  <2>2. ASSUME NEW j \in later PROVE s[j] \in J!Newer(r)
    <3>1. j \in DOMAIN s /\ k \in DOMAIN s /\ k < j
      BY <1>3
    <3>2. J!Older(s, r, s[j])
      BY <3>1 DEF J!Older
    <3>3. QED
      BY <1>1, <1>3, <1>4, <3>1, <3>2 DEF J!Newer
  <2>3. QED
    BY <2>1, <2>2
<1> DEFINE f == [j \in later |-> s[j]]
<1>7. f \in Bijection(later, J!Newer(r))
  <2>1. f \in [later -> J!Newer(r)]
    BY <1>6
  <2>2. ASSUME NEW i \in later, NEW j \in later, f[i] = f[j] PROVE i = j
    <3>1. s[i] = s[j] /\ s[i] # J!None /\ i \in DOMAIN s /\ j \in DOMAIN s
      BY <1>2, <1>3, <1>4, <1>5, <2>2
    <3>2. QED
      BY <1>1, <3>1 DEF J!Once
  <2>3. ASSUME NEW q \in J!Newer(r) PROVE \E j \in later : f[j] = q
    BY <1>6
  <2> HIDE DEF f, later
  <2>4. QED
    BY <2>1, <2>2, <2>3, Fun_IsBij
<1>8. Cardinality(J!Newer(r)) = Cardinality(later)
  <2> HIDE DEF f, later
  <2>1. ExistsBijection(later, J!Newer(r))
    BY <1>7 DEF ExistsBijection
  <2>2. QED
    BY <1>5, <2>1, FS_Bijection
<1>9. QED
  BY <1>5, <1>8 DEF s, len

LEMMA LinesInit ==
  ASSUME J!Init
  PROVE  J!LinesInv
<1>1. /\ lines = <<>> /\ cut = FALSE /\ garbled = FALSE /\ today = 1 /\ day = [r \in Records |-> 1]
      /\ wpc = [r \in Records |-> "no"] /\ cpc = [c \in Cleaners |-> "no"]
      /\ before = [c \in Cleaners |-> J!All] /\ copy = [c \in Cleaners |-> <<>>]
      /\ offset = 0 /\ seen = {} /\ expected = {} /\ erased = {}
  BY DEF J!Init
<1>2. DOMAIN <<>> = {} /\ J!RangeOf(<<>>) = {} /\ J!Once(<<>>)
  BY DEF J!RangeOf, J!Once
<1>3. /\ day \in [Records -> Days] /\ wpc \in [Records -> {"no", "stamped", "written", "lost"}]
      /\ DOMAIN cpc = Cleaners /\ before \in [Cleaners -> Days \cup {J!All}]
      /\ copy \in [Cleaners -> Seq(Records)]
  BY <1>1, JournalAssumption
<1>4. \A c \in Cleaners : copy[c] = <<>>
  BY <1>1
<1>5. J!TypeOK
  BY <1>1, <1>2, <1>3, <1>4, JournalAssumption DEF J!TypeOK, J!Once
<1>6. QED
  BY <1>1, <1>2, <1>3, <1>4, <1>5 DEF J!LinesInv

\* Nothing but a line that was cut ends without a line break.
CutLast == cut => lines # <<>> /\ lines[Len(lines)] = J!None

LEMMA LinesStep ==
  ASSUME J!LinesInv, [J!Next]_(J!vars)
  PROVE  J!LinesInv'
<1> USE DEF J!LinesInv, J!TypeOK
<1>1. ASSUME J!Tick PROVE J!LinesInv'
  BY <1>1 DEF J!Tick, J!filev, J!cleanv, J!pagev, J!ghosts, J!Written, J!Once
<1>2. ASSUME NEW r \in Records, J!Stamp(r) PROVE J!LinesInv'
  <2>1. /\ wpc[r] = "no" /\ wpc' = [wpc EXCEPT ![r] = "stamped"]
        /\ day' = [day EXCEPT ![r] = today]
        /\ UNCHANGED <<J!filev, today, J!cleanv, J!pagev, J!ghosts, crashes>>
    BY <1>2 DEF J!Stamp
  <2>2. J!Written' = J!Written
    BY <2>1 DEF J!Written
  <2>3. /\ day' \in [Records -> Days]
        /\ wpc' \in [Records -> {"no", "stamped", "written", "lost"}]
    BY <2>1
  <2>4. QED
    BY <2>1, <2>2, <2>3 DEF J!filev, J!cleanv, J!pagev, J!ghosts, J!Once
<1>3. ASSUME NEW r \in Records, J!Append1(r) PROVE J!LinesInv'
  <2>1. /\ wpc[r] = "stamped" /\ wpc' = [wpc EXCEPT ![r] = "written"]
        /\ lines' = IF cut THEN lines ELSE Append(lines, r)
        /\ cut' = FALSE /\ garbled' = garbled
        /\ UNCHANGED <<today, day, J!cleanv, J!pagev, erased, crossed, shifted, crashes>>
    BY <1>3 DEF J!Append1
  <2>2. J!Written' = J!Written \cup {r} /\ r \notin J!Written
    BY <2>1 DEF J!Written
  <2>3. wpc' \in [Records -> {"no", "stamped", "written", "lost"}]
    BY <2>1
  <2>4. r \notin J!RangeOf(lines)
    BY <2>2, JournalAssumption DEF J!None
  <2>5. /\ lines' \in Seq(Records \cup {J!None}) /\ J!Once(lines')
        /\ J!RangeOf(lines') \subseteq J!RangeOf(lines) \cup {r}
    <3>1. CASE cut
      BY <2>1, <3>1 DEF J!Once
    <3>2. CASE ~cut
      <4>1. lines' = Append(lines, r) /\ lines \in Seq(Records \cup {J!None}) /\ J!Once(lines)
        BY <2>1, <3>2 DEF J!Once
      <4>2. J!Once(Append(lines, r)) /\ J!RangeOf(Append(lines, r)) = J!RangeOf(lines) \cup {r}
        BY <4>1, <2>4, OnceAppend, RangeAppend
      <4>3. Append(lines, r) \in Seq(Records \cup {J!None})
        BY <4>1
      <4>4. QED
        BY <4>1, <4>2, <4>3
    <3>3. QED
      BY <3>1, <3>2
  <2>6. QED
    BY <2>1, <2>2, <2>3, <2>5 DEF J!cleanv, J!pagev, J!Once
<1>4. ASSUME J!Crash PROVE J!LinesInv'
  <2>1. /\ wpc' = [r \in Records |-> IF wpc[r] = "stamped" THEN "lost" ELSE wpc[r]]
        /\ cpc' = [c \in Cleaners |-> "done"] /\ copy' = [c \in Cleaners |-> <<>>]
        /\ offset' = 0 /\ seen' = {} /\ expected' = {}
        /\ UNCHANGED <<today, day, before, J!ghosts>>
    BY <1>4 DEF J!Crash
  <2>2. J!Written' = J!Written
    BY <2>1 DEF J!Written
  <2>3. wpc' \in [Records -> {"no", "stamped", "written", "lost"}]
    BY <2>1
  <2>4. /\ lines' \in Seq(Records \cup {J!None}) /\ J!Once(lines')
        /\ J!RangeOf(lines') \subseteq J!RangeOf(lines) \cup {J!None} /\ CutLast'
        /\ garbled' \in BOOLEAN
    <3>1. CASE UNCHANGED J!filev
      BY <3>1 DEF J!filev, J!Once, CutLast
    <3>2. CASE cut /\ lines' = lines /\ cut' = TRUE /\ garbled' \in {garbled, TRUE}
      BY <3>2 DEF J!Once, CutLast
    <3>3. CASE ~cut /\ lines' = Append(lines, J!None) /\ garbled' \in {garbled, TRUE}
      <4>1. lines \in Seq(Records \cup {J!None}) /\ J!Once(lines) /\ J!None \in Records \cup {J!None}
        BY DEF J!Once
      <4>2. /\ J!Once(Append(lines, J!None))
            /\ J!RangeOf(Append(lines, J!None)) = J!RangeOf(lines) \cup {J!None}
        BY <4>1, OnceAppend, RangeAppend
      <4>3. Append(lines, J!None) \in Seq(Records \cup {J!None})
        BY <4>1
      <4>4. Append(lines, J!None) # <<>> /\ Append(lines, J!None)[Len(Append(lines, J!None))] = J!None
        <5>1. Len(Append(lines, J!None)) = Len(lines) + 1 /\ Len(lines) \in Nat
          BY <4>1, AppendProperties
        <5>2. Append(lines, J!None)[Len(lines) + 1] = J!None
          BY <4>1, AppendProperties
        <5>3. QED
          BY <5>1, <5>2
      <4>5. QED
        BY <3>3, <4>2, <4>3, <4>4 DEF CutLast
    <3>4. QED
      BY <1>4, <3>1, <3>2, <3>3 DEF J!Crash
  <2>5. \A c \in Cleaners : copy'[c] = <<>>
    BY <2>1
  <2>6. J!RangeOf(<<>>) = {} /\ J!Once(<<>>) /\ copy' \in [Cleaners -> Seq(Records)]
    BY <2>1 DEF J!RangeOf, J!Once
  <2>7. \A c \in Cleaners : J!RangeOf(copy'[c]) \subseteq J!Written' /\ J!Once(copy'[c])
    BY <2>5, <2>6
  <2>8. QED
    BY <2>1, <2>2, <2>3, <2>4, <2>6, <2>7 DEF J!ghosts, J!Once, CutLast
<1>5. ASSUME J!ReadPage PROVE J!LinesInv'
  <2>1. /\ expected' \in {J!RangeOf(J!Read), expected}
        /\ seen' \subseteq seen \cup J!RangeOf(J!Page(offset, PageSize))
        /\ offset' \in {0, offset + PageSize}
        /\ UNCHANGED <<J!filev, J!writev, J!cleanv, erased, slipped, blurred, crossed, crashes>>
    BY <1>5 DEF J!ReadPage
  <2>2. J!RangeOf(J!Page(offset, PageSize)) \subseteq Records
    BY PageIs, JournalAssumption
  <2>3. J!RangeOf(J!Read) \subseteq Records
    BY ReadIs
  <2>4. offset' \in Nat
    BY <2>1, JournalAssumption
  <2>5. QED
    BY <2>1, <2>2, <2>3, <2>4 DEF J!filev, J!writev, J!cleanv, J!Written, J!Once
<1>6. ASSUME NEW c \in Cleaners, J!ClearRead(c) PROVE J!LinesInv'
  <2>1. PICK b \in Days \cup {J!All} :
          LET keep == J!Only(J!Read, {r \in Records : J!Stays(r, b)})
          IN  IF keep = J!Read
                THEN /\ cpc' = [cpc EXCEPT ![c] = "done"]
                     /\ UNCHANGED <<before, copy, crossed>>
                ELSE /\ cpc' = [cpc EXCEPT ![c] = "replace"]
                     /\ before' = [before EXCEPT ![c] = b]
                     /\ copy' = [copy EXCEPT ![c] = keep]
                     /\ crossed' = (crossed \/ J!Looking # {})
    BY <1>6 DEF J!ClearRead
  <2> DEFINE K == {r \in Records : J!Stays(r, b)}
  <2>2. UNCHANGED <<J!filev, J!writev, J!pagev, erased, slipped, blurred, shifted, crashes>>
    BY <1>6 DEF J!ClearRead
  <2>3. /\ J!Only(J!Read, K) \in Seq(Records) /\ J!Once(J!Only(J!Read, K))
        /\ J!RangeOf(J!Only(J!Read, K)) = J!RangeOf(J!Read) \cap K
    BY KeepIs
  <2>4. J!RangeOf(J!Only(J!Read, K)) \subseteq J!Written
    BY <2>3, ReadIs, JournalAssumption DEF J!None
  <2>5. /\ DOMAIN cpc' = Cleaners /\ before' \in [Cleaners -> Days \cup {J!All}]
        /\ \/ copy' = copy
           \/ copy' = [copy EXCEPT ![c] = J!Only(J!Read, K)]
    BY <2>1
  <2> HIDE DEF K
  <2>6. /\ copy' \in [Cleaners -> Seq(Records)]
        /\ \A d \in Cleaners : J!RangeOf(copy'[d]) \subseteq J!Written /\ J!Once(copy'[d])
    BY <2>3, <2>4, <2>5
  <2>7. \A d \in Cleaners : J!RangeOf(copy'[d]) \subseteq Records
    BY <2>6 DEF J!Written
  <2>8. J!Written' = J!Written
    BY <2>2 DEF J!Written, J!writev
  <2>9. QED
    BY <2>2, <2>5, <2>6, <2>7, <2>8 DEF J!filev, J!writev, J!pagev, J!Once
<1>10. ASSUME NEW c \in Cleaners, J!ClearFails(c) PROVE J!LinesInv'
  <2>1. /\ DOMAIN cpc' = Cleaners
        /\ UNCHANGED <<J!filev, J!writev, before, copy, J!pagev, J!ghosts, crashes>>
    BY <1>10 DEF J!ClearFails
  <2>2. QED
    BY <2>1 DEF J!filev, J!writev, J!pagev, J!ghosts, J!Written, J!Once
<1>7. ASSUME NEW c \in Cleaners, J!ClearReplace(c) PROVE J!LinesInv'
  <2>1. /\ cpc' = [cpc EXCEPT ![c] = "done"] /\ lines' = copy[c] /\ cut' = FALSE /\ garbled' = FALSE
        /\ copy' = [copy EXCEPT ![c] = <<>>]
        /\ erased' = erased \cup
             {r \in Records : wpc[r] = "written" /\ (before[c] = J!All \/ day[r] < before[c])}
        /\ UNCHANGED <<J!writev, before, J!pagev, slipped, blurred, crossed, crashes>>
    BY <1>7 DEF J!ClearReplace
  <2>2. J!Written' = J!Written /\ erased' \subseteq J!Written
    BY <2>1 DEF J!Written, J!writev
  <2>3. J!RangeOf(<<>>) = {} /\ J!Once(<<>>) /\ <<>> \in Seq(Records)
    BY DEF J!RangeOf, J!Once
  <2>4. /\ copy' \in [Cleaners -> Seq(Records)]
        /\ \A d \in Cleaners : J!RangeOf(copy'[d]) \subseteq J!Written /\ J!Once(copy'[d])
    BY <2>1, <2>3
  <2>5. \A d \in Cleaners : J!RangeOf(copy'[d]) \subseteq Records
    BY <2>4 DEF J!Written
  <2>6. /\ lines' \in Seq(Records \cup {J!None}) /\ J!Once(lines')
        /\ J!RangeOf(lines') \subseteq J!Written /\ J!Written \subseteq Records
    BY <2>1 DEF J!Written
  <2>7. QED
    BY <2>1, <2>2, <2>4, <2>5, <2>6 DEF J!writev, J!pagev, J!Once
<1>8. CASE UNCHANGED J!vars
  BY <1>8 DEF J!vars, J!filev, J!writev, J!cleanv, J!pagev, J!ghosts, J!Written, J!Once
<1>9. QED
  <2> HIDE DEF J!LinesInv, J!TypeOK
  <2>1. QED
    BY <1>1, <1>2, <1>3, <1>4, <1>5, <1>6, <1>7, <1>8, <1>10 DEF J!Next

LEMMA ExactInit ==
  ASSUME J!Init
  PROVE  J!PresentInv /\ J!AheadInv
<1>1. lines = <<>> /\ wpc = [r \in Records |-> "no"] /\ erased = {}
  BY DEF J!Init
<1>2. J!Written = {} /\ J!Looking = {}
  BY <1>1 DEF J!Written, J!Looking, J!Init
<1>3. QED
  BY <1>1, <1>2 DEF J!PresentInv, J!AheadInv

LEMMA ExactIs ==
  ASSUME J!LinesInv, J!PresentInv
  PROVE  J!JournalExact
<1>1. J!RangeOf(J!Read) = J!RangeOf(lines) \cap Records
  BY ReadIs
<1>2. erased \subseteq Records /\ J!Written \subseteq Records
  BY DEF J!LinesInv, J!Written
<1>3. J!Told \subseteq J!RangeOf(lines) /\ (~garbled => J!Told = J!RangeOf(lines) \cap Records)
  BY <1>1 DEF J!Told, J!Readable
<1>4. \A r \in Records : wpc[r] = "written" => r \in J!Written
  BY DEF J!Written
<1>5. QED
  BY <1>1, <1>2, <1>3, <1>4 DEF J!JournalExact, J!PresentInv

LEMMA ExactStep ==
  ASSUME J!LinesInv, J!PresentInv, J!AheadInv, [J!Next]_(J!vars)
  PROVE  (J!PresentInv /\ J!AheadInv)'
<1>1. /\ erased \subseteq J!Written /\ J!RangeOf(lines) \subseteq J!Written \cup {J!None}
      /\ DOMAIN cpc = Cleaners /\ before \in [Cleaners -> Days \cup {J!All}]
      /\ copy \in [Cleaners -> Seq(Records)] /\ day \in [Records -> Days]
      /\ wpc \in [Records -> {"no", "stamped", "written", "lost"}]
      /\ \A c \in Cleaners : J!RangeOf(copy[c]) \subseteq J!Written
      /\ J!None \notin J!Written /\ J!None \notin Records /\ J!Written \subseteq Records
  BY JournalAssumption DEF J!LinesInv, J!TypeOK, J!Written, J!None
<1>2. CASE J!Tick
  BY <1>2 DEF J!Tick, J!filev, J!cleanv, J!ghosts, J!PresentInv, J!AheadInv, J!Written, J!Looking, J!Stays
<1>3. ASSUME NEW r \in Records, J!Stamp(r) PROVE (J!PresentInv /\ J!AheadInv)'
  <2>1. /\ wpc[r] = "no" /\ wpc' = [wpc EXCEPT ![r] = "stamped"]
        /\ day' = [day EXCEPT ![r] = today]
        /\ UNCHANGED <<J!filev, today, J!cleanv, J!pagev, J!ghosts, crashes>>
    BY <1>3 DEF J!Stamp
  <2>2. J!Written' = J!Written /\ r \notin J!Written
    BY <2>1 DEF J!Written
  <2>3. \A q \in J!Written : day'[q] = day[q]
    BY <1>1, <2>1, <2>2
  <2>4. \A q \in J!Written : \A b : J!Stays(q, b)' = J!Stays(q, b)
    BY <2>3 DEF J!Stays
  <2>5. \A c : \A q \in J!Written : J!Stays(q, before[c])' <=> J!Stays(q, before[c])
    BY <2>1, <2>3 DEF J!Stays, J!cleanv
  <2>6. J!PresentInv'
    BY <2>1, <2>2 DEF J!PresentInv, J!filev, J!ghosts
  <2>7. J!AheadInv'
    BY <2>1, <2>2, <2>5 DEF J!AheadInv, J!Looking, J!cleanv, J!ghosts
  <2>8. QED
    BY <2>6, <2>7
<1>4. ASSUME NEW r \in Records, J!Append1(r) PROVE (J!PresentInv /\ J!AheadInv)'
  <2>1. /\ wpc[r] = "stamped" /\ wpc' = [wpc EXCEPT ![r] = "written"]
        /\ lines' = IF cut THEN lines ELSE Append(lines, r)
        /\ blurred' = IF cut THEN blurred \cup {r} ELSE blurred
        /\ slipped' = IF J!Looking # {} THEN slipped \cup {r} ELSE slipped
        /\ UNCHANGED <<today, day, J!cleanv, J!pagev, erased, crossed, shifted, crashes>>
    BY <1>4 DEF J!Append1
  <2>2. J!Written' = J!Written \cup {r} /\ r \notin J!Written
    BY <1>1, <2>1 DEF J!Written
  <2>3. J!RangeOf(lines') = IF cut THEN J!RangeOf(lines) ELSE J!RangeOf(lines) \cup {r}
    <3>1. lines \in Seq(Records \cup {J!None})
      BY DEF J!LinesInv
    <3>2. QED
      BY <2>1, <3>1, RangeAppend
  <2>4. J!PresentInv'
    <3>1. SUFFICES ASSUME ~crossed
                   PROVE  /\ J!Written' \ J!RangeOf(lines') \subseteq erased \cup slipped' \cup blurred'
                          /\ J!RangeOf(lines') \cap erased = {}
      BY <2>1 DEF J!PresentInv
    <3>2. /\ J!Written \ J!RangeOf(lines) \subseteq erased \cup slipped \cup blurred
          /\ J!RangeOf(lines) \cap erased = {}
      BY <3>1 DEF J!PresentInv
    <3>3. slipped \subseteq slipped' /\ blurred \subseteq blurred' /\ (cut => r \in blurred')
      BY <2>1
    <3>4. r \notin erased
      BY <1>1, <2>2
    <3>5. QED
      BY <2>2, <2>3, <3>2, <3>3, <3>4
  <2>5. J!AheadInv'
    <3>1. J!Looking' = J!Looking /\ cpc' = cpc /\ before' = before /\ copy' = copy
      BY <2>1 DEF J!Looking, J!cleanv
    <3>2. SUFFICES ASSUME ~crossed, NEW c \in J!Looking, NEW q \in J!Written'
                   PROVE IF q \in J!RangeOf(copy[c])
                           THEN J!Stays(q, before[c]) /\ q \notin erased
                           ELSE J!Stays(q, before[c]) => q \in erased \cup slipped' \cup blurred'
      <4>1. \A p, b : J!Stays(p, b)' <=> J!Stays(p, b)
        BY <2>1 DEF J!Stays
      <4>2. \A p \in Cleaners : \A q \in J!Written' : J!Stays(q, before[p])' <=> J!Stays(q, before[p])
        BY <2>1, <3>1 DEF J!Stays
      <4>3. J!Looking \subseteq Cleaners
        BY DEF J!Looking
      <4>4. (~crossed => \A p, d \in J!Looking : p = d)
        BY DEF J!AheadInv
      <4>5. QED
        BY <2>1, <3>1, <4>2, <4>3, <4>4 DEF J!AheadInv
    <3>3. CASE q = r
      <4>1. c \in Cleaners /\ r \notin J!RangeOf(copy[c])
        BY <1>1, <2>2 DEF J!Looking
      <4>2. r \in slipped'
        BY <2>1
      <4>3. QED
        BY <3>3, <4>1, <4>2
    <3>4. CASE q \in J!Written
      <4>1. slipped \subseteq slipped' /\ blurred \subseteq blurred'
        BY <2>1
      <4>2. QED
        BY <3>2, <3>4, <4>1 DEF J!AheadInv
    <3>5. QED
      BY <2>2, <3>3, <3>4
  <2>6. QED
    BY <2>4, <2>5
<1>5. CASE J!Crash
  <2>1. /\ wpc' = [r \in Records |-> IF wpc[r] = "stamped" THEN "lost" ELSE wpc[r]]
        /\ cpc' = [c \in Cleaners |-> "done"] /\ UNCHANGED J!ghosts
        /\ lines' \in {lines, Append(lines, J!None)}
    BY <1>5 DEF J!Crash, J!filev
  <2>2. J!Written' = J!Written /\ J!Looking' = {}
    BY <2>1 DEF J!Written, J!Looking
  <2>3. J!RangeOf(lines') \in {J!RangeOf(lines), J!RangeOf(lines) \cup {J!None}}
    <3>1. lines \in Seq(Records \cup {J!None})
      BY DEF J!LinesInv
    <3>2. QED
      BY <2>1, <3>1, RangeAppend
  <2>4. J!PresentInv'
    BY <1>1, <2>1, <2>2, <2>3 DEF J!PresentInv, J!ghosts
  <2>5. J!AheadInv'
    BY <2>2 DEF J!AheadInv
  <2>6. QED
    BY <2>4, <2>5
<1>6. CASE J!ReadPage
  <2>1. UNCHANGED <<J!filev, J!writev, J!cleanv, erased, slipped, blurred, crossed, crashes>>
    BY <1>6 DEF J!ReadPage
  <2>2. J!Written' = J!Written /\ J!Looking' = J!Looking
    BY <2>1 DEF J!Written, J!Looking, J!writev, J!cleanv
  <2>3. QED
    BY <2>1, <2>2 DEF J!PresentInv, J!AheadInv, J!Stays, J!filev, J!writev, J!cleanv
<1>7. ASSUME NEW c \in Cleaners, J!ClearRead(c) PROVE (J!PresentInv /\ J!AheadInv)'
  <2>1. PICK b \in Days \cup {J!All} :
          LET keep == J!Only(J!Read, {r \in Records : J!Stays(r, b)})
          IN  IF keep = J!Read
                THEN /\ cpc' = [cpc EXCEPT ![c] = "done"]
                     /\ UNCHANGED <<before, copy, crossed>>
                ELSE /\ cpc' = [cpc EXCEPT ![c] = "replace"]
                     /\ before' = [before EXCEPT ![c] = b]
                     /\ copy' = [copy EXCEPT ![c] = keep]
                     /\ crossed' = (crossed \/ J!Looking # {})
    BY <1>7 DEF J!ClearRead
  <2>2. cpc[c] = "no"
    BY <1>7 DEF J!ClearRead
  <2>3. UNCHANGED <<J!filev, J!writev, J!pagev, erased, slipped, blurred, shifted, crashes>>
    BY <1>7 DEF J!ClearRead
  <2> DEFINE K == {r \in Records : J!Stays(r, b)}
             keep == J!Only(J!Read, K)
  <2>4. J!RangeOf(keep) = J!RangeOf(lines) \cap K
    <3>1. J!RangeOf(keep) = J!RangeOf(J!Read) \cap K /\ J!RangeOf(J!Read) = J!RangeOf(lines) \cap Records
      BY KeepIs, ReadIs
    <3> HIDE DEF keep
    <3>2. QED
      BY <3>1
  <2>5. J!Written' = J!Written /\ lines' = lines /\ day' = day
    BY <2>3 DEF J!Written, J!writev, J!filev
  <2>6. crossed => crossed'
    BY <2>1
  <2>7. J!PresentInv'
    BY <2>3, <2>5, <2>6 DEF J!PresentInv
  <2>8. CASE keep = J!Read
    <3>1. cpc' = [cpc EXCEPT ![c] = "done"] /\ UNCHANGED <<before, copy, crossed>>
      BY <2>1, <2>8
    <3>2. J!Looking' = J!Looking
      BY <1>1, <2>2, <3>1 DEF J!Looking
    <3>3. J!AheadInv'
      BY <2>3, <2>5, <3>1, <3>2 DEF J!AheadInv, J!Stays
    <3>4. QED
      BY <2>7, <3>3
  <2>9. CASE keep # J!Read
    <3>1. /\ cpc' = [cpc EXCEPT ![c] = "replace"] /\ before' = [before EXCEPT ![c] = b]
          /\ copy' = [copy EXCEPT ![c] = keep] /\ crossed' = (crossed \/ J!Looking # {})
      BY <2>1, <2>9
    <3>2. J!Looking' = J!Looking \cup {c}
      BY <1>1, <3>1 DEF J!Looking
    <3> SUFFICES ASSUME ~crossed' PROVE J!AheadInv'
      BY <2>7 DEF J!AheadInv
    <3>3. J!Looking' = {c} /\ ~crossed
      BY <3>1, <3>2
    <3>4. copy'[c] = keep /\ before'[c] = b
      BY <1>1, <3>1
    <3>5. /\ J!Written \ J!RangeOf(lines) \subseteq erased \cup slipped \cup blurred
          /\ J!RangeOf(lines) \cap erased = {}
      BY <3>3 DEF J!PresentInv
    <3> HIDE DEF keep
    <3>6. ASSUME NEW r \in J!Written
          PROVE IF r \in J!RangeOf(copy'[c])
                  THEN J!Stays(r, b) /\ r \notin erased
                  ELSE J!Stays(r, b) => r \in erased \cup slipped \cup blurred
      BY <1>1, <2>4, <3>4, <3>5
    <3>7. \A r \in J!Written : J!Stays(r, before[c])' <=> J!Stays(r, b)
      BY <2>5, <3>4 DEF J!Stays
    <3>8. QED
      BY <2>3, <2>5, <3>3, <3>6, <3>7 DEF J!AheadInv
  <2>10. QED
    BY <2>8, <2>9
<1>8. ASSUME NEW c \in Cleaners, J!ClearReplace(c) PROVE (J!PresentInv /\ J!AheadInv)'
  <2>1. /\ cpc[c] = "replace" /\ cpc' = [cpc EXCEPT ![c] = "done"] /\ lines' = copy[c]
        /\ copy' = [copy EXCEPT ![c] = <<>>]
        /\ erased' = erased \cup
             {r \in Records : wpc[r] = "written" /\ (before[c] = J!All \/ day[r] < before[c])}
        /\ UNCHANGED <<J!writev, before, J!pagev, slipped, blurred, crossed, crashes>>
    BY <1>8 DEF J!ClearReplace
  <2>2. J!Written' = J!Written /\ c \in J!Looking /\ J!Looking' = J!Looking \ {c}
    BY <1>1, <2>1 DEF J!Written, J!Looking, J!writev
  <2>3. erased' = erased \cup {r \in J!Written : ~J!Stays(r, before[c])}
    <3>1. \A r \in Records : (before[c] = J!All \/ day[r] < before[c]) <=> ~J!Stays(r, before[c])
      <4>1. SUFFICES ASSUME NEW r \in Records
                     PROVE (before[c] = J!All \/ day[r] < before[c]) <=> ~J!Stays(r, before[c])
        OBVIOUS
      <4>2. day[r] \in Nat /\ before[c] \in Nat
        <5>1. day[r] \in Days /\ before[c] \in Days \cup {J!All}
          BY <1>1
        <5>2. Days \subseteq Nat /\ J!All \in Nat
          BY JournalAssumption DEF J!All
        <5>3. QED
          BY <5>1, <5>2
      <4>3. QED
        BY <4>2 DEF J!Stays
    <3>2. QED
      BY <2>1, <3>1 DEF J!Written
  <2> SUFFICES ASSUME ~crossed PROVE (J!PresentInv /\ J!AheadInv)'
    BY <2>1 DEF J!PresentInv, J!AheadInv
  <2>4. /\ J!Looking' = {}
        /\ \A r \in J!Written :
             IF r \in J!RangeOf(copy[c])
               THEN J!Stays(r, before[c]) /\ r \notin erased
               ELSE J!Stays(r, before[c]) => r \in erased \cup slipped \cup blurred
    BY <2>2 DEF J!AheadInv
  <2>5. J!RangeOf(lines') \subseteq J!Written /\ J!RangeOf(lines') = J!RangeOf(copy[c])
    BY <1>1, <2>1
  <2>6. J!PresentInv'
    BY <2>1, <2>2, <2>3, <2>4, <2>5 DEF J!PresentInv
  <2>7. J!AheadInv'
    BY <2>4 DEF J!AheadInv
  <2>8. QED
    BY <2>6, <2>7
<1>11. ASSUME NEW c \in Cleaners, J!ClearFails(c) PROVE (J!PresentInv /\ J!AheadInv)'
  <2>1. /\ cpc[c] = "no" /\ cpc' = [cpc EXCEPT ![c] = "done"]
        /\ UNCHANGED <<lines, wpc, day, before, copy, erased, slipped, blurred, crossed>>
    BY <1>11 DEF J!ClearFails, J!filev, J!writev, J!ghosts
  <2>2. J!Written' = J!Written /\ J!Looking' = J!Looking
    BY <1>1, <2>1 DEF J!Written, J!Looking
  <2>3. QED
    BY <2>1, <2>2 DEF J!PresentInv, J!AheadInv, J!Stays
<1>9. CASE UNCHANGED J!vars
  <2>1. UNCHANGED <<lines, cut, wpc, day, cpc, before, copy, erased, slipped, blurred, crossed>>
    BY <1>9 DEF J!vars, J!filev, J!writev, J!cleanv, J!ghosts
  <2>2. J!Written' = J!Written /\ J!Looking' = J!Looking
    BY <2>1 DEF J!Written, J!Looking
  <2>3. QED
    BY <2>1, <2>2 DEF J!PresentInv, J!AheadInv, J!Stays
<1>10. QED
  BY <1>2, <1>3, <1>4, <1>5, <1>6, <1>7, <1>8, <1>9, <1>11 DEF J!Next

\* The journal counts as everybody does.
LEMMA SameCount == \A S : J!Cardinality(S) = Cardinality(S)
  BY Zenon DEF J!Cardinality, Cardinality

\* In a longer file there is no less after a record.
LEMMA CountGrows ==
  ASSUME NEW s, NEW t \in Seq(Records \cup {J!None}), NEW r, NEW A, NEW B,
         A = {q \in Records : J!Older(s, r, q)}, B = {q \in Records : J!Older(t, r, q)},
         \A q \in Records : J!Older(s, r, q) => J!Older(t, r, q)
  PROVE  Cardinality(A) \in Nat /\ Cardinality(B) \in Nat /\ Cardinality(A) <= Cardinality(B)
<1> DEFINE U == {t[i] : i \in 1 .. Len(t)}
           f == [i \in 1 .. Len(t) |-> t[i]]
<1>1. Len(t) \in Nat /\ DOMAIN t = 1 .. Len(t)
  OBVIOUS
<1>2. IsFiniteSet(U)
  <2>1. f \in [1 .. Len(t) -> U] /\ \A u \in U : \E i \in 1 .. Len(t) : f[i] = u
    OBVIOUS
  <2>2. IsFiniteSet(1 .. Len(t))
    <3>1. 1 \in Int /\ Len(t) \in Int
      BY <1>1
    <3>2. QED
      BY <3>1, FS_Interval, Zenon
  <2> HIDE DEF f, U
  <2>3. f \in Surjection(1 .. Len(t), U)
    BY <2>1, Fun_IsSurj
  <2>4. QED
    BY <2>2, <2>3, FS_Surjection
<1>3. B \subseteq U
  BY <1>1 DEF J!Older
<1>4. A \subseteq B
  OBVIOUS
<1> HIDE DEF U
<1>5. IsFiniteSet(B)
  BY <1>2, <1>3, FS_Subset
<1>6. IsFiniteSet(A) /\ Cardinality(A) <= Cardinality(B)
  BY <1>4, <1>5, FS_Subset
<1>7. Cardinality(A) \in Nat /\ Cardinality(B) \in Nat
  BY <1>5, <1>6, FS_CardinalityType
<1>8. QED
  BY <1>6, <1>7

LEMMA PagesInit ==
  ASSUME J!Init
  PROVE  J!OrderInv /\ J!PagesInv
  BY DEF J!Init, J!OrderInv, J!PagesInv, J!Looking

LEMMA OrderStep ==
  ASSUME J!LinesInv, J!AheadInv, J!OrderInv, [J!Next]_(J!vars)
  PROVE  J!OrderInv'
<1>1. /\ DOMAIN cpc = Cleaners /\ copy \in [Cleaners -> Seq(Records)]
      /\ lines \in Seq(Records \cup {J!None})
  BY DEF J!LinesInv
<1> SUFFICES ASSUME ~crossed',
                    NEW c \in J!Looking'
             PROVE  /\ J!RangeOf(copy'[c]) \subseteq J!RangeOf(lines')
                    /\ \A a, b \in Records : J!Older(copy'[c], a, b) => J!Older(lines', a, b)
  BY DEF J!OrderInv
<1>2. CASE UNCHANGED <<lines, copy, cpc, crossed>>
  BY <1>2 DEF J!OrderInv, J!Looking
<1>3. CASE J!Tick \/ J!ReadPage \/ UNCHANGED J!vars
  BY <1>2, <1>3 DEF J!Tick, J!ReadPage, J!vars, J!filev, J!cleanv, J!ghosts
<1>4. ASSUME NEW r \in Records, J!Stamp(r) PROVE UNCHANGED <<lines, copy, cpc, crossed>>
  BY <1>4 DEF J!Stamp, J!filev, J!cleanv, J!ghosts
<1>5. CASE \E r \in Records : J!Append1(r)
  <2>1. PICK r \in Records : /\ lines' = IF cut THEN lines ELSE Append(lines, r)
                             /\ UNCHANGED <<copy, cpc, crossed>>
    BY <1>5 DEF J!Append1, J!cleanv
  <2>2. c \in J!Looking /\ ~crossed
    BY <2>1 DEF J!Looking
  <2>3. J!RangeOf(lines) \subseteq J!RangeOf(lines')
    BY <1>1, <2>1, RangeAppend
  <2>4. \A a, b : J!Older(lines, a, b) => J!Older(lines', a, b)
    BY <1>1, <2>1, OlderAppend
  <2>5. QED
    BY <2>1, <2>2, <2>3, <2>4 DEF J!OrderInv
<1>6. CASE J!Crash
  BY <1>6 DEF J!Crash, J!Looking
<1>7. ASSUME NEW d \in Cleaners, J!ClearRead(d)
      PROVE  /\ J!RangeOf(copy'[c]) \subseteq J!RangeOf(lines')
             /\ \A a, b \in Records : J!Older(copy'[c], a, b) => J!Older(lines', a, b)
  <2>1. PICK b \in Days \cup {J!All} :
          LET keep == J!Only(J!Read, {r \in Records : J!Stays(r, b)})
          IN  IF keep = J!Read
                THEN /\ cpc' = [cpc EXCEPT ![d] = "done"]
                     /\ UNCHANGED <<before, copy, crossed>>
                ELSE /\ cpc' = [cpc EXCEPT ![d] = "replace"]
                     /\ before' = [before EXCEPT ![d] = b]
                     /\ copy' = [copy EXCEPT ![d] = keep]
                     /\ crossed' = (crossed \/ J!Looking # {})
    BY <1>7 DEF J!ClearRead
  <2>2. lines' = lines
    BY <1>7 DEF J!ClearRead, J!filev
  <2> DEFINE K == {r \in Records : J!Stays(r, b)}
             keep == J!Only(J!Read, K)
  <2>3. CASE keep = J!Read
    <3>1. cpc' = [cpc EXCEPT ![d] = "done"] /\ UNCHANGED <<before, copy, crossed>>
      BY <2>1, <2>3
    <3>2. c \in J!Looking /\ ~crossed
      BY <1>1, <3>1 DEF J!Looking
    <3>3. QED
      BY <2>2, <3>1, <3>2 DEF J!OrderInv
  <2>4. CASE keep # J!Read
    <3>1. /\ cpc' = [cpc EXCEPT ![d] = "replace"] /\ copy' = [copy EXCEPT ![d] = keep]
          /\ J!Looking = {}
      BY <2>1, <2>4
    <3>2. c = d
      BY <1>1, <3>1 DEF J!Looking
    <3>3. /\ J!RangeOf(keep) = J!RangeOf(J!Read) \cap K
          /\ \A a, e \in Records : J!Older(keep, a, e) => J!Older(J!Read, a, e)
      BY KeepIs
    <3>4. /\ J!RangeOf(J!Read) = J!RangeOf(lines) \cap Records
          /\ \A a, e \in Records : J!Older(J!Read, a, e) <=> J!Older(lines, a, e)
      BY ReadIs
    <3> HIDE DEF keep, K
    <3>5. copy'[c] = keep
      BY <1>1, <3>1, <3>2
    <3>6. QED
      BY <2>2, <3>3, <3>4, <3>5
  <2>5. QED
    BY <2>3, <2>4
<1>8. ASSUME NEW d \in Cleaners, J!ClearReplace(d) PROVE FALSE
  <2>1. cpc[d] = "replace" /\ cpc' = [cpc EXCEPT ![d] = "done"] /\ crossed' = crossed
    BY <1>8 DEF J!ClearReplace
  <2>2. c \in J!Looking /\ d \in J!Looking /\ c # d
    BY <1>1, <2>1 DEF J!Looking
  <2>3. QED
    BY <2>1, <2>2 DEF J!AheadInv
<1>10. ASSUME NEW d \in Cleaners, J!ClearFails(d)
       PROVE  /\ J!RangeOf(copy'[c]) \subseteq J!RangeOf(lines')
              /\ \A a, b \in Records : J!Older(copy'[c], a, b) => J!Older(lines', a, b)
  <2>1. cpc' = [cpc EXCEPT ![d] = "done"] /\ UNCHANGED <<lines, copy, crossed>>
    BY <1>10 DEF J!ClearFails, J!filev, J!ghosts
  <2>2. c \in J!Looking
    BY <1>1, <2>1 DEF J!Looking
  <2>3. QED
    BY <2>1, <2>2 DEF J!OrderInv
<1>9. QED
  BY <1>2, <1>3, <1>4, <1>5, <1>6, <1>7, <1>8, <1>10 DEF J!Next

\* The page a reader takes has the oldest record he can have missed so far.
LEMMA PageTakes ==
  ASSUME J!LinesInv, NEW o \in Nat, NEW r \in J!RangeOf(J!Read),
         o <= Cardinality(J!Newer(r)), r \notin J!RangeOf(J!Page(o, PageSize))
  PROVE  /\ o + PageSize <= Cardinality(J!Newer(r))
         /\ Len(J!Page(o, PageSize)) = PageSize
<1>1. PICK k \in DOMAIN J!Read : J!Read[k] = r
  BY DEF J!RangeOf
<1>2. Cardinality(J!Newer(r)) = Len(J!Read) - k
  BY <1>1, NewerIs
<1>3. PageSize \in Nat
  BY JournalAssumption
<1>4. Len(J!Read) \in Nat /\ k \in 1 .. Len(J!Read)
  BY ReadIs
<1>5. ~(Len(J!Read) + 1 - k <= o + PageSize)
  <2>1. o < Len(J!Read) + 1 - k
    BY <1>2, <1>4
  <2>2. QED
    BY <1>1, <1>3, <2>1, PageHolds
<1>6. o + PageSize <= Len(J!Read) - k /\ o + PageSize <= Len(J!Read)
  BY <1>3, <1>4, <1>5
<1>7. QED
  BY <1>2, <1>3, <1>6, PageFull

LEMMA PagesStep ==
  ASSUME J!LinesInv, J!OrderInv, J!PagesInv, [J!Next]_(J!vars)
  PROVE  J!PagesInv'
<1>1. /\ DOMAIN cpc = Cleaners /\ copy \in [Cleaners -> Seq(Records)]
      /\ lines \in Seq(Records \cup {J!None})
      /\ J!RangeOf(lines) \subseteq J!Written \cup {J!None}
      /\ J!Written \subseteq Records /\ J!None \notin Records
      /\ wpc \in [Records -> {"no", "stamped", "written", "lost"}]
      /\ expected \subseteq Records /\ offset \in Nat
  BY JournalAssumption DEF J!LinesInv, J!TypeOK, J!Written, J!None
<1>2. \A r : /\ J!Newer(r) = {q \in Records : J!Older(lines, r, q)}
             /\ J!Newer(r)' = {q \in Records : J!Older(lines', r, q)}
  BY DEF J!Newer
<1>3. CASE /\ UNCHANGED <<lines, offset, seen, expected, shifted>>
           /\ J!Written' = J!Written /\ (crossed => crossed')
  BY <1>2, <1>3 DEF J!PagesInv
<1>4. CASE J!Tick \/ UNCHANGED J!vars
  BY <1>3, <1>4 DEF J!Tick, J!vars, J!filev, J!writev, J!pagev, J!ghosts, J!Written
<1>5. CASE \E r \in Records : J!Stamp(r)
  <2>1. PICK r \in Records : wpc[r] = "no" /\ wpc' = [wpc EXCEPT ![r] = "stamped"]
                            /\ UNCHANGED <<J!filev, J!pagev, J!ghosts>>
    BY <1>5 DEF J!Stamp
  <2>2. J!Written' = J!Written
    BY <2>1 DEF J!Written
  <2>3. QED
    BY <1>3, <2>1, <2>2 DEF J!filev, J!pagev, J!ghosts
<1>6. CASE \E r \in Records : J!Append1(r)
  <2>1. PICK r \in Records : /\ wpc[r] = "stamped" /\ wpc' = [wpc EXCEPT ![r] = "written"]
                             /\ lines' = IF cut THEN lines ELSE Append(lines, r)
                             /\ UNCHANGED <<J!pagev, crossed, shifted>>
    BY <1>6 DEF J!Append1
  <2>2. J!Written' = J!Written \cup {r} /\ r \notin J!Written
    BY <1>1, <2>1 DEF J!Written
  <2>3. offset' = offset /\ expected' = expected /\ seen' = seen
    BY <2>1 DEF J!pagev
  <2>4. offset # 0 => expected \subseteq J!Written
    BY DEF J!PagesInv
  <2>5. SUFFICES ASSUME ~crossed, ~shifted, offset # 0,
                        NEW q \in (expected \ seen) \cap J!RangeOf(lines')
                 PROVE  offset <= Cardinality(J!Newer(q)')
    BY <2>1, <2>2, <2>3, <2>4, SameCount DEF J!PagesInv
  <2>6. lines' \in Seq(Records \cup {J!None}) /\ J!RangeOf(lines') \subseteq J!RangeOf(lines) \cup {r}
    BY <1>1, <2>1, RangeAppend
  <2>7. offset <= Cardinality(J!Newer(q))
    BY <2>2, <2>4, <2>5, <2>6, SameCount DEF J!PagesInv
  <2>8. \A b : J!Older(lines, q, b) => J!Older(lines', q, b)
    BY <1>1, <2>1, OlderAppend
  <2>9. /\ Cardinality(J!Newer(q)) \in Nat /\ Cardinality(J!Newer(q)') \in Nat
        /\ Cardinality(J!Newer(q)) <= Cardinality(J!Newer(q)')
    <3>1. /\ lines' \in Seq(Records \cup {J!None})
          /\ \A b \in Records : J!Older(lines, q, b) => J!Older(lines', q, b)
      BY <2>6, <2>8
    <3>2. QED
      BY <1>2, <3>1, CountGrows
  <2>10. QED
    BY <1>1, <2>7, <2>9
<1>7. CASE J!Crash
  BY <1>7 DEF J!Crash, J!PagesInv
<1>8. CASE J!ReadPage
  <2> DEFINE page == J!Page(offset, PageSize)
  <2>1. /\ expected' = IF offset = 0 THEN J!RangeOf(J!Read) ELSE expected
        /\ seen' = (IF offset = 0 THEN {} ELSE seen) \cup J!RangeOf(page)
        /\ offset' = IF Len(page) < PageSize THEN 0 ELSE offset + PageSize
        /\ shifted' = (offset # 0 /\ shifted)
        /\ lines' = lines /\ wpc' = wpc /\ crossed' = crossed
    BY <1>8 DEF J!ReadPage, J!filev, J!writev
  <2>2. J!Written' = J!Written /\ J!RangeOf(J!Read) = J!RangeOf(lines) \cap Records
    BY <2>1, ReadIs DEF J!Written
  <2>3. expected' \subseteq J!Written
    BY <1>1, <2>1, <2>2 DEF J!PagesInv
  <2> SUFFICES ASSUME ~crossed, ~shifted', offset' # 0,
                      NEW q \in (expected' \ seen') \cap J!RangeOf(lines)
               PROVE  offset' <= Cardinality(J!Newer(q))
    BY <1>2, <2>1, <2>2, <2>3, SameCount DEF J!PagesInv
  <2>4. q \in J!RangeOf(J!Read) /\ q \notin J!RangeOf(page)
    BY <1>1, <2>1, <2>2, <2>3
  <2>5. offset <= Cardinality(J!Newer(q))
    <3>1. CASE offset = 0
      <4>1. Cardinality(J!Newer(q)) \in Nat
        BY <1>1, <1>2, CountGrows
      <4>2. QED
        BY <3>1, <4>1
    <3>2. CASE offset # 0
      BY <2>1, <3>2, SameCount DEF J!PagesInv
    <3>3. QED
      BY <3>1, <3>2
  <2>6. offset + PageSize <= Cardinality(J!Newer(q))
    BY <1>1, <2>4, <2>5, PageTakes
  <2>7. QED
    BY <2>1, <2>6
<1>9. ASSUME NEW c \in Cleaners, J!ClearRead(c) PROVE J!PagesInv'
  <2>1. UNCHANGED <<J!filev, J!writev, J!pagev, shifted>> /\ (crossed => crossed')
    BY <1>9 DEF J!ClearRead
  <2>2. J!Written' = J!Written
    BY <2>1 DEF J!Written, J!writev
  <2>3. QED
    BY <1>3, <2>1, <2>2 DEF J!filev, J!pagev
<1>10. ASSUME NEW c \in Cleaners, J!ClearReplace(c) PROVE J!PagesInv'
  <2>1. /\ cpc[c] = "replace" /\ lines' = copy[c]
        /\ shifted' = (shifted \/ J!Shifts(copy[c]))
        /\ UNCHANGED <<J!writev, J!pagev, crossed>>
    BY <1>10 DEF J!ClearReplace
  <2>2. J!Written' = J!Written /\ offset' = offset /\ expected' = expected /\ seen' = seen
    BY <2>1 DEF J!Written, J!writev, J!pagev
  <2> SUFFICES ASSUME ~crossed, ~shifted, ~J!Shifts(copy[c]), offset # 0,
                      NEW q \in (expected \ seen) \cap J!RangeOf(lines')
               PROVE  offset <= Cardinality(J!Newer(q)')
    BY <2>1, <2>2, SameCount DEF J!PagesInv
  <2>3. c \in J!Looking
    BY <2>1 DEF J!Looking
  <2>4. /\ J!RangeOf(copy[c]) \subseteq J!RangeOf(lines)
        /\ \A a, b \in Records : J!Older(copy[c], a, b) => J!Older(lines, a, b)
    BY <2>3 DEF J!OrderInv
  <2>5. q \in J!RangeOf(copy[c]) /\ q \in J!RangeOf(lines) /\ q \in Records
    BY <1>1, <2>1, <2>4
  <2>6. ASSUME NEW b \in Records, J!Older(lines, q, b) PROVE J!Older(lines', q, b)
    <3>1. PICK i \in DOMAIN lines, j \in DOMAIN lines : i < j /\ lines[i] = q /\ lines[j] = b
      BY <2>6 DEF J!Older
    <3>2. b \in J!RangeOf(copy[c])
      BY <2>5, <3>1 DEF J!Shifts
    <3>3. PICK u \in DOMAIN copy[c], v \in DOMAIN copy[c] : copy[c][u] = q /\ copy[c][v] = b
      BY <2>5, <3>2 DEF J!RangeOf
    <3>4. J!Once(lines) /\ q # J!None /\ b # J!None
      BY <1>1, <2>5 DEF J!LinesInv, J!TypeOK, J!Once
    <3>5. /\ copy[c] \in Seq(Records) /\ DOMAIN copy[c] = 1 .. Len(copy[c])
          /\ DOMAIN lines = 1 .. Len(lines)
      BY <1>1
    <3>6. u # v
      <4>1. SUFFICES ASSUME q = b PROVE FALSE
        BY <3>3
      <4>2. i = j
        BY <3>1, <3>4, <4>1 DEF J!Once
      <4>3. QED
        BY <3>1, <3>5, <4>2
    <3>7. ~(v < u)
      <4>1. SUFFICES ASSUME v < u PROVE FALSE
        OBVIOUS
      <4>2. J!Older(lines, b, q)
        BY <2>4, <2>5, <3>3, <4>1 DEF J!Older
      <4>3. PICK x \in DOMAIN lines, y \in DOMAIN lines : x < y /\ lines[x] = b /\ lines[y] = q
        BY <4>2 DEF J!Older
      <4>4. x = j /\ y = i
        BY <3>1, <3>4, <4>3 DEF J!Once
      <4>5. QED
        BY <3>1, <3>5, <4>3, <4>4
    <3>8. u < v
      BY <3>5, <3>6, <3>7
    <3>9. QED
      BY <2>1, <3>3, <3>8 DEF J!Older
  <2>7. offset <= Cardinality(J!Newer(q))
    BY <2>5, SameCount DEF J!PagesInv
  <2>8. copy[c] \in Seq(Records \cup {J!None})
    BY <1>1
  <2>9. /\ Cardinality(J!Newer(q)) \in Nat /\ Cardinality(J!Newer(q)') \in Nat
        /\ Cardinality(J!Newer(q)) <= Cardinality(J!Newer(q)')
    <3>1. /\ lines' \in Seq(Records \cup {J!None})
          /\ \A b \in Records : J!Older(lines, q, b) => J!Older(lines', q, b)
      BY <2>1, <2>6, <2>8
    <3>2. QED
      BY <1>2, <3>1, CountGrows
  <2>10. QED
    BY <1>1, <2>7, <2>9
<1>12. CASE \E c \in Cleaners : J!ClearFails(c)
  <2>1. UNCHANGED <<lines, offset, seen, expected, shifted, wpc, crossed>>
    BY <1>12 DEF J!ClearFails, J!filev, J!writev, J!pagev, J!ghosts
  <2>2. QED
    BY <1>3, <2>1 DEF J!Written
<1>11. QED
  BY <1>4, <1>5, <1>6, <1>7, <1>8, <1>9, <1>10, <1>12 DEF J!Next

\* So a page that ends the reading has what was missed until then.
LEMMA PagesAre ==
  ASSUME J!LinesInv, J!PagesInv, J!ReadPage, offset' = 0, ~shifted', ~crossed
  PROVE  (expected' \cap J!RangeOf(J!Read)) \subseteq seen'
<1> DEFINE page == J!Page(offset, PageSize)
<1>1. /\ expected' = IF offset = 0 THEN J!RangeOf(J!Read) ELSE expected
      /\ seen' = (IF offset = 0 THEN {} ELSE seen) \cup J!RangeOf(page)
      /\ offset' = IF Len(page) < PageSize THEN 0 ELSE offset + PageSize
      /\ shifted' = (offset # 0 /\ shifted)
  BY DEF J!ReadPage
<1>2. offset \in Nat /\ PageSize \in Nat \ {0} /\ lines \in Seq(Records \cup {J!None})
      /\ J!RangeOf(J!Read) = J!RangeOf(lines) \cap Records
  BY ReadIs, JournalAssumption DEF J!LinesInv, J!TypeOK
<1>3. SUFFICES ASSUME NEW q \in (expected' \ seen') \cap J!RangeOf(J!Read) PROVE FALSE
  BY Zenon
<1>4. q \notin J!RangeOf(page)
  BY <1>1, <1>3
<1>5. offset <= Cardinality(J!Newer(q))
  <2>1. CASE offset = 0
    <3>1. Cardinality(J!Newer(q)) \in Nat
      BY <1>2, CountGrows DEF J!Newer
    <3>2. QED
      BY <2>1, <3>1
  <2>2. CASE offset # 0
    BY <1>1, <1>2, <1>3, <2>2, SameCount DEF J!PagesInv
  <2>3. QED
    BY <2>1, <2>2
<1>6. Len(page) = PageSize
  BY <1>2, <1>3, <1>4, <1>5, PageTakes
<1>7. QED
  BY <1>1, <1>2, <1>6

-----------------------------------------------------------------------------
(* The schema of the database.                                             *)

LEMMA NoTableApart ==
  M!NoTable # {} /\ {} # Columns /\ ~(M!NoTable \subseteq Columns)
  BY StoreAssumption DEF M!NoTable

LEMMA SchemaInit ==
  ASSUME M!Init
  PROVE  M!SchemaInv /\ M!CopyInv
<1>1. /\ table \in {M!NoTable, {}} /\ version = 0 /\ writer = M!NoOne /\ added = {}
      /\ backup = [s \in Seconds |-> M!NoCopy] /\ now = 1
      /\ opc = [p \in Openers |-> "off"] /\ ver = [p \in Openers |-> 0]
      /\ missing = [p \in Openers |-> {}]
      /\ old => table # M!NoTable
  BY DEF M!Init
<1>2. M!Types /\ M!SchemaWhole
  <2>1. table \in (SUBSET Columns) \cup {M!NoTable} /\ version \in {0, 1}
    BY <1>1
  <2>2. writer \in Openers \cup {M!NoOne} /\ added \subseteq Columns
    BY <1>1
  <2>3. now \in Seconds /\ DOMAIN backup = Seconds
    BY <1>1, StoreAssumption
  <2>4. opc \in [Openers -> M!OpenerPc] /\ ver \in [Openers -> {0, 1}]
    BY <1>1 DEF M!OpenerPc
  <2>5. missing \in [Openers -> SUBSET Columns]
    BY <1>1
  <2>6. QED
    BY <1>1, <2>1, <2>2, <2>3, <2>4, <2>5 DEF M!Types, M!SchemaWhole
<1>3. M!SchemaInv
  BY <1>1, <1>2 DEF M!SchemaInv, M!Seen
<1>4. M!CopyInv
  BY <1>1, NoTableApart DEF M!CopyInv
<1>5. QED
  BY <1>3, <1>4

LEMMA SchemaStep ==
  ASSUME M!SchemaInv, [M!Next]_(M!vars)
  PROVE  M!SchemaInv'
<1> USE NoTableApart, StoreAssumption DEF M!SchemaInv, M!SchemaWhole, M!Types, M!OpenerPc, M!Seen, M!dbv, M!copyv, M!procv, M!Goto, M!MayWrite
<1>1. ASSUME M!Tick PROVE M!SchemaInv'
  BY <1>1 DEF M!Tick
<1>2. ASSUME NEW p \in Openers, M!Open(p) PROVE M!SchemaInv'
  BY <1>2 DEF M!Open
<1>3. ASSUME NEW p \in Openers, M!Look(p) PROVE M!SchemaInv'
  BY <1>3 DEF M!Look
<1>4. ASSUME NEW p \in Openers, M!Create(p) PROVE M!SchemaInv'
  BY <1>4 DEF M!Create
<1>14. ASSUME NEW p \in Openers, M!CreateIndex(p) PROVE M!SchemaInv'
  BY <1>14 DEF M!CreateIndex
<1>5. ASSUME NEW p \in Openers, M!SetVersion(p) PROVE M!SchemaInv'
  BY <1>5 DEF M!SetVersion
<1>6. ASSUME NEW p \in Openers, M!LookAtColumns(p) PROVE M!SchemaInv'
  BY <1>6 DEF M!LookAtColumns, M!UpToDate, M!FirstStep
<1>7. ASSUME NEW p \in Openers, M!Backup(p) PROVE M!SchemaInv'
  BY <1>7 DEF M!Backup
<1>8. ASSUME NEW p \in Openers, M!Alter(p) PROVE M!SchemaInv'
  <2>1. PICK c \in missing[p] \ table : /\ added' = added \cup {c}
                                        /\ missing' = [missing EXCEPT ![p] = @ \ {c}]
    BY <1>8 DEF M!Alter
  <2>2. /\ writer' = p /\ opc[p] = "alter" /\ writer \in {M!NoOne, p}
        /\ UNCHANGED <<table, version, backup, clashed, opc, ver, now, old, kills>>
    BY <1>8 DEF M!Alter
  <2>3. M!Types'
    BY <2>1, <2>2
  <2>4. Columns \ M!Seen(p)' \subseteq missing'[p]
    BY <2>1, <2>2
  <2>5. \A q \in Openers \ {p} : M!Seen(q) = table /\ M!Seen(q)' = table /\ missing'[q] = missing[q]
    BY <2>1, <2>2
  <2>6. QED
    BY <2>2, <2>3, <2>4, <2>5
<1>9. ASSUME NEW p \in Openers, M!Commit(p) PROVE M!SchemaInv'
  BY <1>9 DEF M!Commit
<1>10. ASSUME NEW p \in Openers, M!Fails(p) PROVE M!SchemaInv'
  BY <1>10 DEF M!Fails, M!Release
<1>11. ASSUME NEW p \in Openers, M!Kill(p) PROVE M!SchemaInv'
  BY <1>11 DEF M!Kill, M!Release
<1>12. CASE UNCHANGED M!vars
  BY <1>12 DEF M!vars
<1>13. QED
  BY <1>1, <1>2, <1>3, <1>4, <1>5, <1>6, <1>7, <1>8, <1>9, <1>10, <1>11, <1>12, <1>14 DEF M!Next

LEMMA CopyStep ==
  ASSUME M!SchemaInv, M!CopyInv, [M!Next]_(M!vars)
  PROVE  M!CopyInv'
<1> USE NoTableApart, StoreAssumption DEF M!SchemaInv, M!SchemaWhole, M!CopyInv, M!Types, M!OpenerPc, M!dbv, M!copyv, M!procv, M!Goto, M!MayWrite
<1>1. ASSUME M!Tick PROVE M!CopyInv'
  BY <1>1 DEF M!Tick
<1>2. ASSUME NEW p \in Openers, M!Open(p) PROVE M!CopyInv'
  BY <1>2 DEF M!Open
<1>3. ASSUME NEW p \in Openers, M!Look(p) PROVE M!CopyInv'
  BY <1>3 DEF M!Look
<1>4. ASSUME NEW p \in Openers, M!Create(p) PROVE M!CopyInv'
  BY <1>4 DEF M!Create
<1>14. ASSUME NEW p \in Openers, M!CreateIndex(p) PROVE M!CopyInv'
  BY <1>14 DEF M!CreateIndex
<1>5. ASSUME NEW p \in Openers, M!SetVersion(p) PROVE M!CopyInv'
  BY <1>5 DEF M!SetVersion
<1>6. ASSUME NEW p \in Openers, M!LookAtColumns(p) PROVE M!CopyInv'
  BY <1>6 DEF M!LookAtColumns, M!UpToDate, M!FirstStep
<1>7. ASSUME NEW p \in Openers, M!Backup(p) PROVE M!CopyInv'
  <2>1. PICK c \in {table} \cup {M!Torn : x \in {writer} \ {M!NoOne}} :
          backup' = [backup EXCEPT ![now] = c]
    BY <1>7 DEF M!Backup
  <2>2. /\ clashed' = (clashed \/ backup[now] # M!NoCopy)
        /\ UNCHANGED <<table, writer, now, old>>
    BY <1>7 DEF M!Backup
  <2> SUFFICES ASSUME old, ~clashed' PROVE \E s \in Seconds : backup'[s] = {}
    BY <2>2
  <2>3. ~clashed /\ backup[now] = M!NoCopy /\ M!NoCopy # {}
    BY <2>2 DEF M!NoCopy
  <2>4. CASE \E s \in Seconds : backup[s] = {}
    BY <2>1, <2>3, <2>4
  <2>5. CASE ~\E s \in Seconds : backup[s] = {}
    <3>1. writer = M!NoOne /\ table = {}
      BY <2>2, <2>3, <2>5
    <3>2. backup'[now] = {}
      BY <2>1, <3>1
    <3>3. QED
      BY <3>2
  <2>6. QED
    BY <2>4, <2>5
<1>8. ASSUME NEW p \in Openers, M!Alter(p) PROVE M!CopyInv'
  BY <1>8 DEF M!Alter
<1>9. ASSUME NEW p \in Openers, M!Commit(p) PROVE M!CopyInv'
  <2>1. opc[p] = "alter" /\ UNCHANGED <<backup, clashed, old>> /\ table' = table \cup added
    BY <1>9 DEF M!Commit
  <2>2. QED
    BY <2>1
<1>10. ASSUME NEW p \in Openers, M!Fails(p) PROVE M!CopyInv'
  BY <1>10 DEF M!Fails, M!Release
<1>11. ASSUME NEW p \in Openers, M!Kill(p) PROVE M!CopyInv'
  <2>1. /\ table' = table /\ old' = old
        /\ \A q \in Openers : opc'[q] = "alter" => opc[q] = "alter"
    BY <1>11 DEF M!Kill
  <2>2. CASE UNCHANGED M!copyv
    BY <2>1, <2>2
  <2>3. CASE /\ backup' = [backup EXCEPT ![now] = M!Torn]
             /\ clashed' = (clashed \/ backup[now] # M!NoCopy)
    <3>1. M!NoCopy # {}
      BY DEF M!NoCopy
    <3>2. \A s \in Seconds : backup[s] = {} /\ ~clashed' => backup'[s] = {}
      BY <2>3, <3>1
    <3>3. QED
      BY <2>1, <2>3, <3>2
  <2>4. QED
    BY <1>11, <2>2, <2>3 DEF M!Kill
<1>12. CASE UNCHANGED M!vars
  BY <1>12 DEF M!vars
<1>13. QED
  BY <1>1, <1>2, <1>3, <1>4, <1>5, <1>6, <1>7, <1>8, <1>9, <1>10, <1>11, <1>12, <1>14 DEF M!Next

-----------------------------------------------------------------------------
(* All three together.                                                     *)

FilesInv ==
  /\ ConfigInv
  /\ J!LinesInv /\ J!PresentInv /\ J!AheadInv /\ J!OrderInv /\ J!PagesInv
  /\ M!SchemaInv /\ M!CopyInv

FilesVars == <<part, configv, journalv, storev, crashes>>

LEMMA FilesStart == FilesInit => FilesInv
<1>1. FilesInit => Init /\ J!Init /\ M!Init
  BY DEF FilesInit
<1>2. QED
  BY <1>1, ConfigInit, LinesInit, ExactInit, PagesInit, SchemaInit DEF FilesInv

LEMMA FilesStep == FilesInv /\ [FilesNext]_FilesVars => FilesInv'
<1> SUFFICES ASSUME FilesInv, [FilesNext]_FilesVars PROVE FilesInv'
  OBVIOUS
<1>1. ConfigInv'
  <2>1. CASE Next
    BY <2>1, ConfigStep DEF FilesInv
  <2>2. CASE UNCHANGED configv
    <3>1. /\ UNCHANGED <<file, wanted, raced, holder, jobs, conn, adopted>>
          /\ UNCHANGED <<pc, todo, doc, kind, up, behind, edits>>
      BY <2>2 DEF configv, filev, memv, reqv
    <3>2. (TypeInv /\ WriteInv /\ FileInv /\ RestInv)'
      BY <3>1 DEF FilesInv, ConfigInv, TypeInv, TypeOK, WriteInv, FileInv, RestInv,
                  NothingLost, Parses
    <3>3. Telling' = Telling /\ Dialing' = Dialing /\ Waiting' = Waiting
      BY <3>1 DEF Telling, Dialing, Waiting
    <3>4. HandInv'
      BY <3>1, <3>3, Zenon DEF FilesInv, ConfigInv, HandInv
    <3>5. QED
      BY <3>2, <3>4 DEF ConfigInv
  <2>3. QED
    BY <2>1, <2>2 DEF FilesNext, FilesVars
<1>2. (J!LinesInv /\ J!PresentInv /\ J!AheadInv /\ J!OrderInv /\ J!PagesInv)'
  <2>1. CASE J!Next
    BY <2>1, LinesStep, ExactStep, OrderStep, PagesStep DEF FilesInv
  <2>2. CASE UNCHANGED journalv
    <3>1. /\ UNCHANGED <<lines, cut, garbled, today, day, wpc, cpc, before, copy, offset>>
          /\ UNCHANGED <<seen, expected, erased, slipped, blurred, crossed, shifted>>
      BY <2>2 DEF journalv
    <3>2. J!Written' = J!Written /\ J!Looking' = J!Looking
      BY <3>1 DEF J!Written, J!Looking
    <3>3. J!LinesInv'
      BY <3>1, <3>2 DEF FilesInv, J!LinesInv, J!TypeOK, J!Once
    <3>4. (J!PresentInv /\ J!AheadInv)'
      BY <3>1, <3>2 DEF FilesInv, J!PresentInv, J!AheadInv, J!Stays
    <3>5. (J!OrderInv /\ J!PagesInv)'
      BY <3>1, <3>2 DEF FilesInv, J!OrderInv, J!PagesInv, J!Newer
    <3>6. QED
      BY <3>3, <3>4, <3>5
  <2>3. QED
    BY <2>1, <2>2 DEF FilesNext, FilesVars
<1>3. (M!SchemaInv /\ M!CopyInv)'
  <2>1. [M!Next]_(M!vars)
    BY DEF FilesNext, FilesVars, storev, M!vars, M!dbv, M!copyv, M!procv
  <2>2. QED
    BY <2>1, SchemaStep, CopyStep, Zenon DEF FilesInv
<1>4. QED
  BY <1>1, <1>2, <1>3 DEF FilesInv


(* lazy.py:62, journal.py:49, store.py:123: the configuration in          *)
(* memory and on the disk, every line of the journal, its stamps and what  *)
(* a reader of its pages holds are of their types.                         *)
THEOREM FilesAlwaysTyped == FilesSpec => []FilesTypeOK
<1>1. FilesInv => FilesTypeOK
  BY DEF FilesInv, ConfigInv, TypeInv, J!LinesInv, FilesTypeOK
<1>2. QED
  BY FilesStart, FilesStep, <1>1, PTL DEF FilesSpec, FilesVars

(* journal.py:141, 150: whoever stops where, a reader is told of what was  *)
(* written less what was deleted, but for a record that was appended       *)
(* between a delete's look and its replacement or to a line that a crash   *)
(* had cut, and unless two deletes overlapped; after a crash that cut a    *)
(* record inside a character he is told of nothing, and the lines still    *)
(* have those records.                                                     *)
THEOREM JournalAlwaysExact == FilesSpec => []JournalExact
<1>1. FilesInv => JournalExact
  BY ExactIs DEF FilesInv, JournalExact
<1>2. QED
  BY FilesStart, FilesStep, <1>1, PTL DEF FilesSpec, FilesVars

(* journal.py:107, 117: whoever turns the pages of the journal, which are  *)
(* cut from its newest record on, has seen every record that was there     *)
(* when he began and still is - unless a delete took one from among newer  *)
(* ones, or two deletes overlapped.                                        *)
THEOREM PagesAlwaysMissNothing == FilesSpec => PagesMissNothing
<1>1. FilesInv => [J!ReadPage /\ offset' = 0 /\ ~shifted' /\ ~crossed
                     => (expected' \cap J!RangeOf(J!Read)) \subseteq seen']_(J!vars)
  BY PagesAre DEF FilesInv
<1>2. QED
  BY FilesStart, FilesStep, <1>1, PTL
     DEF FilesSpec, FilesVars, PagesMissNothing, J!PagesMissNothing

(* store.py:175, 144: whoever is killed while whoever else migrates, the   *)
(* table never has some of the new columns only, and a store that could be *)
(* opened works on the new schema.                                         *)
THEOREM SchemaAlwaysWhole == FilesSpec => []SchemaWhole
<1>1. FilesInv => SchemaWhole
  BY DEF FilesInv, M!SchemaInv, SchemaWhole
<1>2. QED
  BY FilesStart, FilesStep, <1>1, PTL DEF FilesSpec, FilesVars

(* store.py:188: where no two copies were made within a second, a database *)
(* that was migrated has a copy of what it was before.                     *)
THEOREM OldAlwaysKept == FilesSpec => []OldKept
<1>1. FilesInv => OldKept
  BY DEF FilesInv, M!CopyInv, M!OldKept, OldKept
<1>2. QED
  BY FilesStart, FilesStep, <1>1, PTL DEF FilesSpec, FilesVars
=============================================================================
