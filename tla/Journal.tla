------------------------------ MODULE Journal ------------------------------
(***************************************************************************)
(* bpq.jsonl, one JSON record a line, and the threads and processes that   *)
(* append to it, read it page by page, and delete old records from it.     *)
(*                                                                         *)
(* There is no lock.  A record is appended with one write of the operating *)
(* system, which a crash may cut short; deleting is read, filter, write a  *)
(* temporary file, replace.  A record is a number; a day stands for its    *)
(* time stamp.                                                             *)
(***************************************************************************)
EXTENDS Naturals, Sequences, FiniteSets

CONSTANTS
  Records,   \* records, numbers from 1, each written at most once, in any order
  Cleaners,  \* DELETE requests
  Days,      \* 1 .. n
  PageSize,  \* limit of a page
  MaxCrashes \* bound on crashes

None == 0
All  == 0        \* DELETE without a date

VARIABLES
  lines,    \* the lines: a record, or None for one that does not parse
  cut,      \* does the last line end without a line break
  garbled,  \* did a crash cut inside a character: the file is no UTF-8
  today, day,    \* the clock, and the stamp each record took from it
  wpc,      \* each record: "no", "stamped", "written"
  cpc, before, copy,  \* each cleaner: where it is, its date, what it read
  offset, seen, expected,  \* a page reader: how far it is, what it has seen,
                           \* what was there when it began
  erased,   \* ghost: records a finished delete was meant to take
  slipped,  \* ghost: records appended between a delete's look and its replace
  blurred,  \* ghost: records that went into a line a crash had cut
  crossed,  \* ghost: did two deletes overlap
  shifted,  \* ghost: did a delete take a record from among newer ones since
            \* the reader's first page
  crashes

filev  == <<lines, cut, garbled>>
writev == <<today, day, wpc>>
cleanv == <<cpc, before, copy>>
pagev  == <<offset, seen, expected>>
ghosts == <<erased, slipped, blurred, crossed, shifted>>
vars   == <<filev, writev, cleanv, pagev, ghosts, crashes>>

RangeOf(s) == {s[i] : i \in DOMAIN s}

\* The members of a sequence that are in S, in their order.
Only(s, S) ==
  LET kept[i \in 0 .. Len(s)] ==
        IF i = 0 THEN <<>>
        ELSE IF s[i] \in S THEN Append(kept[i - 1], s[i]) ELSE kept[i - 1]
  IN  kept[Len(s)]

-----------------------------------------------------------------------------
(* Journal.write: take the time, then append a line.                       *)

Tick ==
  /\ today + 1 \in Days
  /\ today' = today + 1
  /\ UNCHANGED <<filev, day, wpc, cleanv, pagev, ghosts, crashes>>

Stamp(r) ==
  /\ wpc[r] = "no"
  /\ wpc' = [wpc EXCEPT ![r] = "stamped"]
  /\ day' = [day EXCEPT ![r] = today]
  /\ UNCHANGED <<filev, today, cleanv, pagev, ghosts, crashes>>

Looking == {c \in Cleaners : cpc[c] = "replace"}

\* After a cut line there is no line break: the record becomes a part of it.
Append1(r) ==
  /\ wpc[r] = "stamped"
  /\ wpc' = [wpc EXCEPT ![r] = "written"]
  /\ lines' = IF cut THEN lines ELSE Append(lines, r)
  /\ cut' = FALSE /\ UNCHANGED garbled
  /\ blurred' = IF cut THEN blurred \cup {r} ELSE blurred
  /\ slipped' = IF Looking # {} THEN slipped \cup {r} ELSE slipped
  /\ UNCHANGED <<today, day, cleanv, pagev, erased, crossed, shifted, crashes>>

\* The process dies inside the write, or between the stamp and the write.
Crash ==
  /\ crashes < MaxCrashes
  /\ crashes' = crashes + 1
  /\ \/ UNCHANGED filev
     \/ /\ \E r \in Records : wpc[r] = "stamped"
        /\ lines' = IF cut THEN lines ELSE Append(lines, None)
        /\ cut' = TRUE
        /\ garbled' \in {garbled, TRUE}
  /\ wpc' = [r \in Records |-> IF wpc[r] = "stamped" THEN "lost" ELSE wpc[r]]
  /\ cpc' = [c \in Cleaners |-> "done"]
  /\ copy' = [c \in Cleaners |-> <<>>]
  /\ offset' = 0 /\ seen' = {} /\ expected' = {}
  /\ UNCHANGED <<today, day, before, ghosts>>

-----------------------------------------------------------------------------
(* read and query.                                                         *)

\* Lines that do not parse are left out, but the file is decoded as a whole, and
\* outside the try: while it is garbled whoever reads gets an error.
Readable == ~garbled

Read == Only(lines, Records)

\* Fault: newest first only within a page.
PageForward(o, n) == SubSeq(Read, o + 1, IF o + n < Len(Read) THEN o + n ELSE Len(Read))

\* Newest first, then the page.
Page(o, n) ==
  LET all == Read
      len == Len(all)
      rev == [i \in 1 .. len |-> all[len + 1 - i]]
  IN  SubSeq(rev, o + 1, IF o + n < len THEN o + n ELSE len)

\* GET /api/journal, page after page until one is not full.
ReadPage ==
  LET page == Page(offset, PageSize)
  IN  /\ Readable
      /\ expected' = IF offset = 0 THEN RangeOf(Read) ELSE expected
      /\ seen' = (IF offset = 0 THEN {} ELSE seen) \cup RangeOf(page)
      /\ IF Len(page) < PageSize
           THEN offset' = 0
           ELSE offset' = offset + PageSize
      /\ shifted' = (offset # 0 /\ shifted)
  /\ UNCHANGED <<filev, writev, cleanv, erased, slipped, blurred, crossed, crashes>>

-----------------------------------------------------------------------------
(* clear.                                                                  *)

\* Fault: the day itself goes, too.
StaysNotToday(r, b) == b # All /\ day[r] > b

\* What is older than the date goes; without a date everything does.
Stays(r, b) == b # All /\ day[r] >= b

ClearRead(c) ==
  /\ cpc[c] = "no" /\ Readable
  /\ \E b \in Days \cup {All} :
       LET keep == Only(Read, {r \in Records : Stays(r, b)})
       IN  IF keep = Read
             THEN /\ cpc' = [cpc EXCEPT ![c] = "done"]
                  /\ UNCHANGED <<before, copy, crossed>>
             ELSE /\ cpc' = [cpc EXCEPT ![c] = "replace"]
                  /\ before' = [before EXCEPT ![c] = b]
                  /\ copy' = [copy EXCEPT ![c] = keep]
                  /\ crossed' = (crossed \/ Looking # {})
  /\ UNCHANGED <<filev, writev, pagev, erased, slipped, blurred, shifted, crashes>>

\* The whole file is no UTF-8: nothing can be deleted, not everything either.
ClearFails(c) ==
  /\ cpc[c] = "no" /\ ~Readable
  /\ cpc' = [cpc EXCEPT ![c] = "done"]
  /\ UNCHANGED <<filev, writev, before, copy, pagev, ghosts, crashes>>

\* A record that goes although an older line stays moves the ones before it.
Shifts(keep) ==
  \E i, j \in DOMAIN lines :
    i < j /\ lines[i] \in RangeOf(keep) /\ lines[j] \in Records \ RangeOf(keep)

ClearReplace(c) ==
  /\ cpc[c] = "replace"
  /\ cpc' = [cpc EXCEPT ![c] = "done"]
  /\ lines' = copy[c] /\ cut' = FALSE /\ garbled' = FALSE
  /\ copy' = [copy EXCEPT ![c] = <<>>]
  /\ erased' = erased \cup
       {r \in Records : wpc[r] = "written" /\ (before[c] = All \/ day[r] < before[c])}
  /\ shifted' = (shifted \/ Shifts(copy[c]))
  /\ UNCHANGED <<writev, before, pagev, slipped, blurred, crossed, crashes>>

-----------------------------------------------------------------------------
Init ==
  /\ lines = <<>> /\ cut = FALSE /\ garbled = FALSE
  /\ today = 1 /\ day = [r \in Records |-> 1] /\ wpc = [r \in Records |-> "no"]
  /\ cpc = [c \in Cleaners |-> "no"] /\ before = [c \in Cleaners |-> All]
  /\ copy = [c \in Cleaners |-> <<>>]
  /\ offset = 0 /\ seen = {} /\ expected = {}
  /\ erased = {} /\ slipped = {} /\ blurred = {}
  /\ crossed = FALSE /\ shifted = FALSE
  /\ crashes = 0

Next ==
  \/ Tick \/ Crash \/ ReadPage
  \/ \E r \in Records : Stamp(r) \/ Append1(r)
  \/ \E c \in Cleaners : ClearRead(c) \/ ClearFails(c) \/ ClearReplace(c)

Spec == Init /\ [][Next]_vars

-----------------------------------------------------------------------------
(* Properties.                                                             *)

TypeOK ==
  /\ RangeOf(lines) \subseteq Records \cup {None}
  /\ \A i, j \in DOMAIN lines : lines[i] = lines[j] /\ lines[i] # None => i = j
  /\ garbled \in BOOLEAN
  /\ cut => lines # <<>> /\ lines[Len(lines)] = None
  /\ \A c \in Cleaners : RangeOf(copy[c]) \subseteq Records
  /\ today \in Days /\ day \in [Records -> Days]
  /\ offset \in Nat /\ seen \subseteq Records /\ expected \subseteq Records

\* The records that somebody who asks is told of.
Told == IF Readable THEN RangeOf(Read) ELSE {}

(* journal.py:141, 150: whoever reads is told of what was written less     *)
(* what was deleted: a crash takes no record that was there, a delete      *)
(* takes what is older than its date and nothing else, and what it took    *)
(* does not come back.  Except: a record appended between a delete's look  *)
(* and its replacement, one appended to a line that a crash had cut, and   *)
(* whatever two deletes that overlap do to each other.  After a crash that *)
(* cut a record inside a character nobody is told of anything any more,    *)
(* but the same records are in the lines, for who mends the file by hand.  *)
JournalExact ==
  ~crossed =>
    /\ \A r \in Records : wpc[r] = "written" =>
         \/ r \in IF garbled THEN RangeOf(lines) ELSE Told
         \/ r \in erased \cup slipped \cup blurred
    /\ (Told \cup RangeOf(lines)) \cap erased = {}

(* journal.py:107: whoever turns the pages sees every record that was      *)
(* there when he began and is still there, whatever is appended or deleted *)
(* meanwhile - unless a delete took one from among newer records, whose    *)
(* stamps were not in the order of the lines, or two deletes overlapped.   *)
PagesMissNothing ==
  [][ReadPage /\ offset' = 0 /\ ~shifted' /\ ~crossed
       => (expected' \cap RangeOf(Read)) \subseteq seen']_vars
-----------------------------------------------------------------------------
(* Inductive strengthenings.                                               *)

Written == {r \in Records : wpc[r] = "written"}

\* No record twice.
Once(s) == \A i, j \in DOMAIN s : s[i] = s[j] /\ s[i] # None => i = j

\* The record a comes before the record b.
Older(s, a, b) == \E i, j \in DOMAIN s : i < j /\ s[i] = a /\ s[j] = b

\* The records after r in the file: they fill the pages before its page.
Newer(r) == {q \in Records : Older(lines, r, q)}

(* A record is written before it is in a line or in what a delete has read *)
(* and is in each once.                                                    *)
LinesInv ==
  /\ TypeOK
  /\ lines \in Seq(Records \cup {None})
  /\ wpc \in [Records -> {"no", "stamped", "written", "lost"}]
  /\ DOMAIN cpc = Cleaners /\ before \in [Cleaners -> Days \cup {All}]
  /\ copy \in [Cleaners -> Seq(Records)]
  /\ RangeOf(lines) \subseteq Written \cup {None}
  /\ erased \subseteq Written
  /\ \A c \in Cleaners : RangeOf(copy[c]) \subseteq Written /\ Once(copy[c])

(* Unless two deletes overlapped, what was written is there or excused,    *)
(* and what a delete took is not there ...                                 *)
PresentInv ==
  ~crossed =>
    /\ Written \ RangeOf(lines) \subseteq erased \cup slipped \cup blurred
    /\ RangeOf(lines) \cap erased = {}

(* ... and what the one delete that looks is going to put back is all of   *)
(* the journal that is to stay, but for what came later.                   *)
AheadInv ==
  ~crossed =>
    /\ \A c, d \in Looking : c = d
    /\ \A c \in Looking : \A r \in Written :
         IF r \in RangeOf(copy[c])
           THEN Stays(r, before[c]) /\ r \notin erased
           ELSE Stays(r, before[c]) => r \in erased \cup slipped \cup blurred

(* What a delete that looks has read is in the file, in the same order ... *)
OrderInv ==
  ~crossed =>
    \A c \in Looking :
      /\ RangeOf(copy[c]) \subseteq RangeOf(lines)
      /\ \A a, b \in Records : Older(copy[c], a, b) => Older(lines, a, b)

(* ... so a record a reader has not seen is not on a page he has turned:   *)
(* what is newer fills those pages, and only grows.                        *)
PagesInv ==
  /\ offset # 0 => expected \subseteq Written
  /\ ~crossed /\ ~shifted /\ offset # 0 =>
       \A r \in (expected \ seen) \cap RangeOf(lines) :
         offset <= Cardinality(Newer(r))
=============================================================================
