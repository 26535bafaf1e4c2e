--------------------------- MODULE EvidenceProofs ---------------------------
(***************************************************************************)
(* What readers are told is true of the retained history, for any regions, *)
(* features, answers and number of days.                                   *)
(*                                                                         *)
(* A record of a day is built from the day before, its records, and the    *)
(* statuses of all earlier days.  So the invariant is about sequences of   *)
(* days: Good(s) says what the records of each day of s tell truly, and    *)
(* the main lemma, Extend, that filing one more day keeps a history good.  *)
(* Filing a date again takes the last day away and extends the rest.       *)
(***************************************************************************)
EXTENDS DailyEvidence, SequenceTheorems, TLAPS

Days == [grid : Grids, records : [Cells -> Records]]

Seen(s, d, c) == s[d].grid[c] = "available"

(* The dates of a record are true.                                         *)
Dated(s, n, c) ==
    LET rec == s[n].records[c] IN
    /\ rec.last # NoDate =>
          /\ rec.last \in 1..(n - 1) /\ Seen(s, rec.last, c)
          /\ \A d \in (rec.last + 1)..(n - 1) : ~Seen(s, d, c)
    /\ rec.since # NoDate =>
          /\ rec.last # NoDate /\ rec.last < rec.since /\ rec.since <= n
          /\ s[n].grid[c] \in Missing \cup {"unknown"}
    /\ rec.kind = "observation_gaps" => Gap(s[n].grid, c)

(* Some day is the last on which a cell that was seen was seen.            *)
HasLatest(s, n, c) ==
    (\E d \in 1..n : Seen(s, d, c)) =>
       \E d \in 1..n : Seen(s, d, c) /\ \A e \in 1..n : Seen(s, e, c) => e <= d

Novel(s, n, c) ==
    s[n].records[c].kind = "new_listings" => \A d \in 1..(n - 1) : ~Seen(s, d, c)

Stable(s, n, c) == Scope(c) \in Scopes(s[n - 1].grid) \cap Scopes(s[n].grid)

(* What is lost stays tracked.                                             *)
Kept(s, n, c) ==
    LET before == s[n - 1].records[c]
        now    == s[n].records[c]
    IN (n > 1 /\ before.last # NoDate /\ Stable(s, n, c)
          /\ (before.since # NoDate \/ before.kind = "observation_gaps")) =>
         /\ now.kind # "none"
         /\ before.since # NoDate /\ s[n].grid[c] \in Missing \cup {"unknown"} =>
               now.since = before.since
         /\ s[n].grid[c] \in Missing /\ now.kind # "observation_gaps" => now.since # NoDate

(* What kinds of news say about the two days.                              *)
Told(s, n, c) ==
    LET kind == s[n].records[c].kind IN
    n > 1 =>
       /\ kind \in {"new_listings", "restorations"} =>
             Seen(s, n, c) /\ ~Seen(s, n - 1, c)
       /\ kind = "delistings" =>
             s[n].grid[c] \in Missing /\ Seen(s, n - 1, c) /\ Stable(s, n, c)

GoodDay(s, n, c) == /\ Dated(s, n, c) /\ HasLatest(s, n, c) /\ Novel(s, n, c)
                    /\ Kept(s, n, c) /\ Told(s, n, c)

Good(s) == /\ s \in Seq(Days)
           /\ \A n \in 1..Len(s) : \A c \in Cells : GoodDay(s, n, c)

-----------------------------------------------------------------------------
(* Only what is not available can be a gap, and what is unknown is one.    *)
LEMMA GapStatus ==
    ASSUME NEW grid, NEW c
    PROVE  /\ Gap(grid, c) => grid[c] \in {"unknown", Absent}
           /\ grid[c] = "unknown" => Gap(grid, c)
BY DEF Gap

(* The parts of a day.                                                     *)
LEMMA DayType ==
    ASSUME NEW day \in Days
    PROVE  /\ day.grid \in Grids
           /\ \A c \in Cells : /\ day.grid[c] \in Status \cup {Absent}
                               /\ day.records[c] \in Records
BY DEF Days, Grids

(* The last date on which a cell was available, as the day after the past  *)
(* days cites it.                                                          *)
LEMMA LastTrue ==
    ASSUME NEW past, Good(past), past # <<>>, NEW new \in Grids, NEW c \in Cells,
           NEW n, n = Len(past), NEW last, last = LastAvailable(past, new, c)
    PROVE  /\ last \in 0..n
           /\ last # NoDate => /\ Seen(past, last, c)
                               /\ \A d \in (last + 1)..n : ~Seen(past, d, c)
           /\ last = NoDate /\ Signal(past[n].grid, new, c) =>
                 \A d \in 1..n : ~Seen(past, d, c)
           /\ past[n].records[c].last # NoDate => last # NoDate
           /\ past[n].records[c].since # NoDate => last = past[n].records[c].last
           /\ Seen(past, n, c) => last # NoDate
<1>1. past \in Seq(Days) /\ n \in Nat \ {0} /\ n \in 1..n /\ past[n] \in Days
  BY DEF Good
<1>2. GoodDay(past, n, c)
  BY <1>1 DEF Good
<1>3. past[n].records[c] \in Records
  BY <1>1, DayType
<1> DEFINE tracked == past[n].records[c].last
<1>4. tracked \in Nat /\ past[n].records[c].since \in Nat
  BY <1>3 DEF Records
<1>5. CASE Seen(past, n, c)
  <2>1. last = n
    BY <1>5 DEF LastAvailable, Seen
  <2>2. past[n].records[c].since = NoDate
    BY <1>2, <1>5 DEF GoodDay, Dated, Seen, Missing, Absent
  <2>3. QED
    BY <1>1, <1>5, <2>1, <2>2 DEF NoDate
<1>6. CASE ~Seen(past, n, c) /\ tracked # NoDate
  <2>1. last = tracked
    BY <1>6 DEF LastAvailable, Seen
  <2>2. /\ tracked \in 1..(n - 1) /\ Seen(past, tracked, c)
        /\ \A d \in (tracked + 1)..(n - 1) : ~Seen(past, d, c)
    BY <1>2, <1>6 DEF GoodDay, Dated
  <2>3. \A d \in (tracked + 1)..n : d = n \/ d \in (tracked + 1)..(n - 1)
    BY <1>1, <1>4
  <2>4. QED
    BY <1>1, <1>6, <2>1, <2>2, <2>3 DEF NoDate
<1>7. CASE ~Seen(past, n, c) /\ tracked = NoDate
  <2>1. last = ContextDate(past, new, c)
    BY <1>7 DEF LastAvailable, Seen
  <2>2. past[n].records[c].since = NoDate
    BY <1>2, <1>7 DEF GoodDay, Dated
  <2>3. AvailableOn(past, c) = {d \in 1..n : Seen(past, d, c)}
    BY <1>1 DEF AvailableOn, Seen
  <2>4. CASE Signal(past[n].grid, new, c) /\ AvailableOn(past, c) # {}
    <3>1. \E d \in AvailableOn(past, c) : \A e \in AvailableOn(past, c) : e <= d
      BY <1>2, <2>3, <2>4 DEF GoodDay, HasLatest
    <3>2. last \in AvailableOn(past, c) /\ \A e \in AvailableOn(past, c) : e <= last
      BY <2>1, <2>4, <3>1 DEF ContextDate
    <3>3. QED
      BY <1>1, <1>7, <2>2, <2>3, <3>2 DEF NoDate
  <2>5. CASE ~(Signal(past[n].grid, new, c) /\ AvailableOn(past, c) # {})
    <3>1. last = NoDate
      BY <2>1, <2>5 DEF ContextDate
    <3>2. QED
      BY <1>1, <1>7, <2>2, <2>3, <2>5, <3>1 DEF NoDate
  <2>6. QED
    BY <2>4, <2>5
<1>8. QED
  BY <1>5, <1>6, <1>7

(* What the record of the day after the past days says of a cell. *)
Tells(past, new, c) ==
    LET n      == Len(past)
        rec    == BuildBriefing(past, new)[c]
        before == past[n].records[c]
        stable == Scope(c) \in Scopes(past[n].grid) \cap Scopes(new)
    IN /\ rec \in Records
       /\ rec.last # NoDate => /\ rec.last \in 1..n /\ Seen(past, rec.last, c)
                               /\ \A d \in (rec.last + 1)..n : ~Seen(past, d, c)
       /\ rec.since # NoDate => /\ rec.last # NoDate /\ rec.last < rec.since
                                /\ rec.since <= n + 1
                                /\ new[c] \in Missing \cup {"unknown"}
       /\ rec.kind = "observation_gaps" => Gap(new, c)
       /\ rec.kind = "new_listings" => \A d \in 1..n : ~Seen(past, d, c)
       /\ (before.last # NoDate /\ stable
             /\ (before.since # NoDate \/ before.kind = "observation_gaps")) =>
            /\ rec.kind # "none"
            /\ before.since # NoDate /\ new[c] \in Missing \cup {"unknown"} =>
                  rec.since = before.since
            /\ new[c] \in Missing /\ rec.kind # "observation_gaps" => rec.since # NoDate
       /\ rec.kind \in {"new_listings", "restorations"} =>
             new[c] = "available" /\ ~Seen(past, n, c)
       /\ rec.kind = "delistings" => new[c] \in Missing /\ Seen(past, n, c) /\ stable

(* What a new record tells is true, given that the past tells the truth.   *)
LEMMA RecordTrue ==
    ASSUME NEW past, Good(past), past # <<>>, NEW new \in Grids, NEW c \in Cells
    PROVE  Tells(past, new, c)
<1> DEFINE n      == Len(past)
           rec    == BuildBriefing(past, new)[c]
           before == past[n].records[c]
           stable == Scope(c) \in Scopes(past[n].grid) \cap Scopes(new)
<1> DEFINE old   == past[n].grid
           last  == LastAvailable(past, new, c)
           kind  == Kind(old, new, c, last, before.since)
           since == AbsenceSince(old, new, c, last, before.since, n + 1)
           open  == /\ before.last # NoDate /\ stable
                    /\ (before.since # NoDate \/ before.kind = "observation_gaps")
<1>1. past \in Seq(Days) /\ n \in Nat \ {0} /\ n \in 1..n /\ past[n] \in Days
  BY DEF Good
<1>2. before \in Records /\ old[c] \in Status \cup {Absent} /\ new[c] \in Status \cup {Absent}
  BY <1>1, DayType DEF Grids
<1>3. before.last \in Nat /\ before.since \in Nat
  BY <1>2 DEF Records
<1>4. Dated(past, n, c)
  BY <1>1 DEF Good, GoodDay
<1>5. /\ last \in 0..n
      /\ last # NoDate => /\ Seen(past, last, c)
                          /\ \A d \in (last + 1)..n : ~Seen(past, d, c)
      /\ last = NoDate /\ Signal(old, new, c) => \A d \in 1..n : ~Seen(past, d, c)
      /\ before.last # NoDate => last # NoDate
      /\ before.since # NoDate => last = before.last
      /\ Seen(past, n, c) => last # NoDate
  BY LastTrue
<1>6. /\ before.since # NoDate =>
            /\ before.last # NoDate /\ before.last < before.since /\ before.since <= n
            /\ old[c] \in Missing \cup {"unknown"}
      /\ before.kind = "observation_gaps" => Gap(old, c)
  BY <1>4 DEF Dated
<1>7. Seen(past, n, c) <=> old[c] = "available"
  BY DEF Seen
<1>8. /\ Gap(new, c) => new[c] \in {"unknown", Absent}
      /\ new[c] = "unknown" => Gap(new, c)
      /\ old[c] = "unknown" => Gap(old, c)
  BY GapStatus
<1>9. rec = NoRecord \/ rec = Compared(past, new, c)
  BY DEF BuildBriefing
<1>10. open => rec = Compared(past, new, c)
  BY DEF BuildBriefing, Continuing
<1>11. Compared(past, new, c) = IF kind = "none" THEN NoRecord
                                ELSE [kind |-> kind, last |-> last, since |-> since]
  BY DEF Compared
<1>12. /\ kind \in Kinds \cup {"none"}
       /\ kind = "observation_gaps" => Gap(new, c)
       /\ Gap(new, c) => kind = "observation_gaps"
       /\ kind \in {"new_listings", "restorations"} => new[c] = "available" /\ old[c] \in Missing
       /\ kind = "new_listings" => last = NoDate
       /\ kind = "delistings" => new[c] \in Missing /\ old[c] = "available" /\ stable
  BY DEF Kind, Kinds
<1>13. open => kind # "none"
  <2>1. ASSUME open, ~Gap(new, c), ~Gap(old, c), kind = "none"
        PROVE  FALSE
    <3>1. before.since # NoDate /\ last # NoDate /\ old[c] \in Missing
      BY <1>5, <1>6, <1>8, <2>1
    <3>2. old[c] = new[c]
      BY <2>1 DEF Kind
    <3>3. kind = "continuing_absences" \/ new[c] = "available"
      BY <2>1, <3>1, <3>2 DEF Kind, Missing, Absent
    <3>4. QED
      BY <2>1, <3>1, <3>2, <3>3 DEF Missing, Absent
  <2>2. stable /\ Gap(old, c) => kind # "none"
    BY DEF Kind
  <2>3. QED
    BY <1>12, <2>1, <2>2
<1>14. /\ since \in Nat
       /\ since # NoDate => /\ last # NoDate /\ last < since /\ since <= n + 1
                            /\ new[c] \in Missing \cup {"unknown"}
  <2>1. since \in {before.since, n + 1, NoDate}
    BY DEF AbsenceSince
  <2>2. since # NoDate => (new[c] \in Missing /\ last # NoDate) \/ (Gap(new, c) /\ since = before.since)
    BY DEF AbsenceSince
  <2>3. Gap(new, c) => new[c] \in Missing \cup {"unknown"}
    BY <1>8 DEF Missing
  <2>4. before.since # NoDate => last # NoDate /\ last < before.since /\ before.since <= n
    BY <1>5, <1>6
  <2>5. QED
    BY <1>1, <1>3, <1>5, <2>1, <2>2, <2>3, <2>4 DEF NoDate
<1>15. open => /\ before.since # NoDate /\ new[c] \in Missing \cup {"unknown"} =>
                     since = before.since
               /\ new[c] \in Missing /\ ~Gap(new, c) => since # NoDate
  BY <1>1, <1>3, <1>5, <1>8 DEF AbsenceSince, NoDate
<1>16. kind = "new_listings" => \A d \in 1..n : ~Seen(past, d, c)
  <2>1. kind = "new_listings" => Signal(old, new, c)
    BY <1>12 DEF Signal, Changed, ChangeType, Missing, Absent
  <2>2. QED
    BY <1>5, <1>12, <2>1
<1>17. \/ rec = NoRecord /\ (open => kind = "none")
       \/ kind # "none" /\ rec = [kind |-> kind, last |-> last, since |-> since]
  BY <1>9, <1>10, <1>11
<1>18. CASE rec = NoRecord /\ (open => kind = "none")
  <2>1. rec.kind = "none" /\ rec.last = NoDate /\ rec.since = NoDate /\ rec \in Records
    BY <1>18 DEF NoRecord, Records, NoDate
  <2>2. QED
    BY <1>13, <1>18, <2>1 DEF Tells
<1>19. CASE kind # "none" /\ rec = [kind |-> kind, last |-> last, since |-> since]
  <2>1. rec.kind = kind /\ rec.last = last /\ rec.since = since
    BY <1>19
  <2>2. rec \in Records
    BY <1>1, <1>5, <1>12, <1>14, <1>19 DEF Records
  <2>3. last # NoDate => last \in 1..n
    BY <1>1, <1>5 DEF NoDate
  <2>4. new[c] = "available" /\ old[c] \in Missing => old[c] # "available"
    BY DEF Missing, Absent
  <2> HIDE DEF kind, last, since, old
  <2>5. QED
    BY <1>5, <1>7, <1>12, <1>13, <1>14, <1>15, <1>16, <2>1, <2>2, <2>3, <2>4 DEF Tells
<1>20. QED
  BY <1>17, <1>18, <1>19

-----------------------------------------------------------------------------
(* The first day has no dates to cite, and no news but gaps.               *)
LEMMA FirstTrue ==
    ASSUME NEW new, NEW c \in Cells, NEW rec, rec = BuildBriefing(<<>>, new)[c]
    PROVE  /\ rec \in Records /\ rec.last = NoDate /\ rec.since = NoDate
           /\ rec.kind \in {"none", "observation_gaps"}
           /\ rec.kind = "observation_gaps" => Gap(new, c)
<1>1. rec = IF c \in Recorded(new) /\ Gap(new, c)
            THEN [NoRecord EXCEPT !.kind = "observation_gaps"] ELSE NoRecord
  BY DEF BuildBriefing
<1>2. QED
  BY <1>1 DEF NoRecord, Records, Kinds, NoDate

(* A new day has records, as BuildBriefing makes them.                     *)
LEMMA DayTyped ==
    ASSUME NEW past, Good(past), NEW new \in Grids
    PROVE  /\ Day(past, new) \in Days
           /\ Day(past, new).grid = new
           /\ \A c \in Cells : Day(past, new).records[c] = BuildBriefing(past, new)[c]
<1>1. \A c \in Cells : BuildBriefing(past, new)[c] \in Records
  <2> SUFFICES ASSUME NEW c \in Cells PROVE BuildBriefing(past, new)[c] \in Records
    OBVIOUS
  <2>1. CASE past = <<>>
    BY <2>1, FirstTrue
  <2>2. CASE past # <<>>
    BY <2>2, RecordTrue DEF Tells
  <2>3. QED
    BY <2>1, <2>2
<1>2. BuildBriefing(past, new) = [c \in Cells |-> BuildBriefing(past, new)[c]]
  BY DEF BuildBriefing
<1>3. BuildBriefing(past, new) \in [Cells -> Records]
  BY <1>1, <1>2
<1>4. QED
  BY <1>3 DEF Day, Days

(* What is good of a day depends on the days up to it alone.               *)
LEMMA Agree ==
    ASSUME NEW s, NEW t, NEW n \in Nat \ {0}, \A d \in 1..n : s[d] = t[d],
           NEW c \in Cells, GoodDay(s, n, c), t \in Seq(Days), s \in Seq(Days),
           n <= Len(s), n <= Len(t)
    PROVE  GoodDay(t, n, c)
<1>1. \A d \in 1..n : Seen(s, d, c) <=> Seen(t, d, c)
  BY DEF Seen
<1>2. s[n] = t[n] /\ (n > 1 => s[n - 1] = t[n - 1])
  OBVIOUS
<1>3. s[n].records[c] \in Records
  BY DayType
<1>4. s[n].records[c].last \in Nat
  BY <1>3 DEF Records
<1>5. Dated(t, n, c)
  BY <1>1, <1>2, <1>4 DEF GoodDay, Dated, NoDate
<1>6. HasLatest(t, n, c)
  BY <1>1 DEF GoodDay, HasLatest
<1>7. Novel(t, n, c)
  BY <1>1, <1>2 DEF GoodDay, Novel
<1>8. Kept(t, n, c)
  BY <1>2 DEF GoodDay, Kept, Stable
<1>9. Told(t, n, c)
  <2>1. n > 1 => (Seen(s, n - 1, c) <=> Seen(t, n - 1, c))
    BY <1>1
  <2>2. QED
    BY <1>1, <1>2, <2>1 DEF GoodDay, Told, Stable
<1>10. QED
  BY <1>5, <1>6, <1>7, <1>8, <1>9 DEF GoodDay

(* No days tell nothing false.                                             *)
LEMMA GoodEmpty == Good(<<>>)
  BY DEF Good

(* The days before the last are a history, too.                            *)
LEMMA PastDays ==
    ASSUME NEW s \in Seq(Days), NEW k \in Nat \ {0}, k = Len(s),
           NEW t, t = SubSeq(s, 1, k - 1)
    PROVE  t \in Seq(Days) /\ Len(t) = k - 1 /\ \A d \in 1..(k - 1) : t[d] = s[d]
<1>1. \A i \in 1..(k - 1) : s[i] \in Days
  OBVIOUS
<1>2. k - 1 \in Int /\ 1 \in Int
  OBVIOUS
<1>3. /\ t \in Seq(Days)
      /\ Len(t) = IF 1 <= k - 1 THEN (k - 1) - 1 + 1 ELSE 0
      /\ \A i \in 1..((k - 1) - 1 + 1) : t[i] = s[1 + i - 1]
  BY <1>1, <1>2, SubSeqProperties
<1>4. k \in Int /\ k >= 1
  OBVIOUS
<1>5. Len(t) = k - 1
  BY <1>3, <1>4
<1>6. \A d \in 1..(k - 1) : d \in 1..((k - 1) - 1 + 1) /\ 1 + d - 1 = d
  BY <1>4
<1>7. QED
  BY <1>3, <1>5, <1>6

(* A history that ends earlier is as good. *)
LEMMA Prefix ==
    ASSUME NEW s, Good(s), s # <<>>
    PROVE  Good(SubSeq(s, 1, Len(s) - 1))
<1> DEFINE k == Len(s)
           t == SubSeq(s, 1, k - 1)
<1>1. s \in Seq(Days) /\ k \in Nat \ {0}
  BY DEF Good
<1>2. t \in Seq(Days) /\ Len(t) = k - 1 /\ \A d \in 1..(k - 1) : t[d] = s[d]
  BY <1>1, PastDays
<1> HIDE DEF t
<1>3. ASSUME NEW n \in 1..Len(t), NEW c \in Cells
      PROVE  GoodDay(t, n, c)
  <2>1. n \in 1..Len(s) /\ n \in Nat \ {0} /\ n <= Len(s) /\ n <= Len(t)
    BY <1>1, <1>2
  <2>2. GoodDay(s, n, c)
    BY <2>1 DEF Good
  <2>3. \A d \in 1..n : s[d] = t[d]
    BY <1>1, <1>2
  <2>4. QED
    BY <1>1, <1>2, <2>1, <2>2, <2>3, Agree
<1>4. Good(t)
  BY <1>2, <1>3 DEF Good
<1>5. QED
  BY <1>4 DEF t

(* A day more keeps a history good. *)
LEMMA Extend ==
    ASSUME NEW past, Good(past), NEW new \in Grids
    PROVE  Good(Append(past, Day(past, new)))
<1> DEFINE n   == Len(past)
           day == Day(past, new)
           s   == Append(past, day)
<1>1. past \in Seq(Days) /\ n \in Nat
  BY DEF Good
<1>2. day \in Days /\ day.grid = new
      /\ \A c \in Cells : day.records[c] = BuildBriefing(past, new)[c]
  BY DayTyped
<1> HIDE DEF day
<1>3. /\ s \in Seq(Days) /\ Len(s) = n + 1 /\ s[n + 1] = day
      /\ \A d \in 1..n : s[d] = past[d]
  BY <1>1, <1>2
<1> HIDE DEF s
<1>4. ASSUME NEW k \in 1..n, NEW c \in Cells
      PROVE  GoodDay(s, k, c)
  <2>1. k \in Nat \ {0} /\ k <= Len(past) /\ k <= Len(s)
    BY <1>1, <1>3
  <2>2. GoodDay(past, k, c)
    BY DEF Good
  <2>3. \A d \in 1..k : past[d] = s[d]
    BY <1>1, <1>3
  <2>4. QED
    BY <1>1, <1>3, <2>1, <2>2, <2>3, Agree
<1>5. ASSUME NEW c \in Cells
      PROVE  GoodDay(s, n + 1, c)
  <2> DEFINE rec == BuildBriefing(past, new)[c]
  <2>1. s[n + 1].records[c] = rec /\ s[n + 1].grid = new
    BY <1>2, <1>3
  <2>2. \A d \in 1..n : Seen(s, d, c) <=> Seen(past, d, c)
    BY <1>3 DEF Seen
  <2>3. Seen(s, n + 1, c) <=> new[c] = "available"
    BY <2>1 DEF Seen
  <2>4. HasLatest(s, n + 1, c)
    <3>1. CASE Seen(s, n + 1, c)
      BY <1>1, <3>1 DEF HasLatest
    <3>2. CASE ~Seen(s, n + 1, c)
      <4>1. \A d \in 1..(n + 1) : Seen(s, d, c) => d \in 1..n
        BY <1>1, <3>2
      <4>2. n # 0 => HasLatest(s, n, c)
        <5>1. n # 0 => n \in 1..n
          BY <1>1
        <5>2. QED
          BY <1>4, <5>1 DEF GoodDay
      <4>3. \A d \in 1..n : d \in 1..(n + 1)
        BY <1>1
      <4>4. CASE n = 0
        BY <4>1, <4>4 DEF HasLatest
      <4>5. CASE n # 0
        BY <4>1, <4>2, <4>3, <4>5 DEF HasLatest
      <4>6. QED
        BY <4>4, <4>5
    <3>3. QED
      BY <3>1, <3>2
  <2>5. CASE past = <<>>
    <3>1. n = 0
      BY <2>5
    <3>2. rec.last = NoDate /\ rec.since = NoDate /\ rec.kind \in {"none", "observation_gaps"}
          /\ (rec.kind = "observation_gaps" => Gap(new, c))
      BY <2>5, FirstTrue
    <3>3. QED
      BY <2>1, <2>4, <3>1, <3>2 DEF GoodDay, Dated, Novel, Kept, Told
  <2>6. CASE past # <<>>
    <3>1. n \in 1..n /\ n + 1 > 1 /\ (n + 1) - 1 = n /\ s[n] = past[n]
      BY <1>1, <1>3, <2>6
    <3> DEFINE before == past[n].records[c]
               stable == Scope(c) \in Scopes(past[n].grid) \cap Scopes(new)
    <3>2. Tells(past, new, c)
      BY <2>6, RecordTrue
    <3>3. rec.last \in Nat
      BY <3>2 DEF Records, Tells
    <3>4. Stable(s, n + 1, c) <=> stable
      BY <2>1, <3>1 DEF Stable
    <3>5. Dated(s, n + 1, c)
      <4>1. rec.last # NoDate => \A d \in (rec.last + 1)..n : d \in 1..n
        BY <1>1, <3>3
      <4>2. QED
        BY <2>1, <2>2, <3>1, <3>2, <4>1 DEF Dated, Tells
    <3>6. Novel(s, n + 1, c)
      BY <2>1, <2>2, <3>1, <3>2 DEF Novel, Tells
    <3>7. Kept(s, n + 1, c)
      BY <2>1, <3>1, <3>2, <3>4 DEF Kept, Tells
    <3>8. Told(s, n + 1, c)
      BY <2>1, <2>2, <2>3, <3>1, <3>2, <3>4 DEF Told, Tells
    <3>9. QED
      BY <2>4, <3>5, <3>6, <3>7, <3>8 DEF GoodDay
  <2>7. QED
    BY <2>5, <2>6
<1>6. \A k \in 1..(n + 1) : k \in 1..n \/ k = n + 1
  BY <1>1
<1>7. Good(s)
  BY <1>3, <1>4, <1>5, <1>6 DEF Good
<1>8. QED
  BY <1>7 DEF s, day

-----------------------------------------------------------------------------
(* What a scan leaves in a cell of the snapshot. *)
LEMMA PruneCell ==
    ASSUME NEW grid \in Grids
    PROVE  /\ Prune(grid) \in Grids
           /\ \A c \in Cells : Prune(grid)[c] =
                 IF Category[c[2]] \in Retired THEN Absent ELSE grid[c]
  BY DEF Prune, Grids

(* What a merge leaves in each cell.                                       *)
LEMMA MergeCell ==
    ASSUME NEW old \in Grids, NEW overlay \in Grids
    PROVE  /\ MergeOverlay(old, overlay) \in Grids
           /\ \A c \in Cells : MergeOverlay(old, overlay)[c] =
                 IF Category[c[2]] \in Retired THEN Absent
                 ELSE IF c \in Covered(overlay) THEN overlay[c] ELSE old[c]
<1> DEFINE laid == [c \in Cells |-> IF c \in Covered(overlay) THEN overlay[c] ELSE old[c]]
<1>1. laid \in Grids
  BY DEF Grids
<1>2. MergeOverlay(old, overlay) = Prune(laid)
  BY DEF MergeOverlay
<1>3. QED
  BY <1>1, <1>2, PruneCell

(* A cell is a region and a feature.                                       *)
LEMMA CellParts ==
    ASSUME NEW c \in Cells
    PROVE  c[1] \in Regions /\ c[2] \in Features /\ c = <<c[1], c[2]>>
  BY DEF Cells

(* The parts of an answer: one that failed lists nothing.                  *)
LEMMA AnswerParts ==
    ASSUME NEW a \in Answers(Items)
    PROVE  a.ok \in BOOLEAN /\ a.listed \subseteq Items /\ (~a.ok => a.listed = {})
<1>1. CASE a = [ok |-> FALSE, listed |-> {}]
  BY <1>1
<1>2. CASE \E some \in SUBSET Items : a = [ok |-> TRUE, listed |-> some]
  BY <1>2
<1>3. QED
  BY <1>1, <1>2 DEF Answers

(* The rows of a scan. *)
LEMMA OverlayCell ==
    ASSUME NEW scanned \in SUBSET Regions, NEW answer \in [scanned -> Answers(Items)],
           NEW overlay, overlay = CatalogOverlay(Sentinel, scanned, answer)
    PROVE  /\ overlay \in Grids
           /\ \A c \in Cells :
                /\ c[1] \notin scanned => overlay[c] = Absent
                /\ c[1] \in scanned =>
                     /\ overlay[c] # Absent => c[2] \in Items \cup {Sentinel}
                     /\ overlay[c] = "available" => c[2] \in answer[c[1]].listed
                     /\ overlay[c] \in Missing => c[2] \notin answer[c[1]].listed
                     /\ overlay[c] = "unknown" => ~answer[c[1]].ok
                     /\ c[2] \in answer[c[1]].listed => overlay[c] # Absent
<1> DEFINE listed == UNION {answer[r].listed : r \in scanned}
           Row(r, f) == IF answer[r].ok
                        THEN IF f \in answer[r].listed THEN "available" ELSE "unavailable"
                        ELSE "unknown"
           Rows(r) == IF listed = {} /\ ~answer[r].ok THEN {Sentinel} ELSE listed
<1>1. overlay = [c \in Cells |-> IF c[1] \in scanned /\ c[2] \in Rows(c[1])
                                 THEN Row(c[1], c[2]) ELSE Absent]
  BY DEF CatalogOverlay
<1>2. \A r \in scanned : answer[r] \in Answers(Items)
  OBVIOUS
<1>3. \A r \in scanned : answer[r].listed \subseteq Items /\ answer[r].listed \subseteq listed
                         /\ (~answer[r].ok => answer[r].listed = {})
  BY <1>2, AnswerParts
<1>4. listed \subseteq Items
  BY <1>3
<1>5. \A r, f : Row(r, f) \in Status /\ Row(r, f) # Absent
  BY DEF Status, Absent
<1>6. overlay \in Grids
  BY <1>1, <1>5 DEF Grids
<1>7. \A c \in Cells : overlay[c] = IF c[1] \in scanned /\ c[2] \in Rows(c[1])
                                    THEN Row(c[1], c[2]) ELSE Absent
  BY <1>1
<1>8. ASSUME NEW c \in Cells, c[1] \in scanned
      PROVE  /\ overlay[c] # Absent => c[2] \in Items \cup {Sentinel}
             /\ overlay[c] = "available" => c[2] \in answer[c[1]].listed
             /\ overlay[c] \in Missing => c[2] \notin answer[c[1]].listed
             /\ overlay[c] = "unknown" => ~answer[c[1]].ok
             /\ c[2] \in answer[c[1]].listed => overlay[c] # Absent
  <2> DEFINE a == answer[c[1]]
  <2>1. a.listed \subseteq listed /\ (~a.ok => a.listed = {})
    BY <1>3, <1>8
  <2>2. c[2] \in a.listed => c[2] \in Rows(c[1])
    BY <2>1
  <2>3. c[2] \in Rows(c[1]) => c[2] \in Items \cup {Sentinel}
    BY <1>4
  <2>4. overlay[c] = IF c[2] \in Rows(c[1]) THEN Row(c[1], c[2]) ELSE Absent
    BY <1>7, <1>8
  <2>5. /\ Row(c[1], c[2]) \notin Missing => Row(c[1], c[2]) # Absent
        /\ Row(c[1], c[2]) # Absent
        /\ Row(c[1], c[2]) = "available" => c[2] \in a.listed
        /\ Row(c[1], c[2]) = "unknown" => ~a.ok
        /\ Row(c[1], c[2]) = "unavailable" => c[2] \notin a.listed
        /\ Row(c[1], c[2]) \in {"available", "unavailable", "unknown"}
    BY DEF Absent, Missing
  <2> HIDE DEF Rows, Row, a
  <2>6. QED
    BY <2>2, <2>3, <2>4, <2>5 DEF Missing, Absent, a
<1>9. QED
  BY <1>6, <1>7, <1>8

(* What one scan says of a cell that is still probed, whether it covers    *)
(* the cell or leaves it as it was.                                        *)
LEMMA ScanCell ==
    ASSUME NEW scanned \in SUBSET Regions, NEW answer \in [scanned -> Answers(Items)],
           NEW base \in Grids, NEW c \in Cells, Category[c[2]] \notin Retired,
           NEW new, new = MergeOverlay(base, CatalogOverlay(Sentinel, scanned, answer))
    PROVE  \/ new[c] = base[c]
           \/ /\ c[1] \in scanned
              /\ new[c] = "available" => c[2] \in answer[c[1]].listed
              /\ new[c] \in Missing => c[2] \notin answer[c[1]].listed
<1> DEFINE overlay == CatalogOverlay(Sentinel, scanned, answer)
<1>1. overlay \in Grids
      /\ \A d \in Cells :
           /\ d[1] \notin scanned => overlay[d] = Absent
           /\ d[1] \in scanned =>
                /\ overlay[d] = "available" => d[2] \in answer[d[1]].listed
                /\ overlay[d] \in Missing => d[2] \notin answer[d[1]].listed
  BY OverlayCell
<1> HIDE DEF overlay
<1>2. new[c] = IF c \in Covered(overlay) THEN overlay[c] ELSE base[c]
  BY <1>1, MergeCell DEF overlay
<1>3. CASE c \in Covered(overlay)
  <2>1. PICK g \in Features : overlay[c[1], g] # Absent
    BY <1>3 DEF Covered
  <2>2. <<c[1], g>> \in Cells
    BY CellParts DEF Cells
  <2>3. c[1] \in scanned
    BY <1>1, <2>1, <2>2
  <2>4. QED
    BY <1>1, <1>2, <1>3, <2>3
<1>4. QED
  BY <1>2, <1>3

-----------------------------------------------------------------------------
(* Since yesterday a cell that is still probed has become available, or    *)
(* missing, only by an answer heard today.                                 *)
Observed ==
    Today > 1 => \A c \in Cells :
       LET now    == days[Today].grid[c]
           before == days[Today - 1].grid[c]
       IN IF Category[c[2]] \in Retired THEN now = Absent
          ELSE /\ now = "available" /\ before # "available" =>
                     \E a \in heard[c[1]] : c[2] \in a.listed
               /\ now \in Missing /\ before = "available" =>
                     \E a \in heard[c[1]] : c[2] \notin a.listed

IInv == /\ Good(days) /\ days # <<>>
        /\ heard \in [Regions -> SUBSET Answers(Items)] /\ runs \in 0..MaxRuns
        /\ Observed

(* The history after a snapshot is filed. *)
LEMMA FiledGood ==
    ASSUME Good(days), days # <<>>, NEW new \in Grids, NEW answers, File(new, answers)
    PROVE  /\ Good(days') /\ days' # <<>>
           /\ \/ /\ FileNewDay(new, answers) /\ Today' = Today + 1 /\ days'[Today'].grid = new
                 /\ days'[Today' - 1] = days[Today]
              \/ /\ FileAgain(new, answers) /\ Today' = Today /\ days'[Today].grid = new
                 /\ Today > 1 => days'[Today - 1] = days[Today - 1]
<1> DEFINE n == Len(days)
<1>1. days \in Seq(Days) /\ n \in Nat \ {0} /\ Len(days) = n
  BY DEF Good
<1>2. CASE FileNewDay(new, answers)
  <2> DEFINE day == Day(days, new)
  <2>1. days' = Append(days, day)
    BY <1>2 DEF FileNewDay
  <2>2. Good(Append(days, day))
    BY Extend
  <2>3. day \in Days /\ day.grid = new
    BY DayTyped
  <2> HIDE DEF day
  <2>4. Len(Append(days, day)) = n + 1 /\ Append(days, day)[n + 1] = day
        /\ Append(days, day)[n] = days[n]
    BY <1>1, <2>3
  <2>5. QED
    BY <1>1, <1>2, <2>1, <2>2, <2>3, <2>4 DEF Today
<1>3. CASE FileAgain(new, answers)
  <2> DEFINE past == Past
             day  == Day(past, new)
             s    == [days EXCEPT ![n] = day]
  <2>1. days' = s
    BY <1>3 DEF FileAgain, Today
  <2>2. Good(past)
    BY Prefix DEF Past, Today
  <2>3. Good(Append(past, day))
    BY <2>2, Extend
  <2>4. day \in Days /\ day.grid = new
    BY <2>2, DayTyped
  <2>5. past \in Seq(Days)
    BY <2>2 DEF Good
  <2>6. Len(past) = n - 1 /\ \A d \in 1..(n - 1) : past[d] = days[d]
    <3>1. past = SubSeq(days, 1, n - 1) /\ n = Len(days)
      BY DEF Past, Today
    <3> HIDE DEF past, n
    <3> QED
      BY <1>1, <3>1, PastDays
  <2> HIDE DEF past, day
  <2>7. s \in Seq(Days) /\ Len(s) = n /\ s[n] = day /\ \A d \in 1..(n - 1) : s[d] = days[d]
    BY <1>1, <2>4
  <2> DEFINE t == Append(past, day)
  <2>8. t \in Seq(Days) /\ Len(t) = n /\ t[n] = day /\ \A d \in 1..(n - 1) : t[d] = days[d]
    BY <1>1, <2>4, <2>5, <2>6
  <2> HIDE DEF s, t
  <2>9. \A d \in 1..n : d = n \/ d \in 1..(n - 1)
    BY <1>1
  <2>10. \A d \in 1..n : s[d] = t[d]
    BY <2>7, <2>8, <2>9
  <2>11. s = t
    BY <2>7, <2>8, <2>10, SeqEqual
  <2>12. Good(s)
    BY <2>3, <2>11 DEF t
  <2>13. n > 1 => s[n - 1] = days[n - 1]
    BY <1>1, <2>7
  <2>14. QED
    BY <1>1, <1>3, <2>1, <2>4, <2>7, <2>12, <2>13 DEF Today
<1>4. QED
  BY <1>2, <1>3 DEF File

(* The first day is true.                                                  *)
LEMMA InitInv == Init => IInv
<1> SUFFICES ASSUME Init PROVE IInv
  OBVIOUS
<1>1. PICK g \in Published : days = <<Day(<<>>, g)>>
  BY DEF Init
<1>2. g \in Grids
  BY DailyAssumption
<1>3. Good(Append(<<>>, Day(<<>>, g)))
  BY <1>2, GoodEmpty, Extend
<1> DEFINE day == Day(<<>>, g)
<1> HIDE DEF day
<1>4. Append(<<>>, day) = <<day>> /\ Len(<<day>>) = 1 /\ <<day>> # <<>>
  OBVIOUS
<1>5. Good(days) /\ days # <<>> /\ Today = 1
  BY <1>1, <1>3, <1>4 DEF day, Today
<1>6. heard \in [Regions -> SUBSET Answers(Items)] /\ runs \in 0..MaxRuns
  BY DailyAssumption DEF Init, NoAnswers
<1>7. Observed
  BY <1>5 DEF Observed
<1>8. QED
  BY <1>5, <1>6, <1>7 DEF IInv

(* The latest day and the one before have grids.                           *)
LEMMA TodayTyped ==
    ASSUME Good(days), days # <<>>
    PROVE  /\ Today \in Nat \ {0} /\ days[Today].grid \in Grids
           /\ Today > 1 => days[Today - 1].grid \in Grids
<1>1. days \in Seq(Days) /\ Today \in Nat \ {0}
  BY DEF Good, Today
<1>2. days[Today] \in Days /\ (Today > 1 => days[Today - 1] \in Days)
  BY <1>1 DEF Today
<1>3. QED
  BY <1>1, <1>2, DayType

(* A run that tells of its answers truly keeps the invariant.  It leaves a *)
(* cell as it was, or an answer tells of it.                               *)
LEMMA FiledInv ==
    ASSUME IInv, NEW new \in Grids, NEW answers \in [Regions -> SUBSET Answers(Items)],
           File(new, answers),
           \A c \in Cells :
              IF Category[c[2]] \in Retired THEN new[c] = Absent
              ELSE \/ new[c] = days[Today].grid[c]
                   \/ /\ new[c] = "available" => \E a \in answers[c[1]] : c[2] \in a.listed
                      /\ new[c] \in Missing => \E a \in answers[c[1]] : c[2] \notin a.listed
    PROVE  IInv'
<1>1. Good(days) /\ days # <<>>
  BY DEF IInv
<1>2. /\ Good(days') /\ days' # <<>>
      /\ \/ /\ FileNewDay(new, answers) /\ Today' = Today + 1 /\ days'[Today'].grid = new
            /\ days'[Today' - 1] = days[Today]
         \/ /\ FileAgain(new, answers) /\ Today' = Today /\ days'[Today].grid = new
            /\ Today > 1 => days'[Today - 1] = days[Today - 1]
  BY <1>1, FiledGood
<1>3. Today \in Nat \ {0}
  BY <1>1, TodayTyped
<1>4. heard' \in [Regions -> SUBSET Answers(Items)]
  <2>1. CASE FileNewDay(new, answers)
    BY <2>1 DEF FileNewDay
  <2>2. CASE FileAgain(new, answers)
    BY <2>2 DEF FileAgain, IInv
  <2>3. QED
    BY <2>1, <2>2 DEF File
<1>5. runs' \in 0..MaxRuns
  BY DailyAssumption DEF File, FileNewDay, FileAgain, IInv
<1>6. ASSUME NEW c \in Cells
      PROVE  answers[c[1]] \subseteq heard'[c[1]]
  <2>1. c[1] \in Regions
    BY CellParts
  <2>2. QED
    BY <2>1 DEF File, FileNewDay, FileAgain
<1>7. Observed'
  <2>1. CASE /\ FileNewDay(new, answers) /\ Today' = Today + 1 /\ days'[Today'].grid = new
             /\ days'[Today' - 1] = days[Today]
    BY <1>6, <2>1 DEF Observed, Missing, Absent
  <2>2. CASE /\ FileAgain(new, answers) /\ Today' = Today /\ days'[Today].grid = new
             /\ Today > 1 => days'[Today - 1] = days[Today - 1]
    <3>1. ASSUME NEW c \in Cells
          PROVE  heard[c[1]] \subseteq heard'[c[1]]
      BY <2>2, CellParts DEF FileAgain
    <3>2. QED
      BY <1>6, <2>2, <3>1 DEF IInv, Observed
  <2>3. QED
    BY <1>2, <2>1, <2>2
<1>8. QED
  BY <1>2, <1>4, <1>5, <1>7 DEF IInv

(* A day without any answer keeps the invariant.                           *)
LEMMA ScanFailsInv ==
    ASSUME IInv, ScanFails
    PROVE  IInv'
<1> DEFINE base == days[Today].grid
           new  == Prune(base)
<1>1. base \in Grids
  BY TodayTyped DEF IInv
<1>2. new \in Grids
      /\ \A c \in Cells : new[c] = IF Category[c[2]] \in Retired THEN Absent ELSE base[c]
  BY <1>1, PruneCell
<1>3. File(new, NoAnswers) /\ NoAnswers \in [Regions -> SUBSET Answers(Items)]
  BY DEF ScanFails, NoAnswers
<1> HIDE DEF new
<1>4. QED
  BY <1>2, <1>3, FiledInv

(* What a scan files. *)
ScanAnswers(scanned, answer) ==
    [r \in Regions |-> IF r \in scanned THEN {answer[r]} ELSE {}]

(* A day with answers keeps the invariant.                                 *)
LEMMA ScanInv ==
    ASSUME IInv, NEW scanned \in SUBSET Regions, Scan(scanned)
    PROVE  IInv'
<1> DEFINE base == days[Today].grid
<1>1. base \in Grids
  BY TodayTyped DEF IInv
<1>2. PICK answer \in [scanned -> Answers(Items)] :
         File(MergeOverlay(base, CatalogOverlay(Sentinel, scanned, answer)),
              ScanAnswers(scanned, answer))
  BY DEF Scan, ScanAnswers
<1> DEFINE overlay == CatalogOverlay(Sentinel, scanned, answer)
           new     == MergeOverlay(base, overlay)
           answers == ScanAnswers(scanned, answer)
<1>3. overlay \in Grids
  BY OverlayCell
<1> HIDE DEF overlay
<1>4. new \in Grids
      /\ \A c \in Cells : Category[c[2]] \in Retired => new[c] = Absent
  BY <1>1, <1>3, MergeCell
<1>5. answers \in [Regions -> SUBSET Answers(Items)]
  BY DEF ScanAnswers
<1>6. \A c \in Cells : c[1] \in scanned => answers[c[1]] = {answer[c[1]]}
  BY DEF ScanAnswers
<1>7. ASSUME NEW c \in Cells, Category[c[2]] \notin Retired
      PROVE  \/ new[c] = base[c]
             \/ /\ c[1] \in scanned
                /\ new[c] = "available" => c[2] \in answer[c[1]].listed
                /\ new[c] \in Missing => c[2] \notin answer[c[1]].listed
  BY <1>1, <1>7, ScanCell DEF overlay
<1>8. File(new, answers)
  BY <1>2 DEF overlay
<1> HIDE DEF new, answers
<1>9. \A c \in Cells :
         IF Category[c[2]] \in Retired THEN new[c] = Absent
         ELSE \/ new[c] = base[c]
              \/ /\ new[c] = "available" => \E a \in answers[c[1]] : c[2] \in a.listed
                 /\ new[c] \in Missing => \E a \in answers[c[1]] : c[2] \notin a.listed
  BY <1>4, <1>6, <1>7
<1>10. QED
  BY <1>4, <1>5, <1>8, <1>9, FiledInv

(* Every step keeps the invariant.                                         *)
LEMMA NextInv == IInv /\ [Next]_vars => IInv'
<1> SUFFICES ASSUME IInv, [Next]_vars PROVE IInv'
  OBVIOUS
<1>1. CASE ScanFails
  BY <1>1, ScanFailsInv
<1>2. CASE \E scanned \in SUBSET Regions \ {{}} : Scan(scanned)
  BY <1>2, ScanInv
<1>3. CASE UNCHANGED vars
  BY <1>3 DEF vars, IInv, Observed, Today
<1>4. QED
  BY <1>1, <1>2, <1>3 DEF Next

(* The invariant holds always.                                             *)
LEMMA Invariance == Spec => []IInv
<1>1. Init => IInv
  BY InitInv
<1>2. IInv /\ [Next]_vars => IInv'
  BY NextInv
<1>3. QED
  BY <1>1, <1>2, PTL DEF Spec

-----------------------------------------------------------------------------
(* The history is well formed: statuses and records of every retained day. *)
THEOREM TypeCorrect == Spec => []TypeOK
<1>1. IInv => TypeOK
  BY DEF IInv, Good, Days, TypeOK
<1>2. QED
  BY <1>1, Invariance, PTL

(* What the invariant says of one cell on one day.                         *)
LEMMA CellsGood ==
    ASSUME IInv, NEW n \in DOMAIN days, NEW c \in Cells
    PROVE  /\ days \in Seq(Days) /\ n \in Nat \ {0} /\ n <= Today /\ Today \in Nat
           /\ GoodDay(days, n, c)
           /\ RecordOf(n, c).last \in Nat /\ RecordOf(n, c).since \in Nat
<1>1. days \in Seq(Days) /\ n \in 1..Len(days) /\ Len(days) \in Nat
  BY DEF IInv, Good
<1>2. RecordOf(n, c) \in Records
  BY <1>1, DayType DEF RecordOf
<1>3. GoodDay(days, n, c)
  BY <1>1 DEF IInv, Good
<1>4. QED
  BY <1>1, <1>2, <1>3 DEF Records, Today

(* briefing.py: the dates that a record of any day cites, of the last day  *)
(* a cell was available and the first it was missing, are true, however    *)
(* often days were filed again and whatever was answered.                  *)
THEOREM DatesTrue == Spec => []CitedDatesTrue
<1>1. ASSUME IInv PROVE CitedDatesTrue
  <2> SUFFICES ASSUME NEW n \in DOMAIN days, NEW c \in Cells
               PROVE  LET rec == RecordOf(n, c) IN
                      /\ rec.last # NoDate =>
                            /\ rec.last < n /\ StatusOf(rec.last, c) = "available"
                            /\ \A d \in (rec.last + 1)..(n - 1) : StatusOf(d, c) # "available"
                      /\ rec.since # NoDate =>
                            /\ rec.last # NoDate /\ rec.last < rec.since /\ rec.since <= n
                            /\ StatusOf(n, c) # "available"
    BY DEF CitedDatesTrue
  <2>1. Dated(days, n, c) /\ n \in Nat \ {0} /\ RecordOf(n, c).last \in Nat
    BY <1>1, CellsGood DEF GoodDay
  <2>2. \A status \in Missing \cup {"unknown"} : status # "available"
    BY DEF Missing, Absent
  <2>3. QED
    BY <2>1, <2>2 DEF Dated, Seen, RecordOf, StatusOf
<1>2. QED
  BY <1>1, Invariance, PTL

(* briefing.py: a listing that the retained history already had is never   *)
(* called new: it is a restoration.                                        *)
THEOREM NewListings == Spec => []NewMeansNew
<1>1. ASSUME IInv PROVE NewMeansNew
  <2>1. ASSUME NEW n \in DOMAIN days, NEW c \in Cells
        PROVE  Novel(days, n, c)
    BY <1>1, CellsGood DEF GoodDay
  <2>2. QED
    BY <2>1 DEF NewMeansNew, Novel, Seen, RecordOf, StatusOf
<1>2. QED
  BY <1>1, Invariance, PTL

(* briefing.py: what is lost stays on the list, and keeps its dates.       *)
THEOREM LostTracked == Spec => []LostStaysTracked
<1>1. ASSUME IInv PROVE LostStaysTracked
  <2>1. ASSUME NEW n \in 2..Today, NEW c \in Cells
        PROVE  Kept(days, n, c) /\ n > 1
    <3>1. Today = Len(days) /\ days \in Seq(Days)
      BY <1>1 DEF IInv, Good, Today
    <3>2. n \in DOMAIN days /\ n > 1
      BY <3>1
    <3>3. QED
      BY <1>1, <3>2, CellsGood DEF GoodDay
  <2>2. QED
    BY <2>1 DEF LostStaysTracked, Kept, Stable, RecordOf, StatusOf
<1>2. QED
  BY <1>1, Invariance, PTL

(* A cell in a scope of today's snapshot is still probed. *)
LEMMA ScopeProbed ==
    ASSUME IInv, Today > 1, NEW c \in Cells, Scope(c) \in Scopes(days[Today].grid)
    PROVE  Category[c[2]] \notin Retired
<1>1. PICK d \in Cells : days[Today].grid[d] # Absent /\ Scope(d) = Scope(c)
  BY DEF Scopes, Recorded
<1>2. Category[d[2]] \notin Retired
  BY <1>1 DEF IInv, Observed
<1>3. Modality[d[2]] = Modality[c[2]]
  BY <1>1 DEF Scope
<1>4. QED
  BY <1>2, <1>3, CellParts, ModalityAssumption

(* briefing.py and snapshot_merge.py: readers are told that a listing was  *)
(* won or lost only by an answer of Azure for its region on that date.     *)
THEOREM ObservedNews == Spec => []NewsIsObserved
<1>1. ASSUME IInv PROVE NewsIsObserved
  <2> SUFFICES ASSUME Today > 1, NEW c \in Cells
               PROVE  LET kind == RecordOf(Today, c).kind IN
                      /\ kind \in {"new_listings", "restorations"} =>
                            \E a \in heard[c[1]] : c[2] \in a.listed
                      /\ kind = "delistings" => \E a \in heard[c[1]] : c[2] \notin a.listed
    BY DEF NewsIsObserved
  <2>1. Today \in DOMAIN days
    BY <1>1 DEF IInv, Good, Today
  <2>2. Told(days, Today, c)
    BY <1>1, <2>1, CellsGood DEF GoodDay
  <2> DEFINE now    == days[Today].grid[c]
             before == days[Today - 1].grid[c]
             kind   == RecordOf(Today, c).kind
  <2>3. /\ kind \in {"new_listings", "restorations"} => now = "available" /\ before # "available"
        /\ kind = "delistings" => /\ now \in Missing /\ before = "available"
                                  /\ Scope(c) \in Scopes(days[Today].grid)
    BY <2>2 DEF Told, Seen, Stable, RecordOf
  <2>4. /\ kind \in {"new_listings", "restorations"} => Category[c[2]] \notin Retired
        /\ kind = "delistings" => Category[c[2]] \notin Retired
    <3>1. Category[c[2]] \in Retired => now = Absent
      BY <1>1 DEF IInv, Observed
    <3>2. QED
      BY <1>1, <2>3, <3>1, ScopeProbed DEF Absent
  <2>5. QED
    BY <1>1, <2>3, <2>4 DEF IInv, Observed
<1>2. QED
  BY <1>1, Invariance, PTL

-----------------------------------------------------------------------------
(* Where snapshot_merge.py files the sentinel of a catalog under the       *)
(* category of its items (as it does for extensions and VM sizes, not for  *)
(* AI models), and only rows of the catalog are unknown to begin with.     *)
OneCatalog ==
    /\ \A i \in Items : Category[i] = Category[Sentinel]
    /\ \A g \in Published : \A c \in Cells :
          g[c] = "unknown" => Category[c[2]] \in Retired \cup {Category[Sentinel]}

UnknownRows == \A c \in Cells : days[Today].grid[c] = "unknown" =>
                  Category[c[2]] \in Retired \cup {Category[Sentinel]}

UInv == UnknownRows /\ UnknownMeansFailed

(* On the first day only a sentinel may be unknown.                        *)
LEMMA InitUnknown == ASSUME OneCatalog, Init PROVE UInv
<1>1. PICK g \in Published : days = <<Day(<<>>, g)>>
  BY DEF Init
<1>2. Day(<<>>, g).grid = g
  BY DEF Day
<1> DEFINE day == Day(<<>>, g)
<1> HIDE DEF day
<1>3. Len(<<day>>) = 1 /\ <<day>>[1] = day
  OBVIOUS
<1>4. days[Today].grid = g
  BY <1>1, <1>2, <1>3 DEF day, Today
<1>5. UnknownRows
  BY <1>4 DEF UnknownRows, OneCatalog
<1>6. \A c \in Cells : heard[c[1]] = {}
  BY CellParts DEF Init, NoAnswers
<1>7. QED
  BY <1>5, <1>6 DEF UInv, UnknownMeansFailed

(* A scan leaves a row unknown only where its call failed or listed        *)
(* nothing, and else in a region that it did not scan.                     *)
LEMMA ScanUnknown ==
    ASSUME OneCatalog, NEW base \in Grids, NEW c \in Cells,
           base[c] = "unknown" => Category[c[2]] \in Retired \cup {Category[Sentinel]},
           NEW scanned \in SUBSET Regions, NEW answer \in [scanned -> Answers(Items)],
           NEW new, new = MergeOverlay(base, CatalogOverlay(Sentinel, scanned, answer)),
           new[c] = "unknown"
    PROVE  /\ Category[c[2]] \in Retired \cup {Category[Sentinel]}
           /\ IF c[1] \in scanned
              THEN ~answer[c[1]].ok \/ answer[c[1]].listed = {}
              ELSE base[c] = "unknown"
<1> DEFINE overlay == CatalogOverlay(Sentinel, scanned, answer)
<1>1. overlay \in Grids
      /\ \A d \in Cells :
           /\ d[1] \notin scanned => overlay[d] = Absent
           /\ d[1] \in scanned =>
                /\ overlay[d] # Absent => d[2] \in Items \cup {Sentinel}
                /\ overlay[d] = "unknown" => ~answer[d[1]].ok
                /\ d[2] \in answer[d[1]].listed => overlay[d] # Absent
  BY OverlayCell
<1> HIDE DEF overlay
<1>2. /\ Category[c[2]] \notin Retired
      /\ new[c] = IF c \in Covered(overlay) THEN overlay[c] ELSE base[c]
  BY <1>1, MergeCell DEF overlay, Absent
<1>3. CASE c \in Covered(overlay)
  <2>1. overlay[c] = "unknown" /\ overlay[c] # Absent
    BY <1>2, <1>3 DEF Absent
  <2>2. c[1] \in scanned /\ c[2] \in Items \cup {Sentinel} /\ ~answer[c[1]].ok
    BY <1>1, <2>1
  <2>3. QED
    BY <2>2 DEF OneCatalog
<1>4. CASE c \notin Covered(overlay)
  <2>1. base[c] = "unknown" /\ Category[c[2]] = Category[Sentinel]
    BY <1>2, <1>4
  <2>2. ASSUME c[1] \in scanned, NEW i \in answer[c[1]].listed
        PROVE  FALSE
    <3>1. i \in Items
      BY <2>2, AnswerParts
    <3>2. <<c[1], i>> \in Cells
      BY <3>1, CellParts, DailyAssumption DEF Cells
    <3>3. overlay[c[1], i] # Absent
      BY <1>1, <2>2, <3>2
    <3>4. QED
      BY <1>4, <2>1, <3>1, <3>3, DailyAssumption DEF Covered, OneCatalog
  <2>3. QED
    BY <2>1, <2>2
<1>5. QED
  BY <1>3, <1>4

(* A check stays unknown only if a call of its region failed.              *)
LEMMA NextUnknown == ASSUME OneCatalog, IInv, UInv, [Next]_vars PROVE UInv'
<1> DEFINE base == days[Today].grid
<1>1. base \in Grids /\ Good(days) /\ days # <<>>
  BY TodayTyped DEF IInv
<1>2. ASSUME NEW new \in Grids, NEW answers, File(new, answers)
      PROVE  /\ days'[Today'].grid = new
             /\ \A c \in Cells : /\ answers[c[1]] \subseteq heard'[c[1]]
                                 /\ heard'[c[1]] = answers[c[1]]
                                    \/ heard'[c[1]] = heard[c[1]] \cup answers[c[1]]
  <2>1. days'[Today'].grid = new
    BY <1>1, <1>2, FiledGood
  <2>2. ASSUME NEW c \in Cells
        PROVE  heard'[c[1]] = answers[c[1]] \/ heard'[c[1]] = heard[c[1]] \cup answers[c[1]]
    BY <1>2, CellParts DEF File, FileNewDay, FileAgain
  <2>3. QED
    BY <2>1, <2>2
<1>3. CASE ScanFails
  <2> DEFINE new == Prune(base)
  <2>1. new \in Grids
        /\ \A c \in Cells : new[c] = IF Category[c[2]] \in Retired THEN Absent ELSE base[c]
    BY <1>1, PruneCell
  <2>2. File(new, NoAnswers)
    BY <1>3 DEF ScanFails
  <2> HIDE DEF new
  <2>3. days'[Today'].grid = new
        /\ \A c \in Cells : heard'[c[1]] = NoAnswers[c[1]]
                            \/ heard'[c[1]] = heard[c[1]] \cup NoAnswers[c[1]]
    BY <1>2, <2>1, <2>2
  <2>4. \A c \in Cells : NoAnswers[c[1]] = {}
    BY CellParts DEF NoAnswers
  <2>5. \A c \in Cells : new[c] = "unknown" => base[c] = "unknown"
    BY <2>1 DEF Absent
  <2>6. UnknownRows'
    BY <2>3, <2>5 DEF UInv, UnknownRows
  <2>7. UnknownMeansFailed'
    BY <2>3, <2>4, <2>5 DEF UInv, UnknownMeansFailed, StatusOf
  <2>8. QED
    BY <2>6, <2>7 DEF UInv
<1>4. CASE \E scanned \in SUBSET Regions \ {{}} : Scan(scanned)
  <2>0. PICK scanned \in SUBSET Regions : Scan(scanned)
    BY <1>4
  <2>1. PICK answer \in [scanned -> Answers(Items)] :
           File(MergeOverlay(base, CatalogOverlay(Sentinel, scanned, answer)),
                ScanAnswers(scanned, answer))
    BY <2>0 DEF Scan, ScanAnswers
  <2> DEFINE new     == MergeOverlay(base, CatalogOverlay(Sentinel, scanned, answer))
             answers == ScanAnswers(scanned, answer)
  <2>2. new \in Grids
    BY <1>1, OverlayCell, MergeCell
  <2>3. \A c \in Cells : answers[c[1]] = IF c[1] \in scanned THEN {answer[c[1]]} ELSE {}
    BY CellParts DEF ScanAnswers
  <2>4. ASSUME NEW c \in Cells, new[c] = "unknown"
        PROVE  /\ Category[c[2]] \in Retired \cup {Category[Sentinel]}
               /\ IF c[1] \in scanned
                  THEN ~answer[c[1]].ok \/ answer[c[1]].listed = {}
                  ELSE base[c] = "unknown"
    <3>1. base[c] = "unknown" => Category[c[2]] \in Retired \cup {Category[Sentinel]}
      BY DEF UInv, UnknownRows
    <3>2. MergeOverlay(base, CatalogOverlay(Sentinel, scanned, answer))[c] = "unknown"
      BY <2>4
    <3> HIDE DEF base
    <3>3. QED
      BY <1>1, <3>1, <3>2, ScanUnknown
  <2> HIDE DEF new, answers
  <2>5. /\ days'[Today'].grid = new
        /\ \A c \in Cells : /\ answers[c[1]] \subseteq heard'[c[1]]
                            /\ heard'[c[1]] = answers[c[1]]
                               \/ heard'[c[1]] = heard[c[1]] \cup answers[c[1]]
    BY <1>2, <2>1, <2>2 DEF new, answers
  <2>6. UnknownRows'
    BY <2>4, <2>5 DEF UnknownRows
  <2>7. UnknownMeansFailed'
    <3> SUFFICES ASSUME NEW c \in Cells, new[c] = "unknown", heard'[c[1]] # {}
                 PROVE  \E a \in heard'[c[1]] : ~a.ok \/ a.listed = {}
      BY <2>5 DEF UnknownMeansFailed, StatusOf
    <3>1. CASE c[1] \in scanned
      BY <2>3, <2>4, <2>5, <3>1
    <3>2. CASE c[1] \notin scanned
      <4>1. heard'[c[1]] = heard[c[1]] /\ base[c] = "unknown"
        <5>1. answers[c[1]] = {} /\ base[c] = "unknown"
          BY <2>3, <2>4, <3>2
        <5>2. heard'[c[1]] = answers[c[1]] \/ heard'[c[1]] = heard[c[1]] \cup answers[c[1]]
          BY <2>5
        <5>3. QED
          BY <5>1, <5>2
      <4>2. StatusOf(Today, c) = "unknown" /\ heard[c[1]] # {}
        BY <4>1 DEF StatusOf
      <4>3. \E a \in heard[c[1]] : ~a.ok \/ a.listed = {}
        BY <4>2 DEF UInv, UnknownMeansFailed
      <4>4. QED
        BY <4>1, <4>3
    <3>3. QED
      BY <3>1, <3>2
  <2>8. QED
    BY <2>6, <2>7 DEF UInv
<1>5. CASE UNCHANGED vars
  BY <1>5 DEF vars, UInv, UnknownRows, UnknownMeansFailed, StatusOf, Today
<1>6. QED
  BY <1>3, <1>4, <1>5 DEF Next

(* snapshot_merge.py, poc-deployment.md: no check stays unknown once a     *)
(* call for its region has listed the catalog, if the sentinel of a failed *)
(* catalog is filed with its items.                                        *)
THEOREM UnknownFailed == ASSUME OneCatalog PROVE Spec => []UnknownMeansFailed
<1>1. Init => UInv
  BY InitUnknown
<1>2. IInv /\ UInv /\ [Next]_vars => UInv'
  BY NextUnknown
<1>3. UInv => UnknownMeansFailed
  BY DEF UInv
<1>4. QED
  BY <1>1, <1>2, <1>3, Invariance, PTL DEF Spec
=============================================================================
