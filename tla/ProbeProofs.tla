----------------------------- MODULE ProbeProofs -----------------------------
(* Proofs about ProbeRunner, for any probes, regions, calls and answers:   *)
(* the loops of a probe job leave what one scan of each catalog amounts    *)
(* to, and no outage becomes a verdict.                                    *)
EXTENDS ProbeRunner, SequenceTheorems, TLAPS

(* The calls that were made.                                               *)
Called(r, p) == \E i \in 1..(next - 1) : Calls[i] = <<r, p>>

(* What a call leaves in the cell of a row of its probe, and the rows that *)
(* it takes for listed.                                                    *)
RowOf(r, p, f) ==
    LET answer == answers[<<r, p>>]
    IN  IF Kind[p] = "catalog"
        THEN IF answer.ok THEN IF f \in answer.listed THEN "available" ELSE Absent
             ELSE IF f = Sentinel[p] THEN "unknown" ELSE Absent
        ELSE IF ~answer.ok THEN "unknown" ELSE IF f \in answer.listed THEN "available" ELSE "unavailable"
Shown(r, p) == IF Kind[p] = "catalog" THEN answers[<<r, p>>].listed ELSE Listed(p)

Raw(r, p, f) == IF Called(r, p) THEN RowOf(r, p, f) ELSE Absent

(* How the bookkeeping of the loops follows from the calls so far.         *)
BlockedSound ==
    \A r \in Regions, p \in Probes :
        blocked[<<r, p>>] = IF Called(r, p) /\ Normalizes(p) /\ ~answers[<<r, p>>].ok THEN LastUnknown(p) ELSE None

NormalizedSound ==
    \A f \in Features :
        f \in normalized <=> \E r \in Regions, p \in Probes :
                                 Called(r, p) /\ Normalizes(p) /\ answers[<<r, p>>].ok /\ f \in Shown(r, p)

GridSound ==
    \A r \in Regions, p \in Probes : \A f \in Rows(p) :
        grid[<<r, f>>] = IF ~done THEN Raw(r, p, f)
                     ELSE IF Drops(r, f) THEN Absent
                     ELSE IF Raw(r, p, f) = Absent /\ f \in normalized THEN Fill(r, f)
                     ELSE Raw(r, p, f)

Inv == /\ TypeOK /\ BlockedSound /\ NormalizedSound /\ GridSound
       /\ done => next > Len(Calls)
-----------------------------------------------------------------------------
(* The rows of a probe are features, and belong to no other probe.         *)
LEMMA RowsAreFeatures ==
    /\ \A p \in Probes : /\ Listed(p) \subseteq Rows(p) /\ Rows(p) \subseteq Features
                         /\ LastUnknown(p) \in Rows(p) /\ LastUnknown(p) # None
                         /\ Kind[p] = "catalog" => Sentinel[p] \in Rows(p)
                         /\ Kind[p] # "catalog" => Rows(p) = Listed(p)
    /\ \A p, q \in Probes : \A f \in Features : f \in Rows(p) /\ f \in Rows(q) => p = q
<1>1. ASSUME NEW p \in Probes
      PROVE  /\ Listed(p) \subseteq Rows(p) /\ Rows(p) \subseteq Features
             /\ LastUnknown(p) \in Rows(p) /\ LastUnknown(p) # None
             /\ Kind[p] = "catalog" => Sentinel[p] \in Rows(p)
             /\ Kind[p] # "catalog" => Rows(p) = Listed(p)
    <2>1. Items[p] \in Seq(Features) /\ Items[p] # <<>> /\ Sentinel[p] \in Features
        BY ProbeAssumption
    <2>2. Listed(p) \subseteq Features
        BY <2>1 DEF Listed
    <2>3. Len(Items[p]) \in DOMAIN Items[p]
        BY <2>1
    <2>4. LastUnknown(p) \in Rows(p)
        BY <2>3 DEF LastUnknown, Rows, Listed
    <2> QED
        BY <2>1, <2>2, <2>4, ProbeAssumption DEF Rows
<1>2. ASSUME NEW p \in Probes, NEW q \in Probes, NEW f \in Features, f \in Rows(p), f \in Rows(q)
      PROVE  p = q
    BY <1>2, ProbeAssumption
<1> QED
    BY <1>1, <1>2

(* An answer lists items of its probe, and none if it failed.             *)
LEMMA AnswerShape ==
    ASSUME NEW S, NEW a \in Answers(S)
    PROVE  a.ok \in BOOLEAN /\ a.listed \subseteq S /\ (~a.ok => a.listed = {})
<1>1. CASE \E some \in SUBSET S : a = [ok |-> TRUE, listed |-> some]
    BY <1>1
<1>2. CASE a = [ok |-> FALSE, listed |-> {}]
    BY <1>2
<1> QED
    BY <1>1, <1>2 DEF Answers

(* The rows of one call.                                                   *)
LEMMA ResultRows ==
    ASSUME NEW r \in Regions, NEW p \in Probes, answers[<<r, p>>] \in Answers(Listed(p))
    PROVE  LET result == Result(p, answers[<<r, p>>])
           IN  /\ DOMAIN result \subseteq Rows(p)
               /\ \A f \in DOMAIN result : result[f] = RowOf(r, p, f) /\ result[f] \in Status
               /\ \A f \in Rows(p) \ DOMAIN result : RowOf(r, p, f) = Absent
               /\ answers[<<r, p>>].ok => DOMAIN result = Shown(r, p)
<1> DEFINE a == answers[<<r, p>>]
<1>1. a.ok \in BOOLEAN /\ a.listed \subseteq Listed(p) /\ (~a.ok => a.listed = {})
    BY AnswerShape
<1>2. Listed(p) \subseteq Rows(p) /\ (Kind[p] = "catalog" => Sentinel[p] \in Rows(p))
      /\ (Kind[p] # "catalog" => Rows(p) = Listed(p))
    BY RowsAreFeatures
<1>3. CASE Kind[p] = "catalog" /\ a.ok
    BY <1>1, <1>2, <1>3 DEF Result, RowOf, Shown, Status
<1>4. CASE Kind[p] = "catalog" /\ ~a.ok
    BY <1>1, <1>2, <1>4 DEF Result, RowOf, Shown, Status
<1>5. CASE Kind[p] # "catalog"
    BY <1>1, <1>2, <1>5 DEF Result, RowOf, Shown, Status
<1> QED
    BY <1>3, <1>4, <1>5
-----------------------------------------------------------------------------
(* Before the first call there is nothing.                                 *)
LEMMA Initially == Init => Inv
<1> SUFFICES ASSUME Init PROVE Inv
    OBVIOUS
<1>1. \A r \in Regions, p \in Probes : ~Called(r, p)
    BY DEF Init, Called
<1>2. TypeOK
    <2>1. 1 \in 1..(Len(Calls) + 1)
        BY ProbeAssumption
    <2> QED
        BY <2>1 DEF Init, TypeOK, Grids, EmptyGrid
<1>3. GridSound
    <2>1. ASSUME NEW r \in Regions, NEW p \in Probes, NEW f \in Rows(p)
          PROVE  grid[<<r, f>>] = Absent
        <3>1. f \in Features
            BY RowsAreFeatures
        <3> QED
            BY <3>1 DEF Init, EmptyGrid, Cells
    <2> QED
        BY <1>1, <2>1 DEF Init, GridSound, Raw
<1> QED
    BY <1>1, <1>2, <1>3 DEF Init, Inv, BlockedSound, NormalizedSound

(* A call adds its own rows to the grid, and no row of another probe.      *)
LEMMA CallStep == ASSUME Inv, Call PROVE Inv'
<1> DEFINE r0 == Calls[next][1]
           p0 == Calls[next][2]
           a0 == answers[<<r0, p0>>]
           result == Result(p0, a0)
           failed == Normalizes(p0) /\ ~a0.ok
           listed == Normalizes(p0) /\ a0.ok
<1>1. /\ next \in 1..Len(Calls) /\ r0 \in Regions /\ p0 \in Probes /\ Calls[next] = <<r0, p0>>
      /\ ~done /\ done' = done /\ answers' = answers /\ next' = next + 1
    BY ProbeAssumption DEF Inv, TypeOK, Call
<1>2. /\ grid' = [c \in Cells |-> IF c[1] = r0 /\ c[2] \in DOMAIN result
                                  THEN result[c[2]] ELSE grid[c]]
      /\ blocked' = IF failed THEN [blocked EXCEPT ![<<r0, p0>>] = LastUnknown(p0)] ELSE blocked
      /\ normalized' = IF listed THEN normalized \cup DOMAIN result ELSE normalized
    BY DEF Call
<1>3. a0 \in Answers(Listed(p0)) /\ a0.ok \in BOOLEAN
    BY <1>1, AnswerShape DEF Inv, TypeOK
<1>4. /\ DOMAIN result \subseteq Rows(p0) /\ Rows(p0) \subseteq Features
      /\ \A f \in DOMAIN result : result[f] = RowOf(r0, p0, f) /\ result[f] \in Status
      /\ \A f \in Rows(p0) \ DOMAIN result : RowOf(r0, p0, f) = Absent
      /\ a0.ok => DOMAIN result = Shown(r0, p0)
    BY <1>1, <1>3, ResultRows, RowsAreFeatures
<1> HIDE DEF result
<1>5. \A r \in Regions, p \in Probes : Called(r, p)' <=> (Called(r, p) \/ (r = r0 /\ p = p0))
    <2>1. 1..(next' - 1) = (1..(next - 1)) \cup {next}
        BY <1>1, ProbeAssumption
    <2>2. ASSUME NEW r, NEW p PROVE Called(r, p)' <=> \E i \in 1..(next' - 1) : Calls[i] = <<r, p>>
        BY DEF Called
    <2>3. ASSUME NEW r, NEW p
          PROVE  (\E i \in 1..(next' - 1) : Calls[i] = <<r, p>>) <=> (Called(r, p) \/ Calls[next] = <<r, p>>)
        BY <2>1 DEF Called
    <2>4. ASSUME NEW r, NEW p PROVE Calls[next] = <<r, p>> <=> r = r0 /\ p = p0
        BY <1>1
    <2> QED
        BY <2>2, <2>3, <2>4
<1>6. /\ \A r \in Regions, p \in Probes, f \in Features : RowOf(r, p, f)' = RowOf(r, p, f)
      /\ \A r \in Regions, p \in Probes : Shown(r, p)' = Shown(r, p)
    BY <1>1 DEF RowOf, Shown
<1>7. TypeOK'
    <2>1. next' \in 1..(Len(Calls) + 1)
        BY <1>1, ProbeAssumption
    <2>2. grid' \in Grids
        BY <1>2, <1>4 DEF Inv, TypeOK, Grids, Cells
    <2>3. LastUnknown(p0) \in Features
        BY <1>1, RowsAreFeatures
    <2>4. blocked' \in [Regions \X Probes -> Features \cup {None}]
        BY <1>1, <1>2, <2>3 DEF Inv, TypeOK
    <2>5. normalized' \subseteq Features
        BY <1>2, <1>4 DEF Inv, TypeOK
    <2> QED
        BY <1>1, <2>1, <2>2, <2>4, <2>5 DEF Inv, TypeOK
<1>8. BlockedSound'
    <2>1. ASSUME NEW r \in Regions, NEW p \in Probes
          PROVE  blocked'[<<r, p>>] = IF Called(r, p)' /\ Normalizes(p) /\ ~answers[<<r, p>>].ok
                                      THEN LastUnknown(p) ELSE None
        <3>1. blocked[<<r, p>>] = IF Called(r, p) /\ Normalizes(p) /\ ~answers[<<r, p>>].ok
                                  THEN LastUnknown(p) ELSE None
            BY DEF Inv, BlockedSound
        <3>2. blocked'[<<r, p>>] = IF failed /\ r = r0 /\ p = p0 THEN LastUnknown(p0) ELSE blocked[<<r, p>>]
            BY <1>1, <1>2 DEF Inv, TypeOK
        <3> QED
            BY <1>5, <3>1, <3>2
    <2> QED
        BY <1>1, <2>1 DEF BlockedSound
<1>9. NormalizedSound'
    <2>1. ASSUME NEW f \in Features
          PROVE  f \in normalized' <=> \E r \in Regions, p \in Probes :
                    Called(r, p)' /\ Normalizes(p) /\ answers[<<r, p>>].ok /\ f \in Shown(r, p)
        <3>1. f \in normalized <=> \E r \in Regions, p \in Probes :
                    Called(r, p) /\ Normalizes(p) /\ answers[<<r, p>>].ok /\ f \in Shown(r, p)
            BY DEF Inv, NormalizedSound
        <3>2. f \in normalized' <=> f \in normalized \/ (listed /\ f \in Shown(r0, p0))
            BY <1>2, <1>4
        <3> QED
            BY <1>1, <1>5, <3>1, <3>2
    <2> QED
        BY <1>1, <1>6, <2>1 DEF NormalizedSound
<1>10. GridSound'
    <2>1. ASSUME NEW r \in Regions, NEW p \in Probes, NEW f \in Rows(p)
          PROVE  grid'[<<r, f>>] = Raw(r, p, f)'
        <3>1. f \in Features /\ (f \in Rows(p0) => p = p0)
            BY <1>1, RowsAreFeatures
        <3>2. grid'[<<r, f>>] = IF r = r0 /\ f \in DOMAIN result THEN result[f] ELSE grid[<<r, f>>]
            BY <1>2, <3>1 DEF Cells
        <3>3. grid[<<r, f>>] = IF Called(r, p) THEN RowOf(r, p, f) ELSE Absent
            BY <1>1 DEF Inv, GridSound, Raw
        <3>4. Raw(r, p, f)' = IF Called(r, p)' THEN RowOf(r, p, f) ELSE Absent
            BY <1>6, <3>1 DEF Raw
        <3>5. CASE r = r0 /\ p = p0
            BY <1>4, <1>5, <3>2, <3>3, <3>4, <3>5
        <3>6. CASE ~(r = r0 /\ p = p0)
            BY <1>4, <1>5, <3>1, <3>2, <3>3, <3>4, <3>6
        <3> QED
            BY <3>5, <3>6
    <2> QED
        BY <1>1, <2>1 DEF GridSound
<1> QED
    BY <1>1, <1>7, <1>8, <1>9, <1>10 DEF Inv

(* The normalization looks only at the bookkeeping, which it leaves alone. *)
LEMMA NormalizeStep == ASSUME Inv, Normalize PROVE Inv'
<1>1. /\ next > Len(Calls) /\ ~done /\ done' /\ UNCHANGED <<answers, next, normalized, blocked>>
      /\ grid' = [c \in Cells |->
                     IF Drops(c[1], c[2]) THEN Absent
                     ELSE IF grid[c] = Absent /\ c[2] \in normalized
                     THEN Fill(c[1], c[2]) ELSE grid[c]]
    BY DEF Normalize
<1>2. /\ \A r, p : Called(r, p)' = Called(r, p) /\ Shown(r, p)' = Shown(r, p)
      /\ \A r, p, f : RowOf(r, p, f)' = RowOf(r, p, f)
      /\ \A r, f : Drops(r, f)' = Drops(r, f) /\ Fill(r, f)' = Fill(r, f)
    BY <1>1 DEF Called, Shown, RowOf, Drops, Fill
<1>3. TypeOK'
    <2>1. \A c \in Cells : Fill(c[1], c[2]) \in Status
        BY DEF Fill, Status
    <2> QED
        BY <1>1, <2>1 DEF Inv, TypeOK, Grids
<1>4. BlockedSound' /\ NormalizedSound'
    BY <1>1, <1>2 DEF Inv, BlockedSound, NormalizedSound
<1>5. GridSound'
    <2>1. ASSUME NEW r \in Regions, NEW p \in Probes, NEW f \in Rows(p)
          PROVE  /\ Raw(r, p, f)' = Raw(r, p, f)
                 /\ grid'[<<r, f>>] = IF Drops(r, f) THEN Absent
                                      ELSE IF Raw(r, p, f) = Absent /\ f \in normalized THEN Fill(r, f)
                                      ELSE Raw(r, p, f)
        <3>1. f \in Features
            BY RowsAreFeatures
        <3>2. grid[<<r, f>>] = Raw(r, p, f)
            BY <1>1 DEF Inv, GridSound
        <3> QED
            BY <1>1, <1>2, <3>1, <3>2 DEF Cells, Raw
    <2>2. ASSUME NEW r \in Regions, NEW p \in Probes, NEW f \in Rows(p)
          PROVE  (grid[<<r, f>>] = IF ~done THEN Raw(r, p, f)
                                   ELSE IF Drops(r, f) THEN Absent
                                   ELSE IF Raw(r, p, f) = Absent /\ f \in normalized THEN Fill(r, f)
                                   ELSE Raw(r, p, f))'
        <3>1. /\ Raw(r, p, f)' = Raw(r, p, f) /\ Drops(r, f)' = Drops(r, f) /\ Fill(r, f)' = Fill(r, f)
              /\ done' = TRUE /\ normalized' = normalized
            BY <1>1, <1>2, <2>1
        <3> QED
            BY <2>1, <3>1
    <2> QED
        BY <2>2 DEF GridSound
<1> QED
    BY <1>1, <1>3, <1>4, <1>5 DEF Inv

(* The invariant holds in every state of every behaviour.                  *)
LEMMA Always == Spec => []Inv
<1>1. Inv /\ UNCHANGED vars => Inv'
    <2> SUFFICES ASSUME Inv, UNCHANGED vars PROVE Inv'
        OBVIOUS
    <2>1. /\ \A r, p : Called(r, p)' = Called(r, p) /\ Shown(r, p)' = Shown(r, p)
          /\ \A r, p, f : RowOf(r, p, f)' = RowOf(r, p, f) /\ Raw(r, p, f)' = Raw(r, p, f)
          /\ \A r, f : Drops(r, f)' = Drops(r, f) /\ Fill(r, f)' = Fill(r, f)
        BY DEF vars, Called, Shown, RowOf, Raw, Drops, Fill
    <2> QED
        BY <2>1 DEF vars, Inv, TypeOK, BlockedSound, NormalizedSound, GridSound
<1>2. Inv /\ [Next]_vars => Inv'
    BY <1>1, CallStep, NormalizeStep DEF Next
<1> QED
    BY <1>2, Initially, PTL DEF Spec

-----------------------------------------------------------------------------
(* A region in which the probe listed the row.                             *)
ListedAt(s, p, f) == Normalizes(p) /\ answers[<<s, p>>].ok /\ f \in Shown(s, p)

(* The row of the snapshot, from the answers alone.                        *)
FinalRow(r, p, f) ==
    IF /\ Normalizes(p) /\ ~answers[<<r, p>>].ok /\ f = LastUnknown(p)
       /\ \E s \in Regions : \E g \in Rows(p) : ListedAt(s, p, g)
    THEN Absent
    ELSE IF RowOf(r, p, f) = Absent /\ \E s \in Regions : ListedAt(s, p, f)
    THEN IF answers[<<r, p>>].ok THEN "unavailable" ELSE "unknown"
    ELSE RowOf(r, p, f)

(* In the end each row is what the answers about its probe make it.        *)
LEMMA Snapshot ==
    ASSUME Inv, done, NEW r \in Regions, NEW p \in Probes, NEW f \in Rows(p)
    PROVE  grid[<<r, f>>] = FinalRow(r, p, f)
<1>1. \A s \in Regions, q \in Probes : Called(s, q)
    <2> SUFFICES ASSUME NEW s \in Regions, NEW q \in Probes PROVE Called(s, q)
        OBVIOUS
    <2>1. PICK i \in DOMAIN Calls : Calls[i] = <<s, q>>
        BY ProbeAssumption
    <2>2. DOMAIN Calls = 1..Len(Calls) /\ Len(Calls) \in Nat
        BY ProbeAssumption
    <2>3. next \in Nat /\ next > Len(Calls)
        BY <2>2 DEF Inv, TypeOK
    <2>4. i \in 1..(next - 1)
        BY <2>2, <2>3
    <2> QED
        BY <2>1, <2>4 DEF Called
<1>2. \A s \in Regions, q \in Probes :
          blocked[<<s, q>>] = IF Normalizes(q) /\ ~answers[<<s, q>>].ok THEN LastUnknown(q) ELSE None
    BY <1>1 DEF Inv, BlockedSound
<1>3. \A g \in Rows(p) : g \in normalized <=> \E s \in Regions : ListedAt(s, p, g)
    <2> SUFFICES ASSUME NEW g \in Rows(p)
                 PROVE  g \in normalized <=> \E s \in Regions : ListedAt(s, p, g)
        OBVIOUS
    <2>1. g \in Features
        BY RowsAreFeatures
    <2>2. g \in normalized <=> \E s \in Regions, q \in Probes : ListedAt(s, q, g)
        BY <1>1, <2>1 DEF Inv, NormalizedSound, ListedAt
    <2>3. ASSUME NEW s \in Regions, NEW q \in Probes, ListedAt(s, q, g) PROVE q = p
        <3>1. answers[<<s, q>>].listed \subseteq Listed(q)
            BY AnswerShape DEF Inv, TypeOK
        <3>2. g \in Rows(q)
            BY <2>3, <3>1, RowsAreFeatures DEF ListedAt, Shown
        <3> QED
            BY <2>1, <3>2, RowsAreFeatures
    <2> QED
        BY <2>2, <2>3
<1>4. f \in Features /\ f # None /\ LastUnknown(p) # None
    BY RowsAreFeatures, ProbeAssumption
<1>5. \A q \in Probes : f \in Rows(q) => q = p
    BY <1>4, RowsAreFeatures
<1>6. Drops(r, f) <=> /\ Normalizes(p) /\ ~answers[<<r, p>>].ok /\ f = LastUnknown(p)
                      /\ \E s \in Regions : \E g \in Rows(p) : ListedAt(s, p, g)
    <2>1. Drops(r, f) <=> blocked[<<r, p>>] = f /\ normalized \cap Rows(p) # {}
        <3>1. ASSUME NEW q \in Probes, blocked[<<r, q>>] = f PROVE q = p
            BY <1>2, <1>4, <1>5, <3>1, RowsAreFeatures
        <3> QED
            BY <3>1 DEF Drops
    <2> QED
        BY <1>2, <1>3, <1>4, <2>1
<1>7. RowOf(r, p, f) = Absent => Normalizes(p)
    BY ProbeAssumption DEF RowOf, Normalizes, Absent
<1>8. Normalizes(p) => Fill(r, f) = IF answers[<<r, p>>].ok THEN "unavailable" ELSE "unknown"
    BY <1>2, <1>4, <1>5 DEF Fill
<1>9. grid[<<r, f>>] = IF Drops(r, f) THEN Absent
                       ELSE IF RowOf(r, p, f) = Absent /\ f \in normalized THEN Fill(r, f)
                       ELSE RowOf(r, p, f)
    BY <1>1 DEF Inv, GridSound, Raw
<1> QED
    BY <1>3, <1>6, <1>7, <1>8, <1>9 DEF FinalRow

(* Every variable keeps its type.                                          *)
THEOREM TypeCorrect == Spec => []TypeOK
BY Always, PTL DEF Inv

(* The statuses of the final snapshot say what the call for the region and *)
(* the probe of the row says; no outage shows as a verdict of another      *)
(* region or probe (run_probes, _fill_missing_normalized_features).        *)
THEOREM NoOutageIsAVerdict == Spec => []VerdictsAreEvidence
<1>1. Inv => VerdictsAreEvidence
    <2> SUFFICES ASSUME Inv, done, NEW r \in Regions, NEW p \in Probes, NEW f \in Rows(p)
                 PROVE  /\ grid[<<r, f>>] = "unavailable" =>
                               answers[<<r, p>>].ok /\ f \notin answers[<<r, p>>].listed
                        /\ grid[<<r, f>>] = "unknown" => ~answers[<<r, p>>].ok
                        /\ grid[<<r, f>>] = "available" => f \in answers[<<r, p>>].listed
        BY DEF VerdictsAreEvidence
    <2>1. grid[<<r, f>>] = FinalRow(r, p, f)
        BY Snapshot
    <2> QED
        BY <2>1 DEF FinalRow, RowOf, Absent
<1> QED
    BY <1>1, Always, PTL

(* For any number of regions and probes, the two loops leave the rows that *)
(* the scan of each catalog amounts to.                                    *)
THEOREM LoopsComputeScan == Spec => []ScanIsOverlay
<1>1. Inv => ScanIsOverlay
    <2> SUFFICES ASSUME Inv, done, NEW p \in Probes, Kind[p] = "catalog",
                        NEW r \in Regions, NEW f \in Rows(p)
                 PROVE  grid[<<r, f>>] =
                            CatalogOverlay(Sentinel[p], Regions, [s \in Regions |-> answers[<<s, p>>]])[<<r, f>>]
        BY DEF ScanIsOverlay
    <2> DEFINE listed == UNION {answers[<<s, p>>].listed : s \in Regions}
               a == answers[<<r, p>>]
    <2>1. \A s \in Regions : answers[<<s, p>>] \in Answers(Listed(p))
        BY DEF Inv, TypeOK
    <2>2. \A s \in Regions : /\ answers[<<s, p>>].listed \subseteq Listed(p)
                             /\ ~answers[<<s, p>>].ok => answers[<<s, p>>].listed = {}
        BY <2>1, AnswerShape
    <2>3. f \in Features /\ Sentinel[p] \notin Listed(p) /\ Listed(p) \subseteq Rows(p)
        BY RowsAreFeatures, ProbeAssumption
    <2>4. Normalizes(p) /\ LastUnknown(p) = Sentinel[p]
        BY DEF Normalizes, LastUnknown
    <2>5. \A g \in Features : g \in listed <=> \E s \in Regions : ListedAt(s, p, g)
        BY <2>2, <2>4 DEF ListedAt, Shown
    <2>6. listed \subseteq Listed(p) /\ a.listed \subseteq listed
        BY <2>2
    <2>7. listed # {} <=> \E s \in Regions : \E g \in Rows(p) : ListedAt(s, p, g)
        BY <2>3, <2>5, <2>6, RowsAreFeatures
    <2>8. CatalogOverlay(Sentinel[p], Regions, [s \in Regions |-> answers[<<s, p>>]])[<<r, f>>]
              = IF f \in (IF listed = {} /\ ~a.ok THEN {Sentinel[p]} ELSE listed)
                THEN IF a.ok THEN IF f \in a.listed THEN "available" ELSE "unavailable"
                     ELSE "unknown"
                ELSE Absent
        BY <2>3 DEF CatalogOverlay, Cells
    <2> HIDE DEF listed
    <2>9. grid[<<r, f>>] = IF ~a.ok /\ f = Sentinel[p] /\ listed # {} THEN Absent
                           ELSE IF RowOf(r, p, f) = Absent /\ f \in listed
                           THEN IF a.ok THEN "unavailable" ELSE "unknown"
                           ELSE RowOf(r, p, f)
        BY Snapshot, <2>3, <2>4, <2>5, <2>7 DEF FinalRow
    <2> QED
        BY <2>2, <2>3, <2>6, <2>8, <2>9 DEF RowOf, Absent
<1> QED
    BY <1>1, Always, PTL

(* A catalog that failed in a region leaves a trace there: unknown rows of *)
(* what other regions listed, or its sentinel alone.                       *)
THEOREM FailureIsSeen == Spec => []OutageLeavesTrace
<1>1. Inv => OutageLeavesTrace
    <2> SUFFICES ASSUME Inv, done, NEW r \in Regions, NEW p \in Probes,
                        Kind[p] = "catalog", ~answers[<<r, p>>].ok
                 PROVE  /\ \E f \in Rows(p) : grid[<<r, f>>] = "unknown"
                        /\ grid[<<r, Sentinel[p]>>] # Absent =>
                              \A f \in Listed(p) : grid[<<r, f>>] = Absent
        BY DEF OutageLeavesTrace
    <2>1. Sentinel[p] \in Rows(p) /\ Sentinel[p] \notin Listed(p) /\ Listed(p) \subseteq Rows(p)
        BY RowsAreFeatures, ProbeAssumption
    <2>2. Normalizes(p) /\ LastUnknown(p) = Sentinel[p]
        BY DEF Normalizes, LastUnknown
    <2>3. \A f \in Rows(p) : grid[<<r, f>>] = FinalRow(r, p, f)
        BY Snapshot
    <2>4. \A s \in Regions : ~ListedAt(s, p, Sentinel[p])
        BY <2>1, AnswerShape DEF Inv, TypeOK, ListedAt, Shown
    <2>5. CASE \E s \in Regions : \E g \in Rows(p) : ListedAt(s, p, g)
        <3>1. PICK s \in Regions, g \in Rows(p) : ListedAt(s, p, g)
            BY <2>5
        <3>2. grid[<<r, g>>] = "unknown"
            BY <2>2, <2>3, <2>4, <3>1 DEF FinalRow, RowOf
        <3>3. grid[<<r, Sentinel[p]>>] = Absent
            BY <2>1, <2>2, <2>3, <2>5 DEF FinalRow
        <3> QED
            BY <3>2, <3>3
    <2>6. CASE ~\E s \in Regions : \E g \in Rows(p) : ListedAt(s, p, g)
        BY <2>1, <2>3, <2>6 DEF FinalRow, RowOf
    <2> QED
        BY <2>5, <2>6
<1> QED
    BY <1>1, Always, PTL
=============================================================================
