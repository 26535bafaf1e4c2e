------------------------------ MODULE Briefing ------------------------------
(***************************************************************************)
(* What readers are told about a day (briefing.py build_briefing): one     *)
(* record per cell that changed, is missing trustworthy evidence, or was   *)
(* lost earlier and has not come back.                                     *)
(*                                                                         *)
(* The earlier days are a sequence, each with its grid and its records;    *)
(* dates are positions in it.  Measurements (latency) are left out, and so *)
(* is everything of a record that only serves its presentation.            *)
(***************************************************************************)
EXTENDS EvidenceGrid, Naturals, Sequences, FiniteSets

CONSTANTS
    Modality,   \* briefing.py: the modality under which readers see a feature
    CatalogRows \* the sentinels of failed catalogs

(* A modality is retired as a whole.                                       *)
ASSUME ModalityAssumption ==
    /\ Features \subseteq DOMAIN Modality
    /\ \A f, g \in Features : Modality[f] = Modality[g] =>
          (Category[f] \in Retired <=> Category[g] \in Retired)

Kinds == {"new_listings", "restorations", "delistings", "observation_gaps",
          "observation_recoveries", "continuing_absences", "other_changes",
          "scope_changes"}

NoDate   == 0
NoRecord == [kind |-> "none", last |-> NoDate, since |-> NoDate]
Records  == [kind : Kinds \cup {"none"}, last : Nat, since : Nat]

Missing == {Absent, "unavailable"}

Scope(c)     == <<c[1], Modality[c[2]]>>
Scopes(grid) == {Scope(c) : c \in Recorded(grid)}

(* _catalog_failures: the scopes in which a sentinel stands for all rows.  *)
Failures(grid) == {Scope(c) : c \in {d \in Cells : d[2] \in CatalogRows /\ grid[d] = "unknown"}}

Gap(grid, c) == grid[c] = "unknown" \/ (grid[c] = Absent /\ Scope(c) \in Failures(grid))

(* Mutant: only absences are tracked, not what is lost from sight. *)
ContinuingAbsences(old, records, new) ==
    {c \in Cells : /\ records[c].last # NoDate
                   /\ records[c].since # NoDate
                   /\ Scope(c) \in Scopes(old) \cap Scopes(new)}

(* Records of the previous day that stay open.                             *)
Continuing(old, records, new) ==
    {c \in Cells : /\ records[c].last # NoDate
                   /\ records[c].since # NoDate \/ records[c].kind = "observation_gaps"
                   /\ Scope(c) \in Scopes(old) \cap Scopes(new)}

(* history.py: the context of a clear signal, a listing won or lost, holds *)
(* the last of all retained days on which the cell was available.          *)
AvailableOn(past, c) == {d \in DOMAIN past : past[d].grid[c] = "available"}

Signal(old, new, c) == /\ c \in Changed(old, new)
                       /\ ChangeType(old[c], new[c]) # "status_change"

ContextDate(past, new, c) ==
    IF Signal(past[Len(past)].grid, new, c) /\ AvailableOn(past, c) # {}
    THEN CHOOSE d \in AvailableOn(past, c) : \A e \in AvailableOn(past, c) : e <= d
    ELSE NoDate

(* Mutant: a date that is already tracked is never brought up to date. *)
LastTracked(past, new, c) ==
    LET tracked == past[Len(past)].records[c].last
    IN IF tracked # NoDate THEN tracked
       ELSE IF past[Len(past)].grid[c] = "available" THEN Len(past) ELSE ContextDate(past, new, c)

(* Mutant: only yesterday counts. *)
LastYesterday(past, new, c) ==
    IF past[Len(past)].grid[c] = "available" THEN Len(past) ELSE NoDate

LastAvailable(past, new, c) ==
    LET tracked == past[Len(past)].records[c].last
    IN IF past[Len(past)].grid[c] = "available" THEN Len(past)
       ELSE IF tracked # NoDate THEN tracked ELSE ContextDate(past, new, c)

(* The first rule that applies.                                            *)
Kind(old, new, c, last, since) ==
    IF Gap(new, c) THEN "observation_gaps"
    ELSE IF Scope(c) \notin Scopes(old) \cap Scopes(new) THEN "scope_changes"
    ELSE IF Gap(old, c) THEN "observation_recoveries"
    ELSE IF new[c] = "available" /\ old[c] \in Missing
         THEN IF last # NoDate THEN "restorations" ELSE "new_listings"
    ELSE IF old[c] = "available" /\ new[c] \in Missing THEN "delistings"
    ELSE IF new[c] \in Missing /\ since # NoDate /\ last # NoDate THEN "continuing_absences"
    ELSE IF old[c] # new[c] THEN "other_changes" ELSE "none"

(* The date since which a cell that was available is missing.              *)
AbsenceSince(old, new, c, last, since, today) ==
    LET stable == Scope(c) \in Scopes(old) \cap Scopes(new)
    IN IF new[c] \in Missing /\ ~Gap(new, c) /\ last # NoDate /\ stable
       THEN IF since # NoDate THEN since ELSE today
       ELSE IF Gap(new, c) /\ stable THEN since ELSE NoDate

Compared(past, new, c) ==
    LET old   == past[Len(past)].grid
        last  == LastAvailable(past, new, c)
        since == past[Len(past)].records[c].since
        kind  == Kind(old, new, c, last, since)
    IN IF kind = "none" THEN NoRecord
       ELSE [kind |-> kind, last |-> last,
             since |-> AbsenceSince(old, new, c, last, since, Len(past) + 1)]

(* The records of the day after the past days.  Without any earlier day    *)
(* only gaps are reported.                                                 *)
BuildBriefing(past, new) ==
    IF past = <<>>
    THEN [c \in Cells |-> IF c \in Recorded(new) /\ Gap(new, c)
                          THEN [NoRecord EXCEPT !.kind = "observation_gaps"] ELSE NoRecord]
    ELSE LET before == past[Len(past)]
             keys   == Recorded(before.grid) \cup Recorded(new)
                       \cup Continuing(before.grid, before.records, new)
         IN [c \in Cells |-> IF c \in keys THEN Compared(past, new, c) ELSE NoRecord]
=============================================================================
