---------------------------- MODULE EvidenceGrid ----------------------------
(***************************************************************************)
(* A snapshot as a grid of checks: one status per region and feature       *)
(* (models.py), how overlays are merged onto it (snapshot_merge.py) and    *)
(* how two grids are compared (diff.py).                                   *)
(*                                                                         *)
(* Feature keys are model values.  The service of a key is left out: every *)
(* category of keys belongs to one service.                                *)
(***************************************************************************)

CONSTANTS
    Regions,
    Features,
    Category,  \* snapshot_merge.py: the modality that a merge replaces as one
    Retired    \* the categories that are no longer probed

Status == {"available", "unavailable", "partial", "unknown"}
Absent == "absent"

Cells     == Regions \X Features
Grids     == [Cells -> Status \cup {Absent}]
EmptyGrid == [c \in Cells |-> Absent]

ASSUME CategoryAssumption == Features \subseteq DOMAIN Category

Recorded(grid) == {c \in Cells : grid[c] # Absent}

-----------------------------------------------------------------------------
(* snapshot_merge.py *)

(* The cells of the categories that the overlay covers in their region.    *)
Covered(overlay) ==
    {c \in Cells : \E g \in Features : /\ overlay[c[1], g] # Absent
                                       /\ Category[g] = Category[c[2]]}

(* Mutant: a retired check is marked instead of removed. *)
PruneMarks(grid) == [c \in Cells |-> IF Category[c[2]] \in Retired THEN "retired" ELSE grid[c]]

Prune(grid) == [c \in Cells |-> IF Category[c[2]] \in Retired THEN Absent ELSE grid[c]]

(* Mutant: the overlay is laid over the base, category or not. *)
MergeUpdates(base, overlay) ==
    Prune([c \in Cells |-> IF overlay[c] # Absent THEN overlay[c] ELSE base[c]])

MergeOverlay(base, overlay) ==
    Prune([c \in Cells |-> IF c \in Covered(overlay) THEN overlay[c] ELSE base[c]])

-----------------------------------------------------------------------------
(* diff.py: a change is between two different statuses of one cell.        *)

ChangeType(old, new) ==
    CASE old \in {Absent, "unavailable"} /\ new = "available" -> "new_availability"
      [] old = "available" /\ new \in {Absent, "unavailable"} -> "regression"
      [] OTHER                                                -> "status_change"

Changed(previous, current) == {c \in Cells : previous[c] # current[c]}
=============================================================================
