---------------------------- MODULE OverlayMerge ----------------------------
(***************************************************************************)
(* The merge step of the daily scan: the shards that the probe jobs left   *)
(* are merged onto the published snapshot one after the other (cli.py      *)
(* merge-snapshot, daily-scan.yml).  A job that failed leaves no shard; if *)
(* none is left the command merges a snapshot of the repository instead.   *)
(* The workflow merges in sorted path order; here any order is possible.   *)
(* The time of the merged snapshot, that of the last shard, does depend on *)
(* the order and is modelled with the publication (HistoryIndex).          *)
(***************************************************************************)
EXTENDS EvidenceGrid

CONSTANTS
    Jobs,      \* the probe jobs, one per modality
    Probed,    \* the categories that a job reports about
    Fresh,     \* the statuses that probes report
    Published, \* the grids that may have been published before
    Sample,    \* data/snapshots/latest.json as the repository has it
    None

(* No two jobs report about the same category.                             *)
ASSUME JobAssumption == /\ \A i, j \in Jobs : i # j => Probed[i] \cap Probed[j] = {}
                        /\ Fresh \subseteq Status
                        /\ Published \subseteq Grids /\ Sample \in Grids
                        /\ None \notin Grids

VARIABLES
    shards, \* the shard that each job left, or None
    stage,  \* what became of each job
    base,   \* the published snapshot
    merged, \* the snapshot so far
    written \* the command has written it

vars == <<shards, stage, base, merged, written>>

Reports(j)  == {c \in Cells : Category[c[2]] \in Probed[j]}
ShardsOf(j) == {[c \in Cells |-> IF c \in Reports(j) THEN own[c] ELSE Absent] :
                    own \in [Reports(j) -> Fresh \cup {Absent}]}

Init == /\ shards = [j \in Jobs |-> None]
        /\ stage = [j \in Jobs |-> "probing"]
        /\ base \in Published
        /\ merged = base
        /\ written = FALSE

JobSucceeds(j) ==
    /\ stage[j] = "probing"
    /\ \E s \in ShardsOf(j) : shards' = [shards EXCEPT ![j] = s]
    /\ stage' = [stage EXCEPT ![j] = "left"]
    /\ UNCHANGED <<base, merged, written>>

JobFails(j) ==
    /\ stage[j] = "probing"
    /\ stage' = [stage EXCEPT ![j] = "failed"]
    /\ UNCHANGED <<shards, base, merged, written>>

Scanned == \A j \in Jobs : stage[j] # "probing"

Merge(j) ==
    /\ Scanned /\ stage[j] = "left"
    /\ merged' = MergeOverlay(merged, shards[j])
    /\ stage' = [stage EXCEPT ![j] = "merged"]
    /\ UNCHANGED <<shards, base, written>>

AllFailed == \A j \in Jobs : stage[j] = "failed"

(* The overlay that is taken when none is given. *)
MergeSample ==
    /\ AllFailed /\ ~written
    /\ merged' = MergeOverlay(base, Sample)
    /\ written' = TRUE
    /\ UNCHANGED <<shards, stage, base>>

Write ==
    /\ \A j \in Jobs : stage[j] \in {"failed", "merged"}
    /\ ~AllFailed /\ ~written
    /\ merged' = Prune(merged)
    /\ written' = TRUE
    /\ UNCHANGED <<shards, stage, base>>

Next == MergeSample \/ Write \/ \E j \in Jobs : JobSucceeds(j) \/ JobFails(j) \/ Merge(j)

Spec == Init /\ [][Next]_vars

-----------------------------------------------------------------------------
(* Type invariant. *)
TypeOK == /\ shards \in [Jobs -> Grids \cup {None}]
          /\ stage \in [Jobs -> {"probing", "left", "failed", "merged"}]
          /\ base \in Grids /\ merged \in Grids /\ written \in BOOLEAN

(* The overlays merged so far. *)
Laid == IF AllFailed /\ written THEN {Sample}
        ELSE {shards[j] : j \in {i \in Jobs : stage[i] = "merged"}}

(* In whatever order overlays are merged, a cell holds what the one of     *)
(* them that covers its modality in its region says, be it that the check  *)
(* is gone, and otherwise what was published.  So what a failed job would  *)
(* have reported is carried forward, except if all jobs failed: then what  *)
(* the repository's sample covers is replaced by it, although              *)
(* daily-scan.yml says of a failed modality that "its last good data is    *)
(* carried forward from the live base".  Retired checks go.                *)
CarriedOrReplaced ==
    \A c \in Cells :
       LET covering == {o \in Laid : c \in Covered(o)}
       IN  merged[c] = IF Laid # {} /\ Category[c[2]] \in Retired THEN Absent
                       ELSE IF covering = {} THEN base[c]
                       ELSE (CHOOSE o \in covering : TRUE)[c]
=============================================================================
