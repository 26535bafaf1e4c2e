-------------------------- MODULE MCDailyEvidence ---------------------------
(* Instances of DailyEvidence for TLC. *)
EXTENDS DailyEvidence, TLC

CONSTANTS r1, r2,        \* regions
          i1, i2, sc, o1 \* two items of the catalog, its sentinel, a retired measurement

(* snapshot_merge.py files the sentinel of extensions and VM sizes under   *)
(* its catalog.                                                            *)
MCCategory == [f \in Features |-> IF f = o1 THEN "modelLatency" ELSE "vmSkus"]
MCModality == [f \in Features |-> IF f = o1 THEN "Model latency" ELSE "catalog"]

RegionSymmetry == Permutations(Regions)
Symmetry == Permutations(Regions) \cup Permutations(Items)

Scanned == {CatalogOverlay(sc, Regions, answer) : answer \in [Regions -> Answers(Items)]}

(* Published before latency measurements were retired. *)
Measured == {[c \in Cells |-> IF c[2] = o1 THEN "available" ELSE g[c]] : g \in Scanned}
=============================================================================
