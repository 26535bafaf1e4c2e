---------------------------- MODULE OverlayProofs ----------------------------
(***************************************************************************)
(* Merging shards, for any jobs, regions and features.  The key fact is    *)
(* that a cell is covered by the shard of at most one job, because jobs    *)
(* report about different categories.                                      *)
(***************************************************************************)
EXTENDS OverlayMerge, TLAPS

(* A shard reports only about the categories that its job probes.          *)
ShardsOwn ==
    \A j \in Jobs : stage[j] \in {"left", "merged"} =>
       /\ shards[j] \in Grids
       /\ \A c \in Cells : shards[j][c] # Absent => Category[c[2]] \in Probed[j]

(* What is written is written after every job failed or was merged.        *)
WrittenLast == written => \A j \in Jobs : stage[j] \in {"failed", "merged"}

IInv == TypeOK /\ ShardsOwn /\ WrittenLast /\ CarriedOrReplaced

-----------------------------------------------------------------------------
(* What pruning and merging leave in a cell. *)
LEMMA PruneCell ==
    ASSUME NEW grid \in Grids
    PROVE  /\ Prune(grid) \in Grids
           /\ \A c \in Cells : Prune(grid)[c] =
                 IF Category[c[2]] \in Retired THEN Absent ELSE grid[c]
  BY DEF Prune, Grids

(* What a merge leaves in each cell.                                       *)
LEMMA MergeCell ==
    ASSUME NEW old \in Grids, NEW overlay \in Grids
    PROVE  /\ MergeOverlay(old, overlay) \in Grids
           /\ \A c \in Cells : MergeOverlay(old, overlay)[c] =
                 IF Category[c[2]] \in Retired THEN Absent
                 ELSE IF c \in Covered(overlay) THEN overlay[c] ELSE old[c]
  <1> DEFINE laid == [c \in Cells |-> IF c \in Covered(overlay) THEN overlay[c] ELSE old[c]]
  <1>1. laid \in Grids
    BY DEF Grids
  <1>2. MergeOverlay(old, overlay) = Prune(laid)
    BY DEF MergeOverlay
  <1>3. QED
    BY <1>1, <1>2, PruneCell

(* The shards that a job may leave report about its own categories.        *)
LEMMA ShardTyped ==
    ASSUME NEW j \in Jobs, NEW s \in ShardsOf(j)
    PROVE  /\ s \in Grids
           /\ \A c \in Cells : s[c] # Absent => Category[c[2]] \in Probed[j]
  <1>1. PICK own \in [Reports(j) -> Fresh \cup {Absent}] :
           s = [c \in Cells |-> IF c \in Reports(j) THEN own[c] ELSE Absent]
    BY DEF ShardsOf
  <1>2. s \in Grids
    BY <1>1, JobAssumption DEF Grids
  <1>3. \A c \in Cells : s[c] # Absent => c \in Reports(j)
    BY <1>1
  <1>4. QED
    BY <1>2, <1>3 DEF Reports

(* No cell is covered by the shards of two jobs.                           *)
LEMMA OneCovers ==
    ASSUME ShardsOwn, NEW i \in Jobs, NEW j \in Jobs, NEW c \in Cells,
           stage[i] \in {"left", "merged"}, stage[j] \in {"left", "merged"},
           c \in Covered(shards[i]), c \in Covered(shards[j])
    PROVE  i = j
  <1>1. PICK f \in Features : shards[i][c[1], f] # Absent /\ Category[f] = Category[c[2]]
    BY DEF Covered
  <1>2. PICK g \in Features : shards[j][c[1], g] # Absent /\ Category[g] = Category[c[2]]
    BY DEF Covered
  <1>3. c[1] \in Regions
    BY DEF Cells
  <1>4. <<c[1], f>> \in Cells /\ <<c[1], g>> \in Cells
    BY <1>3 DEF Cells
  <1>5. shards[i][<<c[1], f>>] # Absent => Category[<<c[1], f>>[2]] \in Probed[i]
    BY <1>4 DEF ShardsOwn
  <1>6. shards[j][<<c[1], g>>] # Absent => Category[<<c[1], g>>[2]] \in Probed[j]
    BY <1>4 DEF ShardsOwn
  <1>7. Category[f] \in Probed[i] /\ Category[g] \in Probed[j]
    BY <1>1, <1>2, <1>5, <1>6
  <1>8. QED
    BY <1>1, <1>2, <1>7, JobAssumption

-----------------------------------------------------------------------------
(* A step that lays no overlay leaves the cells what they are.             *)
LEMMA SameLaid ==
    ASSUME CarriedOrReplaced, Laid' = Laid, base' = base,
           \A c \in Cells : merged'[c] = merged[c]
    PROVE  CarriedOrReplaced'
  BY DEF CarriedOrReplaced

(* Before the first merge each cell is as published.                       *)
LEMMA InitInv == Init => IInv
  <1> SUFFICES ASSUME Init PROVE IInv
    OBVIOUS
  <1>1. TypeOK
    BY JobAssumption DEF Init, TypeOK
  <1>2. /\ \A j \in Jobs : stage[j] = "probing"
        /\ written = FALSE /\ merged = base
    BY DEF Init
  <1>3. Laid = {}
    BY <1>2 DEF Laid
  <1>4. CarriedOrReplaced
    BY <1>2, <1>3 DEF CarriedOrReplaced
  <1>5. QED
    BY <1>1, <1>2, <1>4 DEF IInv, ShardsOwn, WrittenLast

(* The merge of one more shard. *)
LEMMA MergeStep ==
    ASSUME IInv, NEW j \in Jobs, Merge(j)
    PROVE  IInv'
  <1>1. /\ stage[j] = "left" /\ stage' = [stage EXCEPT ![j] = "merged"]
        /\ shards' = shards /\ base' = base /\ written' = written
        /\ merged' = MergeOverlay(merged, shards[j])
    BY DEF Merge
  <1>2. shards[j] \in Grids /\ merged \in Grids /\ base \in Grids
    BY <1>1 DEF IInv, TypeOK, ShardsOwn
  <1>3. \A i \in Jobs : stage'[i] = IF i = j THEN "merged" ELSE stage[i]
    BY <1>1 DEF IInv, TypeOK
  <1>4. \A c \in Cells : merged'[c] =
           IF Category[c[2]] \in Retired THEN Absent
           ELSE IF c \in Covered(shards[j]) THEN shards[j][c] ELSE merged[c]
    BY <1>1, <1>2, MergeCell
  <1>5. TypeOK'
    BY <1>1, <1>2, MergeCell DEF IInv, TypeOK
  <1>6. ShardsOwn'
    BY <1>1, <1>3 DEF IInv, ShardsOwn
  <1>7. ~written /\ WrittenLast'
    BY <1>1 DEF IInv, WrittenLast
  <1>8. /\ Laid = {shards[i] : i \in {k \in Jobs : stage[k] = "merged"}}
        /\ Laid' = Laid \cup {shards[j]}
    BY <1>1, <1>3, <1>7 DEF Laid, AllFailed
  <1>9. CarriedOrReplaced'
    <2> SUFFICES ASSUME NEW c \in Cells, Category[c[2]] \notin Retired
                 PROVE  merged'[c] = IF {o \in Laid' : c \in Covered(o)} = {} THEN base[c]
                                     ELSE (CHOOSE o \in {o \in Laid' : c \in Covered(o)} : TRUE)[c]
      BY <1>1, <1>4, <1>8 DEF CarriedOrReplaced
    <2>1. CASE c \in Covered(shards[j])
      <3>1. \A o \in Laid : c \in Covered(o) => o = shards[j]
        BY <2>1, <1>1, <1>8, OneCovers DEF IInv
      <3>2. {o \in Laid' : c \in Covered(o)} = {shards[j]}
        BY <2>1, <3>1, <1>8
      <3>3. QED
        BY <2>1, <3>2, <1>4
    <2>2. CASE c \notin Covered(shards[j])
      <3>1. {o \in Laid' : c \in Covered(o)} = {o \in Laid : c \in Covered(o)}
        BY <2>2, <1>8
      <3>2. merged'[c] = merged[c]
        BY <2>2, <1>4
      <3>3. QED
        BY <3>1, <3>2 DEF IInv, CarriedOrReplaced
    <2>3. QED
      BY <2>1, <2>2
  <1>10. QED
    BY <1>5, <1>6, <1>7, <1>9 DEF IInv

(* All jobs failed: the sample covers what it reports about.               *)
LEMMA SampleStep ==
    ASSUME IInv, MergeSample
    PROVE  IInv'
  <1>1. /\ AllFailed /\ ~written /\ written' = TRUE
        /\ merged' = MergeOverlay(base, Sample)
        /\ shards' = shards /\ stage' = stage /\ base' = base
    BY DEF MergeSample
  <1>2. /\ MergeOverlay(base, Sample) \in Grids
        /\ \A c \in Cells : merged'[c] =
              IF Category[c[2]] \in Retired THEN Absent
              ELSE IF c \in Covered(Sample) THEN Sample[c] ELSE base[c]
    BY <1>1, MergeCell, JobAssumption DEF IInv, TypeOK
  <1>3. TypeOK' /\ ShardsOwn' /\ WrittenLast'
    BY <1>1, <1>2 DEF IInv, TypeOK, ShardsOwn, WrittenLast, AllFailed
  <1>4. Laid' = {Sample}
    BY <1>1 DEF Laid, AllFailed
  <1>5. ASSUME NEW c \in Cells, Category[c[2]] \notin Retired
        PROVE  merged'[c] = IF {o \in Laid' : c \in Covered(o)} = {} THEN base[c]
                            ELSE (CHOOSE o \in {o \in Laid' : c \in Covered(o)} : TRUE)[c]
    <2>1. CASE c \in Covered(Sample)
      <3>1. {o \in Laid' : c \in Covered(o)} = {Sample}
        BY <2>1, <1>4
      <3>2. QED
        BY <2>1, <3>1, <1>2, <1>5
    <2>2. CASE c \notin Covered(Sample)
      <3>1. {o \in Laid' : c \in Covered(o)} = {}
        BY <2>2, <1>4
      <3>2. QED
        BY <2>2, <3>1, <1>2, <1>5
    <2>3. QED
      BY <2>1, <2>2
  <1>6. CarriedOrReplaced'
    BY <1>1, <1>2, <1>4, <1>5 DEF CarriedOrReplaced
  <1>7. QED
    BY <1>3, <1>6 DEF IInv

(* Pruning changes nothing that a merge has not pruned already.            *)
LEMMA WriteStep ==
    ASSUME IInv, Write
    PROVE  IInv'
  <1>1. /\ ~AllFailed /\ ~written /\ written' = TRUE
        /\ \A j \in Jobs : stage[j] \in {"failed", "merged"}
        /\ merged' = Prune(merged)
        /\ shards' = shards /\ stage' = stage /\ base' = base
    BY DEF Write
  <1>2. /\ Prune(merged) \in Grids
        /\ \A c \in Cells : merged'[c] =
              IF Category[c[2]] \in Retired THEN Absent ELSE merged[c]
    BY <1>1, PruneCell DEF IInv, TypeOK
  <1>3. TypeOK' /\ ShardsOwn' /\ WrittenLast'
    BY <1>1, <1>2 DEF IInv, TypeOK, ShardsOwn, WrittenLast
  <1>4. Laid' = Laid /\ Laid # {}
    BY <1>1 DEF Laid, AllFailed
  <1>5. \A c \in Cells : merged'[c] = merged[c]
    BY <1>2, <1>4 DEF IInv, CarriedOrReplaced
  <1>6. CarriedOrReplaced'
    BY <1>1, <1>4, <1>5, SameLaid DEF IInv
  <1>7. QED
    BY <1>3, <1>6 DEF IInv

(* Every step keeps the invariant.                                         *)
LEMMA StepInv == IInv /\ [Next]_vars => IInv'
  <1> SUFFICES ASSUME IInv, [Next]_vars PROVE IInv'
    OBVIOUS
  <1> USE DEF IInv
  <1>1. CASE UNCHANGED vars
    <2>1. Laid' = Laid
      BY <1>1 DEF vars, Laid, AllFailed
    <2>2. CarriedOrReplaced'
      BY <1>1, <2>1, SameLaid DEF vars
    <2>3. QED
      BY <1>1, <2>2 DEF vars, TypeOK, ShardsOwn, WrittenLast
  <1>2. ASSUME NEW j \in Jobs, JobSucceeds(j) PROVE IInv'
    <2>1. PICK s \in ShardsOf(j) : shards' = [shards EXCEPT ![j] = s]
      BY <1>2 DEF JobSucceeds
    <2>2. /\ stage[j] = "probing" /\ stage' = [stage EXCEPT ![j] = "left"]
          /\ base' = base /\ merged' = merged /\ written' = written
      BY <1>2 DEF JobSucceeds
    <2>3. \A i \in Jobs : /\ shards'[i] = IF i = j THEN s ELSE shards[i]
                          /\ stage'[i] = IF i = j THEN "left" ELSE stage[i]
      BY <2>1, <2>2 DEF TypeOK
    <2>4. TypeOK'
      BY <2>1, <2>2, ShardTyped DEF TypeOK
    <2>5. ShardsOwn'
      BY <2>3, ShardTyped DEF ShardsOwn
    <2>6. ~written /\ WrittenLast'
      BY <2>2 DEF WrittenLast
    <2>7. /\ Laid' = {shards'[i] : i \in {k \in Jobs : stage'[k] = "merged"}}
          /\ Laid = {shards[i] : i \in {k \in Jobs : stage[k] = "merged"}}
      BY <2>2, <2>6 DEF Laid
    <2>8. Laid' = Laid
      BY <2>2, <2>3, <2>7
    <2>9. QED
      BY <2>2, <2>4, <2>5, <2>6, <2>8, SameLaid
  <1>3. ASSUME NEW j \in Jobs, JobFails(j) PROVE IInv'
    <2>1. /\ stage[j] = "probing" /\ stage' = [stage EXCEPT ![j] = "failed"]
          /\ shards' = shards /\ base' = base /\ merged' = merged /\ written' = written
      BY <1>3 DEF JobFails
    <2>2. \A i \in Jobs : stage'[i] = IF i = j THEN "failed" ELSE stage[i]
      BY <2>1 DEF TypeOK
    <2>3. TypeOK' /\ ShardsOwn'
      BY <2>1, <2>2 DEF TypeOK, ShardsOwn
    <2>4. ~written /\ WrittenLast'
      BY <2>1 DEF WrittenLast
    <2>5. Laid' = Laid
      BY <2>1, <2>2, <2>4 DEF Laid
    <2>6. QED
      BY <2>1, <2>3, <2>4, <2>5, SameLaid
  <1>4. QED
    BY <1>1, <1>2, <1>3, MergeStep, SampleStep, WriteStep DEF Next

(* The snapshot stays a grid of statuses: merging never leaves a mark that *)
(* is no status (snapshot_merge.py).                                       *)
THEOREM TypeCorrect == Spec => []TypeOK
  <1>1. IInv => TypeOK
    BY DEF IInv
  <1>2. QED
    BY <1>1, InitInv, StepInv, PTL DEF Spec

(* Whatever jobs fail and in whatever order shards are merged, every cell  *)
(* is what the one overlay that covers its modality says, or is carried    *)
(* forward from what was published (merge_snapshot_overlay).  The overlays *)
(* are the shards that were left, or, if all jobs failed, the repository's *)
(* sample (cli.py), so then the published rows that it covers are lost.    *)
THEOREM Carried == Spec => []CarriedOrReplaced
  <1>1. IInv => CarriedOrReplaced
    BY DEF IInv
  <1>2. QED
    BY <1>1, InitInv, StepInv, PTL DEF Spec
=============================================================================
