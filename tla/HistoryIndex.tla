---------------------------- MODULE HistoryIndex ----------------------------
(***************************************************************************)
(* The published availability snapshot and the dated history index that    *)
(* retains one snapshot per UTC date (history.py, publication_recovery.py, *)
(* snapshot_merge.py).                                                     *)
(*                                                                         *)
(* A snapshot is abstracted to the time its file claims ("ts") and, for    *)
(* every modality (AKS extensions, AI models, VM SKUs, ...), the time at   *)
(* which the evidence it carries for that modality was probed.  NoEvidence *)
(* stands for a modality that the snapshot has never covered.              *)
(***************************************************************************)
EXTENDS Naturals

CONSTANTS
    Modalities, \* feature categories, each probed by one job and merged as one shard
    PathRank,   \* position of a modality's shard in the sorted list of overlay paths
    MaxTime,    \* bound of the clock: timestamps are 1..MaxTime
    Dates,      \* UTC dates, a finite set of naturals
    DayOf,      \* the UTC date of a timestamp
    NoDay       \* "the index has no entry for this date"

Time == 1..MaxTime
NoEvidence == 0

(* Paths are distinct and sorted: a set of overlays has exactly one last.  *)
ASSUME ModalityAssumption ==
    /\ PathRank \in [Modalities -> Nat]
    /\ \A m, n \in Modalities : PathRank[m] = PathRank[n] => m = n
    /\ \A S \in SUBSET Modalities : S # {} =>
          \E m \in S : \A n \in S : PathRank[n] <= PathRank[m]
ASSUME TimeAssumption == MaxTime \in Nat \ {0}
ASSUME DateAssumption == /\ Dates \subseteq Nat
                         /\ DayOf \in [Time -> Dates]
                         /\ \A s, t \in Time : s <= t => DayOf[s] <= DayOf[t]

Shards    == [Modalities -> Time \cup {NoEvidence}]
Snapshots == [ts : Time, probed : Shards]
Indexes   == [days : [Dates -> Snapshots \cup {NoDay}], latest : Dates]

ASSUME NoDayAssumption == NoDay \notin Snapshots

-----------------------------------------------------------------------------
(* snapshot_merge.py, cli.py: overlays are merged in sorted path order.    *)
(* Each replaces its own modality and stamps the result with its own       *)
(* timestamp, so the timestamp is that of the last overlay.  Without one,  *)
(* in a redeploy, nothing is merged and the snapshot stays as it was.      *)

Present(shards) == {m \in Modalities : shards[m] # NoEvidence}

LastOverlay(shards) ==
    CHOOSE m \in Present(shards) : \A n \in Present(shards) : PathRank[n] <= PathRank[m]

(* Mutant: the merge stamps the time of an overlay it does not have. *)
MergeUnstamped(base, shards) ==
    [ts     |-> IF Present(shards) = {} THEN NoEvidence ELSE shards[LastOverlay(shards)],
     probed |-> [m \in Modalities |->
                    IF m \in Present(shards) THEN shards[m] ELSE base.probed[m]]]

MergeShards(base, shards) ==
    [ts     |-> IF Present(shards) = {} THEN base.ts ELSE shards[LastOverlay(shards)],
     probed |-> [m \in Modalities |->
                    IF m \in Present(shards) THEN shards[m] ELSE base.probed[m]]]

-----------------------------------------------------------------------------
(* history.py: update_history files the snapshot under its own UTC date,   *)
(* replacing what that date held, and names that date the latest one.      *)

Recorded(index) == {d \in Dates : index.days[d] # NoDay}

(* Mutant: the history starts afresh with the day it files. *)
UpdateIndexAfresh(index, snap) ==
    [days   |-> [d \in Dates |-> IF d = DayOf[snap.ts] THEN snap ELSE NoDay],
     latest |-> DayOf[snap.ts]]

UpdateIndex(index, snap) ==
    [days   |-> [index.days EXCEPT ![DayOf[snap.ts]] = snap],
     latest |-> DayOf[snap.ts]]

(* publication_recovery.py: validate_history accepts an index whose        *)
(* "latest" entry is the newest observation it holds, and whose entries    *)
(* are filed under the date of their own timestamp.                        *)
ValidIndex(index) ==
    /\ index.latest \in Recorded(index)
    /\ \A d \in Recorded(index) :
          /\ DayOf[index.days[d].ts] = d
          /\ index.days[d].ts <= index.days[index.latest].ts

(* _validate_baseline_observation: the bundled snapshot is no older than   *)
(* the history kept with it and never contradicts an entry of equal time.  *)
AdmitsObservation(index, snap) ==
    \A d \in Recorded(index) :
       /\ index.days[d].ts <= snap.ts
       /\ index.days[d].ts = snap.ts => index.days[d] = snap
=============================================================================
