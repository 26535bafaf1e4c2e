-------------------------- MODULE PublishedHistory --------------------------
(***************************************************************************)
(* What publication promises its readers, without runs, locks or uploads:  *)
(* there is one committed publication, it grows by one merged snapshot at  *)
(* a time, and the site shows a publication that was committed.            *)
(***************************************************************************)
EXTENDS HistoryIndex

VARIABLES committed, \* the snapshot and history the next run starts from
          live       \* the snapshot and history the site shows

Publications == [snap : Snapshots, index : Indexes]

(* A sound publication: the index is valid and its newest entry is the     *)
(* published snapshot.                                                     *)
Sound(p) == /\ ValidIndex(p.index)
            /\ AdmitsObservation(p.index, p.snap)
            /\ p.index.days[p.index.latest] = p.snap

Init == /\ committed \in Publications
        /\ Sound(committed)
        /\ live = committed

(* Commit a publication, and show it at once or later.                     *)
Commit == /\ \E fresh \in Shards :
                LET next == MergeShards(committed.snap, fresh)
                IN committed' = [snap |-> next, index |-> UpdateIndex(committed.index, next)]
          /\ Sound(committed')
          /\ live' \in {live, committed'}

Reveal == /\ live' = committed
          /\ UNCHANGED committed

Next == Commit \/ Reveal

Spec == Init /\ [][Next]_<<committed, live>>
=============================================================================
