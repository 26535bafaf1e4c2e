--------------------------- MODULE MCPublication ----------------------------
(* Instances of Publication for TLC. *)
EXTENDS Publication

CONSTANTS ak, vm,        \* modalities
          d1, d2, f1, rb \* runs: two daily scans, a focused one, a redeploy

(* The file in the repository is of time 1, then two observations a day.   *)
MCDayOf  == [t \in 1..MaxTime |-> t \div 2]
MCDates  == 0..(MaxTime \div 2)
MCSample == [m \in Modalities |-> IF m = ak THEN 1 ELSE NoEvidence]

MCRank == [m \in {ak, vm} |-> IF m = ak THEN 1 ELSE 2]

AllProbes == [r \in {d1, d2, f1, rb} |-> CASE r \in {d1, d2} -> {ak, vm}
                                           [] r = f1        -> {ak}
                                           [] OTHER         -> {}]
MCProbes == [r \in Runs |-> AllProbes[r]]

NoOverrides == [r \in Runs |-> {}]
=============================================================================
