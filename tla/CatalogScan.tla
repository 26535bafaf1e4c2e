---------------------------- MODULE CatalogScan -----------------------------
(***************************************************************************)
(* What a whole scan of one catalog amounts to: the rows that the probe    *)
(* and the normalization of runner.py leave, given what Azure answered in  *)
(* each scanned region.  ProbeRunner shows that the loops of run_probes    *)
(* compute it; DailyEvidence builds on it.                                 *)
(***************************************************************************)
EXTENDS EvidenceGrid

(* A call lists some items, none where the provider does not serve the     *)
(* region, or fails: it times out, exits with an error or prints no JSON.  *)
Answers(items) == {[ok |-> TRUE, listed |-> some] : some \in SUBSET items}
                  \cup {[ok |-> FALSE, listed |-> {}]}

(* The items that some scanned region lists are the rows of every scanned  *)
(* region: available, unavailable, or unknown where the call failed.  A    *)
(* failed call leaves its sentinel only if no region listed anything.      *)
CatalogOverlay(sentinel, scanned, answer) ==
    LET listed == UNION {answer[r].listed : r \in scanned}
        Row(r, f) == IF answer[r].ok
                     THEN IF f \in answer[r].listed THEN "available" ELSE "unavailable"
                     ELSE "unknown"
        Rows(r) == IF listed = {} /\ ~answer[r].ok THEN {sentinel} ELSE listed
    IN [c \in Cells |-> IF c[1] \in scanned /\ c[2] \in Rows(c[1])
                        THEN Row(c[1], c[2]) ELSE Absent]
=============================================================================
