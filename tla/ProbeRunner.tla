---------------------------- MODULE ProbeRunner -----------------------------
(***************************************************************************)
(* One probe job (runner.py): every probe is called for every region, one  *)
(* call after the other, and the catalogs are then normalized: a feature   *)
(* that one region lists gets a status in every region.                    *)
(*                                                                         *)
(* Three kinds of probes exist.  A catalog reports whatever Azure lists,   *)
(* or one sentinel row when the call fails (vm_skus.py, ai_models.py and   *)
(* aks_extension_catalog.py without a configured list).  The same probes   *)
(* with a configured list report one row per item of the list, and so do   *)
(* the fixed probes (aks_versions.py, functions.py, container_apps.py),    *)
(* which are not normalized.                                               *)
(***************************************************************************)
EXTENDS CatalogScan, Naturals, Sequences

CONSTANTS
    Probes,
    Items,       \* the items that each probe may report, in the order it reports them
    Kind,        \* "catalog", "configured" or "fixed"
    Sentinel,    \* the row a failed catalog reports
    Calls,       \* the calls in order: all probes of a region before the next region
    None

Listed(p)  == {Items[p][i] : i \in DOMAIN Items[p]}
Rows(p)    == Listed(p) \cup (IF Kind[p] = "catalog" THEN {Sentinel[p]} ELSE {})
Normalizes(p) == Kind[p] \in {"catalog", "configured"}

(* Probes report different rows, so each row has one probe.                *)
ASSUME ProbeAssumption ==
    /\ Items \in [Probes -> Seq(Features)] /\ \A p \in Probes : Items[p] # <<>>
    /\ Kind \in [Probes -> {"catalog", "configured", "fixed"}]
    /\ Sentinel \in [Probes -> Features]
    /\ \A p \in Probes : Sentinel[p] \notin Listed(p)
    /\ \A p, q \in Probes : p # q => Rows(p) \cap Rows(q) = {}
    /\ Calls \in Seq(Regions \X Probes)
    /\ \A c \in Regions \X Probes : \E i \in DOMAIN Calls : Calls[i] = c
    /\ None \notin Features

VARIABLES
    answers,    \* what Azure answers to the call for a region and a probe
    next,       \* the next call
    grid,       \* the results so far, then the snapshot
    normalized, \* the features that some region listed
    blocked,    \* the last row that a probe reported as unknown in a region, or None
    done        \* the snapshot has been normalized

vars == <<answers, next, grid, normalized, blocked, done>>

Init == /\ answers \in [Regions \X Probes -> UNION {Answers(Listed(p)) : p \in Probes}]
        /\ \A r \in Regions, p \in Probes : answers[<<r, p>>] \in Answers(Listed(p))
        /\ next = 1
        /\ grid = EmptyGrid
        /\ normalized = {}
        /\ blocked = [c \in Regions \X Probes |-> None]
        /\ done = FALSE

(* Mutant: a failure is recorded with a status of its own. *)
ResultFailed(p, answer) ==
    IF ~answer.ok THEN [f \in {Sentinel[p]} |-> "failed"]
    ELSE [f \in answer.listed |-> "available"]

(* The rows of a call.                                                     *)
Result(p, answer) ==
    IF Kind[p] = "catalog"
    THEN IF answer.ok THEN [f \in answer.listed |-> "available"]
                   ELSE [f \in {Sentinel[p]} |-> "unknown"]
    ELSE [f \in Listed(p) |-> IF ~answer.ok THEN "unknown"
                              ELSE IF f \in answer.listed THEN "available" ELSE "unavailable"]

LastUnknown(p) == IF Kind[p] = "catalog" THEN Sentinel[p] ELSE Items[p][Len(Items[p])]

(* run_probes: one call, and the bookkeeping of its rows.                  *)
Call ==
    /\ next <= Len(Calls)
    /\ LET r      == Calls[next][1]
           p      == Calls[next][2]
           result == Result(p, answers[<<r, p>>])
           failed == Normalizes(p) /\ ~answers[<<r, p>>].ok
           listed == Normalizes(p) /\ answers[<<r, p>>].ok
       IN  /\ grid' = [c \in Cells |-> IF c[1] = r /\ c[2] \in DOMAIN result
                                       THEN result[c[2]] ELSE grid[c]]
           /\ blocked' = IF failed THEN [blocked EXCEPT ![<<r, p>>] = LastUnknown(p)] ELSE blocked
           /\ normalized' = IF listed THEN normalized \cup DOMAIN result ELSE normalized
    /\ next' = next + 1
    /\ UNCHANGED <<answers, done>>

(* Mutant: a catalog that failed is filled like one that answered. *)
FillIgnoresBlocked(r, f) == "unavailable"

(* _fill_missing_normalized_features: a listed feature that the region     *)
(* lacks is unknown where the probe was blocked, and unavailable elsewhere. *)
Fill(r, f) ==
    IF \E p \in Probes : f \in Rows(p) /\ blocked[<<r, p>>] # None
    THEN "unknown" ELSE "unavailable"

(* Mutant: the sentinel of a blocked catalog always stays. *)
DropsNothing(r, f) == FALSE

(* Mutant: the sentinel always goes. *)
DropsUnlisted(r, f) == \E p \in Probes : blocked[<<r, p>>] = f

(* ... and the row of the blocked call goes, if its probe listed anything. *)
Drops(r, f) == \E p \in Probes : blocked[<<r, p>>] = f /\ normalized \cap Rows(p) # {}

Normalize ==
    /\ next > Len(Calls) /\ ~done
    /\ grid' = [c \in Cells |->
                  IF Drops(c[1], c[2]) THEN Absent
                  ELSE IF grid[c] = Absent /\ c[2] \in normalized
                  THEN Fill(c[1], c[2]) ELSE grid[c]]
    /\ done' = TRUE
    /\ UNCHANGED <<answers, next, normalized, blocked>>

Next == Call \/ Normalize

Spec == Init /\ [][Next]_vars

-----------------------------------------------------------------------------
(* Type invariant. *)
TypeOK == /\ \A r \in Regions, p \in Probes : answers[<<r, p>>] \in Answers(Listed(p))
          /\ next \in 1..(Len(Calls) + 1)
          /\ grid \in Grids
          /\ normalized \subseteq Features
          /\ blocked \in [Regions \X Probes -> Features \cup {None}]
          /\ done \in BOOLEAN

(* poc-deployment.md: "unavailable" means that the command completed and   *)
(* did not list the feature, "unknown" that it failed, "available" that    *)
(* Azure listed it.  No outage of one region or probe shows as another     *)
(* region's or probe's verdict.                                            *)
VerdictsAreEvidence ==
    done => \A r \in Regions, p \in Probes : \A f \in Rows(p) :
       /\ grid[<<r, f>>] = "unavailable" => answers[<<r, p>>].ok /\ f \notin answers[<<r, p>>].listed
       /\ grid[<<r, f>>] = "unknown" => ~answers[<<r, p>>].ok
       /\ grid[<<r, f>>] = "available" => f \in answers[<<r, p>>].listed

(* The loops leave what the scan of the catalog amounts to: what one       *)
(* region lists has a status in each, whatever failed there.               *)
ScanIsOverlay ==
    done => \A p \in Probes : Kind[p] = "catalog" =>
       LET overlay == CatalogOverlay(Sentinel[p], Regions, [r \in Regions |-> answers[<<r, p>>]])
       IN \A r \in Regions, f \in Rows(p) : grid[<<r, f>>] = overlay[<<r, f>>]

(* A failed catalog leaves its sentinel in a region only if it left no     *)
(* other row there, and leaves some row if it reported anywhere.           *)
OutageLeavesTrace ==
    done => \A r \in Regions, p \in Probes :
       Kind[p] = "catalog" /\ ~answers[<<r, p>>].ok =>
          /\ \E f \in Rows(p) : grid[<<r, f>>] = "unknown"
          /\ grid[<<r, Sentinel[p]>>] # Absent => \A f \in Listed(p) : grid[<<r, f>>] = Absent
=============================================================================
