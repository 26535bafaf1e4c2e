--------------------------- MODULE DailyEvidence ----------------------------
(***************************************************************************)
(* From Azure's answers to what readers are told: scans of one catalog,    *)
(* daily ones of all regions and focused ones of some (runner.py), are     *)
(* merged onto the latest snapshot (snapshot_merge.py) and filed in the    *)
(* history under their date, with the records of the briefing              *)
(* (history.py update_history, briefing.py).  A second run of a date       *)
(* replaces what the first one filed.                                      *)
(***************************************************************************)
EXTENDS Briefing, CatalogScan

CONSTANTS
    Items,     \* what the catalog may list
    Sentinel,  \* the row of a catalog that failed everywhere
    Published, \* the snapshots that the history may begin with
    MaxDays,   \* bound: the number of dates
    MaxRuns    \* bound: the number of runs on a date

ASSUME DailyAssumption == /\ Items \subseteq Features
                          /\ Sentinel \in Features \ Items
                          /\ Published \subseteq Grids
                          /\ MaxDays \in Nat /\ MaxRuns \in Nat \ {0}

VARIABLES
    days,  \* the retained history, one entry per date
    heard, \* per region, what Azure answered to the calls of the latest date
    runs   \* the number of runs on the latest date

vars == <<days, heard, runs>>

Today == Len(days)
Past  == SubSeq(days, 1, Today - 1)

Day(past, grid) == [grid |-> grid, records |-> BuildBriefing(past, grid)]

NoAnswers == [r \in Regions |-> {}]

Init == /\ \E g \in Published : days = <<Day(<<>>, g)>>
        /\ heard = NoAnswers
        /\ runs = MaxRuns

(* Mutant: a new day is compared with the day before yesterday. *)
FileSkipsYesterday(grid, answers) ==
    /\ Today < MaxDays
    /\ days' = Append(days, Day(Past, grid))
    /\ heard' = answers
    /\ runs' = 1

(* A snapshot is filed under a new date, or again under today's.           *)
FileNewDay(grid, answers) ==
    /\ Today < MaxDays
    /\ days' = Append(days, Day(days, grid))
    /\ heard' = answers
    /\ runs' = 1

FileAgain(grid, answers) ==
    /\ runs < MaxRuns
    /\ days' = [days EXCEPT ![Today] = Day(Past, grid)]
    /\ heard' = [r \in Regions |-> heard[r] \cup answers[r]]
    /\ runs' = runs + 1

File(grid, answers) == FileNewDay(grid, answers) \/ FileAgain(grid, answers)

(* A run whose job reports about the scanned regions.                      *)
Scan(scanned) ==
    \E answer \in [scanned -> Answers(Items)] :
       File(MergeOverlay(days[Today].grid, CatalogOverlay(Sentinel, scanned, answer)),
            [r \in Regions |-> IF r \in scanned THEN {answer[r]} ELSE {}])

(* A run that publishes without the catalog's job, but with the shard of   *)
(* another one, which covers none of the catalog's rows.  (If no job left  *)
(* a shard, nothing is filed: see OverlayMerge and Publication.)           *)
ScanFails == File(Prune(days[Today].grid), NoAnswers)

Next == ScanFails \/ \E scanned \in SUBSET Regions \ {{}} : Scan(scanned)

Spec == Init /\ [][Next]_vars

-----------------------------------------------------------------------------
(* Type invariant. *)
TypeOK == /\ days \in Seq([grid : Grids, records : [Cells -> Records]])
          /\ heard \in [Regions -> SUBSET Answers(Items)]
          /\ runs \in 0..MaxRuns

RecordOf(n, c) == days[n].records[c]
StatusOf(n, c) == days[n].grid[c]

(* Every date a record cites is true of the retained history: on "last"    *)
(* the cell was available, and on no later day before the record; "since"  *)
(* is later than that, and the cell was not available from then on.        *)
CitedDatesTrue ==
    \A n \in DOMAIN days : \A c \in Cells :
       LET rec == RecordOf(n, c) IN
       /\ rec.last # NoDate =>
             /\ rec.last < n /\ StatusOf(rec.last, c) = "available"
             /\ \A d \in (rec.last + 1)..(n - 1) : StatusOf(d, c) # "available"
       /\ rec.since # NoDate =>
             /\ rec.last # NoDate /\ rec.last < rec.since /\ rec.since <= n
             /\ StatusOf(n, c) # "available"

(* A listing is called new only if no earlier retained day had it.         *)
NewMeansNew ==
    \A n \in DOMAIN days : \A c \in Cells :
       RecordOf(n, c).kind = "new_listings" =>
          \A d \in 1..(n - 1) : StatusOf(d, c) # "available"

(* What was lost, or lost from sight, stays on the readers' list from day  *)
(* to day, with the same dates, until it comes back or leaves the scope.   *)
LostStaysTracked ==
    \A n \in 2..Today : \A c \in Cells :
       LET before == RecordOf(n - 1, c)
           stable == Scope(c) \in Scopes(days[n - 1].grid) \cap Scopes(days[n].grid)
       IN (before.last # NoDate /\ stable
              /\ (before.since # NoDate \/ before.kind = "observation_gaps")) =>
            LET now == RecordOf(n, c) IN
            /\ now.kind # "none"
            /\ before.since # NoDate /\ StatusOf(n, c) \in Missing \cup {"unknown"} =>
                  now.since = before.since
            /\ StatusOf(n, c) \in Missing /\ now.kind # "observation_gaps" => now.since # NoDate

(* A listing won, restored or lost is told only on a date on which Azure   *)
(* was asked about the region, and a listing won or restored only if it    *)
(* answered with it: carried evidence and outages elsewhere never do.      *)
NewsIsObserved ==
    Today > 1 => \A c \in Cells :
       LET kind == RecordOf(Today, c).kind IN
       /\ kind \in {"new_listings", "restorations"} => \E a \in heard[c[1]] : c[2] \in a.listed
       /\ kind = "delistings" => \E a \in heard[c[1]] : c[2] \notin a.listed

(* test_briefing.py: "dynamic catalog failures cannot create delistings":  *)
(* a listing is lost only on a date on which some call of its region       *)
(* completed.                                                              *)
OutagesDelistNothing ==
    \A c \in Cells : RecordOf(Today, c).kind = "delistings" => \E a \in heard[c[1]] : a.ok

(* poc-deployment.md: "unknown" means that the command failed.  No row is  *)
(* unknown on a date on which every call of its region listed something.   *)
UnknownMeansFailed ==
    \A c \in Cells :
       StatusOf(Today, c) = "unknown" /\ heard[c[1]] # {} =>
          \E a \in heard[c[1]] : ~a.ok \/ a.listed = {}

(* poc-deployment.md: "unavailable" means that the command completed, but  *)
(* the feature was absent.  An item is not available on a date on which    *)
(* every call of its region completed without listing it.                  *)
AvailableMeansListed ==
    \A c \in Cells :
       StatusOf(Today, c) = "available" /\ heard[c[1]] # {} =>
          \E a \in heard[c[1]] : ~a.ok \/ c[2] \in a.listed
=============================================================================
