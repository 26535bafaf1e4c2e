------------------------ MODULE DocumentationReview ------------------------
(***************************************************************************)
(* The scheduled documentation review (prepare_documentation_review.py and *)
(* scheduled-azure-maintenance.yml): a checkpoint in the Actions cache     *)
(* decides whether a model may be called.  It is called once for a change  *)
(* of the source, and once every Interval days whatever changed.           *)
(*                                                                         *)
(* The source is abstracted to what its fingerprint tells apart, Contents, *)
(* and time to the days since the last general review, up to Interval.     *)
(* calm is set for good when the environment stops failing: the promise of *)
(* a weekly review is about what follows.                                  *)
(***************************************************************************)
EXTENDS Naturals

CONSTANTS
    Contents, \* what the relevant source may be
    Interval, \* days between general reviews
    None

Outcomes == {"published", "no-change", "needs-evidence", "failed"}
Recorded == Outcomes \cup {"baseline", "skipped-open-pr", "stale-source"}
Sources  == Contents \cup {None}
RunRecords ==
    [phase : {"gate", "build", "task", "agent", "record"}, dry : BOOLEAN, source : Contents,
     moved : BOOLEAN, weekly : BOOLEAN, saw : Sources, outcome : Recorded \cup {None}]
Checkpoints == [source : Contents, outcome : Recorded, saw : Sources]

ASSUME ReviewAssumption ==
    /\ Interval \in Nat \ {0}
    /\ None \notin Contents \cup Recorded \cup RunRecords \cup Checkpoints

VARIABLES
    source,     \* the relevant source on the default branch
    checkpoint, \* the newest one in the cache, or None
    age,        \* days since its last_augmentation_at, at most Interval
    open,       \* is the documentation pull request open?
    run,        \* the run of the workflow, or None: they have one group
    tried,      \* the source of the last attempt, or None if it was not recorded
    calm

vars == <<source, checkpoint, age, open, run, tried, calm>>

At(phase)   == run # None /\ run.phase = phase
Goes(phase) == run' = [run EXCEPT !.phase = phase]
Ends        == run' = None
-----------------------------------------------------------------------------
Init == /\ source \in Contents /\ checkpoint = None /\ age = 0
        /\ open \in BOOLEAN /\ run = None /\ tried = None /\ calm = FALSE

(* A commit that changes the relevant source, or not.  A run in progress   *)
(* has checked out its parent.                                             *)
Merge(content) ==
    /\ calm => run = None
    /\ source' = content
    /\ run' = IF run = None THEN None ELSE [run EXCEPT !.moved = TRUE]
    /\ UNCHANGED <<checkpoint, age, open, tried, calm>>

(* A run is over within its limit of 50 minutes, long before the next day. *)
Tick == /\ run = None
        /\ age' = IF age < Interval THEN age + 1 ELSE age
        /\ UNCHANGED <<source, checkpoint, open, run, tried, calm>>

ClosePull  == open /\ open' = FALSE /\ UNCHANGED <<source, checkpoint, age, run, tried, calm>>
ReopenPull == /\ ~calm /\ ~open /\ open' = TRUE
              /\ UNCHANGED <<source, checkpoint, age, run, tried, calm>>

(* The cache keeps an entry only as long as it has room for it. *)
Evict == /\ ~calm /\ checkpoint # None
         /\ checkpoint' = None /\ tried' = None /\ age' = 0
         /\ UNCHANGED <<source, open, run, calm>>

Calm == ~calm /\ calm' = TRUE /\ UNCHANGED <<source, checkpoint, age, open, run, tried>>
-----------------------------------------------------------------------------
Start(dry) ==
    /\ run = None
    /\ run' = [phase |-> "gate", dry |-> dry, source |-> source, moved |-> FALSE,
               weekly |-> FALSE, saw |-> None, outcome |-> None]
    /\ UNCHANGED <<source, checkpoint, age, open, tried, calm>>

SourceChanged == checkpoint.source # run.source
WeeklyDue     == age >= Interval

(* Without a checkpoint there is a baseline and no review.  An open pull   *)
(* request defers the review; a lookup that fails stops the run.           *)
Gate(answered) ==
    /\ At("gate")
    /\ calm => answered
    /\ CASE checkpoint = None ->
                IF run.dry THEN Ends ELSE run' = [run EXCEPT !.phase = "record", !.outcome = "baseline"]
         [] checkpoint # None /\ (SourceChanged \/ WeeklyDue) /\ answered /\ ~open ->
                run' = [run EXCEPT !.phase = "build", !.weekly = WeeklyDue]
         [] OTHER -> Ends
    /\ UNCHANGED <<source, checkpoint, age, open, tried, calm>>

(* Dependencies are installed and the task is written; a dry run ends here. *)
Build(succeeds) ==
    /\ At("build")
    /\ calm => succeeds
    /\ IF succeeds /\ ~run.dry THEN Goes("task") ELSE Ends
    /\ UNCHANGED <<source, checkpoint, age, open, tried, calm>>

(* Mutant: the head is not compared with the one that was checked out. *)
AnyRevision == TRUE

SameRevision == ~run.moved

(* run_task: what fails before the model is called is a failed attempt.    *)
(* The model sees the default branch as it is now.                         *)
Task ==
    /\ At("task")
    /\ CASE open -> run' = [run EXCEPT !.phase = "record", !.outcome = "skipped-open-pr"] /\ UNCHANGED tried
         [] ~open /\ ~SameRevision ->
                run' = [run EXCEPT !.phase = "record", !.outcome = "stale-source"] /\ UNCHANGED tried
         [] OTHER -> run' = [run EXCEPT !.phase = "agent", !.saw = source] /\ tried' = run.source
    /\ UNCHANGED <<source, checkpoint, age, open, calm>>

TaskFails ==
    /\ At("task") /\ ~calm
    /\ run' = [run EXCEPT !.phase = "record", !.outcome = "failed"] /\ tried' = run.source
    /\ UNCHANGED <<source, checkpoint, age, open, calm>>

(* Only a patch that is in scope, argued and tested becomes a pull request. *)
AgentEnds(outcome) ==
    /\ At("agent")
    /\ outcome = "published" => ~open
    /\ open' = (open \/ outcome = "published")
    /\ run' = [run EXCEPT !.phase = "record", !.outcome = outcome]
    /\ UNCHANGED <<source, checkpoint, age, tried, calm>>

(* Mutant: a failed review is not recorded. *)
OnlySuccesses(outcome) == outcome \notin {"skipped-open-pr", "stale-source", "failed"}

Advances(outcome) == outcome \notin {"skipped-open-pr", "stale-source"}

(* Mutant: every review counts as the weekly one. *)
AnyReviewAugments == 0

AgeAfter == IF run.weekly \/ run.outcome = "baseline" THEN 0 ELSE age

(* complete_review and the save of the cache. *)
Record ==
    /\ At("record") /\ Ends
    /\ IF Advances(run.outcome)
       THEN /\ checkpoint' = [source |-> run.source, outcome |-> run.outcome, saw |-> run.saw]
            /\ age' = AgeAfter
       ELSE UNCHANGED <<checkpoint, age>>
    /\ UNCHANGED <<source, open, tried, calm>>

(* The run is cancelled or times out, or the cache is not saved.           *)
CutOff ==
    /\ run # None /\ ~calm /\ Ends
    /\ tried' = IF At("agent") \/ (At("record") /\ Advances(run.outcome)) THEN None ELSE tried
    /\ UNCHANGED <<source, checkpoint, age, open, calm>>

RunStep == \/ \E b \in BOOLEAN : Gate(b) \/ Build(b)
           \/ Task \/ TaskFails \/ Record
           \/ \E outcome \in Outcomes : AgentEnds(outcome)

Next == \/ \E content \in Contents : Merge(content)
        \/ Tick \/ ClosePull \/ ReopenPull \/ Evict \/ Calm
        \/ \E dry \in BOOLEAN : Start(dry)
        \/ RunStep \/ CutOff

(* Days pass, the schedule starts a run a day, and a run ends within its   *)
(* limit.  Someone deals with the pull request.                            *)
Fairness == /\ SF_vars(Tick) /\ SF_vars(Start(FALSE))
            /\ WF_vars(RunStep) /\ WF_vars(ClosePull)
Spec == Init /\ [][Next]_vars /\ Fairness
-----------------------------------------------------------------------------
(* A checkpoint with an outcome other than a failure is of the very source *)
(* that the model saw, whatever was merged, opened or lost while the run   *)
(* went from its checkout to its record (complete_review): no change of    *)
(* the source is taken as reviewed that was not.                           *)
RecordedIsReviewed ==
    checkpoint # None /\ checkpoint.outcome \notin {"baseline", "failed"} =>
        checkpoint.saw = checkpoint.source

(* Between general reviews the model is not called again for the source of *)
(* the last attempt, failed ones included, unless its record was lost      *)
(* (docs/agentic-sessions.md: no daily reattempts of unchanged source).    *)
NoReattempt ==
    [][(~At("agent") /\ run' # None /\ run'.phase = "agent" /\ ~run'.weekly) => tried # run'.source]_vars

(* Once failures stop, general reviews go on, even if the source changes   *)
(* every day and every review of a change ends in a pull request: reviews  *)
(* of changes do not postpone them (prepare_review).                       *)
WeeklyComes == calm ~> At("agent") /\ run.weekly
=============================================================================
