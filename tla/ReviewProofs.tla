---------------------------- MODULE ReviewProofs ----------------------------
(* Proofs about DocumentationReview, for any contents and interval: what   *)
(* is recorded as reviewed was seen, and nothing is reviewed twice.        *)
EXTENDS DocumentationReview, TLAPS

ReviewTypeOK ==
    /\ source \in Contents /\ tried \in Sources /\ age \in Nat
    /\ checkpoint # None => checkpoint \in Checkpoints
    /\ run # None => run \in RunRecords
    /\ At("record") => run.outcome \in Recorded

(* The attempt of a run is settled once it has an outcome, or the model    *)
(* was called.                                                             *)
Attempting == At("agent") \/ (At("record") /\ Advances(run.outcome))

(* What was checked out is still the head unless the run was told.         *)
CheckedOut == run # None /\ ~run.moved => run.source = source

(* What the model saw is what the run checked out.                         *)
SawCheckedOut ==
    (At("agent") \/ (At("record") /\ Advances(run.outcome) /\ run.outcome \notin {"baseline", "failed"}))
        => run.saw = run.source

(* The last attempt is recorded, or it is the one of this run.             *)
TriedIsRecorded ==
    tried # None => IF Attempting THEN tried = run.source
                    ELSE checkpoint # None /\ checkpoint.source = tried

(* A run goes beyond its gate because the source changed or a general      *)
(* review is due.                                                          *)
HasReason ==
    (At("build") \/ At("task")) /\ ~run.weekly /\ checkpoint # None => checkpoint.source # run.source

Inv == /\ ReviewTypeOK /\ CheckedOut /\ SawCheckedOut
       /\ TriedIsRecorded /\ HasReason /\ RecordedIsReviewed

USE DEF At, Goes, Ends

(* Nothing is recorded at first. *)
LEMMA Initially == Init => Inv
BY ReviewAssumption DEF Init, Inv, ReviewTypeOK, CheckedOut, SawCheckedOut, TriedIsRecorded,
       HasReason, RecordedIsReviewed, Sources

(* What a step may change of a run.                                        *)
Alters(phase, weekly, saw, outcome) ==
    /\ run \in RunRecords /\ run' \in RunRecords /\ run # None /\ run' # None
    /\ run'.source = run.source /\ run'.moved = run.moved
    /\ run'.phase = phase /\ run'.weekly = weekly /\ run'.saw = saw /\ run'.outcome = outcome

LEMMA RunTyped == Inv /\ run # None => run \in RunRecords
BY DEF Inv, ReviewTypeOK

(* Every step of a run, of people and of the cache keeps the invariant. *)
LEMMA Inductive == Inv /\ [Next]_vars => Inv'
<1> SUFFICES ASSUME Inv, [Next]_vars PROVE Inv'
    OBVIOUS
<1>0. \A q \in RunRecords : q # None /\ q.source \in Sources /\ q.source # None /\ q.weekly \in BOOLEAN
    BY ReviewAssumption DEF RunRecords, Sources
<1>none. source # None /\ None \notin Recorded
    BY ReviewAssumption DEF Inv, ReviewTypeOK
<1> USE DEF Inv, ReviewTypeOK, CheckedOut, SawCheckedOut, TriedIsRecorded,
        HasReason, RecordedIsReviewed, Attempting, Advances
<1>1. ASSUME NEW content \in Contents, Merge(content) PROVE Inv'
    <2>1. CASE run = None
        BY <1>1, <2>1 DEF Merge
    <2>2. CASE run # None
        <3>1. run \in RunRecords /\ run' = [run EXCEPT !.moved = TRUE]
            BY <1>1, <2>2, RunTyped DEF Merge
        <3>2. /\ run' \in RunRecords /\ run'.moved /\ run'.phase = run.phase
              /\ run'.source = run.source /\ run'.weekly = run.weekly /\ run'.saw = run.saw
              /\ run'.outcome = run.outcome
            BY <3>1 DEF RunRecords
        <3>3. /\ UNCHANGED <<checkpoint, age, open, tried, calm>> /\ source' \in Contents
              /\ run' # None
            BY <1>0, <1>1, <3>2 DEF Merge
        <3>4. ReviewTypeOK' /\ RecordedIsReviewed' /\ CheckedOut'
            BY <2>2, <3>2, <3>3
        <3>5. SawCheckedOut' /\ TriedIsRecorded' /\ HasReason'
            BY <2>2, <3>2, <3>3
        <3> QED
            BY <3>4, <3>5
    <2> QED
        BY <2>1, <2>2
<1>2. CASE Tick
    <2>1. age' \in Nat
        BY <1>2 DEF Tick
    <2> QED
        BY <1>2, <2>1 DEF Tick
<1>3. CASE ClosePull \/ ReopenPull \/ Calm
    BY <1>3 DEF ClosePull, ReopenPull, Calm
<1>4. CASE Evict
    <2>1. run # None => run \in RunRecords
        BY RunTyped
    <2> QED
        BY <1>4, <2>1 DEF Evict, Sources
<1>5. ASSUME NEW dry \in BOOLEAN, Start(dry) PROVE Inv'
    <2>1. /\ run = None /\ run' \in RunRecords /\ run'.phase = "gate" /\ run'.source = source
          /\ UNCHANGED <<source, checkpoint, age, open, tried, calm>>
        BY <1>5 DEF Start, RunRecords, Sources
    <2> QED
        BY <1>0, <2>1
<1>6. ASSUME NEW answered \in BOOLEAN, Gate(answered) PROVE Inv'
    <2>1. /\ run \in RunRecords /\ At("gate") /\ UNCHANGED <<source, checkpoint, age, open, tried, calm>>
        BY <1>6, RunTyped DEF Gate
    <2>2. CASE run' = None
        BY <2>1, <2>2
    <2>3. CASE checkpoint = None /\ run' = [run EXCEPT !.phase = "record", !.outcome = "baseline"]
        <3>1. Alters("record", run.weekly, run.saw, "baseline")
            BY <1>0, <2>1, <2>3 DEF Alters, RunRecords, Recorded
        <3> QED
            BY <2>1, <2>3, <3>1 DEF Alters, Recorded
    <2>4. CASE /\ checkpoint # None /\ (SourceChanged \/ WeeklyDue)
               /\ run' = [run EXCEPT !.phase = "build", !.weekly = WeeklyDue]
        <3>1. Alters("build", WeeklyDue, run.saw, run.outcome)
            <4>1. WeeklyDue \in BOOLEAN
                BY DEF WeeklyDue
            <4>2. ASSUME NEW w \in BOOLEAN, run' = [run EXCEPT !.phase = "build", !.weekly = w]
                  PROVE  Alters("build", w, run.saw, run.outcome)
                BY <1>0, <2>1, <4>2 DEF Alters, RunRecords
            <4> QED
                BY <2>4, <4>1, <4>2, Zenon
        <3> QED
            BY <2>1, <2>4, <3>1 DEF Alters, SourceChanged
    <2> QED
        BY <1>6, <2>2, <2>3, <2>4 DEF Gate
<1>7. ASSUME NEW succeeds \in BOOLEAN, Build(succeeds) PROVE Inv'
    <2>1. /\ run \in RunRecords /\ At("build") /\ UNCHANGED <<source, checkpoint, age, open, tried, calm>>
        BY <1>7, RunTyped DEF Build
    <2>2. CASE run' = None
        BY <2>1, <2>2
    <2>3. CASE run' = [run EXCEPT !.phase = "task"]
        <3>1. Alters("task", run.weekly, run.saw, run.outcome)
            BY <1>0, <2>1, <2>3 DEF Alters, RunRecords
        <3> QED
            BY <2>1, <3>1 DEF Alters
    <2> QED
        BY <1>7, <2>2, <2>3 DEF Build
<1>8. CASE Task
    <2>1. /\ run \in RunRecords /\ At("task")
          /\ UNCHANGED <<source, checkpoint, age, open, calm>>
        BY <1>8, RunTyped DEF Task
    <2>2. CASE open \/ ~SameRevision
        <3>1. PICK outcome \in {"skipped-open-pr", "stale-source"} :
                  run' = [run EXCEPT !.phase = "record", !.outcome = outcome] /\ UNCHANGED tried
            BY <1>8, <2>2 DEF Task
        <3>2. Alters("record", run.weekly, run.saw, outcome)
            BY <1>0, <2>1, <3>1 DEF Alters, RunRecords, Recorded
        <3> QED
            BY <2>1, <3>1, <3>2 DEF Alters, Recorded
    <2>3. CASE ~open /\ SameRevision
        <3>1. run' = [run EXCEPT !.phase = "agent", !.saw = source] /\ tried' = run.source
            BY <1>8, <2>3 DEF Task
        <3>2. Alters("agent", run.weekly, source, run.outcome)
            BY <1>0, <2>1, <3>1 DEF Alters, RunRecords, Sources
        <3> QED
            BY <1>0, <2>1, <2>3, <3>1, <3>2 DEF Alters, SameRevision
    <2> QED
        BY <2>2, <2>3
<1>9. CASE TaskFails
    <2>1. /\ run \in RunRecords /\ At("task") /\ tried' = run.source
          /\ UNCHANGED <<source, checkpoint, age, open, calm>>
        BY <1>9, RunTyped DEF TaskFails
    <2>2. Alters("record", run.weekly, run.saw, "failed")
        BY <1>0, <1>9, <2>1 DEF TaskFails, Alters, RunRecords, Recorded, Outcomes
    <2> QED
        BY <1>0, <2>1, <2>2 DEF Alters, Recorded, Outcomes
<1>10. ASSUME NEW outcome \in Outcomes, AgentEnds(outcome) PROVE Inv'
    <2>1. /\ run \in RunRecords /\ At("agent") /\ UNCHANGED <<source, checkpoint, age, tried, calm>>
        BY <1>10, RunTyped DEF AgentEnds
    <2>2. Alters("record", run.weekly, run.saw, outcome)
        BY <1>0, <1>10, <2>1 DEF AgentEnds, Alters, RunRecords, Recorded
    <2>3. outcome \in Recorded /\ outcome \notin {"skipped-open-pr", "stale-source", "baseline"}
        BY DEF Recorded, Outcomes
    <2> QED
        BY <2>1, <2>2, <2>3 DEF Alters
<1>11. CASE Record
    <2>1. /\ run \in RunRecords /\ At("record") /\ run' = None /\ UNCHANGED <<source, tried>>
        BY <1>11, RunTyped DEF Record
    <2>2. CASE ~Advances(run.outcome)
        BY <1>11, <2>1, <2>2 DEF Record
    <2>3. CASE Advances(run.outcome)
        <3>1. /\ checkpoint' = [source |-> run.source, outcome |-> run.outcome, saw |-> run.saw]
              /\ age' = AgeAfter
            BY <1>11, <2>3 DEF Record
        <3>2. checkpoint' \in Checkpoints /\ age' \in Nat
            BY <2>1, <3>1 DEF AgeAfter, Checkpoints, RunRecords
        <3>3. checkpoint' # None
            BY <3>2, ReviewAssumption
        <3> QED
            BY <2>1, <2>3, <3>1, <3>2, <3>3
    <2> QED
        BY <2>2, <2>3
<1>12. CASE CutOff
    <2>1. tried' \in {None, tried} /\ UNCHANGED <<source, checkpoint, age>> /\ run' = None
          /\ (tried' = tried => tried = None \/ ~Attempting)
        BY <1>12 DEF CutOff
    <2> QED
        BY <2>1 DEF Sources
<1>13. CASE UNCHANGED vars
    BY <1>13 DEF vars
<1> QED
    BY <1>1, <1>2, <1>3, <1>4, <1>5, <1>6, <1>7, <1>8, <1>9, <1>10, <1>11, <1>12, <1>13
       DEF Next, RunStep

(* A checkpoint with an outcome other than a failure is of the source that *)
(* the model saw (RecordedIsReviewed), for any contents and any interval.  *)
THEOREM Reviewed == Spec => []RecordedIsReviewed
<1>1. Spec => []Inv
    BY Initially, Inductive, PTL DEF Spec
<1>2. Inv => RecordedIsReviewed
    BY DEF Inv
<1> QED
    BY <1>1, <1>2, PTL

(* Between general reviews the source of the last recorded attempt is not  *)
(* reviewed again (NoReattempt).                                           *)
THEOREM NotAgain == Spec => NoReattempt
<1> DEFINE Calls == ~At("agent") /\ run' # None /\ run'.phase = "agent" /\ ~run'.weekly
<1>1. ASSUME Inv, [Next]_vars, Calls PROVE tried # run'.source
    <2>1. Task
        <3>1. ~At("agent") /\ run' # None /\ run'.phase = "agent"
            BY <1>1
        <3>2. run # run'
            BY <3>1
        <3>3. run # None => run \in RunRecords
            BY <1>1 DEF Inv, ReviewTypeOK
        <3>4. ASSUME NEW content \in Contents, Merge(content) PROVE FALSE
            BY <3>1, <3>3, <3>4 DEF Merge, RunRecords
        <3>5. ASSUME NEW b \in BOOLEAN, Start(b) \/ Gate(b) \/ Build(b) PROVE FALSE
            <4>1. CASE Start(b)
                BY <3>1, <4>1 DEF Start
            <4>2. CASE Gate(b)
                <5>1. \/ run' = None
                      \/ run' = [run EXCEPT !.phase = "record", !.outcome = "baseline"]
                      \/ run' = [run EXCEPT !.phase = "build", !.weekly = WeeklyDue]
                    BY <4>2 DEF Gate
                <5>2. run \in RunRecords
                    BY <3>3, <4>2 DEF Gate
                <5> QED
                    BY <3>1, <5>1, <5>2 DEF RunRecords
            <4>3. CASE Build(b)
                BY <3>1, <3>3, <4>3 DEF Build, RunRecords
            <4> QED
                BY <3>5, <4>1, <4>2, <4>3
        <3>6. ASSUME TaskFails \/ Record \/ CutOff PROVE FALSE
            BY <3>1, <3>3, <3>6 DEF TaskFails, Record, CutOff, RunRecords
        <3>7. ASSUME NEW outcome \in Outcomes, AgentEnds(outcome) PROVE FALSE
            BY <3>1, <3>3, <3>7 DEF AgentEnds, RunRecords
        <3> QED
            BY <1>1, <3>2, <3>4, <3>5, <3>6, <3>7
               DEF Next, RunStep, vars, Tick, ClosePull, ReopenPull, Evict, Calm
    <2>2. /\ run \in RunRecords /\ At("task") /\ run'.source = run.source /\ run'.weekly = run.weekly
        BY <1>1, <2>1 DEF Task, Inv, ReviewTypeOK, RunRecords
    <2>3. ~run.weekly /\ ~Attempting
        BY <1>1, <2>2 DEF Attempting
    <2>4. tried # None => checkpoint # None /\ checkpoint.source = tried
        BY <1>1, <2>3 DEF Inv, TriedIsRecorded
    <2>5. checkpoint # None => checkpoint.source # run.source
        BY <1>1, <2>2, <2>3 DEF Inv, HasReason
    <2>6. run.source # None
        BY <2>2, ReviewAssumption DEF RunRecords
    <2> QED
        BY <2>2, <2>4, <2>5, <2>6
<1>2. Spec => []Inv
    BY Initially, Inductive, PTL DEF Spec
<1>3. Inv /\ [Next]_vars => [Calls => tried # run'.source]_vars
    BY <1>1
<1> QED
    BY <1>2, <1>3, PTL DEF Spec, NoReattempt
=============================================================================
