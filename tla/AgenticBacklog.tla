--------------------------- MODULE AgenticBacklog ---------------------------
(***************************************************************************)
(* The scheduled agentic lane: one run at a time selects one issue, starts *)
(* one paid session for it and ends; a follower of its own then records    *)
(* the outcome on the issue.  What the lane knows of an issue is kept in   *)
(* two bot comments: the state of its hold, and the number of failures.    *)
(*                                                                         *)
(* Runs of the lane exclude one another.  A follower belongs to one run    *)
(* and excludes nothing, so it may still be at work when the next run      *)
(* selects.                                                                *)
(***************************************************************************)
EXTENDS Naturals, FiniteSets, FiniteSetsExt

CONSTANTS
    Issues,        \* issue numbers in queue order: urgent first, then oldest first
    Recurring,     \* issues that are never paused and that a merge does not close
    Unknowns,      \* issues that need a current unknown result to work on
    Scoped,        \* issues for which a source scope can be derived
    Limit,         \* tasks that a run builds (3)
    Threshold,     \* failures that pause an issue (3)
    MaxRun, MaxActs, \* bounds on runs and on what people do
    MaxReply, MaxText, \* bounds on the replies of an issue and on the edits of one
    None

Outcomes == {"delivered", "waiting", "no-change", "failure"}
OnHold   == {"waiting", "evaluating"}

(* An authorized reply, by the order of its id and the version of its text. *)
Replies == [id : 1..MaxReply, text : 0..MaxText]
Holds   == [status : {"waiting", "evaluating", "delivered", "no-change"},
            run : 1..MaxRun, consumed : Replies \cup {None}]

(* What a lane that is at work knows, what a follower reads of its issue,  *)
(* and what it keeps.                                                      *)
Selections == [phase : {"prepared", "session"}, issue : Issues, held : BOOLEAN,
               clarification : Replies \cup {None}, context : SUBSET Replies]
Seen       == [hold : Holds \cup {None}, failures : Nat, paused : BOOLEAN]
Followers  == [run : 1..MaxRun, issue : Issues, outcome : Outcomes,
               step : {"started", "read", "decided", "counted"},
               clarification : Replies \cup {None}, seen : Seen \cup {None}, count : Nat]

ASSUME BacklogAssumption ==
    /\ Issues \subseteq Nat /\ IsFiniteSet(Issues)
    /\ Recurring \subseteq Issues /\ Unknowns \subseteq Issues /\ Scoped \subseteq Issues
    /\ Limit \in Nat \ {0} /\ Threshold \in Nat \ {0}
    /\ MaxRun \in Nat /\ MaxActs \in Nat /\ MaxReply \in Nat /\ MaxText \in Nat
    /\ None \notin Replies \cup Holds \cup Seen

VARIABLES
    open, paused, objective, \* the issues that are open, labelled azure-paused, well-formed
    asked,     \* malformed issues that carry the bot's question
    pulls,     \* issues with an open coding pull request
    replies,   \* the replies on each issue
    lastReply, \* the id of the newest reply ever made on an issue
    hold,      \* the state comment of each issue, or None
    failures,  \* the count in the failure comment
    acts,      \* what people have done so far
    lane,      \* the run of the lane: its phase, and what it selected
    followers, \* the outcomes that are being recorded
    run,       \* runs so far
    given,     \* replies that some session of the issue was given
    spent,     \* replies that already released a hold for a session
    streak,    \* sessions that failed since a delivery was last recorded
    raced      \* issues that a run reserved while a follower was at work on them

vars == <<open, paused, objective, asked, pulls, replies, lastReply, hold, failures, acts, lane,
          followers, run, given, spent, streak, raced>>
people  == <<open, objective, replies, lastReply, acts>>
history == <<given, spent, streak, raced>>

Idle == [phase |-> "idle"]
Init == /\ open = Issues /\ paused = {} /\ objective \in SUBSET Issues
        /\ asked = {} /\ pulls = {}
        /\ replies = [i \in Issues |-> {}] /\ lastReply = [i \in Issues |-> 0]
        /\ hold = [i \in Issues |-> None] /\ failures = [i \in Issues |-> 0]
        /\ acts = 0 /\ lane = Idle /\ followers = {} /\ run = 0
        /\ given = [i \in Issues |-> {}] /\ spent = [i \in Issues |-> {}]
        /\ streak = [i \in Issues |-> 0] /\ raced = {}
-----------------------------------------------------------------------------
(* Selection. *)
Held(i) == hold[i] # None /\ hold[i].status \in OnHold

(* The newest reply of a collaborator with write access, or None.          *)
Clarification(i) ==
    IF replies[i] = {} THEN None
    ELSE CHOOSE c \in replies[i] : \A d \in replies[i] : d.id <= c.id

(* An older reply that is left after a deletion releases nothing.          *)
Fresh(i) == LET c == Clarification(i)
                d == hold[i].consumed
            IN  c # None /\ c # d /\ (d = None \/ c.id >= d.id)
Waiting(i) == Held(i) /\ ~Fresh(i)

(* What the session is told of the issue is read while its task is built.  *)
Context(i) == replies[i]

Malformed   == (open \ paused) \ objective
Eligible(i) == i \in open \cap objective /\ i \notin paused

(* An issue without a scope, or without the evidence it needs, is deferred. *)
HasEvidence(i, unknowns) == i \in Unknowns => unknowns
Workable(i, unknowns)    == i \in Scoped /\ HasEvidence(i, unknowns)

(* The tasks of a run: held issues are skipped before the limit applies.   *)
Tasks(unknowns) ==
    LET able == {i \in Issues : Eligible(i) /\ ~Waiting(i) /\ Workable(i, unknowns)}
    IN  {i \in able : Cardinality({j \in able : j < i}) < Limit}

(* Issues with an open pull request are dropped after the limit applied.   *)
Selected(unknowns) == Tasks(unknowns) \ pulls

Unasked == Malformed \ asked

(* One prepare job up to the reservation: fetch, build, filter, and ask    *)
(* for the objective of malformed issues (each once, but a call may fail). *)
Prepare(unknowns, questions) ==
    /\ lane = Idle /\ run < MaxRun
    /\ questions \subseteq Unasked
    /\ run' = run + 1
    /\ asked' = asked \cup questions
    /\ lane' = IF Selected(unknowns) = {} THEN Idle
               ELSE LET i == Min(Selected(unknowns))
                    IN  [phase |-> "prepared", issue |-> i, held |-> Held(i),
                         clarification |-> Clarification(i), context |-> Context(i)]
    /\ UNCHANGED <<people, paused, pulls, hold, failures, followers, history>>

(* Mutant: the reply is consumed only when the outcome is recorded. *)
ReservesNothing(i, c) == [status |-> "evaluating", run |-> run, consumed |-> hold[i].consumed]

Reserved(i, c) == [status |-> "evaluating", run |-> run, consumed |-> c]

(* A reply that released a hold is consumed before the paid session.       *)
Reserve ==
    /\ lane.phase = "prepared"
    /\ lane' = [lane EXCEPT !.phase = "session"]
    /\ LET i == lane.issue
           c == lane.clarification
       IN  /\ hold' = IF lane.held THEN [hold EXCEPT ![i] = Reserved(i, c)] ELSE hold
           /\ given' = [given EXCEPT ![i] = @ \cup lane.context]
           /\ spent' = IF lane.held THEN [spent EXCEPT ![i] = @ \cup {c}] ELSE spent
           /\ raced' = IF \E f \in followers : f.issue = i THEN raced \cup {i} ELSE raced
    /\ UNCHANGED <<people, paused, asked, pulls, failures, followers, run, streak>>

(* The reservation fails: there is no session and no outcome to record.    *)
PrepareFails ==
    /\ lane.phase = "prepared"
    /\ lane' = Idle
    /\ UNCHANGED <<people, paused, asked, pulls, hold, failures, followers, run, history>>

(* The session ends; a failed one may have opened its pull request.        *)
SessionEnds(outcome, published) ==
    /\ lane.phase = "session"
    /\ outcome = "delivered" => published
    /\ published => outcome \in {"delivered", "failure"}
    /\ pulls' = IF published THEN pulls \cup {lane.issue} ELSE pulls
    /\ followers' = followers \cup
           {[run |-> run, issue |-> lane.issue, outcome |-> outcome, step |-> "started",
             clarification |-> lane.clarification, seen |-> None, count |-> 0]}
    /\ lane' = Idle
    /\ streak' = IF outcome = "failure" THEN [streak EXCEPT ![lane.issue] = @ + 1] ELSE streak
    /\ UNCHANGED <<people, paused, asked, hold, failures, run, given, spent, raced>>
-----------------------------------------------------------------------------
(* The follower of a run. *)
Becomes(f, g) == followers' = (followers \ {f}) \cup {g}
Ends(f)       == followers' = followers \ {f}

(* Labels and comments are read once.                                      *)
FollowerReads(f) ==
    /\ f.step = "started"
    /\ Becomes(f, [f EXCEPT !.step = "read",
                            !.seen = [hold |-> hold[f.issue], failures |-> failures[f.issue],
                                      paused |-> f.issue \in paused]])
    /\ UNCHANGED <<people, paused, asked, pulls, hold, failures, lane, run, history>>

(* Mutant: a delivery leaves the count as it was. *)
NeverResets(f) == IF f.outcome = "failure" THEN f.seen.failures + 1 ELSE f.seen.failures

(* Mutant: the count runs the wrong way. *)
CountsDown(f) == IF f.outcome = "failure" THEN f.seen.failures - 1 ELSE 0

NewFailures(f) == IF f.outcome = "failure" THEN f.seen.failures + 1 ELSE 0
Stale(f) == f.seen.hold # None /\ f.seen.hold.run > f.run
Counts(f) == f.outcome \in {"failure", "delivered"}

(* Mutant: the replies that arrived during the session count as used. *)
RecordsLatest(f) == [status |-> f.outcome, run |-> f.run, consumed |-> Clarification(f.issue)]

Recorded(f) == [status |-> f.outcome, run |-> f.run, consumed |-> f.clarification]

(* An outcome older than the state that was read is refused; otherwise the *)
(* state is written, and the count is left to the next step of the job.    *)
FollowerDecides(f) ==
    /\ f.step = "read"
    /\ IF Stale(f) THEN Ends(f) /\ UNCHANGED hold
       ELSE /\ IF Counts(f) THEN Becomes(f, [f EXCEPT !.step = "decided", !.count = NewFailures(f)])
                            ELSE Ends(f)
            /\ hold' = IF f.outcome = "failure" THEN hold
                       ELSE [hold EXCEPT ![f.issue] = Recorded(f)]
    /\ UNCHANGED <<people, paused, asked, pulls, failures, lane, run, history>>

Pauses(f) == f.count >= Threshold /\ f.issue \notin Recurring /\ ~f.seen.paused

FollowerCounts(f) ==
    /\ f.step = "decided"
    /\ failures' = [failures EXCEPT ![f.issue] = f.count]
    /\ streak' = IF f.outcome = "delivered" THEN [streak EXCEPT ![f.issue] = 0] ELSE streak
    /\ IF Pauses(f) THEN Becomes(f, [f EXCEPT !.step = "counted"]) ELSE Ends(f)
    /\ UNCHANGED <<people, paused, asked, pulls, hold, lane, run, given, spent, raced>>

FollowerPauses(f) ==
    /\ f.step = "counted"
    /\ paused' = paused \cup {f.issue}
    /\ Ends(f)
    /\ UNCHANGED <<people, asked, pulls, hold, failures, lane, run, history>>

(* A call fails, or the job reaches its time limit.                        *)
FollowerDies(f) ==
    /\ Ends(f)
    /\ UNCHANGED <<people, paused, asked, pulls, hold, failures, lane, run, history>>
-----------------------------------------------------------------------------
(* Maintainers, and the manual lane that also opens pull requests. *)
bots == <<asked, hold, failures, lane, followers, run, history>>

Reply(i) ==
    /\ lastReply[i] < MaxReply
    /\ lastReply' = [lastReply EXCEPT ![i] = @ + 1]
    /\ replies' = [replies EXCEPT ![i] = @ \cup {[id |-> lastReply[i] + 1, text |-> 0]}]
    /\ UNCHANGED <<open, paused, objective, pulls, bots>>

EditReply(i) ==
    /\ \E c \in replies[i] : c.text < MaxText
            /\ replies' = [replies EXCEPT ![i] = (@ \ {c}) \cup {[c EXCEPT !.text = @ + 1]}]
    /\ UNCHANGED <<open, paused, objective, pulls, lastReply, bots>>

DeleteReply(i) ==
    /\ \E c \in replies[i] : replies' = [replies EXCEPT ![i] = @ \ {c}]
    /\ UNCHANGED <<open, paused, objective, pulls, lastReply, bots>>

SetPaused(i) ==
    /\ paused' \in {paused \cup {i}, paused \ {i}}
    /\ UNCHANGED <<open, objective, replies, lastReply, pulls, bots>>

WriteObjective(i) ==
    /\ objective' = objective \cup {i}
    /\ UNCHANGED <<open, paused, pulls, replies, lastReply, bots>>

OpenPull(i) ==
    /\ pulls' = pulls \cup {i}
    /\ UNCHANGED <<open, objective, replies, lastReply, paused, bots>>

(* A merged pull request closes its issue unless the issue recurs.         *)
ClosePull(i, merged) ==
    /\ i \in pulls
    /\ pulls' = pulls \ {i}
    /\ open' = IF merged /\ i \notin Recurring THEN open \ {i} ELSE open
    /\ UNCHANGED <<paused, objective, replies, lastReply, bots>>

Lane     == \/ \E unknowns \in BOOLEAN, questions \in SUBSET Issues : Prepare(unknowns, questions)
            \/ Reserve \/ PrepareFails
            \/ \E outcome \in Outcomes, published \in BOOLEAN : SessionEnds(outcome, published)
Follower == \E f \in followers : \/ FollowerReads(f) \/ FollowerDecides(f) \/ FollowerCounts(f)
                                 \/ FollowerPauses(f) \/ FollowerDies(f)
People   == /\ acts < MaxActs /\ acts' = acts + 1
            /\ \E i \in Issues : \/ Reply(i) \/ EditReply(i) \/ DeleteReply(i) \/ SetPaused(i)
                                 \/ WriteObjective(i) \/ OpenPull(i)
                                 \/ \E merged \in BOOLEAN : ClosePull(i, merged)

Next == Lane \/ Follower \/ People
Spec == Init /\ [][Next]_vars
-----------------------------------------------------------------------------
(* Every variable keeps its type, and an asked issue is asked once.        *)
TypeOK ==
    /\ open \subseteq Issues /\ paused \subseteq Issues /\ objective \subseteq Issues
    /\ asked \subseteq Issues /\ pulls \subseteq Issues
    /\ replies \in [Issues -> SUBSET Replies]
    /\ lastReply \in [Issues -> 0..MaxReply]
    /\ hold \in [Issues -> Holds \cup {None}]
    /\ failures \in [Issues -> Nat] /\ acts \in 0..MaxActs
    /\ lane = Idle \/ lane \in Selections
    /\ followers \subseteq Followers
    /\ run \in 0..MaxRun
    /\ given \in [Issues -> SUBSET Replies] /\ spent \in [Issues -> SUBSET (Replies \cup {None})]
    /\ streak \in [Issues -> Nat] /\ raced \subseteq Issues

(* One reply permits one re-evaluation of a held issue, whatever becomes   *)
(* of the session and of its follower (reserve_selection).  The exception  *)
(* is an issue that was reserved while a follower was at work on it: the   *)
(* follower compares run numbers with what it read and then writes over    *)
(* the reservation, so that the reply counts as new once more.             *)
OneEvaluationPerReply ==
    [][(lane.phase = "prepared" /\ lane'.phase = "session" /\ lane.held)
         => lane.clarification \notin spent[lane.issue] \/ lane.issue \in raced]_vars

(* A reply that is newer than all that any session of the issue was given  *)
(* releases its hold: no answer is swallowed by a session that did not see *)
(* it, however the outcomes are recorded.                                  *)
NoReplyLost ==
    \A i \in Issues : \A c \in replies[i] :
        (\A d \in given[i] : d.id < c.id) => ~Waiting(i)

(* The recorded count never exceeds the failures since the last recorded   *)
(* delivery, so no issue is paused for less than Threshold of them; again  *)
(* unless a follower was overtaken by a later run of its issue.            *)
CountIsEarned ==
    /\ \A i \in Issues \ raced : failures[i] <= streak[i]
    /\ \A f \in followers : f.step = "counted" /\ f.issue \notin raced
                             => streak[f.issue] >= Threshold

(* "When no runnable task remains, no model is started" (docs/agentic-     *)
(* sessions.md): a run that starts no session leaves no issue that it      *)
(* could have worked on.                                                   *)
Runnable(i, unknowns) == Eligible(i) /\ ~Waiting(i) /\ Workable(i, unknowns) /\ i \notin pulls
IdleMeansNothingRunnable ==
    [][(run' # run /\ lane' = Idle) => \A i \in Issues : ~Runnable(i, FALSE)]_vars
=============================================================================
