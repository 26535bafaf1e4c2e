----------------------------- MODULE PullRework -----------------------------
(***************************************************************************)
(* A review that requests changes is dispatched to the lane of its pull    *)
(* request, and a status comment on the pull request says so until the run *)
(* of the lane replaces it by its outcome.  The comment is also the lock:  *)
(* while it is active and younger than TTL, further reviews are refused.   *)
(*                                                                         *)
(* Dispatchers of one pull request exclude one another, as do the runs of  *)
(* the Aider lane (see CodingTask) and the agentic runs of one pull        *)
(* request; each of these groups keeps one pending run and cancels a       *)
(* pending one when a newer arrives.  The clock ticks in units of the      *)
(* time limit of an Aider job, which is less than TTL.                     *)
(***************************************************************************)
EXTENDS CodingTask

CONSTANTS
    Agentic,   \* the branches of the agentic lane
    Opened,    \* the pull requests that are open at first, as numbers or None
    TTL,       \* the age up to which an active status comment counts
    RunLimit,  \* the time limit of a job
    MaxClock,  \* bound on the clock
    MaxActs    \* bound on what people do to the branches

ASSUME ReworkAssumption ==
    /\ Agentic \subseteq Branches /\ Opened \in [Branches -> (1..MaxPull) \cup {None}]
    /\ \A b, c \in Branches : b # c /\ Opened[b] = Opened[c] => Opened[b] = None
    /\ \A b \in Branches : Opened[b] # None =>
           Opened[b] <= Cardinality({c \in Branches : Opened[c] # None})
    /\ TTL \in Nat /\ RunLimit \in Nat /\ MaxClock \in Nat /\ MaxActs \in Nat

VARIABLES
    request,  \* the runs: their dispatcher, their job and their status comment
    eligible, \* branches whose issue is open and labelled azure-backlog
    clock,
    acts      \* what people have done so far

vars == <<task, request, eligible, clock, acts>>

(* A review has a dispatcher (step), a job in its lane, and a status       *)
(* comment (mark, posted at since).  start is the branch as the job found  *)
(* it; done is how far the job got, which is not written down anywhere:    *)
(* it found nothing to do, called the model, or pushed.                    *)
Unused == [kind |-> "unused", branch |-> None, number |-> None, force |-> FALSE,
           step |-> "none", job |-> "none", began |-> 0, start |-> {}, done |-> "none",
           mark |-> "none", since |-> 0]

Init == /\ pull = Opened /\ pulls = Cardinality({b \in Branches : pull[b] # None})
        /\ head = [b \in Branches |-> IF pull[b] = None THEN {} ELSE {0}]
        /\ paused = {} /\ work = None
        /\ request = [r \in Runs |-> Unused]
        /\ eligible = Branches /\ clock = 0 /\ acts = 0

Next1(r)    == request[r] = Unused /\ \A s \in Runs : s < r => request[s] # Unused
Target(r)   == request[r].branch
Step(r, to) == request' = [request EXCEPT ![r].step = to]
Live(r)     == request[r].job \in {"pending", "running"}
-----------------------------------------------------------------------------
(* The dispatcher of a review. *)
SamePull(r, s) == r # s /\ request[r].number # None /\ request[r].number = request[s].number

(* A newer review takes the place of one that waits for its dispatcher.    *)
Review(r, b) ==
    /\ Next1(r) /\ pull[b] # None
    /\ request' = [s \in Runs |->
           IF s = r THEN [Unused EXCEPT !.kind = "review", !.branch = b, !.number = pull[b],
                                        !.step = "waiting"]
           ELSE IF request[s].step = "waiting" /\ request[s].number = pull[b]
           THEN [request[s] EXCEPT !.step = "ended"] ELSE request[s]]
    /\ UNCHANGED <<task, eligible, clock, acts>>

(* Mutant: dispatchers of one pull request may overlap. *)
NeverBusy(r) == FALSE

DispatcherBusy(r) ==
    \E s \in Runs : SamePull(r, s) /\ request[s].step \in {"resolved", "marked", "failing"}

(* A cancelled or lost run cannot hold the pull request for ever.          *)
ActiveRework(r) ==
    \E s \in Runs : SamePull(r, s) /\ request[s].mark = "active" /\ clock - request[s].since <= TTL

Resolve(r) ==
    /\ request[r].step = "waiting" /\ ~DispatcherBusy(r)
    /\ Step(r, IF /\ pull[Target(r)] = request[r].number
                  /\ Target(r) \in eligible /\ ~ActiveRework(r)
               THEN "resolved" ELSE "ended")
    /\ UNCHANGED <<task, eligible, clock, acts>>

(* A call may fail after it took effect: then its comment has no owner.    *)
PostStatus(r, answered) ==
    /\ request[r].step = "resolved"
    /\ request' = [request EXCEPT ![r].mark = "active", ![r].since = clock,
                                  ![r].step = IF answered THEN "marked" ELSE "ended"]
    /\ UNCHANGED <<task, eligible, clock, acts>>

(* One job of a group runs and one is pending, which a newer job cancels.  *)
Group(q) == IF q.branch \in Agentic THEN q.number ELSE 0
Enqueue(runs, r) ==
    [s \in Runs |-> IF s = r THEN [runs[s] EXCEPT !.job = "pending"]
                    ELSE IF runs[s].job = "pending" /\ Group(runs[s]) = Group(runs[r])
                    THEN [runs[s] EXCEPT !.job = "cancelled"] ELSE runs[s]]

Dispatch(r, accepted, answered) ==
    /\ request[r].step = "marked"
    /\ answered => accepted
    /\ request' = [(IF accepted THEN Enqueue(request, r) ELSE request)
                      EXCEPT ![r].step = IF answered THEN "ended" ELSE "failing"]
    /\ UNCHANGED <<task, eligible, clock, acts>>

(* A status comment is replaced once, by the outcome of its own request.   *)
Finalized(r, outcome) == IF request[r].mark = "active" THEN outcome ELSE request[r].mark

MarkDispatchFailure(r) ==
    /\ request[r].step = "failing"
    /\ request' = [request EXCEPT ![r].mark = Finalized(r, "dispatch-failed"), ![r].step = "ended"]
    /\ UNCHANGED <<task, eligible, clock, acts>>

(* A call fails without effect, or the runner is lost.                     *)
DispatcherDies(r) ==
    /\ request[r].step \in {"waiting", "resolved", "marked", "failing"}
    /\ Step(r, "ended")
    /\ UNCHANGED <<task, eligible, clock, acts>>
-----------------------------------------------------------------------------
(* A job of the Aider lane, for a review or started by hand. *)
Manual(r, b, force) ==
    /\ Next1(r) /\ b \notin Agentic
    /\ LET started == [Unused EXCEPT !.kind = "manual", !.branch = b, !.force = force]
       IN  request' = Enqueue([request EXCEPT ![r] = started], r)
    /\ UNCHANGED <<task, eligible, clock, acts>>

(* An open issue yields a task only if it is selected: it has an objective *)
(* and a category, and if it is about unknown statuses the published       *)
(* snapshot has some.  The pause is ignored for a review.                  *)
HasTask(r, selected) ==
    /\ Target(r) \in eligible /\ selected
    /\ request[r].kind = "manual" => Target(r) \notin paused

(* Without a task the job succeeds. *)
AiderStarts(r, selected) ==
    /\ request[r].job = "pending" /\ Target(r) \notin Agentic /\ work = None
    /\ LET new == NewTask(r, Target(r), request[r].number,
                          request[r].kind = "review" \/ request[r].force)
       IN  work' = IF HasTask(r, selected) THEN new
                   ELSE [new EXCEPT !.phase = "exit", !.status = "success"]
    /\ request' = [request EXCEPT ![r].job = "running", ![r].began = clock,
                                  ![r].done = IF HasTask(r, selected) THEN @ ELSE "nothing"]
    /\ UNCHANGED <<head, pull, pulls, paused, eligible, clock, acts>>

(* How far the job is after a step of its task. *)
Reached == IF head' # head THEN "pushed"
           ELSE IF work.phase = "agent" THEN "called" ELSE request[work.run].done

AiderWorks ==
    /\ TaskStep \/ JobTimesOut
    /\ request' = [request EXCEPT ![work.run].done = Reached]
    /\ UNCHANGED <<eligible, clock, acts>>

(* The status of the job becomes that of the comment.  A runner that is    *)
(* lost, or a call that fails, leaves the comment as it is.                *)
AiderEnds(r, answered) ==
    /\ work # None /\ work.run = r
    /\ answered => work.phase = "exit"
    /\ work' = None
    /\ request' = [request EXCEPT ![r].job = "ended", ![r].began = 0,
                                  ![r].mark = IF answered THEN Finalized(r, work.status) ELSE @]
    /\ UNCHANGED <<head, pull, pulls, paused, eligible, clock, acts>>
-----------------------------------------------------------------------------
(* A job of the agentic lane.  If its checks of the pull request fail,     *)
(* nothing is left that could finalize the comment.                        *)
AgenticStarts(r, selected) ==
    /\ request[r].job = "pending" /\ Target(r) \in Agentic
    /\ ~\E s \in Runs : SamePull(r, s) /\ request[s].job = "running"
    /\ request' = [request EXCEPT
           ![r].job = IF pull[Target(r)] = request[r].number THEN "running" ELSE "ended",
           ![r].began = clock, ![r].start = head[Target(r)],
           ![r].done = IF HasTask(r, selected) THEN @ ELSE "nothing"]
    /\ UNCHANGED <<task, eligible, clock, acts>>

(* Only a fast-forward of the branch as it was checked out is published.   *)
AgenticPushes(r) ==
    /\ request[r].job = "running" /\ Target(r) \in Agentic /\ request[r].done = "none"
    /\ pull[Target(r)] = request[r].number /\ head[Target(r)] = request[r].start
    /\ head' = [head EXCEPT ![Target(r)] = @ \cup {r}]
    /\ request' = [request EXCEPT ![r].done = "pushed"]
    /\ UNCHANGED <<pull, pulls, paused, work, eligible, clock, acts>>

(* The agent, the threat detection and the safe outputs succeeded, one of  *)
(* them was cancelled, or one failed or was skipped.                       *)
Results == {"success", "cancelled", "failure"}

(* The commit that was pushed must be the head of the same pull request.   *)
Evaluate(r, jobs, followUp) ==
    LET same == pull[Target(r)] = request[r].number
        now  == head[Target(r)]
    IN  CASE jobs = "cancelled" -> "cancelled"
          [] /\ jobs = "success" /\ same
             /\ request[r].done = "pushed" /\ now = request[r].start \cup {r} -> "success"
          [] /\ jobs = "success" /\ same
             /\ followUp /\ now = request[r].start -> "follow-up-created"
          [] OTHER -> "blocked"

(* Without a task the agent is skipped. *)
AgenticEnds(r, jobs, followUp, answered) ==
    /\ request[r].job = "running" /\ Target(r) \in Agentic
    /\ jobs = "success" => request[r].done # "nothing"
    /\ request' = [request EXCEPT ![r].job = "ended", ![r].began = 0, ![r].start = {},
                       ![r].mark = IF answered THEN Finalized(r, Evaluate(r, jobs, followUp)) ELSE @]
    /\ UNCHANGED <<task, eligible, clock, acts>>
-----------------------------------------------------------------------------
(* People, and time.  A merge leaves nothing on the branch that the        *)
(* default branch does not have, and closes the issue.                     *)
PersonPushes(b, c) ==
    /\ pull[b] # None /\ c \notin head[b]
    /\ head' = [head EXCEPT ![b] = @ \cup {c}]
    /\ UNCHANGED <<pull, pulls, paused, work, request, eligible, clock>>

ClosePull(b, merged) ==
    /\ pull[b] # None
    /\ pull' = [pull EXCEPT ![b] = None]
    /\ head' = IF merged THEN [head EXCEPT ![b] = {}] ELSE head
    /\ eligible' = IF merged /\ b \notin Recurring THEN eligible \ {b} ELSE eligible
    /\ UNCHANGED <<pulls, paused, work, request, clock>>

Unpause(b) ==
    /\ paused' = paused \ {b}
    /\ UNCHANGED <<head, pull, pulls, work, request, eligible, clock>>

(* A job ends within its time limit; a dispatcher takes no time.           *)
Tick ==
    /\ clock < MaxClock /\ clock' = clock + 1
    /\ \A r \in Runs : /\ request[r].job = "running" => clock - request[r].began < RunLimit
                       /\ request[r].step \notin {"resolved", "marked", "failing"}
    /\ UNCHANGED <<task, request, eligible, acts>>

Dispatcher(r) ==
    \/ \E b \in Branches : Review(r, b)
    \/ Resolve(r) \/ MarkDispatchFailure(r) \/ DispatcherDies(r)
    \/ \E answered \in BOOLEAN : PostStatus(r, answered)
    \/ \E accepted, answered \in BOOLEAN : Dispatch(r, accepted, answered)
Job(r) ==
    \/ \E b \in Branches, force \in BOOLEAN : Manual(r, b, force)
    \/ \E selected \in BOOLEAN : AiderStarts(r, selected) \/ AgenticStarts(r, selected)
    \/ AgenticPushes(r)
    \/ \E answered \in BOOLEAN : AiderEnds(r, answered)
    \/ \E jobs \in Results, followUp, answered \in BOOLEAN :
           AgenticEnds(r, jobs, followUp, answered)
Acts == /\ acts < MaxActs /\ acts' = acts + 1
        /\ \/ \E b \in Branches, c \in People : PersonPushes(b, c)
           \/ \E b \in Branches, merged \in BOOLEAN : ClosePull(b, merged)
           \/ \E b \in paused : Unpause(b)

Next == (\E r \in Runs : Dispatcher(r) \/ Job(r)) \/ AiderWorks \/ Acts \/ Tick
Spec == Init /\ [][Next]_vars
-----------------------------------------------------------------------------
Marks == {"none", "active", "success", "failure", "cancelled", "dispatch-failed", "blocked",
          "follow-up-created"}

(* Every variable keeps its type. *)
TypeOK ==
    /\ TaskTypeOK
    /\ DOMAIN request = Runs
    /\ \A r \in Runs : LET q == request[r] IN
           /\ q.kind \in {"unused", "review", "manual"}
           /\ q.branch \in Branches \cup {None} /\ q.number \in (1..MaxPull) \cup {None}
           /\ q.step \in {"none", "waiting", "resolved", "marked", "failing", "ended"}
           /\ q.job \in {"none", "pending", "running", "ended", "cancelled"}
           /\ q.mark \in Marks /\ q.start \subseteq Commits
           /\ q.done \in {"none", "nothing", "called", "pushed"}
           /\ {q.began, q.since} \subseteq 0..MaxClock
    /\ eligible \subseteq Branches /\ clock \in 0..MaxClock /\ acts \in 0..MaxActs

(* Two reworks of one pull request are queued or at work together only if  *)
(* the younger was accepted more than TTL after the older (which may still *)
(* be pending, or at work), or if a dispatch was reported as failed that   *)
(* had in fact been accepted (resolve_rework_event, _active_rework_exists). *)
OneReworkPerPull ==
    \A r, s \in Runs :
        (SamePull(r, s) /\ Live(r) /\ Live(s) /\ request[r].since <= request[s].since)
        => \/ request[s].since - request[r].since > TTL
           \/ "dispatch-failed" \in {request[r].mark, request[s].mark}

Pushes == work # None /\ work.phase = "push" /\ head' # head
          /\ work' = [work EXCEPT !.phase = "publish"]

(* What a task pushes is what the tests last passed on, a repair included, *)
(* and with the commits it is pushed on top of it stays in scope.          *)
PushedIsTested ==
    [][Pushes => /\ work.tested = work.edits
                 /\ head'[work.branch] \cap Wide = {}]_vars

(* A rework never drops a commit that somebody pushed to the branch, also  *)
(* while the model was at work on it.                                      *)
PeopleKept ==
    [][(Pushes /\ work.existing # None) => head[work.branch] \subseteq head'[work.branch]]_vars

(* A status of success in the agentic lane means that the run pushed to    *)
(* the branch.  In the Aider lane, where it is the status of the job, it   *)
(* hides no failed work: the run pushed, or it never called the model,     *)
(* because the issue yields no task or its task does not validate          *)
(* (finalize_rework_status, _unsuccessful_rework_code).                    *)
StatusIsTrue ==
    \A r \in Runs : request[r].mark = "success" =>
        /\ request[r].done # "called"
        /\ Target(r) \in Agentic => request[r].done = "pushed"

(* "Use `force` only to deliberately update an existing Aider task branch" *)
(* (docs/agentic-sessions.md): a run without it leaves the branch of an    *)
(* open pull request alone.                                                *)
UnforcedKeepsBranch ==
    [][(Pushes /\ ~work.force) => pull[work.branch] = None]_vars
=============================================================================
