----------------------------- MODULE LaneProofs -----------------------------
(* Proofs about PullRework, for any branches, runs, people and bounds:     *)
(* what the Aider lane pushes, and what the status comments of both lanes  *)
(* claim.                                                                  *)
EXTENDS PullRework, FiniteSetTheorems, TLAPS

Numbers == (1..MaxPull) \cup {None}

Works ==
    [run : Runs, branch : Branches, required : Numbers, force : BOOLEAN, phase : Phases,
     existing : Numbers, lease : SUBSET Commits, base : SUBSET Commits, edits : 0..2, tested : 0..2,
     timedOut : BOOLEAN, repaired : BOOLEAN, status : {None, "success", "failure", "cancelled"}]

Requests ==
    [kind : {"unused", "review", "manual"}, branch : Branches \cup {None}, number : Numbers,
     force : BOOLEAN, step : {"none", "waiting", "resolved", "marked", "failing", "ended"},
     job : {"none", "pending", "running", "ended", "cancelled"}, began : 0..MaxClock,
     start : SUBSET Commits, done : {"none", "nothing", "called", "pushed"},
     mark : Marks, since : 0..MaxClock]

LaneTypeOK ==
    /\ head \in [Branches -> SUBSET Commits] /\ pull \in [Branches -> Numbers] /\ pulls \in 0..MaxPull
    /\ request \in [Runs -> Requests] /\ clock \in 0..MaxClock
    /\ work # None => work \in Works

(* Where a request stands says what its job can have done.                 *)
RequestSound(q) ==
    /\ q.kind = "unused" => q.step = "none" /\ q.job = "none"
    /\ q.kind # "unused" => q.branch \in Branches
    /\ q.kind = "review" <=> q.number # None
    /\ q.kind = "manual" => q.mark = "none" /\ q.step = "none"
    /\ q.step \in {"waiting", "resolved", "marked"} => q.job = "none"
    /\ q.job \in {"none", "pending"} => q.done = "none"
    /\ q.mark = "success" => /\ q.job = "ended" /\ q.done # "called"
                             /\ q.branch \in Agentic => q.done = "pushed"

RequestsSound == \A r \in Runs : RequestSound(request[r])

(* The task at work is that of a running job, which got as far as the      *)
(* phase of the task says; one that succeeds did not give up after its     *)
(* model was called.                                                       *)
TaskOfItsRun ==
    work # None =>
        LET q == request[work.run] IN
            /\ q.job = "running" /\ q.branch = work.branch /\ q.number = work.required
            /\ work.branch \notin Agentic
            /\ work.phase \in {"lookup", "checkout", "agent"} => q.done = "none"
            /\ work.phase \in {"test", "repair", "lint", "push"} => q.done = "called"
            /\ work.phase = "publish" => q.done = "pushed"
            /\ work.phase = "exit" /\ work.status = "success" /\ work.required # None =>
                   q.done # "called"

(* Tests saw the last edit, and a rework is based on what its lease names. *)
WorkSound ==
    work # None =>
        /\ work.phase \in {"lint", "push"} => work.tested = work.edits
        /\ work.required # None => work.force
        /\ work.phase = "lookup" => work.existing = None
        /\ work.existing = None => work.base = {}
        /\ work.existing # None /\ work.phase \in {"agent", "test", "repair", "lint", "push"} =>
               work.base = work.lease
        /\ work.phase \in {"lookup", "checkout", "agent"} => work.edits = 0
        /\ work.phase = "repair" => ~work.repaired
        /\ work.edits = 2 => work.repaired
        /\ work.tested <= work.edits
        /\ work.phase = "exit" => work.status \in {"success", "failure", "cancelled"}

(* The commit of a run is on a branch only if the run pushed.              *)
CommitsPushed ==
    \A b \in Branches, r \in Runs : r \in head[b] => request[r].done = "pushed"

Inv == LaneTypeOK /\ RequestsSound /\ TaskOfItsRun /\ WorkSound /\ CommitsPushed
-----------------------------------------------------------------------------
(* At first no request was made and every branch has an earlier commit.    *)
LEMMA Initially == Init => Inv
<1> SUFFICES ASSUME Init PROVE Inv
    OBVIOUS
<1> USE TaskAssumption, ReworkAssumption DEF Init
<1>1. pulls \in 0..MaxPull
    <2> DEFINE open == {b \in Branches : Opened[b] # None}
               number == [b \in open |-> Opened[b]]
    <2>1. IsFiniteSet(open) /\ pulls = Cardinality(open)
        BY FS_Subset, open \subseteq Branches
    <2>2. number \in Injection(open, 1..MaxPull)
        BY DEF Injection, IsInjective
    <2>3. IsFiniteSet(1..MaxPull) /\ Cardinality(1..MaxPull) = MaxPull
        BY FS_Interval
    <2>4. Cardinality(open) <= Cardinality(1..MaxPull)
        BY <2>2, <2>3, FS_Injection
    <2> QED
        BY <2>1, <2>3, <2>4, FS_CardinalityType
<1>2. head \in [Branches -> SUBSET Commits]
    BY DEF Commits
<1>3. pull \in [Branches -> Numbers]
    BY DEF Numbers
<1>4. Unused \in Requests
    BY DEF Unused, Requests, Numbers, Marks
<1>5. request \in [Runs -> Requests]
    BY <1>4
<1>6. RequestsSound
    BY DEF RequestsSound, RequestSound, Unused
<1>7. CommitsPushed
    BY DEF CommitsPushed
<1> QED
    BY <1>1, <1>2, <1>3, <1>5, <1>6, <1>7 DEF Inv, LaneTypeOK, TaskOfItsRun, WorkSound

(* A new job is pending, the older pending one of its group is cancelled,  *)
(* and nothing else changes.                                               *)
LEMMA Enqueued ==
    ASSUME NEW runs \in [Runs -> Requests], NEW r \in Runs
    PROVE  /\ Enqueue(runs, r) \in [Runs -> Requests]
           /\ \A s \in Runs : \/ Enqueue(runs, r)[s] = runs[s] /\ s # r
                              \/ Enqueue(runs, r)[s] = [runs[s] EXCEPT !.job = "pending"] /\ s = r
                              \/ /\ Enqueue(runs, r)[s] = [runs[s] EXCEPT !.job = "cancelled"]
                                 /\ s # r /\ runs[s].job = "pending"
BY DEF Enqueue, Requests

(* A step that leaves the branches and the task alone, and a running job   *)
(* of the Aider lane as it is.                                             *)
KeepsJob(p, q) == q.job = p.job /\ q.branch = p.branch /\ q.number = p.number /\ q.done = p.done

(* A step that only moves requests keeps the invariant, if it keeps what   *)
(* each request implies about its job.                                     *)
LEMMA OnlyRequests ==
    ASSUME Inv, UNCHANGED task, clock' \in 0..MaxClock, request' \in [Runs -> Requests],
           \A s \in Runs :
               \/ request'[s] = request[s]
               \/ /\ RequestSound(request'[s])
                  /\ request[s].job = "running" /\ request[s].branch \notin Agentic
                         => KeepsJob(request[s], request'[s])
                  /\ request[s].done = "pushed" => request'[s].done = "pushed"
    PROVE  Inv'
<1>1. LaneTypeOK'
    BY DEF Inv, LaneTypeOK, task
<1>2. RequestsSound'
    BY DEF Inv, RequestsSound, RequestSound
<1>3. TaskOfItsRun'
    <2> SUFFICES ASSUME work # None PROVE TaskOfItsRun'
        BY DEF task, TaskOfItsRun
    <2>1. work' = work /\ work.run \in Runs
        BY DEF task, Inv, LaneTypeOK, Works
    <2>2. request[work.run].job = "running" /\ request[work.run].branch \notin Agentic
        BY DEF Inv, TaskOfItsRun
    <2>3. KeepsJob(request[work.run], request'[work.run])
        BY <2>1, <2>2 DEF KeepsJob
    <2> QED
        BY <2>1, <2>3 DEF Inv, TaskOfItsRun, KeepsJob
<1>4. WorkSound'
    BY DEF Inv, WorkSound, task
<1>5. CommitsPushed'
    BY DEF Inv, CommitsPushed, task
<1> QED
    BY <1>1, <1>2, <1>3, <1>4, <1>5 DEF Inv

(* One request changes, and the others stay as they are.                   *)
LEMMA OneRequest ==
    ASSUME Inv, UNCHANGED task, clock' \in 0..MaxClock, NEW r \in Runs, NEW q \in Requests,
           request' = [request EXCEPT ![r] = q], RequestSound(q),
           request[r].job = "running" /\ request[r].branch \notin Agentic => KeepsJob(request[r], q),
           request[r].done = "pushed" => q.done = "pushed"
    PROVE  Inv'
<1>1. request \in [Runs -> Requests]
    BY DEF Inv, LaneTypeOK
<1>2. request' \in [Runs -> Requests] /\ \A s \in Runs : request'[s] = IF s = r THEN q ELSE request[s]
    BY <1>1
<1> QED
    BY <1>2, OnlyRequests

(* An accepted review waits, and the one that waited before it ends.       *)
LEMMA Accepted ==
    ASSUME Inv, NEW r \in Runs, NEW b \in Branches, Review(r, b)
    PROVE  Inv'
<1> USE TaskAssumption, ReworkAssumption
<1>0. request \in [Runs -> Requests] /\ clock \in 0..MaxClock /\ RequestsSound /\ pull \in [Branches -> Numbers]
    BY DEF Inv, LaneTypeOK
<1>1. UNCHANGED <<task, clock>> /\ pull[b] \in Numbers /\ pull[b] # None
    BY <1>0 DEF Review
<1>2. request[r] = Unused /\ Unused \in Requests
    BY <1>0 DEF Review, Next1
<1> DEFINE new == [Unused EXCEPT !.kind = "review", !.branch = b, !.number = pull[b], !.step = "waiting"]
<1>3. new \in Requests /\ RequestSound(new) /\ Unused.job = "none" /\ Unused.done = "none"
    BY <1>1, <1>2 DEF Unused, Requests, RequestSound
<1>4. \A s \in Runs : request'[s] \in Requests
    BY <1>0, <1>3 DEF Review, Requests
<1>5. request' \in [Runs -> Requests]
    BY <1>4 DEF Review
<1>6. \A s \in Runs : \/ request'[s] = request[s]
                      \/ s = r /\ request'[s] = new
                      \/ /\ request[s].step = "waiting" /\ s # r
                         /\ request'[s] = [request[s] EXCEPT !.step = "ended"]
    BY DEF Review
<1>7. ASSUME NEW s \in Runs, request[s].step = "waiting",
             request'[s] = [request[s] EXCEPT !.step = "ended"]
      PROVE  RequestSound(request'[s]) /\ KeepsJob(request[s], request'[s])
    <2>1. request[s] \in Requests /\ RequestSound(request[s])
        BY <1>0 DEF RequestsSound
    <2> QED
        BY <1>7, <2>1 DEF Requests, RequestSound, KeepsJob
<1> QED
    BY <1>0, <1>1, <1>2, <1>3, <1>5, <1>6, <1>7, OnlyRequests DEF KeepsJob

(* The dispatcher of an accepted review resolves it, posts its status, and *)
(* says so if it cannot dispatch.                                          *)
LEMMA Dispatched ==
    ASSUME Inv, NEW r \in Runs,
           \/ Resolve(r) \/ MarkDispatchFailure(r) \/ DispatcherDies(r)
           \/ \E answered \in BOOLEAN : PostStatus(r, answered)
    PROVE  Inv'
<1> USE TaskAssumption, ReworkAssumption
<1>0. request \in [Runs -> Requests] /\ clock \in 0..MaxClock
    BY DEF Inv, LaneTypeOK
<1>1. UNCHANGED <<task, clock>>
    BY DEF Resolve, MarkDispatchFailure, DispatcherDies, PostStatus
<1>2. request[r] \in Requests /\ RequestSound(request[r])
    BY <1>0 DEF Inv, RequestsSound
<1>3. ASSUME NEW to \in {"resolved", "ended"}, Step(r, to),
             request[r].step \in {"waiting", "resolved", "marked", "failing"},
             to = "resolved" => request[r].step = "waiting"
      PROVE  Inv'
    <2> DEFINE q == [request[r] EXCEPT !.step = to]
    <2>1. request' = [request EXCEPT ![r] = q]
        BY <1>3 DEF Step
    <2>2. q \in Requests /\ RequestSound(q) /\ KeepsJob(request[r], q)
        BY <1>2, <1>3 DEF Requests, RequestSound, KeepsJob
    <2> QED
        BY <1>0, <1>1, <2>1, <2>2, OneRequest DEF KeepsJob
<1>4. CASE Resolve(r)
    BY <1>3, <1>4 DEF Resolve
<1>5. CASE DispatcherDies(r)
    BY <1>3, <1>5 DEF DispatcherDies
<1>6. CASE MarkDispatchFailure(r)
    <2> DEFINE q == [request[r] EXCEPT !.mark = Finalized(r, "dispatch-failed"), !.step = "ended"]
    <2>1. request' = [request EXCEPT ![r] = q] /\ request[r].step = "failing"
        BY <1>0, <1>6 DEF MarkDispatchFailure
    <2>2. Finalized(r, "dispatch-failed") \in {"dispatch-failed", request[r].mark}
        BY DEF Finalized
    <2>3. /\ q \in Requests /\ q.mark = Finalized(r, "dispatch-failed") /\ q.step = "ended"
          /\ q.kind = request[r].kind /\ KeepsJob(request[r], q)
        BY <1>2, <2>1, <2>2 DEF Requests, KeepsJob, Marks
    <2> HIDE DEF q
    <2>4. RequestSound(q)
        BY <1>2, <2>1, <2>2, <2>3 DEF RequestSound, KeepsJob
    <2> QED
        BY <1>0, <1>1, <2>1, <2>3, <2>4, OneRequest DEF KeepsJob
<1>7. ASSUME NEW answered \in BOOLEAN, PostStatus(r, answered)
      PROVE  Inv'
    <2> DEFINE q == [request[r] EXCEPT !.mark = "active", !.since = clock,
                                       !.step = IF answered THEN "marked" ELSE "ended"]
    <2>1. request' = [request EXCEPT ![r] = q] /\ request[r].step = "resolved"
        BY <1>0, <1>7 DEF PostStatus
    <2>2. q \in Requests /\ RequestSound(q) /\ KeepsJob(request[r], q)
        BY <1>0, <1>2, <2>1 DEF Requests, RequestSound, KeepsJob, Marks
    <2> QED
        BY <1>0, <1>1, <2>1, <2>2, OneRequest DEF KeepsJob
<1> QED
    BY <1>4, <1>5, <1>6, <1>7

(* An accepted dispatch makes the job of the lane pending.                 *)
LEMMA Sent ==
    ASSUME Inv, NEW r \in Runs, NEW accepted \in BOOLEAN, NEW answered \in BOOLEAN,
           Dispatch(r, accepted, answered)
    PROVE  Inv'
<1>0. request \in [Runs -> Requests] /\ clock \in 0..MaxClock /\ UNCHANGED <<task, clock>>
    BY DEF Inv, LaneTypeOK, Dispatch
<1>1. \A s \in Runs : request[s] \in Requests /\ RequestSound(request[s])
    BY <1>0 DEF Inv, RequestsSound
<1> DEFINE mid == IF accepted THEN Enqueue(request, r) ELSE request
           to == IF answered THEN "ended" ELSE "failing"
<1>2. request[r].step = "marked" /\ request' = [mid EXCEPT ![r].step = to]
    BY DEF Dispatch
<1>3. /\ mid \in [Runs -> Requests]
      /\ \A s \in Runs : \/ mid[s] = request[s]
                         \/ mid[s] = [request[s] EXCEPT !.job = "pending"] /\ s = r
                         \/ /\ mid[s] = [request[s] EXCEPT !.job = "cancelled"]
                            /\ s # r /\ request[s].job = "pending"
    <2>1. CASE accepted
        <3>1. /\ Enqueue(request, r) \in [Runs -> Requests]
              /\ \A s \in Runs : \/ Enqueue(request, r)[s] = request[s]
                                 \/ Enqueue(request, r)[s] = [request[s] EXCEPT !.job = "pending"] /\ s = r
                                 \/ /\ Enqueue(request, r)[s] = [request[s] EXCEPT !.job = "cancelled"]
                                    /\ s # r /\ request[s].job = "pending"
            BY <1>0 DEF Enqueue, Requests
        <3> QED
            BY <2>1, <3>1
    <2>2. CASE ~accepted
        BY <1>0, <2>2
    <2> QED
        BY <2>1, <2>2
<1>4. request' = [mid EXCEPT ![r] = [mid[r] EXCEPT !.step = to]]
    BY <1>2
<1>5. request' \in [Runs -> Requests]
    <2>1. [mid[r] EXCEPT !.step = to] \in Requests
        BY <1>3 DEF Requests
    <2> HIDE DEF mid
    <2> QED
        BY <1>3, <1>4, <2>1
<1>6. /\ RequestSound(request'[r]) /\ request'[r].done = request[r].done
      /\ request[r].job # "running"
    <2>1. request[r].job = "none" /\ request[r].done = "none"
        BY <1>1, <1>2 DEF RequestSound
    <2>2. request'[r] = [mid[r] EXCEPT !.step = to]
        BY <1>3, <1>4
    <2>3. \/ mid[r] = request[r]
          \/ mid[r] = [request[r] EXCEPT !.job = "pending"]
        BY <1>3
    <2>4. to \in {"ended", "failing"}
        OBVIOUS
    <2> HIDE DEF mid, to
    <2> QED
        BY <1>1, <1>2, <2>1, <2>2, <2>3, <2>4 DEF Requests, RequestSound
<1>7. ASSUME NEW s \in Runs, s # r
      PROVE  \/ request'[s] = request[s]
             \/ /\ RequestSound(request'[s]) /\ request'[s].done = request[s].done
                /\ request[s].job # "running"
    <2>1. request'[s] = mid[s]
        BY <1>3, <1>4, <1>7
    <2>2. CASE mid[s] = request[s]
        BY <2>1, <2>2
    <2>3. CASE mid[s] = [request[s] EXCEPT !.job = "cancelled"] /\ request[s].job = "pending"
        <3> HIDE DEF mid
        <3> QED
            BY <1>1, <2>1, <2>3 DEF Requests, RequestSound
    <2> QED
        BY <1>3, <1>7, <2>2, <2>3
<1> QED
    BY <1>0, <1>5, <1>6, <1>7, OnlyRequests

(* A dispatcher accepts, resolves, marks, dispatches, or ends.             *)
LEMMA DispatcherStep ==
    ASSUME Inv, NEW r \in Runs, Dispatcher(r)
    PROVE  Inv'
BY Accepted, Dispatched, Sent DEF Dispatcher
-----------------------------------------------------------------------------
(* A job that is started by hand is pending from the start.                *)
LEMMA ByHand ==
    ASSUME Inv, NEW r \in Runs, NEW b \in Branches, NEW force \in BOOLEAN, Manual(r, b, force)
    PROVE  Inv'
<1> USE TaskAssumption
<1>0. request \in [Runs -> Requests] /\ clock \in 0..MaxClock /\ UNCHANGED <<task, clock>>
    BY DEF Inv, LaneTypeOK, Manual
<1>1. \A s \in Runs : request[s] \in Requests /\ RequestSound(request[s])
    BY <1>0 DEF Inv, RequestsSound
<1> DEFINE started == [Unused EXCEPT !.kind = "manual", !.branch = b, !.force = force]
           first == [request EXCEPT ![r] = started]
<1>2. request[r] = Unused /\ request' = Enqueue(first, r)
    BY DEF Manual, Next1
<1>3. started \in Requests /\ request[r].job = "none" /\ request[r].done = "none"
    <2>1. Unused \in Requests
        BY <1>1, <1>2
    <2>2. started \in Requests
        BY <2>1 DEF Requests
    <2> QED
        BY <1>2, <2>2 DEF Unused
<1>4. RequestSound([started EXCEPT !.job = "pending"])
    BY DEF RequestSound, Unused
<1>5. first \in [Runs -> Requests] /\ first[r] = started /\ \A s \in Runs \ {r} : first[s] = request[s]
    BY <1>0, <1>3
<1> HIDE DEF first, started
<1>6. request' \in [Runs -> Requests]
    BY <1>2, <1>5, Enqueued
<1>7. ASSUME NEW s \in Runs
      PROVE  \/ request'[s] = request[s]
             \/ request'[s] = [started EXCEPT !.job = "pending"] /\ s = r
             \/ /\ request'[s] = [request[s] EXCEPT !.job = "cancelled"]
                /\ request[s].job = "pending"
    <2>1. \/ request'[s] = first[s] /\ s # r
          \/ request'[s] = [first[s] EXCEPT !.job = "pending"] /\ s = r
          \/ /\ request'[s] = [first[s] EXCEPT !.job = "cancelled"]
             /\ s # r /\ first[s].job = "pending"
        BY <1>2, <1>5 DEF Enqueue
    <2> QED
        BY <1>5, <2>1
<1>8. ASSUME NEW s \in Runs, request[s].job = "pending",
             request'[s] = [request[s] EXCEPT !.job = "cancelled"]
      PROVE  RequestSound(request'[s]) /\ request'[s].done = request[s].done
    BY <1>1, <1>8 DEF Requests, RequestSound
<1> QED
    BY <1>0, <1>3, <1>4, <1>6, <1>7, <1>8, OnlyRequests

(* A job of the agentic lane starts.                                       *)
LEMMA AgenticBegins ==
    ASSUME Inv, NEW r \in Runs, NEW selected \in BOOLEAN, AgenticStarts(r, selected)
    PROVE  Inv'
<1> USE TaskAssumption, ReworkAssumption
<1>0. request \in [Runs -> Requests] /\ clock \in 0..MaxClock /\ UNCHANGED <<task, clock>>
    BY DEF Inv, LaneTypeOK, AgenticStarts
<1>1. request[r] \in Requests /\ RequestSound(request[r])
    BY <1>0 DEF Inv, RequestsSound
<1> DEFINE job == IF pull[Target(r)] = request[r].number THEN "running" ELSE "ended"
           done == IF HasTask(r, selected) THEN request[r].done ELSE "nothing"
           q == [request[r] EXCEPT !.job = job, !.began = clock, !.start = head[Target(r)], !.done = done]
<1>2. request' = [request EXCEPT ![r] = q]
    BY <1>0 DEF AgenticStarts
<1>3. request[r].job = "pending" /\ head[Target(r)] \in SUBSET Commits
    BY DEF Inv, LaneTypeOK, AgenticStarts
<1>4. request[r].done = "none"
    BY <1>1, <1>3 DEF RequestSound
<1>5. job \in {"running", "ended"} /\ done \in {"none", "nothing"}
    BY <1>4
<1>6. q \in Requests /\ RequestSound(q)
    <2> HIDE DEF job, done
    <2> QED
        BY <1>0, <1>1, <1>3, <1>4, <1>5 DEF Requests, RequestSound
<1> HIDE DEF q
<1> QED
    BY <1>0, <1>2, <1>3, <1>4, <1>6, OneRequest

(* It pushes on top of the branch as it was checked out.                   *)
LEMMA AgenticCommits ==
    ASSUME Inv, NEW r \in Runs, AgenticPushes(r)
    PROVE  Inv'
<1> USE TaskAssumption, ReworkAssumption
<1>0. /\ request \in [Runs -> Requests] /\ head \in [Branches -> SUBSET Commits]
      /\ Target(r) \in Agentic /\ request[r].job = "running" /\ r \in Commits
    BY DEF Inv, LaneTypeOK, AgenticPushes, Commits
<1>1. request[r] \in Requests /\ RequestSound(request[r])
    BY <1>0 DEF Inv, RequestsSound
<1> DEFINE q == [request[r] EXCEPT !.done = "pushed"]
<1>2. request' = [request EXCEPT ![r] = q] /\ q \in Requests /\ RequestSound(q) /\ q.done = "pushed"
    BY <1>0, <1>1 DEF AgenticPushes, Requests, RequestSound
<1> HIDE DEF q
<1>3. request' \in [Runs -> Requests] /\ \A s \in Runs : request'[s] = IF s = r THEN q ELSE request[s]
    BY <1>0, <1>2
<1>4. head' \in [Branches -> SUBSET Commits] /\ \A b \in Branches : head'[b] \subseteq head[b] \cup {r}
    BY <1>0 DEF AgenticPushes
<1>5. UNCHANGED <<pull, pulls, work, clock>>
    BY DEF AgenticPushes
<1>6. LaneTypeOK' /\ RequestsSound' /\ WorkSound'
    BY <1>2, <1>3, <1>4, <1>5 DEF Inv, LaneTypeOK, RequestsSound, RequestSound, WorkSound
<1>7. CommitsPushed'
    BY <1>2, <1>3, <1>4 DEF Inv, CommitsPushed
<1>8. TaskOfItsRun'
    BY <1>0, <1>3, <1>5 DEF Inv, LaneTypeOK, Works, TaskOfItsRun, Target
<1> QED
    BY <1>6, <1>7, <1>8 DEF Inv

(* Its outcome is a success only if its own commit is the branch's head.   *)
LEMMA AgenticFinishes ==
    ASSUME Inv, NEW r \in Runs, NEW jobs \in Results, NEW followUp \in BOOLEAN,
           NEW answered \in BOOLEAN, AgenticEnds(r, jobs, followUp, answered)
    PROVE  Inv'
<1> USE TaskAssumption, ReworkAssumption
<1>0. request \in [Runs -> Requests] /\ clock \in 0..MaxClock /\ UNCHANGED <<task, clock>>
    BY DEF Inv, LaneTypeOK, AgenticEnds
<1>1. request[r] \in Requests /\ RequestSound(request[r])
    BY <1>0 DEF Inv, RequestsSound
<1> DEFINE mark == IF answered THEN Finalized(r, Evaluate(r, jobs, followUp)) ELSE request[r].mark
           q == [request[r] EXCEPT !.job = "ended", !.began = 0, !.start = {}, !.mark = mark]
<1>2. request' = [request EXCEPT ![r] = q] /\ request[r].job = "running" /\ request[r].branch \in Agentic
    BY <1>0 DEF AgenticEnds, Target
<1>zero. 0 \in 0..MaxClock
    BY <1>0
<1>3. \/ mark = request[r].mark
      \/ mark = "success" /\ request[r].done = "pushed" /\ request[r].mark = "active"
      \/ mark \in {"cancelled", "follow-up-created", "blocked"} /\ request[r].mark = "active"
    BY DEF Finalized, Evaluate
<1>4. q \in Requests /\ RequestSound(q) /\ q.done = request[r].done
    <2> HIDE DEF mark
    <2>1. mark \in Marks
        BY <1>1, <1>3 DEF Requests, Marks
    <2>2. /\ q \in Requests /\ q.mark = mark /\ q.job = "ended" /\ q.done = request[r].done
          /\ q.kind = request[r].kind /\ q.branch = request[r].branch
          /\ q.number = request[r].number /\ q.step = request[r].step
        BY <1>zero, <1>1, <2>1 DEF Requests
    <2> HIDE DEF q
    <2>3. RequestSound(q)
        BY <1>1, <1>2, <1>3, <2>2 DEF RequestSound
    <2> QED
        BY <2>2, <2>3
<1> HIDE DEF q
<1> QED
    BY <1>0, <1>2, <1>4, OneRequest
-----------------------------------------------------------------------------
(* The Aider lane takes the pending job, with or without a task.           *)
LEMMA AiderBegins ==
    ASSUME Inv, NEW r \in Runs, NEW selected \in BOOLEAN, AiderStarts(r, selected)
    PROVE  Inv'
<1> USE TaskAssumption, ReworkAssumption
<1>0. /\ request \in [Runs -> Requests] /\ clock \in 0..MaxClock /\ head \in [Branches -> SUBSET Commits]
      /\ UNCHANGED <<head, pull, pulls, clock>>
    BY DEF Inv, LaneTypeOK, AiderStarts
<1>1. request[r] \in Requests /\ RequestSound(request[r])
    BY <1>0 DEF Inv, RequestsSound
<1> DEFINE done == IF HasTask(r, selected) THEN request[r].done ELSE "nothing"
           q == [request[r] EXCEPT !.job = "running", !.began = clock, !.done = done]
           force == request[r].kind = "review" \/ request[r].force
<1>2. /\ request' = [request EXCEPT ![r] = q]
      /\ request[r].job = "pending" /\ request[r].branch \notin Agentic /\ work = None
    BY <1>0 DEF AiderStarts, Target
<1>3. /\ request[r].done = "none" /\ request[r].branch \in Branches /\ request[r].number \in Numbers
      /\ force \in BOOLEAN /\ (request[r].number # None => force)
    BY <1>1, <1>2 DEF RequestSound, Requests
<1>4. done \in {"none", "nothing"} /\ (HasTask(r, selected) => done = "none") /\ (~HasTask(r, selected) => done = "nothing")
    BY <1>3
<1>5. q \in Requests /\ RequestSound(q) /\ q.job = "running" /\ q.done = done
      /\ q.branch = request[r].branch /\ q.number = request[r].number
    <2> HIDE DEF done, force
    <2> QED
        BY <1>0, <1>1, <1>2, <1>3, <1>4 DEF Requests, RequestSound
<1> DEFINE new == NewTask(r, request[r].branch, request[r].number, force)
<1>6. work' = IF HasTask(r, selected) THEN new ELSE [new EXCEPT !.phase = "exit", !.status = "success"]
    BY DEF AiderStarts, Target
<1>7. /\ work' \in Works /\ work'.run = r /\ work'.branch = request[r].branch
      /\ work'.required = request[r].number /\ work'.force = force
      /\ work'.existing = None /\ work'.base = {} /\ work'.edits = 0 /\ work'.tested = 0
      /\ work'.phase = "exit" => work'.status = "success"
      /\ work'.phase = IF HasTask(r, selected) THEN "lookup" ELSE "exit"
    <2>1. /\ new \in Works /\ new.run = r /\ new.branch = request[r].branch /\ new.phase = "lookup"
          /\ new.required = request[r].number /\ new.force = force
          /\ new.existing = None /\ new.base = {} /\ new.edits = 0 /\ new.tested = 0
        BY <1>0, <1>3 DEF NewTask, Works, Numbers, Phases
    <2> HIDE DEF new, force
    <2>2. CASE HasTask(r, selected)
        BY <1>6, <2>1, <2>2
    <2>3. CASE ~HasTask(r, selected)
        <3>1. work' = [new EXCEPT !.phase = "exit", !.status = "success"]
            BY <1>6, <2>3
        <3> QED
            BY <2>1, <2>3, <3>1 DEF Works, Phases
    <2> QED
        BY <2>2, <2>3
<1> HIDE DEF q, done, force, new
<1>8. request' \in [Runs -> Requests] /\ \A s \in Runs : request'[s] = IF s = r THEN q ELSE request[s]
    BY <1>0, <1>2, <1>5
<1>9. LaneTypeOK' /\ RequestsSound'
    BY <1>0, <1>5, <1>7, <1>8 DEF Inv, LaneTypeOK, RequestsSound, RequestSound
<1>10. TaskOfItsRun' /\ WorkSound'
    BY <1>2, <1>3, <1>4, <1>5, <1>7, <1>8 DEF TaskOfItsRun, WorkSound
<1>11. CommitsPushed'
    BY <1>0, <1>3, <1>8 DEF Inv, CommitsPushed
<1> QED
    BY <1>9, <1>10, <1>11 DEF Inv

(* The status of the task becomes that of the request's comment.           *)
LEMMA AiderFinishes ==
    ASSUME Inv, NEW r \in Runs, NEW answered \in BOOLEAN, AiderEnds(r, answered)
    PROVE  Inv'
<1> USE TaskAssumption, ReworkAssumption
<1>0. /\ request \in [Runs -> Requests] /\ clock \in 0..MaxClock /\ head \in [Branches -> SUBSET Commits]
      /\ UNCHANGED <<head, pull, pulls, clock>> /\ work' = None /\ work # None /\ work \in Works
      /\ work.run = r /\ (answered => work.phase = "exit")
    BY DEF Inv, LaneTypeOK, AiderEnds
<1>1. request[r] \in Requests /\ RequestSound(request[r])
    BY <1>0 DEF Inv, RequestsSound
<1> DEFINE mark == IF answered THEN Finalized(r, work.status) ELSE request[r].mark
           q == [request[r] EXCEPT !.job = "ended", !.began = 0, !.mark = mark]
<1>2. request' = [request EXCEPT ![r] = q]
    BY <1>0 DEF AiderEnds
<1>3. request[r].job = "running" /\ request[r].number = work.required
    BY <1>0 DEF Inv, TaskOfItsRun
<1>4. \/ mark = request[r].mark
      \/ mark = work.status /\ request[r].mark = "active" /\ work.phase = "exit"
    BY <1>0 DEF Finalized
<1>5. request[r].mark = "active" => work.required # None
    BY <1>1, <1>3 DEF RequestSound, Requests
<1>6. work.phase = "exit" /\ work.status = "success" /\ work.required # None
          => request[r].done # "called"
    BY <1>0 DEF Inv, TaskOfItsRun
<1>7. work.phase = "exit" => work.status \in {"success", "failure", "cancelled"}
    BY <1>0 DEF Inv, WorkSound
<1>zero. 0 \in 0..MaxClock
    BY <1>0
<1>8. mark \in Marks
    BY <1>1, <1>4, <1>7 DEF Requests, Marks
<1>9. mark = "success" => /\ request[r].done # "called"
                          /\ request[r].branch \in Agentic => request[r].done = "pushed"
    <2>1. request[r].branch \notin Agentic
        BY <1>0 DEF Inv, TaskOfItsRun
    <2> QED
        BY <1>1, <1>4, <1>5, <1>6, <2>1 DEF RequestSound
<1>10. request[r].kind = "manual" => mark = "none"
    BY <1>1, <1>4 DEF RequestSound
<1>11. q \in Requests /\ RequestSound(q) /\ q.done = request[r].done
    <2> HIDE DEF mark
    <2> QED
        BY <1>zero, <1>1, <1>3, <1>8, <1>9, <1>10 DEF Requests, RequestSound
<1> HIDE DEF q
<1>12. request' \in [Runs -> Requests] /\ \A s \in Runs : request'[s] = IF s = r THEN q ELSE request[s]
    BY <1>0, <1>2, <1>11
<1>13. LaneTypeOK' /\ RequestsSound' /\ CommitsPushed'
    BY <1>0, <1>11, <1>12 DEF Inv, LaneTypeOK, RequestsSound, RequestSound, CommitsPushed
<1> QED
    BY <1>0, <1>13 DEF Inv, TaskOfItsRun, WorkSound
-----------------------------------------------------------------------------
SameTask ==
    /\ work' \in Works /\ work'.run = work.run /\ work'.branch = work.branch
    /\ work'.required = work.required /\ work'.force = work.force

(* The phases in which the model was not called yet, and those after it.   *)
Before == {"lookup", "checkout", "agent"}
After  == {"test", "repair", "lint", "push"}

(* A task goes on without the branches, or fails, or succeeds without a    *)
(* push only if no pull request was asked for or no model was called.      *)
GoesOn ==
    /\ UNCHANGED <<head, pull, pulls>>
    /\ work.phase \in Before \cup After /\ work'.phase # "publish"
    /\ work'.phase \in Before => work.phase \in {"lookup", "checkout"}
    /\ work'.phase \in After => work.phase \in {"agent"} \cup After
    /\ work'.phase = "exit" /\ work'.status = "success" => work.required = None \/ work.phase = "lookup"

(* A step before the push leaves the branches alone.                       *)
LEMMA TaskGoesOn ==
    ASSUME work \in Works, work # None, WorkSound, pull \in [Branches -> Numbers],
           \/ \E valid, answered \in BOOLEAN : Lookup(valid, answered)
           \/ Checkout \/ CheckoutFails \/ PushFails
           \/ \E launched \in BOOLEAN : AgentFails(launched)
           \/ \E edit \in Edits, b \in BOOLEAN : AgentEnds(edit, b) \/ Repair(edit, b)
           \/ \E pass \in BOOLEAN : Test(pass) \/ Lint(pass),
           head \in [Branches -> SUBSET Commits]
    PROVE  SameTask /\ GoesOn /\ WorkSound'
<1>1. Unsuccessful \in {"success", "failure"} /\ (Unsuccessful = "success" => work.required = None)
    BY DEF Unsuccessful
<1>2. ASSUME NEW status \in {"success", "failure"},
             status = "success" => work.required = None \/ work.phase = "lookup",
             Exits(status), work.phase \in Before \cup After, UNCHANGED <<head, pull, pulls>>
      PROVE  SameTask /\ GoesOn /\ WorkSound'
    BY <1>2 DEF Exits, SameTask, GoesOn, Before, After, WorkSound, Works, Phases
<1>3. ASSUME NEW valid \in BOOLEAN, NEW answered \in BOOLEAN, Lookup(valid, answered)
      PROVE  SameTask /\ GoesOn /\ WorkSound'
    <2> DEFINE existing == IF answered THEN pull[work.branch] ELSE None
    <2>1. At("lookup") /\ UNCHANGED <<head, pull, pulls>> /\ existing \in Numbers
        BY <1>3 DEF Lookup, Remote, Works, Numbers
    <2>2. work.required # None => work.force
        BY DEF WorkSound
    <2>3. CASE ~valid
        <3>1. Exits("success") /\ work.phase = "lookup"
            BY <1>3, <2>3 DEF Lookup, Exits, At
        <3> QED
            BY <1>2, <2>1, <3>1 DEF Before
    <2>4. CASE valid /\ work.required # None /\ existing # work.required
        <3>1. Exits("failure") /\ work.phase = "lookup"
            BY <1>3, <2>2, <2>4 DEF Lookup, Exits, At
        <3> QED
            BY <1>2, <2>1, <3>1 DEF Before
    <2>5. CASE valid /\ ~(work.required # None /\ existing # work.required) /\ existing # None /\ ~work.force
        <3>1. Exits("success") /\ work.phase = "lookup"
            BY <1>3, <2>5 DEF Lookup, Exits, At
        <3> QED
            BY <1>2, <2>1, <3>1 DEF Before
    <2>6. CASE /\ valid /\ ~(work.required # None /\ existing # work.required)
               /\ ~(existing # None /\ ~work.force)
        <3>1. work' = [work EXCEPT !.existing = existing, !.phase = "checkout"] /\ work.phase = "lookup"
            BY <1>3, <2>6 DEF Lookup, Exits, At
        <3>2. work.base = {}
            BY <3>1 DEF WorkSound
        <3> QED
            BY <2>1, <3>1, <3>2 DEF SameTask, GoesOn, Before, After, WorkSound, Works, Phases
    <2> QED
        BY <2>3, <2>4, <2>5, <2>6
<1>4. ASSUME Checkout
      PROVE  SameTask /\ GoesOn /\ WorkSound'
    <2>1. work.phase = "checkout" /\ UNCHANGED <<head, pull, pulls>> /\ head[work.branch] \subseteq Commits
        BY <1>4 DEF Checkout, At, Remote, Works
    <2>2. CASE work.existing = None
        <3>1. work' = [work EXCEPT !.phase = "agent"]
            BY <1>4, <2>2 DEF Checkout
        <3> QED
            BY <2>1, <2>2, <3>1 DEF SameTask, GoesOn, Before, After, WorkSound, Works, Phases
    <2>3. CASE work.existing # None
        <3>1. work' = [work EXCEPT !.phase = "agent", !.lease = head[work.branch],
                                   !.base = head[work.branch]]
            BY <1>4, <2>3 DEF Checkout
        <3> QED
            BY <2>1, <2>3, <3>1 DEF SameTask, GoesOn, Before, After, WorkSound, Works, Phases
    <2> QED
        BY <2>2, <2>3
<1>5. ASSUME CheckoutFails \/ PushFails \/ \E launched \in BOOLEAN : AgentFails(launched)
      PROVE  SameTask /\ GoesOn /\ WorkSound'
    <2>1. UNCHANGED <<head, pull, pulls>> /\ work.phase \in {"checkout", "push", "agent"}
        BY <1>5 DEF CheckoutFails, PushFails, AgentFails, At, Remote
    <2>2. Exits(Unsuccessful) \/ Exits("failure")
        BY <1>5 DEF CheckoutFails, PushFails, AgentFails, Exits
    <2> QED
        BY <1>1, <1>2, <2>1, <2>2 DEF Before, After
<1>6. ASSUME NEW edit \in Edits, NEW timedOut \in BOOLEAN, AgentEnds(edit, timedOut)
      PROVE  SameTask /\ GoesOn /\ WorkSound'
    <2>1. work.phase = "agent" /\ UNCHANGED <<head, pull, pulls>>
        BY <1>6 DEF AgentEnds, At, Remote
    <2>2. CASE edit # "scope"
        <3>1. Exits(Unsuccessful)
            BY <1>6, <2>2 DEF AgentEnds, Edits, Exits, Pauses
        <3> QED
            BY <1>1, <1>2, <2>1, <3>1 DEF Before, After
    <2>3. CASE edit = "scope"
        <3>1. work' = [work EXCEPT !.phase = "test", !.edits = 1, !.timedOut = timedOut]
            BY <1>6, <2>3 DEF AgentEnds, Edits, Exits, Pauses
        <3>2. SameTask
            <4>1. 1 \in 0..2 /\ timedOut \in BOOLEAN
                BY <1>6
            <4>2. [work EXCEPT !.phase = "test", !.edits = 1, !.timedOut = timedOut] \in Works
                BY <4>1 DEF Works, Phases
            <4> QED
                BY <3>1, <4>2 DEF SameTask, Works
        <3>3. work'.edits = 1 /\ work'.tested = work.tested /\ work.tested <= 0 /\ work.tested \in 0..2
              /\ work'.phase = "test" /\ work'.existing = work.existing
              /\ work'.base = work.base /\ work'.lease = work.lease
            BY <2>1, <3>1 DEF Works, WorkSound
        <3> QED
            BY <2>1, <3>2, <3>3 DEF GoesOn, Before, After, WorkSound, SameTask
    <2> QED
        BY <2>2, <2>3
<1>7. ASSUME NEW edit \in Edits, NEW completed \in BOOLEAN, Repair(edit, completed)
      PROVE  SameTask /\ GoesOn /\ WorkSound'
    <2>1. work.phase = "repair" /\ UNCHANGED <<head, pull, pulls>>
        BY <1>7 DEF Repair, At, Remote
    <2>2. CASE edit = "scope" /\ completed
        <3>1. work' = [work EXCEPT !.phase = "test", !.edits = @ + 1, !.repaired = TRUE]
            BY <1>7, <2>2 DEF Repair
        <3>2. work'.edits \in 0..2 /\ work'.tested <= work'.edits /\ work'.repaired /\ work'.phase = "test" /\ work'.base = work.base
              /\ work'.lease = work.lease /\ work'.existing = work.existing
            BY <2>1, <3>1 DEF Works, WorkSound
        <3>3. SameTask
            BY <3>1, <3>2 DEF SameTask, Works, Phases
        <3> QED
            BY <2>1, <3>2, <3>3 DEF GoesOn, Before, After, WorkSound, SameTask
    <2>3. CASE ~(edit = "scope" /\ completed)
        <3>1. Exits(Unsuccessful)
            BY <1>7, <2>3 DEF Repair
        <3> QED
            BY <1>1, <1>2, <2>1, <3>1 DEF Before, After
    <2> QED
        BY <2>2, <2>3
<1>8. ASSUME NEW pass \in BOOLEAN, Test(pass) \/ Lint(pass)
      PROVE  SameTask /\ GoesOn /\ WorkSound'
    <2>1. work.phase \in {"test", "lint"} /\ UNCHANGED <<head, pull, pulls>>
        BY <1>8 DEF Test, Lint, At, Remote
    <2>2. \/ Exits(Unsuccessful)
          \/ work' = [work EXCEPT !.phase = "lint", !.tested = work.edits]
          \/ ~work.repaired /\ work' = [work EXCEPT !.phase = "repair"]
          \/ work.phase = "lint" /\ work' = [work EXCEPT !.phase = "push"]
        BY <1>8 DEF Test, Lint, At, Exits, Goes, Pauses, CanRepair
    <2>3. CASE Exits(Unsuccessful)
        BY <1>1, <1>2, <2>1, <2>3 DEF Before, After
    <2>4. CASE work' = [work EXCEPT !.phase = "lint", !.tested = work.edits]
        <3>1. work'.edits = work.edits /\ work'.tested = work.edits /\ work.edits <= work.edits
            BY <2>4 DEF Works
        <3>2. SameTask /\ work'.phase = "lint" /\ work'.repaired = work.repaired
              /\ work'.existing = work.existing /\ work'.base = work.base /\ work'.lease = work.lease
            BY <2>4 DEF SameTask, Works, Phases
        <3> QED
            BY <2>1, <3>1, <3>2 DEF SameTask, GoesOn, Before, After, WorkSound
    <2>5. CASE ~work.repaired /\ work' = [work EXCEPT !.phase = "repair"]
        BY <2>1, <2>5 DEF SameTask, GoesOn, Before, After, WorkSound, Works, Phases
    <2>6. CASE work.phase = "lint" /\ work' = [work EXCEPT !.phase = "push"]
        BY <2>1, <2>6 DEF SameTask, GoesOn, Before, After, WorkSound, Works, Phases
    <2> QED
        BY <2>2, <2>3, <2>4, <2>5, <2>6
<1> QED
    BY <1>3, <1>4, <1>5, <1>6, <1>7, <1>8

(* A step of a task before its push leaves what is known of it true.       *)
LEMMA AiderGoesOn ==
    ASSUME Inv, work # None, SameTask, GoesOn, WorkSound', UNCHANGED clock,
           request' = [request EXCEPT ![work.run].done = Reached]
    PROVE  Inv'
<1> PICK r, done : r = work.run /\ done = (IF work.phase = "agent" THEN "called" ELSE request[work.run].done)
    OBVIOUS
<1> DEFINE q == [request[r] EXCEPT !.done = done]
<1>0. request \in [Runs -> Requests] /\ r \in Runs
    BY DEF Inv, LaneTypeOK, Works
<1>1. request[r] \in Requests /\ RequestSound(request[r])
    BY <1>0 DEF Inv, RequestsSound
<1>2. /\ request[r].job = "running" /\ request[r].branch = work.branch
      /\ request[r].number = work.required /\ work.branch \notin Agentic
      /\ work.phase \in Before => request[r].done = "none"
      /\ work.phase \in After => request[r].done = "called"
    BY DEF Inv, TaskOfItsRun, Before, After
<1>3. request' = [request EXCEPT ![r] = q]
    BY <1>0 DEF GoesOn, Reached
<1>4. done \in {"none", "called"} /\ request[r].done \in {"none", "called"}
    BY <1>2 DEF GoesOn, Before, After
<1>5. done = "called" <=> work.phase \in {"agent"} \cup After
    BY <1>2 DEF GoesOn, Before, After
<1>6. request[r].mark # "success"
    BY <1>1, <1>2 DEF RequestSound
<1>7. /\ q \in Requests /\ RequestSound(q) /\ q.done = done /\ q.job = "running"
      /\ q.branch = work.branch /\ q.number = work.required
    BY <1>1, <1>2, <1>4, <1>6 DEF Requests, RequestSound
<1> HIDE DEF q
<1>8. request' \in [Runs -> Requests] /\ \A s \in Runs : request'[s] = IF s = r THEN q ELSE request[s]
    BY <1>0, <1>3, <1>7
<1>9. LaneTypeOK' /\ RequestsSound'
    BY <1>7, <1>8 DEF Inv, LaneTypeOK, RequestsSound, SameTask, GoesOn
<1>10. CommitsPushed'
    BY <1>0, <1>4, <1>8 DEF Inv, CommitsPushed, GoesOn
<1>11. TaskOfItsRun'
    <2>1. work'.run = r /\ work'.branch = work.branch /\ work'.required = work.required /\ work # None
        BY DEF SameTask
    <2>2. /\ work'.phase \in Before => done = "none"
          /\ work'.phase \in After => done = "called"
          /\ work'.phase # "publish"
          /\ work'.phase = "exit" /\ work'.status = "success" /\ work.required # None => done # "called"
        BY <1>2, <1>4, <1>5 DEF GoesOn, Before, After
    <2> QED
        BY <1>0, <1>2, <1>7, <1>8, <2>1, <2>2 DEF TaskOfItsRun, Before, After
<1> QED
    BY <1>9, <1>10, <1>11 DEF Inv

(* The push adds the commit of the run, which the branch did not have.     *)
LEMMA AiderPushes ==
    ASSUME Inv, Push,
           request' = [request EXCEPT ![work.run].done = Reached],
           UNCHANGED clock
    PROVE  Inv'
<1> DEFINE r == work.run
           b == work.branch
<1>0. /\ request \in [Runs -> Requests] /\ head \in [Branches -> SUBSET Commits]
      /\ work # None /\ work \in Works /\ r \in Runs /\ b \in Branches /\ r \in Commits
    BY DEF Inv, LaneTypeOK, Push, At, Works, Commits
<1>1. /\ work.phase = "push" /\ head[b] = work.lease /\ UNCHANGED <<pull, pulls>>
      /\ head' = [head EXCEPT ![b] = work.base \cup {r}]
      /\ work' = [work EXCEPT !.phase = "publish"]
    BY DEF Push, At, LeaseHolds, Goes
<1>2. request[r].done = "called" /\ request[r].job = "running" /\ request[r].branch = b
      /\ request[r].number = work.required /\ b \notin Agentic
    BY <1>0, <1>1 DEF Inv, TaskOfItsRun
<1>3. work.base \subseteq head[b]
    BY <1>0, <1>1 DEF Inv, WorkSound
<1>4. r \notin head[b]
    BY <1>0, <1>2 DEF Inv, CommitsPushed
<1>5. head' # head
    BY <1>0, <1>1, <1>4
<1>6. request[r] \in Requests /\ RequestSound(request[r])
    BY <1>0 DEF Inv, RequestsSound
<1> DEFINE q == [request[r] EXCEPT !.done = "pushed"]
<1>7. request' = [request EXCEPT ![r] = q]
    BY <1>0, <1>5 DEF Reached
<1>8. q \in Requests /\ RequestSound(q) /\ q.done = "pushed" /\ q.job = "running"
      /\ q.branch = b /\ q.number = work.required
    BY <1>2, <1>6 DEF Requests, RequestSound
<1> HIDE DEF q
<1>9. request' \in [Runs -> Requests] /\ \A s \in Runs : request'[s] = IF s = r THEN q ELSE request[s]
    BY <1>0, <1>7, <1>8
<1>10. head' \in [Branches -> SUBSET Commits] /\ \A c \in Branches : head'[c] \subseteq head[c] \cup {r}
    BY <1>0, <1>1, <1>3
<1>11. work' \in Works /\ work'.run = r /\ work'.branch = b /\ work'.required = work.required
       /\ work'.phase = "publish" /\ WorkSound'
    BY <1>0, <1>1 DEF Works, Phases, WorkSound, Inv
<1>12. LaneTypeOK' /\ RequestsSound'
    <2>1. LaneTypeOK'
        BY <1>1, <1>9, <1>10, <1>11 DEF Inv, LaneTypeOK
    <2>2. ASSUME NEW s \in Runs PROVE RequestSound(request'[s])
        BY <1>8, <1>9 DEF Inv, RequestsSound
    <2> QED
        BY <2>1, <2>2 DEF RequestsSound
<1>13. TaskOfItsRun'
    BY <1>0, <1>2, <1>8, <1>9, <1>11 DEF TaskOfItsRun
<1>14. CommitsPushed'
    BY <1>8, <1>9, <1>10 DEF Inv, CommitsPushed
<1> QED
    BY <1>11, <1>12, <1>13, <1>14 DEF Inv

(* After the push, or at the time limit, the task only exits.              *)
LEMMA AiderExits ==
    ASSUME Inv, JobTimesOut \/ \E answered \in BOOLEAN : Publish(answered),
           request' = [request EXCEPT ![work.run].done = Reached], UNCHANGED clock
    PROVE  Inv'
<1> PICK r, done : r = work.run /\ done = (IF work.phase = "agent" THEN "called" ELSE request[work.run].done)
    OBVIOUS
<1> DEFINE q == [request[r] EXCEPT !.done = done]
<1>0. /\ work # None /\ work \in Works /\ r \in Runs /\ work.branch \in Branches
      /\ pull \in [Branches -> Numbers] /\ pulls \in 0..MaxPull /\ UNCHANGED head
      /\ request \in [Runs -> Requests]
    BY DEF Inv, LaneTypeOK, Works, JobTimesOut, Publish, At, Remote
<1>1. PICK status \in {"success", "failure", "cancelled"} :
          /\ work' = [work EXCEPT !.phase = "exit", !.status = status]
          /\ status = "cancelled" \/ work.phase = "publish"
    BY DEF JobTimesOut, Publish, Exits, At
<1>2. pull' \in [Branches -> Numbers] /\ pulls' \in 0..MaxPull
    BY <1>0, TaskAssumption DEF JobTimesOut, Publish, Remote, Numbers
<1>3. SameTask /\ work'.phase = "exit" /\ work'.status = status
      /\ work'.existing = work.existing /\ work'.base = work.base
      /\ work'.edits = work.edits /\ work'.tested = work.tested /\ work'.repaired = work.repaired
    BY <1>0, <1>1 DEF SameTask, Works, Phases
<1>4. request[r] \in Requests /\ RequestSound(request[r]) /\ request' = [request EXCEPT ![r] = q]
    BY <1>0 DEF Inv, RequestsSound, Reached
<1>5. /\ request[r].job = "running" /\ request[r].branch = work.branch
      /\ request[r].number = work.required /\ work.branch \notin Agentic
      /\ work.phase = "publish" => request[r].done = "pushed"
      /\ work.phase = "agent" => request[r].done = "none"
    BY <1>0 DEF Inv, TaskOfItsRun
<1>6. /\ done \in {"none", "nothing", "called", "pushed"}
      /\ request[r].done = "pushed" => done = "pushed"
      /\ work.phase = "publish" => done = "pushed"
    BY <1>4, <1>5 DEF Requests
<1>7. /\ q \in Requests /\ RequestSound(q) /\ q.done = done /\ q.job = "running"
      /\ q.branch = work.branch /\ q.number = work.required
    BY <1>4, <1>5, <1>6 DEF Requests, RequestSound
<1> HIDE DEF q
<1>8. request' \in [Runs -> Requests] /\ \A s \in Runs : request'[s] = IF s = r THEN q ELSE request[s]
    BY <1>0, <1>4, <1>7
<1>9. LaneTypeOK' /\ RequestsSound' /\ CommitsPushed' /\ WorkSound'
    <2>1. LaneTypeOK' /\ WorkSound'
        BY <1>0, <1>2, <1>3, <1>8 DEF Inv, LaneTypeOK, WorkSound, SameTask
    <2>2. RequestsSound' /\ CommitsPushed'
        BY <1>0, <1>6, <1>7, <1>8 DEF Inv, RequestsSound, CommitsPushed
    <2> QED
        BY <2>1, <2>2
<1>10. TaskOfItsRun'
    BY <1>0, <1>1, <1>3, <1>5, <1>6, <1>7, <1>8 DEF TaskOfItsRun, SameTask
<1> QED
    BY <1>9, <1>10 DEF Inv

(* A step of the task, whichever it is.                                    *)
LEMMA AiderStep == ASSUME Inv, AiderWorks PROVE Inv'
<1>1. work # None /\ UNCHANGED clock /\ pull \in [Branches -> Numbers] /\ work \in Works
      /\ WorkSound /\ head \in [Branches -> SUBSET Commits]
    BY DEF AiderWorks, TaskStep, JobTimesOut, Lookup, Publish, Checkout, CheckoutFails, AgentFails,
           AgentEnds, Repair, Test, Lint, Push, PushFails, At, Inv, LaneTypeOK
<1>2. request' = [request EXCEPT ![work.run].done = Reached]
    BY DEF AiderWorks
<1>3. CASE Push
    BY <1>1, <1>2, <1>3, AiderPushes
<1>4. CASE JobTimesOut \/ \E answered \in BOOLEAN : Publish(answered)
    BY <1>1, <1>2, <1>4, AiderExits
<1>5. CASE ~Push /\ ~JobTimesOut /\ ~\E answered \in BOOLEAN : Publish(answered)
    <2>1. SameTask /\ GoesOn /\ WorkSound'
        BY <1>1, <1>5, TaskGoesOn DEF AiderWorks, TaskStep
    <2> QED
        BY <1>1, <1>2, <2>1, AiderGoesOn DEF GoesOn
<1> QED
    BY <1>3, <1>4, <1>5
-----------------------------------------------------------------------------
(* People push, close and unpause; none of it is the commit of a run.      *)
LEMMA PeopleStep == ASSUME Inv, Acts PROVE Inv'
<1> USE TaskAssumption
<1>0. /\ UNCHANGED <<work, request, clock, pulls>>
      /\ head \in [Branches -> SUBSET Commits] /\ pull \in [Branches -> Numbers]
    BY DEF Inv, LaneTypeOK, Acts, PersonPushes, ClosePull, Unpause
<1> DEFINE Good == /\ head' \in [Branches -> SUBSET Commits] /\ pull' \in [Branches -> Numbers]
                   /\ \A b \in Branches : head'[b] \subseteq head[b] \cup People
<1>1. Good
    <2>1. ASSUME NEW b \in Branches, NEW c \in People, PersonPushes(b, c) PROVE Good
        BY <1>0, <2>1 DEF PersonPushes, Commits
    <2>2. ASSUME NEW b \in Branches, NEW merged \in BOOLEAN, ClosePull(b, merged) PROVE Good
        BY <1>0, <2>2 DEF ClosePull, Numbers
    <2>3. ASSUME NEW b \in paused, Unpause(b) PROVE Good
        BY <1>0, <2>3 DEF Unpause
    <2> QED
        BY <2>1, <2>2, <2>3 DEF Acts
<1>2. CommitsPushed'
    BY <1>0, <1>1 DEF Inv, CommitsPushed
<1> QED
    BY <1>0, <1>1, <1>2 DEF Inv, LaneTypeOK, RequestsSound, RequestSound, TaskOfItsRun, WorkSound

(* Every step of the lanes keeps the invariant.                            *)
LEMMA Inductive == Inv /\ [Next]_vars => Inv'
<1> SUFFICES ASSUME Inv, [Next]_vars PROVE Inv'
    OBVIOUS
<1>1. ASSUME NEW r \in Runs, Dispatcher(r) PROVE Inv'
    BY <1>1, DispatcherStep
<1>2. ASSUME NEW r \in Runs, Job(r) PROVE Inv'
    BY <1>2, ByHand, AgenticBegins, AgenticCommits, AgenticFinishes, AiderBegins, AiderFinishes DEF Job
<1>3. CASE AiderWorks
    BY <1>3, AiderStep
<1>4. CASE Acts
    BY <1>4, PeopleStep
<1>5. CASE Tick
    BY <1>5, ReworkAssumption DEF Tick, task, Inv, LaneTypeOK, RequestsSound, RequestSound, TaskOfItsRun, WorkSound, CommitsPushed
<1>6. CASE UNCHANGED vars
    BY <1>6 DEF vars, task, Inv, LaneTypeOK, RequestsSound, RequestSound, TaskOfItsRun, WorkSound, CommitsPushed
<1> QED
    BY <1>1, <1>2, <1>3, <1>4, <1>5, <1>6 DEF Next

(* The invariant holds in every state of every behaviour.                  *)
LEMMA Always == Spec => []Inv
BY Initially, Inductive, PTL DEF Spec

-----------------------------------------------------------------------------
(* The lock of a pull request: its dispatchers one at a time, and the      *)
(* status comments they post.                                              *)
Busy(q) == q.step \in {"resolved", "marked", "failing"}

(* A review has a comment from the time it is marked, and until its job    *)
(* ends only a failed dispatch replaces it.                                *)
MarkSound(q, now) ==
    /\ q.since <= now
    /\ q.step \in {"none", "waiting", "resolved"} => q.mark = "none"
    /\ q.step = "marked" => q.mark = "active"
    /\ q.number # None /\ q.job \in {"pending", "running"} => q.mark \in {"active", "dispatch-failed"}

(* Of one pull request, one dispatcher is busy; active comments are more   *)
(* than TTL apart, and older than that when a review is resolved.          *)
Apart(p, q, now) ==
    /\ ~(Busy(p) /\ Busy(q))
    /\ p.mark = "active" /\ q.mark = "active" /\ p.since <= q.since => q.since - p.since > TTL
    /\ p.step = "resolved" /\ q.mark = "active" => now - q.since > TTL

Lock == /\ \A r \in Runs : MarkSound(request[r], clock)
        /\ \A r, s \in Runs : SamePull(r, s) => Apart(request[r], request[s], clock)

(* A request moves without taking the lock.                                *)
Quiet(p, q) ==
    /\ q.number = p.number \/ (q.mark = "none" /\ ~Busy(q))
    /\ q.mark = "active" => p.mark = "active" /\ q.since = p.since
    /\ Busy(q) => Busy(p)
    /\ q.step = "resolved" => p.step = "resolved"

(* Requests that move without taking the lock leave it as it is.           *)
LEMMA QuietStep ==
    ASSUME Inv, Inv', Lock, clock <= clock',
           \A s \in Runs : Quiet(request[s], request'[s]) /\ MarkSound(request'[s], clock')
    PROVE  Lock'
<1>1. /\ request \in [Runs -> Requests] /\ request' \in [Runs -> Requests]
      /\ clock \in Nat /\ clock' \in Nat /\ TTL \in Nat
    BY ReworkAssumption DEF Inv, LaneTypeOK
<1>2. ASSUME NEW r \in Runs, NEW s \in Runs, SamePull(r, s)'
      PROVE  Apart(request'[r], request'[s], clock')
    <2> PICK p, q, u, v : p = request[r] /\ q = request[s] /\ u = request'[r] /\ v = request'[s]
        OBVIOUS
    <2>1. /\ p \in Requests /\ q \in Requests /\ u \in Requests /\ v \in Requests
          /\ Quiet(p, u) /\ Quiet(q, v) /\ r # s /\ u.number # None /\ u.number = v.number
        BY <1>1, <1>2 DEF SamePull
    <2>2. /\ p.since \in Nat /\ q.since \in Nat /\ u.since \in Nat /\ v.since \in Nat
        BY <2>1 DEF Requests
    <2>3. CASE (u.mark = "none" /\ ~Busy(u)) \/ (v.mark = "none" /\ ~Busy(v))
        BY <2>3 DEF Apart, Busy
    <2>4. CASE u.number = p.number /\ v.number = q.number
        <3>1. Apart(p, q, clock)
            BY <2>1, <2>4 DEF Lock, SamePull
        <3> QED
            BY <1>1, <2>1, <2>2, <3>1 DEF Apart, Quiet
    <2> QED
        BY <2>1, <2>3, <2>4 DEF Quiet
<1> QED
    BY <1>2 DEF Lock

(* One request moves without taking the lock.                              *)
LEMMA QuietMove ==
    ASSUME Inv, Inv', Lock, UNCHANGED clock, NEW r \in Runs, NEW q,
           request' = [request EXCEPT ![r] = q], Quiet(request[r], q), MarkSound(q, clock)
    PROVE  Lock'
<1>1. request \in [Runs -> Requests] /\ clock \in Nat
    BY ReworkAssumption DEF Inv, LaneTypeOK
<1>2. ASSUME NEW s \in Runs
      PROVE  Quiet(request[s], request'[s]) /\ MarkSound(request'[s], clock')
    BY <1>1 DEF Quiet, Lock
<1> QED
    BY <1>1, <1>2, QuietStep

(* What a step of a dispatcher or a job does to its own request.            *)
Changes(p, q) ==
    /\ q.number = p.number /\ q.since = p.since
    /\ q.step = p.step \/ q.step = "ended"
    /\ \/ q.mark = p.mark
       \/ p.mark = "active" /\ q.mark = "dispatch-failed" /\ q.step = "ended"
       \/ p.mark = "active" /\ q.job = "ended" /\ p.step # "marked"
    /\ q.job \in {"pending", "running"} => p.job \in {"pending", "running"}

LEMMA ChangeMove ==
    ASSUME Inv, Inv', Lock, UNCHANGED clock, NEW r \in Runs, NEW q,
           request' = [request EXCEPT ![r] = q], Changes(request[r], q)
    PROVE  Lock'
<1> PICK p : p = request[r]
    OBVIOUS
<1>1. MarkSound(p, clock) /\ Changes(p, q)
    BY DEF Lock
<1>2. Quiet(p, q)
    BY <1>1 DEF Quiet, Changes, MarkSound, Busy
<1>3. MarkSound(q, clock)
    BY <1>1 DEF Changes, MarkSound
<1> QED
    BY <1>2, <1>3, QuietMove

(* A step of a dispatcher or a job that changes its own request only.      *)
LEMMA QuietChange ==
    ASSUME Inv, Inv', Lock, NEW r \in Runs,
           \/ MarkDispatchFailure(r) \/ DispatcherDies(r)
           \/ \E selected \in BOOLEAN : AiderStarts(r, selected) \/ AgenticStarts(r, selected)
           \/ AgenticPushes(r) \/ \E answered \in BOOLEAN : AiderEnds(r, answered)
           \/ \E jobs \in Results, followUp, answered \in BOOLEAN :
                  AgenticEnds(r, jobs, followUp, answered)
    PROVE  Lock'
<1>1. request \in [Runs -> Requests] /\ request[r] \in Requests /\ RequestSound(request[r])
    BY DEF Inv, LaneTypeOK, RequestsSound
<1> DEFINE p == request[r]
<1>2. UNCHANGED clock
    BY DEF MarkDispatchFailure, DispatcherDies, AiderStarts, AgenticStarts, AgenticPushes, AiderEnds, AgenticEnds
<1>3. ASSUME NEW q, request' = [request EXCEPT ![r] = q], Changes(p, q) PROVE Lock'
    BY <1>2, <1>3, ChangeMove
<1>4. p.job \in {"pending", "running"} => p.step # "marked"
    BY <1>1 DEF RequestSound
<1>5. ASSUME MarkDispatchFailure(r) PROVE Lock'
    <2> PICK mark : mark = Finalized(r, "dispatch-failed")
        OBVIOUS
    <2> DEFINE q == [p EXCEPT !.mark = mark, !.step = "ended"]
    <2>1. request' = [request EXCEPT ![r] = q]
        BY <1>1, <1>5 DEF MarkDispatchFailure
    <2>2. q.mark = mark /\ q.step = "ended" /\ q.job = p.job /\ q.number = p.number /\ q.since = p.since
        BY <1>1 DEF Requests
    <2>3. mark = p.mark \/ (p.mark = "active" /\ mark = "dispatch-failed")
        BY DEF Finalized
    <2> HIDE DEF q
    <2>4. Changes(p, q)
        BY <2>2, <2>3 DEF Changes
    <2> QED
        BY <1>3, <2>1, <2>4
<1>6. ASSUME DispatcherDies(r) PROVE Lock'
    <2> DEFINE q == [p EXCEPT !.step = "ended"]
    <2>1. request' = [request EXCEPT ![r] = q]
        BY <1>1, <1>6 DEF DispatcherDies, Step
    <2>2. q.mark = p.mark /\ q.step = "ended" /\ q.job = p.job /\ q.number = p.number /\ q.since = p.since
        BY <1>1 DEF Requests
    <2> HIDE DEF q
    <2>3. Changes(p, q)
        BY <2>2 DEF Changes
    <2> QED
        BY <1>3, <2>1, <2>3
<1>7. ASSUME NEW selected \in BOOLEAN, AiderStarts(r, selected) PROVE Lock'
    <2> PICK done : done = (IF HasTask(r, selected) THEN p.done ELSE "nothing")
        OBVIOUS
    <2> DEFINE q == [p EXCEPT !.job = "running", !.began = clock, !.done = done]
    <2>1. request' = [request EXCEPT ![r] = q] /\ p.job = "pending"
        BY <1>1, <1>7 DEF AiderStarts
    <2>2. q.mark = p.mark /\ q.step = p.step /\ q.number = p.number /\ q.since = p.since
        BY <1>1 DEF Requests
    <2> HIDE DEF q
    <2>3. Changes(p, q)
        BY <2>1, <2>2 DEF Changes
    <2> QED
        BY <1>3, <2>1, <2>3
<1>8. ASSUME NEW selected \in BOOLEAN, AgenticStarts(r, selected) PROVE Lock'
    <2> PICK job : job = (IF pull[Target(r)] = request[r].number THEN "running" ELSE "ended")
        OBVIOUS
    <2> PICK done : done = (IF HasTask(r, selected) THEN p.done ELSE "nothing")
        OBVIOUS
    <2> DEFINE q == [p EXCEPT !.job = job, !.began = clock, !.start = head[Target(r)], !.done = done]
    <2>1. request' = [request EXCEPT ![r] = q] /\ p.job = "pending"
        BY <1>1, <1>8 DEF AgenticStarts
    <2>2. q.mark = p.mark /\ q.step = p.step /\ q.number = p.number /\ q.since = p.since
        BY <1>1 DEF Requests
    <2> HIDE DEF q
    <2>3. Changes(p, q)
        BY <2>1, <2>2 DEF Changes
    <2> QED
        BY <1>3, <2>1, <2>3
<1>9. ASSUME AgenticPushes(r) PROVE Lock'
    <2> DEFINE q == [p EXCEPT !.done = "pushed"]
    <2>1. request' = [request EXCEPT ![r] = q]
        BY <1>1, <1>9 DEF AgenticPushes
    <2>2. q.mark = p.mark /\ q.step = p.step /\ q.job = p.job /\ q.number = p.number /\ q.since = p.since
        BY <1>1 DEF Requests
    <2> HIDE DEF q
    <2>3. Changes(p, q)
        BY <2>2 DEF Changes
    <2> QED
        BY <1>3, <2>1, <2>3
<1>10. ASSUME NEW answered \in BOOLEAN, AiderEnds(r, answered) PROVE Lock'
    <2> PICK mark : mark = (IF answered THEN Finalized(r, work.status) ELSE p.mark)
        OBVIOUS
    <2> DEFINE q == [p EXCEPT !.job = "ended", !.began = 0, !.mark = mark]
    <2>1. request' = [request EXCEPT ![r] = q]
        BY <1>1, <1>10 DEF AiderEnds
    <2>2. p.job = "running"
        BY <1>10 DEF AiderEnds, Inv, TaskOfItsRun
    <2>3. q.mark = mark /\ q.step = p.step /\ q.job = "ended" /\ q.number = p.number /\ q.since = p.since
        BY <1>1 DEF Requests
    <2>4. mark = p.mark \/ (p.mark = "active" /\ p.step # "marked")
        BY <1>4, <2>2 DEF Finalized
    <2> HIDE DEF q
    <2>5. Changes(p, q)
        BY <2>3, <2>4 DEF Changes
    <2> QED
        BY <1>3, <2>1, <2>5
<1>11. ASSUME NEW jobs \in Results, NEW followUp \in BOOLEAN, NEW answered \in BOOLEAN,
              AgenticEnds(r, jobs, followUp, answered)
       PROVE  Lock'
    <2> PICK mark : mark = (IF answered THEN Finalized(r, Evaluate(r, jobs, followUp)) ELSE p.mark)
        OBVIOUS
    <2> DEFINE q == [p EXCEPT !.job = "ended", !.began = 0, !.start = {}, !.mark = mark]
    <2>1. request' = [request EXCEPT ![r] = q] /\ p.job = "running"
        BY <1>1, <1>11 DEF AgenticEnds
    <2>2. q.mark = mark /\ q.step = p.step /\ q.job = "ended" /\ q.number = p.number /\ q.since = p.since
        BY <1>1 DEF Requests
    <2>3. mark = p.mark \/ (p.mark = "active" /\ p.step # "marked")
        BY <1>4, <2>1 DEF Finalized
    <2> HIDE DEF q
    <2>4. Changes(p, q)
        BY <2>2, <2>3 DEF Changes
    <2> QED
        BY <1>3, <2>1, <2>4
<1> QED
    BY <1>5, <1>6, <1>7, <1>8, <1>9, <1>10, <1>11

(* A step that queues a job, or accepts a review, takes the place of       *)
(* waiting requests, and of no comment.                                    *)
LEMMA QuietQueue ==
    ASSUME Inv, Inv', Lock, NEW r \in Runs,
           \/ \E b \in Branches : Review(r, b)
           \/ \E b \in Branches, force \in BOOLEAN : Manual(r, b, force)
           \/ \E accepted, answered \in BOOLEAN : Dispatch(r, accepted, answered)
    PROVE  Lock'
<1>1. request \in [Runs -> Requests] /\ clock \in Nat
    BY ReworkAssumption DEF Inv, LaneTypeOK
<1>2. ASSUME NEW s \in Runs
      PROVE  request[s] \in Requests /\ RequestSound(request[s]) /\ MarkSound(request[s], clock)
    BY <1>1 DEF Inv, RequestsSound, Lock
<1>3. UNCHANGED clock
    BY DEF Review, Manual, Dispatch
<1> DEFINE Keeps(s) == Quiet(request[s], request'[s]) /\ MarkSound(request'[s], clock)
<1>4. ASSUME NEW s \in Runs, request[s].job = "pending",
             request'[s] = [request[s] EXCEPT !.job = "cancelled"]
      PROVE  Keeps(s)
    BY <1>2, <1>4 DEF Requests, Quiet, MarkSound, Busy
<1>5. ASSUME NEW s \in Runs, request'[s] = request[s]
      PROVE  Keeps(s)
    BY <1>2, <1>5 DEF Quiet
<1>6. ASSUME NEW b \in Branches, Review(r, b), NEW s \in Runs
      PROVE  Keeps(s)
    <2>1. CASE s = r
        <3>1. request'[s] = [Unused EXCEPT !.kind = "review", !.branch = b, !.number = pull[b],
                                           !.step = "waiting"]
            BY <1>6, <2>1 DEF Review
        <3> QED
            BY <1>1, <3>1 DEF Quiet, MarkSound, Busy, Unused
    <2>2. CASE s # r /\ request[s].step = "waiting" /\ request'[s] = [request[s] EXCEPT !.step = "ended"]
        BY <1>2, <2>2 DEF Requests, Quiet, MarkSound, Busy
    <2> QED
        BY <1>5, <1>6, <2>1, <2>2 DEF Review
<1>7. ASSUME NEW b \in Branches, NEW force \in BOOLEAN, Manual(r, b, force), NEW s \in Runs
      PROVE  Keeps(s)
    <2> DEFINE started == [Unused EXCEPT !.kind = "manual", !.branch = b, !.force = force]
               first == [request EXCEPT ![r] = started]
    <2>1. request' = Enqueue(first, r) /\ first[s] = IF s = r THEN started ELSE request[s]
        BY <1>1, <1>7 DEF Manual
    <2>2. CASE s = r
        <3>1. request'[s] = [started EXCEPT !.job = "pending"]
            BY <2>1, <2>2 DEF Enqueue
        <3> QED
            BY <1>1, <3>1 DEF Quiet, MarkSound, Busy, Unused
    <2>3. CASE s # r
        <3>1. \/ request'[s] = request[s]
              \/ request[s].job = "pending" /\ request'[s] = [request[s] EXCEPT !.job = "cancelled"]
            BY <2>1, <2>3 DEF Enqueue
        <3> QED
            BY <1>4, <1>5, <3>1
    <2> QED
        BY <2>2, <2>3
<1>8. ASSUME NEW accepted \in BOOLEAN, NEW answered \in BOOLEAN, Dispatch(r, accepted, answered),
             NEW s \in Runs
      PROVE  Keeps(s)
    <2> DEFINE mid == IF accepted THEN Enqueue(request, r) ELSE request
    <2> PICK to : to = (IF answered THEN "ended" ELSE "failing")
        OBVIOUS
    <2>1. request[r].step = "marked" /\ request' = [mid EXCEPT ![r].step = to]
        BY <1>8 DEF Dispatch
    <2>2. mid[s] = request[s] \/ (mid[s] = [request[s] EXCEPT !.job = "pending"] /\ s = r)
          \/ (mid[s] = [request[s] EXCEPT !.job = "cancelled"] /\ s # r /\ request[s].job = "pending")
        BY DEF Enqueue
    <2>3. DOMAIN mid = Runs
        BY <1>1 DEF Enqueue
    <2>4. request'[s] = IF s = r THEN [mid[s] EXCEPT !.step = to] ELSE mid[s]
        BY <2>1, <2>3
    <2> HIDE DEF mid
    <2>5. CASE s = r
        BY <1>2, <2>1, <2>2, <2>4, <2>5 DEF Requests, Quiet, MarkSound, Busy
    <2>6. CASE s # r
        BY <1>4, <1>5, <2>2, <2>4, <2>6
    <2> QED
        BY <2>5, <2>6
<1> QED
    BY <1>1, <1>3, <1>6, <1>7, <1>8, QuietStep

(* A review is resolved only while no other dispatcher of its pull request *)
(* is busy and no comment on it counts any more.                           *)
LEMMA LockTaken == ASSUME Inv, Inv', Lock, NEW r \in Runs, Resolve(r) PROVE Lock'
<1>1. /\ request \in [Runs -> Requests] /\ clock \in Nat /\ TTL \in Nat /\ UNCHANGED clock
      /\ request[r].step = "waiting" /\ ~DispatcherBusy(r)
    BY ReworkAssumption DEF Inv, LaneTypeOK, Resolve
<1> PICK to : to = (IF /\ pull[Target(r)] = request[r].number
                       /\ Target(r) \in eligible /\ ~ActiveRework(r)
                    THEN "resolved" ELSE "ended")
    OBVIOUS
<1>2. /\ to \in {"resolved", "ended"} /\ (to = "resolved" => ~ActiveRework(r))
      /\ request' = [request EXCEPT ![r].step = to]
    BY DEF Resolve, Step
<1> DEFINE q == [request[r] EXCEPT !.step = to]
<1>3. /\ request' = [request EXCEPT ![r] = q] /\ request[r] \in Requests
      /\ MarkSound(request[r], clock) /\ RequestSound(request[r])
    BY <1>1, <1>2 DEF Lock, Inv, RequestsSound
<1>4. q.step = to /\ q.mark = "none" /\ q.since = request[r].since /\ q.job = request[r].job
      /\ q.number = request[r].number
    BY <1>1, <1>3 DEF Requests, MarkSound
<1> HIDE DEF q
<1>5. CASE to = "ended"
    <2>1. Quiet(request[r], q) /\ MarkSound(q, clock)
        BY <1>1, <1>3, <1>4, <1>5 DEF Quiet, MarkSound, Busy
    <2> QED
        BY <1>1, <1>3, <2>1, QuietMove
<1>6. CASE to = "resolved"
    <2>1. \A s \in Runs : request'[s] = IF s = r THEN q ELSE request[s]
        BY <1>1, <1>3
    <2>2. MarkSound(q, clock)
        BY <1>1, <1>3, <1>4, <1>6 DEF MarkSound, RequestSound
    <2>3. ASSUME NEW s \in Runs, SamePull(r, s)
          PROVE  Apart(q, request[s], clock) /\ Apart(request[s], q, clock)
        <3>1. ~Busy(request[s]) /\ request[s].step # "resolved"
            BY <1>1, <2>3 DEF DispatcherBusy, Busy
        <3>2. request[s].mark = "active" => clock - request[s].since > TTL
            <4>1. request[s].since \in Nat
                BY <1>1, ReworkAssumption DEF Requests
            <4> QED
                BY <1>1, <1>2, <1>6, <2>3, <4>1 DEF ActiveRework
        <3> QED
            BY <1>4, <1>6, <3>1, <3>2 DEF Apart
    <2>4. ASSUME NEW s \in Runs, NEW u \in Runs, SamePull(s, u)'
          PROVE  Apart(request'[s], request'[u], clock)
        <3>1. SamePull(s, u) /\ SamePull(u, s)
            BY <1>4, <2>1, <2>4 DEF SamePull
        <3>2. CASE s = r
            BY <2>1, <2>3, <3>1, <3>2 DEF SamePull
        <3>3. CASE u = r
            BY <2>1, <2>3, <3>1, <3>3 DEF SamePull
        <3>4. CASE s # r /\ u # r
            BY <2>1, <3>1, <3>4 DEF Lock
        <3> QED
            BY <3>2, <3>3, <3>4
    <2> QED
        BY <1>1, <2>1, <2>2, <2>4 DEF Lock
<1> QED
    BY <1>2, <1>5, <1>6

(* The comment is posted while no older one of the pull request counts.    *)
LEMMA LockMarked ==
    ASSUME Inv, Inv', Lock, NEW r \in Runs, NEW answered \in BOOLEAN, PostStatus(r, answered)
    PROVE  Lock'
<1> PICK to : to = (IF answered THEN "marked" ELSE "ended")
    OBVIOUS
<1> DEFINE q == [request[r] EXCEPT !.mark = "active", !.since = clock, !.step = to]
<1>0. /\ request \in [Runs -> Requests] /\ clock \in Nat /\ TTL \in Nat /\ UNCHANGED clock
      /\ request[r].step = "resolved"
    BY ReworkAssumption DEF Inv, LaneTypeOK, PostStatus
<1>1. request' = [request EXCEPT ![r] = q]
    BY <1>0 DEF PostStatus
<1>2. request[r] \in Requests /\ MarkSound(request[r], clock) /\ RequestSound(request[r])
    BY <1>0 DEF Lock, Inv, RequestsSound
<1>3. q.step \in {"marked", "ended"} /\ q.mark = "active" /\ q.since = clock
      /\ q.job = request[r].job /\ q.number = request[r].number
    BY <1>2 DEF Requests
<1> HIDE DEF q
<1>4. \A s \in Runs : request'[s] = IF s = r THEN q ELSE request[s]
    BY <1>0, <1>1
<1>5. MarkSound(q, clock)
    BY <1>0, <1>1, <1>3 DEF MarkSound
<1>6. ASSUME NEW s \in Runs, SamePull(r, s)
      PROVE  Apart(q, request[s], clock) /\ Apart(request[s], q, clock)
    <2>1. SamePull(s, r)
        BY <1>6 DEF SamePull
    <2>2. Apart(request[r], request[s], clock)
        BY <1>6 DEF Lock
    <2>3. ~Busy(request[s]) /\ request[s].step # "resolved"
        BY <1>0, <1>1, <2>2 DEF Apart, Busy
    <2>4. request[s].mark = "active" => clock - request[s].since > TTL
        BY <1>0, <1>1, <2>2 DEF Apart
    <2>5. request[s].since \in Nat
        BY <1>0, <1>1, ReworkAssumption DEF Requests
    <2> QED
        BY <1>0, <1>1, <1>3, <2>3, <2>4, <2>5 DEF Apart
<1>7. ASSUME NEW s \in Runs, NEW u \in Runs, SamePull(s, u)'
      PROVE  Apart(request'[s], request'[u], clock)
    <2>1. SamePull(s, u) /\ SamePull(u, s)
        BY <1>3, <1>4, <1>7 DEF SamePull
    <2>2. CASE s = r
        BY <1>4, <1>6, <2>1, <2>2 DEF SamePull
    <2>3. CASE u = r
        BY <1>4, <1>6, <2>1, <2>3 DEF SamePull
    <2>4. CASE s # r /\ u # r
        BY <1>4, <2>1, <2>4 DEF Lock
    <2> QED
        BY <2>2, <2>3, <2>4
<1> QED
    BY <1>0, <1>1, <1>4, <1>5, <1>7 DEF Lock

(* Every step of the lanes keeps the lock.                                 *)
LEMMA LockInductive == Inv /\ Inv' /\ Lock /\ [Next]_vars => Lock'
<1> SUFFICES ASSUME Inv, Inv', Lock, [Next]_vars PROVE Lock'
    OBVIOUS
<1>1. ASSUME NEW r \in Runs, Dispatcher(r) PROVE Lock'
    BY <1>1, LockTaken, LockMarked, QuietQueue, QuietChange DEF Dispatcher
<1>2. ASSUME NEW r \in Runs, Job(r) PROVE Lock'
    BY <1>2, QuietQueue, QuietChange DEF Job
<1>3. CASE AiderWorks
    <2> PICK r, done : r = work.run /\ done = Reached
        OBVIOUS
    <2>1. UNCHANGED clock /\ request' = [request EXCEPT ![r].done = done]
        BY <1>3 DEF AiderWorks
    <2>2. work # None
        BY <1>3 DEF AiderWorks, TaskStep, JobTimesOut, Lookup, Publish, Checkout, CheckoutFails, AgentFails,
               AgentEnds, Repair, Test, Lint, Push, PushFails, At
    <2>3. r \in Runs /\ request[r] \in Requests /\ MarkSound(request[r], clock)
        BY <2>2 DEF Inv, LaneTypeOK, Works, Lock
    <2> DEFINE q == [request[r] EXCEPT !.done = done]
    <2>4. Quiet(request[r], q) /\ MarkSound(q, clock)
        BY <2>3 DEF Requests, Quiet, MarkSound, Busy
    <2>5. request' = [request EXCEPT ![r] = q]
        BY <2>1
    <2> HIDE DEF q
    <2> QED
        BY <2>1, <2>3, <2>4, <2>5, QuietMove
<1>4. CASE Acts
    BY <1>4 DEF Acts, PersonPushes, ClosePull, Unpause, Lock, SamePull
<1>5. CASE Tick
    <2>1. clock <= clock' /\ UNCHANGED request /\ clock \in Nat /\ clock' \in Nat
          /\ request \in [Runs -> Requests]
        BY <1>5, ReworkAssumption DEF Tick, Inv, LaneTypeOK
    <2>2. ASSUME NEW s \in Runs
          PROVE  Quiet(request[s], request'[s]) /\ MarkSound(request'[s], clock')
        <3>1. request[s].since \in Nat
            BY <2>1, ReworkAssumption DEF Requests
        <3> QED
            BY <2>1, <3>1 DEF Lock, MarkSound, Quiet
    <2> QED
        BY <2>1, <2>2, QuietStep
<1>6. CASE UNCHANGED vars
    BY <1>6 DEF vars, Lock, SamePull
<1> QED
    BY <1>1, <1>2, <1>3, <1>4, <1>5, <1>6 DEF Next

(* The lock holds in every state of every behaviour.                       *)
LEMMA Locked == Spec => []Lock
<1>1. Init => Lock
    BY ReworkAssumption DEF Init, Lock, MarkSound, SamePull, Unused
<1>2. Inv /\ Inv' /\ Lock /\ [Next]_vars => Lock'
    BY LockInductive
<1> QED
    BY <1>1, <1>2, Always, PTL DEF Spec

(* What the steps of dispatchers and jobs leave as it is.                  *)
LEMMA DispatcherLeaves ==
    ASSUME NEW r, Dispatcher(r)
    PROVE  UNCHANGED <<task, eligible, acts>>
BY DEF Dispatcher, Review, Resolve, MarkDispatchFailure, DispatcherDies, PostStatus, Dispatch

LEMMA JobLeaves ==
    ASSUME NEW r, Job(r)
    PROVE  UNCHANGED <<paused, eligible, acts>> /\ (UNCHANGED head \/ UNCHANGED work)
<1>1. ASSUME NEW b, NEW force, Manual(r, b, force) PROVE UNCHANGED <<task, eligible, acts>>
    BY <1>1 DEF Manual
<1>2. ASSUME NEW selected, AiderStarts(r, selected) PROVE UNCHANGED <<head, paused, eligible, acts>>
    BY <1>2 DEF AiderStarts
<1>3. ASSUME NEW selected, AgenticStarts(r, selected) PROVE UNCHANGED <<task, eligible, acts>>
    BY <1>3 DEF AgenticStarts
<1>4. ASSUME AgenticPushes(r) PROVE UNCHANGED <<work, paused, eligible, acts>>
    BY <1>4 DEF AgenticPushes
<1>5. ASSUME NEW answered, AiderEnds(r, answered) PROVE UNCHANGED <<head, paused, eligible, acts>>
    BY <1>5 DEF AiderEnds
<1>6. ASSUME NEW jobs, NEW followUp, NEW answered, AgenticEnds(r, jobs, followUp, answered)
      PROVE  UNCHANGED <<task, eligible, acts>>
    BY <1>6 DEF AgenticEnds
<1> QED
    BY <1>1, <1>2, <1>3, <1>4, <1>5, <1>6 DEF Job, task

(* People touch no task.                                                   *)
LEMMA ActsLeave == Acts => UNCHANGED work
BY DEF Acts, PersonPushes, ClosePull, Unpause

(* What people and the labels of the issues are about is within bounds.    *)
RestTypeOK ==
    paused \in SUBSET (Branches \ Recurring) /\ eligible \subseteq Branches /\ acts \in 0..MaxActs

(* The variables that no other invariant mentions keep their types.        *)
LEMMA RestTyped == Spec => []RestTypeOK
<1>1. Init => RestTypeOK
    BY ReworkAssumption DEF Init, RestTypeOK
<1>2. Inv /\ RestTypeOK /\ [Next]_vars => RestTypeOK'
    <2> SUFFICES ASSUME Inv, RestTypeOK, [Next]_vars PROVE RestTypeOK'
        OBVIOUS
    <2>1. ASSUME NEW r \in Runs, Dispatcher(r) \/ Job(r) PROVE UNCHANGED <<paused, eligible, acts>>
        BY <2>1, DispatcherLeaves, JobLeaves DEF task
    <2>2. ASSUME Acts PROVE paused' \subseteq paused /\ eligible' \subseteq eligible
        BY <2>2 DEF Acts, PersonPushes, ClosePull, Unpause
    <2>3. ASSUME AiderWorks PROVE paused' = paused \/ (work # None /\ Pauses)
        <3>1. ASSUME NEW valid, NEW answered, Lookup(valid, answered) PROVE paused' = paused
            BY <3>1 DEF Lookup
        <3>2. ASSUME NEW answered, Publish(answered) PROVE paused' = paused
            BY <3>2 DEF Publish
        <3>3. ASSUME NEW launched, AgentFails(launched) PROVE paused' = paused \/ (work # None /\ Pauses)
            BY <3>3 DEF AgentFails, At
        <3>4. ASSUME NEW edit \in Edits, NEW b, AgentEnds(edit, b) PROVE paused' = paused \/ (work # None /\ Pauses)
            BY <3>4 DEF AgentEnds, At, Edits
        <3>5. ASSUME NEW edit \in Edits, NEW b, Repair(edit, b) PROVE paused' = paused \/ (work # None /\ Pauses)
            BY <3>5 DEF Repair, At, Edits
        <3>6. ASSUME NEW pass, Test(pass) PROVE paused' = paused \/ (work # None /\ Pauses)
            BY <3>6 DEF Test, At
        <3>7. ASSUME NEW pass, Lint(pass) PROVE paused' = paused \/ (work # None /\ Pauses)
            BY <3>7 DEF Lint, At
        <3>8. ASSUME Checkout \/ CheckoutFails \/ Push \/ PushFails \/ JobTimesOut
              PROVE  paused' = paused \/ (work # None /\ Pauses)
            BY <3>8 DEF Checkout, CheckoutFails, Push, PushFails, JobTimesOut, At
        <3> QED
            BY <2>3, <3>1, <3>2, <3>3, <3>4, <3>5, <3>6, <3>7, <3>8 DEF AiderWorks, TaskStep
    <2>4. work # None => work.branch \in Branches
        BY DEF Inv, LaneTypeOK, Works
    <2> QED
        <3>1. CASE AiderWorks
            <4>1. UNCHANGED <<eligible, acts>>
                BY <3>1 DEF AiderWorks
            <4> QED
                BY <2>3, <2>4, <3>1, <4>1 DEF RestTypeOK, Pauses
        <3>2. CASE Acts
            <4>1. acts' \in 0..MaxActs
                BY <3>2, ReworkAssumption DEF RestTypeOK, Acts
            <4> QED
                BY <2>2, <3>2, <4>1 DEF RestTypeOK
        <3>3. CASE Tick \/ UNCHANGED vars
            BY <3>3 DEF RestTypeOK, Tick, vars, task
        <3>4. CASE \E r \in Runs : Dispatcher(r) \/ Job(r)
            BY <2>1, <3>4 DEF RestTypeOK
        <3> QED
            BY <3>1, <3>2, <3>3, <3>4 DEF Next
<1> QED
    BY <1>1, <1>2, Always, PTL DEF Spec

(* A commit comes with the end of the push phase only in the action Push.  *)
LEMMA OnlyPush == ASSUME Inv, Next, Pushes PROVE Push
<1>1. work.phase = "push" /\ head' # head /\ work' = [work EXCEPT !.phase = "publish"] /\ work \in Works
    BY DEF Pushes, Inv, LaneTypeOK
<1>2. work' # work
    BY <1>1 DEF Works
<1>3. AiderWorks
    <2>1. ASSUME NEW r \in Runs, Dispatcher(r) \/ Job(r) PROVE FALSE
        BY <1>1, <1>2, <2>1, DispatcherLeaves, JobLeaves DEF task
    <2>2. ASSUME Acts \/ Tick PROVE FALSE
        BY <1>1, <1>2, <2>2, ActsLeave DEF Tick, task
    <2> QED
        BY <2>1, <2>2 DEF Next
<1> QED
    BY <1>1, <1>3 DEF AiderWorks, TaskStep, JobTimesOut, Lookup, Publish, Checkout, CheckoutFails, AgentFails,
        AgentEnds, Repair, Test, Lint, PushFails, Remote

(* Every variable keeps its type: the pull requests and the clock their    *)
(* bounds, a task at most one repair of what its tests saw, and a finished *)
(* task a status (run_task, finalize_rework_status).                       *)
THEOREM TypeCorrect == Spec => []TypeOK
<1>1. Inv /\ RestTypeOK => TypeOK
    <2> SUFFICES ASSUME Inv, RestTypeOK PROVE TypeOK
        OBVIOUS
    <2>1. TaskTypeOK
        BY DEF Inv, LaneTypeOK, WorkSound, Works, Numbers, RestTypeOK, TaskTypeOK
    <2>2. request \in [Runs -> Requests] /\ clock \in 0..MaxClock
        BY DEF Inv, LaneTypeOK
    <2>3. \A r \in Runs : request[r] \in Requests
        BY <2>2
    <2> QED
        BY <2>1, <2>2, <2>3 DEF RestTypeOK, TypeOK, Requests, Numbers
<1> QED
    BY <1>1, Always, RestTyped, PTL

(* Two reworks of one pull request are live together only if the younger   *)
(* was accepted more than TTL after the older, or a dispatch that was      *)
(* accepted was reported as failed (resolve_rework_event,                  *)
(* _active_rework_exists), whatever the reviews, jobs and lost calls.      *)
THEOREM OneRework == Spec => []OneReworkPerPull
<1>1. Lock => OneReworkPerPull
    <2> SUFFICES ASSUME Lock, NEW r \in Runs, NEW s \in Runs, SamePull(r, s), Live(r), Live(s),
                        request[r].since <= request[s].since,
                        "dispatch-failed" \notin {request[r].mark, request[s].mark}
                 PROVE  request[s].since - request[r].since > TTL
        BY DEF OneReworkPerPull
    <2>1. request[r].mark = "active" /\ request[s].mark = "active"
        BY DEF Lock, MarkSound, SamePull, Live
    <2> QED
        BY <2>1 DEF Lock, Apart
<1> QED
    BY <1>1, Locked, PTL

(* A status comment of success is true: in the agentic lane its run pushed *)
(* to the branch, in the Aider lane it pushed or never called the model    *)
(* (finalize_rework_status, evaluate_agentic_publication, run_task).       *)
THEOREM StatusTrue == Spec => []StatusIsTrue
<1>1. Inv => StatusIsTrue
    BY DEF Inv, RequestsSound, RequestSound, StatusIsTrue, Target
<1> QED
    BY <1>1, Always, PTL

(* What a task pushes is what its tests last passed on, and with the       *)
(* commits below it stays in scope (run_task, push of                      *)
(* run_azure_byok_task.py).                                                *)
THEOREM Tested == Spec => PushedIsTested
<1>1. Inv /\ [Next]_vars => [Pushes => /\ work.tested = work.edits
                                     /\ head'[work.branch] \cap Wide = {}]_vars
    <2> SUFFICES ASSUME Inv, Next, Pushes
                 PROVE  work.tested = work.edits /\ head'[work.branch] \cap Wide = {}
        BY DEF vars, task, Pushes
    <2>1. Push
        BY OnlyPush
    <2>2. work # None /\ work.phase = "push" /\ work.run \in Runs /\ work.branch \in Branches
          /\ head \in [Branches -> SUBSET Commits]
        BY DEF Pushes, Inv, LaneTypeOK, Works
    <2>3. head'[work.branch] = work.base \cup {work.run} /\ work.base \cap Wide = {}
        BY <2>1, <2>2 DEF Push, CumulativeInScope
    <2>4. work.run \notin Wide
        BY <2>2, TaskAssumption
    <2> QED
        BY <2>2, <2>3, <2>4 DEF Inv, WorkSound
<1> QED
    BY <1>1, Always, PTL DEF Spec, PushedIsTested

(* A rework pushes on top of all that was on the branch when it pushed,    *)
(* whoever put it there and whenever (push_branch with its lease).         *)
THEOREM PeoplesCommits == Spec => PeopleKept
<1>1. Inv /\ [Next]_vars => [(Pushes /\ work.existing # None)
                                  => head[work.branch] \subseteq head'[work.branch]]_vars
    <2> SUFFICES ASSUME Inv, Next, Pushes, work.existing # None
                 PROVE  head[work.branch] \subseteq head'[work.branch]
        BY DEF vars, task, Pushes
    <2>1. Push
        BY OnlyPush
    <2>2. work # None /\ work.phase = "push" /\ work.branch \in Branches
          /\ head \in [Branches -> SUBSET Commits]
        BY DEF Pushes, Inv, LaneTypeOK, Works
    <2>3. head'[work.branch] = work.base \cup {work.run} /\ head[work.branch] = work.lease
        BY <2>1, <2>2 DEF Push, LeaseHolds
    <2>4. work.base = work.lease
        BY <2>2 DEF Inv, WorkSound
    <2> QED
        BY <2>3, <2>4
<1> QED
    BY <1>1, Always, PTL DEF Spec, PeopleKept
=============================================================================
