----------------------------- MODULE CodingTask -----------------------------
(***************************************************************************)
(* One task of the Aider lane, from the lookup of its pull request to the  *)
(* push: a model edits the checkout, fixed checks decide what leaves it.   *)
(* The lane runs one job at a time, so there is one task at a time.        *)
(*                                                                         *)
(* The content of a branch is the set of commits it has beyond the default *)
(* branch.  A task adds one commit, which is named by the run of the task. *)
(***************************************************************************)
EXTENDS Naturals, FiniteSets

CONSTANTS
    Branches,   \* the branches of the issues
    Runs,       \* runs of a workflow; commit 0 is that of an earlier one
    People,     \* commits that people push
    Wide,       \* those of them that touch paths outside the scope of the task
    Recurring,  \* branches of the issues that are never paused
    MaxPull,    \* bound on the pull requests that are opened
    None

ASSUME TaskAssumption ==
    /\ Runs \subseteq Nat \ {0} /\ MaxPull \in Nat /\ None \notin Nat
    /\ Wide \subseteq People /\ People \cap Runs = {}
    /\ IsFiniteSet(Branches) /\ Recurring \subseteq Branches

Commits == People \cup Runs \cup {0}

VARIABLES
    head,    \* the commits on each branch
    pull,    \* the number of the open pull request of each branch, or None
    pulls,   \* how many pull requests were opened
    paused,  \* branches whose issue is labelled azure-paused
    work     \* the task at work, or None

task == <<head, pull, pulls, paused, work>>

Edits == {"nothing", "scope", "wide"}
Phases == {"lookup", "checkout", "agent", "test", "repair", "lint", "push", "publish", "exit"}

(* required is the pull request that a rework was asked for.  The job has  *)
(* cloned every branch, which is what a lease compares with.               *)
NewTask(run, branch, required, force) ==
    [run |-> run, branch |-> branch, required |-> required, force |-> force, phase |-> "lookup",
     existing |-> None, lease |-> head[branch], base |-> {}, edits |-> 0, tested |-> 0,
     timedOut |-> FALSE, repaired |-> FALSE, status |-> None]

At(phase)      == work # None /\ work.phase = phase
Goes(phase)    == work' = [work EXCEPT !.phase = phase]
Exits(status)    == work' = [work EXCEPT !.phase = "exit", !.status = status]

(* Mutant: a task that changed nothing looks like one that did its work. *)
AlwaysZero == "success"

Unsuccessful   == IF work.required # None THEN "failure" ELSE "success"
Pauses         == paused' = IF work.branch \in Recurring THEN paused ELSE paused \cup {work.branch}
Remote         == <<head, pull, pulls>>
-----------------------------------------------------------------------------
(* A task that does not validate ends the job in success, whatever was     *)
(* asked for.  A failed lookup is taken for a branch without pull request. *)
Lookup(valid, answered) ==
    /\ At("lookup")
    /\ LET existing == IF answered THEN pull[work.branch] ELSE None
       IN  IF ~valid THEN Exits("success")
           ELSE CASE work.required # None /\ existing # work.required -> Exits("failure")
                  [] existing # None /\ ~work.force -> Exits("success")
                  [] OTHER -> work' = [work EXCEPT !.existing = existing, !.phase = "checkout"]
    /\ UNCHANGED <<Remote, paused>>

(* A rework starts from the branch, anything else from the default branch. *)
Checkout ==
    /\ At("checkout")
    /\ LET now == head[work.branch]
       IN  work' = IF work.existing = None THEN [work EXCEPT !.phase = "agent"]
                   ELSE [work EXCEPT !.phase = "agent", !.lease = now, !.base = now]
    /\ UNCHANGED <<Remote, paused>>

CheckoutFails ==
    /\ At("checkout")
    /\ Exits(Unsuccessful)
    /\ UNCHANGED <<Remote, paused>>

(* The model's session does not start, fails, or ends with some changes;   *)
(* one that is interrupted at its time limit keeps what it changed.        *)
AgentFails(launched) ==
    /\ At("agent")
    /\ Exits(IF launched THEN Unsuccessful ELSE "failure")
    /\ Pauses /\ UNCHANGED Remote

AgentEnds(edit, timedOut) ==
    /\ At("agent")
    /\ CASE edit = "nothing" -> /\ Exits(Unsuccessful)
                                /\ IF work.required # None /\ ~timedOut
                                   THEN UNCHANGED paused ELSE Pauses
         [] edit = "wide"    -> Exits(Unsuccessful) /\ Pauses
         [] edit = "scope"   -> /\ work' = [work EXCEPT !.phase = "test", !.edits = 1,
                                                        !.timedOut = timedOut]
                                /\ UNCHANGED paused
    /\ UNCHANGED Remote

(* Mutant: every failed test starts another repair pass. *)
RepairsAgain == ~work.timedOut

(* One repair pass, and none after a timeout. *)
CanRepair == ~work.timedOut /\ ~work.repaired

Test(pass) ==
    /\ At("test")
    /\ IF pass THEN /\ work' = [work EXCEPT !.phase = "lint", !.tested = work.edits]
                    /\ UNCHANGED paused
       ELSE IF CanRepair THEN Goes("repair") /\ UNCHANGED paused
       ELSE Exits(Unsuccessful) /\ Pauses
    /\ UNCHANGED Remote

(* Mutant: the checks that ran before the repair are not repeated. *)
RepairUntested(edit, completed) ==
    /\ At("repair")
    /\ work' = [work EXCEPT !.phase = "lint", !.edits = @ + 1, !.repaired = TRUE]
    /\ UNCHANGED <<Remote, paused>>

(* The diff is checked again, and only a pass that completed is tested.    *)
Repair(edit, completed) ==
    /\ At("repair")
    /\ IF edit = "scope" /\ completed
       THEN /\ work' = [work EXCEPT !.phase = "test", !.edits = @ + 1, !.repaired = TRUE]
            /\ UNCHANGED paused
       ELSE /\ Exits(Unsuccessful)
            /\ IF edit = "nothing" /\ work.required # None THEN UNCHANGED paused ELSE Pauses
    /\ UNCHANGED Remote

Lint(pass) ==
    /\ At("lint")
    /\ IF pass THEN Goes("push") /\ UNCHANGED paused ELSE Exits(Unsuccessful) /\ Pauses
    /\ UNCHANGED Remote

(* The whole diff against the default branch must be in scope. *)
CumulativeInScope == work.base \cap Wide = {}

(* Mutant: a forced push without a lease. *)
LeaseIgnored == TRUE

LeaseHolds == head[work.branch] = work.lease

Push ==
    /\ At("push") /\ CumulativeInScope /\ LeaseHolds
    /\ head' = [head EXCEPT ![work.branch] = work.base \cup {work.run}]
    /\ Goes("publish")
    /\ UNCHANGED <<pull, pulls, paused>>

(* Nothing to commit, no diff left, a diff out of scope, a push refused.   *)
PushFails ==
    /\ At("push")
    /\ Exits(Unsuccessful)
    /\ UNCHANGED <<Remote, paused>>

(* The description of the open pull request is refreshed, or one is opened. *)
Publish(answered) ==
    /\ At("publish")
    /\ IF work.existing # None
       THEN Exits(IF answered THEN "success" ELSE "failure") /\ UNCHANGED <<pull, pulls>>
       ELSE IF answered /\ pull[work.branch] = None /\ pulls < MaxPull
       THEN /\ pulls' = pulls + 1
            /\ pull' = [pull EXCEPT ![work.branch] = pulls + 1]
            /\ Exits("success")
       ELSE Exits("failure") /\ UNCHANGED <<pull, pulls>>
    /\ UNCHANGED <<head, paused>>

(* The job reaches its limit at any step; what was pushed stays pushed.    *)
JobTimesOut ==
    /\ work # None /\ work.phase # "exit"
    /\ Exits("cancelled")
    /\ UNCHANGED <<Remote, paused>>

TaskStep ==
    \/ \E valid, answered \in BOOLEAN : Lookup(valid, answered)
    \/ \E answered \in BOOLEAN : Publish(answered)
    \/ Checkout \/ CheckoutFails
    \/ \E launched \in BOOLEAN : AgentFails(launched)
    \/ \E edit \in Edits, b \in BOOLEAN : AgentEnds(edit, b) \/ Repair(edit, b)
    \/ \E pass \in BOOLEAN : Test(pass) \/ Lint(pass)
    \/ Push \/ PushFails
-----------------------------------------------------------------------------
TaskTypeOK ==
    /\ head \in [Branches -> SUBSET Commits]
    /\ pull \in [Branches -> (1..MaxPull) \cup {None}]
    /\ pulls \in 0..MaxPull
    /\ paused \in SUBSET (Branches \ Recurring)
    /\ work = None \/
       /\ work.run \in Runs /\ work.branch \in Branches /\ work.phase \in Phases
       /\ {work.required, work.existing} \subseteq (1..MaxPull) \cup {None}
       /\ work.base \subseteq Commits
       /\ work.tested \in 0..work.edits /\ work.edits \in 0..2
       /\ work.status \in {None, "success", "failure", "cancelled"}
=============================================================================
