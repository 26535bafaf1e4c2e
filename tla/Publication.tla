---------------------------- MODULE Publication -----------------------------
(***************************************************************************)
(* How a dashboard is published: the GitHub workflows that probe Azure,    *)
(* merge what they found onto the published snapshot, extend the history   *)
(* and deploy (daily-scan.yml, regional-probe-run.yml,                     *)
(* dashboard-redeploy.yml, the publish-dashboard action) and the scripts   *)
(* they run (archive_publication.py, publication_recovery.py, history.py,  *)
(* snapshot_merge.py).                                                     *)
(*                                                                         *)
(* A run probes outside the lock, then enters the concurrency group        *)
(* "dashboard-publication": one job of the group runs, at most one waits,  *)
(* and a newer arrival cancels the one that waits.  Inside it works through *)
(* its steps; any step may fail or time out, which ends the job.           *)
(*                                                                         *)
(* In archive mode each run uploads a generation of its own, verifies it,  *)
(* and moves the durable pointer to it before it deploys the site.  In     *)
(* legacy mode the site itself is the only copy of the history.            *)
(***************************************************************************)
EXTENDS HistoryIndex

CONSTANTS
    Runs,           \* workflow run attempts, each with a generation URL of its own
    Probes,         \* the modalities a run probes; none for a dashboard redeploy
    Daily,          \* runs of the daily scan, which publish even if a probe failed
    UpdatesHistory, \* runs that file their snapshot in the history
    Overrides,      \* the sources whose URL the operator of a redeploy overrides
    ArchiveMode,    \* AZWATCH_ARCHIVE_BASE_URL is set
    Bootstrap,      \* AZWATCH_ARCHIVE_BOOTSTRAP is "true"
    Genesis,        \* the generation of a run that ended before this behaviour
    First,          \* the time of the observation that was published last
    Sample,         \* the evidence of the snapshot file in the repository
    Site,           \* the public site, as a place to read a snapshot or history
    None

Rebuilds == {r \in Runs : Probes[r] = {}}
Sources  == {"snapshot", "history"}

Places      == Runs \cup {Genesis}
Origins     == Places \cup {Site}
Generations == [snap : Snapshots, index : Indexes, intact : BOOLEAN]

ASSUME RunAssumption ==
    /\ Probes \in [Runs -> SUBSET Modalities]
    /\ Daily \subseteq Runs
    /\ UpdatesHistory \subseteq Runs
    /\ Overrides \in [Runs -> SUBSET Sources]
    /\ \A r \in Runs \ Rebuilds : r \in UpdatesHistory /\ Overrides[r] = {}
    /\ ArchiveMode \in BOOLEAN /\ Bootstrap \in BOOLEAN
    /\ Genesis \notin Runs /\ Site \notin Runs \cup {Genesis}
    /\ None \notin Origins \cup Snapshots \cup Indexes \cup Generations

(* The file data/snapshots/latest.json of the repository has evidence, and *)
(* it is of a date before anything that was published.                     *)
ASSUME SampleAssumption ==
    /\ First \in Time /\ Sample \in Shards /\ Present(Sample) # {}
    /\ \A m \in Present(Sample) : DayOf[Sample[m]] < DayOf[First]

VARIABLES
    clock,    \* the time that the next probe stamps on its shard
    phase,    \* where each run is
    todo,     \* the modalities a probing run has still to probe
    shards,   \* the evidence a run's probe jobs uploaded
    lock,     \* the run inside the publication group
    pending,  \* the run that waits for it
    source,   \* the origins a run resolved for its base snapshot and history
    snap,     \* the candidate snapshot in a run's workspace
    index,    \* the candidate history in a run's workspace
    ready,    \* the history step succeeded
    evidence, \* the recovery bundle retained for a run
    gens,     \* the generation stored under each run's archive URL
    pointer,  \* publication-latest.json
    site      \* the deployed site, and the generation its readers are pinned to

probing   == <<clock, todo>>
workspace == <<shards, source, snap, index, ready>>
group     == <<lock, pending>>
public    == <<gens, pointer, site>>
vars      == <<clock, phase, todo, shards, lock, pending, source, snap, index,
               ready, evidence, gens, pointer, site>>

Waiting == {"idle", "probing", "queued"}
Inside  == {"sources", "merge", "history", "bundle", "build", "upload", "verify",
            "pointer", "confirm", "deploy"}
Ended   == {"done", "failed", "cancelled"}

NoShards == [m \in Modalities |-> NoEvidence]
NoSource == [o \in Sources |-> None]

Published(place) == IF place = Site THEN site ELSE gens[place]

(* What the next run resolves as its base: the pointer's generation, or    *)
(* the live site when there is no archive yet.                             *)
Head == IF ArchiveMode /\ pointer # None THEN pointer ELSE Site

Committed == [snap |-> Published(Head).snap, index |-> Published(Head).index]

-----------------------------------------------------------------------------
(* Time starts with the observation that was published last. *)
Baseline == {s \in Snapshots : s.ts = First /\ \A m \in Modalities : s.probed[m] \in {NoEvidence, First}}

Init ==
    /\ \E s \in Baseline :
          /\ clock = s.ts
          /\ LET first == [days   |-> [d \in Dates |-> IF d = DayOf[s.ts] THEN s ELSE NoDay],
                           latest |-> DayOf[s.ts]]
             IN /\ pointer \in IF ArchiveMode THEN {None, Genesis} ELSE {None}
                /\ gens = [p \in Places |->
                             IF p = pointer
                             THEN [snap |-> s, index |-> first, intact |-> TRUE] ELSE None]
                /\ site = [snap |-> s, index |-> first, base |-> pointer]
    /\ phase = [r \in Runs |-> "idle"]
    /\ todo = [r \in Runs |-> Probes[r]]
    /\ shards = [r \in Runs |-> NoShards]
    /\ lock = None /\ pending = None
    /\ source = [r \in Runs |-> NoSource]
    /\ snap = [r \in Runs |-> None] /\ index = [r \in Runs |-> None]
    /\ ready = [r \in Runs |-> FALSE]
    /\ evidence = [r \in Runs |-> "none"]

Tick == /\ clock < MaxTime
        /\ clock' = clock + 1
        /\ UNCHANGED <<phase, todo, workspace, group, evidence, public>>

-----------------------------------------------------------------------------
(* Stage 1, outside the lock.  Daily scans exclude one another.            *)

Start(r) ==
    /\ phase[r] = "idle"
    /\ r \in Daily => \A q \in Daily : phase[q] \in Ended \cup {"idle"}
    /\ phase' = [phase EXCEPT ![r] = "probing"]
    /\ UNCHANGED <<probing, workspace, group, evidence, public>>

ProbeSucceeds(r, m) ==
    /\ phase[r] = "probing" /\ m \in todo[r]
    /\ todo' = [todo EXCEPT ![r] = @ \ {m}]
    /\ shards' = [shards EXCEPT ![r][m] = clock]
    /\ UNCHANGED <<clock, phase, source, snap, index, ready, group, evidence, public>>

(* A daily scan carries on without the shard; a focused run ends here.     *)
ProbeFails(r, m) ==
    /\ phase[r] = "probing" /\ m \in todo[r]
    /\ IF r \in Daily
       THEN /\ todo' = [todo EXCEPT ![r] = @ \ {m}]
            /\ UNCHANGED <<phase, shards>>
       ELSE /\ todo' = [todo EXCEPT ![r] = {}]
            /\ phase' = [phase EXCEPT ![r] = "failed"]
            /\ shards' = [shards EXCEPT ![r] = NoShards]
    /\ UNCHANGED <<clock, source, snap, index, ready, group, evidence, public>>

(* Mutant: the job does not join the concurrency group. *)
EnterUnlocked(r) ==
    /\ lock' = r
    /\ phase' = [phase EXCEPT ![r] = "sources"]
    /\ UNCHANGED pending

(* GitHub concurrency group: one job inside, at most one waiting, which a  *)
(* newer arrival replaces and so cancels.                                  *)
Enter(r) ==
    /\ lock = None
    /\ lock' = r
    /\ phase' = [phase EXCEPT ![r] = "sources"]
    /\ UNCHANGED pending

Wait(r) ==
    /\ lock # None
    /\ pending' = r
    /\ phase' = [q \in Runs |-> CASE q = r       -> "queued"
                                  [] q = pending -> "cancelled"
                                  [] OTHER       -> phase[q]]
    /\ UNCHANGED lock

(* The job asks for the publication group.                                 *)
Enqueue(r) ==
    /\ phase[r] = "probing" /\ todo[r] = {}
    /\ Enter(r) \/ Wait(r)
    /\ UNCHANGED <<probing, workspace, evidence, public>>

-----------------------------------------------------------------------------
(* Stage 2, inside the lock.                                               *)

At(r, step) == phase[r] = step

Advance(r, step) == /\ phase' = [phase EXCEPT ![r] = step]
                    /\ UNCHANGED group

(* Mutant: the end of a job does not start the job that waits. *)
FinishForgetsPending(r, outcome) ==
    /\ lock' = None /\ pending' = None
    /\ phase' = [phase EXCEPT ![r] = outcome]
    /\ shards' = [shards EXCEPT ![r] = NoShards]
    /\ source' = [source EXCEPT ![r] = NoSource]
    /\ snap'   = [snap EXCEPT ![r] = None]
    /\ index'  = [index EXCEPT ![r] = None]
    /\ ready'  = [ready EXCEPT ![r] = FALSE]

(* The job ends: its runner's workspace is gone and the waiting job starts. *)
Finish(r, outcome) ==
    /\ lock' = pending /\ pending' = None
    /\ phase' = [q \in Runs |-> CASE q = r       -> outcome
                                  [] q = pending -> "sources"
                                  [] OTHER       -> phase[q]]
    /\ shards' = [shards EXCEPT ![r] = NoShards]
    /\ source' = [source EXCEPT ![r] = NoSource]
    /\ snap'   = [snap EXCEPT ![r] = None]
    /\ index'  = [index EXCEPT ![r] = None]
    /\ ready'  = [ready EXCEPT ![r] = FALSE]

(* Any step fails, or the job reaches its time limit.                      *)
Fail(r) ==
    /\ phase[r] \in Inside
    /\ Finish(r, "failed")
    /\ UNCHANGED <<probing, evidence, public>>

(* Mutant: a missing pointer always falls back to the public site. *)
AnyHead == TRUE

(* A missing pointer is an error unless bootstrap is enabled: such a run    *)
(* can only Fail.  An override names any publication the operator likes.   *)
HasHead == ArchiveMode /\ pointer = None => Bootstrap

Readable == {o \in Origins : o = Site \/ gens[o] # None}

(* Mutant: a run merges onto the live site instead of the durable pointer. *)
ResolveLive(r) ==
    /\ At(r, "sources") /\ HasHead
    /\ source' = [source EXCEPT ![r] = [o \in Sources |-> Site]]
    /\ Advance(r, "merge")
    /\ UNCHANGED <<probing, shards, snap, index, ready, evidence, public>>

Resolve(r) ==
    /\ At(r, "sources") /\ HasHead
    /\ \E chosen \in [Sources -> Readable] :
          /\ \A o \in Sources \ Overrides[r] : chosen[o] = Head
          /\ source' = [source EXCEPT ![r] = chosen]
    /\ Advance(r, "merge")
    /\ UNCHANGED <<probing, shards, snap, index, ready, evidence, public>>

(* Without any overlay merge-snapshot takes the file that the checkout has *)
(* at data/snapshots/latest.json: so does a daily scan whose probe jobs    *)
(* all failed.  A redeploy does not merge, and keeps what it fetched.      *)
Overlays(r) == IF r \in Rebuilds \/ Present(shards[r]) # {} THEN shards[r] ELSE Sample

Merge(r) ==
    /\ At(r, "merge")
    /\ snap' = [snap EXCEPT ![r] =
                  MergeShards(Published(source[r]["snapshot"]).snap, Overlays(r))]
    /\ Advance(r, "history")
    /\ UNCHANGED <<probing, shards, source, index, ready, evidence, public>>

FetchedIndex(r) == Published(source[r]["history"]).index

(* Mutant: a run that probes publishes the history as it fetched it. *)
CandidateUnfiled(r) == FetchedIndex(r)

(* update-history, or fetch-history for a redeploy that files nothing.     *)
CandidateIndex(r) == IF r \in UpdatesHistory
                     THEN UpdateIndex(FetchedIndex(r), snap[r]) ELSE FetchedIndex(r)

BuildHistory(r) ==
    /\ At(r, "history")
    /\ index' = [index EXCEPT ![r] = CandidateIndex(r)]
    /\ ready' = [ready EXCEPT ![r] = TRUE]
    /\ Advance(r, "bundle")
    /\ UNCHANGED <<probing, shards, source, snap, evidence, public>>

(* The history step fails; it may have got as far as fetching the index.   *)
HistoryFails(r) ==
    /\ At(r, "history")
    /\ \E left \in {None, FetchedIndex(r)} : index' = [index EXCEPT ![r] = left]
    /\ Advance(r, "bundle")
    /\ UNCHANGED <<probing, shards, source, snap, ready, evidence, public>>

(* Mutant: any history that was produced is good enough to publish. *)
ReplayableUnchecked(r) == index[r] # None

Replayable(r) == /\ index[r] # None
                 /\ ValidIndex(index[r])
                 /\ AdmitsObservation(index[r], snap[r])

(* publication_recovery.py create: the bundle is complete only if the      *)
(* history step succeeded and what it left validates.                      *)
Bundle(r) ==
    /\ At(r, "bundle")
    /\ evidence' = [evidence EXCEPT ![r] =
                      IF Replayable(r) /\ ready[r] THEN "complete" ELSE "incomplete"]
    /\ IF Replayable(r) /\ ready[r]
       THEN /\ Advance(r, "build")
            /\ UNCHANGED workspace
       ELSE Finish(r, "failed")
    /\ UNCHANGED <<probing, public>>

(* Mutant: the archive upload step is skipped. *)
BuildSkipsUpload(r) ==
    /\ At(r, "build")
    /\ Advance(r, "deploy")
    /\ UNCHANGED <<probing, workspace, evidence, public>>

(* Build the site and enforce its budget (over budget: Fail).              *)
Build(r) ==
    /\ At(r, "build")
    /\ Advance(r, IF ArchiveMode THEN "upload" ELSE "deploy")
    /\ UNCHANGED <<probing, workspace, evidence, public>>

(* Some objects may be missing or corrupt afterwards.                      *)
Upload(r) ==
    /\ At(r, "upload")
    /\ \E intact \in BOOLEAN :
          gens' = [gens EXCEPT ![r] = [snap |-> snap[r], index |-> index[r], intact |-> intact]]
    /\ Advance(r, "verify")
    /\ UNCHANGED <<probing, workspace, evidence, pointer, site>>

(* Mutant: the pointer moves without reading the objects back. *)
VerifySkipped(r) ==
    /\ At(r, "verify")
    /\ Advance(r, "pointer")
    /\ UNCHANGED <<probing, workspace, evidence, public>>

(* Every object is read back; a difference raises, that is, Fail.          *)
Verify(r) ==
    /\ At(r, "verify") /\ gens[r].intact
    /\ Advance(r, "pointer")
    /\ UNCHANGED <<probing, workspace, evidence, public>>

CommitPointer(r) ==
    /\ At(r, "pointer")
    /\ pointer' = r
    /\ Advance(r, "confirm")
    /\ UNCHANGED <<probing, workspace, evidence, gens, site>>

ConfirmPointer(r) ==
    /\ At(r, "confirm") /\ pointer = r
    /\ Advance(r, "deploy")
    /\ UNCHANGED <<probing, workspace, evidence, public>>

Deploy(r) ==
    /\ At(r, "deploy")
    /\ site' = [snap |-> snap[r], index |-> index[r],
                base |-> IF ArchiveMode THEN r ELSE None]
    /\ Finish(r, "done")
    /\ UNCHANGED <<probing, evidence, gens, pointer>>

-----------------------------------------------------------------------------
ProbeEnds(r) == \E m \in Modalities : ProbeSucceeds(r, m) \/ ProbeFails(r, m)

Step(r) == \/ Enqueue(r) \/ Resolve(r) \/ Merge(r) \/ BuildHistory(r) \/ HistoryFails(r)
           \/ Bundle(r) \/ Build(r) \/ Upload(r) \/ Verify(r) \/ CommitPointer(r)
           \/ ConfirmPointer(r) \/ Deploy(r) \/ Fail(r)

Next == Tick \/ \E r \in Runs : Start(r) \/ ProbeEnds(r) \/ Step(r)

Spec == Init /\ [][Next]_vars

(* A job that runs ends one way or the other: by timeout-minutes in the    *)
(* daily scan and the focused runs, and by the limit that GitHub sets for  *)
(* every job in a redeploy.  Nobody is obliged to start a run.             *)
Fairness == \A r \in Runs : WF_vars(ProbeEnds(r)) /\ WF_vars(Step(r))

FairSpec == Spec /\ Fairness

-----------------------------------------------------------------------------
(* Properties *)

(* Type invariant. *)
TypeOK ==
    /\ clock \in Time
    /\ phase \in [Runs -> Waiting \cup Inside \cup Ended]
    /\ todo \in [Runs -> SUBSET Modalities]
    /\ shards \in [Runs -> Shards]
    /\ lock \in Runs \cup {None} /\ pending \in Runs \cup {None}
    /\ source \in [Runs -> [Sources -> Origins \cup {None}]]
    /\ snap \in [Runs -> Snapshots \cup {None}]
    /\ index \in [Runs -> Indexes \cup {None}]
    /\ ready \in [Runs -> BOOLEAN]
    /\ evidence \in [Runs -> {"none", "incomplete", "complete"}]
    /\ gens \in [Places -> Generations \cup {None}]
    /\ pointer \in Places \cup {None}
    /\ site \in [snap : Snapshots, index : Indexes, base : Places \cup {None}]

(* The durable pointer never names a generation that is absent, partial or *)
(* unverified, nor one whose run retained no complete recovery bundle      *)
(* (poc-deployment.md: "only then does it update publication-latest.json"). *)
PointerIntact ==
    pointer # None => /\ gens[pointer] # None
                      /\ gens[pointer].intact
                      /\ pointer \in Runs => evidence[pointer] = "complete"

(* Readers of the site stay pinned to a generation that holds exactly the  *)
(* snapshot and history the site was built from, whatever later runs do.   *)
ReadersPinned ==
    site.base # None => gens[site.base] = [snap |-> site.snap, index |-> site.index,
                                           intact |-> TRUE]

(* What is committed is always a valid baseline: the next redeploy can     *)
(* bundle it again, and recovery can replay it.                            *)
CommittedReplayable == /\ ValidIndex(Committed.index)
                       /\ AdmitsObservation(Committed.index, Committed.snap)

(* Without overrides, the committed snapshot is the history's newest entry. *)
SnapshotIsLatestDay ==
    Committed.index.days[Committed.index.latest] = Committed.snap

(* The site never shows history that the committed history has lost: every *)
(* day it shows, before its newest, is committed with the same content.    *)
SiteRecoverable ==
    /\ Recorded(site.index) \subseteq Recorded(Committed.index)
    /\ \A d \in Recorded(site.index) :
          d < site.index.latest => Committed.index.days[d] = site.index.days[d]

(* No step drops a committed day, goes back to an older latest date, or    *)
(* rewrites a day before the newest, even when a run merges late results.  *)
PastDaysFrozen ==
    [][/\ Recorded(Committed.index) \subseteq Recorded(Committed'.index)
       /\ Committed.index.latest <= Committed'.index.latest
       /\ \A d \in Dates : d < Committed.index.latest =>
             Committed'.index.days[d] = Committed.index.days[d]]_vars

(* Every new committed snapshot is the previous one with one run's shards  *)
(* merged onto it: no run overwrites what another one committed meanwhile, *)
(* and a scan that found nothing commits nothing of the file it merged.    *)
NoLostUpdate ==
    [][Committed'.snap # Committed.snap =>
          \E r \in Runs : Committed'.snap = MergeShards(Committed.snap, shards[r])]_vars

(* Without a pointer and without bootstrap nothing is ever published: a    *)
(* missing archive is not permission to start an empty one.                *)
MissingPointerBlocks ==
    [][ArchiveMode /\ ~Bootstrap /\ pointer = None => UNCHANGED <<pointer, site>>]_vars

(* Every run that started ends, in particular no run waits for ever.       *)
EveryRunEnds == \A r \in Runs : phase[r] # "idle" ~> phase[r] \in Ended
-----------------------------------------------------------------------------
Promise == INSTANCE PublishedHistory
             WITH committed <- Committed,
                  live <- [snap |-> site.snap, index |-> site.index]

(* Publication implements the promise made to readers. *)
KeepsPromise == Promise!Spec
=============================================================================
