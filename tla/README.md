# Azure Region Monitor in TLA+

Azure Region Monitor asks Azure every day which features each region offers, keeps one snapshot per UTC
date, compares them, and publishes a static dashboard with its history. This directory holds TLA+ modules of
the parts where order, failure and history matter, TLC configurations that check them on small instances,
and proofs, checked by TLAPS, that hold for every value of the constants.

`PROJECT.json` lists components, runs, mutants, the source lines each definition models, findings, hazards
and theorems.

## The system

| Component | State | Operations | Hard behaviour |
|---|---|---|---|
| Probe runner (`runner.py`, `probes/`) | results per region, listed features, blocked catalogs | call each probe for each region; normalize catalogs | a call fails in one region only |
| Snapshot merge (`snapshot_merge.py`, `cli.py`) | the merged snapshot | merge a shard; prune retired modalities | missing shards, no shard at all, partial coverage, path order |
| History (`history.py`) | index, one snapshot and day file per date | fetch, file a snapshot, migrate, rebuild readers' pages | reruns of a date, interrupted fetch, retries |
| Briefing (`briefing.py`, `summary.py`) | one record per changed or tracked cell and day | compare with the day before and its records | absences across outages, days later |
| Latency history (`history.py`) | the last measurements | add, backfill, cap | rows carried forward |
| Recovery (`publication_recovery.py`) | bundles with manifests | create, verify, replay | stale or conflicting observations |
| Archive (`archive.py`, `archive_publication.py`) | immutable generations, one mutable pointer | resolve sources, upload, verify, move pointer | partial upload, crash before deploying |
| Workflows (`daily-scan.yml`, `regional-probe-run.yml`, `dashboard-redeploy.yml`, `publish-dashboard`) | runs, the concurrency group, the site | probe jobs, deploy job | overlapping runs, cancelled waiters, time limits |
| Learn lookup (`learn_lookup.py`) | cache with expiry | look up within a budget | budget runs out, search fails |
| Narrative (`summary.py`) | none | model text or a deterministic fallback | the model fails |
| Backlog cycle (`run_azure_backlog_cycle.py`) | issues and their labels | select, ask for an objective | which issue is next, which starve |
| Agentic outcome (`record_azure_agentic_outcome.py`) | state and failure comments, labels | reserve, evaluate, count, pause | a follower that is overtaken or dies |
| PR rework (`manage_azure_pr_rework.py`, `azure-pr-rework.yml`) | status comment on the pull request | resolve, mark, dispatch, finalize | check then create, expiry, lost answers |
| Coding tasks (`run_azure_byok_task.py`) | a checkout, a branch, a pull request | look up, edit, test, repair, push, publish | people push meanwhile, time limits, early returns |
| Documentation review (`prepare_documentation_review.py`, `scheduled-azure-maintenance.yml`) | a checkpoint in the Actions cache | gate, call the model, record | merges during a run, evicted cache |
| Site, blog, feedback, API, assets | none, or one page's | render, read | pure or local |

The components meet in three places. Probe jobs leave **shards** (snapshots of one modality) that the deploy
job merges onto the **published snapshot**. The merged snapshot is filed in the **history**, whose newest day
is again the published snapshot. The history is uploaded as a **generation**, the **pointer** is moved to it,
and the **site** that is deployed reads from it. The next run starts from the pointer (or, without an archive,
from the site), so whatever is published wrongly is the base of everything later.

What makes each part correct:

- Publication: no run loses what another published; a past day never changes; the pointer names only verified
  generations; what is committed can always be published and replayed again; every run ends.
- Runner and merge: an outage is never a verdict; a modality is replaced as a whole or carried forward as a whole.
- History and briefing: dates told to readers are true of the retained days; "new" means new; a lost listing
  stays on the list until it returns; news rests on an answer of that date.
- Fetch and recovery: a fetch replaces the local history completely or not at all; a baseline that is accepted
  is one history; replay files every observation.
- Agentic lanes: one rework at a time per pull request; a status says what happened; what is pushed was tested
  and drops nobody's commit; a clarification starts at most one paid session and is not lost; no issue is
  paused for fewer failures than the threshold.
- Documentation review: what is recorded as reviewed is what the model saw; nothing is paid for twice; the
  general review comes.

## Modules

| Module | Models | Extends / instantiates |
|---|---|---|
| `HistoryIndex` | snapshots by time and evidence per modality, merge of shards, index, validation | |
| `Publication` | runs, concurrency group, every step of the deploy job, archive and site | `HistoryIndex`, `PublishedHistory` |
| `PublishedHistory` | what publication promises, without runs | `HistoryIndex` |
| `EvidenceGrid` | a snapshot as a grid of statuses, merge, prune, diff | |
| `CatalogScan` | a normalized scan of one catalog as one operator | `EvidenceGrid` |
| `ProbeRunner` | the loops of one probe job | `CatalogScan` |
| `OverlayMerge` | merging the shards of several jobs in any order | `EvidenceGrid` |
| `Briefing` | the record of each cell of a day | `EvidenceGrid` |
| `DailyEvidence` | scans, merges, filing and briefing, day after day | `Briefing`, `CatalogScan` |
| `HistoryFetch` | `fetch_history` while the site is deployed again | |
| `Recovery` | the local update, `validate_history` and the replay of bundles on what was fetched | `HistoryFetch` |
| `AgenticBacklog` | the scheduled lane: selection, reservation, session, follower | |
| `CodingTask` | one task of the Aider lane from its lookup to its pull request | |
| `PullRework` | reviews, dispatchers, status comments, the jobs of both lanes, people, time | `CodingTask` |
| `DocumentationReview` | the gate, the task and the record of the documentation review | |
| `PublicationProofs` | proofs about `Publication` | |
| `ProbeProofs`, `OverlayProofs`, `EvidenceProofs` | proofs about `ProbeRunner`, `OverlayMerge` and `DailyEvidence` | |
| `RecoveryProofs` | proofs about `HistoryFetch` and `Recovery` | |
| `BacklogProofs`, `LaneProofs`, `ReviewProofs` | proofs about `AgenticBacklog`, `PullRework` and `DocumentationReview` | |
| `MC*` | instances for TLC | |

### Publication

A run is a workflow run attempt. `Start` to `Enqueue` are stage 1 (probe jobs), which happens outside the
concurrency group; `Enter`, `Wait` and `Finish` are the group `dashboard-publication` as GitHub runs it: one
job inside, at most one waiting, a newcomer cancels the waiter. Each step of the deploy job is an action in
the order of the workflow: `Resolve` (`archive_publication.py sources`), `Merge` (`merge-snapshot`),
`BuildHistory` or `HistoryFails` (`update-history` or `fetch-history`), `Bundle` (recovery bundle and the
check that it is complete), `Build`, `Upload`, `Verify`, `CommitPointer`, `ConfirmPointer`, `Deploy`. `Fail`
ends a run at any step: the step failed, or `timeout-minutes` was reached.

A snapshot is its timestamp and, per modality, the time at which its evidence was probed: enough to tell
whose evidence is published, and whether it went back in time. A generation carries `intact`, whether
all its objects are stored as they were uploaded. The daily-scan group is part of `Start`.

If every probe job of a daily scan failed, `merge-snapshot` is called without an overlay and takes the file
`data/snapshots/latest.json` that the job has checked out (`cli.py:256`): `Overlays` is then `Sample`, which is
older than anything published (`SampleAssumption`). The merged snapshot has the sample's time, so its date is before the
latest one of the history, and `validate_history` refuses what was filed: `Bundle` is incomplete and the run can only fail.
`NoLostUpdate` says that nothing of the sample is committed. `Bundle` is complete only if the history step succeeded
and what it left validates.

### Evidence

A grid gives each region and feature a status or `Absent`. `Category` is the modality a merge replaces
(`snapshot_merge.py`), `Modality` the one readers see (`briefing.py`); they differ for the sentinel of the AI
model catalog, which matters (see Findings). `ProbeRunner` is the code's loops with their bookkeeping
(`normalized`, `blocked`); `CatalogScan` says in one operator what the loops leave, and the invariant
`ScanIsOverlay` ties the two, so that `DailyEvidence` can use a whole scan as one step.

`OverlayMerge` keeps what the two abstract from: which cells a shard covers. `Merge` merges one shard, `Write` prunes and
writes; `MergeSample` is the command without a shard, which merges the repository's sample over the published rows instead
(see Findings). `CarriedOrReplaced` says of every cell, in both cases, which overlay it comes from.

`DailyEvidence` chooses for every scanned region what Azure answers: a list, or a failure. `FileNewDay` and
`FileAgain` are `update_history` for a new date and for the date already filed; both build the records with
`BuildBriefing` from the earlier days. `heard` remembers what Azure answered on the latest date: it exists
only so that properties can speak about it. `ScanFails` is a run whose catalog job failed while another job left a
shard; with no shard at all nothing is published, as above.

### Fetch and recovery

A directory is a function from file names to contents, and the content of a file is the observations it tells
of: a snapshot tells of its own, a day's changes of two, the index and the recent changes of all days. That is
enough to tell a whole history from a mixture. References to latency measurements and to features are folded
into `Recent`. `HistoryFetch` copies object by object while `Deploy` replaces the site: `ReadIndex`,
`ReadArchiveIndex` (when the index points to an archive generation, every later read goes there),
one action per object, `Retry`, and the swap as its two renames with a process that may die before, between and
after them. A missing index is `GivesUp`, as every other error.

`Recovery` adds what happens to the local directory afterwards. `WriteSnapshot`, `WriteChanges`, `WriteIndex` and
`WriteRecent` are the files that `update_history` writes, in its order, and `UpdateDies` comes between any two;
the first also moves plain snapshots to compressed names. A local update files an observation that is newer than
the index. `Replay` begins `publication_recovery.py replay`: `Accepts` is what is verified of the bundles and the
baseline, and the gaps between the observations are computed before anything is filed. `ReplayOne` files one
observation after the other, the earliest first, in a copy of the history (`File` is what one does to its index);
`ReplayEnds` renames the copy to its place and `ReplayDies` removes it. A deployment may happen meanwhile. Nothing
is modelled after a replay that ended.

### The agentic lanes

`AgenticBacklog`: `Prepare` is one `prepare` job up to the reservation, `Reserve` the comment written before the paid
session, `SessionEnds` the session. The follower is a workflow of its own that nothing excludes:
`FollowerReads`, `FollowerDecides`, `FollowerCounts`, `FollowerPauses` are its calls in order, `FollowerDies` comes
between any two. `given`, `spent`, `streak` and `raced` are history variables. `raced` is about one window:
a run may reserve an issue while the follower of an earlier run has already read its state. The follower then
writes over the reservation, so the reply counts as new again, although docs/agentic-sessions.md:69 promises
one re-evaluation per reply; the properties say what holds of all other issues.

`CodingTask` is `run_task` of the Aider lane as a sequence of phases; an action is the code between two places
where the world may have changed or the task may return. The content of a branch is the set of commits it has beyond
the default branch. `PullRework` runs these tasks: `Review` to `DispatcherDies` are the dispatcher workflow,
`Manual` to `AgenticEnds` the jobs of the two lanes with their concurrency groups, `PersonPushes`, `ClosePull` and
`Unpause` what people do. A call may take effect and its answer be lost, so `PostStatus` and `Dispatch` have an
`answered`. One tick of the clock stands for the time limit of an Aider job (70 minutes); the marker of a rework
lives two hours, more than one tick and less than two. The read and the update of a status comment by its own run
are one step. A manual run handles one issue.

What "success" means differs between the lanes, and `StatusIsTrue` says how. The agentic lane reads the branch again before
it says so (`Evaluate`), so there it means a push; a cancelled job is reported as `cancelled`, any other that did not
succeed as `blocked`. In the Aider lane it is the status of the job, and a job succeeds without a push if no task came
out of the issue (`HasTask`: it was closed or lost its label, it has no objective or category, or it is about unknown
statuses and the published snapshot has none, `run_azure_backlog_cycle.py:217`), or if the task does not validate
(`Lookup`, `run_azure_byok_task.py:1721`). The comment itself warns that a completed job alone does not prove an update.
What the property excludes is a success after the model was called and its work was dropped at one of the later returns.

### Documentation review

The source is its fingerprint, time is days since the last general review, and the cache keeps one checkpoint or
loses it (`Evict`). `Gate`, `Build`, `Task`, `AgentEnds` and `Record` are the steps of the workflow; `Task` re-reads the
default branch and refuses a head that moved. An attempt that failed before the model was called is recorded like
one that the model failed. The default branch only grows here: after a rewrite the checkpoint's commit is no
ancestor and the gate fails until the cache loses it (a listed hazard).

## Runs

| Run | Question | Instance |
|---|---|---|
| `archive` | do racing runs, failures and partial uploads ever break the pointer, the site or the history? | a daily, a focused run and a redeploy, two modalities, the sample's time and three later ones on two dates |
| `runs_end` | does every run end? | as `archive`, one timestamp besides the sample's, fairness |
| `overlays` | is each cell the covering overlay's or carried forward, in any order? | two jobs, two regions, four features, a sample that covers one modality |
| `catalog` | can an outage become a verdict? | three regions, a catalog of two items and a fixed probe |
| `daily` | are dates, novelty, tracking and news true? | four dates, two runs a date, two regions, one item with its sentinel and a retired measurement |
| `fetch` | is the local history always whole, and what is replayed on it complete? | four generations on two dates, one of them archived and one with a legacy name, five initial directories, six bundles |
| `backlog` | does each reply count once, is none lost, is a pause earned? | three runs on one issue, two replies with one edit, three acts of people, a threshold of two |
| `lanes` | do reworks exclude each other, and are their statuses and pushes sound? | two runs, a branch of each lane, two commits of people, one of them out of scope |
| `review` | is what is recorded reviewed, and does the general review come? | three contents, three days between general reviews, no bound on runs |
| `false_delisting`, `starved_queue`, `unseen_pull` | disagreements, see Findings | two regions and two items; four issues; as `lanes` |

Why these bounds are enough. A lost update needs two runs that read the same base; a stale late result
needs a third timestamp on a second date; a cancelled waiter needs three runs: `archive` has all of them. A rule
of the briefing looks at the day before, its records, and the history, so available - lost - hidden - back is
the longest pattern in which the rules meet; four dates hold it, and `LastTracked`, the mutant that keeps a
stale date, needs exactly four. `catalog` needs one region that lists an item, one that
does not, and one that fails. A mixture of generations needs two that differ in one object and two that agree in one:
`fetch` deploys on the same day and on the next. In `backlog` a follower is overtaken by a
second run and the damage shows in a third. Two runs of one pull request are all that exclusion is about, and
`MaxClock` 2 lets a marker expire while its job is pending. Three days between reviews
leave room for a review of a change, one that is deferred and one that is lost. What these instances do not
exclude, the theorems do; that covers `Publication` without an archive, with the bootstrap and with an operator's
overrides, which no run instantiates.

Bounds: `MaxTime` (timestamps), `MaxDays` and `MaxRuns` (dates, runs a date), `Attempts` (the code's
`HISTORY_FETCH_ATTEMPTS`), `Gens`, `Fresh` and `Bundles` (what is published, filed and left behind), `MaxRun`,
`MaxActs`, `MaxReply`, `MaxText`, `MaxClock`, `MaxPull`. Symmetry is used over
regions and items, which no definition tells apart. `CHECK_DEADLOCK FALSE` because runs end, scans end, and
histories and clocks stop at their bounds; `review` has no bound and checks deadlock.

Each property of a passing run has a mutant in `PROJECT.json`: a plausible slip in one definition (a skipped
upload, a missing lock, a push without a lease, a stale date) under which the same run fails.

## Fairness

Three runs assume it. `runs_end`: `WF` on the probing of a run and on its next step. A job that hangs is ended: by
`timeout-minutes` in `daily-scan.yml:117` and `regional-probe-run.yml:94,202`; `dashboard-redeploy.yml` and the caller jobs
set none, so there only GitHub's own limit of a job does it. A started run therefore moves or fails. No fairness on `Start`,
nobody has to run a workflow, none on time, and no assumption that a step succeeds. A run may also end as
`cancelled`: GitHub drops the waiter of a group when another arrives, and its scan is then never published.

`fetch`: `WF` on the steps of a fetch, because each request is answered or times out, and on the local writes. The
answer may always be another transient one: `FetchEnds` holds because attempts and objects are bounded.

`review`: `SF` on `Tick` and on `Start(FALSE)`, because days pass and the schedule starts a run a day whatever else
happens; `WF` on the steps of a run, which GitHub's limit ends; `WF` on `ClosePull`, somebody deals with an open pull
request. `WeeklyComes` is a promise about the time after the environment's failures stop (`calm`); before that it
could not hold, since each lost cache entry restarts the interval.

## Proofs

About `Publication` (`PublicationProofs`), for any runs, modalities, dates and bound of the clock:

- `TypeCorrect`, `PointerSafe`, `ReadersSafe`. A verified generation never
  changes afterwards, because only its own run writes it, and that run is past `Upload`. The inductive
  invariant adds what each phase of the run inside the group has established.
- `NothingWithoutPointer`, from `Blocked`: while there is neither pointer nor bootstrap, no run is past the
  resolution of its sources with nothing to commit onto, so none reaches a step that moves the pointer or the site.
- `CommittedSafe`, `NoUpdateLost`, `PastFrozen`. Everything a run carries is replayable
  from `Bundle` on; a merge of the sample never is, because whatever is published is newer (`Recent`, `SampleRefused`);
  only the run inside the group changes what is committed, so what it resolved is still the
  head when it commits. `NoUpdateLost` and `PastFrozen` assume that no source is overridden, as do all below.
- `LatestCommitted`, `NothingShownIsLost`, `Refinement`: publication implements
  `PublishedHistory`. Moving the pointer (or deploying, without an archive) is `Commit`, deploying
  afterwards is `Reveal`, everything else stutters.

About `ProbeRunner`, for any regions, probes, answers and order of calls (`ProbeProofs`): `TypeCorrect`,
`NoOutageIsAVerdict`, `LoopsComputeScan`, `FailureIsSeen`. The invariant says that the loops' bookkeeping follows from
the calls made so far: what is `blocked` and with which sentinel (`BlockedSound`), which items are `normalized`
(`NormalizedSound`), and what each row holds before and after the fill (`GridSound`). `RowsAreFeatures` keeps two
probes off each other's rows; from there each final row is a function of the answers alone, and
the operator `CatalogScan` is that function. The theorems cover configured probes, which the run has none of.

About `OverlayMerge`, for any jobs, regions, features and categories: `TypeCorrect`, `Carried`
(`OverlayProofs`). A shard reports only about its own job's categories and no two jobs share one (`ShardsOwn`), so at
most one merged shard covers a cell, and later merges leave it alone. The sample is merged only when every job failed,
so it is then the only overlay; what it covers is its own, and the theorem says so instead of excluding the case. That the
command has written only after the last merge (`WrittenLast`) keeps the two cases apart.

About `DailyEvidence`, for any regions, features, answers, and number of days and reruns (`EvidenceProofs`):

- `TypeCorrect`, `DatesTrue`, `NewListings`, `LostTracked`. The invariant is about sequences of days:
  `Good(s)` says what the records of every day of `s` tell truly. `RecordTrue` shows it of one new record, from
  the records of the day before and the statuses of all days; `Extend` that one more day keeps a
  history good; `Prefix` that one day less does. Filing a date again takes its day away and extends the rest.
  `Good` is stronger than the properties: a record that is a gap is about a gap, and one that says since when
  says it of a cell that is not available, without which the next day's dates would not follow.
- `ObservedNews`, from the invariant `Observed`: since yesterday a cell changed only by an answer heard today.
  It needs `ModalityAssumption`, that a modality is retired as a whole: a retired check
  could otherwise be reported as lost without any answer.
- `UnknownFailed`, under `OneCatalog`: the sentinel of the catalog is filed in the category of its items. Without it the
  sentinel of the AI catalog lingers, see below.

About `HistoryFetch` and `Recovery`, for any generations, attempts, local updates and bundles (`RecoveryProofs`):

- `TypeCorrect` and `LocalIsWhole`. All that can be reached from an index is in the set `Known` (`ReachIsKnown`), which needs
  no recursion because references are three levels deep. `CopySound` says of a copy that is being made that whatever was
  read leads to what was read or is still pending, under the name it was found, so that nothing is missing when nothing
  is pending; `UpdateSound` that each file of an update finds what it will refer to.
- `BaselineIsOne`. A copy made across deployments may mix generations; the invariant `Told` says that it then gives itself
  away: when a day's snapshot is the one its entry names, the day's changes are those of the index. That rests on
  the order of reading (`NextIsFirst`: changes before snapshots) and on `GrowthAssumption`, that a later generation drops no
  day and replaces the newest at most by a newer observation, which is what `PastFrozen` proves of publication. An
  update that died is given away by its snapshot, which is written first.
- `ReplayFiles`. The invariant `Sound` is about a replay under way: every observation of the baseline is older than every
  one of the bundles, every one that was filed older than every one that is left, and the index, the comparisons and
  their dates are those of just what was filed so far. A step files the minimum of what is left; `FileOne`, `ComparesNew` and
  `ComparesKept` say what that does to the index, to the comparison of its own date and to those of the others.
  `GapsAre` is about the set of all times: the dates between neighbours are those within its ends that no time
  has. That the gaps start at the newest observation of the baseline and not at the first needs that dates grow with times.
  `Max` and `Min` exist because bundles are finitely many and published histories are finite (`FiniteInv`).
- Their other assumptions: the times of observations tell their dates and are ordered as these
  (`ObservationAssumption`), and the directory holds a whole history, or none, at first (`OldAssumption`).

About `AgenticBacklog`, for any queue, threshold and bounds on what people do (`BacklogProofs`): `TypeCorrect`,
`RepliesCount`, `RepliesCountOnce`, `PausesAreEarned`. What was spent on a session stays below what the hold consumed
(`Covers`), a follower is alone with its issue until a run reserves the issue meanwhile (`Alone`), and the count a
follower carries is at most the streak that it will record (`CountSound`). All but `RepliesCount` hold for issues on
which no follower was overtaken, which is what the properties say. The assumption that `None` is no reply, hold or
observed state is about the choice of `None` alone.

About `PullRework`, for any branches, runs, people, limits and time to live (`LaneProofs`): `TypeCorrect`, `StatusTrue`,
`Tested`, `PeoplesCommits`, `OneRework`. `Inv` says what the stage of a request
implies about its job (`RequestSound`), that the task at work is the task of a running job, which has called the model or pushed if the phase of the task says so
(`TaskOfItsRun`), that tests saw the last edit and a rework is based on what its lease names (`WorkSound`), and that a run's commit is on a branch only if the run
pushed (`CommitsPushed`). The last is needed to know that a push changes the branch, and so is seen by the job. The
steps are proved one by one: a dispatcher touches only requests (`OnlyRequests`), a task before its
push only itself (`TaskGoesOn`). `StatusTrue` follows because a task that was asked for a pull request succeeds only
before its model is called or after its push. `OnlyPush` ties the two action properties to the one action that pushes.
`TypeCorrect` also bounds the numbers of pull requests, which needs that no two branches have one number. `OneRework`
rests on `Lock`: of one pull request at most one dispatcher is between its check and its dispatch, two active comments
are more than the time to live apart, and at the moment a review is resolved every active comment of its pull request is
older than that. Only `Resolve` and `PostStatus` take the lock; every other step is `Quiet`, and quiet steps keep it.

About `DocumentationReview`, for any contents and interval (`ReviewProofs`): `Reviewed` and `NotAgain`. The invariant
remembers that a run that has not moved has checked out the current source (`CheckedOut`), that the model saw what was
checked out (`SawCheckedOut`), that a run past its gate has a changed source or a due interval (`HasReason`), and that the
last attempt is in the checkpoint or in the run about to record it (`TriedIsRecorded`).

Only model-checked: the liveness properties (`EveryRunEnds`, `FetchEnds`, `WeeklyComes`), which the prover does not
reach, and the three violations. Every invariant and every other action property that a run checks is a theorem.

## Findings

1. **A failed catalog may read as a delisting** (`false_delisting`, `runner.py:85`). One region's call fails,
   another's works. The failed region's sentinel is removed because the probe listed something somewhere, and only items
   listed *this time* are filled in as unknown. An item that was available in the failed region and is listed
   nowhere this time vanishes there without any unknown row, and the briefing tells readers that it was delisted.
2. **Open pull requests starve the queue** (`starved_queue`, `run_azure_backlog_cycle.py:253`). A run builds at most
   three tasks and only then drops those whose issue has an open pull request. While the three first issues have
   one, a later issue that could be worked on is never selected; docs/agentic-sessions.md:57 says that no model
   is started when no runnable task remains.
3. **A failed lookup reads as no pull request** (`unseen_pull`, `run_azure_byok_task.py:206`). If the lookup fails, a run
   without `force` starts from the default branch, and its push, leased on the branch that the job cloned, replaces
   the commits of the open pull request.

Noticed, without a run of their own:

- If every modality's job failed, the merge is called with no overlay and falls back to `data/snapshots/latest.json`, a file
  of the repository from May 2026 (`cli.py:256`). Its rows replace published rows, although daily-scan.yml:161 says that a
  failed modality's last good data is carried forward; `CarriedOrReplaced` states the exception. Nothing of it is published:
  the result carries the sample's date and `validate_history` refuses it, so the run fails (`NoLostUpdate`).
- `aiModelCatalog`, the sentinel of the AI catalog, has a merge category of its own (`snapshot_merge.py:61`), so a later
  successful scan does not remove it; `UnknownFailed` excludes this by its assumption.
- If every region answers with an empty catalog, no row is produced and the merge carries all old rows forward as
  available (`runner.py:56`).
- With a configured list, the last item of a failed call is taken for a sentinel and removed (`runner.py:85`).
- The merged snapshot has the timestamp of the last shard in path order, not the newest.
- The comment at `daily-scan.yml:38` names a floor of 120 seconds where `aks_extension_catalog.py:13` has 180.
- A follower that is overtaken lets one reply be evaluated twice (see The agentic lanes).

## Not modelled

- Runs with a blank snapshot URL, which publish their shard without a merge.
- Parsing of command output, titles, texts, rendering, CSS, infrastructure templates: pure or declarative.
- Measurements in the briefing (latency), its feature contexts, digest and grouping.
- A second run on the very first date of a history is in `Recovery` but not in `DailyEvidence`, which starts when that
  date is filed.
- A day file that is missing or damaged, so that the briefing of the previous day has to be rebuilt
  (`history.py:1284`).
- The manifest, hashes and inventory of a recovery bundle: a flag says whether it verifies.
- Report tasks, prompts, sanitizing of model answers, the derivation of source scopes, the published status issue.
- The components listed as `not_modelled` in `PROJECT.json`, with reasons. Most of the code by lines is there: pages,
  blog, texts and view models (`static_site.py`, `blog.py`, `briefing_view.py`, `summary.py`) are functions of their
  input without state.

## Plan

Written: publication, its promise, evidence, runner, merge and briefing, then fetch and recovery, the agentic lanes and
the documentation review, with the proofs above. Next:

1. `LatencyHistory`: measurements, carried rows, cap and backfill (`history.py:337`).
2. `ChangeContext`: classification of changes over a timeline, against a reference definition.
3. `LearnLookup`: cache, expiry and budget; which features are starved (`learn_lookup.py:223`).
4. The pages of the reader history, the archive projection, Copilot sessions, report tasks.
