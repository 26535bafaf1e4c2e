------------------------------ MODULE Recovery ------------------------------
(***************************************************************************)
(* The local history, once fetched, is updated by a snapshot               *)
(* (update_history, which writes one file after the other), or becomes the *)
(* baseline on which the observations of recovery bundles are replayed     *)
(* (publication_recovery.py), the last thing that is done here.            *)
(***************************************************************************)
EXTENDS HistoryFetch, FiniteSetsExt

CONSTANTS
    DayOf(_), \* the UTC date of an observation, which is named by its time
    Fresh,    \* observations that local runs file
    Bundles   \* [id, at, digest, complete]: what failed runs left

VARIABLES
    filing,   \* the observation that is being filed locally, or 0
    replayed  \* what the replay has filed so far, or Absent

vars == <<fetch, filing, replayed>>

Days(files) == files[Index]

Histories    == {Gens[g] : g \in DOMAIN Gens} \cup {Days(f) : f \in Old \ {Absent}}
Observations == Fresh \cup {b.at : b \in Bundles} \cup UNION {Range(days) : days \in Histories}

(* The times of observations tell their dates.                             *)
ASSUME ObservationAssumption ==
    /\ Observations \subseteq Nat \ {0}
    /\ \A t \in Observations : DayOf(t) \in Nat \ {0}
    /\ \A t, u \in Observations : t < u => DayOf(t) <= DayOf(u)
    /\ \A days \in Histories : \A d \in DOMAIN days : DayOf(days[d]) = d
    /\ IsFiniteSet(Bundles) /\ \A days \in Histories : IsFiniteSet(Range(days))
-----------------------------------------------------------------------------
(* Snapshot, changes, index and recent changes are written one by one.     *)
(* First the snapshots of the index are moved to their compressed names.   *)
Migrated(files) ==
    LET moved == {Name("plain", d) : d \in Legacy \cap DOMAIN Days(files)} \cap DOMAIN files
    IN  [n \in (DOMAIN files \ moved) \cup {Compressed(n) : n \in moved} |->
            IF n \in DOMAIN files THEN files[n] ELSE files[Name("plain", n.date)]]

(* The earlier day with the latest date, or the same date's first run.     *)
PreviousEntry(days, d) ==
    IF EarlierDates(days, d) # {} THEN {LastOf(EarlierDates(days, d))} ELSE {d} \cap DOMAIN days

(* A local run files an observation that is newer than the index.          *)
WriteSnapshot(t) ==
    /\ phase = "idle" /\ local # Absent
    /\ \A d \in DOMAIN Days(local) : Days(local)[d] < t
    /\ phase' = "changes" /\ filing' = t /\ pinned' = 0
    /\ local' = Put(Name("gz", DayOf(t)), Only(DayOf(t), t), Migrated(local))
    /\ UNCHANGED <<origin, source, tries, pending, got, staged, backup, replayed>>

WriteChanges ==
    /\ phase = "changes" /\ phase' = "filing"
    /\ LET d    == DayOf(filing)
           days == Put(d, filing, Days(local))
       IN  local' = Put(Name("changes", d), Compared(days, d), local)
    /\ UNCHANGED <<origin, pinned, source, tries, pending, got, staged, backup, filing, replayed>>

WriteIndex ==
    /\ phase = "filing" /\ phase' = "recent"
    /\ local' = Put(Index, Put(DayOf(filing), filing, Days(local)), local)
    /\ UNCHANGED <<origin, pinned, source, tries, pending, got, staged, backup, filing, replayed>>

WriteRecent ==
    /\ phase = "recent" /\ phase' = "idle" /\ filing' = 0
    /\ local' = Put(Recent, Days(local), local)
    /\ UNCHANGED <<origin, pinned, source, tries, pending, got, staged, backup, replayed>>

UpdateDies ==
    /\ phase \in {"changes", "filing", "recent"} /\ phase' = "idle" /\ filing' = 0
    /\ UNCHANGED <<origin, local, pinned, source, tries, pending, got, staged, backup, replayed>>
-----------------------------------------------------------------------------
(* validate_history: every reference is there, each day's snapshot is the  *)
(* one its entry names, and no other snapshot is newer than the newest, or *)
(* contradicts an entry.  Entries and snapshots with one time agree here.  *)
Snapshots(files) == {n \in DOMAIN files : IsSnapshot(n)}
TimeOf(content)  == content[CHOOSE d \in DOMAIN content : TRUE]
Newest(days)     == Max({0} \cup Range(days))
ValidHistory(files) ==
    LET days == Days(files)
    IN  /\ \A n \in DOMAIN files : Resolved(files, References(n, files[n])) \subseteq DOMAIN files
        /\ \A d \in DOMAIN days : files[ResolvesTo(files, SnapshotName(d))] = Only(d, days[d])
        /\ \A n \in Snapshots(files) : TimeOf(files[n]) <= Newest(days)

(* Mutant: the newest observation is filed first. *)
NewestFirst(times) == Max(times)

(* Whatever the order of the bundles. *)
NextOf(times) == Min(times)

(* What is filed in the place of a date's earlier observation.             *)
File(t, filed) ==
    LET d == DayOf(t)
    IN  [filed EXCEPT
            !.left    = @ \ {t},
            !.days    = Put(d, t, @),
            !.against = Put(d, {filed.days[e] : e \in PreviousEntry(filed.days, d)}, @)]

(* Consecutive observations leave out the dates between their dates.       *)
Gaps(times) ==
    UNION {(DayOf(p[1]) + 1) .. (DayOf(p[2]) - 1) :
               p \in {q \in times \X times : q[1] < q[2]
                          /\ ~\E c \in times : q[1] < c /\ c < q[2]}}

Latest(times) == {t \in times : \A u \in times : u <= t}

(* verify_bundle, replay_bundles: complete bundles, of which two with one  *)
(* time have one content, on a baseline that is older than all of them.    *)
Accepts(bundles) ==
    /\ ValidHistory(local)
    /\ \A b \in bundles : b.complete /\ Newest(Days(local)) < b.at
    /\ \A b, c \in bundles : b.at = c.at => b.digest = c.digest

Replay(bundles) ==
    /\ phase = "idle" /\ local # Absent /\ bundles # {} /\ Accepts(bundles)
    /\ LET times == {b.at : b \in bundles}
       IN  replayed' = [days |-> Days(local), against |-> <<>>, times |-> times, left |-> times,
                        gaps |-> Gaps(times \cup Latest(Range(Days(local))))]
    /\ phase' = "replaying"
    /\ UNCHANGED <<origin, local, pinned, source, tries, pending, got, staged, backup, filing>>

(* One observation after the other is filed in a temporary directory ...   *)
ReplayOne ==
    /\ phase = "replaying" /\ replayed.left # {}
    /\ replayed' = File(NextOf(replayed.left), replayed)
    /\ UNCHANGED <<fetch, filing>>

(* ... that is renamed at last, ...                                        *)
ReplayEnds ==
    /\ phase = "replaying" /\ replayed.left = {}
    /\ phase' = "replayed"
    /\ UNCHANGED <<origin, local, pinned, source, tries, pending, got, staged, backup, filing, replayed>>

(* ... or removed: an observation changed, a check failed, or it is stopped. *)
ReplayDies ==
    /\ phase = "replaying"
    /\ phase' = "idle" /\ replayed' = Absent
    /\ UNCHANGED <<origin, local, pinned, source, tries, pending, got, staged, backup, filing>>
-----------------------------------------------------------------------------
RecoveryInit == Init /\ filing = 0 /\ replayed = Absent
Next ==
    \/ phase # "replayed" /\ FetchNext /\ UNCHANGED <<filing, replayed>>
    \/ \E t \in Fresh : WriteSnapshot(t)
    \/ WriteChanges \/ WriteIndex \/ WriteRecent \/ UpdateDies
    \/ \E bundles \in SUBSET Bundles : Replay(bundles)
    \/ ReplayOne \/ ReplayEnds \/ ReplayDies

(* A request is answered or times out.  The update is local.               *)
Spec == /\ RecoveryInit /\ [][Next]_vars
        /\ WF_vars(FetchStep /\ UNCHANGED <<filing, replayed>>)
        /\ WF_vars(WriteChanges \/ WriteIndex \/ WriteRecent)
-----------------------------------------------------------------------------
(* Every variable keeps its type. *)
TypeOK ==
    /\ origin \in DOMAIN Gens /\ {pinned, source} \subseteq Archived \cup {0}
    /\ phase \in {"idle", "index", "archive", "objects", "swap",
                  "changes", "filing", "recent", "replaying", "replayed"}
    /\ tries \in 0..Attempts /\ filing \in Fresh \cup {0}
    /\ \A n \in pending \cup got : n.kind \in {"recent", "changes", "plain", "gz"}
    /\ local = Absent \/ Index \in DOMAIN local
    /\ pending \cap got = {}
    /\ replayed # Absent => replayed.left \subseteq replayed.times /\ replayed.times \subseteq Observations

(* A baseline that replay accepts is one history: the changes and the      *)
(* snapshot of each day are those of its index.  A fetch that read some    *)
(* objects of a later deployment, and an update that died between two      *)
(* files, are told by a snapshot that is newer (validate_history).         *)
AcceptedIsOneHistory ==
    replayed # Absent =>
        \A d \in DOMAIN Days(local) :
            /\ local[ResolvesTo(local, SnapshotName(d))] = Only(d, Days(local)[d])
            /\ local[Name("changes", d)] = Compared(Days(local), d)

(* A replay files the latest observation of every date, compares it with   *)
(* the last one of the dates before, or on the first date of a history     *)
(* with the one it replaces, and reports just the dates that it passes     *)
(* over without an observation (replay_bundles).                           *)
ReplayFilesAll ==
    phase = "replayed" =>
        LET days   == replayed.days
            known  == Range(Days(local)) \cup replayed.times
            On(d)  == {t \in known : DayOf(t) = d}
            before(d) == {t \in known : DayOf(t) < d}
            begin  == IF DOMAIN Days(local) = {} THEN DayOf(Min(known)) ELSE DayOf(Newest(Days(local)))
        IN  /\ DOMAIN days = {DayOf(t) : t \in known}
            /\ \A d \in DOMAIN days : {days[d]} = Latest(On(d))
            /\ DOMAIN replayed.against = {DayOf(t) : t \in replayed.times}
            /\ \A d \in DOMAIN replayed.against :
                   replayed.against[d] =
                       Latest(IF before(d) # {} THEN before(d) ELSE On(d) \ {days[d]})
            /\ replayed.gaps = {d \in begin..DayOf(Max(known)) : On(d) = {}}
=============================================================================
