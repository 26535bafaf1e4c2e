---------------------------- MODULE HistoryFetch ----------------------------
(***************************************************************************)
(* fetch_history copies a published history, object by object, while the   *)
(* site may be deployed again, and then puts the copy in the place of the  *)
(* local history by two renames.                                           *)
(*                                                                         *)
(* A directory is a function from names to contents.  The content of every *)
(* object is abstracted to the days it tells of, each with the time of its *)
(* observation: a snapshot tells of its own day, a day's changes of that   *)
(* day and the one it was compared with, the index and the recent changes  *)
(* of all days.  Generations 1, 2, ... of the site are given by Gens.      *)
(***************************************************************************)
EXTENDS Naturals, Sequences

CONSTANTS
    Gens,     \* the histories that are published, one after the other
    Archived, \* the generations whose index points to their archive
    Legacy,   \* dates whose snapshot is still called .json, but stored as .json.gz
    Old,      \* what the local directory may hold at first
    Attempts, \* HISTORY_FETCH_ATTEMPTS
    Absent

Name(kind, date) == [kind |-> kind, date |-> date]
Index   == Name("index", 0)
Recent  == Name("recent", 0)

ASSUME FetchAssumption ==
    /\ Attempts \in Nat \ {0}
    /\ DOMAIN Gens \subseteq Nat \ {0}
    /\ \A g \in DOMAIN Gens : DOMAIN Gens[g] \subseteq Nat \ {0}
    /\ Absent \in Old

(* Publication drops no day, and replaces the newest at most, by a later   *)
(* observation (PastDaysFrozen of Publication).                            *)
ASSUME GrowthAssumption ==
    \A g, h \in DOMAIN Gens : g < h =>
        \A d \in DOMAIN Gens[g] :
            /\ d \in DOMAIN Gens[h] /\ Gens[g][d] <= Gens[h][d]
            /\ \A e \in DOMAIN Gens[h] : e < d => e \in DOMAIN Gens[g] /\ Gens[h][e] = Gens[g][e]

VARIABLES
    origin,  \* the generation that the site shows
    local,   \* the local history directory, or Absent
    pinned,  \* the archive generation it was fetched from, or 0
    phase,   \* what the fetch does
    source,  \* the archive generation it reads, or 0 for the site
    tries,   \* attempts at the current request
    pending, got, staged,
    backup   \* the previous history while the new one takes its place

fetch == <<origin, local, pinned, phase, source, tries, pending, got, staged, backup>>

(* One content, and a directory or an index into which one is put.         *)
Only(n, content) == [m \in {n} |-> content]
Put(n, content, files) ==
    [m \in {n} \cup DOMAIN files |-> IF m = n THEN content ELSE files[m]]

(* What a generation consists of.  A day is compared with the one before.  *)
EarlierDates(days, d) == {e \in DOMAIN days : e < d}
LastOf(dates)   == CHOOSE d \in dates : \A e \in dates : e <= d
Compared(days, d) ==
    Put(d, days[d], IF EarlierDates(days, d) = {} THEN <<>>
                    ELSE LET e == LastOf(EarlierDates(days, d)) IN Only(e, days[e]))
Published(days) ==
    [n \in {Index, Recent} \cup {Name(k, d) : k \in {"changes", "gz"}, d \in DOMAIN days} |->
        CASE n.kind = "changes" -> Compared(days, n.date)
          [] n.kind = "gz"      -> Only(n.date, days[n.date])
          [] OTHER              -> days]

SnapshotName(d) == Name(IF d \in Legacy THEN "plain" ELSE "gz", d)
IsSnapshot(n)   == n.kind \in {"plain", "gz"}
Compressed(n)   == Name("gz", n.date)

(* Every path that a document names, except for a snapshot, which has none. *)
References(n, content) ==
    IF IsSnapshot(n) THEN {}
    ELSE {SnapshotName(d) : d \in DOMAIN content} \cup
         (IF n.kind = "changes" THEN {n} ELSE {Name("changes", d) : d \in DOMAIN content}) \cup
         (IF n = Index THEN {Recent} ELSE {})

(* A reference to a .json that is not there is to the .json.gz. *)
ResolvesTo(files, n) == IF n.kind = "plain" /\ n \notin DOMAIN files THEN Compressed(n) ELSE n
-----------------------------------------------------------------------------
Init == /\ origin \in DOMAIN Gens /\ local \in Old /\ pinned = 0
        /\ phase = "idle" /\ source = 0 /\ tries = 0
        /\ pending = {} /\ got = {} /\ staged = <<>> /\ backup = Absent

(* A run publishes the next generation. *)
Deploy == /\ origin + 1 \in DOMAIN Gens /\ origin' = origin + 1
          /\ UNCHANGED <<local, pinned, phase, source, tries, pending, got, staged, backup>>

Ends  == /\ phase' = "idle" /\ source' = 0 /\ tries' = 0
         /\ pending' = {} /\ got' = {} /\ staged' = <<>> /\ backup' = Absent
Fetching == phase \in {"index", "archive", "objects"}

Start == /\ phase = "idle" /\ phase' = "index" /\ tries' = 1
         /\ UNCHANGED <<origin, local, pinned, source, pending, got, staged, backup>>

(* Mutant: attempts are not bounded. *)
RetriesForEver ==
    /\ Fetching /\ tries' = tries + 1
    /\ UNCHANGED <<origin, local, pinned, phase, source, pending, got, staged, backup>>

(* A transient answer is followed by another attempt, up to a bound.       *)
Retry == /\ Fetching /\ tries < Attempts /\ tries' = tries + 1
         /\ UNCHANGED <<origin, local, pinned, phase, source, pending, got, staged, backup>>

(* Another error, a read that times out, an object that is not valid, an   *)
(* index that is missing, and the last attempt leave everything as it was. *)
GivesUp == Fetching /\ Ends /\ UNCHANGED <<origin, local, pinned>>

(* Mutant: the pointer of the index is followed for the index only. *)
ReadsTheSite == origin

(* The generation that answers a request. *)
Read == IF source = 0 THEN origin ELSE source

(* The copy begins with the local files, over which the new ones are put.  *)
Stage(days) ==
    /\ staged' = Put(Index, days, IF local = Absent THEN <<>> ELSE local)
    /\ pending' = References(Index, days) /\ got' = {} /\ phase' = "objects" /\ tries' = 1

ReadIndex ==
    /\ phase = "index"
    /\ IF origin \in Archived
       THEN source' = origin /\ phase' = "archive" /\ tries' = 1 /\ UNCHANGED <<pending, got, staged>>
       ELSE Stage(Gens[origin]) /\ UNCHANGED source
    /\ UNCHANGED <<origin, local, pinned, backup>>

ReadArchiveIndex ==
    /\ phase = "archive"
    /\ Stage(Gens[Read])
    /\ UNCHANGED <<origin, local, pinned, source, backup>>

(* Mutant: the snapshots are read before the changes. *)
SnapshotsFirst ==
    IF \E n \in pending : IsSnapshot(n) THEN CHOOSE n \in pending : IsSnapshot(n)
    ELSE CHOOSE n \in pending : TRUE

(* The objects are read in the order of their paths: the changes of days,  *)
(* the recent changes, the snapshots.                                      *)
Family(n) == CASE n.kind = "changes" -> 1 [] n.kind = "recent" -> 2 [] OTHER -> 3
NextPending == CHOOSE n \in pending : \A m \in pending :
    \/ Family(n) < Family(m)
    \/ Family(n) = Family(m) /\ n.date <= m.date

(* Mutant: what was read already is read again. *)
AllReferences(n, content) == (pending \ {n}) \cup References(n, content)

StillPending(n, content) == (pending \ {n}) \cup (References(n, content) \ (got \cup {n}))

(* A name that is not there is tried as the compressed one.  A local copy  *)
(* under the plain name must then agree with it.                           *)
Download ==
    /\ phase = "objects" /\ pending # {}
    /\ LET served  == Published(Gens[Read])
           n       == NextPending
           actual  == IF n \in DOMAIN served THEN n ELSE Compressed(n)
           content == IF actual \in got THEN staged[actual] ELSE served[actual]
       IN  /\ IsSnapshot(n) \/ n \in DOMAIN served
           /\ actual \in DOMAIN served \cup got
           /\ n # actual /\ n \in DOMAIN staged => staged[n] = content
           /\ staged' = Put(actual, content, staged)
           /\ got' = got \cup {n, actual}
           /\ pending' = StillPending(n, content)
    /\ tries' = 1
    /\ UNCHANGED <<origin, local, pinned, phase, source, backup>>

(* The previous history is moved into the temporary directory ...          *)
MoveAside ==
    /\ phase = "objects" /\ pending = {}
    /\ phase' = "swap" /\ backup' = local /\ local' = Absent
    /\ UNCHANGED <<origin, pinned, source, tries, pending, got, staged>>

(* ... and the new one takes its place, or the previous one returns.       *)
MoveIn   == phase = "swap" /\ local' = staged /\ pinned' = source /\ Ends /\ UNCHANGED origin
MoveBack == phase = "swap" /\ local' = backup /\ Ends /\ UNCHANGED <<origin, pinned>>

(* The process is stopped.  Between the renames there is no history left.  *)
Dies == (Fetching \/ phase = "swap") /\ Ends /\ UNCHANGED <<origin, local, pinned>>

FetchStep == ReadIndex \/ ReadArchiveIndex \/ Download \/ MoveAside \/ MoveIn
             \/ Retry \/ GivesUp \/ MoveBack \/ Dies
FetchNext == Deploy \/ Start \/ FetchStep
-----------------------------------------------------------------------------
(* What can be reached from the index of a directory. *)
Resolved(files, ns) == {ResolvesTo(files, n) : n \in ns}
Reach(files) ==
    LET first  == Resolved(files, References(Index, files[Index]))
        second == first \cup UNION {Resolved(files, References(n, files[n])) :
                                        n \in first \cap DOMAIN files}
    IN  second \cup UNION {Resolved(files, References(n, files[n])) :
                               n \in second \cap DOMAIN files}

(* What the directory may hold at first is a history: whole, and the       *)
(* changes of each day are those between the days of its index.            *)
ASSUME OldAssumption ==
    \A files \in Old \ {Absent} :
        /\ Index \in DOMAIN files /\ DOMAIN files[Index] \subseteq Nat \ {0}
        /\ Reach(files) \subseteq DOMAIN files
        /\ \A d \in DOMAIN files[Index] : files[Name("changes", d)] = Compared(files[Index], d)

(* A local history is whole: whatever can be reached from its index is     *)
(* there, and if an archive was fetched it is that generation's, no matter *)
(* what was published or stopped meanwhile (fetch_history).                *)
HistoryIsWhole ==
    local # Absent =>
        /\ Reach(local) \subseteq DOMAIN local
        /\ pinned # 0 => LET published == Published(Gens[pinned])
                         IN  \A n \in Reach(local) \cup {Index} :
                                 local[n] = published[IF n.kind = "plain" THEN Compressed(n) ELSE n]

(* Every fetch ends, with as many attempts as there may be.                *)
FetchEnds == Fetching \/ phase = "swap" ~> phase = "idle"
=============================================================================
