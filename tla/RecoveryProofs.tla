--------------------------- MODULE RecoveryProofs ---------------------------
(* Proofs about HistoryFetch and Recovery, for any generations, local      *)
(* directories, attempts, updates and bundles: the local history is whole, *)
(* a baseline that replay accepts is one history, and a replay files what  *)
(* it should.                                                              *)
EXTENDS Recovery, WellFoundedInduction, FiniteSetTheorems, TLAPS

(* The name under which an object is stored.                               *)
Stored(n) == IF n.kind = "plain" THEN Compressed(n) ELSE n

IsName(n) == \/ n = Recent
             \/ n = Name(n.kind, n.date) /\ n.kind \in {"changes", "plain", "gz"} /\ n.date \in Nat

(* What a directory refers to, as a set that is closed under References.   *)
Mentioned(files) == DOMAIN files[Index] \cup DOMAIN files[Recent]
Known(files) ==
    {Recent} \cup {Name("changes", d) : d \in Mentioned(files)} \cup
    {ResolvesTo(files, SnapshotName(d)) :
        d \in Mentioned(files) \cup UNION {DOMAIN files[Name("changes", e)] : e \in Mentioned(files)}}

(* A day's snapshot is there, under one of its names.                      *)
Found(files, d) == Name("gz", d) \in DOMAIN files \/ (d \in Legacy /\ Name("plain", d) \in DOMAIN files)

IsDays(days) == DOMAIN days \subseteq Nat \ {0}
                /\ \A d \in DOMAIN days : days[d] \in Observations /\ DayOf(days[d]) = d

(* A directory that is whole, and of one generation if it was fetched from *)
(* an archive.                                                             *)
Good(files, g) ==
    /\ Index \in DOMAIN files /\ IsDays(Days(files)) /\ Known(files) \subseteq DOMAIN files
    /\ g # 0 => \A n \in Known(files) \cup {Index} : files[n] = Published(Gens[g])[Stored(n)]

Copying  == phase \in {"objects", "swap"}
Updating == phase \in {"changes", "filing", "recent"}
Replaying == phase \in {"replaying", "replayed"}
Types ==
    /\ origin \in DOMAIN Gens /\ {pinned, source} \subseteq (Archived \cap DOMAIN Gens) \cup {0}
    /\ phase \in {"idle", "index", "archive", "objects", "swap",
                  "changes", "filing", "recent", "replaying", "replayed"}
    /\ tries \in 0..Attempts /\ filing \in Fresh \cup {0}
    /\ (\A n \in pending \cup got : IsName(n)) /\ pending \cap got = {}
    /\ \A n \in pending : IsSnapshot(n) => n = SnapshotName(n.date)
    /\ phase \notin {"archive", "objects", "swap"} => source = 0
    /\ ~Copying => pending = {} /\ got = {}

(* What is still to be read is all that the copy lacks.                    *)
CopySound ==
    /\ Index \in DOMAIN staged /\ IsDays(Days(staged))
    /\ \E g \in DOMAIN Gens : g <= Read /\ Days(staged) = Gens[g] /\ (source # 0 => g = source)
    /\ References(Index, Days(staged)) \subseteq got \cup pending
    /\ \A n \in got : /\ Stored(n) \in got \cap DOMAIN staged
                      /\ DOMAIN staged[Stored(n)] \subseteq Nat
                      /\ References(n, staged[n]) \subseteq got \cup pending
                      /\ n \in DOMAIN staged => staged[n] = staged[Stored(n)]
                      /\ source # 0 => staged[Stored(n)] = Published(Gens[source])[Stored(n)]

(* Of an update, what the next file will refer to is there before it.      *)
UpdateSound ==
    LET d == DayOf(filing)
    IN  /\ filing \in Fresh /\ pinned = 0 /\ Good(local, 0)
        /\ phase = "changes" => Name("gz", d) \in DOMAIN local
        /\ phase = "filing" =>
               /\ Name("changes", d) \in DOMAIN local
               /\ \A e \in {d} \cup DOMAIN local[Name("changes", d)] : Found(local, e)

Inv == /\ Types
       /\ local # Absent => Good(local, pinned)
       /\ Copying => CopySound
       /\ phase = "swap" => pending = {} /\ local = Absent /\ (backup # Absent => Good(backup, pinned))
       /\ Updating => UpdateSound
-----------------------------------------------------------------------------
(* The changes of a day are those of the index whenever its snapshot is.   *)
Tells(files, d) ==
    \E n \in {Name("gz", d), SnapshotName(d)} : n \in DOMAIN files /\ files[n] = Only(d, Days(files)[d])
Told(files) ==
    \A d \in DOMAIN Days(files) :
        Tells(files, d) => files[Name("changes", d)] = Compared(Days(files), d)

(* When the changes of a day were read of another day than the index       *)
(* names, then all later snapshots of the day are others, too.             *)
CopyTold ==
    \A d \in DOMAIN Days(staged) :
        /\ Name("gz", d) \in got => Name("changes", d) \in got
        /\ Name("changes", d) \in got =>
               \/ staged[Name("changes", d)] = Compared(Days(staged), d)
               \/ /\ \A g \in DOMAIN Gens : g >= Read => d \in DOMAIN Gens[g] /\ Gens[g][d] # Days(staged)[d]
                  /\ Name("gz", d) \in got => staged[Name("gz", d)] # Only(d, Days(staged)[d])

UpdateTold ==
    LET d == DayOf(filing)
    IN  /\ Told(local)
        /\ phase \in {"changes", "filing"} =>
               /\ local[Name("gz", d)] = Only(d, filing)
               /\ d \in Legacy \cap DOMAIN Days(local) => Name("plain", d) \notin DOMAIN local
               /\ \A e \in DOMAIN Days(local) : Days(local)[e] < filing
        /\ phase = "filing" =>
               local[Name("changes", d)] = Compared(Put(d, filing, Days(local)), d)

ToldInv == /\ local # Absent => Told(local)
           /\ Copying => CopyTold
           /\ phase = "swap" => (backup # Absent => Told(backup))
           /\ Updating => UpdateTold
           /\ replayed # Absent => phase \in {"replaying", "replayed"}
           /\ phase \in {"replaying", "replayed"} => local # Absent /\ ValidHistory(local)
-----------------------------------------------------------------------------
(* Of the observations that are known, the latest of each date is filed.   *)
FilesLatest(days, known) ==
    /\ DOMAIN days = {DayOf(t) : t \in known}
    /\ \A d \in DOMAIN days :
           days[d] \in known /\ DayOf(days[d]) = d /\ \A u \in known : DayOf(u) = d => u <= days[d]

(* What the latest observation of a date is compared with.                 *)
Before(known, d) == {t \in known : DayOf(t) < d}
On(known, d)     == {t \in known : DayOf(t) = d}
Compares(known, d) ==
    Latest(IF Before(known, d) # {} THEN Before(known, d) ELSE On(known, d) \ Latest(On(known, d)))

(* A replay r filed, of later observations than those of its baseline, the *)
(* earlier ones.                                                           *)
Sound(r, base) ==
    LET done  == r.times \ r.left
        known == base \cup done
    IN  /\ r = [days |-> r.days, against |-> r.against, times |-> r.times, left |-> r.left, gaps |-> r.gaps]
        /\ r.times \subseteq {b.at : b \in Bundles} /\ r.times # {} /\ IsFiniteSet(r.times)
        /\ r.left \subseteq r.times
        /\ \A t \in r.times, u \in base : u < t
        /\ \A t \in done, u \in r.left : t < u
        /\ FilesLatest(r.days, known)
        /\ DOMAIN r.against = {DayOf(t) : t \in done}
        /\ \A d \in DOMAIN r.against : r.against[d] = Compares(known, d)
        /\ r.gaps = Gaps(r.times \cup Latest(base))

ReplaySound == /\ local # Absent /\ (phase = "replayed" => replayed.left = {})
               /\ Sound(replayed, Range(Days(local)))

Finite(files) == IsFiniteSet(Range(Days(files)))
FiniteInv == /\ local # Absent \/ Updating => Finite(local)
             /\ phase = "swap" => (backup # Absent => Finite(backup))
ReplayInv == FiniteInv /\ (Replaying => ReplaySound)
-----------------------------------------------------------------------------
(* Names are told apart by their kind and date.                            *)
LEMMA NameFacts ==
    /\ \A k, d : Name(k, d).kind = k /\ Name(k, d).date = d
    /\ Index.kind = "index" /\ Recent.kind = "recent"
BY DEF Name, Index, Recent

(* A set of numbers has a least one.                                       *)
LEMMA Smallest ==
    ASSUME NEW S, S \subseteq Nat, S # {}
    PROVE  \E x \in S : \A y \in S : x <= y
<1> DEFINE R == {ss \in Nat \X Nat : ss[1] < ss[2]}
<1>1. IsWellFoundedOn(R, Nat)
    BY NatLessThanWellFounded DEF OpToRel
<1>2. \E x \in S : \A y \in S : ~(<<y, x>> \in R)
    <2> HIDE DEF R
    <2> QED
        BY <1>1, WFMin, Zenon
<1>3. PICK x \in S : \A y \in S : ~(<<y, x>> \in R)
    BY <1>2
<1>4. ASSUME NEW y \in S PROVE x <= y
    <2>1. x \in Nat /\ y \in Nat /\ ~(<<y, x>> \in R)
        BY <1>3
    <2> QED
        BY <2>1
<1> QED
    BY <1>4

(* The newest of the dates below a date is one of them.                    *)
LEMMA Largest ==
    ASSUME NEW S, S \subseteq Nat, S # {}, NEW n \in Nat, \A x \in S : x < n
    PROVE  LastOf(S) \in S /\ \A y \in S : y <= LastOf(S)
<1> DEFINE T == {n - x : x \in S}
<1>1. T \subseteq Nat /\ T # {}
    <2>1. ASSUME NEW x \in S PROVE n - x \in Nat
        <3>1. x \in Nat /\ x < n
            OBVIOUS
        <3> QED
            BY <3>1
    <2> QED
        BY <2>1
<1>2. PICK t \in T : \A u \in T : t <= u
    <2> HIDE DEF T
    <2> QED
        BY <1>1, Smallest
<1>3. PICK x \in S : t = n - x
    BY DEF T
<1>4. ASSUME NEW y \in S PROVE y <= x
    <2>1. n - y \in T /\ x \in Nat /\ y \in Nat
        BY DEF T
    <2>2. n - x <= n - y
        BY <1>2, <1>3, <2>1
    <2> QED
        BY <2>1, <2>2
<1> QED
    BY <1>4 DEF LastOf

(* What a put changes.                                                     *)
LEMMA PutFacts ==
    \A n, c, files :
        /\ DOMAIN Put(n, c, files) = {n} \cup DOMAIN files
        /\ Put(n, c, files)[n] = c
        /\ \A m \in DOMAIN files : m # n => Put(n, c, files)[m] = files[m]
BY DEF Put

(* The changes of a day tell of days.                                      *)
LEMMA ComparedDays ==
    ASSUME NEW days, DOMAIN days \subseteq Nat, NEW d \in DOMAIN days
    PROVE  d \in DOMAIN Compared(days, d) /\ DOMAIN Compared(days, d) \subseteq DOMAIN days
<1> DEFINE E == EarlierDates(days, d)
<1>1. CASE E = {}
    <2>1. Compared(days, d) = Put(d, days[d], <<>>)
        BY <1>1 DEF Compared
    <2>2. DOMAIN <<>> = {}
        OBVIOUS
    <2>3. \A c, files : DOMAIN Put(d, c, files) = {d} \cup DOMAIN files
        BY DEF Put
    <2> QED
        BY <2>1, <2>2, <2>3
<1>2. CASE E # {}
    <2>1. E \subseteq Nat /\ d \in Nat /\ \A x \in E : x < d
        BY DEF EarlierDates
    <2>2. LastOf(E) \in E
        <3> HIDE DEF E
        <3> QED
            BY <1>2, <2>1, Largest
    <2>3. DOMAIN Compared(days, d) = {d, LastOf(E)}
        <3>1. Compared(days, d) = Put(d, days[d], Only(LastOf(E), days[LastOf(E)]))
            BY <1>2 DEF Compared
        <3>2. DOMAIN Only(LastOf(E), days[LastOf(E)]) = {LastOf(E)}
            BY DEF Only
        <3>3. \A c, files : DOMAIN Put(d, c, files) = {d} \cup DOMAIN files
            BY DEF Put
        <3> HIDE DEF E
        <3> QED
            BY <3>1, <3>2, <3>3
    <2> QED
        BY <2>2, <2>3 DEF EarlierDates
<1> QED
    BY <1>1, <1>2

(* Everything that can be reached is known.                                *)
LEMMA ReachIsKnown ==
    ASSUME NEW files
    PROVE  Reach(files) \subseteq Known(files)
<1> DEFINE K == Known(files)
           first == Resolved(files, References(Index, files[Index]))
           Below(S) == UNION {Resolved(files, References(n, files[n])) : n \in S \cap DOMAIN files}
<1>1. \A n : n.kind # "plain" => ResolvesTo(files, n) = n
    BY DEF ResolvesTo
<1>2. first \subseteq K
    BY <1>1, NameFacts DEF Resolved, References, Known, Mentioned, IsSnapshot
<1>3. ASSUME NEW n \in K PROVE Resolved(files, References(n, files[n])) \subseteq K
    <2>1. CASE n = Recent
        BY <1>1, <2>1, NameFacts DEF Resolved, References, Known, Mentioned, IsSnapshot
    <2>2. CASE \E d \in Mentioned(files) : n = Name("changes", d)
        BY <1>1, <2>2, NameFacts DEF Resolved, References, Known, IsSnapshot
    <2>3. CASE \E d : n = ResolvesTo(files, SnapshotName(d))
        BY <2>3, NameFacts DEF Resolved, References, IsSnapshot, ResolvesTo, SnapshotName, Compressed
    <2> QED
        BY <2>1, <2>2, <2>3 DEF Known
<1>4. \A S : S \subseteq K => Below(S) \subseteq K
    BY <1>3
<1>5. Reach(files) = (first \cup Below(first)) \cup Below(first \cup Below(first))
    BY DEF Reach
<1> HIDE DEF K, first, Below
<1>6. first \cup Below(first) \subseteq K
    BY <1>2, <1>4
<1>7. Reach(files) \subseteq K
    BY <1>4, <1>5, <1>6
<1> QED
    BY <1>7 DEF K

(* If all that can be reached is there, so is all that is known.           *)
LEMMA KnownIsReached ==
    ASSUME NEW files, Reach(files) \subseteq DOMAIN files
    PROVE  Known(files) \subseteq DOMAIN files
<1> DEFINE first == Resolved(files, References(Index, files[Index]))
           Below(S) == UNION {Resolved(files, References(n, files[n])) : n \in S \cap DOMAIN files}
           second == first \cup Below(first)
           R == Reach(files)
<1>1. \A n : n.kind # "plain" => ResolvesTo(files, n) = n
    BY DEF ResolvesTo
<1>2. R = second \cup Below(second)
    BY DEF Reach
<1>3. Recent \in first /\ \A d \in DOMAIN files[Index] :
          Name("changes", d) \in first /\ ResolvesTo(files, SnapshotName(d)) \in first
    BY <1>1, NameFacts DEF Resolved, References, IsSnapshot
<1>4. first \subseteq DOMAIN files /\ second \subseteq DOMAIN files
    BY <1>2
<1>5. \A d \in DOMAIN files[Recent] :
          Name("changes", d) \in second /\ ResolvesTo(files, SnapshotName(d)) \in second
    <2>1. Resolved(files, References(Recent, files[Recent])) \subseteq second
        BY <1>3, <1>4
    <2> QED
        BY <1>1, <2>1, NameFacts DEF Resolved, References, IsSnapshot
<1>6. ASSUME NEW d \in Mentioned(files), NEW e \in DOMAIN files[Name("changes", d)]
      PROVE  ResolvesTo(files, SnapshotName(e)) \in R
    <2>1. Name("changes", d) \in second
        BY <1>3, <1>5 DEF Mentioned
    <2>2. Resolved(files, References(Name("changes", d), files[Name("changes", d)])) \subseteq R
        BY <1>2, <1>4, <2>1
    <2> QED
        BY <2>2, NameFacts DEF Resolved, References, IsSnapshot
<1> HIDE DEF first, Below, second, R
<1>7. \A d \in Mentioned(files) : Name("changes", d) \in R /\ ResolvesTo(files, SnapshotName(d)) \in R
    BY <1>2, <1>3, <1>5 DEF Mentioned, second
<1>8. Recent \in R
    BY <1>2, <1>3 DEF second
<1>9. Known(files) \subseteq R
    BY <1>6, <1>7, <1>8 DEF Known
<1> QED
    BY <1>9 DEF R

(* A directory is whole if it has what the days refer to that it mentions. *)
LEMMA WholeMeans ==
    ASSUME NEW files
    PROVE  Known(files) \subseteq DOMAIN files
           <=> /\ Recent \in DOMAIN files
               /\ \A d \in Mentioned(files) :
                      /\ Name("changes", d) \in DOMAIN files /\ Found(files, d)
                      /\ \A e \in DOMAIN files[Name("changes", d)] : Found(files, e)
<1>1. \A d : Found(files, d) <=> ResolvesTo(files, SnapshotName(d)) \in DOMAIN files
    BY NameFacts DEF Found, ResolvesTo, SnapshotName, Compressed
<1> QED
    BY <1>1 DEF Known

(* What a generation consists of.                                          *)
LEMMA PublishedFacts ==
    ASSUME NEW days, DOMAIN days \subseteq Nat
    PROVE  /\ DOMAIN Published(days) = {Index, Recent} \cup {Name("changes", d) : d \in DOMAIN days}
                                       \cup {Name("gz", d) : d \in DOMAIN days}
           /\ Published(days)[Index] = days /\ Published(days)[Recent] = days
           /\ \A d \in DOMAIN days : /\ Published(days)[Name("changes", d)] = Compared(days, d)
                                     /\ Published(days)[Name("gz", d)] = Only(d, days[d])
           /\ \A n \in DOMAIN Published(days) : DOMAIN Published(days)[n] \subseteq Nat
<1> DEFINE P == Published(days)
<1>1. DOMAIN P = {Index, Recent} \cup {Name("changes", d) : d \in DOMAIN days}
                                       \cup {Name("gz", d) : d \in DOMAIN days}
    BY DEF Published
<1>2. P[Index] = days /\ P[Recent] = days
    BY NameFacts DEF Published
<1>3. \A d \in DOMAIN days : P[Name("changes", d)] = Compared(days, d) /\ P[Name("gz", d)] = Only(d, days[d])
    BY NameFacts DEF Published
<1>4. \A d \in DOMAIN days : DOMAIN Only(d, days[d]) \subseteq Nat
    BY DEF Only
<1>5. \A d \in DOMAIN days : DOMAIN Compared(days, d) \subseteq Nat
    BY ComparedDays
<1> HIDE DEF P
<1>6. \A n \in DOMAIN P : DOMAIN P[n] \subseteq Nat
    BY <1>1, <1>2, <1>3, <1>4, <1>5
<1> QED
    BY <1>1, <1>2, <1>3, <1>6 DEF P

(* Generations are indexes.                                                *)
LEMMA GensAreDays == \A g \in DOMAIN Gens : IsDays(Gens[g]) /\ DOMAIN Gens[g] \subseteq Nat
<1> SUFFICES ASSUME NEW g \in DOMAIN Gens PROVE IsDays(Gens[g]) /\ DOMAIN Gens[g] \subseteq Nat
    OBVIOUS
<1>1. Gens[g] \in Histories /\ DOMAIN Gens[g] \subseteq Nat \ {0}
    BY FetchAssumption DEF Histories
<1>2. \A d \in DOMAIN Gens[g] : Gens[g][d] \in Range(Gens[g])
    BY DEF Range
<1> QED
    BY <1>1, <1>2, ObservationAssumption DEF IsDays, Observations

(* The next object to be read is of the least family, and there of the     *)
(* least date.                                                             *)
LEMMA NextIsFirst ==
    ASSUME pending # {}, \A n \in pending : IsName(n)
    PROVE  NextPending \in pending /\ \A m \in pending : \/ Family(NextPending) < Family(m)
                                                         \/ Family(NextPending) = Family(m)
                                                            /\ NextPending.date <= m.date
<1> DEFINE F == {Family(n) : n \in pending}
<1>1. \A n \in pending : Family(n) \in Nat /\ n.date \in Nat
    BY DEF Family, IsName, Recent, Name
<1>2. F \subseteq Nat /\ F # {}
    BY <1>1
<1>3. PICK f \in F : \A h \in F : f <= h
    <2> HIDE DEF F
    <2> QED
        BY <1>2, Smallest
<1> DEFINE D == {n.date : n \in {m \in pending : Family(m) = f}}
<1>4. D \subseteq Nat /\ D # {}
    BY <1>1
<1>5. PICK d \in D : \A e \in D : d <= e
    <2> HIDE DEF D
    <2> QED
        BY <1>4, Smallest
<1>6. PICK n \in pending : Family(n) = f /\ n.date = d
    BY <1>5
<1>7. ASSUME NEW m \in pending
      PROVE  Family(n) < Family(m) \/ (Family(n) = Family(m) /\ n.date <= m.date)
    <2>1. f <= Family(m) /\ f \in Nat /\ Family(m) \in Nat
        BY <1>1, <1>2, <1>3
    <2>2. Family(m) = f => d <= m.date
        BY <1>5
    <2> QED
        BY <1>6, <2>1, <2>2
<1> HIDE DEF F, D
<1> QED
    BY <1>6, <1>7 DEF NextPending
-----------------------------------------------------------------------------
(* A complete copy is a whole directory.                                   *)
LEMMA CopyIsGood ==
    ASSUME Types, CopySound, pending = {}
    PROVE  Good(staged, source)
<1>1. ASSUME NEW n \in got
      PROVE  /\ ResolvesTo(staged, n) \in DOMAIN staged
             /\ source # 0 => staged[ResolvesTo(staged, n)]
                              = Published(Gens[source])[Stored(ResolvesTo(staged, n))]
    <2>1. CASE n \in DOMAIN staged
        BY <2>1 DEF CopySound, ResolvesTo
    <2>2. CASE n \notin DOMAIN staged
        <3>1. Stored(n) \in got \cap DOMAIN staged
            BY DEF CopySound
        <3>2. n.kind = "plain" /\ ResolvesTo(staged, n) = Stored(n)
            BY <2>2, <3>1 DEF Stored, ResolvesTo
        <3>3. Stored(Stored(n)) = Stored(n)
            BY <3>2, NameFacts DEF Stored, Compressed
        <3> QED
            BY <3>1, <3>2, <3>3 DEF CopySound
    <2> QED
        BY <2>1, <2>2
<1>2. References(Index, Days(staged)) \subseteq got /\ \A n \in got : References(n, staged[n]) \subseteq got
    BY DEF CopySound
<1>3. Recent \in got /\ \A d \in DOMAIN staged[Index] : {Name("changes", d), SnapshotName(d)} \subseteq got
    BY <1>2, NameFacts DEF References, IsSnapshot, Days
<1>4. \A d \in DOMAIN staged[Recent] : {Name("changes", d), SnapshotName(d)} \subseteq got
    BY <1>2, <1>3, NameFacts DEF References, IsSnapshot
<1>5. ASSUME NEW d \in Mentioned(staged)
      PROVE  \A e \in {d} \cup DOMAIN staged[Name("changes", d)] : SnapshotName(e) \in got
    <2>1. {Name("changes", d), SnapshotName(d)} \subseteq got
        BY <1>3, <1>4 DEF Mentioned
    <2>2. References(Name("changes", d), staged[Name("changes", d)]) \subseteq got
        BY <1>2, <2>1
    <2> QED
        BY <2>1, <2>2, NameFacts DEF References, IsSnapshot
<1>6. \A d : ResolvesTo(staged, Name("changes", d)) = Name("changes", d) /\ ResolvesTo(staged, Recent) = Recent
    BY NameFacts DEF ResolvesTo
<1>7. \A n \in Known(staged) : \E m \in got : n = ResolvesTo(staged, m)
    BY <1>3, <1>4, <1>5, <1>6 DEF Known, Mentioned
<1>8. source # 0 => staged[Index] = Published(Gens[source])[Stored(Index)]
    <2>1. Stored(Index) = Index
        BY NameFacts DEF Stored
    <2> QED
        BY <2>1, GensAreDays, PublishedFacts DEF CopySound, Days
<1> QED
    BY <1>1, <1>7, <1>8 DEF Good, CopySound

(* What Download puts, and under which name.                               *)
LEMMA DownloadFacts ==
    ASSUME Types, CopySound, Download
    PROVE  \E n, c :
               /\ n \in pending /\ n = NextPending /\ n \notin got /\ IsName(n)
               /\ staged' = Put(Stored(n), c, staged) /\ got' = got \cup {n, Stored(n)}
               /\ pending' = (pending \ {n}) \cup (References(n, c) \ (got \cup {n}))
               /\ IF Stored(n) \in got THEN c = staged[Stored(n)]
                  ELSE Stored(n) \in DOMAIN Published(Gens[Read]) /\ c = Published(Gens[Read])[Stored(n)]
               /\ n # Stored(n) /\ n \in DOMAIN staged => staged[n] = c
               /\ DOMAIN c \subseteq Nat
<1> DEFINE served == Published(Gens[Read])
           n      == NextPending
           actual == IF n \in DOMAIN served THEN n ELSE Compressed(n)
           c      == IF actual \in got THEN staged[actual] ELSE served[actual]
<1>1. n \in pending /\ n \notin got /\ IsName(n)
    BY NextIsFirst DEF Types, Download
<1>2. Read \in DOMAIN Gens
    BY DEF Types, Read
<1>3. /\ DOMAIN served = {Index, Recent} \cup {Name("changes", d) : d \in DOMAIN Gens[Read]}
                                         \cup {Name("gz", d) : d \in DOMAIN Gens[Read]}
      /\ \A m \in DOMAIN served : DOMAIN served[m] \subseteq Nat
    BY <1>2, GensAreDays, PublishedFacts
<1>4. /\ IsSnapshot(n) \/ n \in DOMAIN served
      /\ actual \in DOMAIN served \cup got
      /\ n # actual /\ n \in DOMAIN staged => staged[n] = c
      /\ staged' = Put(actual, c, staged) /\ got' = got \cup {n, actual} /\ pending' = StillPending(n, c)
    BY DEF Download
<1>5. actual = Stored(n)
    <2>1. CASE n.kind = "plain"
        <3>1. n \notin DOMAIN served
            BY <1>3, <2>1, NameFacts
        <3> QED
            BY <2>1, <3>1 DEF Stored
    <2>2. CASE n.kind = "gz"
        <3>1. n = Compressed(n)
            BY <1>1, <2>2, NameFacts DEF IsName, Compressed
        <3> QED
            BY <2>2, <3>1 DEF Stored
    <2>3. CASE ~IsSnapshot(n)
        BY <1>4, <2>3 DEF Stored, IsSnapshot
    <2> QED
        BY <2>1, <2>2, <2>3 DEF IsSnapshot
<1>6. IF Stored(n) \in got THEN c = staged[Stored(n)]
      ELSE Stored(n) \in DOMAIN served /\ c = served[Stored(n)]
    BY <1>4, <1>5
<1>7. DOMAIN c \subseteq Nat
    <2>1. CASE Stored(n) \in got
        <3>1. Stored(Stored(n)) = Stored(n)
            BY NameFacts DEF Stored, Compressed
        <3>2. DOMAIN staged[Stored(n)] \subseteq Nat
            BY <2>1, <3>1 DEF CopySound
        <3> QED
            BY <1>6, <2>1, <3>2
    <2>2. CASE Stored(n) \notin got
        BY <1>3, <1>6, <2>2
    <2> QED
        BY <2>1, <2>2
<1> HIDE DEF actual, c, served, n
<1>8. /\ staged' = Put(Stored(n), c, staged) /\ got' = got \cup {n, Stored(n)}
      /\ pending' = (pending \ {n}) \cup (References(n, c) \ (got \cup {n}))
      /\ n # Stored(n) /\ n \in DOMAIN staged => staged[n] = c
    BY <1>4, <1>5 DEF StillPending
<1> QED
    BY <1>1, <1>6, <1>7, <1>8 DEF n, served

(* Kinds of names that are written under a name of their own.              *)
LEMMA StoredFacts ==
    /\ \A n : Stored(Stored(n)) = Stored(n) /\ Stored(n).kind # "plain"
    /\ \A n : IsSnapshot(n) <=> IsSnapshot(Stored(n))
    /\ \A n : n.kind # "plain" => Stored(n) = n
    /\ \A n : n.kind = "plain" => Stored(n) = Name("gz", n.date)
    /\ \A n : IsName(n) => IsName(Stored(n)) /\ n # Index /\ Stored(n) # Index
    /\ \A n, c : IsSnapshot(n) => References(n, c) = {}
<1>1. \A n : Stored(Stored(n)) = Stored(n) /\ Stored(n).kind # "plain"
    BY NameFacts DEF Stored, Compressed
<1>2. \A n : IsSnapshot(n) <=> IsSnapshot(Stored(n))
    BY NameFacts DEF Stored, Compressed, IsSnapshot
<1>3. \A n : /\ n.kind # "plain" => Stored(n) = n
             /\ n.kind = "plain" => Stored(n) = Name("gz", n.date)
    BY DEF Stored, Compressed
<1>4. \A n, c : IsSnapshot(n) => References(n, c) = {}
    BY DEF References
<1>5. ASSUME NEW n, IsName(n) PROVE n # Index /\ IsName(Stored(n)) /\ Stored(n) # Index
    <2>1. n.kind # "index"
        BY <1>5, NameFacts DEF IsName
    <2>2. CASE n.kind = "plain"
        <3>1. Stored(n) = Name("gz", n.date) /\ n.date \in Nat
            BY <1>3, <1>5, <2>2, NameFacts DEF IsName
        <3>2. Stored(n).kind = "gz" /\ Stored(n).date = n.date
            BY <3>1, NameFacts
        <3> QED
            BY <2>1, <3>1, <3>2, NameFacts DEF IsName
    <2>3. CASE n.kind # "plain"
        BY <1>3, <1>5, <2>1, <2>3, NameFacts
    <2> QED
        BY <2>2, <2>3
<1> QED
    BY <1>1, <1>2, <1>3, <1>4, <1>5

(* References to days are to names.                                        *)
LEMMA ReferencesAreNames ==
    ASSUME NEW n, IsName(n) \/ n = Index, NEW c, DOMAIN c \subseteq Nat
    PROVE  \A m \in References(n, c) : IsName(m) /\ (IsSnapshot(m) => m = SnapshotName(m.date))
<1>1. \A d \in Nat : IsName(Name("changes", d)) /\ ~IsSnapshot(Name("changes", d))
    BY NameFacts DEF IsName, IsSnapshot
<1>2. \A d \in Nat : IsName(SnapshotName(d)) /\ SnapshotName(d).date = d
    BY NameFacts DEF IsName, SnapshotName
<1>3. IsName(Recent) /\ ~IsSnapshot(Recent)
    BY NameFacts DEF IsName, IsSnapshot
<1>4. n.kind = "changes" => IsName(n) /\ ~IsSnapshot(n)
    BY NameFacts DEF IsSnapshot
<1>5. \A m \in References(n, c) :
          \/ \E d \in Nat : m = SnapshotName(d) \/ m = Name("changes", d)
          \/ m = n /\ n.kind = "changes"
          \/ m = Recent
    BY DEF References
<1> QED
    BY <1>1, <1>2, <1>3, <1>4, <1>5

(* A download keeps the copy sound.                                        *)
LEMMA DownloadStep ==
    ASSUME Inv, Download, UNCHANGED <<filing, replayed>>
    PROVE  Types' /\ CopySound'
<1>1. Types /\ CopySound /\ Copying
    BY DEF Inv, Download, Copying
<1>2. PICK n, c :
          /\ n \in pending /\ n \notin got /\ IsName(n)
          /\ staged' = Put(Stored(n), c, staged) /\ got' = got \cup {n, Stored(n)}
          /\ pending' = (pending \ {n}) \cup (References(n, c) \ (got \cup {n}))
          /\ IF Stored(n) \in got THEN c = staged[Stored(n)]
             ELSE Stored(n) \in DOMAIN Published(Gens[Read]) /\ c = Published(Gens[Read])[Stored(n)]
          /\ n # Stored(n) /\ n \in DOMAIN staged => staged[n] = c
          /\ DOMAIN c \subseteq Nat
    BY <1>1, DownloadFacts
<1>3. UNCHANGED <<origin, local, pinned, phase, source, backup, filing>> /\ tries' = 1 /\ phase = "objects"
    BY DEF Download
<1>4. /\ DOMAIN staged' = {Stored(n)} \cup DOMAIN staged /\ staged'[Stored(n)] = c
      /\ \A m \in DOMAIN staged : m # Stored(n) => staged'[m] = staged[m]
    <2>1. staged' = Put(Stored(n), c, staged)
        BY <1>2
    <2> DEFINE new == Put(Stored(n), c, staged)
    <2>2. /\ DOMAIN new = {Stored(n)} \cup DOMAIN staged /\ new[Stored(n)] = c
          /\ \A m \in DOMAIN staged : m # Stored(n) => new[m] = staged[m]
        BY DEF Put
    <2> HIDE DEF new
    <2>3. staged' = new
        BY <2>1 DEF new
    <2> QED
        BY <2>2, <2>3
<1>5. \A m \in got : m \in DOMAIN staged => staged'[m] = staged[m]
    BY <1>2, <1>4
<1>6. \A m \in got : Stored(m) \in got \cap DOMAIN staged /\ staged'[Stored(m)] = staged[Stored(m)]
    BY <1>1, <1>5 DEF CopySound
<1>7. IsName(Stored(n)) /\ Index # Stored(n) /\ Stored(Stored(n)) = Stored(n)
    BY <1>2, StoredFacts
<1>8. \A m \in References(n, c) : IsName(m) /\ (IsSnapshot(m) => m = SnapshotName(m.date))
    BY <1>2, ReferencesAreNames
<1>9. \A m \in pending \cup got : IsName(m)
    BY <1>1 DEF Types
<1>10. pending' \cap got' = {}
    <2>1. SUFFICES ASSUME NEW m \in pending', m \in got' PROVE FALSE
        OBVIOUS
    <2>2. pending \cap got = {}
        BY <1>1 DEF Types
    <2>3. m = Stored(n) /\ Stored(n) # n
        BY <1>2, <2>1, <2>2
    <2>4. n.kind = "plain" /\ m = Name("gz", n.date) /\ IsSnapshot(n)
        BY <2>3, StoredFacts DEF IsSnapshot
    <2>5. m \in pending /\ n \in pending
        BY <1>2, <2>1, <2>4, StoredFacts
    <2>6. n = SnapshotName(n.date) /\ m = SnapshotName(m.date) /\ m.date = n.date /\ m.kind = "gz"
        BY <1>1, <2>4, <2>5, NameFacts DEF Types, IsSnapshot
    <2> QED
        BY <2>4, <2>6
<1>11. Types'
    <2>1. \A m \in pending' \cup got' : IsName(m)
        BY <1>2, <1>7, <1>8, <1>9
    <2>2. \A m \in pending' : IsSnapshot(m) => m = SnapshotName(m.date)
        BY <1>1, <1>2, <1>8 DEF Types
    <2>3. 1 \in 0..Attempts
        BY FetchAssumption
    <2> QED
        BY <1>1, <1>3, <1>10, <2>1, <2>2, <2>3 DEF Types, Copying
<1>12. Index \in DOMAIN staged' /\ Days(staged') = Days(staged) /\ Read' = Read
    BY <1>1, <1>3, <1>4, <1>7 DEF CopySound, Days, Read
<1>13. got \cup pending \subseteq got' \cup pending' /\ References(n, c) \subseteq got' \cup pending'
    BY <1>2
<1>14. ASSUME NEW m \in got'
       PROVE  /\ Stored(m) \in got' \cap DOMAIN staged'
              /\ DOMAIN staged'[Stored(m)] \subseteq Nat
              /\ source # 0 => staged'[Stored(m)] = Published(Gens[source])[Stored(m)]
    <2>1. CASE m \in got
        BY <1>1, <1>2, <1>4, <1>6, <2>1 DEF CopySound
    <2>2. CASE m \notin got
        <3>1. Stored(m) = Stored(n)
            BY <1>2, <1>7, <2>2
        <3>2. source # 0 => c = Published(Gens[source])[Stored(n)]
            <4>1. CASE Stored(n) \in got
                BY <1>1, <1>2, <1>7, <4>1 DEF CopySound
            <4>2. CASE Stored(n) \notin got
                BY <1>2, <4>2 DEF Read
            <4> QED
                BY <4>1, <4>2
        <3> QED
            BY <1>2, <1>4, <3>1, <3>2
    <2> QED
        BY <2>1, <2>2
<1>15. ASSUME NEW m \in got', m \in DOMAIN staged' PROVE staged'[m] = staged'[Stored(m)]
    <2>1. CASE m \in got /\ m \in DOMAIN staged
        BY <1>1, <1>5, <1>6, <2>1 DEF CopySound
    <2>2. CASE m = Stored(n)
        BY <1>7, <2>2
    <2>3. CASE m = n /\ n # Stored(n)
        BY <1>2, <1>4, <1>15, <2>3
    <2> QED
        BY <1>2, <1>4, <1>15, <2>1, <2>2, <2>3
<1>16. ASSUME NEW m \in got' PROVE References(m, staged'[m]) \subseteq got' \cup pending'
    <2>1. CASE IsSnapshot(m)
        BY <2>1, StoredFacts
    <2>2. CASE ~IsSnapshot(m) /\ m \in got
        <3>1. m \in DOMAIN staged
            BY <1>6, <2>2, StoredFacts DEF IsSnapshot
        <3> QED
            BY <1>1, <1>5, <1>13, <2>2, <3>1 DEF CopySound
    <2>3. CASE ~IsSnapshot(m) /\ m \notin got
        <3>1. m = n /\ Stored(n) = n
            BY <1>2, <2>3, StoredFacts DEF IsSnapshot
        <3> QED
            BY <1>4, <1>13, <3>1
    <2> QED
        BY <2>1, <2>2, <2>3
<1>17. /\ \E g \in DOMAIN Gens : g <= Read /\ Days(staged) = Gens[g] /\ (source # 0 => g = source)
       /\ IsDays(Days(staged)) /\ References(Index, Days(staged)) \subseteq got' \cup pending'
    BY <1>1, <1>13 DEF CopySound
<1> QED
    BY <1>3, <1>11, <1>12, <1>14, <1>15, <1>16, <1>17 DEF CopySound

(* Where a fetch begins: at an index, with all that it refers to to do.    *)
LEMMA StageStep ==
    ASSUME Types, Types', NEW g \in DOMAIN Gens, g <= Read', source' # 0 => g = source', Stage(Gens[g])
    PROVE  CopySound'
<1>1. staged' = Put(Index, Gens[g], IF local = Absent THEN <<>> ELSE local)
    BY DEF Stage
<1>2. Index \in DOMAIN staged' /\ staged'[Index] = Gens[g]
    BY <1>1 DEF Put
<1>3. pending' = References(Index, Gens[g]) /\ got' = {}
    BY DEF Stage
<1> QED
    BY <1>2, <1>3, GensAreDays DEF CopySound, Days

(* What is to be read for an index has names of the right shape.           *)
LEMMA StageTypes ==
    ASSUME NEW g \in DOMAIN Gens, Stage(Gens[g])
    PROVE  /\ \A n \in pending' \cup got' : IsName(n)
           /\ pending' \cap got' = {}
           /\ \A n \in pending' : IsSnapshot(n) => n = SnapshotName(n.date)
           /\ phase' = "objects" /\ tries' \in 0..Attempts
<1>1. \A n \in References(Index, Gens[g]) : IsName(n) /\ (IsSnapshot(n) => n = SnapshotName(n.date))
    BY GensAreDays, ReferencesAreNames
<1> QED
    BY <1>1, FetchAssumption DEF Stage

(* Whatever the steps of a fetch put in place of the local history.        *)
LEMMA FetchInv == Inv /\ FetchNext /\ UNCHANGED <<filing, replayed>> => Inv'
<1> SUFFICES ASSUME Inv, FetchNext, UNCHANGED <<filing, replayed>> PROVE Inv'
    OBVIOUS
<1> USE FetchAssumption
<1>a. Types
    BY DEF Inv
<1>1. CASE Deploy
    <2>1. Types' /\ UNCHANGED <<phase, local, pinned, staged, got, pending, source, backup, filing>>
        BY <1>a, <1>1 DEF Deploy, Types, Copying
    <2>2. CopySound => CopySound'
        <3>1. Read \in Nat /\ Read' \in Nat /\ Read <= Read'
            BY <1>a, <1>1 DEF Deploy, Types, Read
        <3>2. \A g \in DOMAIN Gens : g \in Nat /\ (g <= Read => g <= Read')
            BY <3>1
        <3> QED
            BY <2>1, <3>2 DEF CopySound
    <2> QED
        BY <2>1, <2>2 DEF Inv, Copying, Updating, UpdateSound
<1>2. CASE Start \/ Retry
    <2>1. Types'
        BY <1>a, <1>2 DEF Start, Retry, Fetching, Types, Copying
    <2>2. UNCHANGED <<origin, local, pinned, source, pending, got, staged, backup>>
        BY <1>2 DEF Start, Retry
    <2>3. CopySound => CopySound'
        BY <2>2 DEF CopySound, Read
    <2>4. ~Updating' /\ (phase' = phase \/ phase' = "index") /\ phase' # "swap"
        BY <1>2 DEF Start, Retry, Fetching, Updating
    <2> QED
        BY <2>1, <2>2, <2>3, <2>4 DEF Inv, Copying
<1>3. CASE GivesUp \/ Dies
    <2>1. Types' /\ phase' = "idle" /\ UNCHANGED <<local, pinned>>
        BY <1>a, <1>3 DEF GivesUp, Dies, Ends, Types, Copying
    <2> QED
        BY <2>1 DEF Inv, Copying, Updating
<1>4. CASE ReadIndex
    <2>1. CASE origin \in Archived
        <3>1. Types' /\ phase' = "archive" /\ UNCHANGED <<local, pinned>>
            BY <1>a, <1>4, <2>1 DEF ReadIndex, Types, Copying
        <3> QED
            BY <3>1 DEF Inv, Copying, Updating
    <2>2. CASE origin \notin Archived
        <3>1. Stage(Gens[origin]) /\ UNCHANGED <<origin, local, pinned, source, backup>> /\ origin \in DOMAIN Gens
            BY <1>a, <1>4, <2>2 DEF ReadIndex, Types
        <3>2. source = 0
            BY <1>a, <1>4 DEF ReadIndex, Types
        <3>3. Types' /\ phase' = "objects"
            BY <1>a, <3>1, StageTypes DEF Types, Copying
        <3>4. Read' = origin /\ origin <= origin
            BY <1>a, <3>1, <3>2 DEF Read, Types
        <3>5. CopySound'
            BY <1>a, <3>1, <3>2, <3>3, <3>4, StageStep
        <3> QED
            BY <3>1, <3>3, <3>5 DEF Inv, Copying, Updating
    <2> QED
        BY <2>1, <2>2
<1>5. CASE ReadArchiveIndex
    <2>1. PICK g : g = Read
        OBVIOUS
    <2>2. Stage(Gens[g]) /\ UNCHANGED <<origin, local, pinned, source, backup>> /\ g \in DOMAIN Gens
        BY <1>a, <1>5, <2>1 DEF ReadArchiveIndex, Types, Read
    <2>3. Types' /\ phase' = "objects"
        BY <1>a, <2>2, StageTypes DEF Types, Copying
    <2>4. Read' = g /\ g <= g /\ (source' # 0 => g = source')
        BY <2>1, <2>2 DEF Read
    <2>5. CopySound'
        BY <1>a, <2>2, <2>3, <2>4, StageStep
    <2> QED
        BY <2>2, <2>3, <2>5 DEF Inv, Copying, Updating
<1>6. CASE Download
    <2>1. Types' /\ CopySound' /\ UNCHANGED <<local, pinned, phase>> /\ phase = "objects"
        BY <1>6, DownloadStep DEF Download
    <2> QED
        BY <2>1 DEF Inv, Copying, Updating
<1>7. CASE MoveAside
    <2>1. Types'
        BY <1>a, <1>7 DEF MoveAside, Types, Copying
    <2>2. CopySound /\ UNCHANGED <<staged, source, origin, got, pending>>
        BY <1>7 DEF Inv, MoveAside, Copying
    <2>3. CopySound'
        BY <2>2 DEF CopySound, Read
    <2> QED
        BY <1>7, <2>1, <2>3 DEF Inv, MoveAside, Copying, Updating
<1>8. CASE MoveIn
    <2>1. Types' /\ phase' = "idle" /\ local' = staged /\ pinned' = source
        BY <1>a, <1>8 DEF MoveIn, Ends, Types, Copying
    <2>2. Good(staged, source)
        BY <1>a, <1>8, CopyIsGood DEF Inv, MoveIn, Copying
    <2> QED
        BY <2>1, <2>2 DEF Inv, Copying, Updating
<1>9. CASE MoveBack
    <2>1. Types' /\ phase' = "idle" /\ local' = backup /\ pinned' = pinned
        BY <1>a, <1>9 DEF MoveBack, Ends, Types, Copying
    <2> QED
        BY <1>9, <2>1 DEF Inv, MoveBack, Copying, Updating
<1> QED
    BY <1>1, <1>2, <1>3, <1>4, <1>5, <1>6, <1>7, <1>8, <1>9 DEF FetchNext, FetchStep

(* Moving plain snapshots loses no snapshot and changes no other file.     *)
LEMMA MigratedFacts ==
    ASSUME NEW files, NEW M, M = Migrated(files)
    PROVE  /\ \A n : ~IsSnapshot(n) => (n \in DOMAIN M <=> n \in DOMAIN files)
           /\ \A n \in DOMAIN files : ~IsSnapshot(n) => M[n] = files[n]
           /\ \A d : Found(files, d) => Found(M, d)
           /\ \A d \in Legacy \cap DOMAIN Days(files) : Name("plain", d) \notin DOMAIN M
<1> DEFINE moved == {Name("plain", d) : d \in Legacy \cap DOMAIN Days(files)} \cap DOMAIN files
<1>1. DOMAIN M = (DOMAIN files \ moved) \cup {Compressed(n) : n \in moved}
    BY DEF Migrated
<1>2. \A n \in DOMAIN M : n \in DOMAIN files => M[n] = files[n]
    BY DEF Migrated
<1>3. \A n \in moved : Compressed(n) = Name("gz", n.date) /\ IsSnapshot(n) /\ IsSnapshot(Compressed(n))
    BY NameFacts DEF Compressed, IsSnapshot
<1>4. \A n : ~IsSnapshot(n) => (n \in DOMAIN M <=> n \in DOMAIN files)
    BY <1>1, <1>3
<1>5. \A d : Name("gz", d) \in DOMAIN files => Name("gz", d) \in DOMAIN M
    BY <1>1, NameFacts
<1>6. \A d : Name("plain", d) \in DOMAIN files => \/ Name("plain", d) \in DOMAIN M
                                                  \/ Name("gz", d) \in DOMAIN M
    BY <1>1, <1>3, NameFacts
<1>7. \A d \in Legacy \cap DOMAIN Days(files) : Name("plain", d) \notin DOMAIN M
    BY <1>1, <1>3, NameFacts
<1> QED
    BY <1>2, <1>4, <1>5, <1>6, <1>7 DEF Found

(* With the snapshot of a new observation a directory stays whole.         *)
LEMMA SnapshotStep ==
    ASSUME Inv, NEW t \in Fresh, WriteSnapshot(t)
    PROVE  Inv'
<1> DEFINE d == DayOf(t)
<1>1. Types' /\ phase' = "changes" /\ pinned' = 0 /\ filing' = t
    BY DEF Inv, WriteSnapshot, Types, Copying
<1>2. PICK M : M = Migrated(local)
    OBVIOUS
<1>3. local' = Put(Name("gz", d), Only(d, t), M)
    BY <1>2 DEF WriteSnapshot
<1>4. Good(local, pinned)
    BY DEF Inv, WriteSnapshot
<1>5. ~IsSnapshot(Index) /\ ~IsSnapshot(Recent) /\ (\A e : ~IsSnapshot(Name("changes", e)))
      /\ IsSnapshot(Name("gz", d))
    BY NameFacts DEF IsSnapshot
<1>6. /\ \A n : ~IsSnapshot(n) => (n \in DOMAIN local' <=> n \in DOMAIN local)
      /\ \A n \in DOMAIN local : ~IsSnapshot(n) => local'[n] = local[n]
    <2>1. /\ \A n : ~IsSnapshot(n) => (n \in DOMAIN M <=> n \in DOMAIN local)
          /\ \A n \in DOMAIN local : ~IsSnapshot(n) => M[n] = local[n]
        BY <1>2, MigratedFacts
    <2> QED
        BY <1>3, <1>5, <2>1 DEF Put
<1>7. (\A e : Found(local, e) => Found(local', e)) /\ Name("gz", d) \in DOMAIN local'
    <2>1. \A e : Found(local, e) => Found(M, e)
        BY <1>2, MigratedFacts
    <2>2. DOMAIN local' = {Name("gz", d)} \cup DOMAIN M
        BY <1>3 DEF Put
    <2> QED
        BY <2>1, <2>2 DEF Found
<1>8. Index \in DOMAIN local /\ Recent \in DOMAIN local
    BY <1>4, WholeMeans DEF Good
<1>9. Good(local', 0)
    <2>1. Index \in DOMAIN local' /\ Days(local') = Days(local) /\ Mentioned(local') = Mentioned(local)
        BY <1>5, <1>6, <1>8 DEF Days, Mentioned
    <2>2. Known(local') \subseteq DOMAIN local'
        <3>1. /\ Recent \in DOMAIN local
              /\ \A x \in Mentioned(local) :
                     /\ Name("changes", x) \in DOMAIN local /\ Found(local, x)
                     /\ \A e \in DOMAIN local[Name("changes", x)] : Found(local, e)
            BY <1>4, WholeMeans DEF Good
        <3>2. /\ Recent \in DOMAIN local'
              /\ \A x \in Mentioned(local') :
                     /\ Name("changes", x) \in DOMAIN local' /\ Found(local', x)
                     /\ \A e \in DOMAIN local'[Name("changes", x)] : Found(local', e)
            BY <1>5, <1>6, <1>7, <2>1, <3>1
        <3> QED
            BY <3>2, WholeMeans
    <2> QED
        BY <1>4, <2>1, <2>2 DEF Good
<1> QED
    BY <1>1, <1>7, <1>9 DEF Inv, Copying, Updating, UpdateSound

(* The date of what is filed, and the index with it.                       *)
LEMMA FiledFacts ==
    ASSUME NEW t \in Fresh, NEW days, IsDays(days), NEW new, new = Put(DayOf(t), t, days)
    PROVE  /\ IsDays(new) /\ DOMAIN new = {DayOf(t)} \cup DOMAIN days
           /\ DOMAIN new \subseteq Nat /\ DayOf(t) \in Nat \ {0}
           /\ new[DayOf(t)] = t /\ \A d \in DOMAIN days : d # DayOf(t) => new[d] = days[d]
<1>1. t \in Observations /\ DayOf(t) \in Nat \ {0}
    BY ObservationAssumption DEF Observations
<1>2. /\ DOMAIN new = {DayOf(t)} \cup DOMAIN days /\ new[DayOf(t)] = t
      /\ \A d \in DOMAIN days : d # DayOf(t) => new[d] = days[d]
    BY DEF Put
<1>3. \A d \in DOMAIN new : d \in Nat \ {0} /\ new[d] \in Observations /\ DayOf(new[d]) = d
    BY <1>1, <1>2 DEF IsDays
<1> QED
    BY <1>1, <1>2, <1>3 DEF IsDays

(* The changes refer to the new snapshot and to one of an earlier entry.   *)
LEMMA ChangesStep ==
    ASSUME Inv, WriteChanges, UNCHANGED replayed
    PROVE  Inv'
<1>1. PICK d, days, c : /\ d = DayOf(filing) /\ days = Put(d, filing, Days(local))
                        /\ c = Compared(days, d)
    OBVIOUS
<1>2. Types' /\ phase' = "filing" /\ filing' = filing /\ pinned' = pinned /\ phase = "changes"
    BY DEF Inv, WriteChanges, Types, Copying
<1>3. local' = Put(Name("changes", d), c, local)
    BY <1>1 DEF WriteChanges
<1>4. filing \in Fresh /\ pinned = 0 /\ Good(local, 0) /\ Name("gz", d) \in DOMAIN local
    BY <1>1, <1>2 DEF Inv, Updating, UpdateSound
<1>5. DOMAIN days = {d} \cup DOMAIN Days(local) /\ DOMAIN days \subseteq Nat
    BY <1>1, <1>4, FiledFacts DEF Good
<1>6. DOMAIN c \subseteq {d} \cup DOMAIN Days(local)
    BY <1>1, <1>5, ComparedDays
<1>7. /\ DOMAIN local' = {Name("changes", d)} \cup DOMAIN local /\ local'[Name("changes", d)] = c
      /\ \A n \in DOMAIN local : n # Name("changes", d) => local'[n] = local[n]
    BY <1>3 DEF Put
<1>8. \A e : Name("changes", e) # Index /\ Name("changes", e) # Recent
             /\ (Name("changes", e) = Name("changes", d) => e = d)
    BY NameFacts
<1>9. /\ Recent \in DOMAIN local
      /\ \A x \in Mentioned(local) :
             /\ Name("changes", x) \in DOMAIN local /\ Found(local, x)
             /\ \A e \in DOMAIN local[Name("changes", x)] : Found(local, e)
    BY <1>4, WholeMeans DEF Good
<1>10. Index \in DOMAIN local' /\ Days(local') = Days(local) /\ Mentioned(local') = Mentioned(local)
    BY <1>4, <1>7, <1>8, <1>9 DEF Days, Mentioned, Good
<1>11. \A e \in {d} \cup DOMAIN c : Found(local', e)
    BY <1>4, <1>6, <1>7, <1>9 DEF Found, Mentioned, Days
<1>12. Known(local') \subseteq DOMAIN local'
    <2>1. \A e : Found(local, e) => Found(local', e)
        BY <1>7 DEF Found
    <2>2. \A x \in Mentioned(local') :
              /\ Name("changes", x) \in DOMAIN local' /\ Found(local', x)
              /\ \A e \in DOMAIN local'[Name("changes", x)] : Found(local', e)
        <3>1. SUFFICES ASSUME NEW x \in Mentioned(local')
              PROVE  /\ Name("changes", x) \in DOMAIN local' /\ Found(local', x)
                     /\ \A e \in DOMAIN local'[Name("changes", x)] : Found(local', e)
            OBVIOUS
        <3>2. CASE x = d
            BY <1>7, <1>9, <1>10, <1>11, <2>1, <3>2
        <3>3. CASE x # d
            BY <1>7, <1>8, <1>9, <1>10, <2>1, <3>3
        <3> QED
            BY <3>2, <3>3
    <2> QED
        BY <1>7, <1>9, <2>2, WholeMeans
<1>13. Good(local', 0)
    BY <1>4, <1>10, <1>12 DEF Good
<1> QED
    BY <1>1, <1>2, <1>4, <1>7, <1>11, <1>13 DEF Inv, Copying, Updating, UpdateSound

(* The index gets the day whose changes and snapshot are there.            *)
LEMMA IndexStep ==
    ASSUME Inv, WriteIndex, UNCHANGED replayed
    PROVE  Inv'
<1>1. PICK d, days : d = DayOf(filing) /\ days = Put(d, filing, Days(local))
    OBVIOUS
<1>2. Types' /\ phase' = "recent" /\ filing' = filing /\ pinned' = pinned /\ phase = "filing"
    BY DEF Inv, WriteIndex, Types, Copying
<1>3. local' = Put(Index, days, local)
    BY <1>1 DEF WriteIndex
<1>4. /\ filing \in Fresh /\ pinned = 0 /\ Good(local, 0) /\ Name("changes", d) \in DOMAIN local
      /\ \A e \in {d} \cup DOMAIN local[Name("changes", d)] : Found(local, e)
    BY <1>1, <1>2 DEF Inv, Updating, UpdateSound
<1>5. IsDays(days) /\ DOMAIN days = {d} \cup DOMAIN Days(local)
    BY <1>1, <1>4, FiledFacts DEF Good
<1>6. /\ DOMAIN local' = DOMAIN local /\ Days(local') = days
      /\ \A n \in DOMAIN local : n # Index => local'[n] = local[n]
    BY <1>3, <1>4 DEF Put, Days, Good
<1>7. Recent # Index /\ \A e : Name("changes", e) # Index
    BY NameFacts
<1>8. /\ Recent \in DOMAIN local
      /\ \A x \in Mentioned(local) :
             /\ Name("changes", x) \in DOMAIN local /\ Found(local, x)
             /\ \A e \in DOMAIN local[Name("changes", x)] : Found(local, e)
    BY <1>4, WholeMeans DEF Good
<1>9. Mentioned(local') = {d} \cup Mentioned(local)
    BY <1>5, <1>6, <1>7, <1>8 DEF Mentioned, Days
<1>10. \A x \in Mentioned(local') :
           /\ Name("changes", x) \in DOMAIN local' /\ Found(local', x)
           /\ \A e \in DOMAIN local'[Name("changes", x)] : Found(local', e)
    BY <1>4, <1>6, <1>7, <1>8, <1>9 DEF Found
<1>11. Good(local', 0)
    BY <1>4, <1>5, <1>6, <1>8, <1>10, WholeMeans DEF Good
<1> QED
    BY <1>2, <1>4, <1>11 DEF Inv, Copying, Updating, UpdateSound

(* The recent changes tell of the days of the index only.                  *)
LEMMA RecentStep ==
    ASSUME Inv, WriteRecent, UNCHANGED replayed
    PROVE  Inv'
<1>1. Types' /\ phase' = "idle" /\ pinned' = pinned /\ phase = "recent"
    BY DEF Inv, WriteRecent, Types, Copying
<1>2. local' = Put(Recent, Days(local), local)
    BY DEF WriteRecent
<1>3. pinned = 0 /\ Good(local, 0)
    BY <1>1 DEF Inv, Updating, UpdateSound
<1>4. Recent # Index /\ \A e : Name("changes", e) # Recent
    BY NameFacts
<1>5. /\ Recent \in DOMAIN local
      /\ \A x \in Mentioned(local) :
             /\ Name("changes", x) \in DOMAIN local /\ Found(local, x)
             /\ \A e \in DOMAIN local[Name("changes", x)] : Found(local, e)
    BY <1>3, WholeMeans DEF Good
<1>6. /\ DOMAIN local' = DOMAIN local /\ local'[Recent] = Days(local)
      /\ \A n \in DOMAIN local : n # Recent => local'[n] = local[n]
    BY <1>2, <1>5 DEF Put
<1>7. Days(local') = Days(local)
    BY <1>3, <1>4, <1>6 DEF Days, Good
<1>8. Mentioned(local') \subseteq Mentioned(local)
    BY <1>6, <1>7 DEF Mentioned, Days
<1>9. \A x \in Mentioned(local') :
          /\ Name("changes", x) \in DOMAIN local' /\ Found(local', x)
          /\ \A e \in DOMAIN local'[Name("changes", x)] : Found(local', e)
    BY <1>4, <1>5, <1>6, <1>8 DEF Found
<1>10. Good(local', 0)
    BY <1>3, <1>5, <1>6, <1>7, <1>9, WholeMeans DEF Good
<1> QED
    BY <1>1, <1>3, <1>10 DEF Inv, Copying, Updating

(* What the directory holds at first is whole.                             *)
LEMMA InitInv == RecoveryInit => Inv
<1> SUFFICES ASSUME RecoveryInit PROVE Inv
    OBVIOUS
<1>1. Types /\ phase = "idle" /\ pinned = 0 /\ local \in Old
    BY FetchAssumption DEF RecoveryInit, Init, Types, Copying
<1>2. ASSUME local # Absent PROVE Good(local, 0)
    <2>1. /\ Index \in DOMAIN local /\ DOMAIN Days(local) \subseteq Nat \ {0}
          /\ Reach(local) \subseteq DOMAIN local
        BY <1>1, <1>2, OldAssumption DEF Days
    <2>2. Days(local) \in Histories /\ \A d \in DOMAIN Days(local) : Days(local)[d] \in Range(Days(local))
        BY <1>1, <1>2 DEF Histories, Range
    <2>3. IsDays(Days(local))
        BY <2>1, <2>2, ObservationAssumption DEF IsDays, Observations
    <2> QED
        BY <2>1, <2>3, KnownIsReached DEF Good
<1> QED
    BY <1>1, <1>2 DEF Inv, Copying, Updating

(* Every step keeps the invariant.                                         *)
LEMMA NextInv == Inv /\ [Next]_vars => Inv'
<1> SUFFICES ASSUME Inv, [Next]_vars PROVE Inv'
    OBVIOUS
<1>1. CASE phase # "replayed" /\ FetchNext /\ UNCHANGED <<filing, replayed>>
    BY <1>1, FetchInv
<1>2. CASE \E t \in Fresh : WriteSnapshot(t)
    BY <1>2, SnapshotStep
<1>3. CASE WriteChanges
    BY <1>3, ChangesStep DEF WriteChanges
<1>4. CASE WriteIndex
    BY <1>4, IndexStep DEF WriteIndex
<1>5. CASE WriteRecent
    BY <1>5, RecentStep DEF WriteRecent
<1>6. CASE UpdateDies
    <2>1. Types' /\ phase' = "idle" /\ UNCHANGED <<local, pinned>>
        BY <1>6 DEF Inv, UpdateDies, Types, Copying
    <2> QED
        BY <2>1 DEF Inv, Copying, Updating
<1>7. CASE \E bundles \in SUBSET Bundles : Replay(bundles)
    <2>1. /\ phase = "idle" /\ phase' = "replaying"
          /\ UNCHANGED <<origin, local, pinned, source, tries, pending, got, staged, backup, filing>>
        BY <1>7 DEF Replay
    <2>2. Types'
        BY <2>1 DEF Inv, Types, Copying
    <2> QED
        BY <2>1, <2>2 DEF Inv, Copying, Updating
<1>8. CASE ReplayOne \/ UNCHANGED vars
    <2>1. UNCHANGED <<origin, local, pinned, phase, source, tries, pending, got, staged, backup, filing>>
        BY <1>8 DEF ReplayOne, vars, fetch
    <2> QED
        BY <2>1 DEF Inv, Types, Copying, Updating, CopySound, UpdateSound, Read
<1>9. CASE ReplayEnds \/ ReplayDies
    <2>1. /\ phase = "replaying" /\ phase' \in {"idle", "replayed"}
          /\ UNCHANGED <<origin, local, pinned, source, tries, pending, got, staged, backup, filing>>
        BY <1>9 DEF ReplayEnds, ReplayDies
    <2>2. Types'
        BY <2>1 DEF Inv, Types, Copying
    <2> QED
        BY <2>1, <2>2 DEF Inv, Copying, Updating
<1> QED
    BY <1>1, <1>2, <1>3, <1>4, <1>5, <1>6, <1>7, <1>8, <1>9 DEF Next

(* The invariant holds always.                                             *)
LEMMA Invariance == Spec => []Inv
<1> QED
    BY InitInv, NextInv, PTL DEF Spec

(* Whatever is published, retried or stopped meanwhile, everything that    *)
(* the local index leads to is there, and of the archive generation that   *)
(* was fetched.                                                            *)
THEOREM LocalIsWhole == Spec => []HistoryIsWhole
<1>1. Inv => HistoryIsWhole
    <2>1. SUFFICES ASSUME Inv, local # Absent
          PROVE  /\ Reach(local) \subseteq DOMAIN local
                 /\ pinned # 0 => \A n \in Reach(local) \cup {Index} :
                                      local[n] = Published(Gens[pinned])[Stored(n)]
        BY DEF HistoryIsWhole, Stored
    <2> QED
        BY <2>1, ReachIsKnown DEF Inv, Good
<1> QED
    BY <1>1, Invariance, PTL
-----------------------------------------------------------------------------
(* The changes of a day depend on that day and those before.               *)
LEMMA ComparedSame ==
    ASSUME NEW days, DOMAIN days \subseteq Nat, NEW d \in DOMAIN days, NEW new, new[d] = days[d],
           EarlierDates(new, d) = EarlierDates(days, d), \A e \in EarlierDates(days, d) : new[e] = days[e]
    PROVE  Compared(new, d) = Compared(days, d)
<1> DEFINE E == EarlierDates(days, d)
<1>1. CASE E = {}
    BY <1>1 DEF Compared
<1>2. CASE E # {}
    <2>1. E \subseteq Nat /\ d \in Nat /\ \A x \in E : x < d
        BY DEF EarlierDates
    <2>2. LastOf(E) \in E
        <3> HIDE DEF E
        <3> QED
            BY <1>2, <2>1, Largest
    <2> QED
        BY <1>2, <2>2 DEF Compared
<1> QED
    BY <1>1, <1>2

(* A later generation has another observation of a day, which is newer, or *)
(* the same changes.                                                       *)
LEMMA LaterGeneration ==
    ASSUME NEW g \in DOMAIN Gens, NEW h \in DOMAIN Gens, g <= h, NEW d \in DOMAIN Gens[g]
    PROVE  /\ d \in DOMAIN Gens[h] /\ Gens[g][d] \in Nat /\ Gens[h][d] \in Nat /\ Gens[g][d] <= Gens[h][d]
           /\ Gens[h][d] = Gens[g][d] => Compared(Gens[h], d) = Compared(Gens[g], d)
<1>1. /\ g \in Nat /\ h \in Nat /\ DOMAIN Gens[g] \subseteq Nat
      /\ \A k \in DOMAIN Gens : \A x \in DOMAIN Gens[k] : Gens[k][x] \in Nat
    BY FetchAssumption, GensAreDays, ObservationAssumption DEF IsDays
<1>2. CASE g = h
    BY <1>1, <1>2
<1>3. CASE g < h
    <2>1. /\ d \in DOMAIN Gens[h] /\ Gens[g][d] <= Gens[h][d]
          /\ \A e \in DOMAIN Gens[h] : e < d => e \in DOMAIN Gens[g] /\ Gens[h][e] = Gens[g][e]
          /\ \A e \in DOMAIN Gens[g] : e \in DOMAIN Gens[h]
        BY <1>3, GrowthAssumption
    <2>2. EarlierDates(Gens[h], d) = EarlierDates(Gens[g], d)
        BY <2>1 DEF EarlierDates
    <2>3. \A e \in EarlierDates(Gens[g], d) : Gens[h][e] = Gens[g][e]
        BY <2>1 DEF EarlierDates
    <2>4. Gens[h][d] = Gens[g][d] => Compared(Gens[h], d) = Compared(Gens[g], d)
        BY <1>1, <2>2, <2>3, ComparedSame
    <2> QED
        BY <1>1, <2>1, <2>4
<1> QED
    BY <1>1, <1>2, <1>3

(* Different observations are different contents.                          *)
LEMMA OnlyFacts == \A d, t, u : Only(d, t) = Only(d, u) => t = u
<1> SUFFICES ASSUME NEW d, NEW t, NEW u, Only(d, t) = Only(d, u) PROVE t = u
    OBVIOUS
<1>1. Only(d, t)[d] = t /\ Only(d, u)[d] = u
    BY DEF Only
<1> QED
    BY <1>1

(* What a download reads of a day is read in the order of the paths.       *)
LEMMA DownloadTold ==
    ASSUME Inv, CopyTold, Download, UNCHANGED <<filing, replayed>>
    PROVE  CopyTold'
<1>1. Types /\ CopySound /\ Copying /\ phase = "objects"
    BY DEF Inv, Download, Copying
<1>2. PICK n, c :
          /\ n \in pending /\ n = NextPending /\ n \notin got /\ IsName(n)
          /\ staged' = Put(Stored(n), c, staged) /\ got' = got \cup {n, Stored(n)}
          /\ pending' = (pending \ {n}) \cup (References(n, c) \ (got \cup {n}))
          /\ IF Stored(n) \in got THEN c = staged[Stored(n)]
             ELSE Stored(n) \in DOMAIN Published(Gens[Read]) /\ c = Published(Gens[Read])[Stored(n)]
          /\ n # Stored(n) /\ n \in DOMAIN staged => staged[n] = c
          /\ DOMAIN c \subseteq Nat
    BY <1>1, DownloadFacts
<1>3. PICK g \in DOMAIN Gens : g <= Read /\ Days(staged) = Gens[g]
    BY <1>1 DEF CopySound
<1>4. PICK h \in DOMAIN Gens : h = Read
    BY <1>1 DEF Types, Read
<1>5. Read' = h
    BY <1>4 DEF Download, Read
<1>6. /\ DOMAIN Gens[h] \subseteq Nat
      /\ DOMAIN Published(Gens[h]) = {Index, Recent} \cup {Name("changes", d) : d \in DOMAIN Gens[h]}
                                     \cup {Name("gz", d) : d \in DOMAIN Gens[h]}
      /\ \A d \in DOMAIN Gens[h] : /\ Published(Gens[h])[Name("changes", d)] = Compared(Gens[h], d)
                                   /\ Published(Gens[h])[Name("gz", d)] = Only(d, Gens[h][d])
    BY GensAreDays, PublishedFacts
<1>7. /\ DOMAIN staged' = {Stored(n)} \cup DOMAIN staged /\ staged'[Stored(n)] = c
      /\ \A m \in DOMAIN staged : m # Stored(n) => staged'[m] = staged[m]
    BY <1>2 DEF Put
<1>8. Stored(n) # Index /\ (IsSnapshot(n) <=> IsSnapshot(Stored(n))) /\ (~IsSnapshot(n) => Stored(n) = n)
    BY <1>2, StoredFacts DEF IsSnapshot
<1>9. Days(staged') = Days(staged)
    BY <1>1, <1>7, <1>8 DEF CopySound, Days
<1>10. \A m \in got : m.kind # "plain" => m \in DOMAIN staged /\ staged'[m] = staged[m]
    BY <1>1, <1>2, <1>7, StoredFacts DEF CopySound
<1>11. SUFFICES ASSUME NEW d \in DOMAIN Gens[g]
       PROVE  /\ Name("gz", d) \in got' => Name("changes", d) \in got'
              /\ Name("changes", d) \in got' =>
                     \/ staged'[Name("changes", d)] = Compared(Gens[g], d)
                     \/ /\ \A k \in DOMAIN Gens : k >= h => d \in DOMAIN Gens[k] /\ Gens[k][d] # Gens[g][d]
                        /\ Name("gz", d) \in got' => staged'[Name("gz", d)] # Only(d, Gens[g][d])
    BY <1>3, <1>5, <1>9 DEF CopyTold
<1>12. /\ Name("gz", d).kind = "gz" /\ Name("changes", d).kind = "changes"
       /\ IsSnapshot(Name("gz", d)) /\ ~IsSnapshot(Name("changes", d))
    BY NameFacts DEF IsSnapshot
<1>13. /\ Name("gz", d) \in got => Name("changes", d) \in got
       /\ Name("changes", d) \in got =>
              \/ staged[Name("changes", d)] = Compared(Gens[g], d)
              \/ /\ \A k \in DOMAIN Gens : k >= h => d \in DOMAIN Gens[k] /\ Gens[k][d] # Gens[g][d]
                 /\ Name("gz", d) \in got => staged[Name("gz", d)] # Only(d, Gens[g][d])
    BY <1>3, <1>4 DEF CopyTold
<1>14. Name("gz", d) \in got' => Name("changes", d) \in got'
    <2>1. CASE IsSnapshot(n)
        <3>1. Name("changes", d) \in got \cup pending
            <4>1. Name("changes", d) \in References(Index, Gens[g])
                BY NameFacts DEF References, IsSnapshot
            <4> QED
                BY <1>1, <1>3, <4>1 DEF CopySound
        <3>2. Family(n) = 3 /\ Family(Name("changes", d)) = 1
            BY <1>12, <2>1 DEF Family, IsSnapshot
        <3>3. Name("changes", d) \notin pending
            <4>1. \A m \in pending : ~(Family(m) < Family(n))
                <5>1. \A m \in pending : Family(m) \in Nat
                    BY DEF Family
                <5>2. \A m \in pending : Family(n) < Family(m) \/ Family(n) = Family(m)
                    BY <1>1, <1>2, NextIsFirst DEF Types
                <5> QED
                    BY <1>2, <5>1, <5>2
            <4> QED
                BY <3>2, <4>1
        <3> QED
            BY <1>2, <3>1, <3>3
    <2>2. CASE ~IsSnapshot(n)
        BY <1>2, <1>8, <1>12, <1>13, <2>2
    <2> QED
        BY <2>1, <2>2
<1>15. CASE Name("changes", d) \in got
    <2>1. staged'[Name("changes", d)] = staged[Name("changes", d)]
        BY <1>10, <1>12, <1>15
    <2>2. ASSUME \A k \in DOMAIN Gens : k >= h => d \in DOMAIN Gens[k] /\ Gens[k][d] # Gens[g][d],
                 Name("gz", d) \in got', Name("gz", d) \notin got
          PROVE  staged'[Name("gz", d)] # Only(d, Gens[g][d])
        <3>1. Stored(n) = Name("gz", d)
            <4>1. Name("gz", d) \in {n, Stored(n)}
                BY <1>2, <2>2
            <4> QED
                BY <1>12, <4>1, StoredFacts
        <3>2. h >= h
            BY <1>4, FetchAssumption
        <3>3. d \in DOMAIN Gens[h] /\ Gens[h][d] # Gens[g][d]
            BY <2>2, <3>2
        <3>4. c = Only(d, Gens[h][d])
            BY <1>2, <1>4, <1>6, <2>2, <3>1, <3>3
        <3> QED
            BY <1>7, <3>1, <3>3, <3>4, OnlyFacts
    <2>3. Name("gz", d) \in got => staged'[Name("gz", d)] = staged[Name("gz", d)]
        BY <1>10, <1>12
    <2> QED
        BY <1>13, <1>14, <1>15, <2>1, <2>2, <2>3
<1>16. CASE Name("changes", d) \notin got /\ Name("changes", d) \in got'
    <2>1. n = Name("changes", d) /\ Stored(n) = n
        BY <1>2, <1>8, <1>12, <1>16
    <2>2. Name("gz", d) \notin got'
        BY <1>2, <1>12, <1>13, <1>16, <2>1
    <2>3. c = Compared(Gens[h], d) /\ d \in DOMAIN Gens[h]
        <3>1. n \in DOMAIN Published(Gens[h]) /\ c = Published(Gens[h])[n]
            BY <1>2, <1>4, <2>1
        <3>2. d \in DOMAIN Gens[h]
            BY <1>6, <2>1, <3>1, NameFacts
        <3> QED
            BY <1>6, <2>1, <3>1, <3>2
    <2>4. CASE Gens[h][d] = Gens[g][d]
        BY <1>3, <1>4, <1>7, <1>14, <2>1, <2>3, <2>4, LaterGeneration
    <2>5. CASE Gens[h][d] # Gens[g][d]
        <3>1. Gens[g][d] \in Nat /\ Gens[h][d] \in Nat /\ Gens[g][d] <= Gens[h][d]
            BY <1>3, <1>4, LaterGeneration
        <3>2. ASSUME NEW k \in DOMAIN Gens, k >= h PROVE d \in DOMAIN Gens[k] /\ Gens[k][d] # Gens[g][d]
            <4>1. h <= k
                BY <1>4, <3>2, FetchAssumption
            <4>2. d \in DOMAIN Gens[k] /\ Gens[k][d] \in Nat /\ Gens[h][d] <= Gens[k][d]
                BY <2>3, <4>1, LaterGeneration
            <4> QED
                BY <2>5, <3>1, <4>2
        <3> QED
            BY <1>14, <2>2, <3>2
    <2> QED
        BY <2>4, <2>5
<1> QED
    BY <1>14, <1>15, <1>16

(* A complete copy tells one history.                                      *)
LEMMA CopyIsTold ==
    ASSUME Types, CopySound, CopyTold, pending = {}
    PROVE  Told(staged)
<1>1. SUFFICES ASSUME NEW d \in DOMAIN Days(staged), Tells(staged, d)
      PROVE  staged[Name("changes", d)] = Compared(Days(staged), d)
    BY DEF Told
<1>2. {Name("changes", d), SnapshotName(d)} \subseteq got
    <2>1. {Name("changes", d), SnapshotName(d)} \subseteq References(Index, Days(staged))
        BY NameFacts DEF References, IsSnapshot
    <2> QED
        BY <2>1 DEF CopySound
<1>3. Stored(SnapshotName(d)) = Name("gz", d)
    BY NameFacts DEF Stored, SnapshotName, Compressed
<1>4. Name("gz", d) \in got
    BY <1>2, <1>3 DEF CopySound
<1>5. staged[Name("gz", d)] = Only(d, Days(staged)[d])
    <2>1. SnapshotName(d) \in DOMAIN staged => staged[SnapshotName(d)] = staged[Name("gz", d)]
        BY <1>2, <1>3 DEF CopySound
    <2> QED
        BY <1>1, <2>1 DEF Tells
<1> QED
    BY <1>2, <1>4, <1>5 DEF CopyTold

(* A step that changes neither the index nor any changes of its days, and  *)
(* adds no snapshot of an entry, keeps a history told.                     *)
LEMMA ToldKept ==
    ASSUME NEW files, NEW new, Told(files), Days(new) = Days(files),
           \A d \in DOMAIN Days(files) : Tells(new, d) =>
               Tells(files, d) /\ new[Name("changes", d)] = files[Name("changes", d)]
    PROVE  Told(new)
BY DEF Told

(* Whatever a fetch put in place of the local history.                     *)
LEMMA FetchTold ==
    ASSUME Inv, ToldInv, phase # "replayed", FetchNext, UNCHANGED <<filing, replayed>>
    PROVE  ToldInv'
<1>a. Types /\ (Deploy \/ replayed' = Absent)
    BY DEF Inv, ToldInv, FetchNext, FetchStep, Start, ReadIndex, ReadArchiveIndex, Download, MoveAside,
           MoveIn, MoveBack, Retry, GivesUp, Dies, Fetching
<1>1. CASE Deploy
    <2>1. UNCHANGED <<phase, local, staged, got, backup, filing>>
        BY <1>1 DEF Deploy
    <2>2. CopyTold => CopyTold'
        <3>1. Read \in Nat /\ Read' \in Nat /\ Read <= Read'
            BY <1>a, <1>1, FetchAssumption DEF Deploy, Types, Read
        <3>2. \A g \in DOMAIN Gens : g \in Nat /\ (g >= Read' => g >= Read)
            BY <3>1, FetchAssumption
        <3> QED
            BY <2>1, <3>2 DEF CopyTold
    <2> QED
        BY <2>1, <2>2 DEF ToldInv, Copying, Updating, UpdateTold
<1>2. CASE ~Deploy /\ (Start \/ Retry)
    <2>1. UNCHANGED <<origin, local, source, got, staged, backup>>
        BY <1>2 DEF Start, Retry
    <2>2. CopyTold => CopyTold'
        BY <2>1 DEF CopyTold, Read
    <2>3. ~Updating' /\ (phase' = phase \/ phase' = "index") /\ phase' # "swap"
        BY <1>2 DEF Start, Retry, Fetching, Updating
    <2> QED
        BY <1>a, <1>2, <2>1, <2>2, <2>3 DEF ToldInv, Copying
<1>3. CASE ~Deploy /\ (GivesUp \/ Dies)
    <2>1. phase' = "idle" /\ local' = local
        BY <1>3 DEF GivesUp, Dies, Ends
    <2> QED
        BY <1>a, <1>3, <2>1 DEF ToldInv, Copying, Updating
<1>4. CASE ~Deploy /\ (ReadIndex \/ ReadArchiveIndex)
    <2>1. local' = local /\ (phase' = "archive" \/ (phase' = "objects" /\ got' = {}))
        BY <1>4 DEF ReadIndex, ReadArchiveIndex, Stage
    <2> QED
        BY <1>a, <1>4, <2>1 DEF ToldInv, Copying, Updating, CopyTold
<1>5. CASE ~Deploy /\ Download
    <2>1. UNCHANGED <<local, phase>> /\ phase = "objects"
        BY <1>5 DEF Download
    <2>2. CopyTold'
        BY <1>5, <2>1, DownloadTold DEF ToldInv, Copying
    <2> QED
        BY <1>a, <1>5, <2>1, <2>2 DEF ToldInv, Copying, Updating
<1>6. CASE ~Deploy /\ MoveAside
    <2>1. CopyTold /\ UNCHANGED <<staged, source, origin, got>>
        BY <1>6 DEF ToldInv, MoveAside, Copying
    <2>2. CopyTold'
        BY <2>1 DEF CopyTold, Read
    <2> QED
        BY <1>a, <1>6, <2>2 DEF ToldInv, MoveAside, Copying, Updating
<1>7. CASE ~Deploy /\ MoveIn
    <2>1. phase' = "idle" /\ local' = staged
        BY <1>7 DEF MoveIn, Ends
    <2>2. Told(staged)
        BY <1>a, <1>7, CopyIsTold DEF Inv, ToldInv, MoveIn, Copying
    <2> QED
        BY <1>a, <1>7, <2>1, <2>2 DEF ToldInv, Copying, Updating
<1>8. CASE ~Deploy /\ MoveBack
    <2>1. phase' = "idle" /\ local' = backup
        BY <1>8 DEF MoveBack, Ends
    <2> QED
        BY <1>a, <1>8, <2>1 DEF ToldInv, MoveBack, Copying, Updating
<1> QED
    BY <1>1, <1>2, <1>3, <1>4, <1>5, <1>6, <1>7, <1>8 DEF FetchNext, FetchStep

(* The snapshot of a new observation contradicts the index, until that is  *)
(* written.                                                                *)
LEMMA SnapshotTold ==
    ASSUME Inv, ToldInv, NEW t \in Fresh, WriteSnapshot(t)
    PROVE  ToldInv'
<1>1. PICK d, M : d = DayOf(t) /\ M = Migrated(local)
    OBVIOUS
<1>2. local' = Put(Name("gz", d), Only(d, t), M)
    BY <1>1 DEF WriteSnapshot
<1>3. /\ phase' = "changes" /\ filing' = t /\ replayed' = replayed /\ replayed = Absent
      /\ \A e \in DOMAIN Days(local) : Days(local)[e] < t
      /\ Good(local, pinned) /\ Told(local)
    BY DEF Inv, ToldInv, WriteSnapshot
<1>4. /\ \A n : ~IsSnapshot(n) => (n \in DOMAIN M <=> n \in DOMAIN local)
      /\ \A n \in DOMAIN local : ~IsSnapshot(n) => M[n] = local[n]
      /\ \A e \in Legacy \cap DOMAIN Days(local) : Name("plain", e) \notin DOMAIN M
    BY <1>1, MigratedFacts
<1>5. /\ \A e : IsSnapshot(Name("gz", e)) /\ Name("plain", e) # Name("gz", d)
      /\ \A e : ~IsSnapshot(Name("changes", e)) /\ ~IsSnapshot(Index)
    BY NameFacts DEF IsSnapshot
<1>6. /\ DOMAIN local' = {Name("gz", d)} \cup DOMAIN M /\ local'[Name("gz", d)] = Only(d, t)
      /\ \A n \in DOMAIN M : n # Name("gz", d) => local'[n] = M[n]
    BY <1>2 DEF Put
<1>7. Days(local') = Days(local)
    BY <1>3, <1>4, <1>5, <1>6 DEF Days, Good
<1>8. \A x \in DOMAIN Days(local) : local'[Name("changes", x)] = local[Name("changes", x)]
    <2>1. \A x \in DOMAIN Days(local) : Name("changes", x) \in DOMAIN local
        BY <1>3, WholeMeans DEF Good, Mentioned, Days
    <2> QED
        BY <1>4, <1>5, <1>6, <2>1
<1>9. d \in Legacy \cap DOMAIN Days(local) => Name("plain", d) \notin DOMAIN local'
    BY <1>4, <1>5, <1>6
<1>10. \A x \in DOMAIN Days(local) : Days(local)[x] \in Nat /\ t \in Nat
    BY <1>3, ObservationAssumption DEF Good, IsDays, Observations
<1>11. ASSUME NEW x \in DOMAIN Days(local), Tells(local', x)
       PROVE  Tells(local, x)
    <2>1. PICK n \in {Name("gz", x), SnapshotName(x)} :
              n \in DOMAIN local' /\ local'[n] = Only(x, Days(local)[x])
        BY <1>7, <1>11 DEF Tells
    <2>2. n # Name("gz", d)
        <3>1. SUFFICES ASSUME n = Name("gz", d) PROVE FALSE
            OBVIOUS
        <3>2. x = d
            BY <2>1, <3>1, NameFacts DEF SnapshotName
        <3>3. Days(local)[x] = t
            BY <1>6, <2>1, <3>1, <3>2, OnlyFacts
        <3> QED
            BY <1>3, <1>10, <3>3
    <2>3. n \in DOMAIN M /\ M[n] = Only(x, Days(local)[x])
        BY <1>6, <2>1, <2>2
    <2>4. CASE n \in DOMAIN local
        <3>1. M[n] = local[n]
            BY <1>1, <2>3, <2>4 DEF Migrated
        <3> QED
            BY <2>1, <2>3, <2>4, <3>1 DEF Tells
    <2>5. CASE n \notin DOMAIN local
        <3>1. PICK e \in Legacy : Name("plain", e) \in DOMAIN local /\ n = Compressed(Name("plain", e))
            BY <1>1, <2>3, <2>5 DEF Migrated
        <3>2. e = x /\ n.date = x /\ SnapshotName(x) = Name("plain", x)
            BY <2>1, <3>1, NameFacts DEF Compressed, SnapshotName
        <3>3. M[n] = local[Name("plain", x)]
            BY <1>1, <2>3, <2>5, <3>2 DEF Migrated
        <3> QED
            BY <2>3, <3>1, <3>2, <3>3 DEF Tells
    <2> QED
        BY <2>4, <2>5
<1>12. Told(local')
    BY <1>3, <1>7, <1>8, <1>11, ToldKept
<1> QED
    BY <1>1, <1>3, <1>6, <1>7, <1>9, <1>12 DEF ToldInv, Copying, Updating, UpdateTold

(* The changes of the new observation are those of the index it will have. *)
LEMMA ChangesTold ==
    ASSUME Inv, ToldInv, WriteChanges
    PROVE  ToldInv'
<1>1. PICK d, c : d = DayOf(filing) /\ c = Compared(Put(d, filing, Days(local)), d)
    OBVIOUS
<1>2. local' = Put(Name("changes", d), c, local)
    BY <1>1 DEF WriteChanges
<1>3. phase = "changes" /\ phase' = "filing" /\ filing' = filing /\ replayed' = replayed /\ replayed = Absent
    BY DEF WriteChanges, ToldInv
<1>4. /\ Good(local, 0) /\ Told(local) /\ local[Name("gz", d)] = Only(d, filing) /\ filing \in Fresh
      /\ Name("gz", d) \in DOMAIN local
      /\ d \in Legacy \cap DOMAIN Days(local) => Name("plain", d) \notin DOMAIN local
      /\ \A e \in DOMAIN Days(local) : Days(local)[e] < filing
    BY <1>1, <1>3 DEF Inv, ToldInv, Updating, UpdateSound, UpdateTold
<1>5. /\ DOMAIN local' = {Name("changes", d)} \cup DOMAIN local /\ local'[Name("changes", d)] = c
      /\ \A n \in DOMAIN local : n # Name("changes", d) => local'[n] = local[n]
    BY <1>2 DEF Put
<1>6. \A e : /\ Name("changes", d) \notin {Index, Name("gz", e), Name("plain", e), SnapshotName(e)}
             /\ Name("changes", e) = Name("changes", d) => e = d
    BY NameFacts DEF SnapshotName
<1>7. Days(local') = Days(local) /\ local'[Name("gz", d)] = Only(d, filing)
    BY <1>4, <1>5, <1>6 DEF Days, Good
<1>8. \A x \in DOMAIN Days(local) : Tells(local', x) => Tells(local, x)
    BY <1>5, <1>6, <1>7 DEF Tells
<1>9. ~(d \in DOMAIN Days(local) /\ Tells(local, d))
    <2>1. SUFFICES ASSUME d \in DOMAIN Days(local), Tells(local, d) PROVE FALSE
        OBVIOUS
    <2>2. Days(local)[d] \in Nat /\ filing \in Nat /\ Days(local)[d] < filing
        BY <1>4, <2>1, ObservationAssumption DEF Good, IsDays, Observations
    <2>3. Only(d, filing) # Only(d, Days(local)[d])
        BY <2>2, OnlyFacts
    <2> QED
        BY <1>4, <2>1, <2>3 DEF Tells, SnapshotName
<1>10. \A x \in DOMAIN Days(local) : x # d => local'[Name("changes", x)] = local[Name("changes", x)]
    <2>1. \A x \in DOMAIN Days(local) : Name("changes", x) \in DOMAIN local
        BY <1>4, WholeMeans DEF Good, Mentioned, Days
    <2> QED
        BY <1>5, <1>6, <2>1
<1>11. Told(local')
    BY <1>4, <1>7, <1>8, <1>9, <1>10, ToldKept
<1>12. d \in Legacy \cap DOMAIN Days(local') => Name("plain", d) \notin DOMAIN local'
    BY <1>4, <1>5, <1>6, <1>7
<1> QED
    BY <1>1, <1>3, <1>4, <1>5, <1>7, <1>11, <1>12 DEF ToldInv, Copying, Updating, UpdateTold

(* A new entry leaves the changes of older days as they are, because its   *)
(* date is not before theirs.                                              *)
LEMMA IndexTold ==
    ASSUME Inv, ToldInv, WriteIndex
    PROVE  ToldInv'
<1>1. PICK d, days : d = DayOf(filing) /\ days = Put(d, filing, Days(local))
    OBVIOUS
<1>2. local' = Put(Index, days, local)
    BY <1>1 DEF WriteIndex
<1>3. phase = "filing" /\ phase' = "recent" /\ replayed' = replayed /\ replayed = Absent
    BY DEF WriteIndex, ToldInv
<1>4. /\ Good(local, 0) /\ Told(local) /\ filing \in Fresh
      /\ \A e \in DOMAIN Days(local) : Days(local)[e] < filing
      /\ local[Name("changes", d)] = Compared(days, d) /\ Name("changes", d) \in DOMAIN local
    BY <1>1, <1>3 DEF Inv, ToldInv, Updating, UpdateSound, UpdateTold
<1>5. /\ DOMAIN days = {d} \cup DOMAIN Days(local) /\ DOMAIN days \subseteq Nat
      /\ \A x \in DOMAIN Days(local) : x # d => days[x] = Days(local)[x]
    <2>1. IsDays(Days(local))
        BY <1>4 DEF Good
    <2>2. DOMAIN days = {d} \cup DOMAIN Days(local) /\ \A x \in DOMAIN Days(local) : x # d => days[x] = Days(local)[x]
        BY <1>1 DEF Put
    <2>3. d \in Nat
        BY <1>1, <1>4, ObservationAssumption DEF Observations
    <2> QED
        BY <2>1, <2>2, <2>3 DEF IsDays
<1>6. /\ DOMAIN local' = DOMAIN local /\ Days(local') = days
      /\ \A n \in DOMAIN local : n # Index => local'[n] = local[n]
    BY <1>2, <1>4 DEF Put, Days, Good
<1>7. \A e : Index \notin {Name("changes", e), Name("gz", e), SnapshotName(e)}
    BY NameFacts DEF SnapshotName
<1>8. \A x \in DOMAIN Days(local) : x <= d /\ x \in Nat /\ d \in Nat
    <2>1. SUFFICES ASSUME NEW x \in DOMAIN Days(local) PROVE x <= d /\ x \in Nat /\ d \in Nat
        OBVIOUS
    <2>2. Days(local)[x] \in Observations /\ DayOf(Days(local)[x]) = x /\ Days(local)[x] < filing
        BY <1>4 DEF Good, IsDays
    <2>3. filing \in Observations
        BY <1>4 DEF Observations
    <2>4. PICK u : u = Days(local)[x]
        OBVIOUS
    <2>5. DayOf(u) <= DayOf(filing)
        BY <2>2, <2>3, <2>4, ObservationAssumption
    <2>6. x \in Nat /\ d \in Nat
        BY <1>5
    <2> QED
        BY <1>1, <2>2, <2>4, <2>5, <2>6
<1>9. ASSUME NEW x \in DOMAIN days, Tells(local', x)
      PROVE  local'[Name("changes", x)] = Compared(days, x)
    <2>1. CASE x = d
        BY <1>4, <1>6, <1>7, <2>1
    <2>2. CASE x # d
        <3>1. x \in DOMAIN Days(local) /\ days[x] = Days(local)[x]
            BY <1>5, <2>2
        <3>2. Tells(local, x)
            BY <1>6, <1>7, <1>9, <3>1 DEF Tells
        <3>3. local[Name("changes", x)] = Compared(Days(local), x)
            BY <1>4, <3>1, <3>2 DEF Told
        <3>4. EarlierDates(days, x) = EarlierDates(Days(local), x)
            <4>1. x <= d /\ x \in Nat /\ d \in Nat
                BY <1>8, <3>1
            <4>2. ~(d < x)
                BY <4>1
            <4> QED
                BY <1>5, <4>2 DEF EarlierDates
        <3>5. \A e \in EarlierDates(Days(local), x) : days[e] = Days(local)[e]
            <4>1. \A e \in EarlierDates(Days(local), x) : e \in DOMAIN Days(local) /\ e < x
                BY DEF EarlierDates
            <4>2. \A e \in EarlierDates(Days(local), x) : e # d
                BY <1>8, <3>1, <4>1
            <4> QED
                BY <1>5, <4>1, <4>2
        <3>6. Compared(days, x) = Compared(Days(local), x)
            BY <1>5, <3>1, <3>4, <3>5, ComparedSame
        <3>7. Name("changes", x) \in DOMAIN local
            BY <1>4, <3>1, WholeMeans DEF Good, Mentioned, Days
        <3> QED
            BY <1>6, <1>7, <3>3, <3>6, <3>7
    <2> QED
        BY <2>1, <2>2
<1>10. Told(local')
    BY <1>6, <1>9 DEF Told
<1> QED
    BY <1>3, <1>10 DEF ToldInv, Copying, Updating, UpdateTold

(* The recent changes say nothing of the changes of a day.                 *)
LEMMA RecentTold ==
    ASSUME Inv, ToldInv, WriteRecent
    PROVE  ToldInv'
<1>1. local' = Put(Recent, Days(local), local)
    BY DEF WriteRecent
<1>2. phase = "recent" /\ phase' = "idle" /\ replayed' = replayed /\ replayed = Absent
    BY DEF WriteRecent, ToldInv
<1>3. Good(local, 0) /\ Told(local)
    BY <1>2 DEF Inv, ToldInv, Updating, UpdateSound, UpdateTold
<1>4. \A e : Recent \notin {Index, Name("changes", e), Name("gz", e), SnapshotName(e)}
    BY NameFacts DEF SnapshotName
<1>5. DOMAIN local' = DOMAIN local /\ \A n \in DOMAIN local : n # Recent => local'[n] = local[n]
    BY <1>1, <1>3, WholeMeans DEF Put, Good
<1>6. Days(local') = Days(local)
    BY <1>3, <1>4, <1>5 DEF Days, Good
<1>7. \A x \in DOMAIN Days(local) : local'[Name("changes", x)] = local[Name("changes", x)]
    <2>1. \A x \in DOMAIN Days(local) : Name("changes", x) \in DOMAIN local
        BY <1>3, WholeMeans DEF Good, Mentioned, Days
    <2> QED
        BY <1>4, <1>5, <2>1
<1>8. \A x \in DOMAIN Days(local) : Tells(local', x) => Tells(local, x)
    BY <1>4, <1>5, <1>6 DEF Tells
<1>9. Told(local')
    BY <1>3, <1>6, <1>7, <1>8, ToldKept
<1> QED
    BY <1>2, <1>9 DEF ToldInv, Copying, Updating

(* Every step keeps the history told.                                      *)
LEMMA NextTold == Inv /\ ToldInv /\ [Next]_vars => ToldInv'
<1> SUFFICES ASSUME Inv, ToldInv, [Next]_vars PROVE ToldInv'
    OBVIOUS
<1>1. CASE phase # "replayed" /\ FetchNext /\ UNCHANGED <<filing, replayed>>
    BY <1>1, FetchTold
<1>2. CASE \E t \in Fresh : WriteSnapshot(t)
    BY <1>2, SnapshotTold
<1>3. CASE WriteChanges
    BY <1>3, ChangesTold
<1>4. CASE WriteIndex
    BY <1>4, IndexTold
<1>5. CASE WriteRecent
    BY <1>5, RecentTold
<1>6. CASE UpdateDies
    <2>1. phase' = "idle" /\ local' = local /\ replayed' = replayed /\ replayed = Absent
        BY <1>6 DEF UpdateDies, ToldInv
    <2> QED
        BY <2>1 DEF ToldInv, Copying, Updating
<1>7. CASE \E bundles \in SUBSET Bundles : Replay(bundles)
    <2>1. /\ phase' = "replaying" /\ local' = local /\ local # Absent
          /\ ValidHistory(local)
        BY <1>7 DEF Replay, Accepts
    <2> QED
        BY <2>1 DEF ToldInv, Copying, Updating
<1>8. CASE UNCHANGED vars
    <2>1. UNCHANGED <<origin, local, phase, source, got, staged, backup, filing, replayed>>
        BY <1>8 DEF vars, fetch
    <2> QED
        BY <2>1 DEF ToldInv, Copying, Updating, CopyTold, UpdateTold, Read
<1>9. CASE ReplayOne \/ ReplayEnds \/ ReplayDies
    <2>1. /\ phase = "replaying" /\ phase' \in {"idle", "replaying", "replayed"} /\ local' = local
          /\ (phase' = "idle" => replayed' = Absent)
        BY <1>9 DEF ReplayOne, ReplayEnds, ReplayDies, fetch
    <2> QED
        BY <2>1 DEF ToldInv, Copying, Updating
<1> QED
    BY <1>1, <1>2, <1>3, <1>4, <1>5, <1>6, <1>7, <1>8, <1>9 DEF Next

(* What the directory holds at first is told.                              *)
LEMMA InitTold == RecoveryInit => ToldInv
BY OldAssumption DEF RecoveryInit, Init, ToldInv, Told, Copying, Updating, Days

(* A baseline on which replay files observations is one history, even if   *)
(* it was fetched from several deployments or left by an update that died. *)
THEOREM BaselineIsOne == Spec => []AcceptedIsOneHistory
<1>1. Inv /\ ToldInv => AcceptedIsOneHistory
    <2>1. SUFFICES ASSUME Inv, ToldInv, replayed # Absent, NEW d \in DOMAIN Days(local)
          PROVE  /\ local[ResolvesTo(local, SnapshotName(d))] = Only(d, Days(local)[d])
                 /\ local[Name("changes", d)] = Compared(Days(local), d)
        BY DEF AcceptedIsOneHistory
    <2>2. Good(local, pinned) /\ Told(local) /\ ValidHistory(local)
        BY <2>1 DEF Inv, ToldInv
    <2>3. local[ResolvesTo(local, SnapshotName(d))] = Only(d, Days(local)[d])
        BY <2>2 DEF ValidHistory
    <2>4. ResolvesTo(local, SnapshotName(d)) \in Known(local)
        BY DEF Known, Mentioned, Days
    <2>5. ResolvesTo(local, SnapshotName(d)) \in {Name("gz", d), SnapshotName(d)}
        BY NameFacts DEF ResolvesTo, SnapshotName, Compressed
    <2>6. Tells(local, d)
        BY <2>2, <2>3, <2>4, <2>5 DEF Tells, Good
    <2> QED
        BY <2>2, <2>3, <2>6 DEF Told
<1> QED
    BY <1>1, Invariance, InitTold, NextTold, PTL DEF Spec
-----------------------------------------------------------------------------
(* A finite set of numbers has a bound: a smallest set without one would   *)
(* have one without some element.                                          *)
LEMMA Bounded ==
    ASSUME NEW S, S \subseteq Nat, IsFiniteSet(S)
    PROVE  \E m \in Nat : \A x \in S : x <= m
<1> DEFINE Bound(T) == \E m \in Nat : \A x \in T : x <= m
           Sizes    == {Cardinality(T) : T \in {U \in SUBSET S : ~Bound(U)}}
<1>1. \A T \in SUBSET S : IsFiniteSet(T) /\ Cardinality(T) \in Nat
    BY FS_Subset, FS_CardinalityType
<1>2. SUFFICES ASSUME ~Bound(S) PROVE FALSE
    OBVIOUS
<1>3. Sizes # {} /\ Sizes \subseteq Nat
    BY <1>1, <1>2
<1>4. PICK T \in SUBSET S : ~Bound(T) /\ \A n \in Sizes : Cardinality(T) <= n
    <2>1. PICK k \in Sizes : \A n \in Sizes : k <= n
        <3> HIDE DEF Sizes
        <3> QED
            BY <1>3, Smallest
    <2> QED
        BY <2>1
<1>5. PICK x \in T : TRUE
    <2>1. Bound({})
        OBVIOUS
    <2> QED
        BY <1>4, <2>1
<1>6. Bound(T \ {x})
    <2>1. Cardinality(T \ {x}) = Cardinality(T) - 1 /\ Cardinality(T) \in Nat
        BY <1>1, <1>5, FS_RemoveElement
    <2>2. SUFFICES ASSUME ~Bound(T \ {x}) PROVE FALSE
        OBVIOUS
    <2>3. Cardinality(T \ {x}) \in Sizes
        BY <2>2
    <2> HIDE DEF Sizes, Bound
    <2> QED
        BY <1>4, <2>1, <2>3
<1>7. PICK m \in Nat : \A y \in T \ {x} : y <= m
    BY <1>6
<1>8. x \in Nat
    BY <1>5
<1>9. Bound(T)
    <2> DEFINE k == m + x
    <2>1. k \in Nat /\ \A y \in T : y <= k
        <3>1. ASSUME NEW y \in T PROVE y <= m + x
            BY <1>7, <1>8
        <3> QED
            BY <1>8, <3>1
    <2> QED
        BY <2>1
<1> QED
    BY <1>4, <1>9

(* Max and Min, of a set of numbers.                                       *)
LEMMA MaxFacts ==
    ASSUME NEW S, S \subseteq Nat, S # {}, IsFiniteSet(S)
    PROVE  Max(S) \in S /\ \A x \in S : x <= Max(S)
<1>1. PICK m \in Nat : \A x \in S : x <= m
    BY Bounded
<1> DEFINE T == {m - x : x \in S}
<1>2. T \subseteq Nat /\ T # {}
    <2>1. ASSUME NEW x \in S PROVE m - x \in Nat
        <3>1. x \in Nat /\ x <= m
            BY <1>1
        <3> QED
            BY <3>1
    <2> QED
        BY <2>1
<1>3. PICK t \in T : \A u \in T : t <= u
    <2> HIDE DEF T
    <2> QED
        BY <1>2, Smallest
<1>4. PICK x \in S : t = m - x
    OBVIOUS
<1>5. \A y \in S : m - y \in T
    OBVIOUS
<1>6. \A y \in S : x >= y
    <2>1. SUFFICES ASSUME NEW y \in S PROVE x >= y
        OBVIOUS
    <2>2. m - x <= m - y /\ x \in Nat /\ y \in Nat
        BY <1>3, <1>4, <1>5
    <2> QED
        BY <2>2
<1> QED
    BY <1>6 DEF Max

LEMMA MinFacts ==
    ASSUME NEW S, S \subseteq Nat, S # {}
    PROVE  Min(S) \in S /\ \A x \in S : Min(S) <= x
BY Smallest DEF Min

(* The newest observation of a history, or 0.                              *)
LEMMA NewestFacts ==
    ASSUME NEW days, Range(days) \subseteq Nat, IsFiniteSet(Range(days))
    PROVE  /\ Newest(days) \in {0} \cup Range(days)
           /\ \A t \in Range(days) : t <= Newest(days)
           /\ Range(days) # {} /\ 0 \notin Range(days) => Newest(days) \in Range(days)
<1> DEFINE S == {0} \cup Range(days)
<1>1. S \subseteq Nat /\ S # {} /\ IsFiniteSet(S)
    <2>1. IsFiniteSet(Range(days) \cup {0})
        BY FS_AddElement
    <2>2. S = Range(days) \cup {0}
        OBVIOUS
    <2> QED
        BY <2>1, <2>2
<1>2. Max(S) \in S /\ \A t \in S : t <= Max(S)
    <2> HIDE DEF S
    <2> QED
        BY <1>1, MaxFacts
<1>3. Newest(days) = Max(S)
    BY DEF Newest
<1>4. Newest(days) \in S /\ \A t \in S : t <= Newest(days)
    BY <1>2, <1>3
<1>5. ASSUME NEW t \in Range(days), 0 \notin Range(days) PROVE Newest(days) \in Range(days)
    <2>1. t \in Nat /\ t # 0 /\ t <= Newest(days)
        BY <1>4, <1>5
    <2> QED
        BY <1>4, <2>1
<1> QED
    BY <1>4, <1>5

(* Times, as far as they are of observations, tell their dates.            *)
LEMMA Times ==
    ASSUME NEW known, known \subseteq Observations
    PROVE  /\ known \subseteq Nat \ {0} /\ \A t \in known : DayOf(t) \in Nat \ {0}
           /\ \A t, u \in known : DayOf(t) < DayOf(u) => t < u
           /\ \A t, u \in known : t < u => DayOf(t) <= DayOf(u)
<1>1. /\ known \subseteq Nat \ {0} /\ \A t \in known : DayOf(t) \in Nat \ {0}
      /\ \A t, u \in known : t < u => DayOf(t) <= DayOf(u)
    BY ObservationAssumption
<1>2. ASSUME NEW t \in known, NEW u \in known, DayOf(t) < DayOf(u) PROVE t < u
    <2>1. t \in Nat /\ u \in Nat /\ DayOf(t) \in Nat /\ DayOf(u) \in Nat
        BY <1>1
    <2>2. CASE u < t
        <3>1. DayOf(u) <= DayOf(t)
            BY <1>1, <2>2
        <3> QED
            BY <1>2, <2>1, <3>1
    <2>3. CASE u = t
        BY <1>2, <2>1, <2>3
    <2> QED
        BY <2>1, <2>2, <2>3
<1> QED
    BY <1>1, <1>2

(* A set has at most one latest element.                                   *)
LEMMA LatestIs ==
    ASSUME NEW S, S \subseteq Nat, NEW t \in S, \A u \in S : u <= t
    PROVE  Latest(S) = {t}
<1>1. ASSUME NEW v \in Latest(S) PROVE v = t
    <2>1. v \in Nat /\ t \in Nat /\ v <= t /\ t <= v
        BY DEF Latest
    <2> QED
        BY <2>1
<1> QED
    BY <1>1 DEF Latest

(* An index files the latest observation of each date: that of a day.      *)
LEMMA FiledDays ==
    ASSUME NEW days, IsDays(days)
    PROVE  FilesLatest(days, Range(days)) /\ Range(days) \subseteq Observations
<1>1. \A d \in DOMAIN days : d \in Nat \ {0} /\ days[d] \in Observations /\ DayOf(days[d]) = d
    BY DEF IsDays
<1>2. Range(days) \subseteq Observations
    BY <1>1 DEF Range
<1>3. DOMAIN days = {DayOf(t) : t \in Range(days)}
    BY <1>1 DEF Range
<1>4. ASSUME NEW d \in DOMAIN days, NEW u \in Range(days), DayOf(u) = d PROVE u <= days[d]
    <2>1. PICK e \in DOMAIN days : u = days[e]
        BY DEF Range
    <2>2. u = days[d] /\ u \in Nat
        BY <1>1, <1>2, <1>4, <2>1, ObservationAssumption
    <2> QED
        BY <2>2
<1>5. \A d \in DOMAIN days : days[d] \in Range(days)
    BY DEF Range
<1> QED
    BY <1>1, <1>2, <1>3, <1>4, <1>5 DEF FilesLatest

(* A later observation takes the place of its date's.                      *)
LEMMA FileOne ==
    ASSUME NEW known, known \subseteq Observations, NEW days, FilesLatest(days, known),
           NEW t \in Observations, \A u \in known : u < t, NEW d, d = DayOf(t)
    PROVE  FilesLatest(Put(d, t, days), known \cup {t})
<1> PICK new, all : new = Put(d, t, days) /\ all = known \cup {t}
    OBVIOUS
<1>1. /\ DOMAIN new = {d} \cup DOMAIN days /\ new[d] = t
      /\ \A e \in DOMAIN days : e # d => new[e] = days[e]
    BY DEF Put
<1>2. t \in Nat /\ known \subseteq Nat
    BY ObservationAssumption
<1>3. DOMAIN new = {DayOf(u) : u \in all}
    BY <1>1 DEF FilesLatest
<1>4. ASSUME NEW e \in DOMAIN new
      PROVE  new[e] \in all /\ DayOf(new[e]) = e /\ \A u \in all : DayOf(u) = e => u <= new[e]
    <2>1. CASE e = d
        <3>1. \A u \in all : u <= t
            BY <1>2
        <3> QED
            BY <1>1, <2>1, <3>1
    <2>2. CASE e # d
        <3>1. e \in DOMAIN days /\ new[e] = days[e]
            BY <1>1, <2>2
        <3> QED
            BY <2>2, <3>1 DEF FilesLatest
    <2> QED
        BY <2>1, <2>2
<1> QED
    BY <1>3, <1>4 DEF FilesLatest

(* What it is compared with is found in the index.                         *)
LEMMA ComparesNew ==
    ASSUME NEW known, known \subseteq Observations, NEW days, FilesLatest(days, known),
           NEW t \in Observations, \A u \in known : u < t, NEW d, d = DayOf(t)
    PROVE  {days[e] : e \in PreviousEntry(days, d)} = Compares(known \cup {t}, d)
<1> PICK all : all = known \cup {t}
    OBVIOUS
<1>1. all \subseteq Observations /\ t \in Nat /\ known \subseteq Nat /\ d \in Nat
    BY ObservationAssumption
<1>2. /\ DOMAIN days = {DayOf(u) : u \in known} /\ DOMAIN days \subseteq Nat
      /\ \A e \in DOMAIN days :
             days[e] \in known /\ DayOf(days[e]) = e /\ \A u \in known : DayOf(u) = e => u <= days[e]
    BY ObservationAssumption DEF FilesLatest
<1>3. Before(all, d) = {u \in known : DayOf(u) < d}
    <2>1. ~(DayOf(t) < d)
        BY <1>1
    <2> QED
        BY <2>1 DEF Before
<1>4. CASE EarlierDates(days, d) # {}
    <2> PICK e : e = LastOf(EarlierDates(days, d))
        OBVIOUS
    <2>1. e \in EarlierDates(days, d) /\ \A x \in EarlierDates(days, d) : x <= e
        <3>1. EarlierDates(days, d) \subseteq Nat /\ \A x \in EarlierDates(days, d) : x < d
            BY <1>2 DEF EarlierDates
        <3> QED
            BY <1>1, <1>4, <3>1, Largest
    <2>2. e \in DOMAIN days /\ e < d
        BY <2>1 DEF EarlierDates
    <2>3. days[e] \in Before(all, d)
        BY <1>2, <1>3, <2>2
    <2>4. ASSUME NEW u \in Before(all, d) PROVE u <= days[e]
        <3>1. u \in known /\ DayOf(u) \in DOMAIN days /\ DayOf(u) < d
            BY <1>2, <1>3, <2>4
        <3>2. DayOf(u) <= e
            BY <2>1, <3>1 DEF EarlierDates
        <3>3. CASE DayOf(u) = e
            BY <1>2, <2>2, <3>1, <3>3
        <3>4. CASE DayOf(u) < DayOf(days[e])
            <4>1. u < days[e]
                BY <1>2, <2>2, <3>1, <3>4, Times
            <4>2. u \in Nat /\ days[e] \in Nat
                BY <1>1, <1>2, <2>2, <3>1
            <4> QED
                BY <4>1, <4>2
        <3>5. DayOf(u) \in Nat /\ e \in Nat /\ DayOf(days[e]) = e
            BY <1>2, <2>2, <3>1
        <3> QED
            BY <3>2, <3>3, <3>4, <3>5
    <2>5. Latest(Before(all, d)) = {days[e]}
        <3>1. Before(all, d) \subseteq Nat
            BY <1>1, <1>3
        <3> QED
            BY <2>3, <2>4, <3>1, LatestIs
    <2>6. Compares(all, d) = {days[e]}
        BY <2>3, <2>5 DEF Compares
    <2>7. PreviousEntry(days, d) = {e}
        BY <1>4 DEF PreviousEntry
    <2> QED
        BY <2>6, <2>7
<1>5. CASE EarlierDates(days, d) = {}
    <2>1. Before(all, d) = {}
        BY <1>2, <1>3, <1>5 DEF EarlierDates
    <2>2. On(all, d) \ Latest(On(all, d)) = On(known, d)
        <3>1. On(all, d) = On(known, d) \cup {t} /\ On(known, d) \subseteq known
            BY DEF On
        <3>2. On(all, d) \subseteq Nat /\ t \in On(all, d) /\ \A u \in On(all, d) : u <= t
            <4>1. \A u \in known : u \in Nat /\ u <= t
                BY <1>1
            <4>2. ASSUME NEW u \in On(all, d) PROVE u \in Nat /\ u <= t
                <5>1. u \in known \/ u = t
                    BY <3>1, <4>2
                <5>2. t <= t
                    BY <1>1
                <5> QED
                    BY <1>1, <4>1, <5>1, <5>2
            <4>3. t \in On(all, d)
                BY <3>1
            <4> QED
                BY <4>2, <4>3
        <3>3. Latest(On(all, d)) = {t}
            BY <3>2, LatestIs
        <3>4. t \notin known
            BY <1>1
        <3> QED
            BY <3>1, <3>3, <3>4
    <2>3. Compares(all, d) = Latest(On(known, d))
        BY <2>1, <2>2 DEF Compares
    <2>4. PreviousEntry(days, d) = {d} \cap DOMAIN days
        BY <1>5 DEF PreviousEntry
    <2>5. CASE d \in DOMAIN days
        <3>1. On(known, d) \subseteq Nat /\ days[d] \in On(known, d) /\ \A u \in On(known, d) : u <= days[d]
            BY <1>1, <1>2, <2>5 DEF On
        <3>2. Latest(On(known, d)) = {days[d]}
            BY <3>1, LatestIs
        <3> QED
            BY <2>3, <2>4, <2>5, <3>2
    <2>6. CASE d \notin DOMAIN days
        <3>1. On(known, d) = {}
            BY <1>2, <2>6 DEF On
        <3>2. Latest(On(known, d)) = {}
            BY <3>1 DEF Latest
        <3>3. PreviousEntry(days, d) = {}
            BY <2>4, <2>6
        <3> QED
            BY <2>3, <3>2, <3>3
    <2> QED
        BY <2>5, <2>6
<1> QED
    BY <1>4, <1>5

(* What the latest of earlier dates are compared with stays.               *)
LEMMA ComparesKept ==
    ASSUME NEW known, NEW t, NEW d \in Nat, DayOf(t) \in Nat, d < DayOf(t)
    PROVE  Compares(known \cup {t}, d) = Compares(known, d)
<1>1. Before(known \cup {t}, d) = Before(known, d) /\ On(known \cup {t}, d) = On(known, d)
    <2>1. ~(DayOf(t) < d) /\ DayOf(t) # d
        OBVIOUS
    <2> QED
        BY <2>1 DEF Before, On
<1> QED
    BY <1>1 DEF Compares

(* A put of another file leaves the index alone; one of the index adds one *)
(* observation at most.                                                    *)
LEMMA FinitePut ==
    ASSUME NEW files, Index \in DOMAIN files, Finite(files), NEW n, NEW content
    PROVE  /\ n # Index => Finite(Put(n, content, files))
           /\ \A d, t : Finite(Put(Index, Put(d, t, Days(files)), files))
<1>1. ASSUME n # Index PROVE Finite(Put(n, content, files))
    <2>1. Days(Put(n, content, files)) = Days(files)
        BY <1>1 DEF Put, Days
    <2> QED
        BY <2>1 DEF Finite
<1>2. ASSUME NEW d, NEW t PROVE Finite(Put(Index, Put(d, t, Days(files)), files))
    <2>1. PICK days : days = Put(d, t, Days(files))
        OBVIOUS
    <2>2. Days(Put(Index, days, files)) = days
        BY DEF Put, Days
    <2>3. Range(days) \subseteq Range(Days(files)) \cup {t}
        BY <2>1 DEF Put, Range
    <2>4. IsFiniteSet(Range(days))
        BY <2>3, FS_AddElement, FS_Subset DEF Finite
    <2> QED
        BY <2>1, <2>2, <2>4 DEF Finite
<1> QED
    BY <1>1, <1>2

(* Histories stay finite: the published ones are.                          *)
LEMMA FiniteStep ==
    ASSUME Inv, FiniteInv, [Next]_vars
    PROVE  FiniteInv'
<1>1. ASSUME local' = local, Updating' => Updating,
             phase' = "swap" => phase = "swap" /\ backup' = backup
      PROVE  FiniteInv'
    BY <1>1 DEF FiniteInv, Finite
<1>2. ASSUME Finite(local'), phase' # "swap"
      PROVE  FiniteInv'
    BY <1>2 DEF FiniteInv, Finite
<1>3. local # Absent \/ Updating => Index \in DOMAIN local
    BY DEF Inv, Good, UpdateSound
<1>4. CASE FetchNext
    <2>1. CASE Deploy \/ Start \/ Retry \/ GivesUp \/ Dies
        <3>1. /\ local' = local /\ (Updating' => Updating)
              /\ phase' = "swap" => phase = "swap" /\ backup' = backup
            BY <2>1 DEF Deploy, Start, Retry, GivesUp, Dies, Ends, Fetching, Updating
        <3> QED
            BY <1>1, <3>1
    <2>2. CASE ReadIndex \/ ReadArchiveIndex \/ Download
        <3>1. local' = local /\ phase' # "swap" /\ ~Updating'
            BY <2>2 DEF ReadIndex, ReadArchiveIndex, Stage, Download, Updating
        <3> QED
            BY <1>1, <3>1
    <2>3. CASE MoveAside
        <3>1. phase' = "swap" /\ backup' = local /\ local' = Absent
            BY <2>3 DEF MoveAside
        <3> QED
            BY <3>1 DEF FiniteInv, Updating, Finite
    <2>4. CASE MoveIn
        <3>1. phase = "swap" /\ phase' = "idle" /\ local' = staged
            BY <2>4 DEF MoveIn, Ends
        <3>2. PICK g \in DOMAIN Gens : Days(staged) = Gens[g]
            BY <3>1 DEF Inv, Copying, CopySound
        <3>3. Days(staged) \in Histories
            BY <3>2 DEF Histories
        <3>4. Finite(staged)
            BY <3>3, ObservationAssumption DEF Finite
        <3> QED
            BY <1>2, <3>1, <3>4 DEF Finite
    <2>5. CASE MoveBack
        <3>1. phase = "swap" /\ phase' = "idle" /\ local' = backup
            BY <2>5 DEF MoveBack, Ends
        <3> QED
            BY <3>1 DEF FiniteInv, Updating, Finite
    <2> QED
        BY <1>4, <2>1, <2>2, <2>3, <2>4, <2>5 DEF FetchNext, FetchStep
<1>5. CASE \E t \in Fresh : WriteSnapshot(t)
    <2>1. PICK t \in Fresh : WriteSnapshot(t)
        BY <1>5
    <2>2. PICK M : M = Migrated(local)
        OBVIOUS
    <2>3. local' = Put(Name("gz", DayOf(t)), Only(DayOf(t), t), M) /\ phase' # "swap" /\ local # Absent
        BY <2>1, <2>2 DEF WriteSnapshot
    <2>4. ~IsSnapshot(Index) /\ Name("gz", DayOf(t)) # Index
        BY NameFacts DEF IsSnapshot
    <2>5. Index \in DOMAIN M /\ M[Index] = local[Index]
        BY <1>3, <2>2, <2>3, <2>4, MigratedFacts
    <2>6. Finite(M)
        BY <2>3, <2>5 DEF FiniteInv, Finite, Days
    <2>7. Finite(local')
        BY <2>3, <2>4, <2>5, <2>6, FinitePut DEF Finite
    <2> QED
        BY <1>2, <2>3, <2>7
<1>6. CASE WriteChanges \/ WriteRecent
    <2>1. PICK n, content : local' = Put(n, content, local) /\ n \in {Recent, Name("changes", DayOf(filing))}
        BY <1>6 DEF WriteChanges, WriteRecent
    <2>2. n # Index /\ phase' # "swap" /\ Updating
        BY <1>6, <2>1, NameFacts DEF Updating, WriteChanges, WriteRecent
    <2>3. Finite(Put(n, content, local))
        BY <1>3, <2>2, FinitePut DEF FiniteInv
    <2> QED
        BY <1>2, <2>1, <2>2, <2>3 DEF Finite
<1>7. CASE WriteIndex
    <2>1. /\ local' = Put(Index, Put(DayOf(filing), filing, Days(local)), local)
          /\ phase' # "swap" /\ Updating
        BY <1>7 DEF WriteIndex, Updating
    <2>2. Finite(Put(Index, Put(DayOf(filing), filing, Days(local)), local))
        BY <1>3, <2>1, FinitePut DEF FiniteInv
    <2> QED
        BY <1>2, <2>1, <2>2 DEF Finite
<1>8. CASE UpdateDies \/ (\E bundles \in SUBSET Bundles : Replay(bundles))
           \/ ReplayOne \/ ReplayEnds \/ ReplayDies \/ UNCHANGED vars
    <2>1. /\ local' = local /\ (Updating' => Updating)
          /\ phase' = "swap" => phase = "swap" /\ backup' = backup
        BY <1>8 DEF UpdateDies, Replay, ReplayOne, ReplayEnds, ReplayDies, Updating, vars, fetch
    <2> QED
        BY <1>1, <2>1
<1> QED
    BY <1>4, <1>5, <1>6, <1>7, <1>8 DEF Next

(* The observations of a local history, and their dates.                   *)
LEMMA BaseFacts ==
    ASSUME Inv, FiniteInv, local # Absent, NEW base, base = Range(Days(local))
    PROVE  /\ FilesLatest(Days(local), base) /\ base \subseteq Observations /\ IsFiniteSet(base)
           /\ base \subseteq Nat \ {0} /\ Newest(Days(local)) \in {0} \cup base
           /\ \A u \in base : u <= Newest(Days(local))
           /\ base # {} => Newest(Days(local)) \in base
           /\ base = {} <=> DOMAIN Days(local) = {}
<1>1. IsDays(Days(local)) /\ IsFiniteSet(base)
    BY DEF Inv, Good, FiniteInv, Finite
<1>2. FilesLatest(Days(local), base) /\ base \subseteq Observations
    BY <1>1, FiledDays
<1>3. base \subseteq Nat \ {0}
    BY <1>2, ObservationAssumption
<1>4. base = {} <=> DOMAIN Days(local) = {}
    BY DEF Range
<1>5. /\ Newest(Days(local)) \in {0} \cup base /\ \A u \in base : u <= Newest(Days(local))
      /\ base # {} => Newest(Days(local)) \in base
    BY <1>1, <1>3, NewestFacts
<1> QED
    BY <1>1, <1>2, <1>3, <1>4, <1>5

(* Bundles that are accepted are later than the baseline.                  *)
LEMMA ReplayBegins ==
    ASSUME Inv, FiniteInv, NEW bundles \in SUBSET Bundles, Replay(bundles)
    PROVE  ReplaySound'
<1> PICK base, times, r : /\ base = Range(Days(local)) /\ times = {b.at : b \in bundles}
                          /\ r = [days |-> Days(local), against |-> <<>>, times |-> times, left |-> times,
                                  gaps |-> Gaps(times \cup Latest(base))]
    OBVIOUS
<1>1. replayed' = r /\ local' = local /\ phase' = "replaying" /\ local # Absent /\ bundles # {}
    BY DEF Replay
<1>2. /\ r.days = Days(local) /\ r.against = <<>> /\ r.times = times /\ r.left = times
      /\ r.gaps = Gaps(times \cup Latest(base))
      /\ r = [days |-> r.days, against |-> r.against, times |-> r.times, left |-> r.left, gaps |-> r.gaps]
    OBVIOUS
<1>3. /\ FilesLatest(Days(local), base) /\ base \subseteq Observations /\ base \subseteq Nat \ {0}
      /\ Newest(Days(local)) \in {0} \cup base /\ \A u \in base : u <= Newest(Days(local))
    BY <1>1, BaseFacts
<1>4. times # {} /\ times \subseteq {b.at : b \in Bundles} /\ times \subseteq Nat
    <2>1. times # {} /\ times \subseteq {b.at : b \in Bundles}
        BY <1>1
    <2> QED
        BY <2>1, ObservationAssumption DEF Observations
<1>5. IsFiniteSet(times)
    <2> DEFINE f == [b \in bundles |-> b.at]
    <2>1. f \in Surjection(bundles, times)
        BY DEF Surjection
    <2>2. IsFiniteSet(bundles)
        BY FS_Subset, ObservationAssumption
    <2> QED
        BY <2>1, <2>2, FS_Surjection
<1>6. ASSUME NEW t \in times, NEW u \in base PROVE u < t
    <2>1. Newest(Days(local)) < t
        BY DEF Replay, Accepts
    <2>2. u <= Newest(Days(local)) /\ u \in Nat /\ t \in Nat /\ Newest(Days(local)) \in Nat
        BY <1>3, <1>4
    <2> QED
        BY <2>1, <2>2
<1>7. times \ times = {} /\ base \cup {} = base /\ DOMAIN <<>> = {}
    OBVIOUS
<1>8. Sound(r, base)
    <2> HIDE DEF Gaps
    <2> QED
        BY <1>2, <1>3, <1>4, <1>5, <1>6, <1>7 DEF Sound
<1> QED
    BY <1>1, <1>8 DEF ReplaySound

(* The next observation is filed as the latest one of its date.            *)
LEMMA ReplayGoesOn ==
    ASSUME NEW base, base \subseteq Observations, NEW r, Sound(r, base), r.left # {}
    PROVE  Sound(File(NextOf(r.left), r), base)
<1> PICK t, d, q, done, known :
        /\ t = NextOf(r.left) /\ d = DayOf(t) /\ q = File(t, r)
        /\ done = r.times \ r.left /\ known = base \cup done
    OBVIOUS
<1>1. /\ r = [days |-> r.days, against |-> r.against, times |-> r.times, left |-> r.left, gaps |-> r.gaps]
      /\ r.times \subseteq {b.at : b \in Bundles} /\ r.times # {} /\ IsFiniteSet(r.times)
      /\ r.left \subseteq r.times
      /\ \A x \in r.times, u \in base : u < x
      /\ \A x \in done, u \in r.left : x < u
      /\ FilesLatest(r.days, known)
      /\ DOMAIN r.against = {DayOf(x) : x \in done}
      /\ \A e \in DOMAIN r.against : r.against[e] = Compares(known, e)
      /\ r.gaps = Gaps(r.times \cup Latest(base))
    BY DEF Sound
<1>2. r.times \subseteq Observations /\ r.times \subseteq Nat
    <2>1. {b.at : b \in Bundles} \subseteq Observations
        BY DEF Observations
    <2> QED
        BY <1>1, <2>1, ObservationAssumption
<1>3. t \in r.left /\ \A u \in r.left : t <= u
    BY <1>1, <1>2, MinFacts DEF NextOf
<1>4. t \in Observations /\ t \in Nat /\ d \in Nat /\ known \subseteq Observations
    BY <1>1, <1>2, <1>3, ObservationAssumption
<1>5. \A u \in known : u < t
    BY <1>1, <1>3
<1>6. PICK new, prior : new = Put(d, t, r.days) /\ prior = {r.days[e] : e \in PreviousEntry(r.days, d)}
    OBVIOUS
<1>7. /\ q = [days |-> new, against |-> Put(d, prior, r.against), times |-> r.times,
              left |-> r.left \ {t}, gaps |-> r.gaps]
    BY <1>1, <1>6 DEF File
<1>8. /\ q.days = new /\ q.against = Put(d, prior, r.against) /\ q.times = r.times
      /\ q.left = r.left \ {t} /\ q.gaps = r.gaps
      /\ q = [days |-> q.days, against |-> q.against, times |-> q.times, left |-> q.left, gaps |-> q.gaps]
    BY <1>7
<1>9. q.times \ q.left = done \cup {t} /\ base \cup (done \cup {t}) = known \cup {t}
    BY <1>1, <1>3, <1>8
<1>10. \A x \in done \cup {t}, u \in q.left : x < u
    <2> SUFFICES ASSUME NEW x \in done \cup {t}, NEW u \in q.left PROVE x < u
        OBVIOUS
    <2>1. u \in r.left /\ u # t
        BY <1>8
    <2>2. CASE x \in done
        BY <1>1, <2>1, <2>2
    <2>3. CASE x = t
        <3>1. t <= u /\ u \in Nat
            BY <1>1, <1>2, <1>3, <2>1
        <3> QED
            BY <1>4, <2>1, <2>3, <3>1
    <2> QED
        BY <2>2, <2>3
<1>11. FilesLatest(q.days, known \cup {t})
    BY <1>1, <1>4, <1>5, <1>6, <1>8, FileOne
<1>12. prior = Compares(known \cup {t}, d)
    BY <1>1, <1>4, <1>5, <1>6, ComparesNew
<1>13. /\ DOMAIN q.against = {d} \cup DOMAIN r.against /\ q.against[d] = prior
       /\ \A e \in DOMAIN r.against : e # d => q.against[e] = r.against[e]
    <2>1. PICK old : old = r.against
        OBVIOUS
    <2>2. q.against = Put(d, prior, old)
        BY <1>8, <2>1
    <2>3. /\ DOMAIN q.against = {d} \cup DOMAIN old /\ q.against[d] = prior
          /\ \A e \in DOMAIN old : e # d => q.against[e] = old[e]
        BY <2>2 DEF Put
    <2> QED
        BY <2>1, <2>3
<1>14. DOMAIN q.against = {DayOf(x) : x \in done \cup {t}}
    BY <1>1, <1>13
<1>15. \A e \in DOMAIN q.against : q.against[e] = Compares(known \cup {t}, e)
    <2> SUFFICES ASSUME NEW e \in DOMAIN q.against PROVE q.against[e] = Compares(known \cup {t}, e)
        OBVIOUS
    <2>1. CASE e = d
        BY <1>12, <1>13, <2>1
    <2>2. CASE e # d
        <3>1. e \in DOMAIN r.against /\ q.against[e] = Compares(known, e)
            BY <1>1, <1>13, <2>2
        <3>2. PICK x \in done : e = DayOf(x)
            BY <1>1, <3>1
        <3>3. x \in Observations /\ x < t
            BY <1>4, <1>5
        <3>4. e <= d /\ e \in Nat
            BY <1>4, <3>2, <3>3, ObservationAssumption
        <3>5. e < DayOf(t) /\ DayOf(t) \in Nat
            BY <1>4, <2>2, <3>4
        <3> QED
            BY <3>1, <3>4, <3>5, ComparesKept
    <2> QED
        BY <2>1, <2>2
<1>16. q.left \subseteq q.times
    BY <1>1, <1>8
<1>17. \A x \in q.times, u \in base : u < x
    BY <1>1, <1>8
<1>18. PICK more, fin : more = done \cup {t} /\ fin = known \cup {t}
    OBVIOUS
<1>19. q.times \ q.left = more /\ base \cup more = fin
    BY <1>9, <1>18
<1>20. /\ \A x \in more, u \in q.left : x < u
       /\ FilesLatest(q.days, fin) /\ DOMAIN q.against = {DayOf(x) : x \in more}
       /\ \A e \in DOMAIN q.against : q.against[e] = Compares(fin, e)
    BY <1>10, <1>11, <1>14, <1>15, <1>18
<1>21. q.times # {} /\ IsFiniteSet(q.times) /\ q.times \subseteq {b.at : b \in Bundles}
       /\ q.gaps = Gaps(q.times \cup Latest(base))
    BY <1>1, <1>8
<1>22. Sound(q, base)
    BY <1>8, <1>16, <1>17, <1>19, <1>20, <1>21 DEF Sound
<1> QED
    BY <1>22

(* Every step keeps the replay sound.                                      *)
LEMMA NextReplay == Inv /\ ToldInv /\ ReplayInv /\ [Next]_vars => ReplayInv'
<1> SUFFICES ASSUME Inv, ToldInv, ReplayInv, [Next]_vars PROVE ReplayInv'
    OBVIOUS
<1>1. FiniteInv /\ FiniteInv'
    BY FiniteStep DEF ReplayInv
<1>2. ASSUME Replaying' PROVE ReplaySound'
    <2>1. CASE \E bundles \in SUBSET Bundles : Replay(bundles)
        BY <1>1, <2>1, ReplayBegins
    <2>2. CASE ReplayOne
        <3>1. /\ phase = "replaying" /\ replayed.left # {} /\ local' = local /\ phase' = phase
              /\ replayed' = File(NextOf(replayed.left), replayed)
            BY <2>2 DEF ReplayOne, fetch
        <3>2. local # Absent /\ Sound(replayed, Range(Days(local)))
            BY <3>1 DEF ReplayInv, Replaying, ReplaySound
        <3>3. Range(Days(local)) \subseteq Observations
            BY <1>1, <3>2, BaseFacts
        <3>4. Sound(replayed', Range(Days(local)))
            BY <3>1, <3>2, <3>3, ReplayGoesOn
        <3> QED
            BY <3>1, <3>2, <3>4 DEF ReplaySound
    <2>3. CASE ReplayEnds
        <3>1. phase = "replaying" /\ replayed.left = {} /\ local' = local /\ replayed' = replayed
            BY <2>3 DEF ReplayEnds
        <3> QED
            BY <3>1 DEF ReplayInv, Replaying, ReplaySound
    <2>4. CASE FetchNext /\ UNCHANGED <<filing, replayed>>
        <3>1. CASE Deploy
            <4>1. phase' = phase /\ local' = local /\ replayed' = replayed
                BY <2>4, <3>1 DEF Deploy
            <4> QED
                BY <1>2, <4>1 DEF ReplayInv, Replaying, ReplaySound
        <3>2. CASE Start \/ FetchStep
            BY <1>2, <3>2 DEF Start, FetchStep, ReadIndex, ReadArchiveIndex, Stage, Download, MoveAside, MoveIn,
                   MoveBack, Ends, Retry, GivesUp, Dies, Fetching, Replaying
        <3> QED
            BY <2>4, <3>1, <3>2 DEF FetchNext
    <2>5. CASE UNCHANGED vars
        <3>1. phase' = phase /\ local' = local /\ replayed' = replayed
            BY <2>5 DEF vars, fetch
        <3> QED
            BY <1>2, <3>1 DEF ReplayInv, Replaying, ReplaySound
    <2>6. CASE (\E t \in Fresh : WriteSnapshot(t)) \/ WriteChanges \/ WriteIndex \/ WriteRecent
               \/ UpdateDies \/ ReplayDies
        BY <1>2, <2>6 DEF WriteSnapshot, WriteChanges, WriteIndex, WriteRecent, UpdateDies, ReplayDies, Replaying
    <2> QED
        BY <2>1, <2>2, <2>3, <2>4, <2>5, <2>6 DEF Next
<1> QED
    BY <1>1, <1>2 DEF ReplayInv

(* No replay is under way at first.                                        *)
LEMMA InitReplay == RecoveryInit => ReplayInv
<1> SUFFICES ASSUME RecoveryInit PROVE ReplayInv
    OBVIOUS
<1>1. phase = "idle" /\ local \in Old
    BY DEF RecoveryInit, Init
<1>2. ASSUME local # Absent PROVE Finite(local)
    <2>1. Days(local) \in Histories
        BY <1>1, <1>2 DEF Histories
    <2> QED
        BY <2>1, ObservationAssumption DEF Finite
<1> QED
    BY <1>1, <1>2 DEF ReplayInv, FiniteInv, Updating, Replaying

(* The dates that are passed over are those of no observation.             *)
LEMMA GapsAre ==
    ASSUME NEW T, T \subseteq Observations, T # {}, IsFiniteSet(T)
    PROVE  Gaps(T) = {d \in DayOf(Min(T))..DayOf(Max(T)) : On(T, d) = {}}
<1> PICK lo, hi : lo = Min(T) /\ hi = Max(T)
    OBVIOUS
<1>1. T \subseteq Nat
    BY ObservationAssumption
<1>2. lo \in T /\ hi \in T /\ \A t \in T : lo <= t /\ t <= hi
    BY <1>1, MinFacts, MaxFacts
<1>3. /\ \A t \in T : DayOf(t) \in Nat
      /\ \A t, u \in T : DayOf(t) < DayOf(u) => t < u
      /\ \A t, u \in T : t < u => DayOf(t) <= DayOf(u)
    BY Times
<1>4. ASSUME NEW t \in T PROVE DayOf(lo) <= DayOf(t) /\ DayOf(t) <= DayOf(hi)
    <2>1. lo = t \/ lo < t
        BY <1>1, <1>2
    <2>2. hi = t \/ t < hi
        BY <1>1, <1>2
    <2>3. DayOf(t) \in Nat
        BY <1>3
    <2>4. DayOf(lo) <= DayOf(t)
        BY <1>2, <1>3, <2>1, <2>3
    <2>5. DayOf(t) <= DayOf(hi)
        BY <1>2, <1>3, <2>2, <2>3
    <2> QED
        BY <2>4, <2>5
<1>5. ASSUME NEW d \in Gaps(T) PROVE d \in DayOf(lo)..DayOf(hi) /\ On(T, d) = {}
    <2>1. PICK a \in T, c \in T : /\ a < c /\ ~\E b \in T : a < b /\ b < c
                                  /\ d \in (DayOf(a) + 1)..(DayOf(c) - 1)
        BY DEF Gaps
    <2>2. DayOf(a) \in Nat /\ DayOf(c) \in Nat /\ DayOf(lo) \in Nat /\ DayOf(hi) \in Nat
        BY <1>2, <1>3
    <2>3. d \in Int /\ DayOf(a) < d /\ d < DayOf(c)
        BY <2>1, <2>2
    <2>4. d \in DayOf(lo)..DayOf(hi)
        <3>1. DayOf(lo) <= DayOf(a) /\ DayOf(c) <= DayOf(hi)
            BY <1>4
        <3> QED
            BY <2>2, <2>3, <3>1
    <2>5. ASSUME NEW t \in T, DayOf(t) = d PROVE FALSE
        <3>1. a < t /\ t < c
            BY <1>3, <2>3, <2>5
        <3> QED
            BY <2>1, <3>1
    <2> QED
        BY <2>4, <2>5 DEF On
<1>6. ASSUME NEW d \in DayOf(lo)..DayOf(hi), On(T, d) = {} PROVE d \in Gaps(T)
    <2> PICK A, C : A = {t \in T : DayOf(t) < d} /\ C = {t \in T : d < DayOf(t)}
        OBVIOUS
    <2>1. d \in Int /\ DayOf(lo) <= d /\ d <= DayOf(hi) /\ DayOf(lo) \in Nat /\ DayOf(hi) \in Nat
        BY <1>2, <1>3
    <2>2. \A t \in T : DayOf(t) # d
        BY <1>6 DEF On
    <2>3. lo \in A /\ hi \in C
        BY <1>2, <2>1, <2>2
    <2>4. \A t \in T : t \in A \/ t \in C
        BY <1>3, <2>1, <2>2
    <2>5. A \subseteq Nat /\ C \subseteq Nat /\ IsFiniteSet(A)
        BY <1>1, FS_Subset
    <2> PICK a, c : a = Max(A) /\ c = Min(C)
        OBVIOUS
    <2>6. a \in A /\ (\A t \in A : t <= a) /\ c \in C /\ (\A t \in C : c <= t)
        BY <2>3, <2>5, MinFacts, MaxFacts
    <2>7. a \in T /\ c \in T /\ DayOf(a) < d /\ d < DayOf(c) /\ DayOf(a) \in Nat /\ DayOf(c) \in Nat
        BY <1>3, <2>6
    <2>8. a < c
        <3>1. DayOf(a) < DayOf(c)
            BY <2>1, <2>7
        <3> QED
            BY <1>3, <2>7, <3>1
    <2>9. ASSUME NEW b \in T, a < b, b < c PROVE FALSE
        <3>1. a \in Nat /\ b \in Nat /\ c \in Nat
            BY <1>1, <2>7
        <3>2. b <= a \/ c <= b
            BY <2>4, <2>6
        <3> QED
            BY <2>9, <3>1, <3>2
    <2>10. d \in (DayOf(a) + 1)..(DayOf(c) - 1)
        BY <2>1, <2>7
    <2> DEFINE p == <<a, c>>
    <2>11. p \in {q \in T \X T : q[1] < q[2] /\ ~\E b \in T : q[1] < b /\ b < q[2]}
        BY <2>7, <2>8, <2>9
    <2>12. d \in (DayOf(p[1]) + 1)..(DayOf(p[2]) - 1)
        BY <2>10
    <2> HIDE DEF p
    <2> QED
        BY <2>11, <2>12 DEF Gaps
<1> QED
    BY <1>5, <1>6

(* At the end the observations of the baseline and of the bundles are      *)
(* filed, compared and told apart by gaps as if all of them were known at  *)
(* once.                                                                   *)
LEMMA ReplayTells ==
    ASSUME Inv, ReplayInv, phase = "replayed"
    PROVE  ReplayFilesAll
<1> PICK base, times, days, known, T, n :
        /\ base = Range(Days(local)) /\ times = replayed.times /\ days = replayed.days
        /\ known = base \cup times /\ T = times \cup Latest(base) /\ n = Newest(Days(local))
    OBVIOUS
<1>1. /\ local # Absent /\ times \subseteq {b.at : b \in Bundles} /\ times # {} /\ IsFiniteSet(times)
      /\ \A t \in times, u \in base : u < t
      /\ FilesLatest(days, known)
      /\ DOMAIN replayed.against = {DayOf(t) : t \in times}
      /\ \A d \in DOMAIN replayed.against : replayed.against[d] = Compares(known, d)
      /\ replayed.gaps = Gaps(T)
    <2>1. local # Absent /\ replayed.left = {} /\ Sound(replayed, base)
        BY DEF ReplayInv, Replaying, ReplaySound
    <2>2. replayed.times \ replayed.left = times
        BY <2>1
    <2> QED
        BY <2>1, <2>2 DEF Sound
<1>2. /\ base \subseteq Observations /\ IsFiniteSet(base)
      /\ \A u \in base : u <= n
      /\ base # {} => n \in base
      /\ base = {} <=> DOMAIN Days(local) = {}
    BY <1>1, BaseFacts DEF ReplayInv
<1>3. known \subseteq Observations /\ known # {} /\ IsFiniteSet(known) /\ known \subseteq Nat
    <2>1. {b.at : b \in Bundles} \subseteq Observations
        BY DEF Observations
    <2>2. IsFiniteSet(base \cup times)
        BY <1>1, <1>2, FS_Union
    <2> QED
        BY <1>1, <1>2, <2>1, <2>2, ObservationAssumption
<1>4. Max(known) \in known /\ \A t \in known : t <= Max(known)
    BY <1>3, MaxFacts
<1>5. DOMAIN days = {DayOf(t) : t \in known}
    BY <1>1 DEF FilesLatest
<1>6. ASSUME NEW d \in DOMAIN days PROVE {days[d]} = Latest(On(known, d))
    <2>1. days[d] \in On(known, d) /\ On(known, d) \subseteq Nat /\ \A u \in On(known, d) : u <= days[d]
        BY <1>1, <1>3 DEF FilesLatest, On
    <2> QED
        BY <2>1, LatestIs
<1>7. ASSUME NEW d \in DOMAIN replayed.against
      PROVE  replayed.against[d] =
                 Latest(IF Before(known, d) # {} THEN Before(known, d) ELSE On(known, d) \ {days[d]})
    <2>1. d \in DOMAIN days
        BY <1>1, <1>5
    <2>2. Latest(On(known, d)) = {days[d]}
        BY <1>6, <2>1
    <2> QED
        BY <1>1, <2>2 DEF Compares
<1> PICK begin, end : /\ begin = IF DOMAIN Days(local) = {} THEN DayOf(Min(known)) ELSE DayOf(n)
                      /\ end = DayOf(Max(known))
    OBVIOUS
<1>8. replayed.gaps = {d \in begin..end : On(known, d) = {}}
    <2>1. CASE base = {}
        <3>1. T = known
            BY <2>1 DEF Latest
        <3>2. Gaps(known) = {d \in DayOf(Min(known))..DayOf(Max(known)) : On(known, d) = {}}
            BY <1>3, GapsAre
        <3> QED
            BY <1>1, <1>2, <2>1, <3>1, <3>2
    <2>2. CASE base # {}
        <3>1. n \in base /\ Latest(base) = {n} /\ begin = DayOf(n)
            <4>1. n \in base /\ base \subseteq Nat
                BY <1>2, <1>3, <2>2
            <4> QED
                BY <1>2, <2>2, <4>1, LatestIs
        <3>2. T = times \cup {n} /\ T \subseteq known /\ T \subseteq Nat /\ T \subseteq Observations
            BY <1>3, <3>1
        <3>3. IsFiniteSet(T)
            BY <1>3, <3>2, FS_Subset
        <3>4. Gaps(T) = {d \in DayOf(Min(T))..DayOf(Max(T)) : On(T, d) = {}}
            BY <3>1, <3>2, <3>3, GapsAre
        <3>5. Min(T) = n
            <4>1. Min(T) \in T /\ Min(T) <= n
                BY <3>2, MinFacts
            <4>2. ASSUME Min(T) \in times PROVE FALSE
                <5>1. n < Min(T) /\ n \in Nat /\ Min(T) \in Nat
                    BY <1>1, <1>3, <3>1, <4>2
                <5> QED
                    BY <4>1, <5>1
            <4> QED
                BY <3>2, <4>1, <4>2
        <3>6. Max(T) = Max(known)
            <4>1. Max(T) \in T /\ \A t \in T : t <= Max(T)
                BY <3>2, <3>3, MaxFacts
            <4>2. PICK t \in times : TRUE
                BY <1>1
            <4>3. ASSUME Max(known) \in base PROVE FALSE
                <5>1. Max(known) < t /\ t <= Max(known) /\ t \in Nat /\ Max(known) \in Nat
                    BY <1>1, <1>3, <1>4, <4>2, <4>3
                <5> QED
                    BY <5>1
            <4>4. Max(known) \in T
                BY <1>4, <3>2, <4>3
            <4>5. Max(known) <= Max(T) /\ Max(T) <= Max(known) /\ Max(T) \in Nat /\ Max(known) \in Nat
                BY <1>4, <3>2, <4>1, <4>4
            <4> QED
                BY <4>5
        <3>7. ASSUME NEW d \in DayOf(n)..end PROVE On(T, d) = {} <=> On(known, d) = {}
            <4>1. ASSUME NEW u \in known, DayOf(u) = d PROVE On(T, d) # {}
                <5>1. CASE u \in times
                    BY <3>2, <4>1, <5>1 DEF On
                <5>2. CASE u \in base
                    <6>1. u = n \/ u < n
                        BY <1>2, <1>3, <3>1, <5>2
                    <6>2. DayOf(u) \in Nat /\ DayOf(n) \in Nat /\ DayOf(u) <= DayOf(n)
                        BY <1>2, <3>1, <5>2, <6>1, ObservationAssumption
                    <6>3. end \in Nat /\ DayOf(n) <= d
                        BY <1>3, <1>4, <3>7, <6>2, ObservationAssumption
                    <6>4. DayOf(n) = d
                        BY <4>1, <6>2, <6>3
                    <6> QED
                        BY <3>2, <6>4 DEF On
                <5> QED
                    BY <5>1, <5>2
            <4> QED
                BY <3>2, <4>1 DEF On
        <3>8. Gaps(T) = {d \in DayOf(n)..end : On(T, d) = {}}
            BY <3>4, <3>5, <3>6
        <3>9. PICK dates : dates = DayOf(n)..end
            OBVIOUS
        <3>10. \A d \in dates : On(T, d) = {} <=> On(known, d) = {}
            BY <3>7, <3>9
        <3>11. {d \in dates : On(T, d) = {}} = {d \in dates : On(known, d) = {}}
            BY <3>10
        <3>12. Gaps(T) = {d \in dates : On(known, d) = {}}
            BY <3>8, <3>9, <3>11
        <3> QED
            BY <1>1, <3>1, <3>9, <3>12
    <2> QED
        BY <2>1, <2>2
<1> QED
    BY <1>1, <1>5, <1>6, <1>7, <1>8 DEF ReplayFilesAll, On, Before

(* Whatever bundles are accepted, in whatever order they are found, the    *)
(* replay files, compares and passes over what it should.                  *)
THEOREM ReplayFiles == Spec => []ReplayFilesAll
<1>1. Inv /\ ReplayInv => ReplayFilesAll
    BY ReplayTells DEF ReplayFilesAll
<1> QED
    BY <1>1, InitInv, NextInv, InitTold, NextTold, InitReplay, NextReplay, PTL DEF Spec

(* Every variable keeps its type.                                          *)
THEOREM TypeCorrect == Spec => []TypeOK
<1>1. Inv /\ ToldInv /\ ReplayInv => TypeOK
    <2> SUFFICES ASSUME Inv, ToldInv, ReplayInv PROVE TypeOK
        OBVIOUS
    <2>1. \A n \in pending \cup got : n.kind \in {"recent", "changes", "plain", "gz"}
        BY NameFacts DEF Inv, Types, IsName
    <2>2. local = Absent \/ Index \in DOMAIN local
        BY DEF Inv, Good
    <2>3. ASSUME replayed # Absent
          PROVE  replayed.left \subseteq replayed.times /\ replayed.times \subseteq Observations
        <3>1. Sound(replayed, Range(Days(local)))
            BY <2>3 DEF ToldInv, ReplayInv, Replaying, ReplaySound
        <3>2. {b.at : b \in Bundles} \subseteq Observations
            BY DEF Observations
        <3>3. replayed.left \subseteq replayed.times /\ replayed.times \subseteq {b.at : b \in Bundles}
            BY <3>1 DEF Sound
        <3> QED
            BY <3>2, <3>3
    <2> QED
        BY <2>1, <2>2, <2>3 DEF Inv, Types, TypeOK
<1> QED
    BY <1>1, InitInv, NextInv, InitTold, NextTold, InitReplay, NextReplay, PTL DEF Spec
=============================================================================
