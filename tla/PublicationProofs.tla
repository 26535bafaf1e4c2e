------------------------- MODULE PublicationProofs --------------------------
(***************************************************************************)
(* Theorems about Publication, for any number of runs, modalities, dates   *)
(* and times, in archive and legacy mode alike.                            *)
(***************************************************************************)
EXTENDS Publication, TLAPS

(* The steps of the deploy job after which a run ...                       *)
Resolved == {"merge", "history", "bundle", "build", "upload", "verify", "pointer",
             "confirm", "deploy"}      \* has a base snapshot and history
Merged   == Resolved \ {"merge"}       \* has a candidate snapshot
Approved == {"build", "upload", "verify", "pointer", "confirm", "deploy"}
                                       \* has a validated history
Stored   == {"verify", "pointer", "confirm"} \* has uploaded its generation
Verified == {"pointer", "confirm"}           \* has read it back

InArchive(r, steps) == phase[r] \in steps \/ (ArchiveMode /\ phase[r] = "deploy")

(* What the phase of a run says about its workspace, ... *)
WorkspaceInv(r) ==
    /\ phase[r] \in Resolved => \A o \in Sources : source[r][o] \in Readable
    /\ phase[r] \in Merged => snap[r] # None
    /\ phase[r] \in Approved => index[r] # None /\ evidence[r] = "complete"

(* ... about its generation, and about the pointer and the site. *)
GenerationInv(r) ==
    /\ InArchive(r, Stored) => /\ gens[r] # None
                               /\ gens[r].snap = snap[r] /\ gens[r].index = index[r]
    /\ InArchive(r, Verified) => gens[r].intact
    /\ pointer = r => phase[r] \in {"confirm", "deploy"} \cup Ended
    /\ site.base = r => phase[r] \in Ended

RunInv(r) == WorkspaceInv(r) /\ GenerationInv(r)

HeadInv == pointer # None => gens[pointer] # None

(* One job is inside the publication group, and the one that waits waits.  *)
GroupInv == /\ \A r \in Runs : phase[r] \in Inside <=> lock = r
            /\ pending # None => phase[pending] = "queued"

IInv == /\ TypeOK
        /\ \A r \in Runs : RunInv(r)
        /\ GroupInv /\ HeadInv /\ PointerIntact /\ ReadersPinned

-----------------------------------------------------------------------------
(* Lemmas about the operators of HistoryIndex *)

(* A run that merges overlays has a last one. *)
LEMMA LastOverlayPresent ==
    ASSUME NEW s \in Shards, Present(s) # {}
    PROVE  LastOverlay(s) \in Present(s)
BY ModalityAssumption DEF LastOverlay, Present

(* Merging shards onto a snapshot yields a snapshot. *)
LEMMA MergeShardsType ==
    ASSUME NEW base \in Snapshots, NEW s \in Shards
    PROVE  MergeShards(base, s) \in Snapshots
<1>1. Present(s) # {} => s[LastOverlay(s)] \in Time
  BY LastOverlayPresent DEF Present, Shards
<1>2. QED
  BY <1>1 DEF MergeShards, Snapshots, Shards, Present

(* What a run merges are shards, its own or those of the sample. *)
LEMMA OverlaysType ==
    ASSUME TypeOK, NEW r \in Runs
    PROVE  Overlays(r) \in Shards
BY SampleAssumption DEF Overlays, TypeOK

(* Filing a snapshot under its date yields an index. *)
LEMMA UpdateIndexType ==
    ASSUME NEW i \in Indexes, NEW s \in Snapshots
    PROVE  UpdateIndex(i, s) \in Indexes
BY DateAssumption DEF UpdateIndex, Indexes, Snapshots

(* A place that can be read holds a snapshot and an index. *)
LEMMA PublishedType ==
    ASSUME TypeOK, NEW o \in Readable
    PROVE  Published(o).snap \in Snapshots /\ Published(o).index \in Indexes
BY RunAssumption DEF Readable, TypeOK, Published, Origins, Places, Generations

(* The head of publication can be read. *)
LEMMA HeadReadable ==
    ASSUME TypeOK, HeadInv
    PROVE  Head \in Readable
BY DEF Head, Readable, HeadInv, Origins, Places, TypeOK

-----------------------------------------------------------------------------
(* At first nothing runs, and the pointer names a verified generation.     *)
LEMMA InitIInv == Init => IInv
<1> SUFFICES ASSUME Init PROVE IInv
  OBVIOUS
<1>1. PICK s \in Baseline :
        /\ clock = s.ts
        /\ pointer \in (IF ArchiveMode THEN {None, Genesis} ELSE {None})
        /\ gens = [p \in Places |->
             IF p = pointer
             THEN [snap |-> s,
                   index |-> [days   |-> [d \in Dates |-> IF d = DayOf[s.ts] THEN s ELSE NoDay],
                              latest |-> DayOf[s.ts]],
                   intact |-> TRUE]
             ELSE None]
        /\ site = [snap |-> s,
                   index |-> [days   |-> [d \in Dates |-> IF d = DayOf[s.ts] THEN s ELSE NoDay],
                              latest |-> DayOf[s.ts]],
                   base |-> pointer]
  BY DEF Init
<1> DEFINE first == [days   |-> [d \in Dates |-> IF d = DayOf[s.ts] THEN s ELSE NoDay],
                     latest |-> DayOf[s.ts]]
<1>2. s \in Snapshots /\ s.ts \in Time
  BY DEF Baseline, Snapshots
<1>3. first \in Indexes
  BY <1>2, DateAssumption DEF Indexes
<1> HIDE DEF first
<1>4. TypeOK
  <2>1. /\ phase = [r \in Runs |-> "idle"] /\ todo = [r \in Runs |-> Probes[r]]
        /\ shards = [r \in Runs |-> NoShards] /\ lock = None /\ pending = None
        /\ source = [r \in Runs |-> NoSource] /\ snap = [r \in Runs |-> None]
        /\ index = [r \in Runs |-> None] /\ ready = [r \in Runs |-> FALSE]
        /\ evidence = [r \in Runs |-> "none"]
    BY DEF Init
  <2>2. pointer \in Places \cup {None}
    BY <1>1 DEF Places
  <2>3. gens \in [Places -> Generations \cup {None}]
    BY <1>1, <1>2, <1>3 DEF Generations, first
  <2>4. site \in [snap : Snapshots, index : Indexes, base : Places \cup {None}]
    BY <1>1, <1>2, <1>3, <2>2 DEF first
  <2>5. NoShards \in Shards /\ NoSource \in [Sources -> Origins \cup {None}]
    BY DEF NoShards, Shards, NoSource
  <2>6. QED
    <3>1. /\ phase \in [Runs -> Waiting \cup Inside \cup Ended]
          /\ todo \in [Runs -> SUBSET Modalities]
          /\ evidence \in [Runs -> {"none", "incomplete", "complete"}]
      BY <2>1, RunAssumption DEF Waiting
    <3>2. /\ shards \in [Runs -> Shards]
          /\ source \in [Runs -> [Sources -> Origins \cup {None}]]
          /\ snap \in [Runs -> Snapshots \cup {None}]
          /\ index \in [Runs -> Indexes \cup {None}]
          /\ ready \in [Runs -> BOOLEAN]
      BY <2>1, <2>5
    <3>3. QED
      BY <1>1, <1>2, <2>1, <2>2, <2>3, <2>4, <3>1, <3>2 DEF TypeOK
<1>5. \A r \in Runs : phase[r] = "idle" /\ r # pointer /\ r # site.base
  BY <1>1, RunAssumption DEF Init, Origins, Places
<1>6. \A r \in Runs : RunInv(r)
  BY <1>5 DEF RunInv, WorkspaceInv, GenerationInv, InArchive, Resolved, Merged, Approved,
              Stored, Verified
<1>g. GroupInv
  BY <1>5, RunAssumption DEF GroupInv, Init, Inside, Origins, Places
<1>7. HeadInv /\ PointerIntact /\ ReadersPinned
  <2>1. CASE pointer = None
    BY <2>1, <1>1 DEF HeadInv, PointerIntact, ReadersPinned
  <2>2. CASE pointer # None
    <3>1. pointer \in Places /\ gens[pointer] = [snap |-> s, index |-> first, intact |-> TRUE]
      BY <2>2, <1>1 DEF Places, first
    <3>2. gens[pointer] \in Generations
      BY <3>1, <1>2, <1>3 DEF Generations
    <3>3. gens[pointer] # None
      BY <3>2, RunAssumption
    <3>4. QED
      BY <2>2, <3>1, <3>3, <1>1, <1>5 DEF HeadInv, PointerIntact, ReadersPinned, first
  <2>3. QED
    BY <2>1, <2>2
<1>8. QED
  BY <1>4, <1>6, <1>g, <1>7 DEF IInv
-----------------------------------------------------------------------------
(* Every step preserves the type invariant. *)
LEMMA TypeStep == IInv /\ [Next]_vars => TypeOK'
<1> SUFFICES ASSUME IInv, [Next]_vars PROVE TypeOK'
  OBVIOUS
<1> USE DEF IInv, Inside, Waiting, Ended
<1>1. CASE UNCHANGED vars
  BY <1>1 DEF vars, TypeOK
<1>2. CASE Tick
  BY <1>2, TimeAssumption DEF Tick, TypeOK, Time, workspace, group, public
<1>3. ASSUME NEW r \in Runs, Start(r) PROVE TypeOK'
  BY <1>3 DEF Start, TypeOK, probing, workspace, group, public
<1>4. ASSUME NEW r \in Runs, NEW m \in Modalities, ProbeSucceeds(r, m) PROVE TypeOK'
  BY <1>4 DEF ProbeSucceeds, TypeOK, group, public, Shards
<1>5. ASSUME NEW r \in Runs, NEW m \in Modalities, ProbeFails(r, m) PROVE TypeOK'
  <2>1. CASE r \in Daily
    BY <1>5, <2>1 DEF ProbeFails, TypeOK, group, public
  <2>2. CASE r \notin Daily
    <3>1. NoShards \in Shards
      BY DEF NoShards, Shards
    <3>2. /\ todo' = [todo EXCEPT ![r] = {}]
          /\ phase' = [phase EXCEPT ![r] = "failed"]
          /\ shards' = [shards EXCEPT ![r] = NoShards]
      BY <1>5, <2>2 DEF ProbeFails
    <3>3. /\ todo' \in [Runs -> SUBSET Modalities]
          /\ phase' \in [Runs -> Waiting \cup Inside \cup Ended]
      BY <3>2 DEF TypeOK
    <3>4. shards' \in [Runs -> Shards]
      BY <3>1, <3>2 DEF TypeOK
    <3>5. QED
      BY <1>5, <3>3, <3>4 DEF ProbeFails, TypeOK, group, public
  <2>3. QED
    BY <2>1, <2>2
<1>6. ASSUME NEW r \in Runs, Enqueue(r) PROVE TypeOK'
  BY <1>6 DEF Enqueue, Enter, Wait, TypeOK, probing, workspace, public
<1>f. ASSUME NEW r \in Runs, NEW outcome \in {"failed", "done"}, Finish(r, outcome)
      PROVE  /\ phase' \in [Runs -> Waiting \cup Inside \cup Ended]
             /\ shards' \in [Runs -> Shards]
             /\ lock' \in Runs \cup {None} /\ pending' \in Runs \cup {None}
             /\ source' \in [Runs -> [Sources -> Origins \cup {None}]]
             /\ snap' \in [Runs -> Snapshots \cup {None}]
             /\ index' \in [Runs -> Indexes \cup {None}]
             /\ ready' \in [Runs -> BOOLEAN]
  BY <1>f DEF Finish, TypeOK, NoShards, Shards, NoSource
<1>7. ASSUME NEW r \in Runs, Fail(r) PROVE TypeOK'
  BY <1>7, <1>f DEF Fail, TypeOK, probing, public
<1>8. ASSUME NEW r \in Runs, Resolve(r) PROVE TypeOK'
  BY <1>8 DEF Resolve, Advance, TypeOK, probing, public, group, Readable
<1>9. ASSUME NEW r \in Runs, Merge(r) PROVE TypeOK'
  <2>1. source[r]["snapshot"] \in Readable
    BY <1>9 DEF Merge, At, RunInv, WorkspaceInv, Resolved, Sources
  <2>2. MergeShards(Published(source[r]["snapshot"]).snap, Overlays(r)) \in Snapshots
    BY <2>1, PublishedType, MergeShardsType, OverlaysType
  <2>3. QED
    BY <1>9, <2>2 DEF Merge, Advance, TypeOK, probing, public, group
<1>10. ASSUME NEW r \in Runs, phase[r] = "history"
       PROVE  FetchedIndex(r) \in Indexes /\ CandidateIndex(r) \in Indexes
  <2>1. source[r]["history"] \in Readable /\ snap[r] \in Snapshots
    BY <1>10 DEF RunInv, WorkspaceInv, Resolved, Merged, Sources, TypeOK
  <2>2. QED
    BY <2>1, PublishedType, UpdateIndexType DEF FetchedIndex, CandidateIndex
<1>11. ASSUME NEW r \in Runs, BuildHistory(r) PROVE TypeOK'
  BY <1>11, <1>10 DEF BuildHistory, At, Advance, TypeOK, probing, public, group
<1>12. ASSUME NEW r \in Runs, HistoryFails(r) PROVE TypeOK'
  BY <1>12, <1>10 DEF HistoryFails, At, Advance, TypeOK, probing, public, group
<1>13. ASSUME NEW r \in Runs, Bundle(r) PROVE TypeOK'
  BY <1>13, <1>f DEF Bundle, Advance, TypeOK, probing, public, group, workspace
<1>14. ASSUME NEW r \in Runs, Build(r) PROVE TypeOK'
  BY <1>14 DEF Build, Advance, TypeOK, probing, public, group, workspace
<1>15. ASSUME NEW r \in Runs, Upload(r) PROVE TypeOK'
  <2>1. snap[r] \in Snapshots /\ index[r] \in Indexes
    BY <1>15 DEF Upload, At, RunInv, WorkspaceInv, Merged, Resolved, Approved, TypeOK
  <2>2. gens' \in [Places -> Generations \cup {None}]
    <3>1. PICK b \in BOOLEAN :
            gens' = [gens EXCEPT ![r] = [snap |-> snap[r], index |-> index[r], intact |-> b]]
      BY <1>15 DEF Upload
    <3>2. [snap |-> snap[r], index |-> index[r], intact |-> b] \in Generations
      BY <2>1 DEF Generations
    <3>3. QED
      BY <3>1, <3>2 DEF TypeOK
  <2>3. QED
    BY <1>15, <2>2 DEF Upload, Advance, TypeOK, probing, group, workspace
<1>16. ASSUME NEW r \in Runs, Verify(r) PROVE TypeOK'
  BY <1>16 DEF Verify, Advance, TypeOK, probing, public, group, workspace
<1>17. ASSUME NEW r \in Runs, CommitPointer(r) PROVE TypeOK'
  BY <1>17 DEF CommitPointer, Advance, TypeOK, probing, group, workspace, Places
<1>18. ASSUME NEW r \in Runs, ConfirmPointer(r) PROVE TypeOK'
  BY <1>18 DEF ConfirmPointer, Advance, TypeOK, probing, public, group, workspace
<1>19. ASSUME NEW r \in Runs, Deploy(r) PROVE TypeOK'
  <2>1. snap[r] \in Snapshots /\ index[r] \in Indexes
    BY <1>19 DEF Deploy, At, RunInv, WorkspaceInv, Merged, Resolved, Approved, TypeOK
  <2>2. QED
    BY <1>19, <1>f, <2>1 DEF Deploy, TypeOK, probing, Places
<1>20. QED
  BY <1>1, <1>2, <1>3, <1>4, <1>5, <1>6, <1>7, <1>8, <1>9, <1>11, <1>12, <1>13, <1>14,
     <1>15, <1>16, <1>17, <1>18, <1>19 DEF Next, ProbeEnds, Step
-----------------------------------------------------------------------------
(* What a step leaves alone *)

(* The invariant of a run survives the steps of other runs. *)
LEMMA OthersUndisturbed ==
    ASSUME TypeOK, NEW r \in Runs, NEW q \in Runs, q # r, RunInv(q),
           source'[q] = source[q], snap'[q] = snap[q], index'[q] = index[q],
           evidence'[q] = evidence[q], gens'[q] = gens[q],
           \A p \in Places : gens[p] # None => gens'[p] # None,
           \/ phase'[q] = phase[q]
           \/ /\ phase[q] \in Waiting
              /\ phase'[q] \in {"queued", "sources", "cancelled"},
           pointer' \in {pointer, r}, site'.base \in {site.base, r, None}
    PROVE  RunInv(q)'
<1>1. WorkspaceInv(q)'
  BY DEF RunInv, WorkspaceInv, Resolved, Merged, Approved, Readable, Waiting, Origins
<1>2. GenerationInv(q)'
  BY RunAssumption DEF RunInv, GenerationInv, InArchive, Stored, Verified, Waiting, Ended,
     Origins, Places
<1>3. QED
  BY <1>1, <1>2 DEF RunInv

(* The published state stays intact while nobody writes it. *)
LEMMA PublicUndisturbed ==
    ASSUME HeadInv, PointerIntact, ReadersPinned, UNCHANGED public,
           pointer \in Runs => evidence'[pointer] = evidence[pointer]
    PROVE  HeadInv' /\ PointerIntact' /\ ReadersPinned'
BY DEF HeadInv, PointerIntact, ReadersPinned, public

(* A run that only changes its own phase, from outside the group to outside. *)
LEMMA Outside ==
    ASSUME IInv, NEW r \in Runs, phase[r] \in Waiting,
           NEW step \in {"probing", "failed"}, phase[r] # "queued",
           phase' \in {phase, [phase EXCEPT ![r] = step]},
           UNCHANGED <<source, snap, index, evidence, group, public>>
    PROVE  (\A q \in Runs : RunInv(q)') /\ GroupInv'
<1>1. ASSUME NEW q \in Runs PROVE RunInv(q)'
  BY DEF IInv, TypeOK, RunInv, WorkspaceInv, GenerationInv, InArchive, Resolved, Merged,
     Approved, Stored, Verified, Readable, Waiting, Ended, public, Origins
<1>2. GroupInv'
  BY DEF IInv, TypeOK, GroupInv, group, Waiting, Inside
<1>3. QED
  BY <1>1, <1>2

(* The end of a job admits the one that waits and touches nothing public but the site. *)
LEMMA FinishStep ==
    ASSUME IInv, NEW r \in Runs, phase[r] \in Inside,
           NEW outcome \in {"done", "failed"}, Finish(r, outcome),
           UNCHANGED <<gens, pointer>>, site'.base \in {site.base, r, None},
           \A q \in Runs \ {r} : evidence'[q] = evidence[q]
    PROVE  (\A q \in Runs : RunInv(q)') /\ GroupInv'
<1>1. /\ lock = r /\ lock' = pending /\ pending' = None
      /\ pending # r /\ (pending # None => phase[pending] = "queued")
  BY RunAssumption DEF IInv, GroupInv, Finish, Inside, Origins, Places
<1>2. /\ phase'[r] = outcome
      /\ \A q \in Runs \ {r} : phase'[q] = IF q = pending THEN "sources" ELSE phase[q]
  BY <1>1 DEF Finish
<1>3. ASSUME NEW q \in Runs, q # r PROVE RunInv(q)'
  <2>1. /\ source'[q] = source[q] /\ snap'[q] = snap[q] /\ index'[q] = index[q]
        /\ evidence'[q] = evidence[q] /\ gens'[q] = gens[q]
    BY <1>3 DEF Finish, IInv, TypeOK
  <2>2. \/ phase'[q] = phase[q]
        \/ phase[q] \in Waiting /\ phase'[q] \in {"queued", "sources", "cancelled"}
    BY <1>1, <1>2, <1>3, RunAssumption DEF Waiting, Origins, Places
  <2>3. TypeOK /\ RunInv(q)
    BY DEF IInv
  <2>4. QED
    BY <1>3, <2>1, <2>2, <2>3, OthersUndisturbed
<1>4. RunInv(r)'
  <2>1. phase'[r] = outcome
    BY <1>2
  <2>2. QED
    BY <2>1 DEF RunInv, WorkspaceInv, GenerationInv, InArchive, Resolved, Merged,
       Approved, Stored, Verified, Ended
<1>5. GroupInv'
  <2>1. ASSUME NEW q \in Runs PROVE phase'[q] \in Inside <=> q = pending
    BY <1>1, <1>2 DEF IInv, GroupInv, Inside
  <2>2. QED
    BY <2>1, <1>1, RunAssumption DEF GroupInv, Origins, Places
<1>6. QED
  BY <1>3, <1>4, <1>5

(* A job that moves on to its next step leaves the group as it is. *)
LEMMA AdvanceGroup ==
    ASSUME IInv, NEW r \in Runs, phase[r] \in Inside, NEW step \in Inside, Advance(r, step)
    PROVE  GroupInv' /\ phase'[r] = step /\ \A q \in Runs \ {r} : phase'[q] = phase[q]
<1>1. phase'[r] = step /\ \A q \in Runs \ {r} : phase'[q] = phase[q]
  BY DEF Advance, IInv, TypeOK
<1>2. GroupInv'
  BY <1>1 DEF Advance, group, IInv, GroupInv, Inside, TypeOK
<1>3. QED
  BY <1>1, <1>2

(* What every step but one of a job needs: the job's own invariant.        *)
LEMMA AdvanceStep ==
    ASSUME IInv, NEW r \in Runs, phase[r] \in Inside, NEW step \in Inside, Advance(r, step),
           \A q \in Runs \ {r} : /\ source'[q] = source[q] /\ snap'[q] = snap[q]
                                /\ index'[q] = index[q] /\ evidence'[q] = evidence[q]
                                /\ gens'[q] = gens[q],
           \A p \in Places : gens[p] # None => gens'[p] # None,
           pointer' \in {pointer, r}, site' = site,
           RunInv(r)'
    PROVE  (\A q \in Runs : RunInv(q)') /\ GroupInv'
<1>1. ASSUME NEW q \in Runs, q # r PROVE RunInv(q)'
  <2>1. TypeOK /\ RunInv(q) /\ phase'[q] = phase[q]
    BY <1>1, AdvanceGroup DEF IInv
  <2>2. QED
    BY <1>1, <2>1, OthersUndisturbed
<1>2. QED
  BY <1>1, AdvanceGroup

(* Every step preserves the invariant of every run and of the group. *)
LEMMA RunStep == IInv /\ [Next]_vars => (\A q \in Runs : RunInv(q)') /\ GroupInv'
<1> SUFFICES ASSUME IInv, [Next]_vars PROVE (\A q \in Runs : RunInv(q)') /\ GroupInv'
  OBVIOUS
<1> DEFINE Goal == (\A q \in Runs : RunInv(q)') /\ GroupInv'
<1> USE DEF IInv
<1>1. CASE UNCHANGED vars
  BY <1>1 DEF vars, RunInv, WorkspaceInv, GenerationInv, InArchive, GroupInv, Readable
<1>2. CASE Tick
  BY <1>2 DEF Tick, workspace, group, public, RunInv, WorkspaceInv, GenerationInv,
     InArchive, GroupInv, Readable
<1>3. ASSUME NEW r \in Runs, Start(r) PROVE Goal
  BY <1>3, Outside DEF Start, workspace, Waiting
<1>4. ASSUME NEW r \in Runs, NEW m \in Modalities, ProbeSucceeds(r, m) PROVE Goal
  BY <1>4, Outside DEF ProbeSucceeds, Waiting
<1>5. ASSUME NEW r \in Runs, NEW m \in Modalities, ProbeFails(r, m) PROVE Goal
  BY <1>5, Outside DEF ProbeFails, Waiting
<1>6. ASSUME NEW r \in Runs, Enqueue(r) PROVE Goal
  <2>1. CASE Enter(r)
    <3>1. phase[r] = "probing" /\ phase' = [phase EXCEPT ![r] = "sources"]
      BY <1>6, <2>1 DEF Enqueue, Enter
    <3>2. ASSUME NEW q \in Runs PROVE RunInv(q)'
      BY <1>6, <3>1 DEF Enqueue, workspace, public, TypeOK, RunInv, WorkspaceInv,
         GenerationInv, InArchive, Resolved, Merged, Approved, Stored, Verified, Readable, Ended
    <3>3. GroupInv'
      BY <2>1, <3>1, RunAssumption DEF Enter, GroupInv, Inside, TypeOK, Origins, Places
    <3>4. QED
      BY <3>2, <3>3
  <2>2. CASE Wait(r)
    <3>1. /\ phase[r] = "probing" /\ pending # r
          /\ phase'[r] = "queued"
          /\ \A q \in Runs \ {r} :
                phase'[q] = IF q = pending THEN "cancelled" ELSE phase[q]
      BY <1>6, <2>2, RunAssumption DEF Enqueue, Wait, GroupInv, Origins, Places
    <3>2. RunInv(r)'
      BY <1>6, <3>1 DEF Enqueue, workspace, public, RunInv, WorkspaceInv, GenerationInv,
         InArchive, Resolved, Merged, Approved, Stored, Verified, Ended
    <3>3. ASSUME NEW q \in Runs, q # r PROVE RunInv(q)'
      <4>1. \/ phase'[q] = phase[q]
            \/ phase[q] \in Waiting /\ phase'[q] \in {"queued", "sources", "cancelled"}
        BY <3>1, <3>3, RunAssumption DEF GroupInv, Waiting, Origins, Places
      <4>2. QED
        BY <1>6, <3>3, <4>1, OthersUndisturbed DEF Enqueue, workspace, public
    <3>4. GroupInv'
      BY <2>2, <3>1, RunAssumption DEF Wait, GroupInv, Inside, Origins, Places
    <3>5. QED
      BY <3>2, <3>3, <3>4
  <2>3. QED
    BY <1>6, <2>1, <2>2 DEF Enqueue
<1>7. ASSUME NEW r \in Runs, Fail(r) PROVE Goal
  BY <1>7, FinishStep DEF Fail, public
<1>8. ASSUME NEW r \in Runs, Resolve(r) PROVE Goal
  <2>1. phase[r] = "sources" /\ Advance(r, "merge") /\ phase'[r] = "merge"
    BY <1>8 DEF Resolve, At, Advance, TypeOK
  <2>2. RunInv(r)'
    <3>1. PICK chosen \in [Sources -> Readable] : source'[r] = chosen
      BY <1>8 DEF Resolve, TypeOK
    <3>2. Readable' = Readable
      BY <1>8 DEF Resolve, Readable, public
    <3>3. QED
      BY <1>8, <2>1, <3>1, <3>2 DEF Resolve, public, RunInv, WorkspaceInv, GenerationInv,
         InArchive, Resolved, Merged, Approved, Stored, Verified, Ended
  <2>3. QED
    BY <1>8, <2>1, <2>2, AdvanceStep DEF Resolve, Inside, probing, workspace, public
<1>9. ASSUME NEW r \in Runs, Merge(r) PROVE Goal
  <2>1. phase[r] = "merge" /\ Advance(r, "history") /\ phase'[r] = "history"
    BY <1>9 DEF Merge, At, Advance, TypeOK
  <2>2. RunInv(r)'
    <3>1. snap'[r] \in Snapshots
      BY <1>9, <2>1, PublishedType, MergeShardsType, OverlaysType
         DEF Merge, TypeOK, RunInv, WorkspaceInv, Resolved, Sources
    <3>2. /\ snap'[r] # None /\ source' = source /\ Readable' = Readable
          /\ \A o \in Sources : source[r][o] \in Readable
      BY <1>9, <2>1, <3>1, RunAssumption DEF Merge, Readable, public, RunInv, WorkspaceInv, Resolved
    <3>3. WorkspaceInv(r)'
      BY <2>1, <3>2 DEF WorkspaceInv, Resolved, Merged, Approved
    <3>4. pointer' = pointer /\ site' = site /\ pointer # r /\ site.base # r
      BY <1>9, <2>1 DEF Merge, public, RunInv, GenerationInv, Ended
    <3>5. GenerationInv(r)'
      BY <2>1, <3>4 DEF GenerationInv, InArchive, Stored, Verified
    <3>6. QED
      BY <3>3, <3>5 DEF RunInv
  <2>3. QED
    BY <1>9, <2>1, <2>2, AdvanceStep DEF Merge, Inside, probing, workspace, public
<1>10. ASSUME NEW r \in Runs, BuildHistory(r) PROVE Goal
  <2>1. phase[r] = "history" /\ Advance(r, "bundle") /\ phase'[r] = "bundle"
    BY <1>10 DEF BuildHistory, At, Advance, TypeOK
  <2>2. RunInv(r)'
    BY <1>10, <2>1 DEF BuildHistory, Readable, public, TypeOK, RunInv, WorkspaceInv, GenerationInv, InArchive,
       Resolved, Merged, Approved, Stored, Verified, Ended
  <2>3. QED
    BY <1>10, <2>1, <2>2, AdvanceStep DEF BuildHistory, Inside, probing, workspace, public
<1>11. ASSUME NEW r \in Runs, HistoryFails(r) PROVE Goal
  <2>1. phase[r] = "history" /\ Advance(r, "bundle") /\ phase'[r] = "bundle"
    BY <1>11 DEF HistoryFails, At, Advance, TypeOK
  <2>2. RunInv(r)'
    BY <1>11, <2>1 DEF HistoryFails, Readable, public, TypeOK, RunInv, WorkspaceInv, GenerationInv, InArchive,
       Resolved, Merged, Approved, Stored, Verified, Ended
  <2>3. QED
    BY <1>11, <2>1, <2>2, AdvanceStep DEF HistoryFails, Inside, probing, workspace, public
<1>12. ASSUME NEW r \in Runs, Bundle(r) PROVE Goal
  <2>1. phase[r] = "bundle" /\ evidence' = [evidence EXCEPT ![r] =
                                   IF Replayable(r) /\ ready[r] THEN "complete" ELSE "incomplete"]
    BY <1>12 DEF Bundle, At
  <2>2. CASE Replayable(r) /\ ready[r]
    <3>1. Advance(r, "build") /\ phase'[r] = "build" /\ index[r] # None
      BY <1>12, <2>1, <2>2 DEF Bundle, Advance, TypeOK, Replayable
    <3>2. UNCHANGED workspace /\ UNCHANGED public
      BY <1>12, <2>2 DEF Bundle
    <3>3. evidence'[r] = "complete" /\ \A q \in Runs \ {r} : evidence'[q] = evidence[q]
      BY <2>1, <2>2 DEF TypeOK
    <3>4. RunInv(r)'
      BY <2>1, <3>1, <3>2, <3>3 DEF workspace, public, Readable, RunInv, WorkspaceInv, GenerationInv, InArchive,
       Resolved, Merged, Approved, Stored, Verified, Ended
    <3>5. QED
      BY <2>1, <3>1, <3>2, <3>3, <3>4, AdvanceStep DEF Inside, workspace, public
  <2>3. CASE ~(Replayable(r) /\ ready[r])
    BY <1>12, <2>1, <2>3, FinishStep DEF Bundle, public, TypeOK, Inside
  <2>4. QED
    BY <2>2, <2>3
<1>13. ASSUME NEW r \in Runs, Build(r) PROVE Goal
  <2> DEFINE step == IF ArchiveMode THEN "upload" ELSE "deploy"
  <2>1. phase[r] = "build" /\ Advance(r, step) /\ phase'[r] = step
    BY <1>13 DEF Build, At, Advance, TypeOK
  <2>2. RunInv(r)'
    BY <1>13, <2>1 DEF Build, workspace, public, Readable, RunInv, WorkspaceInv, GenerationInv, InArchive,
       Resolved, Merged, Approved, Stored, Verified, Ended
  <2>3. QED
    BY <1>13, <2>1, <2>2, AdvanceStep DEF Build, Inside, workspace, public
<1>14. ASSUME NEW r \in Runs, Upload(r) PROVE Goal
  <2>1. phase[r] = "upload" /\ Advance(r, "verify") /\ phase'[r] = "verify"
    BY <1>14 DEF Upload, At, Advance, TypeOK
  <2>2. PICK b \in BOOLEAN :
          gens' = [gens EXCEPT ![r] = [snap |-> snap[r], index |-> index[r], intact |-> b]]
    BY <1>14 DEF Upload
  <2>3. gens'[r] = [snap |-> snap[r], index |-> index[r], intact |-> b]
    BY <2>2 DEF TypeOK, Places
  <2>4. gens'[r] # None
    <3>1. snap[r] \in Snapshots /\ index[r] \in Indexes
      BY <2>1 DEF RunInv, WorkspaceInv, Resolved, Merged, Approved, TypeOK
    <3>2. gens'[r] \in Generations
      BY <2>3, <3>1 DEF Generations
    <3>3. QED
      BY <3>2, RunAssumption
  <2>5. \A p \in Places : (p # r => gens'[p] = gens[p]) /\ (gens[p] # None => gens'[p] # None)
    BY <2>2, <2>4 DEF TypeOK
  <2>6. RunInv(r)'
    BY <1>14, <2>1, <2>3, <2>4, <2>5 DEF Upload, workspace, Readable, Origins, RunInv, WorkspaceInv, GenerationInv, InArchive,
       Resolved, Merged, Approved, Stored, Verified, Ended
  <2>7. QED
    BY <1>14, <2>1, <2>5, <2>6, AdvanceStep DEF Upload, Inside, workspace, Places
<1>15. ASSUME NEW r \in Runs, Verify(r) PROVE Goal
  <2>1. phase[r] = "verify" /\ Advance(r, "pointer") /\ phase'[r] = "pointer"
    BY <1>15 DEF Verify, At, Advance, TypeOK
  <2>2. RunInv(r)'
    BY <1>15, <2>1 DEF Verify, workspace, public, Readable, RunInv, WorkspaceInv, GenerationInv, InArchive,
       Resolved, Merged, Approved, Stored, Verified, Ended
  <2>3. QED
    BY <1>15, <2>1, <2>2, AdvanceStep DEF Verify, Inside, probing, workspace, public
<1>16. ASSUME NEW r \in Runs, CommitPointer(r) PROVE Goal
  <2>1. phase[r] = "pointer" /\ Advance(r, "confirm") /\ phase'[r] = "confirm"
    BY <1>16 DEF CommitPointer, At, Advance, TypeOK
  <2>2. RunInv(r)'
    BY <1>16, <2>1 DEF CommitPointer, workspace, public, Readable, RunInv, WorkspaceInv, GenerationInv, InArchive,
       Resolved, Merged, Approved, Stored, Verified, Ended
  <2>3. QED
    BY <1>16, <2>1, <2>2, AdvanceStep DEF CommitPointer, Inside, probing, workspace, public
<1>17. ASSUME NEW r \in Runs, ConfirmPointer(r) PROVE Goal
  <2>1. phase[r] = "confirm" /\ Advance(r, "deploy") /\ phase'[r] = "deploy"
    BY <1>17 DEF ConfirmPointer, At, Advance, TypeOK
  <2>2. RunInv(r)'
    BY <1>17, <2>1 DEF ConfirmPointer, workspace, public, Readable, RunInv, WorkspaceInv, GenerationInv, InArchive,
       Resolved, Merged, Approved, Stored, Verified, Ended
  <2>3. QED
    BY <1>17, <2>1, <2>2, AdvanceStep DEF ConfirmPointer, Inside, probing, workspace, public
<1>18. ASSUME NEW r \in Runs, Deploy(r) PROVE Goal
  BY <1>18, FinishStep DEF Deploy, At, Inside, public
<1>19. QED
  BY <1>1, <1>2, <1>3, <1>4, <1>5, <1>6, <1>7, <1>8, <1>9, <1>10, <1>11, <1>12, <1>13, <1>14,
     <1>15, <1>16, <1>17, <1>18 DEF Next, ProbeEnds, Step

(* Every step keeps the pointer and the site on intact generations. *)
LEMMA PublicStep == IInv /\ [Next]_vars => HeadInv' /\ PointerIntact' /\ ReadersPinned'
<1> SUFFICES ASSUME IInv, [Next]_vars PROVE HeadInv' /\ PointerIntact' /\ ReadersPinned'
  OBVIOUS
<1> DEFINE Goal == HeadInv' /\ PointerIntact' /\ ReadersPinned'
<1> USE DEF IInv
<1>1. ASSUME UNCHANGED <<evidence, public>> PROVE Goal
  BY <1>1, PublicUndisturbed
<1>2. CASE UNCHANGED vars
  BY <1>1, <1>2 DEF vars, public
<1>3. CASE Tick
  BY <1>1, <1>3 DEF Tick
<1>4. ASSUME NEW r \in Runs, Start(r) \/ ProbeEnds(r) PROVE Goal
  BY <1>1, <1>4 DEF Start, ProbeEnds, ProbeSucceeds, ProbeFails
<1>5. ASSUME NEW r \in Runs,
             \/ Enqueue(r) \/ Resolve(r) \/ Merge(r) \/ BuildHistory(r) \/ HistoryFails(r)
             \/ Build(r) \/ Verify(r) \/ ConfirmPointer(r) \/ Fail(r)
      PROVE  Goal
  BY <1>1, <1>5 DEF Enqueue, Resolve, Merge, BuildHistory, HistoryFails, Build, Verify,
     ConfirmPointer, Fail
<1>6. ASSUME NEW r \in Runs, Bundle(r) PROVE Goal
  <2>1. phase[r] = "bundle" /\ pointer # r
    BY <1>6 DEF Bundle, At, RunInv, GenerationInv, Ended
  <2>2. \A q \in Runs \ {r} : evidence'[q] = evidence[q]
    BY <1>6 DEF Bundle, TypeOK
  <2>3. QED
    BY <1>6, <2>1, <2>2, PublicUndisturbed DEF Bundle
<1>7. ASSUME NEW r \in Runs, Upload(r) PROVE Goal
  <2>1. phase[r] = "upload" /\ pointer # r /\ site.base # r
    BY <1>7 DEF Upload, At, RunInv, GenerationInv, Ended
  <2>2. \A p \in Places \ {r} : gens'[p] = gens[p]
    BY <1>7 DEF Upload, TypeOK
  <2>3. UNCHANGED <<evidence, pointer, site>>
    BY <1>7 DEF Upload
  <2>4. QED
    BY <2>1, <2>2, <2>3 DEF HeadInv, PointerIntact, ReadersPinned, TypeOK
<1>8. ASSUME NEW r \in Runs, CommitPointer(r) PROVE Goal
  <2>1. /\ gens[r] # None /\ gens[r].intact /\ evidence[r] = "complete"
    BY <1>8 DEF CommitPointer, At, RunInv, WorkspaceInv, GenerationInv, InArchive, Stored,
       Verified, Approved
  <2>2. QED
    BY <1>8, <2>1 DEF CommitPointer, HeadInv, PointerIntact, ReadersPinned
<1>9. ASSUME NEW r \in Runs, Deploy(r) PROVE Goal
  <2>1. UNCHANGED <<evidence, gens, pointer>>
    BY <1>9 DEF Deploy
  <2>2. ArchiveMode => gens[r] = [snap |-> snap[r], index |-> index[r], intact |-> TRUE]
    <3>1. ArchiveMode => /\ gens[r] \in Generations /\ gens[r].intact
                         /\ gens[r].snap = snap[r] /\ gens[r].index = index[r]
      BY <1>9 DEF Deploy, At, RunInv, GenerationInv, InArchive, Stored, Verified, TypeOK, Places
    <3>2. QED
      BY <3>1 DEF Generations
  <2>3. ReadersPinned'
    BY <1>9, <2>1, <2>2 DEF Deploy, ReadersPinned
  <2>4. QED
    BY <2>1, <2>3 DEF HeadInv, PointerIntact
<1>10. QED
  BY <1>2, <1>3, <1>4, <1>5, <1>6, <1>7, <1>8, <1>9 DEF Next, Step

-----------------------------------------------------------------------------
(* The inductive invariant holds of every behaviour. *)
THEOREM Invariance == Spec => []IInv
<1>1. IInv /\ [Next]_vars => IInv'
  BY TypeStep, RunStep, PublicStep DEF IInv
<1>2. QED
  BY InitIInv, <1>1, PTL DEF Spec

(* Every variable keeps its type. *)
THEOREM TypeCorrect == Spec => []TypeOK
BY Invariance, PTL DEF IInv

(* The durable pointer only ever names a verified generation of a run that *)
(* retained a complete recovery bundle.                                    *)
THEOREM PointerSafe == Spec => []PointerIntact
BY Invariance, PTL DEF IInv

(* The site's readers are pinned to a generation with the site's content.  *)
THEOREM ReadersSafe == Spec => []ReadersPinned
BY Invariance, PTL DEF IInv
-----------------------------------------------------------------------------
(* Without a pointer and without bootstrap no run gets past its sources.   *)
Blocked == ArchiveMode /\ ~Bootstrap /\ pointer = None => \A r \in Runs : phase[r] \notin Resolved

(* No run gets past its sources while there is no pointer.                 *)
LEMMA BlockedStep == IInv /\ Blocked /\ [Next]_vars => Blocked'
<1> SUFFICES ASSUME IInv, Blocked, [Next]_vars, ArchiveMode, ~Bootstrap, pointer' = None, NEW q \in Runs
             PROVE  phase'[q] \notin Resolved
  BY DEF Blocked
<1> USE DEF IInv
<1>1. ASSUME NEW r \in Runs, CommitPointer(r) PROVE FALSE
  BY <1>1, RunAssumption DEF CommitPointer, Origins, Places
<1>2. pointer = None
  BY <1>1 DEF Next, Step, vars, Tick, Start, ProbeEnds, ProbeSucceeds, ProbeFails, Enqueue, Resolve, Merge,
     BuildHistory, HistoryFails, Bundle, Build, Upload, Verify, ConfirmPointer, Deploy, Fail, public
<1>3. \A r \in Runs : phase[r] \notin Resolved
  BY <1>2 DEF Blocked
<1>4. CASE UNCHANGED vars \/ Tick
  BY <1>3, <1>4 DEF vars, Tick
<1>5. ASSUME NEW r \in Runs, Start(r) \/ ProbeEnds(r) \/ Enqueue(r) PROVE phase'[q] \notin Resolved
  BY <1>3, <1>5 DEF Start, ProbeEnds, ProbeSucceeds, ProbeFails, Enqueue, Enter, Wait, TypeOK, Resolved
<1>6. ASSUME NEW r \in Runs, Fail(r) PROVE phase'[q] \notin Resolved
  BY <1>3, <1>6 DEF Fail, Finish, Resolved
<1>7. ASSUME NEW r \in Runs,
             \/ Resolve(r) \/ Merge(r) \/ BuildHistory(r) \/ HistoryFails(r) \/ Bundle(r) \/ Build(r)
             \/ Upload(r) \/ Verify(r) \/ CommitPointer(r) \/ ConfirmPointer(r) \/ Deploy(r)
      PROVE  FALSE
  <2>1. ~Resolve(r)
    BY <1>2 DEF Resolve, HasHead
  <2>2. phase[r] \in Resolved
    BY <1>7, <2>1 DEF Merge, BuildHistory, HistoryFails, Bundle, Build, Upload, Verify, CommitPointer,
       ConfirmPointer, Deploy, At, Resolved
  <2>3. QED
    BY <1>3, <2>2
<1>8. QED
  BY <1>4, <1>5, <1>6, <1>7 DEF Next, Step

(* A missing archive is not permission to start an empty one: nothing is   *)
(* published until bootstrap is enabled (archive_publication.py).          *)
THEOREM NothingWithoutPointer == Spec => MissingPointerBlocks
<1>1. Init => Blocked
  BY DEF Init, Blocked, Resolved
<1>2. IInv /\ Blocked /\ [Next]_vars
        => [ArchiveMode /\ ~Bootstrap /\ pointer = None => UNCHANGED <<pointer, site>>]_vars
  <2> SUFFICES ASSUME IInv, Blocked, Next, ArchiveMode, ~Bootstrap, pointer = None
               PROVE  UNCHANGED <<pointer, site>>
    BY DEF vars
  <2>1. ASSUME NEW r \in Runs, CommitPointer(r) \/ Deploy(r) PROVE FALSE
    BY <2>1 DEF Blocked, CommitPointer, Deploy, At, Resolved
  <2>2. QED
    BY <2>1 DEF Next, Step, Tick, Start, ProbeEnds, ProbeSucceeds, ProbeFails, Enqueue, Resolve, Merge,
       BuildHistory, HistoryFails, Bundle, Build, Upload, Verify, ConfirmPointer, Fail, public
<1>3. QED
  BY Invariance, BlockedStep, <1>1, <1>2, PTL DEF Spec, MissingPointerBlocks
-----------------------------------------------------------------------------
(* What Publication does to the committed history: it stays replayable,    *)
(* and, unless an operator overrides a source, it is extended by one run   *)
(* at a time, its past is frozen, and Publication implements               *)
(* PublishedHistory: every step commits one merged snapshot, shows what    *)
(* was committed, or changes neither.                                      *)
NoOverride == \A r \in Runs : Overrides[r] = {}

Valid(p) == ValidIndex(p.index) /\ AdmitsObservation(p.index, p.snap)

(* Every publication that can become the head is a valid baseline. *)
ValidInv == /\ \A r \in Runs : phase[r] \in Approved => Replayable(r)
            /\ pointer # None => Valid(gens[pointer])
            /\ Valid(site)

(* The run is working on a candidate that it has not committed yet. *)
Preparing(r) == \/ phase[r] \in Resolved \ {"confirm", "deploy"}
                \/ phase[r] = "deploy" /\ ~ArchiveMode

Extended(r) == IF r \in UpdatesHistory
               THEN UpdateIndex(Committed.index, snap[r]) ELSE Committed.index

(* The candidate of the run inside the group extends what is committed. *)
BaseInv(r) ==
    /\ Preparing(r) => source[r] = [o \in Sources |-> Head]
    /\ Preparing(r) /\ phase[r] \in Merged =>
          snap[r] = MergeShards(Committed.snap, Overlays(r))
    /\ Preparing(r) /\ (phase[r] \in Approved \/ (phase[r] = "bundle" /\ ready[r])) =>
          index[r] = Extended(r)
    /\ ArchiveMode /\ phase[r] \in {"confirm", "deploy"} => pointer = r
    /\ phase[r] \in {"upload", "verify", "pointer", "confirm"} => ArchiveMode
    /\ phase[r] \in Waiting \cup {"sources", "merge", "history"} => ~ready[r]

-----------------------------------------------------------------------------
(* A commit of a valid history freezes the days before the newest one. *)
LEMMA UpdateFreezesPast ==
    ASSUME NEW i \in Indexes, NEW s \in Snapshots, ValidIndex(i),
           ValidIndex(UpdateIndex(i, s))
    PROVE  /\ Recorded(i) \subseteq Recorded(UpdateIndex(i, s))
           /\ i.latest <= UpdateIndex(i, s).latest
           /\ \A d \in Dates : d < i.latest => UpdateIndex(i, s).days[d] = i.days[d]
<1> DEFINE u == UpdateIndex(i, s)
<1>1. /\ i.days \in [Dates -> Snapshots \cup {NoDay}] /\ i.latest \in Dates
      /\ s.ts \in Time /\ DayOf[s.ts] \in Dates
  BY DateAssumption DEF Indexes, Snapshots
<1>0. i.latest \in Nat /\ DayOf[s.ts] \in Nat /\ Dates \subseteq Nat
  BY <1>1, DateAssumption
<1>2. /\ u.latest = DayOf[s.ts] /\ u.days[DayOf[s.ts]] = s
      /\ \A d \in Dates : d # DayOf[s.ts] => u.days[d] = i.days[d]
  BY <1>1 DEF UpdateIndex
<1>3. Recorded(i) \subseteq Recorded(u)
  BY <1>1, <1>2, NoDayAssumption DEF Recorded
<1>4. i.latest <= DayOf[s.ts]
  <2>1. CASE i.latest = DayOf[s.ts]
    BY <2>1, <1>0
  <2>2. CASE i.latest # DayOf[s.ts]
    <3>1. i.latest \in Recorded(i) /\ i.latest \in Recorded(u)
      BY <1>3 DEF ValidIndex
    <3>2. i.days[i.latest] \in Snapshots /\ u.days[i.latest] = i.days[i.latest]
      BY <2>2, <3>1, <1>1, <1>2 DEF Recorded
    <3>3. i.days[i.latest].ts \in Time /\ DayOf[i.days[i.latest].ts] = i.latest
      BY <3>1, <3>2 DEF ValidIndex, Snapshots
    <3>4. i.days[i.latest].ts <= s.ts
      BY <3>1, <3>2, <1>2 DEF ValidIndex
    <3>5. QED
      BY <3>3, <3>4, <1>1, DateAssumption
  <2>3. QED
    BY <2>1, <2>2
<1>5. \A d \in Dates : d < i.latest => d # DayOf[s.ts]
  BY <1>0, <1>4
<1>6. QED
  BY <1>2, <1>3, <1>4, <1>5

-----------------------------------------------------------------------------
(* Head and Committed only change when a job commits. *)
LEMMA HeadStep ==
    ASSUME IInv, [Next]_vars, \A r \in Runs : BaseInv(r),
           \A r \in Runs : ~CommitPointer(r) /\ (ArchiveMode \/ ~Deploy(r))
    PROVE  Head' = Head /\ Committed' = Committed
<1> USE DEF IInv
<1>1. CASE UNCHANGED public
  BY <1>1 DEF public, Head, Committed, Published
<1>2. CASE UNCHANGED vars
  BY <1>1, <1>2 DEF vars, public
<1>3. CASE Tick
  BY <1>1, <1>3 DEF Tick
<1>4. ASSUME NEW r \in Runs, Upload(r) PROVE Head' = Head /\ Committed' = Committed
  <2>1. ArchiveMode /\ pointer # r /\ Head # r
    BY <1>4, RunAssumption
       DEF Upload, At, BaseInv, RunInv, GenerationInv, Ended, Head, Origins, Places
  <2>2. Head' = Head /\ \A p \in Places \ {r} : gens'[p] = gens[p]
    BY <1>4 DEF Upload, Head, TypeOK
  <2>3. Head \in Origins
    BY HeadReadable DEF Readable
  <2>4. QED
    BY <1>4, <2>1, <2>2, <2>3 DEF Upload, Committed, Published, Origins
<1>5. ASSUME NEW r \in Runs, ArchiveMode, Deploy(r)
      PROVE  Head' = Head /\ Committed' = Committed
  <2>1. pointer = r /\ r # None /\ r # Site
    BY <1>5, RunAssumption DEF Deploy, At, BaseInv, Origins, Places
  <2>2. QED
    BY <1>5, <2>1 DEF Deploy, Head, Committed, Published
<1>6. ASSUME NEW r \in Runs,
             \/ Start(r) \/ ProbeEnds(r) \/ Enqueue(r) \/ Resolve(r) \/ Merge(r)
             \/ BuildHistory(r) \/ HistoryFails(r) \/ Bundle(r) \/ Build(r) \/ Verify(r)
             \/ ConfirmPointer(r) \/ Fail(r)
      PROVE  UNCHANGED public
  BY <1>6 DEF Start, ProbeEnds, ProbeSucceeds, ProbeFails, Enqueue, Resolve, Merge,
     BuildHistory, HistoryFails, Bundle, Build, Verify, ConfirmPointer, Fail
<1>7. QED
  BY <1>1, <1>2, <1>3, <1>4, <1>5, <1>6 DEF Next, Step
-----------------------------------------------------------------------------
(* What is committed or deployed is a valid baseline *)

(* The first publication is a valid baseline.                              *)
LEMMA InitValid == Init => ValidInv
<1> SUFFICES ASSUME Init PROVE ValidInv
  OBVIOUS
<1> DEFINE Initial(s) == [days   |-> [d \in Dates |-> IF d = DayOf[s.ts] THEN s ELSE NoDay],
                          latest |-> DayOf[s.ts]]
<1>1. PICK s \in Baseline :
        /\ pointer \in (IF ArchiveMode THEN {None, Genesis} ELSE {None})
        /\ gens = [p \in Places |->
                     IF p = pointer
                     THEN [snap |-> s, index |-> Initial(s), intact |-> TRUE] ELSE None]
        /\ site = [snap |-> s, index |-> Initial(s), base |-> pointer]
  BY DEF Init
<1>2. s \in Snapshots /\ s.ts \in Time /\ DayOf[s.ts] \in Dates /\ s # NoDay
  BY DateAssumption, NoDayAssumption DEF Baseline, Snapshots
<1>3. Recorded(Initial(s)) = {DayOf[s.ts]}
  BY <1>2 DEF Recorded
<1>4. Initial(s).days[DayOf[s.ts]] = s /\ Initial(s).latest = DayOf[s.ts]
  BY <1>2
<1>5. s.ts <= s.ts
  BY <1>2, TimeAssumption DEF Time
<1> HIDE DEF Initial
<1>6. ValidIndex(Initial(s)) /\ AdmitsObservation(Initial(s), s)
  BY <1>3, <1>4, <1>5 DEF ValidIndex, AdmitsObservation
<1>7. \A r \in Runs : phase[r] \notin Approved
  BY DEF Init, Approved
<1>8. pointer # None => gens[pointer] = [snap |-> s, index |-> Initial(s), intact |-> TRUE]
  BY <1>1 DEF Places
<1>9. QED
  BY <1>1, <1>6, <1>7, <1>8 DEF ValidInv, Valid

(* A validated candidate stays as it was validated. *)
LEMMA ReplayableStep ==
    ASSUME IInv, [Next]_vars, ValidInv, NEW q \in Runs, phase'[q] \in Approved
    PROVE  Replayable(q)'
<1> USE DEF IInv
<1> DEFINE Goal == Replayable(q)'
<1>1. ASSUME phase[q] \in Approved, snap'[q] = snap[q], index'[q] = index[q] PROVE Goal
  BY <1>1 DEF ValidInv, Replayable, ValidIndex, AdmitsObservation, Recorded
<1>2. CASE UNCHANGED vars
  BY <1>1, <1>2 DEF vars
<1>3. CASE Tick
  BY <1>1, <1>3 DEF Tick, workspace
<1>4. ASSUME NEW r \in Runs,
             \/ Start(r) \/ ProbeEnds(r) \/ Enqueue(r) PROVE Goal
  <2>1. phase'[q] \in Approved => phase[q] \in Approved
    BY <1>4 DEF Start, ProbeEnds, ProbeSucceeds, ProbeFails, Enqueue, Enter, Wait, TypeOK,
       Approved
  <2>2. UNCHANGED <<snap, index>>
    BY <1>4 DEF Start, ProbeEnds, ProbeSucceeds, ProbeFails, Enqueue, workspace
  <2>3. QED
    BY <1>1, <2>1, <2>2
<1>5. ASSUME NEW r \in Runs, Resolve(r) \/ Merge(r) \/ BuildHistory(r) \/ HistoryFails(r)
      PROVE  Goal
  <2>1. phase'[r] \notin Approved /\ (q # r => phase'[q] = phase[q])
    BY <1>5 DEF Resolve, Merge, BuildHistory, HistoryFails, Advance, TypeOK, Approved
  <2>2. q # r /\ snap'[q] = snap[q] /\ index'[q] = index[q]
    BY <1>5, <2>1 DEF Resolve, Merge, BuildHistory, HistoryFails, TypeOK
  <2>3. QED
    BY <1>1, <2>1, <2>2
<1>6. ASSUME NEW r \in Runs, NEW outcome \in {"done", "failed"}, Finish(r, outcome) PROVE Goal
  <2>1. q # r /\ phase[q] \in Approved
    BY <1>6 DEF Finish, Approved
  <2>2. QED
    BY <1>1, <1>6, <2>1 DEF Finish, TypeOK
<1>7. ASSUME NEW r \in Runs, Bundle(r) PROVE Goal
  <2>1. CASE Replayable(r) /\ ready[r]
    <3>1. UNCHANGED workspace /\ phase' = [phase EXCEPT ![r] = "build"]
      BY <1>7, <2>1 DEF Bundle, Advance
    <3>2. CASE q = r
      BY <2>1, <3>1, <3>2 DEF workspace, Replayable, ValidIndex, AdmitsObservation, Recorded
    <3>3. CASE q # r
      BY <1>1, <3>1, <3>3 DEF workspace, TypeOK
    <3>4. QED
      BY <3>2, <3>3
  <2>2. CASE ~(Replayable(r) /\ ready[r])
    BY <1>6, <1>7, <2>2 DEF Bundle
  <2>3. QED
    BY <2>1, <2>2
<1>8. ASSUME NEW r \in Runs,
             Build(r) \/ Upload(r) \/ Verify(r) \/ CommitPointer(r) \/ ConfirmPointer(r)
      PROVE  Goal
  <2>1. phase[r] \in Approved
    BY <1>8 DEF Build, Upload, Verify, CommitPointer, ConfirmPointer, At, Approved
  <2>2. UNCHANGED workspace /\ (q # r => phase'[q] = phase[q])
    BY <1>8 DEF Build, Upload, Verify, CommitPointer, ConfirmPointer, Advance, TypeOK
  <2>3. QED
    BY <1>1, <2>1, <2>2 DEF workspace
<1>9. ASSUME NEW r \in Runs, Deploy(r) \/ Fail(r) PROVE Goal
  BY <1>6, <1>9 DEF Deploy, Fail
<1>10. QED
  BY <1>2, <1>3, <1>4, <1>5, <1>7, <1>8, <1>9 DEF Next, Step

(* What becomes the head was approved as a baseline before.                *)
LEMMA ValidStep == IInv /\ ValidInv /\ [Next]_vars => ValidInv'
<1> SUFFICES ASSUME IInv, ValidInv, [Next]_vars PROVE ValidInv'
  OBVIOUS
<1> USE DEF IInv
<1> DEFINE Goal == (pointer' # None => Valid(gens'[pointer'])) /\ Valid(site')
<1>1. ASSUME UNCHANGED public PROVE Goal
  BY <1>1 DEF public, ValidInv
<1>2. (UNCHANGED vars) => UNCHANGED public
  BY DEF vars, public
<1>3. Tick => UNCHANGED public
  BY DEF Tick
<1>4. ASSUME NEW r \in Runs,
             \/ Start(r) \/ ProbeEnds(r) \/ Enqueue(r) \/ Resolve(r) \/ Merge(r)
             \/ BuildHistory(r) \/ HistoryFails(r) \/ Bundle(r) \/ Build(r) \/ Verify(r)
             \/ ConfirmPointer(r) \/ Fail(r)
      PROVE  UNCHANGED public
  BY <1>4 DEF Start, ProbeEnds, ProbeSucceeds, ProbeFails, Enqueue, Resolve, Merge,
     BuildHistory, HistoryFails, Bundle, Build, Verify, ConfirmPointer, Fail
<1>5. ASSUME NEW r \in Runs, Upload(r) PROVE Goal
  <2>1. pointer # r
    BY <1>5 DEF Upload, At, RunInv, GenerationInv, Ended
  <2>2. pointer # None => gens'[pointer] = gens[pointer]
    BY <1>5, <2>1 DEF Upload, TypeOK
  <2>3. QED
    BY <1>5, <2>2 DEF Upload, ValidInv
<1>6. ASSUME NEW r \in Runs, CommitPointer(r) PROVE Goal
  <2>1. gens[r].snap = snap[r] /\ gens[r].index = index[r] /\ Replayable(r)
    BY <1>6 DEF CommitPointer, At, RunInv, GenerationInv, InArchive, Stored, ValidInv, Approved
  <2>2. UNCHANGED <<gens, site>> /\ pointer' = r
    BY <1>6 DEF CommitPointer
  <2>3. QED
    BY <2>1, <2>2 DEF ValidInv, Valid, Replayable
<1>7. ASSUME NEW r \in Runs, Deploy(r) PROVE Goal
  <2>1. Replayable(r) /\ UNCHANGED <<gens, pointer>>
        /\ site'.snap = snap[r] /\ site'.index = index[r]
    BY <1>7 DEF Deploy, At, ValidInv, Approved
  <2>2. QED
    BY <2>1 DEF ValidInv, Valid, Replayable
<1> HIDE DEF Goal
<1>8. Goal
  BY <1>1, <1>2, <1>3, <1>4, <1>5, <1>6, <1>7 DEF Next, Step
<1>9. \A r \in Runs : phase'[r] \in Approved => Replayable(r)'
  BY ReplayableStep
<1>10. QED
  BY <1>8, <1>9 DEF ValidInv, Goal

(* Whatever becomes the head of publication is a valid baseline.           *)
THEOREM ValidInvariance == Spec => []ValidInv
<1>1. IInv /\ IInv' /\ ValidInv /\ [Next]_vars => ValidInv'
  BY ValidStep
<1>2. QED
  BY Invariance, InitValid, <1>1, PTL DEF Spec

(* Whatever an operator overrides, the committed publication is one that   *)
(* the next redeploy can bundle again and that recovery can replay.        *)
THEOREM CommittedSafe == Spec => []CommittedReplayable
<1>1. ValidInv => CommittedReplayable
  BY DEF ValidInv, Valid, CommittedReplayable, Committed, Published, Head
<1>2. QED
  BY ValidInvariance, <1>1, PTL
-----------------------------------------------------------------------------
(* The candidate is built on what is committed *)

(* At first no run works on a candidate.                                   *)
LEMMA InitBase == Init => \A r \in Runs : BaseInv(r)
BY DEF Init, BaseInv, Preparing, Resolved

(* A step that changes neither a run nor what is committed leaves the      *)
(* run's candidate as it is.                                               *)
LEMMA BaseUndisturbed ==
    ASSUME NEW q \in Runs, BaseInv(q), phase'[q] = phase[q], source'[q] = source[q],
           snap'[q] = snap[q], index'[q] = index[q], ready'[q] = ready[q],
           shards'[q] = shards[q], Head' = Head, Committed' = Committed,
           UNCHANGED pointer
    PROVE  BaseInv(q)'
BY DEF BaseInv, Preparing, Extended, Overlays

(* Outside the resolved steps there is nothing to show but that the history *)
(* step has not succeeded yet.                                             *)
LEMMA BaseIdle ==
    ASSUME NEW q \in Runs, phase'[q] \in Waiting \cup {"sources"} \cup Ended,
           phase'[q] \notin Ended => ~ready'[q]
    PROVE  BaseInv(q)'
BY DEF BaseInv, Preparing, Resolved, Waiting, Ended

(* Every step keeps each candidate an extension of what is committed.      *)
LEMMA BaseStep ==
    ASSUME NoOverride, IInv, IInv', [Next]_vars, \A r \in Runs : BaseInv(r),
           NEW q \in Runs
    PROVE  BaseInv(q)'
<1> USE DEF IInv
<1> DEFINE Quiet == \A r \in Runs : ~CommitPointer(r) /\ (ArchiveMode \/ ~Deploy(r))
<1>1. Quiet => Head' = Head /\ Committed' = Committed
  BY HeadStep
<1>2. CASE UNCHANGED vars
  BY <1>2, BaseUndisturbed DEF vars, Head, Committed, Published
<1>3. CASE Tick
  BY <1>3, BaseUndisturbed DEF Tick, workspace, public, Head, Committed, Published
<1>4. ASSUME NEW r \in Runs, Start(r) \/ ProbeEnds(r) \/ Enqueue(r) PROVE BaseInv(q)'
  <2>1. Head' = Head /\ Committed' = Committed /\ UNCHANGED pointer
    BY <1>4 DEF Start, ProbeEnds, ProbeSucceeds, ProbeFails, Enqueue, public, Head,
       Committed, Published
  <2>2. UNCHANGED <<source, snap, index, ready>>
    BY <1>4 DEF Start, ProbeEnds, ProbeSucceeds, ProbeFails, Enqueue, workspace
  <2>3. q # r => shards'[q] = shards[q]
    BY <1>4 DEF Start, ProbeEnds, ProbeSucceeds, ProbeFails, Enqueue, workspace, TypeOK
  <2>4. phase[r] \in Waiting /\ phase'[r] \in Waiting \cup {"sources"} \cup Ended
    BY <1>4 DEF Start, ProbeEnds, ProbeSucceeds, ProbeFails, Enqueue, Enter, Wait, TypeOK,
       Waiting, Ended
  <2>5. CASE q = r
    <3>1. ~ready[q] /\ ready'[q] = ready[q]
      BY <2>2, <2>4, <2>5 DEF BaseInv
    <3>2. QED
      BY <3>1, <2>4, <2>5, BaseIdle
  <2>6. CASE q # r /\ phase'[q] = phase[q]
    BY <2>1, <2>2, <2>3, <2>6, BaseUndisturbed
  <2>7. CASE q # r /\ phase'[q] # phase[q]
    <3>1. phase'[q] = "cancelled"
      BY <1>4, <2>7 DEF Start, ProbeEnds, ProbeSucceeds, ProbeFails, Enqueue, Enter, Wait,
         TypeOK
    <3>2. QED
      BY <3>1, BaseIdle DEF Ended
  <2>8. QED
    BY <2>5, <2>6, <2>7
<1>5. ASSUME NEW r \in Runs, phase[r] \in Inside, NEW outcome \in {"done", "failed"},
             Finish(r, outcome)
      PROVE  BaseInv(q)'
  <2>0. lock = r /\ pending # r /\ (pending # None => phase[pending] = "queued")
    BY <1>5, RunAssumption DEF GroupInv, Inside, Origins, Places
  <2>1. CASE q = r
    <3>1. phase'[q] = outcome
      BY <1>5, <2>0, <2>1 DEF Finish
    <3>2. QED
      BY <3>1, BaseIdle DEF Ended
  <2>2. CASE q # r
    <3>1. lock = r /\ pending # r /\ (pending # None => phase[pending] = "queued")
      BY <2>0
    <3>2. phase'[q] = IF q = pending THEN "sources" ELSE phase[q]
      BY <1>5, <2>2 DEF Finish
    <3>3. phase[q] \notin Inside /\ ready'[q] = ready[q]
      BY <1>5, <2>2, <3>1 DEF GroupInv, Finish, TypeOK
    <3>4. phase'[q] \in Waiting \cup {"sources"} \cup Ended
      BY <3>2, <3>3 DEF TypeOK
    <3>5. phase'[q] \notin Ended => ~ready[q]
      BY <3>1, <3>2, <3>3, RunAssumption
         DEF TypeOK, BaseInv, Waiting, Ended, Origins, Places
    <3>6. QED
      BY <3>3, <3>4, <3>5, BaseIdle
  <2>3. QED
    BY <2>1, <2>2
<1>6. ASSUME NEW r \in Runs, phase[r] \in Inside, NEW step \in Inside, Advance(r, step),
             UNCHANGED ready \/ BuildHistory(r), q # r
      PROVE  BaseInv(q)'
  <2>1. phase'[q] = phase[q] /\ phase[q] \notin Inside /\ ready'[q] = ready[q]
    BY <1>6 DEF Advance, TypeOK, GroupInv, BuildHistory
  <2>2. phase'[q] \in Waiting \cup Ended
    BY <2>1 DEF TypeOK
  <2>3. phase'[q] \notin Ended => ~ready[q]
    BY <2>1, <2>2 DEF BaseInv
  <2>4. QED
    BY <2>1, <2>2, <2>3, BaseIdle
<1>7. ASSUME NEW r \in Runs, Resolve(r) PROVE BaseInv(q)'
  <2>1. phase[r] = "sources" /\ Advance(r, "merge") /\ phase'[r] = "merge"
    BY <1>7 DEF Resolve, At, Advance, TypeOK
  <2>2. Head' = Head /\ UNCHANGED ready
    BY <1>7 DEF Resolve, public, Head
  <2>3. source'[r] = [o \in Sources |-> Head]
    BY <1>7 DEF Resolve, NoOverride, TypeOK
  <2>4. CASE q = r
    BY <2>1, <2>2, <2>3, <2>4 DEF BaseInv, Preparing, Merged, Resolved, Approved, Waiting
  <2>5. QED
    BY <2>1, <2>2, <2>4, <1>6 DEF Inside
<1>8. ASSUME NEW r \in Runs, Merge(r) PROVE BaseInv(q)'
  <2>1. phase[r] = "merge" /\ Advance(r, "history") /\ phase'[r] = "history"
    BY <1>8 DEF Merge, At, Advance, TypeOK
  <2>2. Head' = Head /\ Committed' = Committed /\ UNCHANGED <<ready, source, shards>>
    BY <1>8 DEF Merge, public, Head, Committed, Published
  <2>3. source[r] = [o \in Sources |-> Head]
    BY <2>1 DEF BaseInv, Preparing, Resolved
  <2>4. snap'[r] = MergeShards(Committed.snap, Overlays(r)) /\ Overlays(r)' = Overlays(r)
    BY <1>8, <2>2, <2>3 DEF Merge, Committed, Sources, TypeOK, Overlays
  <2>5. CASE q = r
    BY <2>1, <2>2, <2>3, <2>4, <2>5 DEF BaseInv, Preparing, Resolved, Approved, Waiting
  <2>6. QED
    BY <2>1, <2>2, <2>5, <1>6 DEF Inside
<1>9. ASSUME NEW r \in Runs, BuildHistory(r) \/ HistoryFails(r) PROVE BaseInv(q)'
  <2>1. phase[r] = "history" /\ Advance(r, "bundle") /\ phase'[r] = "bundle"
    BY <1>9 DEF BuildHistory, HistoryFails, At, Advance, TypeOK
  <2>2. /\ Head' = Head /\ Committed' = Committed /\ UNCHANGED <<source, shards, snap>>
        /\ HistoryFails(r) => UNCHANGED ready
    BY <1>9 DEF BuildHistory, HistoryFails, public, Head, Committed, Published
  <2>3. source[r] = [o \in Sources |-> Head] /\ ~ready[r]
    BY <2>1 DEF BaseInv, Preparing, Resolved
  <2>4. ready'[r] => index'[r] = Extended(r)
    BY <1>9, <2>2, <2>3 DEF BuildHistory, CandidateIndex, FetchedIndex, Extended, Committed,
       Sources, TypeOK
  <2>5. CASE q = r
    BY <2>1, <2>2, <2>3, <2>4, <2>5
       DEF BaseInv, Preparing, Resolved, Merged, Approved, Waiting, Extended, Overlays
  <2>6. QED
    BY <1>9, <2>1, <2>2, <2>5, <1>6 DEF Inside
<1>10. ASSUME NEW r \in Runs, Bundle(r) PROVE BaseInv(q)'
  <2>1. phase[r] = "bundle"
    BY <1>10 DEF Bundle, At
  <2>2. CASE Replayable(r) /\ ready[r]
    <3>1. Advance(r, "build") /\ phase'[r] = "build"
      BY <1>10, <2>2 DEF Bundle, Advance, TypeOK
    <3>2. Head' = Head /\ Committed' = Committed /\ UNCHANGED workspace
      BY <1>10, <2>2 DEF Bundle, public, Head, Committed, Published
    <3>3. CASE q = r
      BY <2>1, <2>2, <3>1, <3>2, <3>3
         DEF workspace, BaseInv, Preparing, Resolved, Merged, Approved, Waiting, Extended, Overlays
    <3>4. QED
      BY <2>1, <3>1, <3>2, <3>3, <1>6 DEF Inside, workspace
  <2>3. CASE ~(Replayable(r) /\ ready[r])
    BY <1>5, <1>10, <2>1, <2>3 DEF Bundle, Inside
  <2>4. QED
    BY <2>2, <2>3
<1>11. ASSUME NEW r \in Runs, Build(r) PROVE BaseInv(q)'
  <2> DEFINE step == IF ArchiveMode THEN "upload" ELSE "deploy"
  <2>1. phase[r] = "build" /\ Advance(r, step) /\ phase'[r] = step
    BY <1>11 DEF Build, At, Advance, TypeOK
  <2>2. Head' = Head /\ Committed' = Committed /\ UNCHANGED workspace
    BY <1>11 DEF Build, public, Head, Committed, Published
  <2>3. CASE q = r
    BY <2>1, <2>2, <2>3
       DEF workspace, BaseInv, Preparing, Resolved, Merged, Approved, Waiting, Extended, Overlays
  <2>4. QED
    BY <2>1, <2>2, <2>3, <1>6 DEF Inside, workspace
<1>12. ASSUME NEW r \in Runs, Upload(r) \/ Verify(r) PROVE BaseInv(q)'
  <2>1. PICK step \in {"verify", "pointer"} :
          phase[r] \in {"upload", "verify"} /\ Advance(r, step) /\ phase'[r] = step
    BY <1>12 DEF Upload, Verify, At, Advance, TypeOK
  <2>2. Quiet
    <3>1. lock = r
      BY <2>1 DEF GroupInv, Inside
    <3>2. \A p \in Runs : phase[p] \notin {"pointer", "deploy"}
      BY <2>1, <3>1 DEF GroupInv, Inside
    <3>3. QED
      BY <3>2 DEF CommitPointer, Deploy, At
  <2>3. Head' = Head /\ Committed' = Committed /\ UNCHANGED workspace
    BY <1>1, <1>12, <2>2 DEF Upload, Verify
  <2>4. CASE q = r
    BY <2>1, <2>3, <2>4
       DEF workspace, BaseInv, Preparing, Resolved, Merged, Approved, Waiting, Extended, Overlays
  <2>5. QED
    BY <2>1, <2>3, <2>4, <1>6 DEF Inside, workspace
<1>13. ASSUME NEW r \in Runs, CommitPointer(r) \/ ConfirmPointer(r) PROVE BaseInv(q)'
  <2>1. PICK step \in {"confirm", "deploy"} :
          /\ phase[r] \in {"pointer", "confirm"} /\ Advance(r, step) /\ phase'[r] = step
          /\ ArchiveMode /\ pointer' = r /\ UNCHANGED ready
    BY <1>13 DEF CommitPointer, ConfirmPointer, At, Advance, TypeOK, BaseInv, workspace, public
  <2>2. CASE q = r
    BY <2>1, <2>2 DEF BaseInv, Preparing, Resolved, Merged, Approved, Waiting
  <2>3. QED
    BY <2>1, <2>2, <1>6 DEF Inside
<1>14. ASSUME NEW r \in Runs, Deploy(r) \/ Fail(r) PROVE BaseInv(q)'
  BY <1>5, <1>14 DEF Deploy, Fail, At, Inside
<1>15. QED
  BY <1>2, <1>3, <1>4, <1>7, <1>8, <1>9, <1>10, <1>11, <1>12, <1>13, <1>14 DEF Next, Step
-----------------------------------------------------------------------------
(* How the committed publication changes *)

(* A run has evidence only of the modalities it probes. *)
ShardInv == \A r \in Runs : /\ todo[r] \subseteq Probes[r]
                            /\ \A m \in Modalities \ Probes[r] : shards[r][m] = NoEvidence

(* A run never has evidence of modalities that it does not probe.          *)
LEMMA ShardInvariance == Spec => []ShardInv
<1>1. Init => ShardInv
  BY RunAssumption DEF Init, ShardInv, NoShards
<1>2. TypeOK /\ ShardInv /\ [Next]_vars => ShardInv'
  <2> SUFFICES ASSUME TypeOK, ShardInv, [Next]_vars PROVE ShardInv'
    OBVIOUS
  <2> USE DEF TypeOK, ShardInv
  <2>1. CASE UNCHANGED vars
    BY <2>1 DEF vars
  <2>2. CASE Tick
    BY <2>2 DEF Tick, workspace
  <2>3. ASSUME NEW r \in Runs, Start(r) \/ Enqueue(r) PROVE ShardInv'
    BY <2>3 DEF Start, Enqueue, probing, workspace
  <2>4. ASSUME NEW r \in Runs, NEW m \in Modalities, ProbeSucceeds(r, m) PROVE ShardInv'
    BY <2>4 DEF ProbeSucceeds, Shards
  <2>5. ASSUME NEW r \in Runs, NEW m \in Modalities, ProbeFails(r, m) PROVE ShardInv'
    <3>1. CASE r \in Daily
      BY <2>5, <3>1 DEF ProbeFails
    <3>2. CASE r \notin Daily
      <4>1. /\ todo' = [todo EXCEPT ![r] = {}]
            /\ shards' = [shards EXCEPT ![r] = NoShards]
        BY <2>5, <3>2 DEF ProbeFails
      <4>2. \A q \in Runs : todo'[q] \subseteq Probes[q]
        BY <4>1
      <4>3. \A q \in Runs : shards'[q] = IF q = r THEN NoShards ELSE shards[q]
        BY <4>1
      <4>4. \A n \in Modalities : NoShards[n] = NoEvidence
        BY DEF NoShards
      <4>5. QED
        BY <4>2, <4>3, <4>4
    <3>3. QED
      BY <3>1, <3>2
  <2>6. ASSUME NEW r \in Runs, NEW outcome \in {"done", "failed"}, Finish(r, outcome),
               UNCHANGED todo
        PROVE  ShardInv'
    BY <2>6 DEF Finish, NoShards
  <2>7. ASSUME NEW r \in Runs,
               \/ Resolve(r) \/ Merge(r) \/ BuildHistory(r) \/ HistoryFails(r) \/ Build(r)
               \/ Upload(r) \/ Verify(r) \/ CommitPointer(r) \/ ConfirmPointer(r)
        PROVE  ShardInv'
    BY <2>7 DEF Resolve, Merge, BuildHistory, HistoryFails, Build, Upload, Verify,
       CommitPointer, ConfirmPointer, probing, workspace
  <2>8. ASSUME NEW r \in Runs, Bundle(r) \/ Deploy(r) \/ Fail(r) PROVE ShardInv'
    <3>1. UNCHANGED <<todo, shards>> => ShardInv'
      OBVIOUS
    <3>2. QED
      BY <2>6, <2>8, <3>1 DEF Bundle, Deploy, Fail, probing, workspace
  <2>9. QED
    BY <2>1, <2>2, <2>3, <2>4, <2>5, <2>7, <2>8 DEF Next, ProbeEnds, Step
<1>3. QED
  BY <1>1, <1>2, TypeCorrect, PTL DEF Spec

(* Merging no shards, as a redeploy does, gives back the snapshot. *)
LEMMA MergeNothing ==
    ASSUME NEW base \in Snapshots, NEW s \in Shards,
           \A m \in Modalities : s[m] = NoEvidence
    PROVE  MergeShards(base, s) = base
<1>1. Present(s) = {}
  BY DEF Present
<1>2. base = [ts |-> base.ts, probed |-> [m \in Modalities |-> base.probed[m]]]
  BY DEF Snapshots, Shards
<1>3. QED
  BY <1>1, <1>2 DEF MergeShards

(* Without overrides, every candidate extends what is committed.           *)
Built == IInv /\ ValidInv /\ ShardInv /\ \A r \in Runs : BaseInv(r)

(* The candidates of all runs are built on what is committed.              *)
LEMMA BuiltInvariance ==
    ASSUME NoOverride PROVE Spec => []Built
<1>1. IInv /\ IInv' /\ (\A r \in Runs : BaseInv(r)) /\ [Next]_vars
        => (\A r \in Runs : BaseInv(r))'
  BY BaseStep
<1>2. QED
  BY Invariance, ValidInvariance, ShardInvariance, InitBase, <1>1, PTL DEF Spec, Built

(* The head of publication is typed and valid. *)
LEMMA CommittedType ==
    ASSUME Built
    PROVE  Committed.snap \in Snapshots /\ Committed.index \in Indexes /\ Valid(Committed)
<1>1. Committed.snap \in Snapshots /\ Committed.index \in Indexes
  BY HeadReadable, PublishedType DEF Built, IInv, Committed
<1>2. Valid(Committed)
  BY DEF Built, ValidInv, Valid, Committed, Published, Head
<1>3. QED
  BY <1>1, <1>2

(* Run r commits what it merged and filed, once that was found replayable. *)
Extends(r) == /\ Committed'.snap = snap[r] /\ Committed'.index = index[r]
              /\ snap[r] = MergeShards(Committed.snap, Overlays(r))
              /\ index[r] = UpdateIndex(Committed.index, snap[r])
              /\ Replayable(r) /\ snap[r] \in Snapshots

(* What is committed only changes by a run that commits its candidate.     *)
LEMMA CommitExtends ==
    ASSUME Built, Built', [Next]_vars
    PROVE  Committed' = Committed \/ \E r \in Runs : Extends(r)
<1> USE DEF Built, IInv
<1>1. CASE \A r \in Runs : ~CommitPointer(r) /\ (ArchiveMode \/ ~Deploy(r))
  BY <1>1, HeadStep
<1>2. ASSUME NEW r \in Runs, CommitPointer(r) \/ (Deploy(r) /\ ~ArchiveMode)
      PROVE  Committed' = [snap |-> snap[r], index |-> index[r]]
  <2>1. CASE CommitPointer(r)
    <3>1. /\ gens[r].snap = snap[r] /\ gens[r].index = index[r] /\ ArchiveMode
          /\ pointer' = r /\ gens' = gens
      BY <2>1 DEF CommitPointer, At, RunInv, GenerationInv, InArchive, Stored, BaseInv
    <3>2. r # None /\ r # Site
      BY RunAssumption DEF Origins, Places
    <3>3. QED
      BY <3>1, <3>2 DEF Committed, Published, Head
  <2>2. CASE Deploy(r) /\ ~ArchiveMode
    BY <2>2 DEF Deploy, Committed, Published, Head
  <2>3. QED
    BY <1>2, <2>1, <2>2
<1>3. ASSUME NEW r \in Runs, CommitPointer(r) \/ (Deploy(r) /\ ~ArchiveMode)
      PROVE  Committed' = Committed \/ Extends(r)
  <2>1. /\ snap[r] = MergeShards(Committed.snap, Overlays(r)) /\ index[r] = Extended(r)
        /\ Replayable(r)
    <3>1. phase[r] = "pointer" \/ (phase[r] = "deploy" /\ ~ArchiveMode)
      BY <1>3 DEF CommitPointer, Deploy, At
    <3>2. BaseInv(r) /\ Preparing(r) /\ phase[r] \in Merged /\ phase[r] \in Approved
      BY <3>1 DEF Preparing, Resolved, Merged, Approved
    <3>3. QED
      BY <3>2 DEF BaseInv, ValidInv
  <2>2. CASE r \in UpdatesHistory
    <3>1. snap[r] \in Snapshots
      BY <2>1, CommittedType, OverlaysType, MergeShardsType
    <3>2. QED
      BY <1>2, <1>3, <2>1, <2>2, <3>1 DEF Extended, Extends
  <2>3. CASE r \notin UpdatesHistory
    <3>1. Probes[r] = {} /\ r \in Rebuilds
      BY <2>3, RunAssumption DEF Rebuilds
    <3>2. snap[r] = Committed.snap
      <4>1. shards[r] \in Shards /\ \A m \in Modalities : shards[r][m] = NoEvidence
        BY <3>1 DEF ShardInv, TypeOK
      <4>2. Overlays(r) = shards[r]
        BY <3>1 DEF Overlays
      <4>3. QED
        BY <2>1, <4>1, <4>2, CommittedType, MergeNothing
    <3>3. QED
      BY <1>2, <1>3, <2>1, <2>3, <3>2 DEF Extended, Committed
  <2>4. QED
    BY <2>2, <2>3
<1>4. QED
  BY <1>1, <1>3

(* What is committed has a day that no snapshot of the repository reaches. *)
Recent == \E d \in Recorded(Committed.index) : DayOf[First] <= d

(* The days of the committed history only become more.                     *)
LEMMA RecentInvariance ==
    ASSUME NoOverride PROVE Spec => []Recent
<1>1. Init => Recent
  <2> SUFFICES ASSUME Init PROVE Recent
    OBVIOUS
  <2>1. PICK s \in Baseline :
          /\ pointer \in (IF ArchiveMode THEN {None, Genesis} ELSE {None})
          /\ gens = [p \in Places |->
                IF p = pointer
                THEN [snap |-> s,
                      index |-> [days   |-> [d \in Dates |-> IF d = DayOf[s.ts] THEN s ELSE NoDay],
                                 latest |-> DayOf[s.ts]],
                      intact |-> TRUE]
                ELSE None]
          /\ site = [snap  |-> s,
                     index |-> [days   |-> [d \in Dates |-> IF d = DayOf[s.ts] THEN s ELSE NoDay],
                                latest |-> DayOf[s.ts]],
                     base  |-> pointer]
    BY DEF Init
  <2>2. Committed.index.days = [d \in Dates |-> IF d = DayOf[s.ts] THEN s ELSE NoDay]
    BY <2>1 DEF Committed, Published, Head, Places
  <2>3. s.ts = First /\ s # NoDay /\ DayOf[First] \in Dates /\ DayOf[First] \in Nat
    BY SampleAssumption, DateAssumption, NoDayAssumption DEF Baseline
  <2>4. DayOf[First] \in Recorded(Committed.index)
    BY <2>2, <2>3 DEF Recorded
  <2>5. QED
    BY <2>3, <2>4 DEF Recent
<1>2. Built /\ Built' /\ Recent /\ [Next]_vars => Recent'
  <2> SUFFICES ASSUME Built, Built', Recent, [Next]_vars PROVE Recent'
    OBVIOUS
  <2>1. ASSUME NEW r \in Runs, Extends(r) PROVE Recorded(Committed.index) \subseteq Recorded(Committed'.index)
    <3>1. Committed.index \in Indexes /\ ValidIndex(Committed.index)
      BY CommittedType DEF Valid
    <3>2. snap[r] \in Snapshots /\ ValidIndex(UpdateIndex(Committed.index, snap[r]))
      BY <2>1 DEF Extends, Replayable
    <3>3. QED
      BY <2>1, <3>1, <3>2, UpdateFreezesPast DEF Extends
  <2>2. QED
    BY <2>1, CommitExtends DEF Recent
<1>3. QED
  BY BuiltInvariance, <1>1, <1>2, PTL DEF Spec

(* All that is known of a reachable state when no source is overridden. *)
Known == Built /\ Recent

(* Without overrides, all of this is known of every reachable state.       *)
THEOREM KnownInvariance ==
    ASSUME NoOverride PROVE Spec => []Known
BY BuiltInvariance, RecentInvariance, PTL DEF Known

(* A history that has a recent day cannot be replayed once the sample,     *)
(* filed under its own date, is called its latest day.                     *)
LEMMA SampleRefused ==
    ASSUME NEW base \in Snapshots, NEW i \in Indexes, ValidIndex(i),
           NEW d \in Recorded(i), DayOf[First] <= d
    PROVE  ~ValidIndex(UpdateIndex(i, MergeShards(base, Sample)))
<1> DEFINE s == MergeShards(base, Sample)
           u == UpdateIndex(i, s)
<1>1. s.ts = Sample[LastOverlay(Sample)] /\ LastOverlay(Sample) \in Present(Sample)
  BY SampleAssumption, LastOverlayPresent DEF MergeShards
<1>2. s \in Snapshots /\ s.ts \in Time /\ First \in Time /\ DayOf[s.ts] < DayOf[First]
  BY <1>1, SampleAssumption, MergeShardsType DEF Snapshots
<1> HIDE DEF s
<1>3. /\ DayOf[s.ts] \in Nat /\ DayOf[First] \in Nat /\ d \in Nat /\ d \in Dates
      /\ DayOf[s.ts] \in Dates
  BY <1>2, DateAssumption DEF Recorded
<1>4. d # DayOf[s.ts]
  BY <1>2, <1>3
<1>5. u.days[d] = i.days[d] /\ u.days[DayOf[s.ts]] = s /\ u.latest = DayOf[s.ts]
  BY <1>3, <1>4 DEF UpdateIndex, Indexes
<1>6. d \in Recorded(u) /\ i.days[d] \in Snapshots /\ DayOf[i.days[d].ts] = d
  BY <1>3, <1>5 DEF Recorded, Indexes, ValidIndex
<1>7. SUFFICES ASSUME ValidIndex(u) PROVE FALSE
  BY DEF s
<1>8. i.days[d].ts <= s.ts
  BY <1>5, <1>6, <1>7 DEF ValidIndex
<1>9. i.days[d].ts \in Time
  BY <1>6 DEF Snapshots
<1>10. d <= DayOf[s.ts]
  BY <1>2, <1>6, <1>8, <1>9, DateAssumption
<1>11. QED
  BY <1>2, <1>3, <1>10

(* What a commit of run r does to the committed publication. *)
Commits(r) == /\ Committed'.snap = MergeShards(Committed.snap, shards[r])
              /\ Committed'.index = UpdateIndex(Committed.index, Committed'.snap)

(* What is committed only changes by a run that commits its own shards.    *)
LEMMA CommitStep ==
    ASSUME Known, Known', [Next]_vars
    PROVE  Committed' = Committed \/ \E r \in Runs : Commits(r)
<1>1. ASSUME NEW r \in Runs, Extends(r) PROVE Commits(r)
  <2>1. CASE Overlays(r) = shards[r]
    BY <1>1, <2>1 DEF Extends, Commits
  <2>2. CASE Overlays(r) = Sample
    <3>1. /\ Committed.snap \in Snapshots /\ Committed.index \in Indexes
          /\ ValidIndex(Committed.index)
      BY CommittedType DEF Known, Valid
    <3>2. ValidIndex(UpdateIndex(Committed.index, MergeShards(Committed.snap, Sample)))
      BY <1>1, <2>2 DEF Extends, Replayable
    <3>3. QED
      BY <3>1, <3>2, SampleRefused DEF Known, Recent
  <2>3. QED
    BY <2>1, <2>2 DEF Overlays
<1>2. QED
  BY <1>1, CommitExtends DEF Known

-----------------------------------------------------------------------------
(* No run overwrites what another one committed meanwhile: the committed   *)
(* snapshot only ever changes by one run's shards.                         *)
THEOREM NoUpdateLost ==
    ASSUME NoOverride PROVE Spec => NoLostUpdate
<1>1. Known /\ Known' /\ [Next]_vars =>
        [Committed'.snap # Committed.snap =>
           \E r \in Runs : Committed'.snap = MergeShards(Committed.snap, shards[r])]_vars
  BY CommitStep DEF Commits
<1>2. QED
  BY KnownInvariance, <1>1, PTL DEF Spec, NoLostUpdate

Frozen == /\ Recorded(Committed.index) \subseteq Recorded(Committed'.index)
          /\ Committed.index.latest <= Committed'.index.latest
          /\ \A d \in Dates : d < Committed.index.latest =>
                Committed'.index.days[d] = Committed.index.days[d]

(* No step rewrites the past.                                              *)
LEMMA FrozenStep == Known /\ Known' /\ [Next]_vars => Frozen
<1> SUFFICES ASSUME Known, Known', [Next]_vars PROVE Frozen
  OBVIOUS
<1>1. Committed.index \in Indexes /\ ValidIndex(Committed.index)
  BY CommittedType DEF Known, Valid
<1>2. ValidIndex(Committed'.index)
  BY DEF Known, Built, ValidInv, Valid, Committed, Published, Head
<1>3. CASE Committed' = Committed
  <2>1. Committed.index.latest \in Nat
    BY <1>1, DateAssumption DEF Indexes
  <2>2. Committed.index.latest <= Committed.index.latest
    BY <2>1
  <2>3. QED
    BY <1>3, <2>2 DEF Frozen
<1>4. ASSUME NEW r \in Runs, Commits(r) PROVE Frozen
  <2>1. Committed'.snap \in Snapshots
    BY <1>4, CommittedType, MergeShardsType DEF Commits, Known, Built, IInv, TypeOK
  <2>2. QED
    BY <1>1, <1>2, <1>4, <2>1, UpdateFreezesPast DEF Commits, Frozen
<1>5. QED
  BY <1>3, <1>4, CommitStep

(* A committed day is never dropped, and no day before the newest one is   *)
(* ever rewritten.                                                         *)
THEOREM PastFrozen ==
    ASSUME NoOverride PROVE Spec => PastDaysFrozen
<1>1. Known /\ Known' /\ [Next]_vars => [Frozen]_vars
  BY FrozenStep
<1>2. QED
  BY KnownInvariance, <1>1, PTL DEF Spec, PastDaysFrozen, Frozen
-----------------------------------------------------------------------------
(* What readers see, for the refinement of PublishedHistory.               *)
Live == [snap |-> site.snap, index |-> site.index]

(* PublishedHistory has HistoryIndex from the same constants.              *)
LEMMA PromiseOperators ==
    /\ Promise!Snapshots = Snapshots /\ Promise!Indexes = Indexes /\ Promise!Shards = Shards
    /\ \A i : Promise!ValidIndex(i) <=> ValidIndex(i)
    /\ \A i, s : Promise!AdmitsObservation(i, s) <=> AdmitsObservation(i, s)
    /\ \A i, s : Promise!UpdateIndex(i, s) = UpdateIndex(i, s)
    /\ \A b, s : Promise!MergeShards(b, s) = MergeShards(b, s)
<1>1. /\ Promise!Time = Time /\ Promise!NoEvidence = NoEvidence
      /\ Promise!Shards = Shards /\ Promise!Snapshots = Snapshots
      /\ Promise!Indexes = Indexes
  BY DEF Promise!Time, Time, Promise!NoEvidence, NoEvidence, Promise!Shards, Shards,
     Promise!Snapshots, Snapshots, Promise!Indexes, Indexes
<1>2. \A i : Promise!Recorded(i) = Recorded(i)
  BY DEF Promise!Recorded, Recorded
<1>3. \A i : Promise!ValidIndex(i) <=> ValidIndex(i)
  BY <1>2 DEF Promise!ValidIndex, ValidIndex
<1>4. \A i, s : Promise!AdmitsObservation(i, s) <=> AdmitsObservation(i, s)
  BY <1>2 DEF Promise!AdmitsObservation, AdmitsObservation
<1>5. \A i, s : Promise!UpdateIndex(i, s) = UpdateIndex(i, s)
  BY DEF Promise!UpdateIndex, UpdateIndex
<1>6. \A s : Promise!Present(s) = Present(s) /\ Promise!LastOverlay(s) = LastOverlay(s)
  BY <1>1 DEF Promise!Present, Present, Promise!LastOverlay, LastOverlay
<1>7. \A b, s : Promise!MergeShards(b, s) = MergeShards(b, s)
  BY <1>6 DEF Promise!MergeShards, MergeShards
<1>8. QED
  BY <1>1, <1>3, <1>4, <1>5, <1>7

(* The first publication is one that the promise may start with.           *)
LEMMA InitPromise == Init => Promise!Init /\ SnapshotIsLatestDay
<1> SUFFICES ASSUME Init PROVE Promise!Init /\ SnapshotIsLatestDay
  OBVIOUS
<1>1. IInv /\ ValidInv
  BY InitIInv, InitValid
<1>2. Committed = Live
  BY DEF Init, Committed, Published, Head, Live, Places
<1>3. Committed.snap \in Snapshots /\ Committed.index \in Indexes
  BY <1>1, HeadReadable, PublishedType DEF IInv, Committed
<1>4. Valid(Committed)
  BY <1>1 DEF ValidInv, Valid, Committed, Published, Head
<1>5. SnapshotIsLatestDay
  <2>1. PICK s \in Baseline :
          site = [snap  |-> s,
                  index |-> [days   |-> [d \in Dates |-> IF d = DayOf[s.ts] THEN s ELSE NoDay],
                             latest |-> DayOf[s.ts]],
                  base  |-> pointer]
    BY DEF Init
  <2>2. DayOf[s.ts] \in Dates
    BY DateAssumption DEF Baseline, Snapshots
  <2>3. site.index.days[site.index.latest] = site.snap
    BY <2>1, <2>2
  <2>4. Committed.snap = site.snap /\ Committed.index = site.index
    BY <1>2 DEF Live
  <2>5. QED
    BY <2>3, <2>4 DEF SnapshotIsLatestDay
<1>6. Committed \in [snap : Snapshots, index : Indexes]
  BY <1>3 DEF Committed
<1>7. QED
  BY <1>2, <1>4, <1>5, <1>6, PromiseOperators
     DEF Promise!Init, Promise!Publications, Promise!Sound, Valid, SnapshotIsLatestDay, Live

(* A commit files the committed snapshot as the newest day.                *)
LEMMA LatestStep ==
    ASSUME Known, Known', [Next]_vars, SnapshotIsLatestDay
    PROVE  SnapshotIsLatestDay'
<1>1. CASE Committed' = Committed
  BY <1>1 DEF SnapshotIsLatestDay
<1>2. ASSUME NEW r \in Runs, Commits(r) PROVE SnapshotIsLatestDay'
  <2>1. Committed'.snap \in Snapshots /\ Committed.index \in Indexes
    BY <1>2, CommittedType, MergeShardsType DEF Commits, Known, Built, IInv, TypeOK
  <2>2. DayOf[Committed'.snap.ts] \in Dates
    BY <2>1, DateAssumption DEF Snapshots
  <2>3. QED
    BY <1>2, <2>1, <2>2 DEF Commits, UpdateIndex, SnapshotIsLatestDay, Indexes
<1>3. QED
  BY <1>1, <1>2, CommitStep

(* When the site changes it shows what is committed after the step.        *)
LEMMA LiveStep ==
    ASSUME Known, Known', [Next]_vars
    PROVE  Live' \in {Live, Committed'}
<1> USE DEF Known, Built, IInv
<1>1. ASSUME NEW r \in Runs, Deploy(r) PROVE Live' = Committed'
  <2>1. Live' = [snap |-> snap[r], index |-> index[r]] /\ UNCHANGED <<gens, pointer>>
    BY <1>1 DEF Deploy, Live
  <2>2. CASE ArchiveMode
    <3>1. pointer = r /\ gens[r].snap = snap[r] /\ gens[r].index = index[r]
      BY <1>1, <2>2 DEF Deploy, At, BaseInv, RunInv, GenerationInv, InArchive, Stored
    <3>2. r # None /\ r # Site
      BY RunAssumption DEF Origins, Places
    <3>3. QED
      BY <2>1, <2>2, <3>1, <3>2 DEF Committed, Published, Head
  <2>3. CASE ~ArchiveMode
    BY <1>1, <2>3 DEF Live, Committed, Published, Head
  <2>4. QED
    BY <2>2, <2>3 DEF TypeOK
<1>2. CASE UNCHANGED site
  BY <1>2 DEF Live
<1>3. CASE \A r \in Runs : ~Deploy(r)
  <2>1. UNCHANGED site
    BY <1>3 DEF Next, Step, vars, Tick, Start, ProbeEnds, ProbeSucceeds, ProbeFails,
       Enqueue, Resolve, Merge, BuildHistory, HistoryFails, Bundle, Build, Upload, Verify,
       CommitPointer, ConfirmPointer, Fail, public
  <2>2. QED
    BY <1>2, <2>1
<1>4. QED
  BY <1>1, <1>3

(* Every step commits, reveals, or changes nothing that readers see.       *)
LEMMA PromiseStep ==
    ASSUME Known, Known', [Next]_vars, SnapshotIsLatestDay, SnapshotIsLatestDay'
    PROVE  \/ Promise!Next
           \/ Committed' = Committed /\ Live' = Live
<1>1. Live' \in {Live, Committed'}
  BY LiveStep
<1>2. CASE Committed' = Committed
  BY <1>1, <1>2 DEF Promise!Next, Promise!Reveal, Live
<1>3. ASSUME NEW r \in Runs, Commits(r) PROVE Promise!Next
  <2>1. shards[r] \in Shards
    BY DEF Known, Built, IInv, TypeOK
  <2>2. Committed' = [snap |-> Committed'.snap, index |-> Committed'.index]
    BY DEF Committed
  <2>3. Promise!Sound(Committed)'
    <3>1. Valid(Committed)'
      BY DEF Known, Built, ValidInv, Valid, Committed, Published, Head
    <3>2. QED
      BY <3>1, PromiseOperators DEF Promise!Sound, Valid, SnapshotIsLatestDay
  <2>4. QED
    BY <1>1, <1>3, <2>1, <2>2, <2>3, PromiseOperators DEF Commits, Promise!Next, Promise!Commit, Live
<1>4. QED
  BY <1>2, <1>3, CommitStep

(* The committed snapshot is the newest entry of the committed history.    *)
THEOREM LatestCommitted ==
    ASSUME NoOverride PROVE Spec => []SnapshotIsLatestDay
<1>1. Known /\ Known' /\ [Next]_vars /\ SnapshotIsLatestDay => SnapshotIsLatestDay'
  BY LatestStep
<1>2. QED
  BY KnownInvariance, InitPromise, <1>1, PTL DEF Spec

(* The site is at most as far as what is committed.                        *)
SiteBehind == SiteRecoverable /\ site.index.latest <= Committed.index.latest

(* The site stays within what is committed.                                *)
LEMMA BehindStep ==
    ASSUME Known, Known', [Next]_vars, SiteBehind
    PROVE  SiteBehind'
<1>1. Committed.index \in Indexes /\ Committed'.index \in Indexes /\ site.index \in Indexes
  <2>1. Committed.index \in Indexes /\ Committed.snap \in Snapshots /\ site.index \in Indexes
    BY CommittedType DEF Known, Built, IInv, TypeOK
  <2>2. ASSUME NEW r \in Runs, Commits(r) PROVE Committed'.index \in Indexes
    <3>1. shards[r] \in Shards
      BY DEF Known, Built, IInv, TypeOK
    <3>2. Committed'.snap \in Snapshots
      BY <2>1, <2>2, <3>1, MergeShardsType DEF Commits
    <3>3. QED
      BY <2>1, <2>2, <3>2, UpdateIndexType DEF Commits
  <2>3. QED
    BY <2>1, <2>2, CommitStep
<1>2. /\ site.index.latest \in Nat /\ Committed.index.latest \in Nat
      /\ Committed'.index.latest \in Nat /\ Dates \subseteq Nat
  BY <1>1, DateAssumption DEF Indexes
<1>3. Frozen
  BY FrozenStep
<1>4. CASE Live' = Committed'
  <2>1. site'.index = Committed'.index
    BY <1>4 DEF Live
  <2>2. QED
    BY <2>1, <1>2 DEF SiteBehind, SiteRecoverable
<1>5. CASE Live' = Live
  <2>1. site'.index = site.index
    BY <1>5 DEF Live
  <2>2. site.index.latest <= Committed'.index.latest
    BY <1>2, <1>3 DEF SiteBehind, Frozen
  <2>3. ASSUME NEW d \in Dates, d < site.index.latest PROVE d < Committed.index.latest
    BY <1>2, <2>3 DEF SiteBehind
  <2>4. \A d \in Recorded(site.index) :
           d < site.index.latest => Committed'.index.days[d] = site.index.days[d]
    BY <1>3, <2>3 DEF SiteBehind, SiteRecoverable, Frozen, Recorded
  <2>5. Recorded(site.index) \subseteq Recorded(Committed'.index)
    BY <1>3 DEF SiteBehind, SiteRecoverable, Frozen
  <2>6. QED
    BY <2>1, <2>2, <2>4, <2>5 DEF SiteBehind, SiteRecoverable
<1>6. QED
  BY <1>4, <1>5, LiveStep

(* The site never shows history that the committed history has lost.       *)
THEOREM NothingShownIsLost ==
    ASSUME NoOverride PROVE Spec => []SiteRecoverable
<1>1. Init => SiteBehind
  <2> SUFFICES ASSUME Init PROVE SiteBehind
    OBVIOUS
  <2>1. Committed = Live
    BY DEF Init, Committed, Published, Head, Live, Places
  <2>2. site.index.latest \in Nat
    BY InitIInv, DateAssumption DEF IInv, TypeOK, Indexes
  <2>3. QED
    BY <2>1, <2>2 DEF SiteBehind, SiteRecoverable, Live
<1>2. Known /\ Known' /\ [Next]_vars /\ SiteBehind => SiteBehind'
  BY BehindStep
<1>3. SiteBehind => SiteRecoverable
  BY DEF SiteBehind
<1>4. QED
  BY KnownInvariance, <1>1, <1>2, <1>3, PTL DEF Spec

(* Publication implements PublishedHistory: probes, locks, bundles,        *)
(* uploads and failures are invisible steps, and a reader only ever sees   *)
(* a history that grows by one merged snapshot at a time.                  *)
THEOREM Refinement ==
    ASSUME NoOverride PROVE Spec => KeepsPromise
<1>1. Known /\ Known' /\ [Next]_vars /\ SnapshotIsLatestDay /\ SnapshotIsLatestDay'
        => [Promise!Next]_<<Committed, [snap |-> site.snap, index |-> site.index]>>
  BY PromiseStep DEF Live
<1>2. QED
  BY KnownInvariance, LatestCommitted, InitPromise, <1>1, PTL
     DEF Spec, KeepsPromise, Promise!Spec
=============================================================================
