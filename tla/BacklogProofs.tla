---------------------------- MODULE BacklogProofs ----------------------------
(* Proofs about AgenticBacklog, for any queue, limit, threshold and bounds *)
(* on what people do: no reply is lost, none releases a hold twice, and no *)
(* issue is paused for failures it did not have.                           *)
EXTENDS AgenticBacklog, WellFoundedInduction, TLAPS

(* A reply as it was read some time ago: newer replies have larger ids,    *)
(* and what the reply says now is no older version of its text.            *)
Past(i, s) ==
    s # None => /\ s.id <= lastReply[i]
                /\ \A c \in replies[i] : c.id = s.id => s.text <= c.text

RepliesSound ==
    \A i \in Issues : /\ \A c \in replies[i] : Past(i, c)
                      /\ \A s \in spent[i] : Past(i, s)

(* Of the replies on the issue, those that were spent are older than c.    *)
Covers(i, c) ==
    \A s \in spent[i] \cap replies[i] : c # None /\ s.id <= c.id /\ (s.id = c.id => s = c)

LaneSound ==
    lane # Idle =>
       /\ run \in 1..MaxRun
       /\ lane.clarification \in lane.context \cup {None}
       /\ Past(lane.issue, lane.clarification)
       /\ Covers(lane.issue, lane.clarification)
       /\ lane.phase = "session" => lane.context \subseteq given[lane.issue]
       /\ lane.phase = "prepared" /\ lane.held /\ lane.issue \notin raced
             => lane.clarification \notin spent[lane.issue]

HoldSound ==
    \A i \in Issues : hold[i] # None =>
       /\ hold[i].consumed \in given[i] \cup {None}
       /\ i \notin raced => Covers(i, hold[i].consumed)

FollowersSound ==
    \A f \in followers :
       /\ f.clarification \in given[f.issue] \cup {None}
       /\ f.step = "read" => f.seen # None
       /\ f.issue \notin raced => Covers(f.issue, f.clarification)

(* Where no lane overtook a follower, the issue has one follower at most,  *)
(* and the counts that it read and computed are still those of the issue.  *)
CountSound(f) ==
    LET i == f.issue
    IN  /\ f.step = "started" /\ f.outcome = "failure" => failures[i] + 1 <= streak[i]
        /\ f.step = "read" /\ f.outcome = "failure"
              => f.seen.failures = failures[i] /\ failures[i] + 1 <= streak[i]
        /\ f.step = "decided" => \/ (f.outcome = "failure" /\ f.count <= streak[i])
                                 \/ (f.outcome = "delivered" /\ f.count = 0)
        /\ f.step = "counted" => f.count >= Threshold /\ f.count <= streak[i]

Alone ==
    /\ \A f, g \in followers : f.issue = g.issue /\ f.issue \notin raced => f = g
    /\ lane.phase = "session" /\ lane.issue \notin raced => \A f \in followers : f.issue # lane.issue

CountsSound ==
    /\ \A i \in Issues \ raced : failures[i] <= streak[i]
    /\ \A f \in followers : f.issue \notin raced => CountSound(f)

Inv == TypeOK /\ RepliesSound /\ LaneSound /\ HoldSound /\ FollowersSound /\ Alone /\ CountsSound
-----------------------------------------------------------------------------
(* A set of numbers that is not empty has a smallest element.              *)
LEMMA Smallest ==
    ASSUME NEW S, S \subseteq Nat, S # {}
    PROVE  Min(S) \in S /\ \A y \in S : Min(S) <= y
<1> DEFINE R == {ss \in Nat \X Nat : ss[1] < ss[2]}
<1>1. IsWellFoundedOn(R, Nat)
    BY NatLessThanWellFounded DEF OpToRel
<1>2. \E x \in S : \A y \in S : ~(<<y, x>> \in R)
    <2> HIDE DEF R
    <2> QED
        BY <1>1, WFMin, Zenon
<1>3. \E x \in S : \A y \in S : x <= y
    <2>1. PICK x \in S : \A y \in S : ~(<<y, x>> \in R)
        BY <1>2
    <2>2. ASSUME NEW y \in S PROVE x <= y
        <3>1. x \in Nat /\ y \in Nat /\ ~(<<y, x>> \in R)
            BY <2>1
        <3>2. ~(y < x)
            BY <3>1
        <3> QED
            BY <3>1, <3>2
    <2> QED
        BY <2>2
<1> QED
    BY <1>3 DEF Min

(* The newest of the replies.                                              *)
LEMMA Newest ==
    ASSUME NEW i \in Issues, replies[i] \subseteq Replies
    PROVE  /\ replies[i] = {} => Clarification(i) = None
           /\ replies[i] # {} => /\ Clarification(i) \in replies[i]
                                /\ \A d \in replies[i] : d.id <= Clarification(i).id
<1>1. CASE replies[i] = {}
    BY <1>1 DEF Clarification
<1>2. CASE replies[i] # {}
    <2> DEFINE T == {MaxReply - d.id : d \in replies[i]}
    <2>1. MaxReply \in Nat /\ \A d \in replies[i] : d.id \in 1..MaxReply
        BY BacklogAssumption DEF Replies
    <2>2. T \subseteq Nat /\ T # {}
        BY <1>2, <2>1
    <2> DEFINE x == Min(T)
    <2>3. x \in T /\ \A y \in T : x <= y
        <3> HIDE DEF T
        <3> QED
            BY <2>2, Smallest
    <2>4. PICK c \in replies[i] : x = MaxReply - c.id
        BY <2>3
    <2> HIDE DEF x
    <2>5. \A d \in replies[i] : d.id <= c.id
        BY <2>1, <2>3, <2>4
    <2> QED
        BY <1>2, <2>5 DEF Clarification
<1> QED
    BY <1>1, <1>2

(* What the prepare job selects is an issue of the queue, and is not on a  *)
(* hold that nothing released.                                             *)
LEMMA SelectedIssue ==
    ASSUME NEW unknowns \in BOOLEAN, Selected(unknowns) # {}
    PROVE  Min(Selected(unknowns)) \in Issues /\ ~Waiting(Min(Selected(unknowns)))
<1>1. Selected(unknowns) \subseteq {i \in Issues : ~Waiting(i)}
    BY DEF Selected, Tasks
<1>2. Min(Selected(unknowns)) \in Selected(unknowns)
    BY <1>1, Smallest, BacklogAssumption
<1> QED
    BY <1>1, <1>2

(* A lane that is at work has selected an issue.                           *)
LEMMA LaneAtWork ==
    ASSUME TypeOK, lane.phase \in {"prepared", "session"}
    PROVE  lane # Idle /\ lane \in Selections
BY DEF TypeOK, Idle
-----------------------------------------------------------------------------
(* Before the first run there is nothing to record.                        *)
LEMMA Initially == Init => Inv
<1> SUFFICES ASSUME Init PROVE Inv
    OBVIOUS
<1>1. TypeOK
    BY BacklogAssumption DEF Init, TypeOK
<1>2. RepliesSound /\ LaneSound /\ HoldSound /\ FollowersSound
    BY DEF Init, RepliesSound, LaneSound, HoldSound, FollowersSound
<1>3. Alone /\ CountsSound
    BY DEF Init, Alone, CountsSound, Idle
<1> QED
    BY <1>1, <1>2, <1>3 DEF Inv

(* Replies come with new ids and edits with new texts: what is new on an   *)
(* issue is nothing that anyone has read.                                  *)
NewReply(j, c) ==
    /\ c.id <= lastReply'[j]
    /\ \A d \in replies'[j] : d.id = c.id => d = c
    /\ \A s \in Replies : Past(j, s) /\ s.id = c.id => s.text < c.text

(* So what was read stays older than what the issue shows.                 *)
LEMMA RepliesMove ==
    ASSUME Inv, replies' \in [Issues -> SUBSET Replies], lastReply' \in [Issues -> 0..MaxReply],
           \A j \in Issues : lastReply[j] <= lastReply'[j],
           \A j \in Issues : \A c \in replies'[j] \ replies[j] : NewReply(j, c),
           UNCHANGED spent
    PROVE  /\ \A j \in Issues : \A s \in Replies \cup {None} : Past(j, s) => Past(j, s)'
           /\ \A j \in Issues : \A c : Covers(j, c) => Covers(j, c)'
           /\ RepliesSound'
<1>0. /\ replies \in [Issues -> SUBSET Replies] /\ lastReply \in [Issues -> 0..MaxReply]
      /\ spent \in [Issues -> SUBSET (Replies \cup {None})] /\ RepliesSound
      /\ \A c \in Replies : c.id \in Nat /\ c.text \in Nat
      /\ None \notin Replies
    BY BacklogAssumption DEF Inv, TypeOK, Replies
<1>1. ASSUME NEW j \in Issues, NEW s \in Replies \cup {None}, Past(j, s) PROVE Past(j, s)'
    <2> SUFFICES ASSUME s # None
                 PROVE  s.id <= lastReply'[j] /\ \A c \in replies'[j] : c.id = s.id => s.text <= c.text
        BY DEF Past
    <2>1. s.id <= lastReply[j] /\ \A c \in replies[j] : c.id = s.id => s.text <= c.text
        BY <1>1 DEF Past
    <2>2. s.id <= lastReply'[j]
        BY <1>0, <2>1, BacklogAssumption
    <2>3. ASSUME NEW c \in replies'[j], c.id = s.id PROVE s.text <= c.text
        <3>1. CASE c \in replies[j]
            BY <2>1, <2>3, <3>1
        <3>2. CASE c \notin replies[j]
            BY <1>0, <1>1, <2>3, <3>2 DEF NewReply
        <3> QED
            BY <3>1, <3>2
    <2> QED
        BY <2>2, <2>3
<1>2. ASSUME NEW j \in Issues PROVE spent[j] \cap replies'[j] \subseteq spent[j] \cap replies[j]
    <2> SUFFICES ASSUME NEW s \in spent[j], s \in replies'[j], s \notin replies[j] PROVE FALSE
        OBVIOUS
    <2>1. Past(j, s) /\ s \in Replies
        BY <1>0 DEF RepliesSound
    <2> QED
        BY <1>0, <2>1 DEF NewReply
<1>3. ASSUME NEW j \in Issues, NEW c \in replies'[j] PROVE Past(j, c)'
    <2>1. c \in Replies
        OBVIOUS
    <2>2. CASE c \in replies[j]
        BY <1>0, <1>1, <2>1, <2>2 DEF RepliesSound
    <2>3. CASE c \notin replies[j]
        BY <1>0, <2>1, <2>3 DEF NewReply, Past
    <2> QED
        BY <2>2, <2>3
<1>4. RepliesSound'
    BY <1>0, <1>1, <1>3 DEF RepliesSound
<1>5. ASSUME NEW j \in Issues, NEW c, Covers(j, c) PROVE Covers(j, c)'
    BY <1>2, <1>5 DEF Covers
<1> QED
    BY <1>1, <1>4, <1>5

(* What people do to the replies leaves the invariant true.                *)
LEMMA RepliesStep ==
    ASSUME Inv, NEW i \in Issues, Reply(i) \/ EditReply(i) \/ DeleteReply(i), acts' \in 0..MaxActs
    PROVE  Inv'
<1>0. /\ replies \in [Issues -> SUBSET Replies] /\ lastReply \in [Issues -> 0..MaxReply]
      /\ RepliesSound /\ UNCHANGED <<open, paused, objective, pulls, bots>>
      /\ \A c \in Replies : c.id \in 1..MaxReply /\ c.text \in 0..MaxText
      /\ None \notin Replies /\ MaxReply \in Nat /\ MaxText \in Nat
    BY BacklogAssumption DEF Inv, TypeOK, Replies, Reply, EditReply, DeleteReply
<1> DEFINE Moves == /\ replies' \in [Issues -> SUBSET Replies] /\ lastReply' \in [Issues -> 0..MaxReply]
                    /\ \A j \in Issues : lastReply[j] <= lastReply'[j]
                    /\ \A j \in Issues : \A c \in replies'[j] \ replies[j] : NewReply(j, c)
<1>1. ASSUME Reply(i) PROVE Moves
    <2> DEFINE n == [id |-> lastReply[i] + 1, text |-> 0]
    <2>1. n \in Replies /\ n.id = lastReply[i] + 1
        BY <1>0, <1>1 DEF Reply, Replies
    <2>2. /\ replies' \in [Issues -> SUBSET Replies] /\ lastReply' \in [Issues -> 0..MaxReply]
          /\ lastReply'[i] = lastReply[i] + 1 /\ \A j \in Issues : lastReply[j] <= lastReply'[j]
          /\ \A j \in Issues : replies'[j] = IF j = i THEN replies[i] \cup {n} ELSE replies[j]
        BY <1>0, <1>1, <2>1 DEF Reply
    <2>3. \A s \in Replies : Past(i, s) => s.id # n.id
        BY <1>0, <2>1 DEF Past
    <2>4. NewReply(i, n)
        <3>1. \A d \in replies[i] : d.id # n.id
            BY <1>0, <2>3 DEF RepliesSound
        <3> QED
            BY <1>0, <2>1, <2>2, <2>3, <3>1 DEF NewReply
    <2> QED
        BY <2>2, <2>4
<1>2. ASSUME EditReply(i) PROVE Moves
    <2>1. PICK c \in replies[i] :
              /\ c.text < MaxText
              /\ replies' = [replies EXCEPT ![i] = (@ \ {c}) \cup {[c EXCEPT !.text = @ + 1]}]
        BY <1>2 DEF EditReply
    <2> DEFINE n == [c EXCEPT !.text = @ + 1]
    <2>2. c \in Replies /\ c.text + 1 \in 0..MaxText
        BY <1>0, <2>1
    <2>3. n \in Replies /\ n.id = c.id /\ n.text = c.text + 1
        BY <1>0, <2>2 DEF Replies
    <2> HIDE DEF n
    <2>4. /\ replies' \in [Issues -> SUBSET Replies] /\ lastReply' = lastReply
          /\ \A j \in Issues : replies'[j] = IF j = i THEN (replies[i] \ {c}) \cup {n} ELSE replies[j]
        BY <1>0, <1>2, <2>1, <2>3 DEF EditReply, n
    <2>5. \A s \in Replies : Past(i, s) /\ s.id = n.id => s.text < n.text
        BY <1>0, <2>2, <2>3 DEF Past
    <2>6. ASSUME NEW d \in replies'[i], d.id = n.id PROVE d = n
        <3>1. SUFFICES ASSUME d \in replies[i], d # c PROVE FALSE
            BY <2>4
        <3>2. d.text <= c.text /\ c.text <= d.text
            BY <1>0, <2>3, <2>6, <3>1 DEF RepliesSound, Past
        <3>3. d \in Replies /\ c \in Replies /\ d.id = c.id
            BY <1>0, <2>2, <2>3, <2>6, <3>1
        <3>4. d.text = c.text
            BY <1>0, <3>2, <3>3
        <3> QED
            BY <3>1, <3>3, <3>4 DEF Replies
    <2>7. n.id <= lastReply[i]
        BY <1>0, <2>3 DEF RepliesSound, Past
    <2>8. NewReply(i, n)
        BY <2>4, <2>5, <2>6, <2>7 DEF NewReply
    <2> QED
        BY <1>0, <2>4, <2>8
<1>3. ASSUME DeleteReply(i) PROVE Moves
    <2>1. /\ replies' \in [Issues -> SUBSET Replies] /\ lastReply' = lastReply
          /\ \A j \in Issues : replies'[j] \subseteq replies[j]
        BY <1>0, <1>3 DEF DeleteReply
    <2> QED
        BY <1>0, <2>1
<1>4. Moves
    BY <1>1, <1>2, <1>3
<1>5. /\ \A j \in Issues : \A s \in Replies \cup {None} : Past(j, s) => Past(j, s)'
      /\ \A j \in Issues : \A c : Covers(j, c) => Covers(j, c)'
      /\ RepliesSound'
    BY <1>0, <1>4, RepliesMove DEF bots, history
<1>6. TypeOK'
    BY <1>0, <1>4 DEF Inv, TypeOK, bots, history
<1>7. LaneSound'
    <2>1. lane # Idle => lane \in Selections
        BY DEF Inv, TypeOK
    <2> QED
        BY <1>0, <1>5, <2>1 DEF Inv, LaneSound, bots, history, Selections
<1>8. HoldSound' /\ FollowersSound'
    BY <1>0, <1>5 DEF Inv, TypeOK, HoldSound, FollowersSound, bots, history, Followers
<1>9. Alone' /\ CountsSound'
    BY <1>0 DEF Inv, Alone, CountsSound, CountSound, bots, history
<1> QED
    BY <1>5, <1>6, <1>7, <1>8, <1>9 DEF Inv

(* So does what they do to labels, texts and pull requests, and a step     *)
(* of the bots that writes no more than those.                             *)
LEMMA LabelStep ==
    ASSUME Inv, UNCHANGED <<replies, lastReply, hold, failures, lane, followers, history>>,
           run' = run, TypeOK'
    PROVE  Inv'
<1>1. \A j, c : Past(j, c)' = Past(j, c) /\ Covers(j, c)' = Covers(j, c)
    BY DEF history, Past, Covers
<1>2. RepliesSound' /\ LaneSound' /\ HoldSound' /\ FollowersSound'
    BY <1>1 DEF Inv, RepliesSound, LaneSound, HoldSound, FollowersSound, history
<1>3. Alone' /\ CountsSound'
    BY DEF Inv, Alone, CountsSound, CountSound, history
<1> QED
    BY <1>2, <1>3 DEF Inv
-----------------------------------------------------------------------------
(* A selected issue is not held by what its newest reply already released. *)
LEMMA NewestIsUnspent ==
    ASSUME Inv, NEW i \in Issues, ~Waiting(i)
    PROVE  /\ Clarification(i) \in replies[i] \cup {None}
           /\ Past(i, Clarification(i)) /\ Covers(i, Clarification(i))
           /\ Held(i) /\ i \notin raced => Clarification(i) \notin spent[i]
<1> DEFINE c == Clarification(i)
<1>0. /\ replies[i] \subseteq Replies /\ hold[i] \in Holds \cup {None}
      /\ RepliesSound /\ HoldSound /\ None \notin Replies
      /\ \A d \in Replies : d.id \in Nat /\ d.text \in Nat
    BY BacklogAssumption DEF Inv, TypeOK, Replies
<1>1. /\ replies[i] = {} => c = None
      /\ replies[i] # {} => c \in replies[i] /\ \A d \in replies[i] : d.id <= c.id
    BY <1>0, Newest
<1> HIDE DEF c
<1>2. \A d, e \in replies[i] : d.id = e.id => d = e
    <2> SUFFICES ASSUME NEW d \in replies[i], NEW e \in replies[i], d.id = e.id PROVE d = e
        OBVIOUS
    <2>1. d.text <= e.text /\ e.text <= d.text
        BY <1>0 DEF RepliesSound, Past
    <2>2. d.text = e.text
        BY <1>0, <2>1
    <2> QED
        BY <1>0, <2>2 DEF Replies
<1>3. Past(i, c)
    BY <1>0, <1>1 DEF RepliesSound, Past
<1>4. Covers(i, c)
    BY <1>0, <1>1, <1>2 DEF Covers
<1>5. ASSUME Held(i), i \notin raced, c \in spent[i] PROVE FALSE
    <2>1. Fresh(i) /\ hold[i] # None
        BY <1>5 DEF Waiting, Held
    <2> DEFINE d == hold[i].consumed
    <2>2. d \in Replies \cup {None}
        BY <1>0, <2>1 DEF Holds
    <2>3. c # None /\ c # d /\ (d = None \/ c.id >= d.id)
        BY <2>1 DEF Fresh, c
    <2>4. c \in replies[i]
        BY <1>1, <2>3
    <2>5. Covers(i, d)
        BY <1>0, <1>5, <2>1 DEF HoldSound
    <2>6. d # None /\ c.id <= d.id /\ (c.id = d.id => c = d)
        BY <1>5, <2>4, <2>5 DEF Covers
    <2> QED
        BY <1>0, <2>2, <2>3, <2>4, <2>6
<1> QED
    BY <1>1, <1>3, <1>4, <1>5 DEF c

(* One prepare job.                                                        *)
LEMMA PrepareStep ==
    ASSUME Inv, NEW unknowns \in BOOLEAN, NEW questions \in SUBSET Issues, Prepare(unknowns, questions)
    PROVE  Inv'
<1> DEFINE i == Min(Selected(unknowns))
           task == [phase |-> "prepared", issue |-> i, held |-> Held(i),
                    clarification |-> Clarification(i), context |-> Context(i)]
<1>0. /\ UNCHANGED <<people, paused, pulls, hold, failures, followers, history>>
      /\ run' = run + 1 /\ run' \in 1..MaxRun /\ asked' \subseteq Issues
      /\ lane' = IF Selected(unknowns) = {} THEN Idle ELSE task
    BY BacklogAssumption DEF Prepare, Inv, TypeOK
<1>1. \A j, c : Past(j, c)' = Past(j, c) /\ Covers(j, c)' = Covers(j, c)
    BY <1>0 DEF people, history, Past, Covers
<1>2. ASSUME Selected(unknowns) # {}
      PROVE  lane' \in Selections /\ LaneSound' /\ lane'.phase = "prepared"
    <2>1. i \in Issues /\ ~Waiting(i)
        BY <1>2, SelectedIssue
    <2> HIDE DEF i
    <2>2. Held(i) \in BOOLEAN
        BY DEF Held
    <2>3. /\ Clarification(i) \in replies[i] \cup {None}
          /\ Past(i, Clarification(i)) /\ Covers(i, Clarification(i))
          /\ Held(i) /\ i \notin raced => Clarification(i) \notin spent[i]
        BY <2>1, NewestIsUnspent
    <2>4. replies[i] \subseteq Replies
        BY <2>1 DEF Inv, TypeOK
    <2>5. lane' = task /\ task \in Selections
        BY <1>0, <1>2, <2>1, <2>2, <2>3, <2>4 DEF Selections, Context
    <2>6. LaneSound'
        BY <1>0, <1>1, <2>3, <2>5 DEF LaneSound, history, Context
    <2> QED
        BY <2>5, <2>6
<1>3. ASSUME Selected(unknowns) = {}
      PROVE  lane' = Idle /\ LaneSound' /\ lane'.phase = "idle"
    BY <1>0, <1>3 DEF LaneSound, Idle
<1>4. TypeOK'
    BY <1>0, <1>2, <1>3 DEF Inv, TypeOK, people, history
<1>5. RepliesSound' /\ HoldSound' /\ FollowersSound'
    BY <1>0, <1>1 DEF Inv, RepliesSound, HoldSound, FollowersSound, people, history
<1>6. lane'.phase # "session"
    BY <1>2, <1>3
<1>7. Alone' /\ CountsSound'
    BY <1>0, <1>6 DEF Inv, Alone, CountsSound, CountSound, history
<1> QED
    BY <1>2, <1>3, <1>4, <1>5, <1>7 DEF Inv

(* The reservation spends the reply that released the hold.  What was      *)
(* spent before is older, and a follower of the issue, if there is one,    *)
(* was overtaken.                                                          *)
LEMMA ReserveStep == ASSUME Inv, Reserve PROVE Inv'
<1> DEFINE i == lane.issue
           c == lane.clarification
<1>0. /\ UNCHANGED <<people, paused, asked, pulls, failures, followers, run, streak>>
      /\ lane.phase = "prepared" /\ lane # Idle /\ lane \in Selections
      /\ i \in Issues /\ c \in Replies \cup {None} /\ lane.context \subseteq Replies
    BY LaneAtWork DEF Reserve, Inv, Selections
<1>1. lane' = [lane EXCEPT !.phase = "session"] /\ lane' \in Selections /\ lane' # Idle
    BY <1>0 DEF Reserve, Selections, Idle
<1>2. /\ lane'.phase = "session" /\ lane'.issue = i /\ lane'.clarification = c
      /\ lane'.held = lane.held /\ lane'.context = lane.context
    BY <1>0, <1>1 DEF Selections
<1>3. /\ hold' = IF lane.held THEN [hold EXCEPT ![i] = Reserved(i, c)] ELSE hold
      /\ given' = [given EXCEPT ![i] = @ \cup lane.context]
      /\ spent' = IF lane.held THEN [spent EXCEPT ![i] = @ \cup {c}] ELSE spent
      /\ raced' = IF \E f \in followers : f.issue = i THEN raced \cup {i} ELSE raced
    BY DEF Reserve
<1>4. Reserved(i, c) \in Holds /\ Reserved(i, c).consumed = c /\ None \notin Replies
    BY <1>0, BacklogAssumption DEF Reserved, Holds, Inv, LaneSound
<1>5. /\ hold' \in [Issues -> Holds \cup {None}] /\ given' \in [Issues -> SUBSET Replies]
      /\ spent' \in [Issues -> SUBSET (Replies \cup {None})] /\ raced' \subseteq Issues
      /\ \A j \in Issues : hold'[j] = IF lane.held /\ j = i THEN Reserved(i, c) ELSE hold[j]
      /\ \A j \in Issues : given'[j] = IF j = i THEN given[i] \cup lane.context ELSE given[j]
      /\ \A j \in Issues : spent'[j] = IF lane.held /\ j = i THEN spent[i] \cup {c} ELSE spent[j]
    BY <1>0, <1>3, <1>4 DEF Inv, TypeOK
<1>6. TypeOK'
    BY <1>0, <1>1, <1>5 DEF Inv, TypeOK, people
<1> DEFINE Later(j, d) == \A s \in spent'[j] \cap replies'[j] :
                              d # None /\ s.id <= d.id /\ (s.id = d.id => s = d)
<1>7. /\ \A j, s : Past(j, s)' = Past(j, s)
      /\ \A s : \A j \in Issues : j # i /\ Covers(j, s) => Later(j, s)
      /\ Past(i, c) /\ Later(i, c)
    <2>1. \A j, s : Past(j, s)' = Past(j, s)
        BY <1>0 DEF people, Past
    <2>2. \A s : \A j \in Issues : j # i /\ Covers(j, s) => Later(j, s)
        BY <1>0, <1>5 DEF people, Covers
    <2>3. Past(i, c) /\ Covers(i, c)
        BY <1>0 DEF Inv, LaneSound
    <2>4. replies[i] \subseteq Replies /\ replies' = replies
        BY <1>0 DEF Inv, TypeOK, people
    <2>5. c \in Replies => c.id \in Nat
        BY BacklogAssumption DEF Replies
    <2>6. ASSUME NEW s \in spent'[i] \cap replies'[i]
          PROVE  c # None /\ s.id <= c.id /\ (s.id = c.id => s = c)
        <3>1. s \in Replies /\ s \in replies[i] /\ (s \in spent[i] \/ s = c)
            BY <1>0, <1>5, <2>4
        <3>2. CASE s = c
            BY <1>4, <2>5, <3>1, <3>2
        <3>3. CASE s \in spent[i]
            BY <2>3, <3>1, <3>3 DEF Covers
        <3> QED
            BY <3>1, <3>2, <3>3
    <2> QED
        BY <2>1, <2>2, <2>3, <2>6
<1>8. RepliesSound'
    BY <1>0, <1>5, <1>7 DEF Inv, RepliesSound, people
<1>9. LaneSound'
    BY <1>0, <1>2, <1>5, <1>7 DEF Inv, LaneSound, Covers
<1>10. c \in given'[i] \cup {None}
    BY <1>0, <1>5 DEF Inv, LaneSound
<1>11. HoldSound'
    <2>1. ASSUME NEW j \in Issues, hold'[j] # None
          PROVE  /\ hold'[j].consumed \in given'[j] \cup {None}
                 /\ j \notin raced' => Later(j, hold'[j].consumed)
        <3>1. CASE lane.held /\ j = i
            <4>1. hold'[j].consumed = c
                BY <1>4, <1>5, <3>1
            <4> QED
                BY <1>7, <1>10, <3>1, <4>1
        <3>2. CASE ~(lane.held /\ j = i)
            <4>1. hold'[j] = hold[j] /\ given[j] \subseteq given'[j] /\ spent'[j] = spent[j]
                BY <1>5, <3>2
            <4>2. \A s : Covers(j, s) => Later(j, s)
                BY <1>0, <4>1 DEF people, Covers
            <4>3. raced \subseteq raced'
                BY <1>3
            <4> HIDE DEF Later
            <4>4. hold[j].consumed \in given[j] \cup {None}
                  /\ (j \notin raced => Covers(j, hold[j].consumed))
                BY <2>1, <4>1 DEF Inv, HoldSound
            <4> QED
                BY <4>1, <4>2, <4>3, <4>4
        <3> QED
            BY <3>1, <3>2
    <2> QED
        BY <2>1 DEF HoldSound, Covers
<1>12. FollowersSound'
    <2>1. ASSUME NEW f \in followers
          PROVE  /\ f.clarification \in given'[f.issue] \cup {None}
                 /\ f.step = "read" => f.seen # None
                 /\ f.issue \notin raced' => Later(f.issue, f.clarification)
        <3>1. f.issue \in Issues
            BY DEF Inv, TypeOK, Followers
        <3>2. f.issue \notin raced' => f.issue # i /\ f.issue \notin raced
            BY <1>3
        <3>3. given[f.issue] \subseteq given'[f.issue]
            BY <1>5, <3>1
        <3> QED
            BY <1>7, <3>1, <3>2, <3>3 DEF Inv, FollowersSound
    <2> QED
        BY <1>0, <2>1 DEF FollowersSound, Covers
<1>13. Alone'
    BY <1>0, <1>2, <1>3 DEF Inv, Alone
<1>14. CountsSound'
    <2>1. \A f : CountSound(f)' = CountSound(f)
        BY <1>0 DEF CountSound
    <2>2. raced \subseteq raced'
        BY <1>3
    <2> QED
        BY <1>0, <2>1, <2>2 DEF Inv, CountsSound
<1> QED
    BY <1>6, <1>8, <1>9, <1>11, <1>12, <1>13, <1>14 DEF Inv

(* Without a reservation there is no session.                              *)
LEMMA PrepareFailsStep == ASSUME Inv, PrepareFails PROVE Inv'
<1>1. lane' = Idle /\ lane'.phase = "idle"
      /\ UNCHANGED <<people, paused, asked, pulls, hold, failures, followers, run, history>>
    BY DEF PrepareFails, Idle
<1>2. \A j, c : Past(j, c)' = Past(j, c) /\ Covers(j, c)' = Covers(j, c)
    BY <1>1 DEF people, history, Past, Covers
<1>3. RepliesSound' /\ LaneSound' /\ HoldSound' /\ FollowersSound'
    BY <1>1, <1>2 DEF Inv, RepliesSound, LaneSound, HoldSound, FollowersSound, people, history
<1>4. TypeOK' /\ Alone' /\ CountsSound'
    BY <1>1 DEF Inv, TypeOK, Alone, CountsSound, CountSound, people, history
<1> QED
    BY <1>3, <1>4 DEF Inv

(* The session ends and its follower starts; it is the only one of an      *)
(* issue whose followers were never overtaken.                             *)
LEMMA SessionStep ==
    ASSUME Inv, NEW outcome \in Outcomes, NEW published \in BOOLEAN, SessionEnds(outcome, published)
    PROVE  Inv'
<1> DEFINE i == lane.issue
           new == [run |-> run, issue |-> i, outcome |-> outcome, step |-> "started",
                   clarification |-> lane.clarification, seen |-> None, count |-> 0]
<1>0. /\ UNCHANGED <<people, paused, asked, hold, failures, run, given, spent, raced>>
      /\ lane.phase = "session" /\ lane # Idle /\ lane \in Selections /\ i \in Issues
      /\ lane.clarification \in Replies \cup {None} /\ run \in 1..MaxRun
      /\ lane' = Idle /\ lane'.phase = "idle" /\ followers' = followers \cup {new}
    BY LaneAtWork DEF SessionEnds, Inv, Selections, LaneSound, Idle
<1>1. new \in Followers
    BY <1>0 DEF Followers
<1>2. PICK g \in Followers : /\ g = new /\ g.issue = i /\ g.step = "started" /\ g.outcome = outcome
                            /\ g.clarification = lane.clarification
    BY <1>1
<1> HIDE DEF new
<1>3. /\ pulls' \subseteq Issues /\ streak' \in [Issues -> Nat]
      /\ \A j \in Issues : streak'[j] = IF outcome = "failure" /\ j = i THEN streak[i] + 1 ELSE streak[j]
    BY <1>0 DEF SessionEnds, Inv, TypeOK
<1>4. TypeOK'
    BY <1>0, <1>1, <1>3 DEF Inv, TypeOK, people
<1>5. \A j, c : Past(j, c)' = Past(j, c) /\ Covers(j, c)' = Covers(j, c)
    BY <1>0 DEF people, Past, Covers
<1>6. RepliesSound' /\ LaneSound' /\ HoldSound'
    BY <1>0, <1>5 DEF Inv, RepliesSound, LaneSound, HoldSound, people
<1>7. g.clarification \in given[g.issue] \cup {None} /\ Covers(g.issue, g.clarification)
    BY <1>0, <1>2 DEF Inv, LaneSound
<1>8. FollowersSound'
    BY <1>0, <1>5, <1>7, <1>2 DEF Inv, FollowersSound
<1>9. i \notin raced => \A f \in followers : f.issue # i
    BY <1>0 DEF Inv, Alone
<1>10. Alone'
    BY <1>0, <1>2, <1>9 DEF Inv, Alone
<1>11. CountsSound'
    <2>1. ASSUME NEW j \in Issues \ raced PROVE failures[j] <= streak'[j]
        <3>1. failures[j] <= streak[j] /\ failures[j] \in Nat /\ streak[j] \in Nat
            BY DEF Inv, CountsSound, TypeOK
        <3> QED
            BY <1>3, <3>1
    <2>2. ASSUME NEW f \in followers, f.issue \notin raced PROVE CountSound(f)'
        <3>1. f.issue \in Issues /\ f.issue # i
            BY <1>9, <2>2 DEF Inv, TypeOK, Followers
        <3>2. streak'[f.issue] = streak[f.issue]
            BY <1>3, <3>1
        <3> QED
            BY <1>0, <2>2, <3>2 DEF Inv, CountsSound, CountSound
    <2>3. ASSUME i \notin raced PROVE CountSound(g)'
        <3>1. failures[i] <= streak[i] /\ failures[i] \in Nat /\ streak[i] \in Nat
            BY <1>0, <2>3 DEF Inv, CountsSound, TypeOK
        <3>2. outcome = "failure" => failures[i] + 1 <= streak'[i]
            BY <1>0, <1>3, <3>1
        <3> QED
            BY <1>0, <1>2, <3>2 DEF CountSound
    <2> QED
        BY <1>0, <1>2, <2>1, <2>2, <2>3 DEF CountsSound
<1> QED
    BY <1>4, <1>6, <1>8, <1>10, <1>11 DEF Inv
-----------------------------------------------------------------------------
(* A follower that goes on, as g, or ends remains the one of its issue.    *)
LEMMA FollowerMoves ==
    ASSUME Inv, NEW f \in followers, NEW g \in Followers,
           g.issue = f.issue, g.clarification = f.clarification, g.step = "read" => g.seen # None,
           followers' \subseteq (followers \ {f}) \cup {g},
           UNCHANGED <<people, lane, run, given, spent, raced>>
    PROVE  /\ followers' \subseteq Followers /\ RepliesSound' /\ LaneSound' /\ FollowersSound' /\ Alone'
           /\ \A j, c : Covers(j, c)' = Covers(j, c)
<1>1. \A j, c : Past(j, c)' = Past(j, c) /\ Covers(j, c)' = Covers(j, c)
    BY DEF people, Past, Covers
<1>2. RepliesSound' /\ LaneSound'
    BY <1>1 DEF Inv, RepliesSound, LaneSound, people
<1>3. FollowersSound'
    BY <1>1 DEF Inv, FollowersSound
<1>4. followers' \subseteq Followers /\ Alone'
    BY DEF Inv, TypeOK, Alone
<1> QED
    BY <1>1, <1>2, <1>3, <1>4

(* The follower reads.                                                     *)
LEMMA ReadStep == ASSUME Inv, NEW f \in followers, FollowerReads(f) PROVE Inv'
<1> DEFINE seen == [hold |-> hold[f.issue], failures |-> failures[f.issue], paused |-> f.issue \in paused]
           g == [f EXCEPT !.step = "read", !.seen = seen]
<1>0. /\ f.step = "started" /\ followers' = (followers \ {f}) \cup {g}
      /\ UNCHANGED <<people, paused, asked, pulls, hold, failures, lane, run, history>>
      /\ f \in Followers /\ f.issue \in Issues
    BY DEF FollowerReads, Becomes, Inv, TypeOK, Followers
<1>1. seen \in Seen /\ seen.failures = failures[f.issue] /\ seen # None
    <2>1. seen \in Seen /\ seen.failures = failures[f.issue]
        BY <1>0 DEF Seen, Inv, TypeOK
    <2> QED
        BY <2>1, BacklogAssumption DEF Seen
<1> HIDE DEF seen
<1>2. /\ g \in Followers /\ g.issue = f.issue /\ g.clarification = f.clarification /\ g.seen = seen
      /\ g.step = "read" /\ g.outcome = f.outcome
    BY <1>0, <1>1 DEF Followers
<1> HIDE DEF g
<1>3. /\ followers' \subseteq Followers /\ RepliesSound' /\ LaneSound' /\ FollowersSound' /\ Alone'
      /\ \A j, c : Covers(j, c)' = Covers(j, c)
    BY <1>0, <1>1, <1>2, FollowerMoves DEF history
<1>4. TypeOK'
    BY <1>0, <1>3 DEF Inv, TypeOK, people, history
<1>5. HoldSound'
    BY <1>0, <1>3 DEF Inv, HoldSound, history
<1>6. f.issue \notin raced => CountSound(f)
    BY DEF Inv, CountsSound
<1>7. f.issue \notin raced => CountSound(g)
    BY <1>0, <1>1, <1>2, <1>6 DEF CountSound
<1>8. \A h : CountSound(h)' = CountSound(h)
    BY <1>0 DEF CountSound, history
<1>9. CountsSound'
    BY <1>0, <1>2, <1>7, <1>8 DEF Inv, CountsSound, history
<1> QED
    BY <1>3, <1>4, <1>5, <1>9 DEF Inv

(* The follower decides; what it writes on the issue is covered by what    *)
(* its session was given.                                                  *)
LEMMA DecideStep == ASSUME Inv, NEW f \in followers, FollowerDecides(f) PROVE Inv'
<1> DEFINE i == f.issue
           next == [f EXCEPT !.step = "decided", !.count = NewFailures(f)]
<1>0. /\ f.step = "read" /\ UNCHANGED <<people, paused, asked, pulls, failures, lane, run, history>>
      /\ f \in Followers /\ i \in Issues /\ f.seen \in Seen
      /\ f.clarification \in given[i] \cup {None} /\ (i \notin raced => Covers(i, f.clarification))
    BY DEF FollowerDecides, Inv, TypeOK, Followers, FollowersSound
<1>1. NewFailures(f) \in Nat /\ f.seen.failures \in Nat
    BY <1>0 DEF NewFailures, Seen
<1> DEFINE Decided(g) == /\ g = next /\ g.issue = i /\ g.clarification = f.clarification /\ g.step = "decided"
                         /\ g.outcome = f.outcome /\ g.count = NewFailures(f)
<1>2. PICK g \in Followers : Decided(g)
    <2>1. next \in Followers /\ Decided(next)
        BY <1>0, <1>1 DEF Followers
    <2> QED
        BY <2>1
<1> HIDE DEF next
<1>3. /\ followers' \subseteq (followers \ {f}) \cup {g}
      /\ g \in followers' => f.outcome \in {"failure", "delivered"} \/ g \in followers \ {f}
    BY <1>2 DEF FollowerDecides, Becomes, Ends, Counts, next
<1>4. /\ followers' \subseteq Followers /\ RepliesSound' /\ LaneSound' /\ FollowersSound' /\ Alone'
      /\ \A j, c : Covers(j, c)' = Covers(j, c)
    BY <1>0, <1>2, <1>3, FollowerMoves DEF history
<1>5. hold' = hold \/ (f.outcome # "failure" /\ hold' = [hold EXCEPT ![i] = Recorded(f)])
    BY DEF FollowerDecides
<1>6. f.outcome # "failure" => Recorded(f) \in Holds /\ Recorded(f).consumed = f.clarification
    BY <1>0 DEF Recorded, Holds, Followers, Outcomes
<1>7. hold' \in [Issues -> Holds \cup {None}]
    BY <1>0, <1>5, <1>6 DEF Inv, TypeOK
<1>8. HoldSound'
    <2>1. ASSUME NEW j \in Issues, hold'[j] # None
          PROVE  /\ hold'[j].consumed \in given[j] \cup {None}
                 /\ j \notin raced => Covers(j, hold'[j].consumed)
        <3>1. CASE hold'[j] = hold[j]
            BY <2>1, <3>1 DEF Inv, HoldSound
        <3>2. CASE hold'[j] # hold[j]
            <4>1. j = i /\ hold'[j].consumed = f.clarification
                BY <1>0, <1>5, <1>6, <3>2 DEF Inv, TypeOK
            <4> QED
                BY <1>0, <4>1
        <3> QED
            BY <3>1, <3>2
    <2> QED
        BY <1>0, <2>1 DEF HoldSound, Covers, people, history
<1>9. TypeOK'
    BY <1>0, <1>4, <1>7 DEF Inv, TypeOK, people, history
<1>10. \A h : CountSound(h)' = CountSound(h)
    BY <1>0 DEF CountSound, history
<1>11. i \notin raced /\ f.outcome \in {"failure", "delivered"} => CountSound(g)
    <2> SUFFICES ASSUME i \notin raced, f.outcome \in {"failure", "delivered"} PROVE CountSound(g)
        OBVIOUS
    <2>1. CountSound(f)
        BY DEF Inv, CountsSound
    <2> QED
        BY <1>0, <1>1, <1>2, <2>1 DEF CountSound, NewFailures
<1>12. CountsSound'
    BY <1>0, <1>2, <1>3, <1>10, <1>11 DEF Inv, CountsSound, history
<1> QED
    BY <1>4, <1>8, <1>9, <1>12 DEF Inv

(* The follower writes the count.                                          *)
LEMMA CountStep == ASSUME Inv, NEW f \in followers, FollowerCounts(f) PROVE Inv'
<1> DEFINE i == f.issue
           next == [f EXCEPT !.step = "counted"]
<1>0. /\ f.step = "decided" /\ UNCHANGED <<people, paused, asked, pulls, hold, lane, run, given, spent, raced>>
      /\ f \in Followers /\ i \in Issues /\ f.count \in Nat
    BY DEF FollowerCounts, Inv, TypeOK, Followers
<1> DEFINE Counted(g) == /\ g = next /\ g.issue = i /\ g.clarification = f.clarification /\ g.step = "counted"
                         /\ g.outcome = f.outcome /\ g.count = f.count
<1>1. PICK g \in Followers : Counted(g)
    <2>1. next \in Followers /\ Counted(next)
        BY <1>0 DEF Followers
    <2> QED
        BY <2>1
<1> HIDE DEF next
<1>2. /\ followers' \subseteq (followers \ {f}) \cup {g}
      /\ g \in followers' => f.count >= Threshold \/ g \in followers \ {f}
    BY <1>1 DEF FollowerCounts, Becomes, Ends, Pauses, next
<1>3. /\ followers' \subseteq Followers /\ RepliesSound' /\ LaneSound' /\ FollowersSound' /\ Alone'
      /\ \A j, c : Covers(j, c)' = Covers(j, c)
    BY <1>0, <1>1, <1>2, FollowerMoves
<1>4. /\ failures' \in [Issues -> Nat] /\ streak' \in [Issues -> Nat]
      /\ \A j \in Issues : failures'[j] = IF j = i THEN f.count ELSE failures[j]
      /\ \A j \in Issues : streak'[j] = IF f.outcome = "delivered" /\ j = i THEN 0 ELSE streak[j]
    BY <1>0 DEF FollowerCounts, Inv, TypeOK
<1>5. TypeOK'
    BY <1>0, <1>3, <1>4 DEF Inv, TypeOK, people
<1>6. HoldSound'
    BY <1>0, <1>3 DEF Inv, HoldSound
<1>7. i \notin raced => \/ (f.outcome = "failure" /\ f.count <= streak[i])
                       \/ (f.outcome = "delivered" /\ f.count = 0)
    BY <1>0 DEF Inv, CountsSound, CountSound
<1>8. CountsSound'
    <2>1. ASSUME NEW j \in Issues \ raced PROVE failures'[j] <= streak'[j]
        <3>1. CASE j = i
            BY <1>4, <1>7, <2>1, <3>1
        <3>2. CASE j # i
            BY <1>4, <3>2 DEF Inv, CountsSound
        <3> QED
            BY <3>1, <3>2
    <2>2. ASSUME NEW h \in followers', h.issue \notin raced PROVE CountSound(h)'
        <3>1. CASE h \in followers \ {f}
            <4>1. h.issue # i /\ h.issue \in Issues /\ CountSound(h)
                BY <2>2, <3>1 DEF Inv, Alone, CountsSound, TypeOK, Followers
            <4>2. failures'[h.issue] = failures[h.issue] /\ streak'[h.issue] = streak[h.issue]
                BY <1>4, <4>1
            <4> QED
                BY <4>1, <4>2 DEF CountSound
        <3>2. CASE h \notin followers \ {f}
            <4>1. h = g /\ f.count >= Threshold
                BY <1>2, <3>2
            <4>2. f.outcome = "failure" /\ f.count <= streak[i]
                BY <1>0, <1>1, <1>7, <2>2, <4>1, BacklogAssumption
            <4> QED
                BY <1>0, <1>1, <1>4, <4>1, <4>2 DEF CountSound
        <3> QED
            BY <3>1, <3>2
    <2> QED
        BY <1>0, <2>1, <2>2 DEF CountsSound
<1> QED
    BY <1>3, <1>5, <1>6, <1>8 DEF Inv

(* The follower ends, after it paused the issue or before it could.        *)
LEMMA EndStep ==
    ASSUME Inv, NEW f \in followers, FollowerPauses(f) \/ FollowerDies(f)
    PROVE  Inv'
<1>0. /\ UNCHANGED <<people, asked, pulls, hold, failures, lane, run, history>>
      /\ paused' \subseteq Issues /\ followers' = followers \ {f} /\ f \in Followers
    BY DEF FollowerPauses, FollowerDies, Ends, Inv, TypeOK, Followers
<1>1. f.step = "read" => f.seen # None
    BY DEF Inv, FollowersSound
<1>2. /\ followers' \subseteq Followers /\ RepliesSound' /\ LaneSound' /\ FollowersSound' /\ Alone'
      /\ \A j, c : Covers(j, c)' = Covers(j, c)
    BY <1>0, <1>1, FollowerMoves DEF history
<1>3. TypeOK' /\ HoldSound'
    BY <1>0, <1>2 DEF Inv, TypeOK, HoldSound, people, history
<1>4. CountsSound'
    BY <1>0 DEF Inv, CountsSound, CountSound, history
<1> QED
    BY <1>2, <1>3, <1>4 DEF Inv

(* Every step keeps the invariant.                                         *)
LEMMA Inductive == Inv /\ [Next]_vars => Inv'
<1> SUFFICES ASSUME Inv, [Next]_vars PROVE Inv'
    OBVIOUS
<1>1. CASE Lane
    BY <1>1, PrepareStep, ReserveStep, PrepareFailsStep, SessionStep DEF Lane
<1>2. CASE Follower
    BY <1>2, ReadStep, DecideStep, CountStep, EndStep DEF Follower
<1>3. CASE People
    <2>1. acts' \in 0..MaxActs
        BY <1>3, BacklogAssumption DEF People, Inv, TypeOK
    <2>2. PICK i \in Issues : \/ Reply(i) \/ EditReply(i) \/ DeleteReply(i) \/ SetPaused(i)
                             \/ WriteObjective(i) \/ OpenPull(i)
                             \/ \E merged \in BOOLEAN : ClosePull(i, merged)
        BY <1>3 DEF People
    <2>3. CASE Reply(i) \/ EditReply(i) \/ DeleteReply(i)
        BY <2>1, <2>3, RepliesStep
    <2>4. CASE SetPaused(i) \/ WriteObjective(i) \/ OpenPull(i) \/ \E merged \in BOOLEAN : ClosePull(i, merged)
        <3>1. /\ UNCHANGED <<replies, lastReply, asked, hold, failures, lane, followers, run, history>>
              /\ open' \subseteq Issues /\ paused' \subseteq Issues /\ objective' \subseteq Issues
              /\ pulls' \subseteq Issues
            BY <2>4 DEF SetPaused, WriteObjective, OpenPull, ClosePull, bots, Inv, TypeOK
        <3>2. TypeOK'
            BY <2>1, <3>1 DEF Inv, TypeOK, history
        <3> QED
            BY <3>1, <3>2, LabelStep
    <2> QED
        BY <2>2, <2>3, <2>4
<1>4. CASE UNCHANGED vars
    <2>1. TypeOK'
        BY <1>4 DEF vars, history, Inv, TypeOK
    <2> QED
        BY <1>4, <2>1, LabelStep DEF vars, history
<1> QED
    BY <1>1, <1>2, <1>3, <1>4 DEF Next

(* The invariant holds in every state of every behaviour.                  *)
LEMMA Always == Spec => []Inv
BY Initially, Inductive, PTL DEF Spec

(* Every variable keeps its type.                                          *)
THEOREM TypeCorrect == Spec => []TypeOK
BY Always, PTL DEF Inv

(* A reply that no session was given releases the hold of its issue,       *)
(* however edits, deletions, runs and followers interleave (queue_state,   *)
(* reserve_selection, classify_outcome of record_azure_agentic_outcome.py).       *)
THEOREM RepliesCount == Spec => []NoReplyLost
<1>1. Inv => NoReplyLost
    <2> SUFFICES ASSUME Inv, NEW i \in Issues, NEW c \in replies[i],
                        \A d \in given[i] : d.id < c.id, Held(i), ~Fresh(i)
                 PROVE  FALSE
        BY DEF NoReplyLost, Waiting
    <2> DEFINE m == Clarification(i)
               d == hold[i].consumed
    <2>1. replies[i] \subseteq Replies /\ given[i] \subseteq Replies /\ None \notin Replies
          /\ \A e \in Replies : e.id \in Nat
        BY BacklogAssumption DEF Inv, TypeOK, Replies
    <2>2. m \in replies[i] /\ c.id <= m.id
        BY <2>1, Newest
    <2>3. d \in given[i] \cup {None}
        BY DEF Inv, HoldSound, Held
    <2>4. ~(m # None /\ m # d /\ (d = None \/ m.id >= d.id))
        BY DEF Fresh
    <2> HIDE DEF m, d
    <2> QED
        BY <2>1, <2>2, <2>3, <2>4
<1> QED
    BY <1>1, Always, PTL

(* A reply lets a held issue be evaluated once, unless a lane overtook a   *)
(* follower of the issue (reserve_selection).                              *)
THEOREM RepliesCountOnce == Spec => OneEvaluationPerReply
<1>1. Inv /\ [Next]_vars =>
          [(lane.phase = "prepared" /\ lane'.phase = "session" /\ lane.held)
               => lane.clarification \notin spent[lane.issue] \/ lane.issue \in raced]_vars
    <2> SUFFICES ASSUME Inv, lane.phase = "prepared", lane.held
                 PROVE  lane.clarification \notin spent[lane.issue] \/ lane.issue \in raced
        OBVIOUS
    <2> QED
        BY LaneAtWork DEF Inv, LaneSound
<1> QED
    BY <1>1, Always, PTL DEF Spec, OneEvaluationPerReply

(* No issue is paused for fewer than Threshold failed sessions since its   *)
(* last recorded delivery, unless a lane overtook a follower of the issue  *)
(* (decide and the count in the failure comment).                  *)
THEOREM PausesAreEarned == Spec => []CountIsEarned
<1>1. Inv => CountIsEarned
    <2> SUFFICES ASSUME Inv PROVE CountIsEarned
        OBVIOUS
    <2>1. ASSUME NEW f \in followers, f.step = "counted", f.issue \notin raced
          PROVE  streak[f.issue] >= Threshold
        <3>1. f.issue \in Issues /\ f.count \in Nat /\ CountSound(f)
            BY <2>1 DEF Inv, TypeOK, Followers, CountsSound
        <3>2. streak[f.issue] \in Nat /\ Threshold \in Nat
            BY <3>1, BacklogAssumption DEF Inv, TypeOK
        <3> QED
            BY <2>1, <3>1, <3>2 DEF CountSound
    <2> QED
        BY <2>1 DEF Inv, CountsSound, CountIsEarned
<1> QED
    BY <1>1, Always, PTL
=============================================================================
