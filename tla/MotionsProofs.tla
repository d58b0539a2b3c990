--------------------------- MODULE MotionsProofs ----------------------------
(***************************************************************************)
(* Proofs about Motions, for any nodes, citizens, motions, requests and    *)
(* approval percentage: the types, ApprovalBacked, RoleEarned,             *)
(* StatusAdvances and ConfirmedVotesStand.                                 *)
(***************************************************************************)
EXTENDS Motions, FiniteSetTheorems, TLAPS

-----------------------------------------------------------------------------
(* Types.                                                                   *)

(* The threshold is a number, and a count of citizens is one.               *)
LEMMA CountIsNat == ASSUME NEW S, S \subseteq Citizen PROVE Cardinality(S) \in Nat
BY MotionsAssumption, FS_Subset, FS_CardinalityType

LEMMA ThresholdIsNat == Threshold \in Nat
<1> DEFINE count == Cardinality(Citizen)
           share == (count * ApprovalPercent + 99) \div 100
<1>1. count \in Nat /\ ApprovalPercent \in Nat  BY CountIsNat, MotionsAssumption
<1>2. count * ApprovalPercent \in Nat  BY <1>1
<1> HIDE DEF count
<1>3. share \in Int /\ (share < 1 \/ share \in Nat)  BY <1>2
<1> HIDE DEF share
<1>4. (IF count = 0 \/ share < 1 THEN 1 ELSE share) \in Nat  BY <1>3
<1> QED  BY <1>4 DEF Threshold, approval_threshold, share, count

(* What a request is about.                                                 *)
LEMMA RequestTypes ==
    ASSUME NEW r \in Request
    PROVE  /\ r.node \in Node /\ r.motion \in Motion
           /\ r.op \in {"propose", "vote", "appoint", "post"}
           /\ r.op # "post" => r.citizen \in Citizen /\ r.choice \in Choice
           /\ r.op = "appoint" => r.motion \in Candidacy
           /\ r.op = "post" => r.event \in Event /\ r.event.motion = r.motion
<1>1. r \in Asking \/ r \in Posting  BY MotionsAssumption
<1> QED  BY <1>1, MotionsAssumption DEF Asking, Posting

(* The events of the handlers are events.                                   *)
LEMMA EventTypes ==
    ASSUME NEW type \in EventType, NEW m \in KindOf(type), m \in Motion,
           NEW c \in Citizen \cup {nobody}, NEW w \in Roles, NEW choice \in Choice,
           NEW threshold \in Nat, NEW time \in Nat,
           type \in Votes => c \in Citizen, type = "CandidateNominated" => w \in Governance
    PROVE  EventOf(type, m, c, w, choice, threshold, time) \in Event
<1> DEFINE id == EventOf(type, m, c, w, choice, threshold, time).id
<1>1. Rank(type, m) \in Nat  BY DEF Rank
<1>2. id \in EventId  BY <1>1 DEF EventId, EventOf
<1>3. EventOf(type, m, c, w, choice, threshold, time)
        = [id |-> id, type |-> type, motion |-> m, citizen |-> c, role |-> w,
           choice |-> choice, threshold |-> threshold, time |-> time]
      BY DEF EventOf
<1> HIDE DEF id
<1> QED  BY <1>2, <1>3 DEF Event

(* The rows that handlers insert.                                           *)
LEMMA OpenRows ==
    ASSUME NEW threshold \in Nat, NEW c \in Citizen \cup {nobody}, NEW w \in Roles
    PROVE  /\ OpenRow(threshold, c, w) \in Row
           /\ OpenRow(threshold, c, w).status = "open"
           /\ OpenRow(threshold, c, w).tally = 0
           /\ OpenRow(threshold, c, w).threshold = threshold
           /\ OpenRow(threshold, c, w).citizen = c /\ OpenRow(threshold, c, w).role = w
BY DEF OpenRow, Row, Status

LEMMA NominatedRow ==
    ASSUME NEW m \in Candidacy
    PROVE  /\ Nominated(m) \in Row /\ Nominated(m).status = "open"
           /\ Nominated(m).tally = 0 /\ Nominated(m).threshold = Threshold
           /\ Nominated(m).citizen = Candidate[m] /\ Nominated(m).role = TargetRole[m]
<1>1. Candidate[m] \in Citizen /\ TargetRole[m] \in Roles
      BY MotionsAssumption DEF Roles
<1> QED  BY <1>1, ThresholdIsNat, OpenRows DEF Nominated

LEMMA NominationEvent ==
    ASSUME NEW m \in Candidacy, NEW time \in Nat
    PROVE  /\ Nomination(m, time) \in Event
           /\ Nomination(m, time).type = "CandidateNominated"
           /\ Nomination(m, time).motion = m /\ Nomination(m, time).threshold = Threshold
           /\ Nomination(m, time).citizen = Candidate[m]
           /\ Nomination(m, time).role = TargetRole[m]
<1>1. /\ Candidate[m] \in Citizen /\ TargetRole[m] \in Governance
      /\ TargetRole[m] \in Roles
      BY MotionsAssumption DEF Roles
<1>2. /\ "CandidateNominated" \in EventType /\ m \in KindOf("CandidateNominated")
      /\ m \in Motion /\ "For" \in Choice /\ "CandidateNominated" \notin Votes
      BY DEF EventType, KindOf, Motion, Choice, Votes
<1>3. Nomination(m, time) \in Event
      BY <1>1, <1>2, ThresholdIsNat, EventTypes DEF Nomination
<1> QED  BY <1>3 DEF Nomination, EventOf

LEMMA MoveType ==
    ASSUME TypeOK, NEW r \in Request, NEW p \in Phase, NEW t \in Nat, NEW k \in Nat,
           Move(r, p, t, k)
    PROVE  at' \in [Request -> [phase : Phase, time : Nat, count : Nat]]
<1>1. Place("done", 0, 0) \in [phase : Phase, time : Nat, count : Nat]
      BY DEF Place, Phase
<1>2. Place(p, t, k) \in [phase : Phase, time : Nat, count : Nat]  BY DEF Place
<1> QED  BY <1>1, <1>2 DEF Move, TypeOK

LEMMA AdvanceType ==
    ASSUME TypeOK, NEW r \in Request, NEW p \in Phase, Advance(r, p) \/ Stamp(r, p)
    PROVE  at' \in [Request -> [phase : Phase, time : Nat, count : Nat]]
BY MoveType DEF Advance, Stamp, TypeOK

LEMMA TypeInit == Init => TypeOK
<1> SUFFICES ASSUME Init PROVE TypeOK  OBVIOUS
<1> PICK s \in Scenarios :
          /\ at = [r \in Request |-> Place(IF r \in s.asked THEN "new" ELSE "done", 0, 0)]
          /\ motion = [n \in Node |-> [m \in Motion |->
                         IF m \in s.standing THEN Nominated(m) ELSE NoRow]]
          /\ log = <<{Nomination(m, 0) : m \in s.standing}>>
          /\ now = s.start
    BY DEF Init
<1>1. s.standing \subseteq Candidacy /\ s.start \in Nat  BY MotionsAssumption
<1>2. NoRow \in Row /\ \A m \in s.standing : Nominated(m) \in Row
      BY <1>1, NominatedRow DEF NoRow, Row, Status, Roles
<1>3. motion \in [Node -> [Motion -> Row]]  BY <1>2
<1>4. at \in [Request -> [phase : Phase, time : Nat, count : Nat]]
      BY DEF Place, Phase
<1>5. \A m \in s.standing : Nomination(m, 0) \in Event
      BY <1>1, NominationEvent
<1>6. log \in Seq(SUBSET Event)  BY <1>5
<1>7. tx \in [node : Node, todo : SUBSET Event]
      BY MotionsAssumption DEF Init, NoTx, Transaction
<1>8. role \in [Node -> [Citizen -> Roles]]  BY DEF Init, Roles
<1> QED  BY <1>1, <1>3, <1>4, <1>6, <1>7, <1>8 DEF Init, TypeOK

(* Updates of one entry keep the type of a table.                           *)
LEMMA Update2 ==
    ASSUME NEW I, NEW J, NEW S, NEW f \in [I -> [J -> S]], NEW i \in I, NEW j \in J,
           NEW s \in S
    PROVE  [f EXCEPT ![i][j] = s] \in [I -> [J -> S]]
<1>1. f[i] \in [J -> S]  OBVIOUS
<1>2. [f[i] EXCEPT ![j] = s] \in [J -> S]  BY <1>1
<1> QED  BY <1>2

LEMMA Update3 ==
    ASSUME NEW I, NEW J, NEW K, NEW S, NEW f \in [I -> [J -> [K -> S]]],
           NEW i \in I, NEW j \in J, NEW k \in K, NEW s \in S
    PROVE  [f EXCEPT ![i][j][k] = s] \in [I -> [J -> [K -> S]]]
<1>1. f[i] \in [J -> [K -> S]]  OBVIOUS
<1>2. [f[i] EXCEPT ![j][k] = s] \in [J -> [K -> S]]  BY <1>1, Update2
<1> QED  BY <1>2

(* What the rows hold.                                                      *)
LEMMA RowTypes ==
    ASSUME TypeOK, NEW n \in Node, NEW m \in Motion
    PROVE  /\ motion[n][m] \in Row
           /\ ballot[n][m] \in [Citizen -> Choice \cup {"none"}]
           /\ For(n, m) \in Nat
<1>1. {c \in Citizen : ballot[n][m][c] = "For"} \subseteq Citizen  OBVIOUS
<1> QED  BY <1>1, CountIsNat DEF TypeOK, For

LEMMA CheckTypes ==
    ASSUME TypeOK, NEW r \in Request,
           \/ ProposeCheck(r) \/ VoteCheck(r) \/ ThresholdCheck(r) \/ AppointCheck(r)
           \/ Abandon(r) \/ CountVotes(r)
    PROVE  TypeOK'
<1>1. at' \in [Request -> [phase : Phase, time : Nat, count : Nat]]
  <2>1. at[r].time \in Nat /\ now \in Nat  BY DEF TypeOK
  <2>2. For(r.node, r.motion) \in Nat  BY RequestTypes, RowTypes
  <2>3. CASE CountVotes(r)  BY <2>1, <2>2, <2>3, MoveType DEF CountVotes, Phase
  <2>4. CASE ThresholdCheck(r)  BY <2>4, AdvanceType DEF ThresholdCheck, Phase
  <2>5. CASE ProposeCheck(r) \/ VoteCheck(r) \/ AppointCheck(r) \/ Abandon(r)
        BY <2>5, AdvanceType DEF ProposeCheck, VoteCheck, AppointCheck, Abandon, Phase
  <2> QED  BY <2>3, <2>4, <2>5
<1>2. UNCHANGED <<motion, ballot, role, chain, now, voted, posted>>
      BY DEF ProposeCheck, VoteCheck, ThresholdCheck, AppointCheck, Abandon, CountVotes
<1> QED  BY <1>1, <1>2 DEF TypeOK, chain

LEMMA ValidateTypes ==
    ASSUME TypeOK, NEW r \in Request, NEW e, NEW from, NEW to \in Phase,
           Validate(r, e, from, to)
    PROVE  TypeOK'
<1>1. at' \in [Request -> [phase : Phase, time : Nat, count : Nat]]
      BY AdvanceType DEF Validate, Phase
<1> QED  BY <1>1 DEF TypeOK, Validate, chain

LEMMA EnqueueTypes ==
    ASSUME TypeOK, NEW r \in Request, NEW e \in Event, NEW from, NEW to \in Phase,
           Enqueue(r, e, from, to)
    PROVE  TypeOK'
<1>1. at' \in [Request -> [phase : Phase, time : Nat, count : Nat]]
      BY AdvanceType DEF Enqueue
<1>2. r.node \in Node /\ pending[r.node] \cup {e} \in SUBSET Event
      BY RequestTypes DEF TypeOK
<1>3. pending' \in [Node -> SUBSET Event]  BY <1>2 DEF Enqueue, TypeOK
<1> QED  BY <1>1, <1>3 DEF TypeOK, Enqueue

LEMMA WriteTypes ==
    ASSUME TypeOK, NEW r \in Request, NEW open \in Row,
           \/ ProposeInsert(r, open) \/ refresh_vote_counts(r)
           \/ ApproveUpdate(r) \/ AppointUpdate(r)
    PROVE  TypeOK'
<1>1. at' \in [Request -> [phase : Phase, time : Nat, count : Nat]]
      BY AdvanceType DEF ProposeInsert, refresh_vote_counts, ApproveUpdate, AppointUpdate, Phase
<1>2. motion' \in [Node -> [Motion -> Row]]
  <2> DEFINE n == r.node  m == r.motion  row == motion[n][m]
  <2>1. n \in Node /\ m \in Motion /\ row \in Row  BY RequestTypes, RowTypes
  <2>2. at[r].count \in Nat  BY DEF TypeOK
  <2>3. /\ open \in Row
        /\ [row EXCEPT !.tally = at[r].count] \in Row
        /\ [row EXCEPT !.status = "approved"] \in Row
        /\ [row EXCEPT !.status = "appointed"] \in Row
        BY <2>1, <2>2 DEF Row, Status
  <2>4. \/ motion' = motion
        \/ \E new \in Row : motion' = [motion EXCEPT ![n][m] = new]
        BY <2>3 DEF ProposeInsert, refresh_vote_counts, ApproveUpdate, AppointUpdate
  <2>5. motion \in [Node -> [Motion -> Row]]  BY DEF TypeOK
  <2>6. ASSUME NEW new \in Row
        PROVE  [motion EXCEPT ![n][m] = new] \in [Node -> [Motion -> Row]]
        BY <2>1, <2>5, Update2
  <2> QED  BY <2>4, <2>5, <2>6
<1> QED  BY <1>1, <1>2 DEF TypeOK, ProposeInsert, refresh_vote_counts, ApproveUpdate,
                           AppointUpdate, chain

LEMMA VoteInsertTypes ==
    ASSUME TypeOK, NEW r \in Request, r.op = "vote", VoteInsert(r)
    PROVE  TypeOK'
<1>1. at' \in [Request -> [phase : Phase, time : Nat, count : Nat]]
      BY AdvanceType DEF VoteInsert, Phase
<1> DEFINE new == [ballot EXCEPT ![r.node][r.motion][r.citizen] = r.choice]
<1>2. new \in [Node -> [Motion -> [Citizen -> Choice \cup {"none"}]]]
      BY RequestTypes, Update3 DEF TypeOK
<1>3. ballot' = new \/ ballot' = ballot  BY DEF VoteInsert
<1>4. <<r.motion, r.citizen, r.choice>> \in Motion \X Citizen \X Choice
      BY RequestTypes
<1>5. voted' \subseteq Motion \X Citizen \X Choice  BY <1>4 DEF VoteInsert, TypeOK
<1> HIDE DEF new
<1> QED  BY <1>1, <1>2, <1>3, <1>5 DEF TypeOK, VoteInsert, chain

(* A posted event.                                                          *)
LEMMA PostTypes ==
    ASSUME TypeOK, NEW r \in Request, add_event(r)
    PROVE  TypeOK'
<1>1. r.op = "post" /\ r.event \in Event  BY RequestTypes DEF add_event
<1>2. CASE PostValidate(r)  BY <1>2, ValidateTypes DEF PostValidate, Phase
<1>3. CASE PostInsert(r)
  <2>1. at' \in [Request -> [phase : Phase, time : Nat, count : Nat]]
        BY <1>3, AdvanceType DEF PostInsert, Phase
  <2>2. r.node \in Node /\ pending[r.node] \cup {r.event} \in SUBSET Event
        BY <1>1, RequestTypes DEF TypeOK
  <2>3. pending' \in [Node -> SUBSET Event]  BY <1>3, <2>2 DEF PostInsert, TypeOK
  <2>4. VoteIn(r.event) \subseteq Motion \X Citizen \X Choice
        BY <1>1 DEF VoteIn, Event
  <2>5. voted' \subseteq Motion \X Citizen \X Choice /\ posted' \subseteq Event
        BY <1>1, <1>3, <2>4 DEF PostInsert, TypeOK
  <2> QED  BY <1>3, <2>1, <2>3, <2>5 DEF PostInsert, TypeOK
<1> QED  BY <1>2, <1>3 DEF add_event

(* The step of a request's handler.                                         *)
LEMMA HandleTypes ==
    ASSUME TypeOK, NEW r \in Request, Handle(r)
    PROVE  TypeOK'
<1>1. /\ r.motion \in Motion /\ at[r].time \in Nat /\ "Citizen" \in Roles
      /\ nobody \in Citizen \cup {nobody} /\ "For" \in Choice
      /\ Threshold \in Nat /\ 0 \in Nat /\ 1 \in Nat
      BY RequestTypes, ThresholdIsNat DEF Choice, Roles, TypeOK
<1>2. ASSUME NEW open \in Row, NEW e \in Event, Propose(r, open, e)
      PROVE  TypeOK'
  <2>2. CASE ProposeCheck(r)  BY <2>2, CheckTypes
  <2>3. CASE ProposeInsert(r, open)  BY <2>3, WriteTypes
  <2>4. CASE Validate(r, e, "inserted", "validated")  BY <2>4, ValidateTypes DEF Phase
  <2>5. CASE Enqueue(r, e, "validated", "done")  BY <2>5, EnqueueTypes DEF Phase
  <2> QED  BY <1>2, <2>2, <2>3, <2>4, <2>5 DEF Propose
<1>3. ASSUME NEW type \in Votes, NEW after \in Phase,
             r.motion \in KindOf(type), Vote(r, type, after)
      PROVE  TypeOK'
  <2> DEFINE e == EventOf(type, r.motion, r.citizen, "Citizen", r.choice, 0, at[r].time)
  <2>0. r.op = "vote"  BY <1>3 DEF Vote
  <2>1. e \in Event
    <3>1. /\ r.citizen \in Citizen /\ r.choice \in Choice /\ type \in EventType
          /\ type # "CandidateNominated"
          BY <2>0, RequestTypes DEF EventType, Votes
    <3> QED  BY <1>1, <1>3, <3>1, EventTypes
  <2> HIDE DEF e
  <2>2. CASE VoteCheck(r) \/ CountVotes(r)  BY <2>2, CheckTypes
  <2>3. CASE VoteInsert(r)  BY <2>0, <2>3, VoteInsertTypes
  <2>4. CASE refresh_vote_counts(r)
    <3>1. motion[r.node][r.motion] \in Row  BY RequestTypes, RowTypes
    <3> QED  BY <2>4, <3>1, WriteTypes
  <2>5. CASE Validate(r, e, "refreshed", "validated")  BY <2>5, ValidateTypes DEF Phase
  <2>6. CASE Enqueue(r, e, "validated", after)  BY <2>1, <2>6, EnqueueTypes
  <2> QED  BY <1>3, <2>2, <2>3, <2>4, <2>5, <2>6 DEF Vote, e
<1>4. ASSUME NEW type \in {"CandidateApproved", "LawVoteResult"}, r.motion \in KindOf(type),
             Approve(r, type)
      PROVE  TypeOK'
  <2> DEFINE e == EventOf(type, r.motion, nobody, "Citizen", "For", 0, at[r].time)
  <2>1. e \in Event
    <3>1. type \in EventType /\ type # "CandidateNominated" /\ type \notin Votes
          BY DEF EventType, Votes
    <3> QED  BY <1>1, <1>4, <3>1, EventTypes
  <2> HIDE DEF e
  <2>2. CASE ThresholdCheck(r)  BY <2>2, CheckTypes
  <2>3. CASE ApproveUpdate(r)
    <3>1. motion[r.node][r.motion] \in Row  BY RequestTypes, RowTypes
    <3> QED  BY <2>3, <3>1, WriteTypes
  <2>4. CASE Validate(r, e, "approved", "approvalValidated")
        BY <2>4, ValidateTypes DEF Phase
  <2>5. CASE Enqueue(r, e, "approvalValidated", "done")
        BY <2>1, <2>5, EnqueueTypes DEF Phase
  <2> QED  BY <1>4, <2>2, <2>3, <2>4, <2>5 DEF Approve, e
<1>5. ASSUME appoint_candidate(r) PROVE TypeOK'
  <2> DEFINE own == motion[r.node][r.motion]
             e == EventOf("CandidateAppointed", r.motion, own.citizen, own.role, "For", 0, at[r].time)
             f == EventOf("CitizenUpdated", r.motion, own.citizen, own.role, "For", 0, at[r].time)
  <2>1. /\ "CandidateAppointed" \in EventType /\ "CitizenUpdated" \in EventType
        /\ "CandidateAppointed" \notin Votes /\ "CitizenUpdated" \notin Votes
        /\ r.motion \in KindOf("CandidateAppointed")
        /\ r.motion \in KindOf("CitizenUpdated")
        BY <1>5, RequestTypes DEF EventType, KindOf, Votes, appoint_candidate
  <2>2. own \in Row  BY RequestTypes, RowTypes
  <2>3. own.citizen \in Citizen \cup {nobody} /\ own.role \in Roles  BY <2>2 DEF Row
  <2>4. e \in Event /\ f \in Event
    <3> HIDE DEF own
    <3> QED  BY <1>1, <2>1, <2>3, EventTypes
  <2>5. \/ AppointCheck(r) \/ AppointUpdate(r)
        \/ Validate(r, e, "inserted", "validated") \/ Enqueue(r, e, "validated", "submitted")
        \/ Validate(r, f, "submitted", "roleValidated") \/ Enqueue(r, f, "roleValidated", "done")
        BY <1>5 DEF appoint_candidate
  <2> HIDE DEF e, f, own
  <2>6. CASE AppointCheck(r)  BY <2>6, CheckTypes
  <2>7. CASE AppointUpdate(r)  BY <2>2, <2>7, WriteTypes
  <2>8. CASE \/ Validate(r, e, "inserted", "validated")
             \/ Validate(r, f, "submitted", "roleValidated")
        BY <2>8, ValidateTypes DEF Phase
  <2>9. CASE \/ Enqueue(r, e, "validated", "submitted")
             \/ Enqueue(r, f, "roleValidated", "done")
        BY <2>4, <2>9, EnqueueTypes DEF Phase
  <2> QED  BY <2>5, <2>6, <2>7, <2>8, <2>9
<1>6. "submitted" \in Phase /\ "done" \in Phase  BY DEF Phase
<1>7. CASE nominate_candidate(r)
      BY <1>1, <1>2, <1>7, NominatedRow, NominationEvent DEF nominate_candidate
<1>8. CASE propose_initiative(r)
  <2>1. OpenRow(Threshold, nobody, "Citizen") \in Row  BY <1>1, OpenRows
  <2>2. /\ "LawProposed" \in EventType /\ "LawProposed" \notin Votes
        /\ r.motion \in KindOf("LawProposed")
        BY <1>8 DEF EventType, Votes, KindOf, propose_initiative
  <2>3. EventOf("LawProposed", r.motion, nobody, "Citizen", "For", 1, at[r].time) \in Event
        BY <1>1, <2>2, EventTypes
  <2> QED  BY <1>2, <1>8, <2>1, <2>3 DEF propose_initiative
<1>9. CASE announce_referendum(r)
  <2>1. OpenRow(0, nobody, "Citizen") \in Row  BY <1>1, OpenRows
  <2>2. /\ "ElectionAnnounced" \in EventType /\ "ElectionAnnounced" \notin Votes
        /\ r.motion \in KindOf("ElectionAnnounced")
        BY <1>9 DEF EventType, Votes, KindOf, announce_referendum
  <2>3. EventOf("ElectionAnnounced", r.motion, nobody, "Citizen", "For", 0, at[r].time) \in Event
        BY <1>1, <2>2, EventTypes
  <2> QED  BY <1>2, <1>9, <2>1, <2>3 DEF announce_referendum
<1>10. CASE vote_for_candidate(r)
       BY <1>3, <1>4, <1>6, <1>10 DEF vote_for_candidate, Votes, KindOf
<1>11. CASE vote_on_initiative(r)
       BY <1>3, <1>4, <1>6, <1>11 DEF vote_on_initiative, Votes, KindOf
<1>12. CASE vote_on_referendum(r)
       BY <1>3, <1>6, <1>12 DEF vote_on_referendum, Votes, KindOf
<1>13. CASE Abandon(r)  BY <1>13, CheckTypes
<1>14. CASE add_event(r)  BY <1>14, PostTypes
<1> QED  BY <1>5, <1>7, <1>8, <1>9, <1>10, <1>11, <1>12, <1>13, <1>14 DEF Handle

(* The exchange of events and blocks.                                       *)
LEMMA SubmittedAreEvents == TypeOK => Submitted \subseteq Event
<1> SUFFICES ASSUME TypeOK PROVE Submitted \subseteq Event  OBVIOUS
<1>1. \A p \in Node : pending[p] \subseteq Event  BY DEF TypeOK
<1>2. \A k \in 1..Len(log) : log[k] \subseteq Event  BY DEF TypeOK
<1> QED  BY <1>1, <1>2 DEF Submitted

LEMMA BatchesAreEvents ==
    ASSUME TypeOK, NEW n \in Node, NEW reached \in SUBSET (Node \ {n}),
           NEW B \in Batches(n, reached)
    PROVE  B \subseteq Event
<1> DEFINE own == {e \in pending[n] : e.id \notin Ids(Confirmed(n))}
           theirs == {e \in UNION {pending[p] : p \in reached} :
                         e.id \notin Ids(own \cup Confirmed(n))}
<1>1. \A p \in Node : pending[p] \subseteq Event  BY DEF TypeOK
<1>2. own \subseteq Event /\ theirs \subseteq Event  BY <1>1
<1>3. B = own \cup theirs \/ \E S \in SUBSET theirs : B = own \cup S
      BY DEF Batches
<1> HIDE DEF own, theirs
<1> QED  BY <1>2, <1>3

LEMMA BeginTypes ==
    ASSUME TypeOK, NEW n \in Node, NEW B, B \subseteq Event, BeginProjection(n, B),
           log' \in Seq(SUBSET Event)
    PROVE  TypeOK'
<1>1. tx' \in [node : Node, todo : SUBSET Event]  BY DEF BeginProjection, Transaction
<1>2. height' \in [Node -> Nat]
  <2>1. height[n] + 1 \in Nat  BY DEF TypeOK
  <2> QED  BY <2>1 DEF BeginProjection, TypeOK
<1>3. pending' \in [Node -> SUBSET Event]
  <2>1. {e \in pending[n] : e.id \notin Ids(B)} \in SUBSET Event  BY DEF TypeOK
  <2> QED  BY <2>1 DEF BeginProjection, TypeOK
<1> QED  BY <1>1, <1>2, <1>3 DEF BeginProjection, TypeOK

LEMMA ExchangedTypes == TypeOK /\ Exchanged => TypeOK'
<1> SUFFICES ASSUME TypeOK, NEW n \in Node,
                    \/ \E e \in Submitted : Gossip(n, e)
                    \/ \E reached \in SUBSET (Node \ {n}) : ProduceBlock(n, reached)
                    \/ SyncBlock(n)
             PROVE  TypeOK'
    BY DEF Exchanged
<1>1. ASSUME NEW e \in Submitted, Gossip(n, e) PROVE TypeOK'
  <2>1. pending[n] \cup {e} \in SUBSET Event  BY SubmittedAreEvents DEF TypeOK
  <2>2. pending' \in [Node -> SUBSET Event]  BY <1>1, <2>1 DEF Gossip, TypeOK
  <2> QED  BY <1>1, <2>2 DEF Gossip, TypeOK
<1>2. ASSUME NEW reached \in SUBSET (Node \ {n}), ProduceBlock(n, reached) PROVE TypeOK'
  <2>1. PICK B \in Batches(n, reached) : log' = Append(log, B) /\ BeginProjection(n, B)
        BY <1>2 DEF ProduceBlock
  <2>2. B \in SUBSET Event  BY BatchesAreEvents
  <2>3. log' \in Seq(SUBSET Event)  BY <2>1, <2>2 DEF TypeOK
  <2> QED  BY <2>1, <2>2, <2>3, BeginTypes
<1>3. ASSUME SyncBlock(n) PROVE TypeOK'
  <2>1. height[n] + 1 \in 1..Len(log)  BY <1>3 DEF SyncBlock, TypeOK
  <2>2. log[height[n] + 1] \subseteq Event  BY <2>1 DEF TypeOK
  <2>3. log' \in Seq(SUBSET Event)  BY <1>3 DEF SyncBlock, TypeOK
  <2> QED  BY <1>3, <2>2, <2>3, BeginTypes DEF SyncBlock
<1> QED  BY <1>1, <1>2, <1>3

(* The projections.                                                         *)
LEMMA CountedTypes ==
    ASSUME TypeOK, NEW n \in Node, NEW e \in Event, Counted(n, e)
    PROVE  /\ motion' \in [Node -> [Motion -> Row]]
           /\ ballot' \in [Node -> [Motion -> [Citizen -> Choice \cup {"none"}]]]
<1> DEFINE m == e.motion
           row == [ballot[n][m] EXCEPT ![e.citizen] = e.choice]
           sum == Cardinality({c \in Citizen : row[c] = "For"})
           new == [motion[n][m] EXCEPT !.tally = sum]
<1>1. m \in Motion /\ e.choice \in Choice  BY DEF Event
<1>2. motion[n][m] \in Row /\ ballot[n][m] \in [Citizen -> Choice \cup {"none"}]
      BY <1>1, RowTypes
<1>3. row \in [Citizen -> Choice \cup {"none"}]  BY <1>1, <1>2
<1> HIDE DEF row
<1>4. sum \in Nat  BY CountIsNat
<1> HIDE DEF sum
<1>5. new \in Row  BY <1>2, <1>4 DEF Row
<1>6. ballot' = [ballot EXCEPT ![n][m] = row] /\ motion' = [motion EXCEPT ![n][m] = new]
      BY DEF Counted, row, sum
<1> HIDE DEF new, m
<1>7. [motion EXCEPT ![n][m] = new] \in [Node -> [Motion -> Row]]
      BY <1>1, <1>5, Update2 DEF TypeOK
<1>8. [ballot EXCEPT ![n][m] = row] \in [Node -> [Motion -> [Citizen -> Choice \cup {"none"}]]]
      BY <1>1, <1>3, Update2 DEF TypeOK
<1> QED  BY <1>6, <1>7, <1>8

LEMMA ProjectTypes == TypeOK /\ Project => TypeOK'
<1> SUFFICES ASSUME TypeOK, NEW e \in tx.todo,
                    \/ apply_candidate_nominated(tx.node, e)
                    \/ apply_candidate_voted(tx.node, e)
                    \/ apply_candidate_approved(tx.node, e)
                    \/ apply_candidate_appointed(tx.node, e)
                    \/ apply_citizen_updated(tx.node, e)
                    \/ apply_law_proposed(tx.node, e)
                    \/ apply_vote_cast(tx.node, e)
                    \/ apply_law_vote_result(tx.node, e)
                    \/ apply_election_announced(tx.node, e),
                    tx' = IF tx.todo = {e} THEN NoTx ELSE Transaction(tx.node, tx.todo \ {e}),
                    UNCHANGED <<pending, log, height, at, now, voted, posted>>
             PROVE  TypeOK'
    BY DEF Project
<1> DEFINE n == tx.node  m == e.motion
<1>1. n \in Node /\ e \in Event /\ tx.todo \subseteq Event  BY DEF TypeOK
<1>2. /\ m \in Motion /\ e.threshold \in Nat /\ motion[n][m] \in Row
      /\ e.citizen \in Citizen \cup {nobody} /\ e.role \in Roles
      BY <1>1, RowTypes DEF Event
<1>3. tx' \in [node : Node, todo : SUBSET Event]
      BY <1>1, MotionsAssumption DEF NoTx, Transaction
<1>4. /\ motion \in [Node -> [Motion -> Row]]
      /\ ballot \in [Node -> [Motion -> [Citizen -> Choice \cup {"none"}]]]
      /\ role \in [Node -> [Citizen -> Roles]]
      BY DEF TypeOK
<1>5. ASSUME NEW new \in Row
      PROVE  [motion EXCEPT ![n][m] = new] \in [Node -> [Motion -> Row]]
      BY <1>1, <1>2, <1>4, Update2
<1>6. [role EXCEPT ![n][e.citizen] = e.role] \in [Node -> [Citizen -> Roles]]
  <2>1. role[n] \in [Citizen -> Roles]  BY <1>1, <1>4
  <2>2. [role[n] EXCEPT ![e.citizen] = e.role] \in [Citizen -> Roles]  BY <1>2, <2>1
  <2> QED  BY <1>1, <1>4, <2>2
<1>7. /\ OpenRow(e.threshold, e.citizen, e.role) \in Row
      /\ [motion[n][m] EXCEPT !.status = "approved"] \in Row
      /\ [motion[n][m] EXCEPT !.status = "appointed"] \in Row
      BY <1>2, OpenRows DEF Row, Status
<1>8. CASE Created(n, e)  BY <1>3, <1>4, <1>5, <1>7, <1>8 DEF Created, TypeOK
<1>9. ASSUME Counted(n, e), e.type \in Votes PROVE TypeOK'
      BY <1>1, <1>3, <1>4, <1>9, CountedTypes DEF Counted, TypeOK
<1>10. CASE apply_candidate_approved(n, e) \/ apply_law_vote_result(n, e)
  <2>1. motion' = motion
        \/ motion' = [motion EXCEPT ![n][m] = [motion[n][m] EXCEPT !.status = "approved"]]
        BY <1>10 DEF apply_candidate_approved, apply_law_vote_result
  <2>2. motion' \in [Node -> [Motion -> Row]]  BY <1>4, <1>5, <1>7, <2>1
  <2>3. UNCHANGED <<ballot, role>>
        BY <1>10 DEF apply_candidate_approved, apply_law_vote_result
  <2> QED  BY <1>3, <1>4, <2>2, <2>3 DEF TypeOK
<1>11. CASE apply_candidate_appointed(n, e)
       BY <1>3, <1>4, <1>5, <1>6, <1>7, <1>11 DEF apply_candidate_appointed, TypeOK
<1>12. CASE apply_citizen_updated(n, e)
       BY <1>3, <1>4, <1>6, <1>12 DEF apply_citizen_updated, TypeOK
<1>13. CASE UNCHANGED <<motion, ballot, role>>  BY <1>3, <1>13 DEF TypeOK
<1> QED  BY <1>8, <1>9, <1>10, <1>11, <1>12, <1>13
         DEF apply_candidate_nominated, apply_law_proposed, apply_election_announced,
             apply_candidate_voted, apply_vote_cast, Votes

LEMMA TypeStep == TypeOK /\ [Next]_vars => TypeOK'
<1> SUFFICES ASSUME TypeOK, [Next]_vars PROVE TypeOK'  OBVIOUS
<1>1. CASE Project  BY <1>1, ProjectTypes
<1>2. CASE Tick  BY <1>2 DEF Tick, TypeOK, chain
<1>3. CASE Exchanged  BY <1>3, ExchangedTypes
<1>4. ASSUME NEW r \in Request, Handle(r) PROVE TypeOK'  BY <1>4, HandleTypes
<1>5. CASE UNCHANGED vars  BY <1>5 DEF vars, chain, TypeOK
<1> QED  BY <1>1, <1>2, <1>3, <1>4, <1>5 DEF Next

(* The rows, votes, roles, events and requests have their types, whatever   *)
(* citizens and nodes do: in particular every event is about a motion of    *)
(* its kind, which the projections rely on.                                 *)
THEOREM Types == Spec => []TypeOK
<1> QED  BY TypeInit, TypeStep, PTL DEF Spec

-----------------------------------------------------------------------------
(* StatusAdvances.  An update that has no condition on the status can only  *)
(* take it back if it is the insertion of a motion that is there already:   *)
(* a motion whose proposal has not inserted it is nowhere in the network.   *)

Nowhere ==
    \A m \in Motion : Unborn(m) =>
        /\ \A n \in Node : motion[n][m].status = "none"
        /\ \A e \in Submitted \cup tx.todo : e.motion # m
        /\ \A r \in Request : r.motion = m /\ r.op # "propose" =>
                               at[r].phase \in {"new", "done"}

AppointedCandidacies ==
    \A n \in Node, m \in Motion : motion[n][m].status = "appointed" => m \in Candidacy

\* A handler that appoints goes on with the row it has found.
Appointing ==
    \A r \in Request : r.op = "appoint" /\ at[r].phase \notin {"new", "done"} =>
                           motion[r.node][r.motion].status # "none"

StatusInv == TypeOK /\ Nowhere /\ AppointedCandidacies /\ Appointing

Advancing ==
    \A n \in Node, m \in Motion : StageOf(motion[n][m]) <= StageOf(motion'[n][m])

(* A row moves on.                                                          *)
LEMMA RowAdvances ==
    ASSUME StatusInv, NEW n \in Node, NEW m \in Motion, NEW row \in Row,
           StageOf(motion[n][m]) <= StageOf(row),
           row.status = "appointed" => m \in Candidacy,
           motion' = [motion EXCEPT ![n][m] = row]
    PROVE  /\ Advancing /\ AppointedCandidacies'
           /\ \A k \in Node, q \in Motion \ {m} : motion'[k][q] = motion[k][q]
<1>1. motion \in [Node -> [Motion -> Row]]  BY DEF StatusInv, TypeOK
<1>2. ASSUME NEW k \in Node, NEW q \in Motion, k # n \/ q # m
      PROVE  motion'[k][q] = motion[k][q]
      BY <1>1, <1>2
<1>3. motion'[n][m] = row  BY <1>1
<1>4. ASSUME NEW x \in Row PROVE StageOf(x) <= StageOf(x)
  <2>1. StageOf(x) \in Nat  BY DEF StageOf, Row, Status
  <2> QED  BY <2>1
<1>5. Advancing
  <2> SUFFICES ASSUME NEW k \in Node, NEW q \in Motion
               PROVE  StageOf(motion[k][q]) <= StageOf(motion'[k][q])
      BY DEF Advancing
  <2>1. motion[k][q] \in Row  BY <1>1
  <2>2. CASE k = n /\ q = m  BY <1>3, <2>2
  <2>3. CASE k # n \/ q # m  BY <1>2, <1>4, <2>1, <2>3
  <2> QED  BY <2>2, <2>3
<1>6. AppointedCandidacies'
      BY <1>2, <1>3 DEF AppointedCandidacies, StatusInv
<1> QED  BY <1>2, <1>5, <1>6

LEMMA RowsStay ==
    ASSUME StatusInv, UNCHANGED motion PROVE Advancing /\ AppointedCandidacies'
<1>1. AppointedCandidacies'  BY DEF StatusInv, AppointedCandidacies
<1>2. ASSUME NEW n \in Node, NEW m \in Motion
      PROVE  StageOf(motion[n][m]) <= StageOf(motion'[n][m])
  <2>1. motion[n][m] \in Row  BY RowTypes DEF StatusInv
  <2>2. StageOf(motion[n][m]) \in Nat  BY <2>1 DEF StageOf, Row, Status
  <2> QED  BY <2>2
<1> QED  BY <1>1, <1>2 DEF Advancing

(* A request moves on, and events are added, if any, on its motion only; it *)
(* can do so once the motion has been inserted, or is about to be by itself.*)
LEMMA RequestAdvances ==
    ASSUME StatusInv, NEW r \in Request,
           \A q \in Request \ {r} : at'[q] = at[q],
           r.op = "propose" /\ at'[r].phase \in {"new", "checked"} =>
              at[r].phase \in {"new", "checked"},
           \A n \in Node, m \in Motion \ {r.motion} : motion'[n][m] = motion[n][m],
           \A e \in (Submitted \cup tx.todo)' : e \in Submitted \cup tx.todo \/ e.motion = r.motion,
           \/ ~Unborn(r.motion)'
           \/ /\ r.op = "propose" /\ UNCHANGED motion
              /\ (Submitted \cup tx.todo)' \subseteq Submitted \cup tx.todo
    PROVE  Nowhere'
<1> SUFFICES ASSUME NEW m \in Motion, Unborn(m)'
             PROVE  /\ \A n \in Node : motion'[n][m].status = "none"
                    /\ \A e \in (Submitted \cup tx.todo)' : e.motion # m
                    /\ \A q \in Request : q.motion = m /\ q.op # "propose" =>
                                           at'[q].phase \in {"new", "done"}
    BY DEF Nowhere
<1>1. Unborn(m)
  <2>1. PICK q \in Request : /\ q.op = "propose" /\ q.motion = m
                             /\ at'[q].phase \in {"new", "checked"}
        BY DEF Unborn
  <2>2. at[q].phase \in {"new", "checked"}  BY <2>1
  <2> QED  BY <2>1, <2>2 DEF Unborn
<1>2. /\ \A n \in Node : motion[n][m].status = "none"
      /\ \A e \in Submitted \cup tx.todo : e.motion # m
      /\ \A q \in Request : q.motion = m /\ q.op # "propose" => at[q].phase \in {"new", "done"}
      BY <1>1 DEF StatusInv, Nowhere
<1>3. CASE m = r.motion
  <2>1. /\ r.op = "propose" /\ UNCHANGED motion
        /\ (Submitted \cup tx.todo)' \subseteq Submitted \cup tx.todo
        BY <1>3
  <2> QED  BY <1>2, <2>1
<1>4. CASE m # r.motion
  <2>1. \A n \in Node : motion'[n][m].status = "none"  BY <1>2, <1>4
  <2>2. \A e \in (Submitted \cup tx.todo)' : e.motion # m  BY <1>2, <1>4
  <2>3. \A q \in Request : q.motion = m => at'[q] = at[q]  BY <1>4
  <2> QED  BY <1>2, <2>1, <2>2, <2>3
<1> QED  BY <1>3, <1>4

(* A motion that a handler found, inserted, or has an event about is there. *)
LEMMA Born ==
    ASSUME StatusInv, NEW r \in Request,
           \A q \in Request \ {r} : at'[q] = at[q],
           \/ r.op # "propose" /\ at[r].phase \notin {"new", "done"}
           \/ r.op # "propose" /\ \E n \in Node : motion[n][r.motion].status # "none"
           \/ r.op # "propose" /\ ~Unborn(r.motion)
           \/ r.op = "propose" /\ at'[r].phase \notin {"new", "checked"}
    PROVE  ~Unborn(r.motion)'
<1> SUFFICES ASSUME Unborn(r.motion)' PROVE FALSE  OBVIOUS
<1>1. PICK q \in Request : /\ q.op = "propose" /\ q.motion = r.motion
                           /\ at'[q].phase \in {"new", "checked"}
      BY DEF Unborn
<1>2. q # r
  <2>1. CASE r.op = "propose"  BY <1>1, <2>1
  <2>2. CASE r.op # "propose"  BY <1>1, <2>2
  <2> QED  BY <2>1, <2>2
<1>3. at[q].phase \in {"new", "checked"}  BY <1>1, <1>2
<1>4. Unborn(r.motion)  BY <1>1, <1>3 DEF Unborn
<1>5. r.op # "propose"  BY <1>1, <1>2, MotionsAssumption
<1> QED  BY <1>4, <1>5, RequestTypes DEF StatusInv, Nowhere

LEMMA MoveShape ==
    ASSUME TypeOK, NEW r \in Request, NEW p, NEW t, NEW k, Move(r, p, t, k)
    PROVE  at'[r].phase = p /\ \A q \in Request \ {r} : at'[q] = at[q]
BY DEF Move, Place, TypeOK

Kept == Nowhere' /\ AppointedCandidacies' /\ Advancing

(* The three kinds of steps of a handler: it moves on only, adds an event,  *)
(* or writes a row.                                                         *)
LEMMA MoveAdvances ==
    ASSUME StatusInv, NEW r \in Request, NEW p, NEW t, NEW k, Move(r, p, t, k),
           \/ r.op = "propose" /\ (p = "checked" => at[r].phase = "new") /\ p # "new"
           \/ r.op # "propose" /\ at[r].phase \notin {"new", "done"}
           \/ r.op # "propose" /\ motion[r.node][r.motion].status # "none"
           \/ r.op # "propose" /\ ~Unborn(r.motion),
           UNCHANGED <<motion, ballot, role, chain, now, voted, posted>>
    PROVE  Kept
<1>1. at'[r].phase = p /\ \A q \in Request \ {r} : at'[q] = at[q]
      BY MoveShape DEF StatusInv
<1>2. (Submitted \cup tx.todo)' = Submitted \cup tx.todo  BY DEF Submitted, chain
<1>3. r.op = "propose" \/ ~Unborn(r.motion)'  BY <1>1, Born, RequestTypes
<1>4. Nowhere'  BY <1>1, <1>2, <1>3, RequestAdvances
<1> QED  BY <1>4, RowsStay DEF Kept

LEMMA ValidateAdvances ==
    ASSUME StatusInv, NEW r \in Request, NEW e, NEW from, NEW to,
           Validate(r, e, from, to), from \notin {"new", "done"}, to \notin {"new", "checked"}
    PROVE  Kept
BY MoveAdvances DEF Validate, Advance

LEMMA EnqueueAdvances ==
    ASSUME StatusInv, NEW r \in Request, NEW e, NEW from, NEW to,
           Enqueue(r, e, from, to), from \notin {"new", "done"}, to \notin {"new", "checked"},
           e.motion = r.motion
    PROVE  Kept
<1>1. at'[r].phase = to /\ \A q \in Request \ {r} : at'[q] = at[q]
      BY MoveShape DEF StatusInv, Enqueue, Advance
<1>2. ASSUME NEW f \in (Submitted \cup tx.todo)' PROVE f \in Submitted \cup tx.todo \cup {e}
  <2>1. \A n \in Node : pending'[n] \subseteq pending[n] \cup {e}
    <3>1. pending \in [Node -> SUBSET Event]  BY DEF StatusInv, TypeOK
    <3>2. \/ pending' = pending
          \/ pending' = [pending EXCEPT ![r.node] = @ \cup {e}]
          BY DEF Enqueue
    <3> QED  BY <3>1, <3>2
  <2>2. log' = log /\ tx' = tx  BY DEF Enqueue
  <2> QED  BY <1>2, <2>1, <2>2 DEF Submitted
<1>3. ~Unborn(r.motion)'  BY <1>1, Born DEF Enqueue
<1>4. motion' = motion  BY DEF Enqueue
<1>5. Nowhere'  BY <1>1, <1>2, <1>3, <1>4, RequestAdvances
<1> QED  BY <1>4, <1>5, RowsStay DEF Kept

LEMMA PostAdvances ==
    ASSUME StatusInv, NEW r \in Request, add_event(r) PROVE Kept
<1>1. r.op = "post" /\ r.event.motion = r.motion  BY RequestTypes DEF add_event
<1>2. CASE PostValidate(r)
      BY <1>1, <1>2, MoveAdvances DEF PostValidate, Validate, Advance
<1>3. CASE PostInsert(r)
  <2>1. at'[r].phase = "done" /\ \A q \in Request \ {r} : at'[q] = at[q]
        BY <1>3, MoveShape DEF StatusInv, PostInsert, Advance
  <2>2. ASSUME NEW f \in (Submitted \cup tx.todo)'
        PROVE  f \in Submitted \cup tx.todo \cup {r.event}
    <3>1. \A n \in Node : pending'[n] \subseteq pending[n] \cup {r.event}
      <4>1. pending \in [Node -> SUBSET Event]  BY DEF StatusInv, TypeOK
      <4>2. \/ pending' = pending
            \/ pending' = [pending EXCEPT ![r.node] = @ \cup {r.event}]
            BY <1>3 DEF PostInsert
      <4> QED  BY <4>1, <4>2
    <3>2. log' = log /\ tx' = tx  BY <1>3 DEF PostInsert
    <3> QED  BY <2>2, <3>1, <3>2 DEF Submitted
  <2>3. ~Unborn(r.motion)'  BY <1>1, <1>3, <2>1, Born DEF PostInsert
  <2>4. motion' = motion  BY <1>3 DEF PostInsert
  <2>5. Nowhere'  BY <1>1, <2>1, <2>2, <2>3, <2>4, RequestAdvances
  <2> QED  BY <2>4, <2>5, RowsStay DEF Kept
<1> QED  BY <1>2, <1>3 DEF add_event

LEMMA WriteAdvances ==
    ASSUME StatusInv, NEW r \in Request, NEW row \in Row, NEW p, NEW t, Move(r, p, t, 0),
           at[r].phase \notin {"new", "done"}, p \notin {"new", "checked"},
           StageOf(motion[r.node][r.motion]) <= StageOf(row),
           row.status = "appointed" => r.motion \in Candidacy,
           motion' = [motion EXCEPT ![r.node][r.motion] = row],
           UNCHANGED <<ballot, role, chain, now, voted, posted>>
    PROVE  Kept
<1>1. at'[r].phase = p /\ \A q \in Request \ {r} : at'[q] = at[q]
      BY MoveShape DEF StatusInv
<1>2. (Submitted \cup tx.todo)' = Submitted \cup tx.todo  BY DEF Submitted, chain
<1>3. ~Unborn(r.motion)'  BY <1>1, Born
<1>4. /\ Advancing /\ AppointedCandidacies'
      /\ \A n \in Node, m \in Motion \ {r.motion} : motion'[n][m] = motion[n][m]
      BY RequestTypes, RowAdvances
<1>5. Nowhere'  BY <1>1, <1>2, <1>3, <1>4, RequestAdvances
<1> QED  BY <1>4, <1>5 DEF Kept

(* The stages of rows.                                                      *)
LEMMA Stages ==
    ASSUME NEW row \in Row
    PROVE  /\ row.status = "none" => StageOf(row) = 0
           /\ row.status = "open" => StageOf(row) = 1
           /\ row.status = "approved" => StageOf(row) = 2
           /\ row.status = "appointed" => StageOf(row) = 3
           /\ StageOf(row) \in 0..3
BY DEF StageOf, Row, Status

LEMMA HandleAdvances ==
    ASSUME StatusInv, NEW r \in Request, Handle(r) PROVE Kept
<1> DEFINE own == motion[r.node][r.motion]
<1>1. own \in Row  BY RequestTypes, RowTypes DEF StatusInv
<1>2. ASSUME NEW open \in Row, open.status = "open", NEW e, e.motion = r.motion,
             Propose(r, open, e)
      PROVE  Kept
  <2>1. r.op = "propose" /\ e.motion = r.motion  BY <1>2 DEF Propose
  <2>2. CASE ProposeCheck(r)  BY <2>1, <2>2, MoveAdvances DEF ProposeCheck, Advance
  <2>3. CASE ProposeInsert(r, open)
    <3>1. Unborn(r.motion)  BY <2>1, <2>3 DEF Unborn, ProposeInsert
    <3>2. own.status = "none"  BY <3>1, RequestTypes DEF StatusInv, Nowhere
    <3>3. StageOf(own) <= StageOf(open)  BY <1>1, <1>2, <3>2, Stages
    <3> QED  BY <1>2, <2>3, <3>3, WriteAdvances DEF ProposeInsert, Stamp
  <2>4. CASE Validate(r, e, "inserted", "validated")  BY <2>4, ValidateAdvances
  <2>5. CASE Enqueue(r, e, "validated", "done")  BY <2>1, <2>5, EnqueueAdvances
  <2> QED  BY <1>2, <2>2, <2>3, <2>4, <2>5 DEF Propose
<1>3. ASSUME NEW type, NEW after \in {"submitted", "done"}, Vote(r, type, after)
      PROVE  Kept
  <2> DEFINE e == EventOf(type, r.motion, r.citizen, "Citizen", r.choice, 0, at[r].time)
  <2>1. r.op = "vote" /\ e.motion = r.motion  BY <1>3 DEF Vote, EventOf
  <2> HIDE DEF e
  <2>2. CASE VoteCheck(r)  BY <2>1, <2>2, MoveAdvances DEF VoteCheck, Advance
  <2>3. CASE VoteInsert(r)
    <3>1. \E p \in {"inserted", "done"} : \E t : Move(r, p, t, 0)
          BY <2>3 DEF VoteInsert, Stamp, Advance
    <3>2. PICK p \in {"inserted", "done"} : at'[r].phase = p /\ \A q \in Request \ {r} : at'[q] = at[q]
          BY <3>1, MoveShape DEF StatusInv
    <3>3. (Submitted \cup tx.todo)' = Submitted \cup tx.todo
          BY <2>3 DEF VoteInsert, Submitted, chain
    <3>4. motion' = motion  BY <2>3 DEF VoteInsert
    <3>5. ~Unborn(r.motion)'  BY <2>1, <2>3, <3>2, Born DEF VoteInsert
    <3>6. Nowhere'  BY <2>1, <3>2, <3>3, <3>4, <3>5, RequestAdvances
    <3> QED  BY <3>4, <3>6, RowsStay DEF Kept
  <2>4. CASE CountVotes(r)  BY <2>1, <2>4, MoveAdvances DEF CountVotes
  <2>5. CASE refresh_vote_counts(r)
    <3> DEFINE row == [own EXCEPT !.tally = at[r].count]
    <3>1. at[r].count \in Nat  BY DEF StatusInv, TypeOK
    <3>2. row \in Row /\ row.status = own.status  BY <1>1, <3>1 DEF Row
    <3>3. StageOf(own) <= StageOf(row)  BY <1>1, <3>2, Stages DEF Row, Status
    <3>4. own.status = "appointed" => r.motion \in Candidacy
          BY RequestTypes DEF StatusInv, AppointedCandidacies
    <3>5. motion' = [motion EXCEPT ![r.node][r.motion] = row]
          BY <2>5 DEF refresh_vote_counts
    <3> HIDE DEF row
    <3> QED  BY <2>5, <3>2, <3>3, <3>4, <3>5, WriteAdvances DEF refresh_vote_counts, Advance
  <2>6. CASE Validate(r, e, "refreshed", "validated")  BY <2>6, ValidateAdvances
  <2>7. CASE Enqueue(r, e, "validated", after)  BY <2>1, <2>7, EnqueueAdvances
  <2> QED  BY <1>3, <2>2, <2>3, <2>4, <2>5, <2>6, <2>7 DEF Vote, e
<1>4. ASSUME NEW type, r.op = "vote", Approve(r, type) PROVE Kept
  <2> DEFINE e == EventOf(type, r.motion, nobody, "Citizen", "For", 0, at[r].time)
  <2>1. e.motion = r.motion  BY DEF EventOf
  <2> HIDE DEF e
  <2>2. CASE ThresholdCheck(r)  BY <1>4, <2>2, MoveAdvances DEF ThresholdCheck, Stamp
  <2>3. CASE ApproveUpdate(r)
    <3> DEFINE row == [own EXCEPT !.status = "approved"]
    <3>1. row \in Row /\ row.status = "approved"  BY <1>1 DEF Row, Status
    <3>2. CASE own.status = "open"
      <4>1. motion' = [motion EXCEPT ![r.node][r.motion] = row]
            BY <2>3, <3>2 DEF ApproveUpdate
      <4> HIDE DEF row
      <4>2. StageOf(own) <= StageOf(row)  BY <1>1, <3>1, <3>2, Stages
      <4> QED  BY <2>3, <3>1, <4>1, <4>2, WriteAdvances DEF ApproveUpdate, Advance
    <3>3. CASE own.status # "open"
          BY <1>4, <2>3, <3>3, MoveAdvances DEF ApproveUpdate, Advance
    <3> QED  BY <3>2, <3>3
  <2>4. CASE Validate(r, e, "approved", "approvalValidated")  BY <2>4, ValidateAdvances
  <2>5. CASE Enqueue(r, e, "approvalValidated", "done")  BY <2>1, <2>5, EnqueueAdvances
  <2> QED  BY <1>4, <2>2, <2>3, <2>4, <2>5 DEF Approve, e
<1>5. CASE appoint_candidate(r)
  <2> DEFINE e == EventOf("CandidateAppointed", r.motion, own.citizen, own.role, "For", 0, at[r].time)
             f == EventOf("CitizenUpdated", r.motion, own.citizen, own.role, "For", 0, at[r].time)
  <2>1. r.op = "appoint" /\ e.motion = r.motion /\ f.motion = r.motion
        BY <1>5 DEF appoint_candidate, EventOf
  <2> HIDE DEF e, f
  <2>2. CASE AppointCheck(r)  BY <2>1, <2>2, MoveAdvances DEF AppointCheck, Advance
  <2>3. CASE AppointUpdate(r)
    <3> DEFINE row == [own EXCEPT !.status = "appointed"]
    <3>1. row \in Row /\ row.status = "appointed"  BY <1>1 DEF Row, Status
    <3>2. motion' = [motion EXCEPT ![r.node][r.motion] = row]  BY <2>3 DEF AppointUpdate
    <3>3. r.motion \in Candidacy  BY <2>1, RequestTypes
    <3> HIDE DEF row
    <3>4. StageOf(own) <= StageOf(row)  BY <1>1, <3>1, Stages
    <3> QED  BY <2>3, <3>1, <3>2, <3>3, <3>4, WriteAdvances DEF AppointUpdate, Stamp
  <2>4. CASE \/ Validate(r, e, "inserted", "validated")
             \/ Validate(r, f, "submitted", "roleValidated")
        BY <2>4, ValidateAdvances
  <2>5. CASE \/ Enqueue(r, e, "validated", "submitted")
             \/ Enqueue(r, f, "roleValidated", "done")
        BY <2>1, <2>5, EnqueueAdvances
  <2> QED  BY <1>5, <2>2, <2>3, <2>4, <2>5 DEF appoint_candidate, e, f
<1>6. CASE Abandon(r)  BY <1>6, RequestTypes, MoveAdvances DEF Abandon, Advance
<1>7. CASE nominate_candidate(r) \/ propose_initiative(r) \/ announce_referendum(r)
  <2>1. /\ OpenRow(Threshold, nobody, "Citizen") \in Row
        /\ OpenRow(Threshold, nobody, "Citizen").status = "open"
        /\ OpenRow(0, nobody, "Citizen") \in Row
        /\ OpenRow(0, nobody, "Citizen").status = "open"
        BY ThresholdIsNat, OpenRows DEF Roles
  <2>2. at[r].time \in Nat  BY DEF StatusInv, TypeOK
  <2>3. /\ EventOf("LawProposed", r.motion, nobody, "Citizen", "For", 1, at[r].time).motion
             = r.motion
        /\ EventOf("ElectionAnnounced", r.motion, nobody, "Citizen", "For", 0, at[r].time).motion
             = r.motion
        BY DEF EventOf
  <2> QED  BY <1>2, <1>7, <2>1, <2>2, <2>3, NominatedRow, NominationEvent
           DEF nominate_candidate, propose_initiative, announce_referendum
<1>8. CASE vote_for_candidate(r) \/ vote_on_initiative(r) \/ vote_on_referendum(r)
      BY <1>3, <1>4, <1>8 DEF vote_for_candidate, vote_on_initiative, vote_on_referendum
<1>9. CASE add_event(r)  BY <1>9, PostAdvances
<1> QED  BY <1>5, <1>6, <1>7, <1>8, <1>9 DEF Handle

(* The exchange of events adds none on a motion that is nowhere.            *)
LEMMA EventsAdvance ==
    ASSUME StatusInv, (Submitted \cup tx.todo)' \subseteq Submitted \cup tx.todo,
           UNCHANGED <<motion, ballot, role, at, now, voted, posted>>
    PROVE  Kept
<1>1. ASSUME NEW m \in Motion, Unborn(m)'
      PROVE  /\ \A n \in Node : motion'[n][m].status = "none"
             /\ \A e \in (Submitted \cup tx.todo)' : e.motion # m
             /\ \A r \in Request : r.motion = m /\ r.op # "propose" =>
                                    at'[r].phase \in {"new", "done"}
  <2>1. Unborn(m)  BY <1>1 DEF Unborn
  <2> QED  BY <2>1 DEF StatusInv, Nowhere
<1>2. Nowhere'  BY <1>1 DEF Nowhere
<1> QED  BY <1>2, RowsStay DEF Kept

LEMMA BeginMoves ==
    ASSUME TypeOK, NEW n \in Node, NEW B, B \subseteq Submitted, BeginProjection(n, B),
           log' = log \/ log' = Append(log, B)
    PROVE  (Submitted \cup tx.todo)' \subseteq Submitted \cup tx.todo
<1>1. \A p \in Node : pending'[p] \subseteq pending[p]  BY DEF BeginProjection, TypeOK
<1>2. ASSUME NEW k \in 1..Len(log') PROVE log'[k] \subseteq Submitted
  <2>1. log \in Seq(SUBSET Event)  BY DEF TypeOK
  <2>2. log'[k] = B \/ (k \in 1..Len(log) /\ log'[k] = log[k])  BY <2>1
  <2> QED  BY <2>2 DEF Submitted
<1>3. tx.todo' = B  BY DEF BeginProjection, Transaction
<1>4. Submitted' \subseteq Submitted  BY <1>1, <1>2 DEF Submitted
<1> QED  BY <1>3, <1>4

(* What is exchanged has been submitted.                                    *)
LEMMA ExchangedMoves ==
    ASSUME TypeOK, Exchanged
    PROVE  /\ (Submitted \cup tx.todo)' \subseteq Submitted \cup tx.todo
           /\ UNCHANGED <<motion, ballot, role, at, now, voted, posted>>
<1> PICK n \in Node : \/ \E e \in Submitted : Gossip(n, e)
                      \/ \E reached \in SUBSET (Node \ {n}) : ProduceBlock(n, reached)
                      \/ SyncBlock(n)
    BY DEF Exchanged
<1>1. CASE \E e \in Submitted : Gossip(n, e)
  <2> PICK e \in Submitted : Gossip(n, e)  BY <1>1
  <2>1. \A p \in Node : pending'[p] \subseteq pending[p] \cup {e}
        BY DEF Gossip, TypeOK
  <2>2. (Submitted \cup tx.todo)' \subseteq Submitted \cup tx.todo
        BY <2>1 DEF Gossip, Submitted
  <2> QED  BY <2>2 DEF Gossip
<1>2. CASE \E reached \in SUBSET (Node \ {n}) : ProduceBlock(n, reached)
  <2> PICK reached \in SUBSET (Node \ {n}) : ProduceBlock(n, reached)  BY <1>2
  <2>1. PICK B \in Batches(n, reached) : log' = Append(log, B) /\ BeginProjection(n, B)
        BY DEF ProduceBlock
  <2>2. B \subseteq Submitted
    <3> DEFINE own == {e \in pending[n] : e.id \notin Ids(Confirmed(n))}
               theirs == {e \in UNION {pending[p] : p \in reached} :
                             e.id \notin Ids(own \cup Confirmed(n))}
    <3>1. own \subseteq Submitted /\ theirs \subseteq Submitted  BY DEF Submitted
    <3>2. B = own \cup theirs \/ \E S \in SUBSET theirs : B = own \cup S
          BY DEF Batches
    <3> HIDE DEF own, theirs
    <3> QED  BY <3>1, <3>2
  <2> QED  BY <2>1, <2>2, BeginMoves DEF BeginProjection
<1>3. CASE SyncBlock(n)
  <2>1. height[n] + 1 \in 1..Len(log)  BY <1>3 DEF SyncBlock, TypeOK
  <2>2. log[height[n] + 1] \subseteq Submitted  BY <2>1 DEF Submitted
  <2> QED  BY <1>3, <2>2, BeginMoves DEF SyncBlock, BeginProjection
<1> QED  BY <1>1, <1>2, <1>3

LEMMA ProjectAdvances == StatusInv /\ Project => Kept
<1> SUFFICES ASSUME StatusInv, NEW e \in tx.todo,
                    \/ apply_candidate_nominated(tx.node, e)
                    \/ apply_candidate_voted(tx.node, e)
                    \/ apply_candidate_approved(tx.node, e)
                    \/ apply_candidate_appointed(tx.node, e)
                    \/ apply_citizen_updated(tx.node, e)
                    \/ apply_law_proposed(tx.node, e)
                    \/ apply_vote_cast(tx.node, e)
                    \/ apply_law_vote_result(tx.node, e)
                    \/ apply_election_announced(tx.node, e),
                    tx' = IF tx.todo = {e} THEN NoTx ELSE Transaction(tx.node, tx.todo \ {e}),
                    UNCHANGED <<pending, log, height, at, now, voted, posted>>
             PROVE  Kept
    BY DEF Project
<1> DEFINE n == tx.node  m == e.motion  own == motion[n][m]
<1>1. n \in Node /\ e \in Event  BY DEF StatusInv, TypeOK
<1>2. /\ m \in Motion /\ m \in KindOf(e.type) /\ e.threshold \in Nat
      /\ e.citizen \in Citizen \cup {nobody} /\ e.role \in Roles
      BY <1>1 DEF Event
<1>3. own \in Row /\ (own.status = "appointed" => m \in Candidacy)
      BY <1>1, <1>2, RowTypes DEF StatusInv, AppointedCandidacies
<1>4. (Submitted \cup tx.todo)' \subseteq Submitted \cup tx.todo
  <2>1. tx'.todo \subseteq tx.todo  BY DEF NoTx, Transaction
  <2>2. Submitted' = Submitted  BY DEF Submitted
  <2> QED  BY <2>1, <2>2
<1>5. ASSUME \A k \in Node, q \in Motion \ {m} : motion'[k][q] = motion[k][q]
      PROVE  Nowhere'
  <2> SUFFICES ASSUME NEW q \in Motion, Unborn(q)'
               PROVE  /\ \A k \in Node : motion'[k][q].status = "none"
                      /\ \A f \in (Submitted \cup tx.todo)' : f.motion # q
                      /\ \A r \in Request : r.motion = q /\ r.op # "propose" =>
                                             at'[r].phase \in {"new", "done"}
      BY DEF Nowhere
  <2>1. Unborn(q)  BY DEF Unborn
  <2>2. /\ \A k \in Node : motion[k][q].status = "none"
        /\ \A f \in Submitted \cup tx.todo : f.motion # q
        /\ \A r \in Request : r.motion = q /\ r.op # "propose" => at[r].phase \in {"new", "done"}
        BY <2>1 DEF StatusInv, Nowhere
  <2>3. q # m  BY <2>2
  <2>4. \A k \in Node : motion'[k][q] = motion[k][q]  BY <1>5, <2>3
  <2> QED  BY <1>4, <2>2, <2>4
<1>6. CASE UNCHANGED motion  BY <1>5, <1>6, RowsStay DEF Kept
<1>7. ASSUME NEW row \in Row, StageOf(own) <= StageOf(row),
             row.status = "appointed" => m \in Candidacy,
             motion' = [motion EXCEPT ![n][m] = row]
      PROVE  Kept
  <2> HIDE DEF m
  <2>1. /\ Advancing /\ AppointedCandidacies'
        /\ \A k \in Node, q \in Motion \ {m} : motion'[k][q] = motion[k][q]
        BY <1>1, <1>2, <1>7, RowAdvances
  <2> QED  BY <1>5, <2>1 DEF Kept
<1>8. CASE Created(n, e)
  <2> DEFINE row == OpenRow(e.threshold, e.citizen, e.role)
  <2>1. row \in Row /\ row.status = "open"  BY <1>2, OpenRows
  <2>2. motion' = motion \/ (own.status = "none" /\ motion' = [motion EXCEPT ![n][m] = row])
        BY <1>8 DEF Created
  <2> HIDE DEF row
  <2>3. own.status = "none" => StageOf(own) <= StageOf(row)  BY <1>3, <2>1, Stages
  <2> QED  BY <1>6, <1>7, <2>1, <2>2, <2>3
<1>9. CASE Counted(n, e)
  <2> DEFINE sum == Cardinality({c \in Citizen :
                       [ballot[n][m] EXCEPT ![e.citizen] = e.choice][c] = "For"})
             row == [own EXCEPT !.tally = sum]
  <2>1. sum \in Nat  BY CountIsNat
  <2>2. motion' = [motion EXCEPT ![n][m] = row]  BY <1>9 DEF Counted
  <2> HIDE DEF sum
  <2>3. row \in Row /\ row.status = own.status  BY <1>3, <2>1 DEF Row
  <2> HIDE DEF row
  <2>4. StageOf(own) <= StageOf(row)  BY <1>3, <2>3, Stages DEF Row, Status
  <2> QED  BY <1>3, <1>7, <2>2, <2>3, <2>4
<1>10. ASSUME NEW s \in {"approved", "appointed"}, s = "appointed" => m \in Candidacy,
              s = "approved" => own.status # "appointed",
              motion' = [motion EXCEPT ![n][m].status = s]
       PROVE  Kept
  <2> DEFINE row == [own EXCEPT !.status = s]
  <2>1. row \in Row /\ row.status = s  BY <1>3 DEF Row, Status
  <2>2. motion' = [motion EXCEPT ![n][m] = row]  BY <1>10
  <2> HIDE DEF row
  <2>3. StageOf(own) <= StageOf(row)  BY <1>3, <1>10, <2>1, Stages DEF Row, Status
  <2> QED  BY <1>7, <1>10, <2>1, <2>2, <2>3
<1>11. CASE apply_candidate_approved(n, e)
       BY <1>6, <1>10, <1>11 DEF apply_candidate_approved
<1>12. CASE apply_law_vote_result(n, e)
  <2>1. own.status # "appointed"
        BY <1>2, <1>3, <1>12, MotionsAssumption DEF KindOf, apply_law_vote_result
  <2> QED  BY <1>6, <1>10, <1>12, <2>1 DEF apply_law_vote_result
<1>13. CASE apply_candidate_appointed(n, e)
  <2>1. m \in Candidacy  BY <1>2, <1>13 DEF KindOf, apply_candidate_appointed
  <2> QED  BY <1>6, <1>10, <1>13, <2>1 DEF apply_candidate_appointed
<1>14. CASE apply_citizen_updated(n, e)  BY <1>6, <1>14 DEF apply_citizen_updated
<1> QED  BY <1>6, <1>8, <1>9, <1>11, <1>12, <1>13, <1>14
         DEF apply_candidate_nominated, apply_law_proposed, apply_election_announced,
             apply_candidate_voted, apply_vote_cast

LEMMA StatusInit == Init => StatusInv
<1> SUFFICES ASSUME Init PROVE Nowhere /\ AppointedCandidacies /\ Appointing
    BY TypeInit DEF StatusInv
<1> PICK s \in Scenarios :
          /\ at = [r \in Request |-> Place(IF r \in s.asked THEN "new" ELSE "done", 0, 0)]
          /\ motion = [n \in Node |-> [m \in Motion |->
                         IF m \in s.standing THEN Nominated(m) ELSE NoRow]]
          /\ log = <<{Nomination(m, 0) : m \in s.standing}>>
          /\ now = s.start
    BY DEF Init
<1>1. AppointedCandidacies /\ Appointing
      BY DEF AppointedCandidacies, Appointing, Nominated, OpenRow, NoRow, Place
<1>2. ASSUME NEW m \in Motion, Unborn(m)
      PROVE  /\ \A n \in Node : motion[n][m].status = "none"
             /\ \A e \in Submitted \cup tx.todo : e.motion # m
             /\ \A r \in Request : r.motion = m /\ r.op # "propose" =>
                                    at[r].phase \in {"new", "done"}
  <2>1. m \notin s.standing
    <3>1. PICK r \in Request : /\ r.op = "propose" /\ r.motion = m
                               /\ at[r].phase \in {"new", "checked"}
          BY <1>2 DEF Unborn
    <3>2. r \in s.asked  BY <3>1 DEF Place
    <3> QED  BY <3>1, <3>2, MotionsAssumption
  <2>2. \A n \in Node : motion[n][m].status = "none"  BY <2>1 DEF NoRow
  <2>3. \A r \in Request : at[r].phase \in {"new", "done"}  BY DEF Place
  <2> DEFINE first == {Nomination(k, 0) : k \in s.standing}
  <2>4. \A e \in first : e.motion # m
    <3>1. s.standing \subseteq Candidacy  BY MotionsAssumption
    <3> QED  BY <2>1, <3>1, NominationEvent
  <2>5. tx.todo = {} /\ \A n \in Node : pending[n] = {}  BY DEF Init, NoTx, Transaction
  <2>6. log = <<first>>  OBVIOUS
  <2> HIDE DEF first
  <2>7. \A k \in 1..Len(log) : log[k] = first
    <3>1. Len(log) = 1 /\ log[1] = first  BY <2>6
    <3>2. \A k \in 1..1 : k = 1  OBVIOUS
    <3> QED  BY <3>1, <3>2, Zenon
  <2>8. Submitted \cup tx.todo \subseteq first  BY <2>5, <2>7 DEF Submitted
  <2> QED  BY <2>2, <2>3, <2>4, <2>8
<1> QED  BY <1>1, <1>2 DEF Nowhere

(* A handler changes no place but its own, and gets from its first to an    *)
(* other one only by the check that finds the row.                          *)
LEMMA OwnPlace ==
    ASSUME TypeOK, NEW r \in Request, Handle(r)
    PROVE  \A q \in Request \ {r} : at'[q] = at[q]
<1>1. ASSUME NEW p, NEW t, NEW k, Move(r, p, t, k)
      PROVE  \A q \in Request \ {r} : at'[q] = at[q]
      BY <1>1 DEF Move, TypeOK
<1>2. \A p : Stamp(r, p) \/ Advance(r, p) => \E t, k : Move(r, p, t, k)
      BY DEF Stamp, Advance
<1>3. \A e, from, to : Validate(r, e, from, to) \/ Enqueue(r, e, from, to) =>
                           \E p : Advance(r, p)
      BY DEF Validate, Enqueue
<1>4. \A row, e : Propose(r, row, e) => \E p : Advance(r, p) \/ Stamp(r, p)
      BY <1>3 DEF Propose, ProposeCheck, ProposeInsert
<1>5. \A type, after : Vote(r, type, after) => \E p, t, k : Move(r, p, t, k)
      BY <1>2, <1>3 DEF Vote, VoteCheck, VoteInsert, CountVotes, refresh_vote_counts
<1>6. \A type : Approve(r, type) => \E p : Advance(r, p) \/ Stamp(r, p)
      BY <1>3 DEF Approve, ThresholdCheck, ApproveUpdate
<1>7. appoint_candidate(r) => \E p : Advance(r, p) \/ Stamp(r, p)
      BY <1>3 DEF appoint_candidate, AppointCheck, AppointUpdate
<1>8. add_event(r) => \E p : Advance(r, p)
      BY <1>3 DEF add_event, PostValidate, PostInsert
<1>9. Abandon(r) => \E p : Advance(r, p)  BY DEF Abandon
<1>10. \E p, t, k : Move(r, p, t, k)
  <2>1. CASE nominate_candidate(r) \/ propose_initiative(r) \/ announce_referendum(r)
        BY <1>2, <1>4, <2>1 DEF nominate_candidate, propose_initiative, announce_referendum
  <2>2. CASE vote_for_candidate(r) \/ vote_on_initiative(r) \/ vote_on_referendum(r)
        BY <1>2, <1>5, <1>6, <2>2
        DEF vote_for_candidate, vote_on_initiative, vote_on_referendum
  <2>3. CASE appoint_candidate(r) \/ add_event(r) \/ Abandon(r)
        BY <1>2, <1>7, <1>8, <1>9, <2>3
  <2> QED  BY <2>1, <2>2, <2>3 DEF Handle
<1> QED  BY <1>1, <1>10

LEMMA AppointingStays ==
    ASSUME StatusInv, Advancing,
           UNCHANGED at \/ \E q \in Request : Handle(q)
    PROVE  Appointing'
<1> SUFFICES ASSUME NEW r \in Request, r.op = "appoint", at'[r].phase \notin {"new", "done"}
             PROVE  motion'[r.node][r.motion].status # "none"
    BY DEF Appointing
<1> DEFINE own == motion[r.node][r.motion]
<1>1. own.status # "none"
  <2>1. CASE at[r].phase \notin {"new", "done"}  BY <2>1 DEF StatusInv, Appointing
  <2>2. CASE at[r].phase \in {"new", "done"}
    <3>1. at'[r] # at[r]  BY <2>2
    <3>2. PICK q \in Request : Handle(q)  BY <3>1
    <3>3. q = r  BY <3>1, <3>2, OwnPlace DEF StatusInv
    <3>4. appoint_candidate(r)
          BY <2>2, <3>2, <3>3
          DEF Handle, nominate_candidate, propose_initiative, announce_referendum, Propose,
              vote_for_candidate, vote_on_initiative, vote_on_referendum, Vote, add_event, Abandon
    <3>5. AppointCheck(r)
          BY <2>2, <3>4 DEF appoint_candidate, AppointUpdate, Validate, Enqueue
    <3> QED  BY <3>5 DEF AppointCheck
  <2> QED  BY <2>1, <2>2
<1>3. own \in Row  BY RequestTypes, RowTypes DEF StatusInv
<1>4. StageOf(own) \in 1..3  BY <1>1, <1>3 DEF StageOf, Row, Status
<1>5. StageOf(own) <= StageOf(motion'[r.node][r.motion])  BY RequestTypes DEF Advancing
<1>6. ASSUME motion'[r.node][r.motion].status = "none" PROVE FALSE
  <2>1. StageOf(motion'[r.node][r.motion]) = 0  BY <1>6 DEF StageOf
  <2> QED  BY <1>4, <1>5, <2>1
<1> QED  BY <1>6

LEMMA StatusStep == StatusInv /\ [Next]_vars => StatusInv' /\ Advancing
<1> SUFFICES ASSUME StatusInv, [Next]_vars PROVE StatusInv' /\ Advancing  OBVIOUS
<1>1. Kept
  <2>1. CASE Project  BY <2>1, ProjectAdvances
  <2>2. CASE Exchanged  BY <2>2, ExchangedMoves, EventsAdvance DEF StatusInv
  <2>3. ASSUME NEW r \in Request, Handle(r) PROVE Kept  BY <2>3, HandleAdvances
  <2>4. CASE Tick \/ UNCHANGED vars
    <3>1. UNCHANGED <<motion, pending, log, tx, at>>  BY <2>4 DEF Tick, vars, chain
    <3>2. Nowhere'
      <4>1. (Submitted \cup tx.todo)' = Submitted \cup tx.todo  BY <3>1 DEF Submitted
      <4>2. \A m \in Motion : Unborn(m)' => Unborn(m)  BY <3>1 DEF Unborn
      <4> QED  BY <3>1, <4>1, <4>2 DEF StatusInv, Nowhere
    <3> QED  BY <3>1, <3>2, RowsStay DEF Kept
  <2> QED  BY <2>1, <2>2, <2>3, <2>4 DEF Next
<1>2. UNCHANGED at \/ \E q \in Request : Handle(q)
  <2>1. Project \/ Tick \/ UNCHANGED vars => UNCHANGED at  BY DEF Project, Tick, vars
  <2>2. Exchanged => UNCHANGED at  BY ExchangedMoves DEF StatusInv
  <2> QED  BY <2>1, <2>2 DEF Next
<1> QED  BY <1>1, <1>2, TypeStep, AppointingStays DEF StatusInv, Kept

(* The state of a motion never goes back on any node, for any requests at   *)
(* the same time as any blocks, although neither the update of              *)
(* appoint_candidate nor those of the blocks look at what they overwrite.   *)
THEOREM Advances == Spec => StatusAdvances
<1>1. StatusInv /\ [Next]_vars => StatusInv'  BY StatusStep
<1>2. StatusInv /\ [Next]_vars
         => [\A n \in Node, m \in Motion :
                StageOf(motion[n][m]) <= StageOf(motion'[n][m])]_vars
      BY StatusStep DEF Advancing
<1> QED  BY StatusInit, <1>1, <1>2, PTL DEF Spec, StatusAdvances

-----------------------------------------------------------------------------
(* Approvals and roles.  An approval is decided from the tally of one row   *)
(* and then travels: as the place of a handler, as a status, as pending     *)
(* events, as events of blocks, as roles.  The inductive invariant says of  *)
(* each of these that the votes are there or that a client has posted what  *)
(* does without them, and of each tally, and of each count a handler has    *)
(* not yet written, that no more was counted than citizens voted.  Neither  *)
(* votes nor posted events are ever taken back, so what held before a step  *)
(* holds afterwards.                                                        *)

\* What event e says of a candidacy.
Carries(e) ==
    /\ e.type = "CandidateNominated" =>
          /\ Named(e.motion, e.citizen, e.role)
          /\ e.threshold = Threshold \/ Overridden(e.motion)
    /\ e.type = "CandidateVoted" => <<e.motion, e.citizen, e.choice>> \in voted
    /\ e.type \in {"CandidateApproved", "CandidateAppointed"} => Warranted(e.motion)
    /\ e.type = "CandidateAppointed" => Earned(e.citizen, e.role)
    /\ e.type = "CitizenUpdated" /\ e.role # "Citizen" => Earned(e.citizen, e.role)

\* What it takes for request r to be in phase p, with that count.
Entitled(r, p, count) ==
    r.motion \in Candidacy =>
        /\ r.op = "vote" /\ p \notin {"new", "checked", "done"} =>
              <<r.motion, r.citizen, r.choice>> \in voted
        /\ r.op = "vote" /\ p = "counted" => count <= Cardinality(Supporters(r.motion))
        /\ r.op = "vote" /\ p \in {"approving", "approved", "approvalValidated"} =>
              Warranted(r.motion)
        /\ r.op = "appoint" /\ p \notin {"new", "done"} => Warranted(r.motion)
        /\ /\ r.op = "post" /\ p = "validated"
           /\ r.event.type = "CitizenUpdated" /\ r.event.role # "Citizen"
           => Earned(r.event.citizen, r.event.role)

\* What it takes for a row to be that of candidacy m.
Truthful(m, row) ==
    /\ row.status # "none" => Named(m, row.citizen, row.role)
    /\ row.status = "open" => row.threshold = Threshold \/ Overridden(m)
    /\ row.tally <= Cardinality(Supporters(m))
    /\ row.status \in {"approved", "appointed"} => Warranted(m)

EventsCarry == \A e \in Submitted \cup tx.todo : Carries(e)
RequestsEntitled == \A r \in Request : Entitled(r, at[r].phase, at[r].count)
RowsTruthful == \A n \in Node, m \in Candidacy : Truthful(m, motion[n][m])
BallotsVoted ==
    \A n \in Node, m \in Candidacy, c \in Citizen :
        ballot[n][m][c] # "none" => <<m, c, ballot[n][m][c]>> \in voted

Approvals ==
    EventsCarry /\ RequestsEntitled /\ RowsTruthful /\ BallotsVoted /\ RoleEarned

ApprovalInv == TypeOK /\ StatusInv /\ Approvals

-----------------------------------------------------------------------------
(* Votes are never taken back, nor is what clients post.                    *)
Grows == voted \subseteq voted' /\ posted \subseteq posted'

LEMMA CountGrows ==
    ASSUME Grows, NEW m
    PROVE  /\ Cardinality(Supporters(m)) \in Nat /\ Cardinality(Supporters(m))' \in Nat
           /\ Cardinality(Supporters(m)) <= Cardinality(Supporters(m))'
           /\ Backed(m) => Backed(m)'
<1>1. /\ Supporters(m) \subseteq Citizen /\ Supporters(m)' \subseteq Citizen
      /\ Supporters(m) \subseteq Supporters(m)'
      BY DEF Supporters, Grows
<1>2. IsFiniteSet(Supporters(m)')  BY <1>1, MotionsAssumption, FS_Subset
<1>3. Cardinality(Supporters(m)) <= Cardinality(Supporters(m)')  BY <1>1, <1>2, FS_Subset
<1>4. Cardinality(Supporters(m)) \in Nat /\ Cardinality(Supporters(m)') \in Nat
      BY <1>1, CountIsNat
<1> QED  BY <1>3, <1>4, ThresholdIsNat DEF Backed

LEMMA WarrantGrows ==
    ASSUME Grows
    PROVE  /\ \A m : Overridden(m) => Overridden(m)'
           /\ \A m : Warranted(m) => Warranted(m)'
           /\ \A m, c, w : Named(m, c, w) => Named(m, c, w)'
           /\ \A c, w : Earned(c, w) => Earned(c, w)'
<1>1. \A m : Overridden(m) => Overridden(m)'  BY DEF Overridden, Grows
<1>2. ASSUME NEW m PROVE Warranted(m) => Warranted(m)'
      BY <1>1, CountGrows DEF Warranted
<1>3. \A m, c, w : Named(m, c, w) => Named(m, c, w)'  BY DEF Named, Grows
<1>4. ASSUME NEW c, NEW w, Earned(c, w) PROVE Earned(c, w)'
  <2>1. CASE \E m \in Candidacy : Named(m, c, w) /\ Warranted(m)
    <3> PICK m \in Candidacy : Named(m, c, w) /\ Warranted(m)  BY <2>1
    <3>1. Named(m, c, w)' /\ Warranted(m)'  BY <1>2, <1>3
    <3> QED  BY <3>1 DEF Earned
  <2>2. CASE \E e \in posted : /\ e.type = "CandidateAppointed"
                               /\ e.citizen = c /\ e.role = w
        BY <2>2 DEF Earned, Grows
  <2> QED  BY <1>4, <2>1, <2>2 DEF Earned
<1> QED  BY <1>1, <1>2, <1>3, <1>4

LEMMA CarriesGrows ==
    ASSUME Grows, NEW e, Carries(e) PROVE Carries(e)'
BY WarrantGrows DEF Carries, Grows

LEMMA EntitledGrows ==
    ASSUME Grows, NEW r, NEW p, NEW k \in Nat, Entitled(r, p, k)
    PROVE  Entitled(r, p, k)'
BY CountGrows, WarrantGrows DEF Entitled, Grows

LEMMA TruthfulGrows ==
    ASSUME Grows, NEW m, NEW row \in Row, Truthful(m, row)
    PROVE  Truthful(m, row)'
BY CountGrows, WarrantGrows DEF Truthful, Row

(* The parts of the invariant that a step leaves alone.                     *)
LEMMA KeepEvents ==
    ASSUME EventsCarry, Grows, UNCHANGED <<pending, log, tx>>
    PROVE  EventsCarry'
<1>1. (Submitted \cup tx.todo)' = Submitted \cup tx.todo  BY DEF Submitted
<1> QED  BY <1>1, CarriesGrows DEF EventsCarry

LEMMA KeepRequests ==
    ASSUME TypeOK, RequestsEntitled, Grows, UNCHANGED at
    PROVE  RequestsEntitled'
<1>1. \A r \in Request : at[r].count \in Nat  BY DEF TypeOK
<1> QED  BY <1>1, EntitledGrows DEF RequestsEntitled

LEMMA KeepRows ==
    ASSUME TypeOK, RowsTruthful, Grows, UNCHANGED motion
    PROVE  RowsTruthful'
<1>1. \A n \in Node, m \in Candidacy : motion[n][m] \in Row  BY DEF TypeOK, Motion
<1> QED  BY <1>1, TruthfulGrows DEF RowsTruthful

LEMMA KeepBallots ==
    ASSUME BallotsVoted, Grows, UNCHANGED ballot PROVE BallotsVoted'
BY DEF BallotsVoted, Grows

LEMMA KeepRoles ==
    ASSUME RoleEarned, Grows, UNCHANGED role PROVE RoleEarned'
BY WarrantGrows DEF RoleEarned

(* One request moves on, to a place it is entitled to.                      *)
LEMMA MoveRequests ==
    ASSUME TypeOK, RequestsEntitled, Grows, NEW r \in Request, NEW p, NEW t,
           NEW k, Move(r, p, t, k), Entitled(r, p, k)'
    PROVE  RequestsEntitled'
<1> SUFFICES ASSUME NEW s \in Request PROVE Entitled(s, at[s].phase, at[s].count)'
    BY DEF RequestsEntitled
<1>1. CASE s # r
  <2>1. at'[s] = at[s] /\ at[s].count \in Nat  BY <1>1 DEF Move, TypeOK
  <2>2. Entitled(s, at[s].phase, at[s].count)  BY DEF RequestsEntitled
  <2> QED  BY <2>1, <2>2, CountGrows, WarrantGrows DEF Entitled, Grows
<1>2. CASE s = r /\ p = "done"
  <2>1. at'[s].phase = "done"  BY <1>2 DEF Move, Place, TypeOK
  <2> QED  BY <1>2, <2>1 DEF Entitled
<1>3. CASE s = r /\ p # "done"
  <2>1. at'[s].phase = p /\ at'[s].count = k  BY <1>3 DEF Move, Place, TypeOK
  <2> QED  BY <1>3, <2>1 DEF Entitled
<1> QED  BY <1>1, <1>2, <1>3

-----------------------------------------------------------------------------
(* The handlers.                                                            *)

\* A handler moves on, and nothing else happens.
LEMMA MoveKeeps ==
    ASSUME ApprovalInv, NEW r \in Request, NEW p, NEW t, NEW k \in Nat,
           Move(r, p, t, k), Entitled(r, p, k),
           UNCHANGED <<motion, ballot, role, chain, now, voted, posted>>
    PROVE  Approvals'
<1>1. Grows  BY DEF Grows
<1>2. Entitled(r, p, k)'  BY <1>1, EntitledGrows
<1>3. RequestsEntitled'  BY <1>1, <1>2, MoveRequests DEF ApprovalInv, Approvals
<1>4. EventsCarry' /\ RowsTruthful' /\ BallotsVoted' /\ RoleEarned'
      BY <1>1, KeepEvents, KeepRows, KeepBallots, KeepRoles
      DEF ApprovalInv, Approvals, chain
<1> QED  BY <1>3, <1>4 DEF Approvals

LEMMA ValidateKeeps ==
    ASSUME ApprovalInv, NEW r \in Request, NEW e, NEW from, NEW to,
           Validate(r, e, from, to), validate_event(r.node, e) => Entitled(r, to, 0)
    PROVE  Approvals'
<1>1. Entitled(r, "done", 0)  BY DEF Entitled
<1> QED  BY <1>1, MoveKeeps DEF Validate, Advance

\* A handler moves on, and event e becomes pending, or is already.
LEMMA PendingKeeps ==
    ASSUME ApprovalInv, NEW r \in Request, NEW e, NEW p, NEW t, Move(r, p, t, 0),
           Entitled(r, p, 0), Grows,
           \/ pending' = pending
           \/ /\ Carries(e)'
              /\ pending' = [pending EXCEPT ![r.node] = @ \cup {e}],
           UNCHANGED <<motion, ballot, role, log, tx>>
    PROVE  Approvals'
<1>1. Entitled(r, p, 0)'  BY EntitledGrows
<1>2. RequestsEntitled'  BY <1>1, MoveRequests DEF ApprovalInv, Approvals
<1>3. ASSUME NEW f \in (Submitted \cup tx.todo)'
      PROVE  f \in Submitted \cup tx.todo \/ (f = e /\ Carries(e)')
  <2>1. pending \in [Node -> SUBSET Event]  BY DEF ApprovalInv, TypeOK
  <2>2. \A n \in Node : \A g \in pending'[n] : g \in pending[n] \/ (g = e /\ Carries(e)')
        BY <2>1
  <2> QED  BY <1>3, <2>2 DEF Submitted
<1>4. EventsCarry'
      BY <1>3, CarriesGrows DEF EventsCarry, ApprovalInv, Approvals
<1>5. RowsTruthful' /\ BallotsVoted' /\ RoleEarned'
      BY KeepRows, KeepBallots, KeepRoles DEF ApprovalInv, Approvals
<1> QED  BY <1>2, <1>4, <1>5 DEF Approvals

LEMMA EnqueueKeeps ==
    ASSUME ApprovalInv, NEW r \in Request, NEW e, NEW from, NEW to,
           Enqueue(r, e, from, to), Entitled(r, to, 0), Carries(e)
    PROVE  Approvals'
<1>1. Grows  BY DEF Enqueue, Grows
<1>2. Carries(e)'  BY <1>1, CarriesGrows
<1> QED  BY <1>1, <1>2, PendingKeeps DEF Enqueue, Advance

\* A row of a candidacy that is written is a true one.
LEMMA RowWritten ==
    ASSUME ApprovalInv, Grows, NEW n \in Node, NEW m \in Motion,
           NEW row \in Row, m \in Candidacy => Truthful(m, row),
           motion' = [motion EXCEPT ![n][m] = row]
    PROVE  RowsTruthful'
<1> SUFFICES ASSUME NEW n2 \in Node, NEW m2 \in Candidacy
             PROVE  Truthful(m2, motion[n2][m2])'
    BY DEF RowsTruthful
<1> m2 \in Motion  BY DEF Motion
<1>1. /\ motion[n2][m2] \in Row /\ Truthful(m2, motion[n2][m2])
      /\ motion \in [Node -> [Motion -> Row]]
      BY RowTypes DEF ApprovalInv, Approvals, RowsTruthful, TypeOK
<1>2. ASSUME NEW row2 \in Row, Truthful(m2, row2), motion'[n2][m2] = row2
      PROVE  Truthful(m2, motion[n2][m2])'
  <2>1. Truthful(m2, row2)'  BY <1>2, TruthfulGrows
  <2> QED  BY <1>2, <2>1 DEF Truthful
<1>3. CASE n2 = n /\ m2 = m
  <2>1. motion'[n2][m2] = row  BY <1>1, <1>3
  <2> QED  BY <1>2, <1>3, <2>1
<1>4. CASE n2 # n \/ m2 # m
  <2>1. motion'[n2][m2] = motion[n2][m2]  BY <1>1, <1>4
  <2> QED  BY <1>1, <1>2, <2>1
<1> QED  BY <1>3, <1>4

\* A handler writes such a row, and moves on.
LEMMA WriteKeeps ==
    ASSUME ApprovalInv, NEW r \in Request, NEW row \in Row, NEW p, NEW t,
           Move(r, p, t, 0), Entitled(r, p, 0),
           r.motion \in Candidacy => Truthful(r.motion, row),
           motion' = [motion EXCEPT ![r.node][r.motion] = row],
           UNCHANGED <<ballot, role, chain, now, voted, posted>>
    PROVE  Approvals'
<1>1. Grows  BY DEF Grows
<1>2. Entitled(r, p, 0)'  BY <1>1, EntitledGrows
<1>3. RequestsEntitled'  BY <1>1, <1>2, MoveRequests DEF ApprovalInv, Approvals
<1>4. EventsCarry' /\ BallotsVoted' /\ RoleEarned'
      BY <1>1, KeepEvents, KeepBallots, KeepRoles DEF ApprovalInv, Approvals, chain
<1>5. RowsTruthful'  BY <1>1, RequestTypes, RowWritten
<1> QED  BY <1>3, <1>4, <1>5 DEF Approvals

\* The row of a proposal is a true one.
LEMMA OpenTruthful ==
    ASSUME NEW m \in Candidacy PROVE Truthful(m, Nominated(m))
<1>1. Supporters(m) \subseteq Citizen  BY DEF Supporters
<1>2. Cardinality(Supporters(m)) \in Nat  BY <1>1, CountIsNat
<1>3. Named(m, Candidate[m], TargetRole[m])  BY DEF Named
<1> QED  BY <1>2, <1>3, NominatedRow DEF Truthful

LEMMA NominationCarries ==
    ASSUME NEW m \in Candidacy, NEW time \in Nat PROVE Carries(Nomination(m, time))
<1>1. Named(m, Candidate[m], TargetRole[m])  BY DEF Named
<1> QED  BY <1>1, NominationEvent DEF Carries

LEMMA ProposeKeeps ==
    ASSUME ApprovalInv, NEW r \in Request, NEW row \in Row, NEW e,
           r.motion \in Candidacy => Truthful(r.motion, row), Carries(e),
           Propose(r, row, e)
    PROVE  Approvals'
<1>1. r.op = "propose"  BY DEF Propose
<1>2. ASSUME NEW p PROVE Entitled(r, p, 0)  BY <1>1 DEF Entitled
<1>3. CASE ProposeCheck(r)  BY <1>2, <1>3, MoveKeeps DEF ProposeCheck, Advance
<1>4. CASE ProposeInsert(r, row)  BY <1>2, <1>4, WriteKeeps DEF ProposeInsert, Stamp
<1>5. CASE Validate(r, e, "inserted", "validated")  BY <1>2, <1>5, ValidateKeeps
<1>6. CASE Enqueue(r, e, "validated", "done")  BY <1>2, <1>6, EnqueueKeeps
<1> QED  BY <1>3, <1>4, <1>5, <1>6 DEF Propose

\* A node counts no more votes than were cast.
LEMMA CountsVoted ==
    ASSUME ApprovalInv, NEW n \in Node, NEW m \in Candidacy
    PROVE  For(n, m) <= Cardinality(Supporters(m))
<1>1. {c \in Citizen : ballot[n][m][c] = "For"} \subseteq Supporters(m)
      BY DEF ApprovalInv, Approvals, BallotsVoted, Supporters
<1>2. Supporters(m) \subseteq Citizen  BY DEF Supporters
<1>3. IsFiniteSet(Supporters(m))  BY <1>2, MotionsAssumption, FS_Subset
<1> QED  BY <1>1, <1>3, FS_Subset DEF For

LEMMA VoteInsertKeeps ==
    ASSUME ApprovalInv, NEW r \in Request, r.op = "vote", VoteInsert(r)
    PROVE  Approvals'
<1>1. CASE ballot[r.node][r.motion][r.citizen] = "none"
  <2>1. /\ ballot' = [ballot EXCEPT ![r.node][r.motion][r.citizen] = r.choice]
        /\ voted' = voted \cup {<<r.motion, r.citizen, r.choice>>}
        /\ Move(r, "inserted", now, 0)
        BY <1>1 DEF VoteInsert, Stamp
  <2>2. Grows  BY <2>1 DEF Grows, VoteInsert
  <2>3. Entitled(r, "inserted", 0)'  BY <2>1 DEF Entitled
  <2>4. RequestsEntitled'  BY <2>1, <2>2, <2>3, MoveRequests DEF ApprovalInv, Approvals
  <2>5. EventsCarry' /\ RowsTruthful' /\ RoleEarned'
        BY <2>2, KeepEvents, KeepRows, KeepRoles
        DEF ApprovalInv, Approvals, VoteInsert, chain
  <2>6. BallotsVoted'
    <3> SUFFICES ASSUME NEW n \in Node, NEW m \in Candidacy, NEW c \in Citizen,
                        ballot'[n][m][c] # "none"
                 PROVE  <<m, c, ballot'[n][m][c]>> \in voted'
        BY DEF BallotsVoted
    <3>1. ballot \in [Node -> [Motion -> [Citizen -> Choice \cup {"none"}]]] /\ m \in Motion
          BY DEF ApprovalInv, TypeOK, Motion
    <3>2. CASE n = r.node /\ m = r.motion /\ c = r.citizen
          BY <2>1, <3>1, <3>2
    <3>3. CASE ~(n = r.node /\ m = r.motion /\ c = r.citizen)
      <4>1. ballot'[n][m][c] = ballot[n][m][c]  BY <2>1, <3>1, <3>3
      <4> QED  BY <2>2, <4>1 DEF ApprovalInv, Approvals, BallotsVoted, Grows
    <3> QED  BY <3>2, <3>3
  <2> QED  BY <2>4, <2>5, <2>6 DEF Approvals
<1>2. CASE ballot[r.node][r.motion][r.citizen] # "none"
  <2>1. Entitled(r, "done", 0)  BY DEF Entitled
  <2> QED  BY <1>2, <2>1, MoveKeeps DEF VoteInsert, Advance
<1> QED  BY <1>1, <1>2

LEMMA VoteKeeps ==
    ASSUME ApprovalInv, NEW r \in Request, NEW type \in {"CandidateVoted", "VoteCast"},
           NEW after \in {"submitted", "done"},
           type = "CandidateVoted" => r.motion \in Candidacy, Vote(r, type, after)
    PROVE  Approvals'
<1> DEFINE e == EventOf(type, r.motion, r.citizen, "Citizen", r.choice, 0, at[r].time)
<1>1. r.op = "vote"  BY DEF Vote
<1>2. Entitled(r, at[r].phase, at[r].count)
      BY DEF ApprovalInv, Approvals, RequestsEntitled
<1>3. CASE VoteCheck(r)
  <2>1. ASSUME NEW p \in {"checked", "done"} PROVE Entitled(r, p, 0)
        BY <1>1, <2>1 DEF Entitled
  <2> QED  BY <1>3, <2>1, MoveKeeps DEF VoteCheck, Advance
<1>4. CASE VoteInsert(r)  BY <1>1, <1>4, VoteInsertKeeps
<1>5. CASE CountVotes(r)
  <2>1. Entitled(r, "counted", For(r.node, r.motion))
        BY <1>1, <1>2, <1>5, CountsVoted, RequestTypes DEF Entitled, CountVotes
  <2>2. For(r.node, r.motion) \in Nat  BY RequestTypes, RowTypes DEF ApprovalInv
  <2> QED  BY <1>5, <2>1, <2>2, MoveKeeps DEF CountVotes
<1>6. CASE refresh_vote_counts(r)
  <2> DEFINE row == [motion[r.node][r.motion] EXCEPT !.tally = at[r].count]
  <2>1. Entitled(r, "refreshed", 0)
        BY <1>1, <1>2, <1>6 DEF Entitled, refresh_vote_counts
  <2>2. motion[r.node][r.motion] \in Row /\ at[r].count \in Nat
        BY RequestTypes, RowTypes DEF ApprovalInv, TypeOK
  <2>3. row \in Row  BY <2>2 DEF Row
  <2>4. r.motion \in Candidacy => Truthful(r.motion, row)
    <3> SUFFICES ASSUME r.motion \in Candidacy PROVE Truthful(r.motion, row)  OBVIOUS
    <3>1. Truthful(r.motion, motion[r.node][r.motion])
          BY RequestTypes DEF ApprovalInv, Approvals, RowsTruthful
    <3>2. at[r].count <= Cardinality(Supporters(r.motion))
          BY <1>1, <1>2, <1>6 DEF Entitled, refresh_vote_counts
    <3> QED  BY <2>2, <3>1, <3>2 DEF Truthful, Row
  <2>5. motion' = [motion EXCEPT ![r.node][r.motion] = row]
        BY <1>6 DEF refresh_vote_counts
  <2> HIDE DEF row
  <2> QED  BY <1>6, <2>1, <2>3, <2>4, <2>5, WriteKeeps DEF refresh_vote_counts, Advance
<1>7. CASE Validate(r, e, "refreshed", "validated")
  <2>1. Entitled(r, "validated", 0)  BY <1>1, <1>2, <1>7 DEF Entitled, Validate
  <2> QED  BY <1>7, <2>1, ValidateKeeps
<1>8. CASE Enqueue(r, e, "validated", after)
  <2>1. Entitled(r, after, 0)  BY <1>1, <1>2, <1>8 DEF Entitled, Enqueue
  <2>2. Carries(e)  BY <1>1, <1>2, <1>8 DEF Carries, EventOf, Entitled, Enqueue
  <2> QED  BY <1>8, <2>1, <2>2, EnqueueKeeps
<1> QED  BY <1>3, <1>4, <1>5, <1>6, <1>7, <1>8 DEF Vote

LEMMA ApproveKeeps ==
    ASSUME ApprovalInv, NEW r \in Request, r.op = "vote",
           NEW type \in {"CandidateApproved", "LawVoteResult"},
           type = "CandidateApproved" => r.motion \in Candidacy, Approve(r, type)
    PROVE  Approvals'
<1> DEFINE e == EventOf(type, r.motion, nobody, "Citizen", "For", 0, at[r].time)
           own == motion[r.node][r.motion]
<1>1. Entitled(r, at[r].phase, at[r].count)
      BY DEF ApprovalInv, Approvals, RequestsEntitled
<1>2. own \in Row  BY RequestTypes, RowTypes DEF ApprovalInv
<1>3. r.motion \in Candidacy => Truthful(r.motion, own)
      BY RequestTypes DEF ApprovalInv, Approvals, RowsTruthful
<1>4. CASE ThresholdCheck(r)
  <2> DEFINE enough == own.tally >= own.threshold /\ own.status = "open"
  <2>1. Entitled(r, "done", 0)  BY DEF Entitled
  <2>2. ASSUME enough PROVE Entitled(r, "approving", 0)
    <3>1. Supporters(r.motion) \subseteq Citizen  BY DEF Supporters
    <3>2. Cardinality(Supporters(r.motion)) \in Nat  BY <3>1, CountIsNat
    <3>3. r.motion \in Candidacy => Warranted(r.motion)
          BY <1>2, <1>3, <2>2, <3>2, ThresholdIsNat DEF Truthful, Warranted, Backed, Row
    <3> QED  BY <1>1, <1>4, <3>3 DEF Entitled, ThresholdCheck
  <2>3. /\ Move(r, IF enough THEN "approving" ELSE "done", now, 0)
        /\ UNCHANGED <<motion, ballot, role, chain, now, voted, posted>>
        BY <1>4 DEF ThresholdCheck, Stamp
  <2> HIDE DEF enough
  <2> QED  BY <2>1, <2>2, <2>3, MoveKeeps
<1>5. CASE ApproveUpdate(r)
  <2> DEFINE row == [own EXCEPT !.status = "approved"]
  <2>1. Entitled(r, "approved", 0)  BY <1>1, <1>5 DEF Entitled, ApproveUpdate
  <2>2. row \in Row  BY <1>2 DEF Row, Status
  <2>3. r.motion \in Candidacy => Warranted(r.motion)  BY <1>1, <1>5 DEF Entitled, ApproveUpdate
  <2>4. CASE own.status = "open"
    <3>1. r.motion \in Candidacy => Truthful(r.motion, row)
          BY <1>2, <1>3, <2>3, <2>4 DEF Truthful, Row
    <3>2. motion' = [motion EXCEPT ![r.node][r.motion] = row]
          BY <1>5, <2>4 DEF ApproveUpdate
    <3> HIDE DEF row
    <3> QED  BY <1>5, <2>1, <2>2, <3>1, <3>2, WriteKeeps DEF ApproveUpdate, Advance
  <2>5. CASE own.status # "open"
        BY <1>5, <2>1, <2>5, MoveKeeps DEF ApproveUpdate, Advance
  <2> QED  BY <2>4, <2>5
<1>6. CASE Validate(r, e, "approved", "approvalValidated")
  <2>1. Entitled(r, "approvalValidated", 0)  BY <1>1, <1>6 DEF Entitled, Validate
  <2> QED  BY <1>6, <2>1, ValidateKeeps
<1>7. CASE Enqueue(r, e, "approvalValidated", "done")
  <2>1. Entitled(r, "done", 0)  BY DEF Entitled
  <2>2. Carries(e)  BY <1>1, <1>7 DEF Carries, EventOf, Entitled, Enqueue
  <2> QED  BY <1>7, <2>1, <2>2, EnqueueKeeps
<1> QED  BY <1>4, <1>5, <1>6, <1>7 DEF Approve

LEMMA AppointKeeps ==
    ASSUME ApprovalInv, NEW r \in Request, appoint_candidate(r)
    PROVE  Approvals'
<1> DEFINE own == motion[r.node][r.motion]
           e == EventOf("CandidateAppointed", r.motion, own.citizen, own.role, "For", 0, at[r].time)
           f == EventOf("CitizenUpdated", r.motion, own.citizen, own.role, "For", 0, at[r].time)
<1>1. r.op = "appoint" /\ r.motion \in Candidacy  BY RequestTypes DEF appoint_candidate
<1>2. own \in Row /\ Truthful(r.motion, own)
      BY <1>1, RequestTypes, RowTypes DEF ApprovalInv, Approvals, RowsTruthful
<1>3. at[r].phase \notin {"new", "done"} => Warranted(r.motion) /\ own.status # "none"
      BY <1>1 DEF ApprovalInv, StatusInv, Appointing, Approvals, RequestsEntitled, Entitled
<1>4. ASSUME Warranted(r.motion), NEW p PROVE Entitled(r, p, 0)
      BY <1>1, <1>4 DEF Entitled
<1>5. ASSUME Warranted(r.motion), own.status # "none" PROVE Carries(e) /\ Carries(f)
  <2>1. Earned(own.citizen, own.role)  BY <1>1, <1>2, <1>5 DEF Truthful, Earned
  <2> QED  BY <1>5, <2>1 DEF Carries, EventOf
<1>6. CASE AppointCheck(r)
  <2>1. Entitled(r, "done", 0)  BY DEF Entitled
  <2>2. own.status = "approved" => Entitled(r, "checked", 0)  BY <1>2, <1>4 DEF Truthful
  <2> QED  BY <1>6, <2>1, <2>2, MoveKeeps DEF AppointCheck, Advance
<1>7. CASE AppointUpdate(r)
  <2> DEFINE row == [own EXCEPT !.status = "appointed"]
  <2>1. Warranted(r.motion) /\ own.status # "none"  BY <1>3, <1>7 DEF AppointUpdate
  <2>2. row \in Row  BY <1>2 DEF Row, Status
  <2>3. Truthful(r.motion, row)  BY <1>2, <2>1 DEF Truthful, Row
  <2>4. motion' = [motion EXCEPT ![r.node][r.motion] = row]  BY <1>7 DEF AppointUpdate
  <2> HIDE DEF row
  <2> QED  BY <1>4, <1>7, <2>1, <2>2, <2>3, <2>4, WriteKeeps DEF AppointUpdate, Stamp
<1> HIDE DEF e, f
<1>8. CASE Validate(r, e, "inserted", "validated")
      BY <1>3, <1>4, <1>8, ValidateKeeps DEF Validate
<1>9. CASE Enqueue(r, e, "validated", "submitted")
      BY <1>3, <1>4, <1>5, <1>9, EnqueueKeeps DEF Enqueue
<1>10. CASE Validate(r, f, "submitted", "roleValidated")
       BY <1>3, <1>4, <1>10, ValidateKeeps DEF Validate
<1>11. CASE Enqueue(r, f, "roleValidated", "done")
       BY <1>3, <1>4, <1>5, <1>11, EnqueueKeeps DEF Enqueue
<1> QED  BY <1>6, <1>7, <1>8, <1>9, <1>10, <1>11 DEF appoint_candidate, e, f, own

\* A posted event is its own warrant, but for a role that CitizenUpdated names:
\* that takes the row of a candidacy, which is a true one.
LEMMA RowEarns ==
    ASSUME ApprovalInv, NEW n \in Node, NEW c, NEW w,
           validate_governance_role_via_candidacy(n, c, w)
    PROVE  Earned(c, w)
<1> PICK m \in Candidacy : /\ motion[n][m].citizen = c /\ motion[n][m].role = w
                           /\ motion[n][m].status \in {"approved", "appointed"}
    BY DEF validate_governance_role_via_candidacy
<1>1. Truthful(m, motion[n][m])  BY DEF ApprovalInv, Approvals, RowsTruthful
<1> QED  BY <1>1 DEF Truthful, Earned

LEMMA PostKeeps ==
    ASSUME ApprovalInv, NEW r \in Request, add_event(r)
    PROVE  Approvals'
<1> DEFINE e == r.event
<1>1. r.op = "post" /\ e \in Event /\ e.motion = r.motion /\ r.node \in Node
      BY RequestTypes DEF add_event
<1>2. e.type = "CitizenUpdated" => r.motion \in Candidacy  BY <1>1 DEF Event, KindOf
<1>3. e.role # "Citizen" => e.role \in Governance  BY <1>1 DEF Event, Roles
<1>4. CASE PostValidate(r)
  <2>1. ASSUME validate_event(r.node, e) PROVE Entitled(r, "validated", 0)
    <3>1. e.type = "CitizenUpdated" /\ e.role # "Citizen" => Earned(e.citizen, e.role)
          BY <1>1, <1>3, <2>1, RowEarns DEF validate_event
    <3> QED  BY <1>1, <3>1 DEF Entitled
  <2> QED  BY <1>4, <2>1, ValidateKeeps DEF PostValidate
<1>5. CASE PostInsert(r)
  <2>1. Grows  BY <1>5 DEF PostInsert, Grows
  <2>2. Move(r, "done", at[r].time, 0) /\ Entitled(r, "done", 0)
        BY <1>5 DEF PostInsert, Advance, Entitled
  <2>3. e.type = "CitizenUpdated" /\ e.role # "Citizen" => Earned(e.citizen, e.role)
        BY <1>1, <1>2, <1>5 DEF PostInsert, ApprovalInv, Approvals, RequestsEntitled, Entitled
  <2>4. CASE e.id \in Ids(pending[r.node])
    <3>1. pending' = pending /\ UNCHANGED <<motion, ballot, role, log, tx>>
          BY <1>5, <2>4 DEF PostInsert
    <3> QED  BY <2>1, <2>2, <3>1, PendingKeeps
  <2>5. CASE e.id \notin Ids(pending[r.node])
    <3>1. /\ pending' = [pending EXCEPT ![r.node] = @ \cup {e}]
          /\ voted' = voted \cup VoteIn(e) /\ posted' = posted \cup {e}
          /\ UNCHANGED <<motion, ballot, role, log, tx>>
          BY <1>5, <2>5 DEF PostInsert
    <3>2. e \in posted'  BY <3>1
    <3>3. /\ e.type = "CandidateNominated" =>
               Named(e.motion, e.citizen, e.role)' /\ Overridden(e.motion)'
          /\ e.type \in {"CandidateApproved", "CandidateAppointed"} => Warranted(e.motion)'
          /\ e.type = "CandidateAppointed" => Earned(e.citizen, e.role)'
          BY <3>2 DEF Named, Overridden, Warranted, Earned
    <3>4. e.type = "CandidateVoted" => <<e.motion, e.citizen, e.choice>> \in voted'
          BY <3>1 DEF VoteIn, Votes
    <3>5. e.type = "CitizenUpdated" /\ e.role # "Citizen" => Earned(e.citizen, e.role)'
          BY <2>1, <2>3, WarrantGrows
    <3>6. Carries(e)'  BY <3>3, <3>4, <3>5 DEF Carries
    <3> QED  BY <2>1, <2>2, <3>1, <3>6, PendingKeeps
  <2> QED  BY <2>4, <2>5
<1> QED  BY <1>4, <1>5 DEF add_event

LEMMA HandleKeeps ==
    ASSUME ApprovalInv, NEW r \in Request, Handle(r) PROVE Approvals'
<1>1. /\ Threshold \in Nat /\ 0 \in Nat /\ at[r].time \in Nat
      /\ nobody \in Citizen \cup {nobody} /\ "Citizen" \in Roles
      BY ThresholdIsNat DEF ApprovalInv, TypeOK, Roles
<1>2. /\ Candidacy \cap Initiative = {} /\ Candidacy \cap Referendum = {}
      BY MotionsAssumption
<1>3. CASE nominate_candidate(r)
      BY <1>1, <1>3, NominatedRow, OpenTruthful, NominationCarries, ProposeKeeps
      DEF nominate_candidate
<1>4. CASE propose_initiative(r)
  <2>1. Carries(EventOf("LawProposed", r.motion, nobody, "Citizen", "For", 1, at[r].time))
        BY DEF Carries, EventOf
  <2>2. OpenRow(Threshold, nobody, "Citizen") \in Row  BY <1>1, OpenRows
  <2> QED  BY <1>2, <1>4, <2>1, <2>2, ProposeKeeps DEF propose_initiative
<1>5. CASE announce_referendum(r)
  <2>1. Carries(EventOf("ElectionAnnounced", r.motion, nobody, "Citizen", "For", 0, at[r].time))
        BY DEF Carries, EventOf
  <2>2. OpenRow(0, nobody, "Citizen") \in Row  BY <1>1, OpenRows
  <2> QED  BY <1>2, <1>5, <2>1, <2>2, ProposeKeeps DEF announce_referendum
<1>6. CASE vote_for_candidate(r)  BY <1>6, VoteKeeps, ApproveKeeps DEF vote_for_candidate
<1>7. CASE vote_on_initiative(r)  BY <1>7, VoteKeeps, ApproveKeeps DEF vote_on_initiative
<1>8. CASE vote_on_referendum(r)  BY <1>8, VoteKeeps DEF vote_on_referendum
<1>9. CASE appoint_candidate(r)  BY <1>9, AppointKeeps
<1>10. CASE add_event(r)  BY <1>10, PostKeeps
<1>11. CASE Abandon(r)
  <2>1. Entitled(r, "done", 0)  BY DEF Entitled
  <2> QED  BY <1>11, <2>1, MoveKeeps DEF Abandon, Advance
<1> QED  BY <1>3, <1>4, <1>5, <1>6, <1>7, <1>8, <1>9, <1>10, <1>11 DEF Handle

-----------------------------------------------------------------------------
(* Gossip, blocks and projections.                                          *)

\* Events move, and nothing is added to them.
LEMMA EventsMove ==
    ASSUME ApprovalInv, (Submitted \cup tx.todo)' \subseteq Submitted \cup tx.todo,
           UNCHANGED <<motion, ballot, role, at, now, voted, posted>>
    PROVE  Approvals'
<1>1. Grows  BY DEF Grows
<1>2. EventsCarry'
      BY <1>1, CarriesGrows DEF ApprovalInv, Approvals, EventsCarry
<1> QED  BY <1>1, <1>2, KeepRequests, KeepRows, KeepBallots, KeepRoles
         DEF ApprovalInv, Approvals

LEMMA ExchangedKeeps == ApprovalInv /\ Exchanged => Approvals'
BY ExchangedMoves, EventsMove DEF ApprovalInv

LEMMA CountedKeeps ==
    ASSUME ApprovalInv, NEW n \in Node, NEW e \in Event, Carries(e),
           e.type \in {"CandidateVoted", "VoteCast"}, Counted(n, e), UNCHANGED <<voted, posted>>
    PROVE  RowsTruthful' /\ BallotsVoted'
<1> DEFINE m == e.motion
           row == [ballot[n][m] EXCEPT ![e.citizen] = e.choice]
           sum == Cardinality({c \in Citizen : row[c] = "For"})
           new == [motion[n][m] EXCEPT !.tally = sum]
<1>1. m \in Motion /\ (m \in Candidacy => e.type = "CandidateVoted")
      BY MotionsAssumption DEF Event, KindOf
<1>2. /\ motion[n][m] \in Row /\ ballot[n][m] \in [Citizen -> Choice \cup {"none"}]
      /\ ballot \in [Node -> [Motion -> [Citizen -> Choice \cup {"none"}]]]
      BY <1>1, RowTypes DEF ApprovalInv, TypeOK
<1>3. ASSUME m \in Candidacy, NEW c \in Citizen, row[c] # "none"
      PROVE  <<m, c, row[c]>> \in voted
  <2>1. CASE c = e.citizen  BY <1>1, <1>2, <1>3, <2>1 DEF Carries
  <2>2. CASE c # e.citizen
        BY <1>2, <1>3, <2>2 DEF ApprovalInv, Approvals, BallotsVoted
  <2> QED  BY <2>1, <2>2
<1>4. ballot' = [ballot EXCEPT ![n][m] = row] /\ motion' = [motion EXCEPT ![n][m] = new]
      BY DEF Counted
<1> HIDE DEF row
<1>5. BallotsVoted'
  <2> SUFFICES ASSUME NEW n2 \in Node, NEW m2 \in Candidacy, NEW c \in Citizen,
                      ballot'[n2][m2][c] # "none"
               PROVE  <<m2, c, ballot'[n2][m2][c]>> \in voted'
      BY DEF BallotsVoted
  <2>1. m2 \in Motion  BY DEF Motion
  <2>2. CASE n2 = n /\ m2 = m
    <3>1. ballot'[n2][m2] = row  BY <1>2, <1>4, <2>1, <2>2
    <3> QED  BY <1>3, <2>2, <3>1
  <2>3. CASE n2 # n \/ m2 # m
    <3>1. ballot'[n2][m2] = ballot[n2][m2]  BY <1>2, <1>4, <2>1, <2>3
    <3> QED  BY <3>1 DEF ApprovalInv, Approvals, BallotsVoted
  <2> QED  BY <2>2, <2>3
<1>6. m \in Candidacy => sum <= Cardinality(Supporters(m))
  <2> SUFFICES ASSUME m \in Candidacy PROVE sum <= Cardinality(Supporters(m))  OBVIOUS
  <2>1. {c \in Citizen : row[c] = "For"} \subseteq Supporters(m)  BY <1>3 DEF Supporters
  <2>2. Supporters(m) \subseteq Citizen  BY DEF Supporters
  <2>3. IsFiniteSet(Supporters(m))  BY <2>2, MotionsAssumption, FS_Subset
  <2> QED  BY <2>1, <2>3, FS_Subset
<1>7. sum \in Nat  BY CountIsNat
<1> HIDE DEF sum
<1>8. new \in Row  BY <1>2, <1>7 DEF Row
<1>9. ASSUME m \in Candidacy PROVE Truthful(m, new)
  <2>1. Truthful(m, motion[n][m])  BY <1>9 DEF ApprovalInv, Approvals, RowsTruthful
  <2> QED  BY <1>2, <1>6, <1>9, <2>1 DEF Truthful, Row
<1> HIDE DEF new, m
<1>10. Grows  BY DEF Grows
<1>11. RowsTruthful'  BY <1>1, <1>4, <1>8, <1>9, <1>10, RowWritten
<1> QED  BY <1>5, <1>11

\* A role that was earned, given to a citizen or to nobody.
LEMMA RoleGiven ==
    ASSUME ApprovalInv, UNCHANGED <<voted, posted>>, NEW n \in Node,
           NEW c \in Citizen \cup {nobody}, NEW w \in Roles, w # "Citizen" => Earned(c, w),
           role' = [role EXCEPT ![n][c] = w]
    PROVE  RoleEarned'
<1> SUFFICES ASSUME NEW n2 \in Node, NEW c2 \in Citizen, role'[n2][c2] # "Citizen"
             PROVE  Earned(c2, role[n2][c2])'
    BY DEF RoleEarned
<1>1. role \in [Node -> [Citizen -> Roles]]  BY DEF ApprovalInv, TypeOK
<1>2. Grows  BY DEF Grows
<1>3. Earned(c2, role'[n2][c2])
  <2>1. CASE n2 = n /\ c2 = c
    <3>1. role'[n2][c2] = w  BY <1>1, <2>1
    <3> QED  BY <2>1, <3>1
  <2>2. CASE n2 # n \/ c2 # c
    <3>1. role'[n2][c2] = role[n2][c2]  BY <1>1, <2>2
    <3> QED  BY <3>1 DEF ApprovalInv, Approvals, RoleEarned
  <2> QED  BY <2>1, <2>2
<1> QED  BY <1>2, <1>3, WarrantGrows DEF Earned

LEMMA ProjectKeeps == ApprovalInv /\ Project => Approvals'
<1> SUFFICES ASSUME ApprovalInv, NEW e \in tx.todo,
                    \/ apply_candidate_nominated(tx.node, e)
                    \/ apply_candidate_voted(tx.node, e)
                    \/ apply_candidate_approved(tx.node, e)
                    \/ apply_candidate_appointed(tx.node, e)
                    \/ apply_citizen_updated(tx.node, e)
                    \/ apply_law_proposed(tx.node, e)
                    \/ apply_vote_cast(tx.node, e)
                    \/ apply_law_vote_result(tx.node, e)
                    \/ apply_election_announced(tx.node, e),
                    tx' = IF tx.todo = {e} THEN NoTx ELSE Transaction(tx.node, tx.todo \ {e}),
                    UNCHANGED <<pending, log, height, at, now, voted, posted>>
             PROVE  Approvals'
    BY DEF Project
<1> DEFINE n == tx.node  m == e.motion  own == motion[n][m]
<1>1. n \in Node /\ e \in Event /\ Carries(e)
      BY DEF ApprovalInv, Approvals, TypeOK, EventsCarry
<1>2. /\ m \in Motion /\ m \in KindOf(e.type) /\ e.threshold \in Nat
      /\ e.citizen \in Citizen \cup {nobody} /\ e.role \in Roles
      BY <1>1 DEF Event
<1>3. own \in Row /\ (m \in Candidacy => Truthful(m, own))
      BY <1>1, <1>2, RowTypes DEF ApprovalInv, Approvals, RowsTruthful
<1> Grows  BY DEF Grows
<1>4. RequestsEntitled' /\ EventsCarry'
  <2>1. tx'.todo \subseteq tx.todo  BY DEF NoTx, Transaction
  <2>2. Submitted' = Submitted  BY DEF Submitted
  <2>3. EventsCarry'
        BY <2>1, <2>2, CarriesGrows DEF ApprovalInv, Approvals, EventsCarry
  <2> QED  BY <2>3, KeepRequests DEF ApprovalInv, Approvals
<1>5. UNCHANGED motion => RowsTruthful'  BY KeepRows DEF ApprovalInv, Approvals
<1>6. UNCHANGED ballot => BallotsVoted'  BY KeepBallots DEF ApprovalInv, Approvals
<1>7. UNCHANGED role => RoleEarned'  BY KeepRoles DEF ApprovalInv, Approvals
<1>8. ASSUME Created(n, e),
             e.type \in {"CandidateNominated", "LawProposed", "ElectionAnnounced"}
      PROVE  Approvals'
  <2> DEFINE open == OpenRow(e.threshold, e.citizen, e.role)
  <2>1. /\ open \in Row /\ open.status = "open" /\ open.tally = 0
        /\ open.threshold = e.threshold /\ open.citizen = e.citizen /\ open.role = e.role
        BY <1>2, OpenRows
  <2>2. motion' = motion \/ motion' = [motion EXCEPT ![n][m] = open]
        BY <1>8 DEF Created
  <2> HIDE DEF open
  <2>3. ASSUME m \in Candidacy PROVE Truthful(m, open)
    <3>1. e.type = "CandidateNominated"
          BY <1>2, <1>8, <2>3, MotionsAssumption DEF KindOf
    <3>2. Supporters(m) \subseteq Citizen  BY DEF Supporters
    <3>3. Cardinality(Supporters(m)) \in Nat  BY <3>2, CountIsNat
    <3> QED  BY <1>1, <2>1, <3>1, <3>3 DEF Carries, Truthful
  <2> HIDE DEF m
  <2>4. RowsTruthful'  BY <1>1, <1>2, <1>5, <2>1, <2>2, <2>3, RowWritten
  <2> QED  BY <1>4, <1>6, <1>7, <1>8, <2>4 DEF Created, Approvals
<1>9. ASSUME Counted(n, e), e.type \in {"CandidateVoted", "VoteCast"} PROVE Approvals'
      BY <1>1, <1>4, <1>7, <1>9, CountedKeeps DEF Counted, Approvals
<1>10. ASSUME NEW s \in {"approved", "appointed"}, m \in Candidacy => Warranted(m),
              \/ motion' = motion
              \/ own.status # "none" /\ motion' = [motion EXCEPT ![n][m].status = s]
       PROVE  RowsTruthful'
  <2> DEFINE row == [own EXCEPT !.status = s]
  <2>1. row \in Row  BY <1>3 DEF Row, Status
  <2>2. m \in Candidacy /\ own.status # "none" => Truthful(m, row)
        BY <1>3, <1>10 DEF Truthful, Row
  <2>3. \/ motion' = motion
        \/ own.status # "none" /\ motion' = [motion EXCEPT ![n][m] = row]
        BY <1>10
  <2> HIDE DEF row, m
  <2> QED  BY <1>1, <1>2, <1>5, <2>1, <2>2, <2>3, RowWritten
<1>11. CASE apply_candidate_approved(n, e)
  <2>1. Warranted(m)  BY <1>1, <1>11 DEF Carries, apply_candidate_approved
  <2>2. \/ motion' = motion
        \/ own.status # "none" /\ motion' = [motion EXCEPT ![n][m].status = "approved"]
        BY <1>11 DEF apply_candidate_approved
  <2> QED  BY <1>4, <1>6, <1>7, <1>10, <1>11, <2>1, <2>2
           DEF apply_candidate_approved, Approvals
<1>12. CASE apply_law_vote_result(n, e)
  <2>1. m \notin Candidacy
        BY <1>2, <1>12, MotionsAssumption DEF KindOf, apply_law_vote_result
  <2>2. \/ motion' = motion
        \/ own.status # "none" /\ motion' = [motion EXCEPT ![n][m].status = "approved"]
        BY <1>12 DEF apply_law_vote_result
  <2> QED  BY <1>4, <1>6, <1>7, <1>10, <1>12, <2>1, <2>2
           DEF apply_law_vote_result, Approvals
<1>13. CASE apply_candidate_appointed(n, e)
  <2>1. Warranted(m) /\ Earned(e.citizen, e.role)
        BY <1>1, <1>13 DEF Carries, apply_candidate_appointed
  <2>2. \/ motion' = motion
        \/ own.status # "none" /\ motion' = [motion EXCEPT ![n][m].status = "appointed"]
        BY <1>13 DEF apply_candidate_appointed
  <2>3. RowsTruthful'  BY <1>10, <2>1, <2>2
  <2>4. RoleEarned'
        BY <1>1, <1>2, <1>13, <2>1, RoleGiven DEF apply_candidate_appointed
  <2> QED  BY <1>4, <1>6, <1>13, <2>3, <2>4 DEF apply_candidate_appointed, Approvals
<1>14. CASE apply_citizen_updated(n, e)
  <2>1. e.role # "Citizen" => Earned(e.citizen, e.role)
        BY <1>1, <1>14 DEF Carries, apply_citizen_updated
  <2>2. RoleEarned'  BY <1>1, <1>2, <1>14, <2>1, RoleGiven DEF apply_citizen_updated
  <2> QED  BY <1>4, <1>5, <1>6, <1>14, <2>2 DEF apply_citizen_updated, Approvals
<1>15. CASE UNCHANGED <<motion, ballot, role>>
       BY <1>4, <1>5, <1>6, <1>7, <1>15 DEF Approvals
<1>16. CASE \/ apply_candidate_nominated(n, e) \/ apply_law_proposed(n, e)
            \/ apply_election_announced(n, e)
       BY <1>8, <1>16
       DEF apply_candidate_nominated, apply_law_proposed, apply_election_announced
<1>17. CASE apply_candidate_voted(n, e) \/ apply_vote_cast(n, e)
       BY <1>9, <1>15, <1>17 DEF apply_candidate_voted, apply_vote_cast
<1> QED  BY <1>11, <1>12, <1>13, <1>14, <1>16, <1>17

-----------------------------------------------------------------------------
LEMMA ApprovalInit == Init => ApprovalInv
<1> SUFFICES ASSUME Init PROVE Approvals  BY TypeInit, StatusInit DEF ApprovalInv
<1> PICK s \in Scenarios :
          /\ at = [r \in Request |-> Place(IF r \in s.asked THEN "new" ELSE "done", 0, 0)]
          /\ motion = [n \in Node |-> [m \in Motion |->
                         IF m \in s.standing THEN Nominated(m) ELSE NoRow]]
          /\ log = <<{Nomination(m, 0) : m \in s.standing}>>
          /\ now = s.start
    BY DEF Init
<1>1. EventsCarry
  <2>1. \A m \in s.standing : Carries(Nomination(m, 0))
        BY NominationCarries, MotionsAssumption
  <2> DEFINE first == {Nomination(m, 0) : m \in s.standing}
  <2>2. tx.todo = {} /\ \A n \in Node : pending[n] = {}  BY DEF Init, NoTx, Transaction
  <2>3. log = <<first>>  OBVIOUS
  <2> HIDE DEF first
  <2>4. \A k \in 1..Len(log) : log[k] = first
    <3>1. Len(log) = 1 /\ log[1] = first  BY <2>3
    <3>2. \A k \in 1..1 : k = 1  OBVIOUS
    <3> QED  BY <3>1, <3>2, Zenon
  <2>5. Submitted \cup tx.todo \subseteq first  BY <2>2, <2>4 DEF Submitted
  <2> QED  BY <2>1, <2>5 DEF EventsCarry, first
<1>2. RequestsEntitled
  <2>1. \A r \in Request : at[r].phase \in {"new", "done"}  BY DEF Place
  <2> QED  BY <2>1 DEF RequestsEntitled, Entitled
<1>3. RowsTruthful
  <2> SUFFICES ASSUME NEW n \in Node, NEW m \in Candidacy PROVE Truthful(m, motion[n][m])
      BY DEF RowsTruthful
  <2>1. motion[n][m] \in {Nominated(m), NoRow}  BY DEF Motion
  <2>2. Supporters(m) \subseteq Citizen  BY DEF Supporters
  <2>3. Cardinality(Supporters(m)) \in Nat  BY <2>2, CountIsNat
  <2>4. Truthful(m, NoRow)  BY <2>3 DEF Truthful, NoRow
  <2> QED  BY <2>1, <2>4, OpenTruthful
<1>4. BallotsVoted /\ RoleEarned  BY DEF Init, BallotsVoted, RoleEarned, Motion
<1> QED  BY <1>1, <1>2, <1>3, <1>4 DEF Approvals

LEMMA ApprovalStep == ApprovalInv /\ [Next]_vars => ApprovalInv'
<1> SUFFICES ASSUME ApprovalInv, [Next]_vars PROVE Approvals'
    BY TypeStep, StatusStep DEF ApprovalInv
<1>1. CASE Project  BY <1>1, ProjectKeeps
<1>2. CASE Exchanged  BY <1>2, ExchangedKeeps
<1>3. ASSUME NEW r \in Request, Handle(r) PROVE Approvals'  BY <1>3, HandleKeeps
<1>4. CASE Tick \/ UNCHANGED vars
  <2>1. UNCHANGED <<motion, ballot, role, pending, log, tx, at, voted, posted>>
        BY <1>4 DEF Tick, vars, chain
  <2>2. Grows  BY <2>1 DEF Grows
  <2>3. EventsCarry'  BY <2>1, <2>2, KeepEvents DEF ApprovalInv, Approvals
  <2> QED  BY <2>1, <2>2, <2>3, KeepRequests, KeepRows, KeepBallots, KeepRoles
           DEF ApprovalInv, Approvals
<1> QED  BY <1>1, <1>2, <1>3, <1>4 DEF Next

LEMMA ApprovalAlways == Spec => []ApprovalInv
BY ApprovalInit, ApprovalStep, PTL DEF Spec

(* No candidacy is approved, and nobody appointed, on any node of any       *)
(* network without the votes of the threshold of different citizens, unless *)
(* a client has posted the nomination, approval or appointment as an event: *)
(* vote_for_candidate and approve_candidate decide from a count that may be *)
(* stale, and blocks carry the decision, and posted votes, to nodes with    *)
(* other votes.                                                             *)
THEOREM Approval == Spec => []ApprovalBacked
<1>1. ApprovalInv => ApprovalBacked
      BY DEF ApprovalInv, Approvals, RowsTruthful, Truthful, ApprovalBacked
<1> QED  BY <1>1, ApprovalAlways, PTL

(* Every governance role on every node comes from a candidacy for it that   *)
(* had the votes or was overridden, or from an appointment that a client    *)
(* has posted: whether the node took it from the block of an appointment or *)
(* from a CitizenUpdated event alone, that of a client included.            *)
THEOREM RolesAreEarned == Spec => []RoleEarned
<1>1. ApprovalInv => RoleEarned  BY DEF ApprovalInv, Approvals
<1> QED  BY <1>1, ApprovalAlways, PTL

-----------------------------------------------------------------------------
(* Confirmed votes stand.  The blocks of a node are projected in order, and *)
(* the events of a block so that none comes before one that has been        *)
(* projected: a vote of a block replaces earlier ones only.  No request     *)
(* replaces a vote, since the row of that vote is there.                    *)
Heights == \A n \in Node : height[n] \in 1..Len(log)

\* What is left of the block that is being projected.
TodoInOrder ==
    LET block == log[height[tx.node]]
    IN  /\ tx.todo \subseteq block
        /\ \A f \in tx.todo, g \in block \ tx.todo : ~Before(f, g)

VotesInv == Heights /\ TodoInOrder /\ ConfirmedVotesStand

\* A vote f of block j of n, at or after e of block k, is the one counted.
Stands(n, k, e, j, f) ==
    /\ IsVote(f, e.motion, e.citizen)
    /\ j = k => ~Before(f, e)
    /\ ballot[n][e.motion][e.citizen] = f.choice

LEMMA StandingVote ==
    ASSUME ConfirmedVotesStand, NEW n \in Node, NEW k \in 1..height[n],
           NEW e \in Projected(n, k), e.type = "CandidateVoted"
    PROVE  \E j \in k..height[n] : \E f \in Projected(n, j) : Stands(n, k, e, j, f)
BY DEF ConfirmedVotesStand, Stands

\* A vote in the chain is by a citizen on a candidacy, with a choice.
LEMMA VoteOfChain ==
    ASSUME TypeOK, NEW k \in 1..Len(log), NEW e \in log[k], e.type = "CandidateVoted"
    PROVE  /\ e \in Event /\ e.motion \in Candidacy /\ e.motion \in Motion
           /\ e.citizen \in Citizen /\ e.choice \in Choice /\ e.time \in Nat
           /\ e.id.prefix \in Nat
<1>1. e \in Event  BY DEF TypeOK
<1>2. e.motion \in Candidacy /\ e.citizen \in Citizen  BY <1>1 DEF Event, KindOf, Votes
<1>3. e.id \in EventId /\ e.choice \in Choice /\ e.time \in Nat  BY <1>1 DEF Event
<1>4. e.id.prefix \in Nat  BY <1>3 DEF EventId
<1> QED  BY <1>1, <1>2, <1>3, <1>4 DEF Motion

\* The handler of a request leaves chain and votes alone, or adds a first vote.
Handled(r) ==
    /\ UNCHANGED <<log, height, tx>>
    /\ \/ UNCHANGED ballot
       \/ /\ ballot[r.node][r.motion][r.citizen] = "none"
          /\ ballot' = [ballot EXCEPT ![r.node][r.motion][r.citizen] = r.choice]

LEMMA EnqueueHandled ==
    ASSUME NEW r, NEW e, NEW from, NEW to, Validate(r, e, from, to) \/ Enqueue(r, e, from, to)
    PROVE  Handled(r)
BY DEF Handled, Validate, Enqueue, chain

LEMMA ProposeHandled == ASSUME NEW r, NEW row, NEW e, Propose(r, row, e) PROVE Handled(r)
<1>1. ProposeCheck(r) \/ ProposeInsert(r, row) => Handled(r)
      BY DEF Handled, ProposeCheck, ProposeInsert, chain
<1> QED  BY <1>1, EnqueueHandled DEF Propose

LEMMA VoteHandled ==
    ASSUME NEW r, NEW type, NEW after, Vote(r, type, after)
    PROVE  Handled(r)
<1> DEFINE e == EventOf(type, r.motion, r.citizen, "Citizen", r.choice, 0, at[r].time)
<1> HIDE DEF e
<1>1. \/ VoteCheck(r) \/ VoteInsert(r) \/ CountVotes(r) \/ refresh_vote_counts(r)
      \/ Validate(r, e, "refreshed", "validated") \/ Enqueue(r, e, "validated", after)
      BY DEF Vote, e
<1>2. VoteCheck(r) \/ CountVotes(r) \/ refresh_vote_counts(r) => Handled(r)
      BY DEF Handled, VoteCheck, CountVotes, refresh_vote_counts, chain
<1>3. VoteInsert(r) => Handled(r)  BY DEF Handled, VoteInsert, chain
<1> QED  BY <1>1, <1>2, <1>3, EnqueueHandled

LEMMA ApproveHandled == ASSUME NEW r, NEW type, Approve(r, type) PROVE Handled(r)
<1> DEFINE e == EventOf(type, r.motion, nobody, "Citizen", "For", 0, at[r].time)
<1> HIDE DEF e
<1>1. \/ ThresholdCheck(r) \/ ApproveUpdate(r)
      \/ Validate(r, e, "approved", "approvalValidated") \/ Enqueue(r, e, "approvalValidated", "done")
      BY DEF Approve, e
<1>2. ThresholdCheck(r) \/ ApproveUpdate(r) => Handled(r)
      BY DEF Handled, ThresholdCheck, ApproveUpdate, chain
<1> QED  BY <1>1, <1>2, EnqueueHandled

LEMMA AppointHandled == ASSUME NEW r, appoint_candidate(r) PROVE Handled(r)
<1>1. AppointCheck(r) \/ AppointUpdate(r) => Handled(r)
      BY DEF Handled, AppointCheck, AppointUpdate, chain
<1> QED  BY <1>1, EnqueueHandled DEF appoint_candidate

LEMMA AllHandled == ASSUME NEW r, Handle(r) PROVE Handled(r)
<1>1. Abandon(r) => Handled(r)  BY DEF Handled, Abandon, chain
<1>2. add_event(r) => Handled(r)
      BY EnqueueHandled DEF Handled, add_event, PostValidate, PostInsert
<1> QED
  BY <1>1, <1>2, ProposeHandled, VoteHandled, ApproveHandled, AppointHandled
  DEF Handle, nominate_candidate, propose_initiative, announce_referendum,
      vote_for_candidate, vote_on_initiative, vote_on_referendum

LEMMA HandledVotes ==
    ASSUME TypeOK, VotesInv, NEW r \in Request, Handled(r)
    PROVE  VotesInv'
<1>1. Heights' /\ TodoInOrder'  BY DEF VotesInv, Handled, Heights, TodoInOrder, Before
<1>2. \A n, k : Projected(n, k)' = Projected(n, k)  BY DEF Handled, Projected
<1>3. ASSUME NEW n \in Node, NEW k \in 1..height[n], NEW e \in Projected(n, k),
             e.type = "CandidateVoted"
      PROVE  \E j \in k..height[n] : \E f \in Projected(n, j) : Stands(n, k, e, j, f)'
  <2> PICK j \in k..height[n] : \E f \in Projected(n, j) : Stands(n, k, e, j, f)
      BY <1>3, StandingVote DEF VotesInv
  <2> PICK f \in Projected(n, j) : Stands(n, k, e, j, f)  OBVIOUS
  <2>1. height[n] \in 1..Len(log) /\ Len(log) \in Nat  BY DEF VotesInv, Heights, TypeOK
  <2>2. k \in 1..Len(log) /\ j \in 1..Len(log)  BY <2>1
  <2>3. e \in log[k] /\ f \in log[j]  BY DEF Projected
  <2>4. e.motion \in Motion /\ e.citizen \in Citizen  BY <1>3, <2>2, <2>3, VoteOfChain
  <2>5. f.choice # "none"  BY <2>2, <2>3, VoteOfChain DEF Stands, IsVote, Choice
  <2>6. ballot \in [Node -> [Motion -> [Citizen -> Choice \cup {"none"}]]]  BY DEF TypeOK
  <2>7. ballot'[n][e.motion][e.citizen] = ballot[n][e.motion][e.citizen]
    <3>1. CASE ballot' = ballot  BY <3>1
    <3>2. ASSUME ballot[r.node][r.motion][r.citizen] = "none",
                 ballot' = [ballot EXCEPT ![r.node][r.motion][r.citizen] = r.choice]
          PROVE  ballot'[n][e.motion][e.citizen] = ballot[n][e.motion][e.citizen]
      <4>1. ~(n = r.node /\ e.motion = r.motion /\ e.citizen = r.citizen)
            BY <2>5, <3>2 DEF Stands
      <4> QED  BY <2>4, <2>6, <3>2, <4>1
    <3> QED  BY <3>1, <3>2 DEF Handled
  <2>8. Stands(n, k, e, j, f)'  BY <2>7 DEF Stands, IsVote, Before
  <2> QED  BY <2>8
<1>4. height' = height  BY DEF Handled
<1>5. ConfirmedVotesStand'
      BY <1>2, <1>3, <1>4, Zenon DEF ConfirmedVotesStand, Stands
<1> QED  BY <1>1, <1>5 DEF VotesInv

\* A block of n comes into its chain: all of it is still to be projected.
LEMMA BegunVotes ==
    ASSUME TypeOK, VotesInv, tx.todo = {}, NEW n \in Node, NEW B,
           BeginProjection(n, B), log' \in Seq(SUBSET Event), height[n] < Len(log'),
           Len(log) <= Len(log'), \A k \in 1..Len(log) : log'[k] = log[k],
           log'[height[n] + 1] = B
    PROVE  VotesInv'
<1>1. height \in [Node -> Nat] /\ Len(log) \in Nat /\ Len(log') \in Nat  BY DEF TypeOK
<1>2. \A p \in Node : height[p] \in 1..Len(log)  BY DEF VotesInv, Heights
<1>3. /\ height' = [height EXCEPT ![n] = @ + 1] /\ ballot' = ballot
      /\ tx'.node = n /\ tx'.todo = B
      BY DEF BeginProjection, Transaction
<1>4. \A p \in Node : height'[p] = IF p = n THEN height[n] + 1 ELSE height[p]
      BY <1>1, <1>3
<1>5. Heights'
  <2> SUFFICES ASSUME NEW p \in Node PROVE height'[p] \in 1..Len(log')  BY DEF Heights
  <2> QED  BY <1>1, <1>2, <1>4
<1>6. TodoInOrder'
  <2>1. log'[height'[tx'.node]] = B  BY <1>3, <1>4
  <2> QED  BY <1>3, <2>1 DEF TodoInOrder
<1>7. \A p \in Node : \A k \in 1..height[p] : Projected(p, k)' = Projected(p, k)
  <2> SUFFICES ASSUME NEW p \in Node, NEW k \in 1..height[p]
               PROVE  Projected(p, k)' = Projected(p, k)
      OBVIOUS
  <2>1. k \in 1..Len(log) /\ log'[k] = log[k]  BY <1>1, <1>2
  <2>2. Projected(p, k) = log[k]  BY DEF Projected
  <2>3. ~(tx'.node = p /\ k = height'[p])  BY <1>1, <1>2, <1>3, <1>4
  <2>4. Projected(p, k)' = log'[k]  BY <2>3 DEF Projected
  <2> QED  BY <2>1, <2>2, <2>4
<1>8. ConfirmedVotesStand'
  <2> SUFFICES ASSUME NEW p \in Node, NEW k \in 1..height'[p], NEW e \in Projected(p, k)',
                      e.type = "CandidateVoted"
               PROVE  \E j \in k..height'[p] : \E f \in Projected(p, j)' :
                         Stands(p, k, e, j, f)'
      BY DEF ConfirmedVotesStand, Stands
  <2>1. k \in 1..height[p]
    <3>1. ASSUME p = n, k = height[n] + 1 PROVE FALSE
      <4>1. Projected(p, k)' = {}  BY <1>3, <1>4, <3>1 DEF Projected
      <4> QED  BY <4>1
    <3> QED  BY <1>1, <1>2, <1>4, <3>1
  <2> PICK j \in k..height[p] : \E f \in Projected(p, j) : Stands(p, k, e, j, f)
      BY <1>7, <2>1, StandingVote DEF VotesInv
  <2>2. PICK f \in Projected(p, j) : Stands(p, k, e, j, f)  OBVIOUS
  <2>3. j \in 1..height[p] /\ j \in k..height'[p]  BY <1>1, <1>2, <1>4, <2>1
  <2>4. f \in Projected(p, j)'  BY <1>7, <2>3
  <2>5. Stands(p, k, e, j, f)'  BY <1>3, <2>2 DEF Stands, IsVote, Before
  <2> QED  BY <2>3, <2>4, <2>5
<1> QED  BY <1>5, <1>6, <1>8 DEF VotesInv

LEMMA SameVotes ==
    ASSUME VotesInv, UNCHANGED <<log, height, tx, ballot>> PROVE VotesInv'
<1>1. Heights' /\ TodoInOrder'  BY DEF VotesInv, Heights, TodoInOrder, Before
<1>2. ConfirmedVotesStand'
      BY DEF VotesInv, ConfirmedVotesStand, Projected, IsVote, Before
<1> QED  BY <1>1, <1>2 DEF VotesInv

LEMMA ExchangedVotes ==
    ASSUME TypeOK, VotesInv, tx.todo = {}, Exchanged
    PROVE  VotesInv'
<1> PICK n \in Node : \/ \E e \in Submitted : Gossip(n, e)
                      \/ \E reached \in SUBSET (Node \ {n}) : ProduceBlock(n, reached)
                      \/ SyncBlock(n)
    BY DEF Exchanged
<1>1. log \in Seq(SUBSET Event) /\ height[n] \in Nat /\ Len(log) \in Nat  BY DEF TypeOK
<1>2. ASSUME NEW e \in Submitted, Gossip(n, e) PROVE VotesInv'
      BY <1>2, SameVotes DEF Gossip
<1>3. ASSUME NEW reached \in SUBSET (Node \ {n}), ProduceBlock(n, reached) PROVE VotesInv'
  <2>1. PICK B \in Batches(n, reached) : log' = Append(log, B) /\ BeginProjection(n, B)
        BY <1>3 DEF ProduceBlock
  <2>2. height[n] = Len(log)  BY <1>3 DEF ProduceBlock
  <2>3. B \in SUBSET Event  BY BatchesAreEvents
  <2>4. /\ log' \in Seq(SUBSET Event) /\ Len(log') = Len(log) + 1
        /\ \A k \in 1..Len(log) : log'[k] = log[k]
        /\ log'[Len(log) + 1] = B
        BY <1>1, <2>1, <2>3
  <2>5. height[n] < Len(log') /\ Len(log) <= Len(log') /\ log'[height[n] + 1] = B
        BY <1>1, <2>2, <2>4
  <2> QED  BY <2>1, <2>4, <2>5, BegunVotes
<1>4. ASSUME SyncBlock(n) PROVE VotesInv'
  <2>1. log' = log /\ height[n] < Len(log) /\ BeginProjection(n, log[height[n] + 1])
        BY <1>4 DEF SyncBlock
  <2> QED  BY <1>1, <2>1, BegunVotes
<1> QED  BY <1>2, <1>3, <1>4

\* What a projected event does to the votes on candidacies.
LEMMA ProjectedBallot ==
    ASSUME TypeOK, Project
    PROVE  \E e \in tx.todo :
              /\ \A f \in tx.todo : ~Before(f, e)
              /\ \/ tx'.node = tx.node /\ tx'.todo = tx.todo \ {e}
                 \/ tx'.todo = {} /\ tx.todo = {e}
              /\ UNCHANGED <<log, height>>
              /\ \A n \in Node, m \in Candidacy, c \in Citizen :
                    ballot'[n][m][c] =
                        IF n = tx.node /\ e.type = "CandidateVoted" /\ m = e.motion /\ c = e.citizen
                        THEN e.choice ELSE ballot[n][m][c]
<1> PICK e \in tx.todo :
        /\ \A f \in tx.todo : ~Before(f, e)
        /\ \/ apply_candidate_nominated(tx.node, e)
           \/ apply_candidate_voted(tx.node, e)
           \/ apply_candidate_approved(tx.node, e)
           \/ apply_candidate_appointed(tx.node, e)
           \/ apply_citizen_updated(tx.node, e)
           \/ apply_law_proposed(tx.node, e)
           \/ apply_vote_cast(tx.node, e)
           \/ apply_law_vote_result(tx.node, e)
           \/ apply_election_announced(tx.node, e)
        /\ tx' = IF tx.todo = {e} THEN NoTx ELSE Transaction(tx.node, tx.todo \ {e})
        /\ UNCHANGED <<pending, log, height, at, now, voted, posted>>
    BY DEF Project
<1>1. /\ ballot \in [Node -> [Motion -> [Citizen -> Choice \cup {"none"}]]]
      /\ tx.node \in Node /\ e \in Event /\ e.motion \in Motion
      BY DEF TypeOK, Event
<1>2. \/ tx'.node = tx.node /\ tx'.todo = tx.todo \ {e}
      \/ tx'.todo = {} /\ tx.todo = {e}
      BY DEF Transaction, NoTx
<1>3. \/ ballot' = ballot /\ e.type # "CandidateVoted"
      \/ Counted(tx.node, e) /\ e.type \in {"CandidateVoted", "VoteCast"}
      BY DEF apply_candidate_nominated, apply_candidate_voted, apply_candidate_approved,
         apply_candidate_appointed, apply_citizen_updated, apply_law_proposed, apply_vote_cast,
         apply_law_vote_result, apply_election_announced, Created
<1>4. ASSUME NEW n \in Node, NEW m \in Candidacy, NEW c \in Citizen
      PROVE  ballot'[n][m][c] =
                IF n = tx.node /\ e.type = "CandidateVoted" /\ m = e.motion /\ c = e.citizen
                THEN e.choice ELSE ballot[n][m][c]
  <2>1. m \in Motion  BY DEF Motion
  <2>2. CASE ballot' = ballot /\ e.type # "CandidateVoted"  BY <2>2
  <2>3. CASE Counted(tx.node, e) /\ e.type \in {"CandidateVoted", "VoteCast"}
    <3> DEFINE row == [ballot[tx.node][e.motion] EXCEPT ![e.citizen] = e.choice]
    <3>1. ballot' = [ballot EXCEPT ![tx.node][e.motion] = row]  BY <2>3 DEF Counted
    <3>2. row[c] = IF c = e.citizen THEN e.choice ELSE ballot[tx.node][e.motion][c]
          BY <1>1
    <3>3. m = e.motion => e.type = "CandidateVoted"
          BY <1>1, <2>3, MotionsAssumption DEF Event, KindOf
    <3> HIDE DEF row
    <3>4. ballot'[n][m] = IF n = tx.node /\ m = e.motion THEN row ELSE ballot[n][m]
          BY <1>1, <2>1, <3>1
    <3> QED  BY <3>2, <3>3, <3>4
  <2> QED  BY <1>3, <2>2, <2>3
<1> QED  BY <1>2, <1>4

LEMMA ProjectVotes ==
    ASSUME TypeOK, VotesInv, Project
    PROVE  VotesInv'
<1> PICK e \in tx.todo :
        /\ \A f \in tx.todo : ~Before(f, e)
        /\ \/ tx'.node = tx.node /\ tx'.todo = tx.todo \ {e}
           \/ tx'.todo = {} /\ tx.todo = {e}
        /\ UNCHANGED <<log, height>>
        /\ \A n \in Node, m \in Candidacy, c \in Citizen :
              ballot'[n][m][c] =
                  IF n = tx.node /\ e.type = "CandidateVoted" /\ m = e.motion /\ c = e.citizen
                  THEN e.choice ELSE ballot[n][m][c]
    BY ProjectedBallot
<1> PICK top : top = height[tx.node]  OBVIOUS
<1>1. /\ tx.node \in Node /\ e \in log[top] /\ tx.todo \subseteq log[top]
      /\ \A f \in tx.todo, g \in log[top] \ tx.todo : ~Before(f, g)
      /\ top \in 1..Len(log) /\ Len(log) \in Nat
      BY DEF TypeOK, VotesInv, TodoInOrder, Heights
<1>2. Heights'  BY DEF VotesInv, Heights
<1>3. TodoInOrder'
  <2>1. CASE tx'.node = tx.node /\ tx'.todo = tx.todo \ {e}
    <3>1. log'[height'[tx'.node]] = log[top]  BY <2>1
    <3>2. \A f \in tx'.todo, g \in log[top] \ tx'.todo : ~Before(f, g)  BY <1>1, <2>1
    <3> QED  BY <1>1, <2>1, <3>1, <3>2 DEF TodoInOrder, Before
  <2>2. CASE tx'.todo = {}  BY <2>2 DEF TodoInOrder
  <2> QED  BY <2>1, <2>2
<1>4. \A n \in Node : \A k \in 1..height[n] :
         Projected(n, k)' = Projected(n, k) \cup (IF n = tx.node /\ k = top THEN {e} ELSE {})
  <2> SUFFICES ASSUME NEW n \in Node, NEW k \in 1..height[n]
               PROVE  Projected(n, k)' =
                         Projected(n, k) \cup (IF n = tx.node /\ k = top THEN {e} ELSE {})
      OBVIOUS
  <2>1. CASE n = tx.node /\ k = top
    <3>1. Projected(n, k) = log[top] \ tx.todo  BY <2>1 DEF Projected
    <3>2. Projected(n, k)' = log[top] \ (tx.todo \ {e})  BY <2>1 DEF Projected
    <3> QED  BY <1>1, <2>1, <3>1, <3>2
  <2>2. CASE ~(n = tx.node /\ k = top)
    <3>1. Projected(n, k) = log[k]  BY <2>2 DEF Projected
    <3>2. Projected(n, k)' = log[k]  BY <2>2 DEF Projected
    <3> QED  BY <2>2, <3>1, <3>2
  <2> QED  BY <2>1, <2>2
<1>5. ASSUME NEW n \in Node, NEW k \in 1..height[n], NEW g \in Projected(n, k)',
             g.type = "CandidateVoted"
      PROVE  \E j \in k..height[n] : \E f \in Projected(n, j)' : Stands(n, k, g, j, f)'
  <2>1. k \in 1..Len(log) /\ height[n] \in 1..Len(log) /\ g \in log[k]
    <3>1. height[n] \in 1..Len(log)  BY DEF VotesInv, Heights
    <3>2. g \in log[k]  BY <1>1, <1>4, <1>5 DEF Projected
    <3> QED  BY <1>1, <3>1, <3>2
  <2>2. /\ g.motion \in Candidacy /\ g.citizen \in Citizen /\ g.time \in Nat
        /\ g.id.prefix \in Nat
        BY <1>5, <2>1, VoteOfChain
  <2>3. CASE n = tx.node /\ IsVote(e, g.motion, g.citizen)
    <3>1. top \in k..height[n]  BY <1>1, <2>1, <2>3
    <3>2. top \in 1..height[n] /\ e \in Projected(n, top)'  BY <1>1, <1>4, <2>3
    <3>3. k = top => ~Before(e, g)
      <4>1. CASE g = e  BY <2>2, <4>1 DEF Before
      <4>2. ASSUME g # e, k = top PROVE ~Before(e, g)
        <5>1. g \in log[top] \ tx.todo  BY <1>4, <1>5, <2>3, <4>2 DEF Projected
        <5> QED  BY <1>1, <5>1
      <4> QED  BY <4>1, <4>2
    <3>4. ballot'[n][g.motion][g.citizen] = e.choice  BY <2>2, <2>3 DEF IsVote
    <3>5. Stands(n, k, g, top, e)'  BY <2>3, <3>3, <3>4 DEF Stands, IsVote, Before
    <3> QED  BY <3>1, <3>2, <3>5
  <2>4. CASE ~(n = tx.node /\ IsVote(e, g.motion, g.citizen))
    <3>1. g \in Projected(n, k)  BY <1>4, <1>5, <2>4 DEF IsVote
    <3> PICK j \in k..height[n] : \E f \in Projected(n, j) : Stands(n, k, g, j, f)
        BY <1>5, <3>1, StandingVote DEF VotesInv
    <3>2. PICK f \in Projected(n, j) : Stands(n, k, g, j, f)  OBVIOUS
    <3>3. j \in 1..height[n] /\ f \in Projected(n, j)'  BY <1>4, <2>1
    <3>4. ballot'[n][g.motion][g.citizen] = ballot[n][g.motion][g.citizen]
          BY <2>2, <2>4 DEF IsVote
    <3>5. Stands(n, k, g, j, f)'  BY <3>2, <3>4 DEF Stands, IsVote, Before
    <3> QED  BY <3>3, <3>5
  <2> QED  BY <2>3, <2>4
<1>6. ConfirmedVotesStand'
  <2>1. height' = height  OBVIOUS
  <2> SUFFICES ASSUME NEW n \in Node, NEW k \in 1..height[n], NEW g \in Projected(n, k)',
                      g.type = "CandidateVoted"
               PROVE  \E j \in k..height[n] : \E f \in Projected(n, j)' : Stands(n, k, g, j, f)'
      BY <2>1 DEF ConfirmedVotesStand, Stands
  <2> QED  BY <1>5
<1> QED  BY <1>2, <1>3, <1>6 DEF VotesInv

LEMMA VotesInit == Init => VotesInv
<1> SUFFICES ASSUME Init PROVE VotesInv  OBVIOUS
<1> PICK s \in Scenarios : log = <<{Nomination(m, 0) : m \in s.standing}>>
    BY DEF Init
<1> DEFINE first == {Nomination(m, 0) : m \in s.standing}
<1>1. \A e \in first : e.type = "CandidateNominated"  BY DEF Nomination, EventOf
<1>2. log = <<first>>  OBVIOUS
<1> HIDE DEF first
<1>3. Len(log) = 1 /\ log[1] = first /\ 1..1 = {1}  BY <1>2
<1>4. height = [n \in Node |-> 1] /\ tx.todo = {}  BY DEF Init, NoTx, Transaction
<1>5. Heights /\ TodoInOrder  BY <1>3, <1>4 DEF Heights, TodoInOrder
<1>6. \A n \in Node : \A k \in 1..height[n] : Projected(n, k) = first
      BY <1>3, <1>4 DEF Projected
<1>7. ConfirmedVotesStand  BY <1>1, <1>6 DEF ConfirmedVotesStand
<1> QED  BY <1>5, <1>7 DEF VotesInv

LEMMA VotesStep == TypeOK /\ VotesInv /\ [Next]_vars => VotesInv'
<1> SUFFICES ASSUME TypeOK, VotesInv, [Next]_vars PROVE VotesInv'  OBVIOUS
<1>1. ASSUME Project PROVE VotesInv'  BY <1>1, ProjectVotes
<1>2. ASSUME Quiet, Exchanged PROVE VotesInv'  BY <1>2, ExchangedVotes DEF Quiet
<1>3. ASSUME NEW r \in Request, Handle(r) PROVE VotesInv'
      BY <1>3, AllHandled, HandledVotes
<1>4. ASSUME Tick \/ UNCHANGED vars PROVE VotesInv'
      BY <1>4, SameVotes DEF Tick, vars, chain
<1> QED  BY <1>1, <1>2, <1>3, <1>4 DEF Next

(* Of two votes of one citizen, on two nodes or posted under ids of their   *)
(* own, the one that a block confirms is counted by every node that has the *)
(* block, whatever the node had, until a later one is confirmed: for any    *)
(* nodes, citizens, requests and order of gossip and blocks.                *)
THEOREM VotesStand == Spec => []ConfirmedVotesStand
<1>1. VotesInv => ConfirmedVotesStand  BY DEF VotesInv
<1>2. Spec => []VotesInv  BY TypeInit, TypeStep, VotesInit, VotesStep, PTL DEF Spec
<1> QED  BY <1>1, <1>2, PTL
=============================================================================
