------------------------------ MODULE Motions ------------------------------
(***************************************************************************)
(* Candidacies (candidacy.rs), initiatives (initiative.rs) and referendums *)
(* (referendum.rs) on a network of nodes: the requests of citizens, the    *)
(* rows each node writes for them at once, the events it submits, and the  *)
(* projection (projection.rs) of the blocks on the rows of every node.     *)
(*                                                                         *)
(* The chain is what ReplicatedLog promises: one log, of which every node  *)
(* has applied a prefix.  A block is a set of events, since its producer   *)
(* sorts them.  The three kinds of motion share their handlers' shape, and *)
(* their states are named alike: "open" stands for Active and Proposed,    *)
(* "approved" for Approved and Passed.  LawVoteStarted is left out: no     *)
(* initiative is in a state it would change.                               *)
(*                                                                         *)
(* Clients also post events of their own (handlers.rs add_event), which    *)
(* are validated as events and need none of the checks of the handlers.    *)
(* Posted data that a projection refuses is left out: it stops production, *)
(* which Citizens shows.                                                   *)
(***************************************************************************)
EXTENDS Integers, FiniteSets, Sequences

CONSTANTS
    Node,
    Citizen,        \* the citizens: registered everywhere, active
    Candidacy, Initiative, Referendum,  \* the ids that motions get
    Candidate,      \* Candidate[m]: the citizen that the proposal of m nominates
    TargetRole,     \* TargetRole[m]: the role it is for
    nobody,         \* in the place of the voter where an event has none
    ApprovalPercent,
    Request,        \* the requests that clients may make
    Scenarios,      \* of a behaviour: its requests, the candidacies that stand
                    \* already, and its first second
    Dropped,        \* the requests whose handler may stop half-way
    MaxTime         \* bound: the last second of a behaviour

Motion == Candidacy \cup Initiative \cup Referendum
Choice == {"For", "Against", "Abstain"}
Status == {"none", "open", "approved", "appointed"}
Governance == {"Guardian", "Judge", "Aiya"}
Roles == Governance \cup {"Citizen"}

EventType ==
    {"CandidateNominated", "CandidateVoted", "CandidateApproved", "CandidateAppointed",
     "CitizenUpdated", "LawProposed", "LawVoteResult", "VoteCast", "ElectionAnnounced"}

\* The motions that an event is about.  CitizenUpdated names none: it has that
\* of the candidacy it follows.
KindOf(type) ==
    CASE type \in {"LawProposed", "LawVoteResult"} -> Initiative
      [] type = "ElectionAnnounced" -> Referendum
      [] type = "VoteCast" -> Initiative \cup Referendum
      [] OTHER -> Candidacy

\* An event_id is ordered by its prefix; the handlers make it of the motion and
\* the voter, or of the citizen and the second.
EventId == [prefix : Nat, about : Motion \cup Citizen \cup {nobody},
            by : Citizen \cup {nobody}, second : Nat]

Votes == {"CandidateVoted", "VoteCast"}

\* What validate_event_data lets through.
Event == {e \in [id : EventId, type : EventType, motion : Motion, citizen : Citizen \cup {nobody},
                 role : Roles, choice : Choice, threshold : Nat, time : Nat] :
             /\ e.motion \in KindOf(e.type)
             /\ e.type \in Votes => e.citizen \in Citizen
             /\ e.type = "CandidateNominated" => e.role \in Governance}

Asking == [op : {"propose", "vote", "appoint"}, node : Node, motion : Motion,
           citizen : Citizen, choice : Choice]
Posting == [op : {"post"}, node : Node, motion : Motion, event : Event]

ASSUME MotionsAssumption ==
    /\ Node # {}
    /\ IsFiniteSet(Citizen)
    /\ nobody \notin Citizen
    /\ Candidacy \cap Initiative = {}
    /\ Candidacy \cap Referendum = {}
    /\ Initiative \cap Referendum = {}
    /\ Candidate \in [Candidacy -> Citizen]
    /\ TargetRole \in [Candidacy -> Governance]
    /\ ApprovalPercent \in 1..100
    /\ Request \subseteq Asking \cup Posting
    /\ \A r \in Request : r.op = "post" => r.event.motion = r.motion
    /\ \A r \in Request : r.op = "appoint" => r.motion \in Candidacy
    /\ Scenarios \subseteq [asked : SUBSET Request, standing : SUBSET Candidacy,
                            start : 0..MaxTime]
    \* The id of a motion is drawn at random by its one proposal.
    /\ \A r, q \in Request :
          r.op = "propose" /\ q.op = "propose" /\ r.motion = q.motion => r = q
    /\ \A s \in Scenarios : \A r \in s.asked : r.op = "propose" => r.motion \notin s.standing
    /\ Dropped \subseteq Request
    /\ MaxTime \in Nat

VARIABLES
    motion,     \* motion[n][m]: the row of m in candidacies, initiatives, referendums of n
    ballot,     \* ballot[n][m][c]: the choice in n's row of c's vote on m, or "none"
    role,       \* role[n][c]: the role in n's citizens table
    pending,    \* pending[n]: the pending_events table of n
    log,        \* the blocks of the chain, as sets of events
    height,     \* height[n]: the blocks n has
    tx,         \* the transaction that projects a block, if there is one
    at,         \* at[r]: where the handler of request r is
    now,        \* the clock, in seconds
    voted,      \* history: <<m, c, choice>> for every vote a node has accepted
    posted      \* history: the events that clients have posted

chain == <<pending, log, height, tx>>
vars == <<motion, ballot, role, chain, at, now, voted, posted>>

\* The citizen and the target_role are those of candidacies.
Row == [status : Status, tally : Nat, threshold : Nat, citizen : Citizen \cup {nobody},
        role : Roles]
NoRow == [status |-> "none", tally |-> 0, threshold |-> 0, citizen |-> nobody,
          role |-> "Citizen"]

\* 5 % of all registered citizens, at least 1.
approval_threshold(count) ==
    LET share == (count * ApprovalPercent + 99) \div 100
    IN  IF count = 0 \/ share < 1 THEN 1 ELSE share

Threshold == approval_threshold(Cardinality(Citizen))

-----------------------------------------------------------------------------
(* Events, as the handlers build them, and the rank of their event_id's     *)
(* prefix in the alphabet.                                                  *)

Rank(type, m) ==
    CASE type = "CandidateAppointed" -> 1     \* candidate_appointed_
      [] type = "CandidateApproved"  -> 2     \* candidate_approved_
      [] type = "CandidateNominated" -> 3     \* candidate_nominated_
      [] type = "CandidateVoted"     -> 4     \* candidate_voted_
      [] type = "CitizenUpdated"     -> 5     \* citizen_role_
      [] type = "ElectionAnnounced"  -> 6     \* election_announced_
      [] type = "VoteCast" /\ m \in Initiative -> 7    \* initiative_vote_
      [] type = "LawProposed"        -> 8     \* law_proposed_
      [] type = "LawVoteResult"      -> 9     \* law_vote_result_
      [] OTHER                       -> 10    \* referendum_vote_

EventOf(type, m, c, r, choice, threshold, time) ==
    [id |-> [prefix |-> Rank(type, m),
             about |-> IF type = "CitizenUpdated" THEN c ELSE m,
             by |-> IF type \in Votes THEN c ELSE nobody,
             second |-> IF type = "CitizenUpdated" THEN time ELSE 0],
     type |-> type, motion |-> m, citizen |-> c, role |-> r, choice |-> choice,
     threshold |-> threshold, time |-> time]

\* The order of the events in a block: by second, then by event_id.
Before(e, f) ==
    e.time < f.time \/ (e.time = f.time /\ e.id.prefix < f.id.prefix)

Ids(S) == {e.id : e \in S}
Confirmed(n) == UNION {log[k] : k \in 1..height[n]}
Known(n, e) == e.id \in Ids(pending[n] \cup Confirmed(n))

-----------------------------------------------------------------------------
Phase == {"new", "checked", "inserted", "counted", "refreshed", "validated", "submitted",
          "approving", "approved", "approvalValidated", "roleValidated", "done"}

Transaction(n, B) == [node |-> n, todo |-> B]
NoTx == Transaction(CHOOSE n \in Node : TRUE, {})

Place(phase, time, count) == [phase |-> phase, time |-> time, count |-> count]

TypeOK ==
    /\ motion \in [Node -> [Motion -> Row]]
    /\ ballot \in [Node -> [Motion -> [Citizen -> Choice \cup {"none"}]]]
    /\ role \in [Node -> [Citizen -> Roles]]
    /\ pending \in [Node -> SUBSET Event]
    /\ log \in Seq(SUBSET Event)
    /\ height \in [Node -> Nat]
    /\ tx \in [node : Node, todo : SUBSET Event]
    /\ at \in [Request -> [phase : Phase, time : Nat, count : Nat]]
    /\ now \in Nat
    /\ voted \subseteq Motion \X Citizen \X Choice
    /\ posted \subseteq Event

OpenRow(threshold, c, r) ==
    [status |-> "open", tally |-> 0, threshold |-> threshold, citizen |-> c, role |-> r]

\* The row and the event of the nomination that the proposal of m makes.
Nominated(m) == OpenRow(Threshold, Candidate[m], TargetRole[m])
Nomination(m, time) ==
    EventOf("CandidateNominated", m, Candidate[m], TargetRole[m], "For", Threshold, time)

\* The first block, which every node has, holds the nominations that stand, and
\* what is not about motions.
Init ==
    /\ \E s \in Scenarios :
          /\ at = [r \in Request |-> Place(IF r \in s.asked THEN "new" ELSE "done", 0, 0)]
          /\ motion = [n \in Node |-> [m \in Motion |->
                         IF m \in s.standing THEN Nominated(m) ELSE NoRow]]
          /\ log = <<{Nomination(m, 0) : m \in s.standing}>>
          /\ now = s.start
    /\ height = [n \in Node |-> 1]
    /\ ballot = [n \in Node |-> [m \in Motion |-> [c \in Citizen |-> "none"]]]
    /\ role = [n \in Node |-> [c \in Citizen |-> "Citizen"]]
    /\ pending = [n \in Node |-> {}]
    /\ tx = NoTx
    /\ voted = {}
    /\ posted = {}

\* A projection is one transaction: nothing happens between its statements.
Quiet == tx.todo = {}

Move(r, phase, time, count) ==
    at' = [at EXCEPT ![r] = IF phase = "done" THEN Place("done", 0, 0)
                            ELSE Place(phase, time, count)]
Advance(r, phase) == Move(r, phase, at[r].time, 0)
Stamp(r, phase) == Move(r, phase, now, 0)

-----------------------------------------------------------------------------
(* submit_pending_event: validate_event, then the insertion; the latter     *)
(* leaves a pending row with that event_id alone and goes on.               *)

\* Faulty variant: a candidacy for the role will do, whatever its status.
any_candidacy(n, c, r) ==
    \E m \in Candidacy : motion[n][m].citizen = c /\ motion[n][m].role = r

\* A governance role needs an approved candidacy of that citizen for that role.
validate_governance_role_via_candidacy(n, c, r) ==
    \E m \in Candidacy : /\ motion[n][m].citizen = c /\ motion[n][m].role = r
                         /\ motion[n][m].status \in {"approved", "appointed"}

validate_event(n, e) ==
    /\ ~Known(n, e)
    /\ e.type = "CitizenUpdated" /\ e.role \in Governance =>
          validate_governance_role_via_candidacy(n, e.citizen, e.role)

Validate(r, e, from, to) ==
    /\ at[r].phase = from
    /\ Advance(r, IF validate_event(r.node, e) THEN to ELSE "done")
    /\ UNCHANGED <<motion, ballot, role, chain, now, voted, posted>>

Enqueue(r, e, from, to) ==
    /\ at[r].phase = from
    /\ IF e.id \in Ids(pending[r.node])
       THEN UNCHANGED pending
       ELSE pending' = [pending EXCEPT ![r.node] = @ \cup {e}]
    /\ Advance(r, to)
    /\ UNCHANGED <<motion, ballot, role, log, height, tx, now, voted, posted>>

-----------------------------------------------------------------------------
(* nominate_candidate, propose_initiative, announce_referendum.  The row is *)
(* written first, the event submitted afterwards.                           *)

active_candidacy_exists(n, m) ==
    \E k \in Candidacy : /\ motion[n][k].citizen = Candidate[m]
                         /\ motion[n][k].role = TargetRole[m]
                         /\ motion[n][k].status \in {"open", "approved"}

ProposeCheck(r) ==
    /\ at[r].phase = "new"
    /\ Advance(r, IF r.motion \in Candidacy /\ active_candidacy_exists(r.node, r.motion)
                  THEN "done" ELSE "checked")
    /\ UNCHANGED <<motion, ballot, role, chain, now, voted, posted>>

ProposeInsert(r, row) ==
    /\ at[r].phase = "checked"
    /\ motion' = [motion EXCEPT ![r.node][r.motion] = row]
    /\ Stamp(r, "inserted")
    /\ UNCHANGED <<ballot, role, chain, now, voted, posted>>

Propose(r, row, e) ==
    /\ r.op = "propose"
    /\ \/ ProposeCheck(r)
       \/ ProposeInsert(r, row)
       \/ Validate(r, e, "inserted", "validated")
       \/ Enqueue(r, e, "validated", "done")

nominate_candidate(r) ==
    /\ r.motion \in Candidacy
    /\ Propose(r, Nominated(r.motion), Nomination(r.motion, at[r].time))

\* The event of an initiative has no threshold: the projection then takes 1.
propose_initiative(r) ==
    /\ r.motion \in Initiative
    /\ Propose(r, OpenRow(Threshold, nobody, "Citizen"),
               EventOf("LawProposed", r.motion, nobody, "Citizen", "For", 1, at[r].time))

announce_referendum(r) ==
    /\ r.motion \in Referendum
    /\ Propose(r, OpenRow(0, nobody, "Citizen"),
               EventOf("ElectionAnnounced", r.motion, nobody, "Citizen", "For", 0, at[r].time))

-----------------------------------------------------------------------------
(* vote_for_candidate, vote_on_initiative, vote_on_referendum.              *)

\* Faulty variant: every vote counts, whatever the choice.
for_any(n, m) == Cardinality({c \in Citizen : ballot[n][m][c] # "none"})

For(n, m) == Cardinality({c \in Citizen : ballot[n][m][c] = "For"})

VoteCheck(r) ==
    /\ at[r].phase = "new"
    /\ motion[r.node][r.motion].status # "none"
    /\ Advance(r, IF motion[r.node][r.motion].status = "open" THEN "checked" ELSE "done")
    /\ UNCHANGED <<motion, ballot, role, chain, now, voted, posted>>

VoteInsert(r) ==
    /\ at[r].phase = "checked"
    /\ IF ballot[r.node][r.motion][r.citizen] = "none"
       THEN /\ ballot' = [ballot EXCEPT ![r.node][r.motion][r.citizen] = r.choice]
            /\ voted' = voted \cup {<<r.motion, r.citizen, r.choice>>}
            /\ Stamp(r, "inserted")
       ELSE /\ Advance(r, "done")
            /\ UNCHANGED <<ballot, voted>>
    /\ UNCHANGED <<motion, role, chain, now, posted>>

\* refresh_vote_counts counts in the snapshot its statement began with ...
CountVotes(r) ==
    /\ at[r].phase = "inserted"
    /\ Move(r, "counted", at[r].time, For(r.node, r.motion))
    /\ UNCHANGED <<motion, ballot, role, chain, now, voted, posted>>

\* ... and writes when it has the lock of the row.
refresh_vote_counts(r) ==
    /\ at[r].phase = "counted"
    /\ motion' = [motion EXCEPT ![r.node][r.motion].tally = at[r].count]
    /\ Advance(r, "refreshed")
    /\ UNCHANGED <<ballot, role, chain, now, voted, posted>>

Vote(r, type, after) ==
    LET e == EventOf(type, r.motion, r.citizen, "Citizen", r.choice, 0, at[r].time)
    IN  /\ r.op = "vote"
        /\ \/ VoteCheck(r)
           \/ VoteInsert(r)
           \/ CountVotes(r)
           \/ refresh_vote_counts(r)
           \/ Validate(r, e, "refreshed", "validated")
           \/ Enqueue(r, e, "validated", after)

\* The voter's own request approves the motion when the tally is enough.
ThresholdCheck(r) ==
    /\ at[r].phase = "submitted"
    /\ LET row == motion[r.node][r.motion]
       IN  Stamp(r, IF row.tally >= row.threshold /\ row.status = "open"
                    THEN "approving" ELSE "done")
    /\ UNCHANGED <<motion, ballot, role, chain, now, voted, posted>>

\* Faulty variant: the update has no condition on the status.
approve_always(r) ==
    /\ at[r].phase = "approving"
    /\ motion' = [motion EXCEPT ![r.node][r.motion].status = "approved"]
    /\ Advance(r, "approved")
    /\ UNCHANGED <<ballot, role, chain, now, voted, posted>>

ApproveUpdate(r) ==
    /\ at[r].phase = "approving"
    /\ IF motion[r.node][r.motion].status = "open"
       THEN motion' = [motion EXCEPT ![r.node][r.motion].status = "approved"]
       ELSE UNCHANGED motion
    /\ Advance(r, "approved")
    /\ UNCHANGED <<ballot, role, chain, now, voted, posted>>

Approve(r, type) ==
    LET e == EventOf(type, r.motion, nobody, "Citizen", "For", 0, at[r].time)
    IN  \/ ThresholdCheck(r)
        \/ ApproveUpdate(r)
        \/ Validate(r, e, "approved", "approvalValidated")
        \/ Enqueue(r, e, "approvalValidated", "done")

vote_for_candidate(r) ==
    /\ r.op = "vote" /\ r.motion \in Candidacy
    /\ Vote(r, "CandidateVoted", "submitted") \/ Approve(r, "CandidateApproved")

vote_on_initiative(r) ==
    /\ r.op = "vote" /\ r.motion \in Initiative
    /\ Vote(r, "VoteCast", "submitted") \/ Approve(r, "LawVoteResult")

vote_on_referendum(r) ==
    r.motion \in Referendum /\ Vote(r, "VoteCast", "done")

-----------------------------------------------------------------------------
(* appoint_candidate, by an Aiya.  Its update has no condition on the       *)
(* status that was read.                                                    *)

AppointCheck(r) ==
    /\ at[r].phase = "new"
    /\ motion[r.node][r.motion].status # "none"
    /\ Advance(r, IF motion[r.node][r.motion].status = "approved" THEN "checked" ELSE "done")
    /\ UNCHANGED <<motion, ballot, role, chain, now, voted, posted>>

AppointUpdate(r) ==
    /\ at[r].phase = "checked"
    /\ motion' = [motion EXCEPT ![r.node][r.motion].status = "appointed"]
    /\ Stamp(r, "inserted")
    /\ UNCHANGED <<ballot, role, chain, now, voted, posted>>

appoint_candidate(r) ==
    LET own == motion[r.node][r.motion]
        e == EventOf("CandidateAppointed", r.motion, own.citizen, own.role, "For", 0, at[r].time)
        f == EventOf("CitizenUpdated", r.motion, own.citizen, own.role, "For", 0, at[r].time)
    IN  /\ r.op = "appoint"
        /\ \/ AppointCheck(r)
           \/ AppointUpdate(r)
           \/ Validate(r, e, "inserted", "validated")
           \/ Enqueue(r, e, "validated", "submitted")
           \/ Validate(r, f, "submitted", "roleValidated")
           \/ Enqueue(r, f, "roleValidated", "done")

-----------------------------------------------------------------------------
(* add_event: POST /event, by any client with a key.                        *)

\* A motion whose id its proposal has not drawn yet.
Unborn(m) ==
    \E r \in Request : /\ r.op = "propose" /\ r.motion = m
                       /\ at[r].phase \in {"new", "checked"}

PostValidate(r) ==
    /\ ~Unborn(r.motion)
    /\ Validate(r, r.event, "new", "validated")

\* The vote that an event carries, if it does.
VoteIn(e) == IF e.type \in Votes
             THEN {<<e.motion, e.citizen, e.choice>>} ELSE {}

PostInsert(r) ==
    LET e == r.event
    IN  /\ at[r].phase = "validated"
        /\ IF e.id \in Ids(pending[r.node])
           THEN UNCHANGED <<pending, voted, posted>>
           ELSE /\ pending' = [pending EXCEPT ![r.node] = @ \cup {e}]
                /\ voted' = voted \cup VoteIn(e)
                /\ posted' = posted \cup {e}
        /\ Advance(r, "done")
        /\ UNCHANGED <<motion, ballot, role, log, height, tx, now>>

add_event(r) == r.op = "post" /\ (PostValidate(r) \/ PostInsert(r))

\* A handler is dropped between two awaits: its client is gone, its node
\* crashes, or a statement fails.
Abandon(r) ==
    /\ r \in Dropped
    /\ at[r].phase \notin {"new", "done"}
    /\ Advance(r, "done")
    /\ UNCHANGED <<motion, ballot, role, chain, now, voted, posted>>

-----------------------------------------------------------------------------
(* Gossip and blocks.                                                       *)

\* A push of an event to another node: once it is pending somewhere, and at
\* any time after.
Gossip(n, e) ==
    /\ validate_event(n, e)
    /\ pending' = [pending EXCEPT ![n] = @ \cup {e}]
    /\ UNCHANGED <<motion, ballot, role, log, height, tx, at, now, voted, posted>>

\* candidacy_votes references candidacies: a vote on an unknown candidacy
\* fails, and with it the transaction.
CanProject(n, B) ==
    \A e \in B : e.type = "CandidateVoted" =>
        \/ motion[n][e.motion].status # "none"
        \/ \E f \in B : /\ f.type = "CandidateNominated"
                        /\ f.motion = e.motion
                        /\ Before(f, e)

\* The transaction in which n commits block B and projects its events.
BeginProjection(n, B) ==
    /\ tx' = Transaction(n, B)
    /\ height' = [height EXCEPT ![n] = @ + 1]
    /\ pending' = [pending EXCEPT ![n] = {e \in @ : e.id \notin Ids(B)}]
    /\ UNCHANGED <<motion, ballot, role, at, now, voted, posted>>

Distinct(B) == \A e, f \in B : e.id = f.id => e = f

\* collect_network_pending: the node's own pool, and from the peers it reached
\* what has an id of its own; of two peers with one id the first asked decides.
Batches(n, reached) ==
    LET own == {e \in pending[n] : e.id \notin Ids(Confirmed(n))}
        theirs == {e \in UNION {pending[p] : p \in reached} :
                      e.id \notin Ids(own \cup Confirmed(n))}
    IN  IF Distinct(theirs) THEN {own \cup theirs}
        ELSE {own \cup S : S \in {P \in SUBSET theirs : Distinct(P) /\ Ids(P) = Ids(theirs)}}

ProduceBlock(n, reached) ==
    /\ height[n] = Len(log)
    /\ \E B \in Batches(n, reached) :
          /\ B # {}
          /\ CanProject(n, B)
          /\ log' = Append(log, B)
          /\ BeginProjection(n, B)

SyncBlock(n) ==
    /\ height[n] < Len(log)
    /\ CanProject(n, log[height[n] + 1])
    /\ BeginProjection(n, log[height[n] + 1])
    /\ UNCHANGED log

-----------------------------------------------------------------------------
(* The projections, on the rows of node n.                                  *)

\* A new row, unless there is one with that id.
Created(n, e) ==
    /\ motion' = IF motion[n][e.motion].status = "none"
                 THEN [motion EXCEPT ![n][e.motion] = OpenRow(e.threshold, e.citizen, e.role)]
                 ELSE motion
    /\ UNCHANGED <<ballot, role>>

\* Faulty variant: a vote the node has already stays.
counted_once(n, e) ==
    LET own == ballot[n][e.motion]
        row == [own EXCEPT ![e.citizen] = IF @ = "none" THEN e.choice ELSE @]
    IN  /\ ballot' = [ballot EXCEPT ![n][e.motion] = row]
        /\ motion' = [motion EXCEPT ![n][e.motion].tally =
                        Cardinality({c \in Citizen : row[c] = "For"})]
        /\ UNCHANGED role

\* Faulty variant: the tally is corrected by the difference to the vote before.
counted_by_difference(n, e) ==
    LET is_for(choice) == IF choice = "For" THEN 1 ELSE 0
        before == ballot[n][e.motion][e.citizen]
    IN  /\ ballot' = [ballot EXCEPT ![n][e.motion][e.citizen] = e.choice]
        /\ motion' = [motion EXCEPT ![n][e.motion].tally =
                        @ + is_for(e.choice) - is_for(before)]
        /\ UNCHANGED role

\* The vote of the block takes the place of the node's own; the tally is counted anew.
Counted(n, e) ==
    LET row == [ballot[n][e.motion] EXCEPT ![e.citizen] = e.choice]
    IN  /\ ballot' = [ballot EXCEPT ![n][e.motion] = row]
        /\ motion' = [motion EXCEPT ![n][e.motion].tally =
                        Cardinality({c \in Citizen : row[c] = "For"})]
        /\ UNCHANGED role

apply_candidate_nominated(n, e) == e.type = "CandidateNominated" /\ Created(n, e)
apply_law_proposed(n, e) == e.type = "LawProposed" /\ Created(n, e)
apply_election_announced(n, e) == e.type = "ElectionAnnounced" /\ Created(n, e)

apply_candidate_voted(n, e) == e.type = "CandidateVoted" /\ Counted(n, e)

\* A vote on a motion that the node does not know is dropped.
apply_vote_cast(n, e) ==
    /\ e.type = "VoteCast"
    /\ IF motion[n][e.motion].status # "none"
       THEN Counted(n, e)
       ELSE UNCHANGED <<motion, ballot, role>>

apply_candidate_approved(n, e) ==
    /\ e.type = "CandidateApproved"
    /\ motion' = IF motion[n][e.motion].status = "open"
                 THEN [motion EXCEPT ![n][e.motion].status = "approved"] ELSE motion
    /\ UNCHANGED <<ballot, role>>

apply_law_vote_result(n, e) ==
    /\ e.type = "LawVoteResult"
    /\ motion' = IF motion[n][e.motion].status # "none"
                 THEN [motion EXCEPT ![n][e.motion].status = "approved"] ELSE motion
    /\ UNCHANGED <<ballot, role>>

apply_candidate_appointed(n, e) ==
    /\ e.type = "CandidateAppointed"
    /\ motion' = IF motion[n][e.motion].status # "none"
                 THEN [motion EXCEPT ![n][e.motion].status = "appointed"] ELSE motion
    /\ role' = [role EXCEPT ![n][e.citizen] = e.role]
    /\ UNCHANGED ballot

apply_citizen_updated(n, e) ==
    /\ e.type = "CitizenUpdated"
    /\ role' = [role EXCEPT ![n][e.citizen] = e.role]
    /\ UNCHANGED <<motion, ballot>>

\* apply_event_projections_in_tx, an event at a time.  Events of one kind in one
\* second follow the ids drawn for their motions: any order.
Project ==
    \E e \in tx.todo :
        /\ \A f \in tx.todo : ~Before(f, e)
        /\ \/ apply_candidate_nominated(tx.node, e)
           \/ apply_candidate_voted(tx.node, e)
           \/ apply_candidate_approved(tx.node, e)
           \/ apply_candidate_appointed(tx.node, e)
           \/ apply_citizen_updated(tx.node, e)
           \/ apply_law_proposed(tx.node, e)
           \/ apply_vote_cast(tx.node, e)
           \/ apply_law_vote_result(tx.node, e)
           \/ apply_election_announced(tx.node, e)
        /\ tx' = IF tx.todo = {e} THEN NoTx ELSE Transaction(tx.node, tx.todo \ {e})
        /\ UNCHANGED <<pending, log, height, at, now, voted, posted>>

Tick ==
    /\ now < MaxTime
    /\ now' = now + 1
    /\ UNCHANGED <<motion, ballot, role, chain, at, voted, posted>>

Handle(r) ==
    \/ nominate_candidate(r)
    \/ propose_initiative(r)
    \/ announce_referendum(r)
    \/ vote_for_candidate(r)
    \/ vote_on_initiative(r)
    \/ vote_on_referendum(r)
    \/ appoint_candidate(r)
    \/ add_event(r)
    \/ Abandon(r)

Submitted == (UNION {pending[p] : p \in Node}) \cup (UNION {log[k] : k \in 1..Len(log)})

Exchanged ==
    \E n \in Node :
        \/ \E e \in Submitted : Gossip(n, e)
        \/ \E reached \in SUBSET (Node \ {n}) : ProduceBlock(n, reached)
        \/ SyncBlock(n)

Next ==
    \/ Project
    \/ Quiet /\ (Tick \/ Exchanged \/ \E r \in Request : Handle(r))

Spec == Init /\ [][Next]_vars

-----------------------------------------------------------------------------
Supporters(m) == {c \in Citizen : <<m, c, "For">> \in voted}
Backed(m) == Cardinality(Supporters(m)) >= Threshold

\* A client has posted a nomination, an approval or an appointment about m:
\* what the handlers check, nobody has checked then.
Overridden(m) ==
    \E e \in posted : /\ e.type \in {"CandidateNominated", "CandidateApproved",
                                     "CandidateAppointed"}
                      /\ e.motion = m
Warranted(m) == Backed(m) \/ Overridden(m)

\* Candidacy m is of citizen c for role r: on the word of its proposal, or of a
\* posted nomination.
Named(m, c, r) ==
    \/ Candidate[m] = c /\ TargetRole[m] = r
    \/ \E e \in posted : /\ e.type = "CandidateNominated" /\ e.motion = m
                         /\ e.citizen = c /\ e.role = r

(* No candidacy is approved, and nobody appointed, on any node unless at     *)
(* least the threshold of different citizens has voted for it: whatever     *)
(* stale counts, repeated events, posted votes and blocks did to the tally. *)
(* The exception is a candidacy about which a client has posted the         *)
(* nomination, the approval or the appointment as an event, which the       *)
(* validator takes without votes.  candidacy.rs vote_for_candidate,         *)
(* approve_candidate, appoint_candidate; handlers.rs add_event.             *)
ApprovalBacked ==
    \A n \in Node, m \in Candidacy :
        motion[n][m].status \in {"approved", "appointed"} => Warranted(m)

(* A governance role comes from a candidacy of that citizen for that role    *)
(* that had the votes, or that a client has overridden; the one other way   *)
(* is a posted CandidateAppointed that names the citizen and the role: a    *)
(* posted CitizenUpdated gives none.  appoint_candidate, validate_event,    *)
(* apply_candidate_appointed, apply_citizen_updated.                        *)
Earned(c, r) ==
    \/ \E m \in Candidacy : Named(m, c, r) /\ Warranted(m)
    \/ \E e \in posted : e.type = "CandidateAppointed" /\ e.citizen = c /\ e.role = r

RoleEarned ==
    \A n \in Node, c \in Citizen : role[n][c] # "Citizen" => Earned(c, role[n][c])

(* validator.rs:446: "Governance roles can only be assigned through          *)
(* candidacy appointment".  A citizen with such a role has a candidacy for  *)
(* it on that node which is approved or appointed.                          *)
RoleHasCandidacy ==
    Quiet => \A n \in Node, c \in Citizen :
        role[n][c] # "Citizen" => validate_governance_role_via_candidacy(n, c, role[n][c])

\* The blocks of n as far as they are projected.
Projected(n, k) == log[k] \ (IF tx.node = n /\ k = height[n] THEN tx.todo ELSE {})

IsVote(e, m, c) == e.type = "CandidateVoted" /\ e.motion = m /\ e.citizen = c

(* A confirmed vote on a candidacy is the vote that is counted, on every     *)
(* node that has its block, even if the citizen voted differently there:    *)
(* until a vote of the citizen is confirmed that does not come before it,   *)
(* which only a posted event with an id of its own can be.                  *)
(* projection.rs apply_candidate_voted against vote_for_candidate.          *)
ConfirmedVotesStand ==
    \A n \in Node : \A k \in 1..height[n] : \A e \in Projected(n, k) :
        e.type = "CandidateVoted" =>
            \E j \in k..height[n] : \E f \in Projected(n, j) :
                /\ IsVote(f, e.motion, e.citizen)
                /\ j = k => ~Before(f, e)
                /\ ballot[n][e.motion][e.citizen] = f.choice

(* The state of a motion never goes back on a node, although requests and   *)
(* blocks update it at the same time: an appointment stays one, a law that  *)
(* has passed has passed.                                                   *)
StageOf(row) == CASE row.status = "none" -> 0 [] row.status = "open" -> 1
                  [] row.status = "approved" -> 2 [] row.status = "appointed" -> 3

StatusAdvances ==
    [][\A n \in Node, m \in Motion : StageOf(motion[n][m]) <= StageOf(motion'[n][m])]_vars

(* README.md:212: an initiative passes when 5 % have voted for it.          *)
PassedAtThreshold ==
    \A n \in Node, m \in Initiative :
        motion[n][m].status = "approved" => Backed(m)
=============================================================================
