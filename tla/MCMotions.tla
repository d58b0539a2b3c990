----------------------------- MODULE MCMotions ------------------------------
(* Constants of the runs of Motions.  Nodes are numbered.                   *)
EXTENDS Motions, TLC

Ask(op, n, m, c, choice) ==
    [op |-> op, node |-> n, motion |-> m, citizen |-> c, choice |-> choice]
Begin(m) == Ask("propose", 1, m, "ann", "For")
Cast(n, m, c, choice) == Ask("vote", n, m, c, choice)
Appoint(n, m) == Ask("appoint", n, m, "ann", "For")

\* A client's own event: its id comes after all others of its second.
Post(n, type, m, c, r, choice) ==
    LET e == [EventOf(type, m, c, r, choice, 0, 1) EXCEPT !.id.prefix = 11]
    IN  [op |-> "post", node |-> n, motion |-> m, event |-> e]

AnnIsCandidate == [m \in Candidacy |-> "ann"]
ForJudge == [m \in Candidacy |-> "Judge"]

Scenario(standing, start, asked) ==
    [standing |-> standing, start |-> start, asked |-> asked]

\* The candidacy is approved at node 1, while citizen bob votes differently at
\* node 2; it is appointed at node 2, or at node 1 with the help of a posted vote; a
\* citizen is nominated twice; a law and a referendum of node 1 meet a vote at node 2.
Approved == Scenario({"c1"}, 1, {Cast(1, "c1", "ann", "For"), Cast(1, "c1", "bob", "For"),
                              Cast(2, "c1", "bob", "Against")})
Appointed == Scenario({"c1"}, 1, {Cast(1, "c1", "ann", "For"), Cast(1, "c1", "bob", "For"),
                               Appoint(2, "c1")})
AppointedHere == Scenario({"c1"}, 1, {Cast(1, "c1", "ann", "For"), Appoint(1, "c1"),
                     Post(1, "CandidateVoted", "c1", "bob", "Citizen", "For")})
NominatedTwice == Scenario({}, 0, {Begin("c1"), Begin("c2"), Cast(1, "c2", "bob", "Abstain")})
Law == Scenario({}, 0, {Begin("law"), Cast(1, "law", "ann", "Against"),
                        Cast(2, "law", "bob", "For")})
Asked == Scenario({}, 0, {Begin("ref"), Cast(1, "ref", "ann", "For"),
                          Cast(2, "ref", "ann", "Against")})

\* Posted: votes for an open candidacy, one of them a second vote of its citizen;
\* an approval, and a role for its candidate; a role for the candidate of an
\* open candidacy; a nomination under an id in use at node 1, of somebody else;
\* an appointment without a candidacy.
PostedVotes == Scenario({"c1"}, 1, {Cast(1, "c1", "ann", "For"),
                   Post(2, "CandidateVoted", "c1", "ann", "Citizen", "Against"),
                   Post(1, "CandidateVoted", "c1", "bob", "Citizen", "For")})
PostedApproval == Scenario({"c1"}, 1, {Appoint(1, "c1"),
                      Post(2, "CandidateApproved", "c1", "nobody", "Citizen", "For"),
                      Post(2, "CitizenUpdated", "c1", "ann", "Judge", "For")})
PostedRole == Scenario({"c1"}, 1, {Cast(1, "c1", "bob", "For"),
                  Post(2, "CitizenUpdated", "c1", "ann", "Judge", "For")})
PostedNomination == Scenario({}, 0, {Begin("c1"), Cast(2, "c1", "ann", "For"),
                        Post(2, "CandidateNominated", "c1", "bob", "Aiya", "For")})
PostedAppointment == Scenario({}, 1, {
    Post(1, "CandidateAppointed", "c2", "bob", "Aiya", "For"),
    Post(2, "LawVoteResult", "law", "nobody", "Citizen", "For"),
    Post(2, "CitizenUpdated", "c2", "bob", "Citizen", "For")})

Cases == {Approved, Appointed, AppointedHere, NominatedTwice, Law, Asked, PostedVotes,
          PostedApproval, PostedRole, PostedNomination, PostedAppointment}
LawCase == {Law}
AppointmentCase == {PostedAppointment}
Requests == UNION {s.asked : s \in Cases}

\* A vote without its event, and a candidacy without its event.
Lost == {Begin("c2")}
=============================================================================
