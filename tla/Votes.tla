-------------------------------- MODULE Votes --------------------------------
(***************************************************************************)
(* The votes of a node: votes.rs, and cast_vote_handler of handlers.rs.    *)
(*                                                                         *)
(* A vote is a row with an end and a status; nothing closes it when its    *)
(* end has passed.  A citizen's choice is counted after the vote has been  *)
(* seen active, in another statement, and may replace an earlier one.      *)
(* Callers are authorised, vote for themselves, and name a vote that       *)
(* exists; a citizen may have several requests under way.                  *)
(***************************************************************************)
EXTENDS Integers, FiniteSets

CONSTANTS
    Vote, Voter, Choice,
    blank,              \* in the place of a choice that has not been made
    MinDuration,        \* the shortest vote
    LastInstant,        \* bound: the last tick of the clock
    MaxCasts            \* bound: the requests of a citizen in a behaviour

ASSUME VotesAssumption ==
    /\ blank \notin Choice
    /\ MinDuration \in Nat \ {0} /\ LastInstant \in Nat /\ MaxCasts \in Nat

VARIABLES
    instant,
    votes,          \* votes[v]: the row
    choices,        \* choices[v][c]: the row of c in vote_choices
    casts,          \* the requests that have seen their vote active
    made            \* made[c]: how many requests c has made

vvars == <<instant, votes, choices, casts, made>>

NoVote == [status |-> "none", end_time |-> 0]
Cast(v, c, x) == [vote |-> v, voter |-> c, choice |-> x, number |-> made[c] + 1]

create_vote(v, duration) ==
    /\ votes[v] = NoVote
    /\ duration >= MinDuration
    /\ votes' = [votes EXCEPT ![v] = [status |-> "active", end_time |-> instant + duration]]
    /\ UNCHANGED <<instant, choices, casts, made>>

\* Faulty variant: the end is left to the administrators.
active_unless_finalized(v) == votes[v].status = "active"

vote_is_active(v) == votes[v].status = "active" /\ instant < votes[v].end_time

\* cast_vote_handler: the check,
cast_vote(v, c, x) ==
    /\ votes[v] # NoVote /\ made[c] < MaxCasts
    /\ made' = [made EXCEPT ![c] = @ + 1]
    /\ casts' = IF vote_is_active(v) THEN casts \cup {Cast(v, c, x)} ELSE casts
    /\ UNCHANGED <<instant, votes, choices>>

\* and the row.
Count(j) ==
    /\ choices' = [choices EXCEPT ![j.vote][j.voter] = j.choice]
    /\ casts' = casts \ {j}
    /\ UNCHANGED <<instant, votes, made>>

\* The statement fails, and the answer is the same; or the handler is dropped.
CountLost(j) ==
    /\ casts' = casts \ {j}
    /\ UNCHANGED <<instant, votes, choices, made>>

\* finalize_vote: nothing sets the status "closed" that it looks for as well.
finalize_vote(v) ==
    /\ votes[v].status \in {"active", "closed"}
    /\ votes' = [votes EXCEPT ![v].status = "finalized"]
    /\ UNCHANGED <<instant, choices, casts, made>>

TimePasses ==
    /\ instant < LastInstant
    /\ instant' = instant + 1
    /\ UNCHANGED <<votes, choices, casts, made>>

VotesInit ==
    /\ instant = 0
    /\ votes = [v \in Vote |-> NoVote]
    /\ choices = [v \in Vote |-> [c \in Voter |-> blank]]
    /\ casts = {}
    /\ made = [c \in Voter |-> 0]

VotesNext ==
    \/ \E v \in Vote : \/ \E d \in 1..LastInstant : create_vote(v, d)
                       \/ finalize_vote(v)
                       \/ \E c \in Voter, x \in Choice : cast_vote(v, c, x)
    \/ \E j \in casts : Count(j) \/ CountLost(j)
    \/ TimePasses

VotesSpec == VotesInit /\ [][VotesNext]_vvars

-----------------------------------------------------------------------------
(* Properties.                                                              *)

\* The types; only votes that exist are cast on.
VotesTypeOK ==
    /\ instant \in 0..LastInstant
    /\ \A v \in Vote : votes[v] = NoVote \/
                       votes[v] \in [status : {"active", "finalized"}, end_time : Nat \ {0}]
    /\ choices \in [Vote -> [Voter -> Choice \cup {blank}]]
    /\ \A j \in casts : j.number <= made[j.voter] /\ votes[j.vote] # NoVote
    /\ made \in [Voter -> 0..MaxCasts]

Over(v) == votes[v] # NoVote /\ (votes[v].status = "finalized" \/ instant >= votes[v].end_time)
Under(v) == {j \in casts : j.vote = v}

\* Once a vote is finalized or its end has passed it stays so, and its result can only
\* be changed by the requests that were under way then, each once and for the citizen
\* who made it: so it stands when these are through.
ClosedForGood ==
    [][\A v \in Vote : Over(v) =>
         /\ Over(v)'
         /\ Under(v)' \subseteq Under(v)
         /\ \A c \in Voter : choices'[v][c] # choices[v][c] =>
              \E j \in Under(v) \ Under(v)' : j.voter = c /\ j.choice = choices'[v][c]]_vvars
=============================================================================
