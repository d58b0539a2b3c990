----------------------------- MODULE MCCitizens -----------------------------
(* Constants of the runs of Citizens.  Nodes, citizens and passports are     *)
(* numbered; node 1 is designated for the odd blocks, node 2 for the even.   *)
EXTENDS Citizens

Ask(op, n, c, value, p) ==
    [op |-> op, node |-> n, citizen |-> c, value |-> value, passport |-> p]
Register(n, c, name) == Ask("register", n, c, name, 0)
Issue(n, c, p) == Ask("issue", n, c, "none", p)
Revoke(n, c) == Ask("revoke", n, c, "none", 0)
SetStatus(n, c, value) == Ask("status", n, c, value, 0)

\* What clients post has ids of its own: 9 is after all that handlers draw.
Post(n, kind, c, value, p) ==
    [op |-> "post", node |-> n,
     event |-> [id |-> <<5, 9, 9>>, kind |-> kind, citizen |-> c, value |-> value,
                passport |-> p, time |-> 0]]

Turns == [k \in 1..MaxBlocks |-> IF k % 2 = 1 THEN 1 ELSE 2]

Scenario(producers, writers, last, asked) ==
    [producers |-> producers, writers |-> writers, last |-> last, asked |-> asked]

\* One producer.  A passport is issued on both nodes and revoked; two citizens
\* compete for a name; a citizen is suspended while the passport is on its way; a
\* judge is appointed, writes in the chat and is set back.
TwoPassports == Scenario({1}, {}, 1, {Register(1, 1, "ann"), Issue(1, 1, 1), Issue(2, 1, 2),
                                      Revoke(1, 1)})
OneName == Scenario({1}, {}, 1, {Register(1, 1, "ann"), Register(2, 2, "ann"), Issue(2, 2, 1)})
Suspended == Scenario({2}, {}, 0, {Register(1, 1, "ann"), SetStatus(2, 1, "suspended"),
                                   SetStatus(1, 1, "active"), Issue(1, 1, 1)})
SetBack == Scenario({1}, {1}, 0, {Register(1, 1, "ann"), Issue(1, 1, 1),
                                  Ask("appoint", 1, 1, "none", 0), Ask("role", 2, 1, "none", 0)})

\* Posted events: a citizen takes another name, a revoked passport is issued again,
\* a citizen has no id, a passport is for a citizen that is not there.
Renamed == Scenario({1}, {}, 0, {Register(1, 1, "ann"), Register(2, 2, "ann"),
                                 Post(2, "CitizenAdded", 1, "eve", 0)})
Reposted == Scenario({1}, {}, 0, {Register(1, 1, "ann"), Issue(1, 1, 1), Revoke(1, 1),
                                  Post(2, "PassportIssued", 1, "none", 1)})
Refused == {Scenario({1}, {}, 0, {Register(1, 1, "ann"), Post(2, "CitizenAdded", 0, "eve", 0)}),
            Scenario({1}, {}, 0, {Register(1, 1, "ann"), Post(1, "PassportIssued", 1, "none", 1)})}

\* Both nodes produce, and node 2 gives up its second block: an observer, which
\* may set a password, and a node whose tasks suspend the citizen, or issue and
\* revoke the passport meanwhile.
Forked == {Scenario({1, 2}, {}, 0, {Register(1, 1, "ann"), Issue(1, 1, 1), Revoke(1, 1)}),
           Scenario({1, 2}, {}, 0, {Register(1, 1, "ann"), SetStatus(1, 1, "suspended"),
                                    Ask("password", 2, 1, "none", 0)})}
Raced == {Scenario({1, 2}, {}, 0, {Register(2, 1, "ann"), SetStatus(2, 1, "suspended"),
                                   Ask("password", 2, 1, "none", 0)}),
          Scenario({1, 2}, {}, 0, {Register(2, 1, "ann"), Issue(2, 1, 1),
                                   Post(2, "PassportRevoked", 1, "none", 1)})}
Cases == {TwoPassports, OneName, Suspended, SetBack, Renamed, Reposted}
            \cup Refused \cup Forked \cup Raced

\* The fork of an observer, where a citizen writes in the chat.
Written == {Scenario({1, 2}, {1}, 0, {Register(1, 1, "ann"), Issue(1, 1, 1),
                                      SetStatus(1, 1, "suspended")})}
Requests == UNION {s.asked : s \in Cases \cup Written}
=============================================================================
