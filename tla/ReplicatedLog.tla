--------------------------- MODULE ReplicatedLog ----------------------------
(***************************************************************************)
(* What block production and synchronisation promise together: every node  *)
(* holds a prefix of one log.  Only a node that is not behind anybody adds *)
(* an entry, made of events the log does not have yet; the others copy.    *)
(***************************************************************************)
EXTENDS Naturals, Sequences

CONSTANTS Node, Event, Stamp

VARIABLE log    \* log[n]: the entries node n holds

Entry == [stamp : Stamp, events : SUBSET Event]

Logged(n) == UNION {log[n][k].events : k \in DOMAIN log[n]}

Init == log = [n \in Node |-> <<>>]

Produce(n, x) ==
    /\ \A m \in Node : Len(log[m]) <= Len(log[n])
    /\ x.events # {}
    /\ x.events \cap Logged(n) = {}
    /\ log' = [log EXCEPT ![n] = Append(@, x)]

Copy(n, m) ==
    /\ Len(log[n]) < Len(log[m])
    /\ log' = [log EXCEPT ![n] = Append(@, log[m][Len(@) + 1])]

Next ==
    \E n \in Node :
        \/ \E x \in Entry : Produce(n, x)
        \/ \E m \in Node : Copy(n, m)

Spec == Init /\ [][Next]_log
=============================================================================
