----------------------------- MODULE MCExchange ------------------------------
(* Constants of the runs of Exchange.                                       *)
EXTENDS Exchange, TLC

\* Citizens and offers are numbered: each citizen sells one offer.
OwnOffer == [o \in OfferId |-> o]

Ask(kind, c, o, amount) == [kind |-> kind, citizen |-> c, offer |-> o, amount |-> amount]

\* Citizen 1 has no row in `balances` yet, citizen 2 was granted 2.
Granted == [c \in Citizen |-> IF c = 1 THEN 0 ELSE 2]

\* Two orders of citizen 2 from offer 1, one of them with a quantity that is
\* negative as a word, and one of citizen 1 from offer 2 (the circle of waits);
\* a cancellation; a grant to citizen 1 beside a look at his balance.
Requests ==
    << Ask("order", 2, 1, 2), Ask("order", 2, 1, 2 * Half - 1), Ask("order", 1, 2, 1),
       Ask("cancel", 1, 1, 1), Ask("grant", 1, 1, 2), Ask("read", 1, 1, 1) >>
=============================================================================
