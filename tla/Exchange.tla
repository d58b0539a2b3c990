------------------------------ MODULE Exchange ------------------------------
(***************************************************************************)
(* The exchange of one node (exchange.rs): offers, orders and balances in  *)
(* PostgreSQL.  Requests run concurrently.  create_order is a transaction  *)
(* that takes row locks one after another (the offer, the buyer's balance, *)
(* the seller's balance); the other handlers run their statements one by   *)
(* one, each committing by itself.  A statement on a locked row waits.     *)
(*                                                                         *)
(* The columns are signed words of the database, the fields of a request   *)
(* unsigned words that the code casts: Half is 2^63 there.  Requests are   *)
(* authorised and the citizen's status is as the handler wants it: the     *)
(* others are refused before they touch anything.                          *)
(***************************************************************************)
EXTENDS Integers, FiniteSets, FiniteSetsExt

CONSTANTS
    Citizen,
    OfferId,
    Seller,     \* Seller[o]: who creates offer o (ids are fresh UUIDs)
    Task,       \* the requests other than create_offer
    Asked,      \* Asked[t]: what request t asks for
    Opening,    \* Opening[c]: c's balance from earlier grants, 0 for none
    Half,
    Price,      \* the prices and quantities offers are created with
    Stock

Word == -Half .. Half - 1
Unsigned == 0 .. 2 * Half - 1

\* POST /exchange/orders, DELETE of an offer, POST and GET of a balance.
Kind == {"order", "cancel", "grant", "read"}

ASSUME ExchangeAssumption ==
    /\ Half \in Nat \ {0}
    /\ Seller \in [OfferId -> Citizen]
    /\ Asked \in [Task -> [kind : Kind, citizen : Citizen, offer : OfferId,
                           amount : Unsigned \ {0}]]
    /\ Opening \in [Citizen -> 0 .. Half - 1]
    /\ Price \subseteq Unsigned \ {0}
    /\ Stock \subseteq 1 .. Half - 1    \* within the catalogue's bounds

VARIABLES
    balance,    \* balance[c]: the amount of c's row in `balances`, 0 without a row
    rows,       \* the citizens with a committed row in `balances`
    offer,      \* offer[o]: the row of o in `offers`
    orders,     \* the rows of `orders`; the id is the request's
    phase,      \* phase[t]: how far the handler of request t is
    seen,       \* seen[t]: the row of the offer as create_order has read it
    granted,    \* history: granted[c], what add_balance has credited to c
    posted      \* history: posted[o], the quantity o was created with

vars == <<balance, rows, offer, orders, phase, seen, granted, posted>>

-----------------------------------------------------------------------------
Offer == [status : {"none", "active", "filled", "cancelled"}, price : Word, quantity : Word]

NoOffer == [status |-> "none", price |-> 0, quantity |-> 0]

Order == [id : Task, buyer : Citizen, offer : OfferId, quantity : Word, total : Word]

Phase ==
    {"new",      \* not received yet
     "order",    \* create_order before its transaction's first lock
     "buyer",    \* holds the lock of the offer
     "pay",      \* holds the lock of the buyer's balance as well
     "cancel",   \* cancel_offer has read the offer
     "insert",   \* add_balance or get_balance has found no row
     "update",   \* add_balance has found, or inserted, a row
     "done"}

\* Faulty variant: the fields of a request are taken for words of the database.
unchecked(x) == x

\* `as i64`, and i64 arithmetic in a release build: both wrap.
Signed(x) == ((x + Half) % (2 * Half)) - Half

Amount(t) == Signed(Asked[t].amount)

\* total_price of the order t.
Total(t) == Signed(Amount(t) * seen[t].price)

TypeOK ==
    /\ balance \in [Citizen -> Word]
    /\ rows \subseteq Citizen
    /\ offer \in [OfferId -> Offer]
    /\ orders \subseteq Order
    /\ phase \in [Task -> Phase]
    /\ seen \in [Task -> Offer]
    /\ granted \in [Citizen -> Int]
    /\ posted \in [OfferId -> Word]

Init ==
    /\ balance = Opening
    /\ rows = {c \in Citizen : Opening[c] > 0}
    /\ offer = [o \in OfferId |-> NoOffer]
    /\ orders = {}
    /\ phase = [t \in Task |-> "new"]
    /\ seen = [t \in Task |-> NoOffer]
    /\ granted = Opening
    /\ posted = [o \in OfferId |-> 0]

-----------------------------------------------------------------------------
(* Row locks.  A transaction keeps them until it ends.                      *)

\* Faulty variants: SELECT without FOR UPDATE, of the offer and of a balance.
offer_unlocked(o) == TRUE
balance_unlocked(c) == TRUE

OfferFree(o) ==
    \A u \in Task : phase[u] \in {"buyer", "pay"} => Asked[u].offer # o

BalanceFree(c) ==
    \A u \in Task : phase[u] = "pay" => Asked[u].citizen # c

SetPhase(t, p) == phase' = [phase EXCEPT ![t] = p]

tables == <<balance, rows, offer, orders, granted, posted>>

-----------------------------------------------------------------------------
(* create_offer: one INSERT.                                                *)

CreateOffer(o, price, quantity) ==
    /\ offer[o].status = "none"
    /\ offer' = [offer EXCEPT ![o] = [status |-> "active", price |-> Signed(price),
                                      quantity |-> Signed(quantity)]]
    /\ posted' = [posted EXCEPT ![o] = Signed(quantity)]
    /\ UNCHANGED <<balance, rows, orders, phase, seen, granted>>

-----------------------------------------------------------------------------
(* cancel_offer reads the offer, then updates it by id.                     *)

CancelRead(t) ==
    /\ phase[t] = "new"
    /\ Asked[t].kind = "cancel"
    /\ SetPhase(t, IF offer[Asked[t].offer].status \in {"none", "filled"} THEN "done" ELSE "cancel")
    /\ UNCHANGED <<tables, seen>>

CancelWrite(t) ==
    /\ phase[t] = "cancel"
    /\ OfferFree(Asked[t].offer)
    /\ offer' = [offer EXCEPT ![Asked[t].offer].status = "cancelled"]
    /\ SetPhase(t, "done")
    /\ UNCHANGED <<balance, rows, orders, seen, granted, posted>>

-----------------------------------------------------------------------------
(* create_order.                                                            *)

OrderReceived(t) ==
    /\ phase[t] = "new"
    /\ Asked[t].kind = "order"
    /\ SetPhase(t, "order")
    /\ UNCHANGED <<tables, seen>>

\* SELECT ... WHERE status = 'active' FOR UPDATE, and the checks on the row.
OrderOffer(t) ==
    /\ phase[t] = "order"
    /\ LET o == Asked[t].offer
       IN  /\ OfferFree(o)
           /\ IF /\ offer[o].status = "active"
                 /\ Seller[o] # Asked[t].citizen
                 /\ Amount(t) <= offer[o].quantity
              THEN SetPhase(t, "buyer") /\ seen' = [seen EXCEPT ![t] = offer[o]]
              ELSE SetPhase(t, "done") /\ UNCHANGED seen
    /\ UNCHANGED tables

\* lock_balance_in_tx of the buyer, and the check of the balance.
OrderBuyer(t) ==
    /\ phase[t] = "buyer"
    /\ BalanceFree(Asked[t].citizen)
    /\ SetPhase(t, IF balance[Asked[t].citizen] < Total(t) THEN "done" ELSE "pay")
    /\ UNCHANGED <<tables, seen>>

\* lock_balance_in_tx of the seller, the updates and the commit.
OrderPay(t) ==
    /\ phase[t] = "pay"
    /\ LET o == Asked[t].offer
           left == Signed(seen[t].quantity - Amount(t))
           buyer == balance[Asked[t].citizen] - Total(t)
           seller == balance[Seller[o]] + Total(t)
       IN  /\ BalanceFree(Seller[o])
           /\ buyer \in Word
           /\ seller \in Word
           /\ balance' = [balance EXCEPT ![Asked[t].citizen] = buyer, ![Seller[o]] = seller]
           /\ rows' = rows \cup {Asked[t].citizen, Seller[o]}
           /\ offer' = [offer EXCEPT ![o].quantity = left,
                                     ![o].status = IF left = 0 THEN "filled" ELSE "active"]
           /\ orders' = orders \cup {[id |-> t, buyer |-> Asked[t].citizen, offer |-> o,
                                      quantity |-> Amount(t), total |-> Total(t)]}
    /\ SetPhase(t, "done")
    /\ UNCHANGED <<seen, granted, posted>>

\* t waits for the seller's balance, which u has locked as its buyer's.
WaitsFor(t, u) ==
    /\ phase[t] = "pay"
    /\ phase[u] = "pay"
    /\ Asked[u].citizen = Seller[Asked[t].offer]

\* Faulty variant: a circular wait is never noticed.
unnoticed(t) == FALSE

\* PostgreSQL ends a transaction that waits in a circle.
Deadlocked(t) ==
    \E S \in SUBSET {u \in Task : phase[u] = "pay"} :
        /\ t \in S
        /\ \A u \in S : (\E v \in S : WaitsFor(u, v)) /\ (\E v \in S : WaitsFor(v, u))

-----------------------------------------------------------------------------
(* add_balance and get_balance: a row is inserted when none was found.      *)

BalanceReceived(t) ==
    /\ phase[t] = "new"
    /\ Asked[t].kind \in {"grant", "read"}
    /\ SetPhase(t, IF Asked[t].citizen \notin rows THEN "insert"
                   ELSE IF Asked[t].kind = "grant" THEN "update" ELSE "done")
    /\ UNCHANGED <<tables, seen>>

\* A row inserted meanwhile, by anyone, makes the INSERT and the request fail.
InsertRow(t) ==
    /\ phase[t] = "insert"
    /\ Asked[t].citizen \in rows \/ BalanceFree(Asked[t].citizen)
    /\ rows' = rows \cup {Asked[t].citizen}
    /\ SetPhase(t, IF Asked[t].kind = "grant" /\ Asked[t].citizen \notin rows THEN "update"
                   ELSE "done")
    /\ UNCHANGED <<balance, offer, orders, seen, granted, posted>>

GrantUpdate(t) ==
    /\ phase[t] = "update"
    /\ LET c == Asked[t].citizen
       IN  /\ BalanceFree(c)
           /\ balance[c] + Amount(t) \in Word
           /\ balance' = [balance EXCEPT ![c] = @ + Amount(t)]
           /\ granted' = [granted EXCEPT ![c] = @ + Amount(t)]
    /\ SetPhase(t, "done")
    /\ UNCHANGED <<rows, offer, orders, seen, posted>>

-----------------------------------------------------------------------------
(* Errors.                                                                  *)

\* Faulty variant: create_order without a transaction.
fails_charged(t) ==
    /\ phase[t] \notin {"new", "done"}
    /\ balance' = IF phase[t] = "pay"
                  THEN [balance EXCEPT ![Asked[t].citizen] = @ - Total(t)] ELSE balance
    /\ SetPhase(t, "done")
    /\ UNCHANGED <<rows, offer, orders, seen, granted, posted>>

\* A statement fails, or the node stops: the transaction at hand is rolled back.
Fails(t) ==
    /\ phase[t] \notin {"new", "done"}
    /\ SetPhase(t, "done")
    /\ UNCHANGED <<tables, seen>>

\* The next statement of t takes an amount out of the range of its column.
OutOfRange(t) ==
    \/ /\ phase[t] = "update"
       /\ balance[Asked[t].citizen] + Amount(t) \notin Word
    \/ /\ phase[t] = "pay"
       /\ \/ balance[Asked[t].citizen] - Total(t) \notin Word
          \/ balance[Seller[Asked[t].offer]] + Total(t) \notin Word

-----------------------------------------------------------------------------
Receive(t) == CancelRead(t) \/ OrderReceived(t) \/ BalanceReceived(t)

Progress(t) ==
    \/ CancelWrite(t)
    \/ OrderOffer(t)
    \/ OrderBuyer(t)
    \/ OrderPay(t)
    \/ InsertRow(t)
    \/ GrantUpdate(t)
    \/ (Deadlocked(t) \/ OutOfRange(t)) /\ Fails(t)

Next ==
    \/ \E o \in OfferId, price \in Price, quantity \in Stock : CreateOffer(o, price, quantity)
    \/ \E t \in Task : Receive(t) \/ Progress(t) \/ Fails(t)

Spec == Init /\ [][Next]_vars

\* Every request at hand goes on as soon as the locks it waits for are free.
FairSpec == Spec /\ \A t \in Task : WF_vars(Progress(t))

-----------------------------------------------------------------------------
(* Properties.                                                              *)

totals == [x \in Order |-> x.total]
quantities == [x \in Order |-> x.quantity]

(* Every balance is what was granted, plus the sales, minus the purchases:  *)
(* no order and no grant is applied twice, in part or not at all, whatever  *)
(* waits, fails or is rolled back (create_order, add_balance).              *)
BalancesExact ==
    \A c \in Citizen :
        balance[c] = granted[c] + SumFunctionOnSet(totals, {x \in orders : Seller[x.offer] = c})
                                - SumFunctionOnSet(totals, {x \in orders : x.buyer = c})

(* What an offer has left and what was ordered from it make up what it was  *)
(* created with, in the arithmetic of the column: concurrent orders do not  *)
(* sell the same units twice.                                               *)
StockExact ==
    \A o \in OfferId :
        posted[o] = Signed(offer[o].quantity
                           + SumFunctionOnSet(quantities, {x \in orders : x.offer = o}))

(* No order takes from its buyer more than he has at that moment, although  *)
(* the balance was checked several statements earlier.                      *)
BuyersCovered ==
    [][\A x \in orders' \ orders : x.total > 0 => balance'[x.buyer] >= 0]_vars

(* Once an offer is cancelled nothing is sold from it, not even to an order *)
(* that was waiting for its row.                                            *)
CancelledFinal ==
    [][\A o \in OfferId : offer[o].status = "cancelled" => offer'[o] = offer[o]]_vars

(* Every request received is answered, although create_order locks the      *)
(* buyer's balance before the seller's and orders can wait in a circle.     *)
(* No request comes twice, so this is: in the end none is left on its way.  *)
RequestsAnswered == <>[](\A t \in Task : phase[t] \in {"new", "done"})
=============================================================================
