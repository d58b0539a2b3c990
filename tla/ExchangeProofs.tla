--------------------------- MODULE ExchangeProofs ---------------------------
(***************************************************************************)
(* Proofs about Exchange, for any citizens, offers, requests, prices and   *)
(* width of a word: the types, BuyersCovered, CancelledFinal, and the      *)
(* books, BalancesExact and StockExact.  The first argument is the order   *)
(* of the locks: from the row of the offer on, what create_order has read  *)
(* stays true until its transaction ends.  The second is about sums: one   *)
(* more order adds its total, in whatever order the library adds them up.  *)
(***************************************************************************)
EXTENDS Exchange, FiniteSetTheorems, WellFoundedInduction, TLAPS

Holds(t) == phase[t] \in {"buyer", "pay"}

OfferHeldOnce ==
    \A t, u \in Task : Holds(t) /\ Holds(u) /\ Asked[t].offer = Asked[u].offer => t = u

BuyerHeldOnce ==
    \A t, u \in Task :
        phase[t] = "pay" /\ phase[u] = "pay" /\ Asked[t].citizen = Asked[u].citizen => t = u

OfferAsSeen ==
    \A t \in Task : Holds(t) =>
        /\ offer[Asked[t].offer] = seen[t]
        /\ seen[t].status = "active"
        /\ Seller[Asked[t].offer] # Asked[t].citizen

BuyerCanPay ==
    \A t \in Task : phase[t] = "pay" => balance[Asked[t].citizen] >= Total(t)

IInv == TypeOK /\ OfferHeldOnce /\ BuyerHeldOnce /\ OfferAsSeen /\ BuyerCanPay

-----------------------------------------------------------------------------
(* A cast and a wrapped product are words of the database.                  *)
LEMMA SignedIsWord == ASSUME NEW x \in Int PROVE Signed(x) \in Word
<1> DEFINE m == 2 * Half
<1>1. m \in Nat \ {0}  BY ExchangeAssumption
<1>2. x + Half \in Int  BY ExchangeAssumption
<1> HIDE DEF m
<1>3. (x + Half) % m \in 0 .. m - 1  BY <1>1, <1>2
<1> QED  BY <1>3, ExchangeAssumption DEF Signed, Word, m

(* What a request asks for is well typed.                                   *)
LEMMA AskedTypes ==
    ASSUME NEW t \in Task
    PROVE  /\ Asked[t].citizen \in Citizen
           /\ Asked[t].offer \in OfferId
           /\ Seller[Asked[t].offer] \in Citizen
           /\ Amount(t) \in Word
<1>1. Asked[t] \in [kind : Kind, citizen : Citizen, offer : OfferId, amount : Unsigned \ {0}]
      BY ExchangeAssumption
<1>2. Asked[t].amount \in Int  BY <1>1, ExchangeAssumption DEF Unsigned
<1>3. Amount(t) \in Word  BY <1>2, SignedIsWord DEF Amount
<1> QED  BY <1>1, <1>3, ExchangeAssumption

(* The total of an order is a word.                                         *)
LEMMA TotalIsWord == ASSUME TypeOK, NEW t \in Task PROVE Total(t) \in Word
<1>1. seen[t].price \in Int  BY ExchangeAssumption DEF TypeOK, Offer, Word
<1>2. Amount(t) \in Int  BY AskedTypes, ExchangeAssumption DEF Word
<1>3. Amount(t) * seen[t].price \in Int  BY <1>1, <1>2
<1> QED  BY <1>3, SignedIsWord DEF Total

LEMMA WordsAreInts == Word \subseteq Int
BY ExchangeAssumption DEF Word

(* Every step is one of the actions; what a request does on the way to its  *)
(* end depends on nothing else.                                             *)
LEMMA StepCases ==
    ASSUME Next
    PROVE  \/ \E o \in OfferId, price \in Price, quantity \in Stock :
                  CreateOffer(o, price, quantity)
           \/ \E t \in Task : CancelRead(t) \/ OrderReceived(t) \/ BalanceReceived(t)
           \/ \E t \in Task : CancelWrite(t)
           \/ \E t \in Task : OrderOffer(t)
           \/ \E t \in Task : OrderBuyer(t)
           \/ \E t \in Task : OrderPay(t)
           \/ \E t \in Task : InsertRow(t)
           \/ \E t \in Task : GrantUpdate(t)
           \/ \E t \in Task : Fails(t)
BY DEF Next, Receive, Progress

-----------------------------------------------------------------------------
(* Types.                                                                   *)
LEMMA TypeInit == Init => TypeOK
<1> SUFFICES ASSUME Init PROVE TypeOK  OBVIOUS
<1>1. 0 \in Word  BY ExchangeAssumption DEF Word
<1>2. NoOffer \in Offer  BY <1>1 DEF NoOffer, Offer
<1>3. balance \in [Citizen -> Word] /\ granted \in [Citizen -> Int]
      BY ExchangeAssumption DEF Init, Word
<1> QED  BY <1>1, <1>2, <1>3 DEF Init, TypeOK, Phase

LEMMA TypeStep == TypeOK /\ [Next]_vars => TypeOK'
<1> SUFFICES ASSUME TypeOK, [Next]_vars PROVE TypeOK'  OBVIOUS
<1> USE DEF TypeOK
<1>1. ASSUME NEW o \in OfferId, NEW price \in Price, NEW quantity \in Stock,
             CreateOffer(o, price, quantity)
      PROVE  TypeOK'
  <2>1. price \in Int /\ quantity \in Int  BY ExchangeAssumption DEF Unsigned
  <2>2. Signed(price) \in Word /\ Signed(quantity) \in Word  BY <2>1, SignedIsWord
  <2>3. [status |-> "active", price |-> Signed(price), quantity |-> Signed(quantity)] \in Offer
        BY <2>2 DEF Offer
  <2>4. offer' \in [OfferId -> Offer] /\ posted' \in [OfferId -> Word]
        BY <1>1, <2>2, <2>3 DEF CreateOffer
  <2> QED  BY <1>1, <2>4 DEF CreateOffer
<1>2. ASSUME NEW t \in Task, CancelRead(t) \/ OrderReceived(t) \/ BalanceReceived(t)
      PROVE  TypeOK'
  BY <1>2 DEF CancelRead, OrderReceived, BalanceReceived, SetPhase, tables, Phase
<1>3. ASSUME NEW t \in Task, CancelWrite(t) PROVE TypeOK'
  <2> DEFINE o == Asked[t].offer
  <2>1. o \in OfferId  BY AskedTypes
  <2>2. [offer[o] EXCEPT !.status = "cancelled"] \in Offer  BY <2>1 DEF Offer
  <2>3. offer' \in [OfferId -> Offer]  BY <1>3, <2>1, <2>2 DEF CancelWrite
  <2> QED  BY <1>3, <2>3 DEF CancelWrite, SetPhase, Phase
<1>4. ASSUME NEW t \in Task, OrderOffer(t) PROVE TypeOK'
  <2>1. Asked[t].offer \in OfferId  BY AskedTypes
  <2> QED  BY <1>4, <2>1 DEF OrderOffer, SetPhase, tables, Phase
<1>5. ASSUME NEW t \in Task, OrderBuyer(t) PROVE TypeOK'
  BY <1>5 DEF OrderBuyer, SetPhase, tables, Phase
<1>6. ASSUME NEW t \in Task, OrderPay(t) PROVE TypeOK'
  <2> DEFINE o == Asked[t].offer
             c == Asked[t].citizen
             left == Signed(seen[t].quantity - Amount(t))
  <2>1. o \in OfferId /\ c \in Citizen /\ Seller[o] \in Citizen /\ Amount(t) \in Word
        BY AskedTypes
  <2>2. seen[t].quantity \in Int /\ Amount(t) \in Int  BY <2>1, WordsAreInts DEF Offer
  <2>3. left \in Word  BY <2>2, SignedIsWord
  <2>4. Total(t) \in Word  BY TotalIsWord
  <2>5. balance' \in [Citizen -> Word]  BY <1>6, <2>1 DEF OrderPay
  <2>6. offer' \in [OfferId -> Offer]
    <3> DEFINE status == IF left = 0 THEN "filled" ELSE "active"
    <3> HIDE DEF left
    <3>1. [[offer[o] EXCEPT !.quantity = left] EXCEPT !.status = status] \in Offer
          BY <2>1, <2>3 DEF Offer
    <3>2. offer' = [offer EXCEPT ![o] = [[@ EXCEPT !.quantity = left] EXCEPT !.status = status]]
          BY <1>6, <2>1 DEF OrderPay, left, Offer
    <3> QED  BY <2>1, <3>1, <3>2
  <2>7. orders' \subseteq Order  BY <1>6, <2>1, <2>4 DEF OrderPay, Order
  <2> QED  BY <1>6, <2>1, <2>5, <2>6, <2>7 DEF OrderPay, SetPhase, Phase
<1>7. ASSUME NEW t \in Task, InsertRow(t) PROVE TypeOK'
  BY <1>7, AskedTypes DEF InsertRow, SetPhase, Phase
<1>8. ASSUME NEW t \in Task, GrantUpdate(t) PROVE TypeOK'
  <2>1. Asked[t].citizen \in Citizen /\ Amount(t) \in Int  BY AskedTypes, WordsAreInts
  <2>2. balance' \in [Citizen -> Word]  BY <1>8, <2>1 DEF GrantUpdate
  <2>3. granted' \in [Citizen -> Int]  BY <1>8, <2>1 DEF GrantUpdate
  <2> QED  BY <1>8, <2>2, <2>3 DEF GrantUpdate, SetPhase, Phase
<1>9. ASSUME NEW t \in Task, Fails(t) PROVE TypeOK'
  BY <1>9 DEF Fails, SetPhase, tables, Phase
<1>10. CASE UNCHANGED vars  BY <1>10 DEF vars
<1> QED
  BY <1>1, <1>2, <1>3, <1>4, <1>5, <1>6, <1>7, <1>8, <1>9, <1>10, StepCases

(* Every value stays within its column (exchange.rs).                       *)
THEOREM Types == Spec => []TypeOK
<1>1. Init => TypeOK  BY TypeInit
<1>2. TypeOK /\ [Next]_vars => TypeOK'  BY TypeStep
<1> QED  BY <1>1, <1>2, PTL DEF Spec

-----------------------------------------------------------------------------
(* Locks.                                                                   *)
LEMMA LocksInit == Init => OfferHeldOnce /\ BuyerHeldOnce /\ OfferAsSeen /\ BuyerCanPay
BY DEF Init, Holds, OfferHeldOnce, BuyerHeldOnce, OfferAsSeen, BuyerCanPay

(* A step that takes no lock and touches neither an offer nor a balance.    *)
LEMMA NothingTaken ==
    ASSUME IInv, UNCHANGED <<balance, offer, seen>>, NEW t \in Task, NEW p \in Phase,
           SetPhase(t, p), p \notin {"buyer", "pay"}
    PROVE  (OfferHeldOnce /\ BuyerHeldOnce /\ OfferAsSeen /\ BuyerCanPay)'
BY DEF IInv, TypeOK, SetPhase, Holds, OfferHeldOnce, BuyerHeldOnce, OfferAsSeen, BuyerCanPay, Total

LEMMA LocksStep ==
    IInv /\ [Next]_vars => (OfferHeldOnce /\ BuyerHeldOnce /\ OfferAsSeen /\ BuyerCanPay)'
<1> SUFFICES ASSUME IInv, [Next]_vars
             PROVE  (OfferHeldOnce /\ BuyerHeldOnce /\ OfferAsSeen /\ BuyerCanPay)'
    OBVIOUS
<1> USE DEF IInv
<1> DEFINE Locks == OfferHeldOnce /\ BuyerHeldOnce /\ OfferAsSeen /\ BuyerCanPay
<1>1. ASSUME NEW o \in OfferId, NEW price \in Price, NEW quantity \in Stock,
             CreateOffer(o, price, quantity)
      PROVE  Locks'
  <2>1. \A u \in OfferId : u # o => offer'[u] = offer[u]
        BY <1>1 DEF CreateOffer, TypeOK
  <2>2. \A t \in Task : Holds(t) => Asked[t].offer # o
        BY <1>1 DEF CreateOffer, OfferAsSeen
  <2>3. OfferAsSeen'
        BY <1>1, <2>1, <2>2, AskedTypes DEF CreateOffer, OfferAsSeen, Holds
  <2> QED  BY <1>1, <2>3 DEF CreateOffer, Holds, OfferHeldOnce, BuyerHeldOnce, BuyerCanPay, Total
<1>2. ASSUME NEW t \in Task, CancelRead(t) \/ OrderReceived(t) \/ BalanceReceived(t)
      PROVE  Locks'
  <2>1. PICK p \in Phase : SetPhase(t, p) /\ p \notin {"buyer", "pay"}
        BY <1>2 DEF CancelRead, OrderReceived, BalanceReceived, Phase
  <2> QED  BY <1>2, <2>1, NothingTaken
           DEF CancelRead, OrderReceived, BalanceReceived, tables
<1>3. ASSUME NEW t \in Task, CancelWrite(t) PROVE Locks'
  <2>1. \A u \in Task : Holds(u) => Asked[u].offer # Asked[t].offer
        BY <1>3 DEF CancelWrite, OfferFree, Holds
  <2>2. \A u \in Task : Holds(u)' => Holds(u) /\ phase'[u] = phase[u]
        BY <1>3 DEF CancelWrite, SetPhase, Holds, TypeOK
  <2>3. \A o \in OfferId : o # Asked[t].offer => offer'[o] = offer[o]
        BY <1>3 DEF CancelWrite, TypeOK
  <2>4. OfferAsSeen'
        BY <1>3, <2>1, <2>2, <2>3, AskedTypes DEF CancelWrite, OfferAsSeen
  <2> QED  BY <1>3, <2>2, <2>4
           DEF CancelWrite, SetPhase, TypeOK, Holds, OfferHeldOnce, BuyerHeldOnce, BuyerCanPay, Total
<1>4. ASSUME NEW t \in Task, OrderOffer(t) PROVE Locks'
  <2> DEFINE o == Asked[t].offer
  <2>1. CASE UNCHANGED seen /\ SetPhase(t, "done")
    BY <1>4, <2>1, NothingTaken DEF OrderOffer, tables, Phase
  <2>2. CASE /\ offer[o].status = "active"
             /\ Seller[o] # Asked[t].citizen
             /\ SetPhase(t, "buyer")
             /\ seen' = [seen EXCEPT ![t] = offer[o]]
    <3>1. \A u \in Task : Holds(u) => Asked[u].offer # o
          BY <1>4 DEF OrderOffer, OfferFree, Holds
    <3>2. \A u \in Task : u # t => phase'[u] = phase[u] /\ seen'[u] = seen[u]
          BY <2>2 DEF SetPhase, TypeOK
    <3>3. phase'[t] = "buyer" /\ seen'[t] = offer[o]
          BY <2>2 DEF SetPhase, TypeOK
    <3>4. offer' = offer /\ balance' = balance  BY <1>4 DEF OrderOffer, tables
    <3>5. OfferHeldOnce'  BY <3>1, <3>2, <3>3 DEF OfferHeldOnce, Holds
    <3>6. BuyerHeldOnce'  BY <3>2, <3>3 DEF BuyerHeldOnce
    <3>7. OfferAsSeen'  BY <2>2, <3>2, <3>3, <3>4 DEF OfferAsSeen, Holds
    <3>8. BuyerCanPay'  BY <3>2, <3>3, <3>4 DEF BuyerCanPay, Total
    <3> QED  BY <3>5, <3>6, <3>7, <3>8
  <2> QED  BY <1>4, <2>1, <2>2 DEF OrderOffer
<1>5. ASSUME NEW t \in Task, OrderBuyer(t) PROVE Locks'
  <2> DEFINE c == Asked[t].citizen
  <2>1. UNCHANGED <<balance, offer, seen>> /\ phase[t] = "buyer"
        BY <1>5 DEF OrderBuyer, tables
  <2>2. CASE SetPhase(t, "done")
    BY <2>1, <2>2, NothingTaken DEF Phase
  <2>3. CASE SetPhase(t, "pay") /\ ~(balance[c] < Total(t))
    <3>1. \A u \in Task : phase[u] = "pay" => Asked[u].citizen # c
          BY <1>5 DEF OrderBuyer, BalanceFree
    <3>2. \A u \in Task : u # t => phase'[u] = phase[u]
          BY <2>3 DEF SetPhase, TypeOK
    <3>3. phase'[t] = "pay"  BY <2>3 DEF SetPhase, TypeOK
    <3>4. \A u \in Task : Holds(u)' <=> Holds(u)
          BY <2>1, <3>2, <3>3 DEF Holds
    <3>5. balance[c] >= Total(t)
      <4>1. balance[c] \in Int /\ Total(t) \in Int
            BY AskedTypes, TotalIsWord, WordsAreInts DEF TypeOK
      <4> QED  BY <2>3, <4>1
    <3>6. \A u \in Task : Total(u)' = Total(u)  BY <2>1 DEF Total
    <3>7. OfferHeldOnce' /\ OfferAsSeen'
          BY <2>1, <3>4 DEF OfferHeldOnce, OfferAsSeen
    <3>8. BuyerHeldOnce'  BY <3>1, <3>2, <3>3 DEF BuyerHeldOnce
    <3>9. BuyerCanPay'  BY <2>1, <3>2, <3>5, <3>6 DEF BuyerCanPay
    <3> QED  BY <3>7, <3>8, <3>9
  <2> QED  BY <1>5, <2>2, <2>3 DEF OrderBuyer
<1>6. ASSUME NEW t \in Task, OrderPay(t) PROVE Locks'
  <2> DEFINE o == Asked[t].offer
             c == Asked[t].citizen
  <2>1. phase[t] = "pay" /\ seen' = seen /\ BalanceFree(Seller[o])
        BY <1>6 DEF OrderPay
  <2>2. phase'[t] = "done" /\ \A u \in Task : u # t => phase'[u] = phase[u]
        BY <1>6 DEF OrderPay, SetPhase, TypeOK
  <2>3. \A d \in Citizen : d \notin {c, Seller[o]} => balance'[d] = balance[d]
        BY <1>6 DEF OrderPay, TypeOK
  <2>4. \A x \in OfferId : x # o => offer'[x] = offer[x]
        BY <1>6 DEF OrderPay, TypeOK
  <2>5. OfferHeldOnce' /\ BuyerHeldOnce'
        BY <2>2 DEF OfferHeldOnce, BuyerHeldOnce, Holds
  <2>6. ASSUME NEW u \in Task, u # t, Holds(u)
        PROVE  Asked[u].offer # o
        BY <2>1, <2>6 DEF OfferHeldOnce, Holds
  <2>7. OfferAsSeen'
        BY <2>1, <2>2, <2>4, <2>6, AskedTypes DEF OfferAsSeen, Holds
  <2>8. ASSUME NEW u \in Task, u # t, phase[u] = "pay"
        PROVE  Asked[u].citizen \notin {c, Seller[o]}
        BY <2>1, <2>8 DEF BuyerHeldOnce, BalanceFree
  <2>9. BuyerCanPay'
        BY <2>1, <2>2, <2>3, <2>8, AskedTypes DEF BuyerCanPay, Total
  <2> QED  BY <2>5, <2>7, <2>9
<1>7. ASSUME NEW t \in Task, InsertRow(t) PROVE Locks'
  <2>1. PICK p \in Phase : SetPhase(t, p) /\ p \notin {"buyer", "pay"}
        BY <1>7 DEF InsertRow, Phase
  <2> QED  BY <1>7, <2>1, NothingTaken DEF InsertRow
<1>8. ASSUME NEW t \in Task, GrantUpdate(t) PROVE Locks'
  <2> DEFINE c == Asked[t].citizen
  <2>1. \A u \in Task : phase[u] = "pay" => Asked[u].citizen # c
        BY <1>8 DEF GrantUpdate, BalanceFree
  <2>2. \A d \in Citizen : d # c => balance'[d] = balance[d]
        BY <1>8 DEF GrantUpdate, TypeOK
  <2>3. phase'[t] = "done" /\ \A u \in Task : u # t => phase'[u] = phase[u]
        BY <1>8 DEF GrantUpdate, SetPhase, TypeOK
  <2>4. UNCHANGED <<offer, seen>>  BY <1>8 DEF GrantUpdate
  <2>5. OfferHeldOnce' /\ BuyerHeldOnce' /\ OfferAsSeen'
        BY <2>3, <2>4 DEF OfferHeldOnce, BuyerHeldOnce, OfferAsSeen, Holds
  <2>6. BuyerCanPay'
        BY <2>1, <2>2, <2>3, <2>4, AskedTypes DEF BuyerCanPay, Total
  <2> QED  BY <2>5, <2>6
<1>9. ASSUME NEW t \in Task, Fails(t) PROVE Locks'
  BY <1>9, NothingTaken DEF Fails, tables, Phase
<1>10. CASE UNCHANGED vars
  BY <1>10 DEF vars, Holds, OfferHeldOnce, BuyerHeldOnce, OfferAsSeen, BuyerCanPay, Total
<1> QED
  BY <1>1, <1>2, <1>3, <1>4, <1>5, <1>6, <1>7, <1>8, <1>9, <1>10, StepCases

LEMMA Inductive == Spec => []IInv
<1>1. Init => IInv  BY TypeInit, LocksInit DEF IInv
<1>2. IInv /\ [Next]_vars => IInv'  BY TypeStep, LocksStep DEF IInv
<1> QED  BY <1>1, <1>2, PTL DEF Spec

-----------------------------------------------------------------------------
(* The two promises of the locks.                                           *)

(* No order takes more from its buyer than he has (create_order).           *)
THEOREM BuyersAreCovered == Spec => BuyersCovered
<1>1. IInv /\ [Next]_vars
      => [\A x \in orders' \ orders : x.total > 0 => balance'[x.buyer] >= 0]_vars
  <2> SUFFICES ASSUME IInv, Next, NEW x \in orders' \ orders
               PROVE  balance'[x.buyer] >= 0
      BY DEF vars
  <2>1. PICK t \in Task : OrderPay(t)
        BY StepCases
        DEF CreateOffer, CancelRead, OrderReceived, BalanceReceived, CancelWrite, OrderOffer,
            OrderBuyer, InsertRow, GrantUpdate, Fails, tables
  <2> DEFINE c == Asked[t].citizen
             o == Asked[t].offer
  <2>2. x.buyer = c  BY <2>1 DEF OrderPay
  <2>3. c \in Citizen /\ c # Seller[o]
        BY <2>1, AskedTypes DEF OrderPay, IInv, OfferAsSeen, Holds
  <2>4. balance'[c] = balance[c] - Total(t)
        BY <2>1, <2>3 DEF OrderPay, IInv, TypeOK
  <2>5. balance[c] >= Total(t)  BY <2>1 DEF OrderPay, IInv, BuyerCanPay
  <2>6. balance[c] \in Int /\ Total(t) \in Int
        BY <2>3, TotalIsWord, WordsAreInts DEF IInv, TypeOK
  <2> QED  BY <2>2, <2>4, <2>5, <2>6
<1> QED  BY <1>1, Inductive, PTL DEF Spec, BuyersCovered

(* Nothing is sold from a cancelled offer (cancel_offer, create_order).     *)
THEOREM CancelledIsFinal == Spec => CancelledFinal
<1>1. IInv /\ [Next]_vars
      => [\A o \in OfferId : offer[o].status = "cancelled" => offer'[o] = offer[o]]_vars
  <2> SUFFICES ASSUME IInv, Next, NEW o \in OfferId, offer[o].status = "cancelled"
               PROVE  offer'[o] = offer[o]
      BY DEF vars
  <2> USE DEF IInv, TypeOK
  <2>1. ASSUME NEW u \in OfferId, NEW price \in Price, NEW quantity \in Stock,
               CreateOffer(u, price, quantity)
        PROVE  offer'[o] = offer[o]
    BY <2>1 DEF CreateOffer
  <2>2. ASSUME NEW t \in Task, CancelWrite(t) PROVE offer'[o] = offer[o]
    <3>1. offer[o] = [offer[o] EXCEPT !.status = "cancelled"]  BY DEF Offer
    <3> QED  BY <2>2, <3>1 DEF CancelWrite
  <2>3. ASSUME NEW t \in Task, OrderPay(t) PROVE offer'[o] = offer[o]
    <3>1. Asked[t].offer # o  BY <2>3 DEF OrderPay, OfferAsSeen, Holds
    <3> QED  BY <2>3, <3>1 DEF OrderPay
  <2> QED
    BY <2>1, <2>2, <2>3, StepCases
    DEF CancelRead, OrderReceived, BalanceReceived, OrderOffer, OrderBuyer, InsertRow,
        GrantUpdate, Fails, tables
<1> QED  BY <1>1, Inductive, PTL DEF Spec, CancelledFinal

-----------------------------------------------------------------------------
(* Sums over finite sets.  SumFunctionOnSet is defined by a recursive       *)
(* function on the subsets of its set: such a function exists, it is the    *)
(* only one, and so the sum does not depend on the order of the summation.  *)
(* Each induction is the choice of a smallest counterexample.               *)

(* A set of naturals has a least element.                                   *)
LEMMA LeastNatural ==
    ASSUME NEW T \in SUBSET Nat, T # {}
    PROVE  \E n \in T : \A m \in T : n <= m
<1>1. PICK n \in T : \A m \in T : <<m, n>> \notin OpToRel(<, Nat)
      BY NatLessThanWellFounded, WFMin
<1>2. ASSUME NEW m \in T PROVE n <= m
  <2>1. ~(m < n)  BY <1>1 DEF OpToRel
  <2> QED  BY <2>1
<1> QED  BY <1>2

(* A set of subsets of a finite set has a minimal element.                  *)
LEMMA MinimalSubset ==
    ASSUME NEW S, IsFiniteSet(S), NEW B \in SUBSET (SUBSET S), B # {}
    PROVE  \E T \in B : \A x \in T : T \ {x} \notin B
<1> DEFINE Sizes == {Cardinality(T) : T \in B}
<1>1. \A T \in B : IsFiniteSet(T) /\ Cardinality(T) \in Nat
      BY FS_Subset, FS_CardinalityType
<1>2. PICK T \in B : \A U \in B : Cardinality(T) <= Cardinality(U)
  <2>1. Sizes \in SUBSET Nat /\ Sizes # {}  BY <1>1
  <2>2. PICK n \in Sizes : \A m \in Sizes : n <= m
    <3> HIDE DEF Sizes
    <3> QED BY <2>1, LeastNatural
  <2> QED  BY <2>2
<1>3. ASSUME NEW x \in T PROVE T \ {x} \notin B
  <2>1. Cardinality(T \ {x}) = Cardinality(T) - 1  BY <1>1, FS_RemoveElement
  <2> QED  BY <1>1, <1>2, <2>1
<1> QED  BY <1>3

(* A set with 0 and with every successor has all naturals.                  *)
LEMMA NaturalsWithin ==
    ASSUME NEW G, 0 \in G, \A n \in Nat : n \in G => n + 1 \in G
    PROVE  Nat \subseteq G
<1> DEFINE B == Nat \ G
<1> SUFFICES ASSUME B # {} PROVE FALSE  OBVIOUS
<1>1. PICK n \in B : \A m \in B : n <= m
  <2>1. B \in SUBSET Nat OBVIOUS
  <2> HIDE DEF B
  <2> QED BY <2>1, LeastNatural
<1>2. n \in Nat /\ n # 0 /\ n - 1 \in Nat BY <1>1
<1>3. n - 1 \in G  BY <1>1, <1>2
<1> QED  BY <1>1, <1>2, <1>3

\* The element a sum takes first.
Chosen(s) == CHOOSE x \in s : TRUE

LEMMA ChosenIn == ASSUME NEW s, s # {} PROVE Chosen(s) \in s
BY DEF Chosen

\* The recursion of SumFunctionOnSet, on the sets of D.
Adds(it, w, D) ==
    it = [s \in D |-> IF s = {} THEN 0 ELSE w[Chosen(s)] + it[s \ {Chosen(s)}]]

(* The recursion has a solution: it is built by the size of the sets.       *)
LEMMA IterExists ==
    ASSUME NEW S, IsFiniteSet(S), NEW w
    PROVE  \E it : Adds(it, w, SUBSET S)
<1> DEFINE Layer(n) == {s \in SUBSET S : Cardinality(s) <= n}
           G == {n \in Nat : \E it : Adds(it, w, Layer(n))}
<1>1. \A s \in SUBSET S : IsFiniteSet(s) /\ Cardinality(s) \in Nat
      BY FS_Subset, FS_CardinalityType
<1>2. 0 \in G
  <2>1. \A s \in Layer(0) : s = {}  BY <1>1, FS_EmptySet
  <2>2. Adds([s \in Layer(0) |-> 0], w, Layer(0))  BY <2>1 DEF Adds
  <2> QED  BY <2>2
<1>3. ASSUME NEW n \in Nat, n \in G PROVE n + 1 \in G
  <2>1. PICK f : Adds(f, w, Layer(n))  BY <1>3
  <2> DEFINE g == [s \in Layer(n + 1) |->
                      IF s = {} THEN 0 ELSE w[Chosen(s)] + f[s \ {Chosen(s)}]]
  <2>2. ASSUME NEW s \in Layer(n + 1), s # {}
        PROVE  s \ {Chosen(s)} \in Layer(n)
    <3>1. Cardinality(s \ {Chosen(s)}) = Cardinality(s) - 1
          BY <1>1, <2>2, ChosenIn, FS_RemoveElement
    <3> QED  BY <1>1, <3>1
  <2>3. \A s \in Layer(n) : s \in Layer(n + 1) /\ g[s] = f[s]
    <3>1. \A s \in Layer(n) : s \in Layer(n + 1)  BY <1>1
    <3> HIDE DEF Layer
    <3> QED  BY <2>1, <3>1 DEF Adds
  <2>4. Adds(g, w, Layer(n + 1))
    <3> HIDE DEF Layer
    <3>1. \A s \in Layer(n + 1) : s # {} => g[s \ {Chosen(s)}] = f[s \ {Chosen(s)}]
          BY <2>2, <2>3
    <3>2. g = [s \in Layer(n + 1) |->
                 IF s = {} THEN 0 ELSE w[Chosen(s)] + g[s \ {Chosen(s)}]]
          BY <3>1
    <3> HIDE DEF g
    <3> QED  BY <3>2 DEF Adds
  <2>5. \E it : Adds(it, w, Layer(n + 1))  BY <2>4
  <2> HIDE DEF Layer
  <2> QED  BY <2>5
<1>4. Cardinality(S) \in G
  <2> HIDE DEF G
  <2> QED BY <1>1, <1>2, <1>3, NaturalsWithin
<1>5. Layer(Cardinality(S)) = SUBSET S  BY <1>1, FS_Subset
<1> QED  BY <1>4, <1>5

LEMMA SumIter ==
    ASSUME NEW S, IsFiniteSet(S), NEW w
    PROVE  \E it : Adds(it, w, SUBSET S) /\ SumFunctionOnSet(w, S) = it[S]
<1> DEFINE it == CHOOSE f : Adds(f, w, SUBSET S)
<1>1. Adds(it, w, SUBSET S)  BY IterExists
<1>2. SumFunctionOnSet(w, S) = it[S]
      BY DEF SumFunctionOnSet, FoldFunctionOnSet, MapThenFoldSet, Adds, Chosen
<1> HIDE DEF it
<1> QED  BY <1>1, <1>2

(* Its solutions for a set and for a larger one agree.                      *)
LEMMA IterUnique ==
    ASSUME NEW S, IsFiniteSet(S), NEW T \in SUBSET S, NEW w, NEW f, NEW g,
           Adds(f, w, SUBSET S), Adds(g, w, SUBSET T)
    PROVE  f[T] = g[T]
<1> DEFINE B == {U \in SUBSET T : f[U] # g[U]}
<1> SUFFICES ASSUME B # {} PROVE FALSE  OBVIOUS
<1>1. PICK U \in B : \A x \in U : U \ {x} \notin B
  <2>1. B \in SUBSET (SUBSET T) /\ IsFiniteSet(T)  BY FS_Subset
  <2> HIDE DEF B
  <2> QED  BY <2>1, MinimalSubset
<1>2. U \in SUBSET S /\ U \in SUBSET T /\ f[U] # g[U] BY <1>1
<1>3. U # {} BY <1>2 DEF Adds
<1>4. Chosen(U) \in U  BY <1>3, ChosenIn
<1>5. f[U \ {Chosen(U)}] = g[U \ {Chosen(U)}]  BY <1>1, <1>2, <1>4
<1>6. f[U] = w[Chosen(U)] + f[U \ {Chosen(U)}]  BY <1>2, <1>3 DEF Adds
<1>7. g[U] = w[Chosen(U)] + g[U \ {Chosen(U)}]  BY <1>2, <1>3 DEF Adds
<1> QED  BY <1>2, <1>5, <1>6, <1>7

LEMMA SumEmpty == ASSUME NEW w PROVE SumFunctionOnSet(w, {}) = 0
<1>1. PICK it : Adds(it, w, SUBSET {}) /\ SumFunctionOnSet(w, {}) = it[{}]
      BY SumIter, FS_EmptySet
<1> QED  BY <1>1 DEF Adds

LEMMA SumChosen ==
    ASSUME NEW S, IsFiniteSet(S), S # {}, NEW w
    PROVE  SumFunctionOnSet(w, S) = w[Chosen(S)] + SumFunctionOnSet(w, S \ {Chosen(S)})
<1> DEFINE R == S \ {Chosen(S)}
<1>1. IsFiniteSet(R) /\ R \in SUBSET S  BY FS_RemoveElement
<1>2. PICK f : Adds(f, w, SUBSET S) /\ SumFunctionOnSet(w, S) = f[S]  BY SumIter
<1>3. PICK g : Adds(g, w, SUBSET R) /\ SumFunctionOnSet(w, R) = g[R]  BY <1>1, SumIter
<1>4. f[R] = g[R]  BY <1>1, <1>2, <1>3, IterUnique
<1>5. f[S] = w[Chosen(S)] + f[R]  BY <1>2 DEF Adds
<1> QED  BY <1>2, <1>3, <1>4, <1>5

(* Sums of integers are integers.                                           *)
LEMMA SumIsInt ==
    ASSUME NEW S, IsFiniteSet(S), NEW w, \A x \in S : w[x] \in Int
    PROVE  SumFunctionOnSet(w, S) \in Int
<1> DEFINE B == {U \in SUBSET S : SumFunctionOnSet(w, U) \notin Int}
<1> SUFFICES ASSUME B # {} PROVE FALSE  OBVIOUS
<1>1. PICK U \in B : \A x \in U : U \ {x} \notin B
  <2>1. B \in SUBSET (SUBSET S)  OBVIOUS
  <2> HIDE DEF B
  <2> QED  BY <2>1, MinimalSubset
<1>2. IsFiniteSet(U)  BY FS_Subset
<1>3. U # {}  BY SumEmpty
<1>4. Chosen(U) \in U  BY <1>3, ChosenIn
<1>5. SumFunctionOnSet(w, U \ {Chosen(U)}) \in Int  BY <1>1, <1>4
<1>6. w[Chosen(U)] \in Int /\ SumFunctionOnSet(w, U) \notin Int  BY <1>1, <1>4
<1>7. SumFunctionOnSet(w, U) = w[Chosen(U)] + SumFunctionOnSet(w, U \ {Chosen(U)})
      BY <1>2, <1>3, SumChosen
<1> QED  BY <1>5, <1>6, <1>7

(* Any element may be taken first.                                          *)
LEMMA SumWithout ==
    ASSUME NEW S, IsFiniteSet(S), NEW w, \A x \in S : w[x] \in Int, NEW x \in S
    PROVE  SumFunctionOnSet(w, S) = w[x] + SumFunctionOnSet(w, S \ {x})
<1> DEFINE Sum(U) == SumFunctionOnSet(w, U)
           B == {U \in SUBSET S : \E y \in U : Sum(U) # w[y] + Sum(U \ {y})}
<1> SUFFICES ASSUME B # {} PROVE FALSE  OBVIOUS
<1>1. PICK U \in B : \A y \in U : U \ {y} \notin B
  <2>1. B \in SUBSET (SUBSET S)  OBVIOUS
  <2> HIDE DEF B
  <2> QED  BY <2>1, MinimalSubset
<1>2. PICK y \in U : Sum(U) # w[y] + Sum(U \ {y})  BY <1>1
<1> DEFINE c == Chosen(U)
<1>3. c \in U  BY ChosenIn, <1>2
<1>4. IsFiniteSet(U) /\ U \in SUBSET S  BY FS_Subset
<1>5. Sum(U) = w[c] + Sum(U \ {c})  BY <1>3, <1>4, SumChosen
<1>6. c # y  BY <1>2, <1>5
<1>7. Sum(U \ {c}) = w[y] + Sum((U \ {c}) \ {y})  BY <1>1, <1>3, <1>4, <1>6
<1>8. Sum(U \ {y}) = w[c] + Sum((U \ {y}) \ {c})  BY <1>1, <1>2, <1>3, <1>4, <1>6
<1>9. (U \ {c}) \ {y} = (U \ {y}) \ {c}  OBVIOUS
<1>10. w[y] \in Int /\ w[c] \in Int /\ Sum((U \ {y}) \ {c}) \in Int
  <2>1. IsFiniteSet((U \ {y}) \ {c}) BY <1>4, FS_Subset
  <2> QED  BY <2>1, <1>2, <1>3, <1>4, SumIsInt
<1> HIDE DEF Sum, c
<1>11. Sum(U) = w[c] + (w[y] + Sum((U \ {y}) \ {c}))  BY <1>5, <1>7, <1>9
<1>12. w[y] + Sum(U \ {y}) = w[y] + (w[c] + Sum((U \ {y}) \ {c}))  BY <1>8
<1> QED  BY <1>2, <1>10, <1>11, <1>12

-----------------------------------------------------------------------------
(* Arithmetic of the columns.                                               *)

(* A cast changes a number by a multiple of the width.                      *)
LEMMA SignedAway ==
    ASSUME NEW x \in Int PROVE \E k \in Int : x = Signed(x) + k * (2 * Half)
<1> DEFINE m == 2 * Half
           z == x + Half
<1>1. m \in Nat \ {0} /\ z \in Int  BY ExchangeAssumption
<1> HIDE DEF m, z
<1>2. z \div m \in Int /\ z % m \in Int /\ z = m * (z \div m) + (z % m)  BY <1>1
<1>3. z = (z % m) + (z \div m) * m  BY <1>1, <1>2
<1>4. x = ((z % m) - Half) + (z \div m) * m  BY <1>1, <1>2, <1>3, ExchangeAssumption DEF z
<1>5. Signed(x) = (z % m) - Half  BY DEF Signed, z, m
<1> QED  BY <1>2, <1>4, <1>5 DEF m

(* Two words that differ by a multiple of the width are equal.              *)
LEMMA WordsApart ==
    ASSUME NEW x \in Word, NEW y \in Word, NEW k \in Int, x = y + k * (2 * Half)
    PROVE  x = y
<1> DEFINE m == 2 * Half
<1>1. m \in Nat \ {0} /\ x \in Int /\ y \in Int /\ x - y < m /\ y - x < m
      BY ExchangeAssumption DEF Word
<1> HIDE DEF m
<1>2. x - y = k * m  BY <1>1 DEF m
<1>3. ASSUME k >= 1 PROVE FALSE
  <2>1. k * m >= m  BY <1>1, <1>3
  <2> QED  BY <1>1, <1>2, <2>1
<1>4. ASSUME k <= -1 PROVE FALSE
  <2>1. k * m <= -m  BY <1>1, <1>4
  <2> QED  BY <1>1, <1>2, <2>1
<1>5. k = 0  BY <1>3, <1>4
<1>6. k * m = 0  BY <1>1, <1>5
<1>7. x - y = 0  BY <1>2, <1>6
<1> QED  BY <1>1, <1>7

(* A sum may be cast in between.                                            *)
LEMMA SignedSum ==
    ASSUME NEW x \in Int, NEW y \in Int PROVE Signed(Signed(x) + y) = Signed(x + y)
<1> DEFINE m == 2 * Half
           u == Signed(Signed(x) + y)
           v == Signed(x + y)
<1>1. m \in Int /\ Signed(x) \in Int  BY SignedIsWord, ExchangeAssumption DEF Word
<1>2. u \in Word /\ v \in Word /\ u \in Int /\ v \in Int
  <2>1. Signed(x) + y \in Int /\ x + y \in Int  BY <1>1
  <2>2. u \in Word /\ v \in Word  BY <2>1, SignedIsWord
  <2> QED  BY <2>2, WordsAreInts
<1>3. PICK i \in Int : x = Signed(x) + i * m  BY SignedAway
<1>4. PICK j \in Int : Signed(x) + y = u + j * m  BY <1>1, SignedAway
<1>5. PICK k \in Int : x + y = v + k * m  BY SignedAway
<1> HIDE DEF m, u, v
<1>6. u + j * m + i * m = v + k * m  BY <1>1, <1>2, <1>3, <1>4, <1>5
<1>7. u = v + (k - i - j) * m  BY <1>1, <1>2, <1>6
<1>8. u = v  BY <1>2, <1>7, WordsApart DEF m
<1> QED  BY <1>8 DEF u, v

(* The cast of a word is the word.                                          *)
LEMMA SignedWord == ASSUME NEW x \in Word PROVE Signed(x) = x
<1>1. x \in Int  BY WordsAreInts
<1>2. PICK k \in Int : x = Signed(x) + k * (2 * Half)  BY <1>1, SignedAway
<1> QED  BY <1>1, <1>2, SignedIsWord, WordsApart

-----------------------------------------------------------------------------
(* The books.                                                               *)

OrdersPast ==
    \A x \in orders : phase[x.id] = "done" /\ offer[x.offer].status # "none"

BooksInv == IInv /\ IsFiniteSet(orders) /\ OrdersPast /\ BalancesExact /\ StockExact

SoldBy(c) == {x \in orders : Seller[x.offer] = c}
BoughtBy(c) == {x \in orders : x.buyer = c}
OrderedFrom(o) == {x \in orders : x.offer = o}

(* Sums over orders are integers.                                           *)
LEMMA OrderSums ==
    ASSUME TypeOK, IsFiniteSet(orders), NEW S \in SUBSET orders
    PROVE  /\ IsFiniteSet(S)
           /\ \A x \in S : totals[x] \in Int /\ quantities[x] \in Int
           /\ SumFunctionOnSet(totals, S) \in Int
           /\ SumFunctionOnSet(quantities, S) \in Int
<1>1. IsFiniteSet(S)  BY FS_Subset
<1>2. \A x \in S : x \in Order  BY DEF TypeOK
<1>3. \A x \in S : totals[x] \in Int /\ quantities[x] \in Int
      BY <1>2, WordsAreInts DEF Order, totals, quantities
<1> QED  BY <1>1, <1>3, SumIsInt

(* One more order adds its total and its quantity.                          *)
LEMMA OneMoreOrder ==
    ASSUME TypeOK, IsFiniteSet(orders), NEW S \in SUBSET orders, NEW x \in Order, x \notin orders
    PROVE  /\ SumFunctionOnSet(totals, S \cup {x}) = SumFunctionOnSet(totals, S) + x.total
           /\ SumFunctionOnSet(quantities, S \cup {x})
                  = SumFunctionOnSet(quantities, S) + x.quantity
<1> DEFINE T == S \cup {x}
<1>1. IsFiniteSet(T)  BY OrderSums, FS_AddElement
<1>2. T \ {x} = S  OBVIOUS
<1>3. totals[x] = x.total /\ quantities[x] = x.quantity  BY DEF totals, quantities
<1>4. x.total \in Int /\ x.quantity \in Int  BY WordsAreInts DEF Order
<1>5. \A y \in T : totals[y] \in Int /\ quantities[y] \in Int  BY <1>3, <1>4, OrderSums
<1>6. x \in T  OBVIOUS
<1> HIDE DEF T
<1>7. SumFunctionOnSet(totals, T) = totals[x] + SumFunctionOnSet(totals, T \ {x})
      BY <1>1, <1>5, <1>6, SumWithout
<1>8. SumFunctionOnSet(quantities, T) = quantities[x] + SumFunctionOnSet(quantities, T \ {x})
      BY <1>1, <1>5, <1>6, SumWithout
<1>9. SumFunctionOnSet(totals, S) \in Int /\ SumFunctionOnSet(quantities, S) \in Int
      BY OrderSums
<1>10. SumFunctionOnSet(totals, T) = x.total + SumFunctionOnSet(totals, S)
      BY <1>2, <1>3, <1>7
<1>11. SumFunctionOnSet(quantities, T) = x.quantity + SumFunctionOnSet(quantities, S)
      BY <1>2, <1>3, <1>8
<1>12. /\ SumFunctionOnSet(totals, T) = SumFunctionOnSet(totals, S) + x.total
       /\ SumFunctionOnSet(quantities, T) = SumFunctionOnSet(quantities, S) + x.quantity
      BY <1>4, <1>9, <1>10, <1>11
<1> QED  BY <1>12 DEF T

(* Initially there are no orders, and balances are the opening grants.      *)
LEMMA BooksInit == Init => BooksInv
<1> SUFFICES ASSUME Init PROVE BooksInv  OBVIOUS
<1>1. orders = {}  BY DEF Init
<1>2. IInv  BY TypeInit, LocksInit DEF IInv
<1>3. BalancesExact
  <2> SUFFICES ASSUME NEW c \in Citizen
               PROVE  balance[c] = granted[c] + SumFunctionOnSet(totals, SoldBy(c))
                                              - SumFunctionOnSet(totals, BoughtBy(c))
      BY DEF BalancesExact, SoldBy, BoughtBy
  <2>1. SoldBy(c) = {} /\ BoughtBy(c) = {}  BY <1>1 DEF SoldBy, BoughtBy
  <2>2. balance[c] = granted[c] /\ granted[c] \in Int  BY ExchangeAssumption DEF Init
  <2> QED  BY <2>1, <2>2, SumEmpty
<1>4. StockExact
  <2> SUFFICES ASSUME NEW o \in OfferId
               PROVE  posted[o] = Signed(offer[o].quantity
                                         + SumFunctionOnSet(quantities, OrderedFrom(o)))
      BY DEF StockExact, OrderedFrom
  <2>1. OrderedFrom(o) = {}  BY <1>1 DEF OrderedFrom
  <2>2. posted[o] = 0 /\ offer[o].quantity = 0  BY DEF Init, NoOffer
  <2>3. 0 \in Word  BY ExchangeAssumption DEF Word
  <2> QED  BY <2>1, <2>2, <2>3, SumEmpty, SignedWord
<1> QED  BY <1>1, <1>2, <1>3, <1>4, FS_EmptySet DEF BooksInv, OrdersPast

(* The order that a payment writes.                                         *)
OrderOf(t) ==
    [id |-> t, buyer |-> Asked[t].citizen, offer |-> Asked[t].offer,
     quantity |-> Amount(t), total |-> Total(t)]

(* It is a new row: its request has not been done before.                   *)
LEMMA PaidOrder ==
    ASSUME BooksInv, NEW t \in Task, OrderPay(t)
    PROVE  /\ orders' = orders \cup {OrderOf(t)}
           /\ OrderOf(t) \in Order
           /\ OrderOf(t) \notin orders
<1>1. phase[t] # "done"  BY DEF OrderPay
<1>2. OrderOf(t) \in Order
      BY AskedTypes, TotalIsWord DEF OrderOf, Order, BooksInv, IInv
<1> QED  BY <1>1, <1>2 DEF OrderPay, OrderOf, BooksInv, OrdersPast

(* A payment moves the total from the buyer to the seller, who differ.      *)
LEMMA PaidBalances ==
    ASSUME BooksInv, NEW t \in Task, OrderPay(t) PROVE BalancesExact'
<1> DEFINE b == Asked[t].citizen
           s == Seller[Asked[t].offer]
           x == OrderOf(t)
           T(S) == SumFunctionOnSet(totals, S)
<1> USE DEF BooksInv, IInv
<1>1. orders' = orders \cup {x} /\ x \in Order /\ x \notin orders  BY PaidOrder
<1>2. b \in Citizen /\ s \in Citizen /\ b # s
      BY AskedTypes DEF OrderPay, OfferAsSeen, Holds
<1>3. x.buyer = b /\ Seller[x.offer] = s /\ x.total = Total(t) /\ Total(t) \in Int
      BY TotalIsWord, WordsAreInts DEF OrderOf
<1>4. granted' = granted  BY DEF OrderPay
<1>5. /\ balance'[b] = balance[b] - Total(t)
      /\ balance'[s] = balance[s] + Total(t)
      /\ \A c \in Citizen : c # b /\ c # s => balance'[c] = balance[c]
      BY <1>2 DEF OrderPay, TypeOK
<1> SUFFICES ASSUME NEW c \in Citizen
             PROVE  balance'[c] = granted'[c] + T({y \in orders' : Seller[y.offer] = c})
                                              - T({y \in orders' : y.buyer = c})
    BY DEF BalancesExact
<1>6. balance[c] = granted[c] + T(SoldBy(c)) - T(BoughtBy(c))
      BY DEF BalancesExact, SoldBy, BoughtBy
<1>7. SoldBy(c) \in SUBSET orders /\ BoughtBy(c) \in SUBSET orders  BY DEF SoldBy, BoughtBy
<1>8. T(SoldBy(c)) \in Int /\ T(BoughtBy(c)) \in Int  BY <1>7, OrderSums
<1>9. balance[c] \in Int /\ granted[c] \in Int  BY WordsAreInts DEF TypeOK
<1>10. T({y \in orders' : Seller[y.offer] = c})
           = T(SoldBy(c)) + (IF c = s THEN Total(t) ELSE 0)
  <2>1. CASE c = s
    <3>1. {y \in orders' : Seller[y.offer] = c} = SoldBy(c) \cup {x}
          BY <1>1, <1>3, <2>1 DEF SoldBy
    <3> QED  BY <1>1, <1>3, <1>7, <2>1, <3>1, OneMoreOrder
  <2>2. CASE c # s
    <3>1. {y \in orders' : Seller[y.offer] = c} = SoldBy(c)
          BY <1>1, <1>3, <2>2 DEF SoldBy
    <3>2. T({y \in orders' : Seller[y.offer] = c}) = T(SoldBy(c))  BY <3>1
    <3>3. T(SoldBy(c)) = T(SoldBy(c)) + 0  BY <1>8
    <3> QED  BY <2>2, <3>2, <3>3
  <2> QED  BY <2>1, <2>2
<1>11. T({y \in orders' : y.buyer = c})
           = T(BoughtBy(c)) + (IF c = b THEN Total(t) ELSE 0)
  <2>1. CASE c = b
    <3>1. {y \in orders' : y.buyer = c} = BoughtBy(c) \cup {x}
          BY <1>1, <1>3, <2>1 DEF BoughtBy
    <3> QED  BY <1>1, <1>3, <1>7, <2>1, <3>1, OneMoreOrder
  <2>2. CASE c # b
    <3>1. {y \in orders' : y.buyer = c} = BoughtBy(c)
          BY <1>1, <1>3, <2>2 DEF BoughtBy
    <3>2. T({y \in orders' : y.buyer = c}) = T(BoughtBy(c))  BY <3>1
    <3>3. T(BoughtBy(c)) = T(BoughtBy(c)) + 0  BY <1>8
    <3> QED  BY <2>2, <3>2, <3>3
  <2> QED  BY <2>1, <2>2
<1> HIDE DEF T, s, b, x
<1> QED  BY <1>2, <1>3, <1>4, <1>5, <1>6, <1>8, <1>9, <1>10, <1>11

(* A payment takes from the offer what its order has.                       *)
LEMMA PaidStock ==
    ASSUME BooksInv, NEW t \in Task, OrderPay(t) PROVE StockExact'
<1> DEFINE o == Asked[t].offer
           x == OrderOf(t)
           Q(S) == SumFunctionOnSet(quantities, S)
<1> USE DEF BooksInv, IInv
<1>1. orders' = orders \cup {x} /\ x \in Order /\ x \notin orders  BY PaidOrder
<1>2. o \in OfferId /\ Amount(t) \in Int  BY AskedTypes, WordsAreInts
<1>3. x.offer = o /\ x.quantity = Amount(t)  BY DEF OrderOf
<1>4. posted' = posted  BY DEF OrderPay
<1>5. seen[t].quantity = offer[o].quantity  BY DEF OrderPay, OfferAsSeen, Holds
<1>6. /\ offer'[o].quantity = Signed(offer[o].quantity - Amount(t))
      /\ \A u \in OfferId : u # o => offer'[u] = offer[u]
  <2>1. \A u \in OfferId : u # o => offer'[u] = offer[u]  BY DEF OrderPay, TypeOK
  <2> DEFINE left == Signed(seen[t].quantity - Amount(t))
  <2>2. offer' = [offer EXCEPT ![o].quantity = left,
                               ![o].status = IF left = 0 THEN "filled" ELSE "active"]
        BY DEF OrderPay
  <2> HIDE DEF left
  <2>3. offer'[o].quantity = left  BY <1>2, <2>2 DEF TypeOK, Offer
  <2> QED  BY <1>5, <2>1, <2>3 DEF left
<1> SUFFICES ASSUME NEW u \in OfferId
             PROVE  posted'[u] = Signed(offer'[u].quantity + Q({y \in orders' : y.offer = u}))
    BY DEF StockExact
<1>7. posted[u] = Signed(offer[u].quantity + Q(OrderedFrom(u)))
      BY DEF StockExact, OrderedFrom
<1>8. OrderedFrom(u) \in SUBSET orders  BY DEF OrderedFrom
<1>9. Q(OrderedFrom(u)) \in Int  BY <1>8, OrderSums
<1>10. offer[u].quantity \in Int  BY WordsAreInts DEF TypeOK, Offer
<1>11. CASE u # o
  <2>1. {y \in orders' : y.offer = u} = OrderedFrom(u)
        BY <1>1, <1>3, <1>11 DEF OrderedFrom
  <2> QED  BY <1>4, <1>6, <1>7, <1>11, <2>1
<1>12. CASE u = o
  <2>1. {y \in orders' : y.offer = u} = OrderedFrom(u) \cup {x}
        BY <1>1, <1>3, <1>12 DEF OrderedFrom
  <2>2. Q({y \in orders' : y.offer = u}) = Q(OrderedFrom(u)) + Amount(t)
        BY <1>1, <1>3, <1>8, <2>1, OneMoreOrder
  <2> DEFINE q == offer[u].quantity
             a == Amount(t)
             r == Q(OrderedFrom(u))
  <2>3. q \in Int /\ a \in Int /\ r \in Int  BY <1>2, <1>9, <1>10
  <2>4. offer'[u].quantity = Signed(q - a)  BY <1>6, <1>12
  <2> HIDE DEF q, a, r
  <2>5. Signed(Signed(q - a) + (r + a)) = Signed((q - a) + (r + a))  BY <2>3, SignedSum
  <2>6. (q - a) + (r + a) = q + r  BY <2>3
  <2> QED  BY <1>4, <1>7, <2>2, <2>4, <2>5, <2>6 DEF q, a, r
<1> QED  BY <1>11, <1>12

(* No other step touches an order and a balance or an offer's quantity,     *)
(* but for new offers and grants.                                           *)
LEMMA BooksStep ==
    BooksInv /\ [Next]_vars
    => IsFiniteSet(orders)' /\ OrdersPast' /\ BalancesExact' /\ StockExact'
<1> SUFFICES ASSUME BooksInv, [Next]_vars
             PROVE  IsFiniteSet(orders)' /\ OrdersPast' /\ BalancesExact' /\ StockExact'
    OBVIOUS
<1> DEFINE Goal == IsFiniteSet(orders)' /\ OrdersPast' /\ BalancesExact' /\ StockExact'
<1> USE DEF BooksInv, IInv
<1>1. ASSUME NEW o \in OfferId, NEW price \in Price, NEW quantity \in Stock,
             CreateOffer(o, price, quantity)
      PROVE  Goal
  <2>1. UNCHANGED <<balance, orders, granted, phase>>  BY <1>1 DEF CreateOffer
  <2>2. /\ posted'[o] = Signed(quantity)
        /\ offer'[o] = [status |-> "active", price |-> Signed(price),
                        quantity |-> Signed(quantity)]
        /\ \A u \in OfferId : u # o => posted'[u] = posted[u] /\ offer'[u] = offer[u]
        BY <1>1 DEF CreateOffer, TypeOK
  <2>3. OrderedFrom(o) = {}  BY <1>1 DEF CreateOffer, OrderedFrom, OrdersPast
  <2>4. quantity \in Int  BY ExchangeAssumption
  <2>5. Signed(quantity) = Signed(Signed(quantity) + 0)
    <3>1. Signed(Signed(quantity) + 0) = Signed(quantity + 0)  BY <2>4, SignedSum
    <3> QED  BY <2>4, <3>1
  <2>6. StockExact'
    <3> SUFFICES ASSUME NEW u \in OfferId
                 PROVE  posted'[u] = Signed(offer'[u].quantity
                                            + SumFunctionOnSet(quantities, OrderedFrom(u)))
        BY <2>1 DEF StockExact, OrderedFrom
    <3>1. CASE u = o  BY <2>2, <2>3, <2>5, <3>1, SumEmpty
    <3>2. CASE u # o  BY <2>2, <3>2 DEF StockExact, OrderedFrom
    <3> QED  BY <3>1, <3>2
  <2>7. OrdersPast'
    <3>1. \A x \in orders : x.offer \in OfferId  BY DEF TypeOK, Order
    <3> QED  BY <2>1, <2>2, <3>1 DEF OrdersPast
  <2> QED  BY <2>1, <2>6, <2>7 DEF BalancesExact
<1>2. ASSUME NEW t \in Task, NEW p \in Phase, SetPhase(t, p), phase[t] # "done",
             UNCHANGED <<balance, orders, granted, offer, posted>>
      PROVE  Goal
  BY <1>2 DEF SetPhase, OrdersPast, BalancesExact, StockExact, TypeOK
<1>3. ASSUME NEW t \in Task, CancelRead(t) \/ OrderReceived(t) \/ BalanceReceived(t)
      PROVE  Goal
  BY <1>2, <1>3 DEF CancelRead, OrderReceived, BalanceReceived, tables, Phase
<1>4. ASSUME NEW t \in Task, CancelWrite(t) PROVE Goal
  <2> DEFINE o == Asked[t].offer
  <2>1. o \in OfferId  BY AskedTypes
  <2>2. UNCHANGED <<balance, orders, granted, posted>>  BY <1>4 DEF CancelWrite
  <2>3. \A u \in OfferId : /\ offer'[u].quantity = offer[u].quantity
                           /\ offer[u].status # "none" => offer'[u].status # "none"
        BY <1>4, <2>1 DEF CancelWrite, TypeOK, Offer
  <2>4. \A x \in orders : x.offer \in OfferId  BY DEF TypeOK, Order
  <2>5. OrdersPast'
        BY <1>4, <2>2, <2>3, <2>4 DEF CancelWrite, SetPhase, OrdersPast, TypeOK
  <2> QED  BY <2>2, <2>3, <2>5 DEF BalancesExact, StockExact
<1>5. ASSUME NEW t \in Task, OrderOffer(t) \/ OrderBuyer(t) \/ InsertRow(t) \/ Fails(t)
      PROVE  Goal
  BY <1>2, <1>5 DEF OrderOffer, OrderBuyer, InsertRow, Fails, tables, Phase
<1>6. ASSUME NEW t \in Task, OrderPay(t) PROVE Goal
  <2>1. orders' = orders \cup {OrderOf(t)}  BY <1>6, PaidOrder
  <2>2. IsFiniteSet(orders')  BY <2>1, FS_AddElement
  <2>3. phase' = [phase EXCEPT ![t] = "done"]  BY <1>6 DEF OrderPay, SetPhase
  <2>4. \A u \in OfferId : offer[u].status # "none" => offer'[u].status # "none"
    <3>1. Asked[t].offer \in OfferId  BY AskedTypes
    <3> QED  BY <1>6, <3>1 DEF OrderPay, TypeOK, Offer
  <2>5. offer[Asked[t].offer].status # "none"
        BY <1>6 DEF OrderPay, OfferAsSeen, Holds
  <2>6. \A x \in orders : x.offer \in OfferId /\ x.id \in Task  BY DEF TypeOK, Order
  <2>7. OrdersPast'
        BY <2>1, <2>3, <2>4, <2>5, <2>6, AskedTypes DEF OrdersPast, OrderOf, TypeOK
  <2> QED  BY <1>6, <2>2, <2>7, PaidBalances, PaidStock
<1>7. ASSUME NEW t \in Task, GrantUpdate(t) PROVE Goal
  <2> DEFINE c == Asked[t].citizen
  <2>1. UNCHANGED <<orders, offer, posted>>  BY <1>7 DEF GrantUpdate
  <2>2. OrdersPast'  BY <1>7, <2>1 DEF GrantUpdate, SetPhase, OrdersPast, TypeOK
  <2>3. c \in Citizen /\ Amount(t) \in Int  BY AskedTypes, WordsAreInts
  <2>4. /\ balance'[c] = balance[c] + Amount(t)
        /\ granted'[c] = granted[c] + Amount(t)
        /\ \A d \in Citizen : d # c => balance'[d] = balance[d] /\ granted'[d] = granted[d]
        BY <1>7, <2>3 DEF GrantUpdate, TypeOK
  <2>5. BalancesExact'
    <3> SUFFICES ASSUME NEW d \in Citizen
                 PROVE  balance'[d] = granted'[d] + SumFunctionOnSet(totals, SoldBy(d))
                                                  - SumFunctionOnSet(totals, BoughtBy(d))
        BY <2>1 DEF BalancesExact, SoldBy, BoughtBy
    <3>1. balance[d] = granted[d] + SumFunctionOnSet(totals, SoldBy(d))
                                  - SumFunctionOnSet(totals, BoughtBy(d))
          BY DEF BalancesExact, SoldBy, BoughtBy
    <3>2. /\ SumFunctionOnSet(totals, SoldBy(d)) \in Int
          /\ SumFunctionOnSet(totals, BoughtBy(d)) \in Int
          BY OrderSums DEF SoldBy, BoughtBy
    <3>3. balance[d] \in Int /\ granted[d] \in Int  BY WordsAreInts DEF TypeOK
    <3> QED  BY <2>3, <2>4, <3>1, <3>2, <3>3
  <2> QED  BY <2>1, <2>2, <2>5 DEF StockExact
<1>8. CASE UNCHANGED vars
  BY <1>8 DEF vars, OrdersPast, BalancesExact, StockExact
<1> QED
  BY <1>1, <1>3, <1>4, <1>5, <1>6, <1>7, <1>8, StepCases

LEMMA BooksInvariant == Spec => []BooksInv
<1>1. Init => BooksInv  BY BooksInit
<1>2. BooksInv /\ [Next]_vars => BooksInv'
  <2> SUFFICES ASSUME BooksInv, [Next]_vars PROVE BooksInv'  OBVIOUS
  <2>1. IInv'  BY TypeStep, LocksStep DEF BooksInv, IInv
  <2> QED  BY <2>1, BooksStep DEF BooksInv
<1> QED  BY <1>1, <1>2, PTL DEF Spec

(* Every balance is what was granted, sold and bought (create_order,        *)
(* add_balance), however many orders there are.                             *)
THEOREM BalancesAreExact == Spec => []BalancesExact
<1>1. BooksInv => BalancesExact  BY DEF BooksInv
<1> QED  BY <1>1, BooksInvariant, PTL

(* What is left of an offer and what was ordered from it make up what it    *)
(* was created with (create_order).                                         *)
THEOREM StockIsExact == Spec => []StockExact
<1>1. BooksInv => StockExact  BY DEF BooksInv
<1> QED  BY <1>1, BooksInvariant, PTL
=============================================================================
