--------------------------- MODULE CitizensProofs ---------------------------
(***************************************************************************)
(* Proofs about Citizens, for any nodes, citizens, passports, requests and *)
(* number of blocks: the types, ProjectionIsFold, PassportBacked and       *)
(* RevokedForGood.  The tables are folds of the library over the events of *)
(* blocks and the blocks of chains; the first section says what a fold     *)
(* returns, and the others that every event keeps what is to be kept.      *)
(***************************************************************************)
EXTENDS Citizens, FiniteSetTheorems, SequenceTheorems, WellFoundedInduction, TLAPS

-----------------------------------------------------------------------------
(* Folds.  FoldLeft is defined by a recursive function on the sets of       *)
(* indices, that takes off the largest one.  Such a function exists, it is  *)
(* the only one, and stays in any set that the steps do not leave.          *)

(* A set of naturals has a least element.                                   *)
LEMMA LeastNatural ==
    ASSUME NEW T \in SUBSET Nat, T # {}
    PROVE  \E n \in T : \A m \in T : n <= m
<1>1. PICK n \in T : \A m \in T : <<m, n>> \notin OpToRel(<, Nat)
      BY NatLessThanWellFounded, WFMin
<1>2. ASSUME NEW m \in T PROVE n <= m
  <2>1. ~(m < n)  BY <1>1 DEF OpToRel
  <2> QED  BY <2>1
<1> QED  BY <1>2

(* A set with 0 and with every successor has all naturals.                  *)
LEMMA NaturalsWithin ==
    ASSUME NEW G, 0 \in G, \A n \in Nat : n \in G => n + 1 \in G
    PROVE  Nat \subseteq G
<1> DEFINE B == Nat \ G
<1> SUFFICES ASSUME B # {} PROVE FALSE  OBVIOUS
<1>1. PICK n \in B : \A m \in B : n <= m
  <2>1. B \in SUBSET Nat OBVIOUS
  <2> HIDE DEF B
  <2> QED BY <2>1, LeastNatural
<1>2. n \in Nat /\ n # 0 /\ n - 1 \in Nat BY <1>1
<1>3. n - 1 \in G  BY <1>1, <1>2
<1> QED  BY <1>1, <1>2, <1>3

(* A set of indices that is not empty has a largest one.                    *)
LEMMA LargestIndex ==
    ASSUME NEW n \in Nat, NEW u \in SUBSET (1..n), u # {}
    PROVE  Max(u) \in u /\ \A i \in u : i <= Max(u)
<1> DEFINE Bounds == {k \in Nat : \A i \in u : i <= k}
<1>1. Bounds \in SUBSET Nat /\ n \in Bounds  OBVIOUS
<1>2. PICK k \in Bounds : \A m \in Bounds : k <= m
  <2> HIDE DEF Bounds
  <2> QED  BY <1>1, LeastNatural
<1>3. k \in u
  <2> SUFFICES ASSUME k \notin u PROVE FALSE  OBVIOUS
  <2>1. k \in Nat /\ \A i \in u : i \in Nat /\ i >= 1 /\ i <= k /\ i # k  BY <1>2
  <2>2. \A i \in u : i <= k - 1  BY <2>1
  <2>3. PICK j \in u : TRUE  OBVIOUS
  <2>4. k - 1 \in Nat  BY <2>1, <2>3
  <2> QED  BY <1>2, <2>2, <2>4
<1>4. \E x \in u : \A y \in u : x >= y  BY <1>2, <1>3
<1> QED  BY <1>4 DEF Max

\* The sets of indices of a sequence up to n.
Upto(s, n) == SUBSET {i \in DOMAIN s : i <= n}

\* What a fold has left when it comes to the indices in u.
Folds(it, step, base, s, D) ==
    \A u \in D :
        it[u] = IF u = {} THEN base ELSE step[<<it[u \ {Max(u)}], s[Max(u)]>>]

LEMMA FoldExists ==
    ASSUME NEW T, NEW E, NEW step \in [T \X E -> T], NEW base \in T, NEW s \in Seq(E)
    PROVE  \E it \in [SUBSET DOMAIN s -> T] : Folds(it, step, base, s, SUBSET DOMAIN s)
<1> DEFINE G == {n \in Nat : \E it \in [Upto(s, n) -> T] : Folds(it, step, base, s, Upto(s, n))}
<1>0. DOMAIN s = 1..Len(s) /\ Len(s) \in Nat  OBVIOUS
<1>1. 0 \in G
  <2>1. Upto(s, 0) = {{}}  BY <1>0 DEF Upto
  <2>2. [u \in Upto(s, 0) |-> base] \in [Upto(s, 0) -> T]  OBVIOUS
  <2>3. Folds([u \in Upto(s, 0) |-> base], step, base, s, Upto(s, 0))  BY <2>1 DEF Folds
  <2> QED  BY <2>2, <2>3
<1>2. ASSUME NEW n \in Nat, n \in G PROVE n + 1 \in G
  <2>1. PICK f \in [Upto(s, n) -> T] : Folds(f, step, base, s, Upto(s, n))  BY <1>2
  <2> DEFINE last(u) == s[Max(u)]
             rest(u) == u \ {Max(u)}
             g == [u \in Upto(s, n + 1) |->
                      IF u = {} THEN base ELSE step[<<f[rest(u)], last(u)>>]]
  <2>2. ASSUME NEW u \in Upto(s, n + 1), u # {}
        PROVE  rest(u) \in Upto(s, n) /\ last(u) \in E
    <3>1. Max(u) \in u /\ \A i \in u : i <= Max(u)  BY <1>0, <2>2, LargestIndex DEF Upto
    <3>2. \A i \in rest(u) : i \in DOMAIN s /\ i <= n  BY <1>0, <2>2, <3>1 DEF Upto
    <3>3. Max(u) \in DOMAIN s  BY <2>2, <3>1 DEF Upto
    <3> QED  BY <3>2, <3>3 DEF Upto
  <2>3. \A u \in Upto(s, n) : u \in Upto(s, n + 1)  BY <1>0 DEF Upto
  <2>4. g \in [Upto(s, n + 1) -> T]
    <3>1. \A u \in Upto(s, n + 1) : u # {} => step[<<f[rest(u)], last(u)>>] \in T
          BY <2>1, <2>2
    <3> QED  BY <3>1
  <2>5. \A u \in Upto(s, n) : g[u] = f[u]  BY <2>1, <2>3 DEF Folds
  <2>6. Folds(g, step, base, s, Upto(s, n + 1))
    <3>1. \A u \in Upto(s, n + 1) : u # {} => g[rest(u)] = f[rest(u)]  BY <2>2, <2>5
    <3>2. \A u \in Upto(s, n + 1) :
              g[u] = IF u = {} THEN base ELSE step[<<g[rest(u)], last(u)>>]  BY <3>1
    <3> HIDE DEF g
    <3> QED  BY <3>2 DEF Folds
  <2>7. \E it \in [Upto(s, n + 1) -> T] : Folds(it, step, base, s, Upto(s, n + 1))
    <3> HIDE DEF g
    <3> QED  BY <2>4, <2>6
  <2> QED  BY <2>7
<1>3. Len(s) \in G
  <2> HIDE DEF G
  <2> QED  BY <1>0, <1>1, <1>2, NaturalsWithin
<1>4. Upto(s, Len(s)) = SUBSET DOMAIN s  BY <1>0 DEF Upto
<1> QED  BY <1>3, <1>4

(* Two recursions that agree wherever they agree on less are the same.      *)
LEMMA FoldUnique ==
    ASSUME NEW n \in Nat, NEW f, NEW g, f[{}] = g[{}],
           \A u \in SUBSET (1..n) :
               u # {} /\ f[u \ {Max(u)}] = g[u \ {Max(u)}] => f[u] = g[u]
    PROVE  f[1..n] = g[1..n]
<1> DEFINE G == {k \in Nat : \A u \in SUBSET (1..n) : u \subseteq 1..k => f[u] = g[u]}
<1>1. 0 \in G
  <2>1. 1..0 = {}  OBVIOUS
  <2> QED  BY <2>1
<1>2. ASSUME NEW k \in Nat, k \in G PROVE k + 1 \in G
  <2> SUFFICES ASSUME NEW u \in SUBSET (1..n), u \subseteq 1..(k + 1), u # {} PROVE f[u] = g[u]
      BY <1>1
  <2>1. Max(u) \in u /\ \A i \in u : i <= Max(u)  BY LargestIndex
  <2>2. ASSUME NEW i \in u, i # Max(u) PROVE i \in 1..k
    <3>1. \A j \in u : j \in Nat /\ j >= 1 /\ j <= k + 1  OBVIOUS
    <3>2. Max(u) \in Nat /\ Max(u) <= k + 1 /\ i <= Max(u)  BY <2>1, <3>1
    <3> QED  BY <2>2, <3>1, <3>2
  <2> QED  BY <1>2, <2>2
<1>3. n \in G
  <2> HIDE DEF G
  <2> QED  BY <1>1, <1>2, NaturalsWithin
<1> QED  BY <1>3

\* The recursions of the two folds of Citizens: over a block, over a chain.
BlockSteps(it, base, s) ==
    it = [u \in SUBSET DOMAIN s |->
             IF u = {} THEN base ELSE Apply(it[u \ {Max(u)}], s[Max(u)])]

ChainSteps(it, base, s) ==
    it = [u \in SUBSET DOMAIN s |->
             IF u = {} THEN base
             ELSE apply_event_projections(it[u \ {Max(u)}], s[Max(u)])]

\* What the blocks of c make of the tables t.
After(t, c) == FoldLeft(apply_event_projections, t, c)

\* The recursion for c, and where it leads.
Leads(it, t, c) == ChainSteps(it, t, c) /\ After(t, c) = it[DOMAIN c]

(* A block leads from a set only where one of its events does.              *)
LEMMA BlockWithin ==
    ASSUME NEW T, NEW E, \A t \in T, e \in E : Apply(t, e) \in T,
           NEW base \in T, NEW s \in Seq(E)
    PROVE  apply_event_projections(base, s) \in T
<1> DEFINE step == [x \in T \X E |-> Apply(x[1], x[2])]
           iter == CHOOSE it : BlockSteps(it, base, s)
<1>0. DOMAIN s = 1..Len(s) /\ Len(s) \in Nat  OBVIOUS
<1>1. step \in [T \X E -> T]  OBVIOUS
<1>2. PICK f \in [SUBSET DOMAIN s -> T] : Folds(f, step, base, s, SUBSET DOMAIN s)
  <2> HIDE DEF step
  <2> QED  BY <1>1, FoldExists
<1>3. ASSUME NEW u \in SUBSET DOMAIN s, u # {}
      PROVE  /\ u \ {Max(u)} \in SUBSET DOMAIN s /\ s[Max(u)] \in E
             /\ f[u] = Apply(f[u \ {Max(u)}], s[Max(u)])
  <2>1. Max(u) \in u  BY <1>0, <1>3, LargestIndex
  <2>2. s[Max(u)] \in E  BY <2>1
  <2>3. f[u] = step[<<f[u \ {Max(u)}], s[Max(u)]>>]  BY <1>2, <1>3 DEF Folds
  <2> QED  BY <2>2, <2>3
<1>4. BlockSteps(f, base, s)
  <2>1. \A u \in SUBSET DOMAIN s :
            f[u] = IF u = {} THEN base ELSE Apply(f[u \ {Max(u)}], s[Max(u)])
        BY <1>2, <1>3 DEF Folds
  <2> QED  BY <2>1 DEF BlockSteps
<1>5. BlockSteps(iter, base, s)  BY <1>4
<1>6. apply_event_projections(base, s) = iter[DOMAIN s]
      BY DEF apply_event_projections, FoldLeft, MapThenFoldSet, BlockSteps
<1>7. iter[{}] = base /\ f[{}] = base  BY <1>4, <1>5 DEF BlockSteps
<1>8. \A u \in SUBSET (1..Len(s)) :
          u # {} /\ f[u \ {Max(u)}] = iter[u \ {Max(u)}] => f[u] = iter[u]
  <2> HIDE DEF iter
  <2> QED  BY <1>0, <1>4, <1>5 DEF BlockSteps
<1>9. f[DOMAIN s] = iter[DOMAIN s]
  <2> HIDE DEF iter
  <2> QED  BY <1>0, <1>7, <1>8, FoldUnique
<1> QED  BY <1>6, <1>9

(* A chain leads from a set only where one of its blocks does.              *)
LEMMA ChainWithin ==
    ASSUME NEW T, NEW E, \A t \in T, b \in E : apply_event_projections(t, b) \in T,
           NEW base \in T, NEW s \in Seq(E)
    PROVE  \E it \in [SUBSET DOMAIN s -> T] : Leads(it, base, s)
<1> DEFINE step == [x \in T \X E |-> apply_event_projections(x[1], x[2])]
           iter == CHOOSE it : ChainSteps(it, base, s)
<1>0. DOMAIN s = 1..Len(s) /\ Len(s) \in Nat  OBVIOUS
<1>1. step \in [T \X E -> T]  OBVIOUS
<1>2. PICK f \in [SUBSET DOMAIN s -> T] : Folds(f, step, base, s, SUBSET DOMAIN s)
  <2> HIDE DEF step
  <2> QED  BY <1>1, FoldExists
<1>3. ASSUME NEW u \in SUBSET DOMAIN s, u # {}
      PROVE  /\ u \ {Max(u)} \in SUBSET DOMAIN s /\ s[Max(u)] \in E
             /\ f[u] = apply_event_projections(f[u \ {Max(u)}], s[Max(u)])
  <2>1. Max(u) \in u  BY <1>0, <1>3, LargestIndex
  <2>2. s[Max(u)] \in E  BY <2>1
  <2>3. f[u] = step[<<f[u \ {Max(u)}], s[Max(u)]>>]  BY <1>2, <1>3 DEF Folds
  <2> QED  BY <2>2, <2>3
<1>4. ChainSteps(f, base, s)
  <2>1. \A u \in SUBSET DOMAIN s :
            f[u] = IF u = {} THEN base
                   ELSE apply_event_projections(f[u \ {Max(u)}], s[Max(u)])
        BY <1>2, <1>3 DEF Folds
  <2> QED  BY <2>1 DEF ChainSteps
<1>5. ChainSteps(iter, base, s)  BY <1>4
<1>6. After(base, s) = iter[DOMAIN s]
      BY DEF After, FoldLeft, MapThenFoldSet, ChainSteps
<1>7. iter[{}] = base /\ f[{}] = base  BY <1>4, <1>5 DEF ChainSteps
<1>8. \A u \in SUBSET (1..Len(s)) :
          u # {} /\ f[u \ {Max(u)}] = iter[u \ {Max(u)}] => f[u] = iter[u]
  <2> HIDE DEF iter
  <2> QED  BY <1>0, <1>4, <1>5 DEF ChainSteps
<1>9. f[DOMAIN s] = iter[DOMAIN s]
  <2> HIDE DEF iter
  <2> QED  BY <1>0, <1>7, <1>8, FoldUnique
<1> QED  BY <1>4, <1>6, <1>9 DEF Leads

(* The largest index, and the others.                                       *)
LEMMA LastIndex ==
    ASSUME NEW n \in Nat
    PROVE  /\ 1..(n + 1) # {}
           /\ Max(1..(n + 1)) = n + 1
           /\ (1..(n + 1)) \ {n + 1} = 1..n
<1> DEFINE u == 1..(n + 1)
<1>1. n + 1 \in Nat /\ n + 1 \in u /\ u \in SUBSET (1..(n + 1))  OBVIOUS
<1>2. u # {}  BY <1>1
<1>3. Max(u) \in u /\ \A i \in u : i <= Max(u)
  <2> HIDE DEF u
  <2> QED  BY <1>1, <1>2, LargestIndex
<1>4. Max(u) = n + 1
  <2> DEFINE m == Max(u)
  <2>1. m \in 1..(n + 1) /\ n + 1 <= m  BY <1>1, <1>3
  <2> HIDE DEF m
  <2>2. m = n + 1  BY <2>1
  <2> QED  BY <2>2 DEF m
<1>5. u \ {n + 1} = 1..n  OBVIOUS
<1> QED  BY <1>2, <1>4, <1>5

(* What a longer recursion has done when the shorter one ends.              *)
LEMMA StepsAppended ==
    ASSUME NEW n \in Nat, NEW base, NEW f, NEW g, NEW s, NEW r,
           DOMAIN s = 1..n, DOMAIN r = 1..(n + 1), \A i \in 1..n : r[i] = s[i],
           ChainSteps(f, base, s), ChainSteps(g, base, r)
    PROVE  g[1..(n + 1)] = apply_event_projections(f[1..n], r[n + 1])
<1>1. f[{}] = g[{}]  BY DEF ChainSteps
<1>2. ASSUME NEW u \in SUBSET (1..n), u # {}, f[u \ {Max(u)}] = g[u \ {Max(u)}]
      PROVE  f[u] = g[u]
  <2>1. Max(u) \in u  BY <1>2, LargestIndex
  <2>2. u \in SUBSET DOMAIN s /\ u \in SUBSET DOMAIN r  OBVIOUS
  <2>3. s[Max(u)] = r[Max(u)]  BY <2>1
  <2>4. f[u] = apply_event_projections(f[u \ {Max(u)}], s[Max(u)])
        BY <1>2, <2>2 DEF ChainSteps
  <2>5. g[u] = apply_event_projections(g[u \ {Max(u)}], r[Max(u)])
        BY <1>2, <2>2 DEF ChainSteps
  <2> QED  BY <1>2, <2>3, <2>4, <2>5
<1>3. f[1..n] = g[1..n]  BY <1>1, <1>2, FoldUnique
<1>4. 1..(n + 1) \in SUBSET DOMAIN r  OBVIOUS
<1>5. g[1..(n + 1)] = apply_event_projections(g[(1..(n + 1)) \ {n + 1}], r[n + 1])
      BY <1>4, LastIndex DEF ChainSteps
<1> QED  BY <1>3, <1>5, LastIndex

(* One more block is applied to what the others have left.                  *)
LEMMA ChainAppended ==
    ASSUME NEW T, NEW E, \A t \in T, e \in E : apply_event_projections(t, e) \in T,
           NEW base \in T, NEW s \in Seq(E), NEW b \in E
    PROVE  After(base, Append(s, b)) = apply_event_projections(After(base, s), b)
<1> DEFINE r == Append(s, b)
           n == Len(s)
<1>1. r \in Seq(E)  OBVIOUS
<1>2. n \in Nat /\ DOMAIN s = 1..n  OBVIOUS
<1>3. DOMAIN r = 1..(n + 1) /\ r[n + 1] = b /\ \A i \in 1..n : r[i] = s[i]
      BY AppendProperties
<1> HIDE DEF r, n
<1>4. PICK f \in [SUBSET DOMAIN s -> T] : Leads(f, base, s)  BY ChainWithin, Zenon
<1>5. PICK g \in [SUBSET DOMAIN r -> T] : Leads(g, base, r)  BY <1>1, ChainWithin, Zenon
<1>6. ChainSteps(f, base, s) /\ ChainSteps(g, base, r)  BY <1>4, <1>5 DEF Leads
<1>7. g[1..(n + 1)] = apply_event_projections(f[1..n], r[n + 1])
      BY <1>2, <1>3, <1>6, StepsAppended
<1>8. After(base, s) = f[1..n] /\ After(base, r) = g[1..(n + 1)]
      BY <1>2, <1>3, <1>4, <1>5 DEF Leads
<1>9. After(base, r) = apply_event_projections(After(base, s), b)
      BY <1>3, <1>7, <1>8, Zenon
<1> QED  BY <1>9 DEF r

-----------------------------------------------------------------------------
(* Rows and tables.                                                         *)

CitizenRow ==
    {NoCitizen} \cup [name : Name, status : Status, role : Role, passport_issued : BOOLEAN]
PassportRow ==
    {NoPassport} \cup [citizen : Citizen, is_valid : BOOLEAN, issued_at : 0..MaxTime]

Tables == [citizens : [Citizen -> CitizenRow], passports : [Passport -> PassportRow],
           ok : BOOLEAN]

\* The rows that are not among these are the same in both.
Same(t, u, rows) ==
    /\ \A c \in Citizen : <<"citizen", c>> \notin rows => u.citizens[c] = t.citizens[c]
    /\ \A p \in Passport : <<"passport", p>> \notin rows => u.passports[p] = t.passports[p]

\* No citizen is lost, and the rows are of their types.
Kept(t, u) == u \in Tables /\ \A c \in Citizen : Known(t, c) => Known(u, c)

(* The rows as records.                                                     *)
LEMMA CitizenRows ==
    ASSUME NEW row \in CitizenRow
    PROVE  /\ [row EXCEPT !.passport_issued = FALSE] \in CitizenRow
           /\ row # NoCitizen => [row EXCEPT !.passport_issued = FALSE] # NoCitizen
           /\ ~[row EXCEPT !.passport_issued = FALSE].passport_issued
           /\ row # NoCitizen =>
                 /\ \A name \in Name : [row EXCEPT !.name = name, !.role = "Citizen"]
                                          \in CitizenRow \ {NoCitizen}
                 /\ \A s \in Status : [row EXCEPT !.status = s] \in CitizenRow \ {NoCitizen}
                 /\ \A r \in Role : [row EXCEPT !.role = r] \in CitizenRow \ {NoCitizen}
                 /\ [row EXCEPT !.passport_issued = TRUE, !.status = "active"]
                        \in CitizenRow \ {NoCitizen}
<1>1. CASE row = NoCitizen
  <2>1. row \in [name : {"none"}, status : {"none"}, role : {"none"}, passport_issued : {FALSE}]
        BY <1>1 DEF NoCitizen
  <2>2. [row EXCEPT !.passport_issued = FALSE] = row /\ ~row.passport_issued  BY <2>1
  <2> QED  BY <1>1, <2>2
<1>2. CASE row # NoCitizen
  <2> DEFINE Rest == [name : Name, status : Status, role : Role, passport_issued : BOOLEAN]
  <2>1. Rest \subseteq CitizenRow \ {NoCitizen}  BY DEF CitizenRow, NoCitizen, Status
  <2>2. row \in Rest  BY <1>2 DEF CitizenRow
  <2>3. /\ [row EXCEPT !.passport_issued = FALSE] \in Rest
        /\ ~[row EXCEPT !.passport_issued = FALSE].passport_issued
        BY <2>2
  <2>4. \A name \in Name : [row EXCEPT !.name = name, !.role = "Citizen"] \in Rest
        BY <2>2 DEF Role
  <2>5. \A s \in Status : [row EXCEPT !.status = s] \in Rest  BY <2>2
  <2>6. \A r \in Role : [row EXCEPT !.role = r] \in Rest  BY <2>2
  <2>7. [row EXCEPT !.passport_issued = TRUE, !.status = "active"] \in Rest
        BY <2>2 DEF Status
  <2> HIDE DEF Rest
  <2> QED  BY <2>1, <2>3, <2>4, <2>5, <2>6, <2>7
<1> QED  BY <1>1, <1>2

LEMMA PassportRows ==
    ASSUME NEW row \in PassportRow
    PROVE  /\ [row EXCEPT !.is_valid = FALSE] \in PassportRow
           /\ row # NoPassport <=> [row EXCEPT !.is_valid = FALSE] # NoPassport
           /\ [row EXCEPT !.is_valid = FALSE].citizen = row.citizen
           /\ ~[row EXCEPT !.is_valid = FALSE].is_valid
           /\ ~row.is_valid => [row EXCEPT !.is_valid = FALSE] = row
           /\ row.is_valid => row # NoPassport
           /\ row # NoPassport => /\ row.citizen \in Citizen
                                  /\ [row EXCEPT !.is_valid = TRUE] \in PassportRow \ {NoPassport}
                                  /\ [row EXCEPT !.is_valid = TRUE].is_valid
                                  /\ [row EXCEPT !.is_valid = TRUE].citizen = row.citizen
<1>1. CASE row = NoPassport
  <2>1. row \in [citizen : {0}, is_valid : {FALSE}, issued_at : {0}]
        BY <1>1 DEF NoPassport
  <2>2. [row EXCEPT !.is_valid = FALSE] = row /\ ~row.is_valid  BY <2>1
  <2> QED  BY <1>1, <2>2
<1>2. CASE row # NoPassport
  <2> DEFINE Rest == [citizen : Citizen, is_valid : BOOLEAN, issued_at : 0..MaxTime]
  <2>1. Rest \subseteq PassportRow \ {NoPassport}
        BY CitizensAssumption DEF PassportRow, NoPassport
  <2>2. row \in Rest  BY <1>2 DEF PassportRow
  <2>3. /\ [row EXCEPT !.is_valid = FALSE] \in Rest
        /\ ~[row EXCEPT !.is_valid = FALSE].is_valid
        /\ [row EXCEPT !.is_valid = FALSE].citizen = row.citizen
        /\ ~row.is_valid => [row EXCEPT !.is_valid = FALSE] = row
        BY <2>2
  <2>4. /\ [row EXCEPT !.is_valid = TRUE] \in Rest
        /\ [row EXCEPT !.is_valid = TRUE].is_valid
        /\ [row EXCEPT !.is_valid = TRUE].citizen = row.citizen
        BY <2>2
  <2>5. row.citizen \in Citizen  BY <2>2
  <2> HIDE DEF Rest
  <2> QED  BY <1>2, <2>1, <2>3, <2>4, <2>5
<1> QED  BY <1>1, <1>2

LEMMA NewRows ==
    /\ NoCitizen \in CitizenRow /\ NoPassport \in PassportRow
    /\ ~NoCitizen.passport_issued /\ ~NoPassport.is_valid
    /\ \A name \in Name : [name |-> name, status |-> "pending", role |-> "Citizen",
                           passport_issued |-> FALSE] \in CitizenRow \ {NoCitizen}
    /\ \A c \in Citizen, time \in 0..MaxTime :
          [citizen |-> c, is_valid |-> TRUE, issued_at |-> time] \in PassportRow \ {NoPassport}
BY CitizensAssumption DEF CitizenRow, PassportRow, NoCitizen, NoPassport, Status, Role

\* A table with one row written.
WritesCitizen(t, c, row, u) == u = [t EXCEPT !.citizens[c] = row]
WritesPassport(t, p, row, u) == u = [t EXCEPT !.passports[p] = row]

LEMMA CitizenWritten ==
    ASSUME NEW t \in Tables, NEW c \in Citizen, NEW row \in CitizenRow,
           Known(t, c) => row # NoCitizen,
           NEW u, WritesCitizen(t, c, row, u)
    PROVE  /\ u \in Tables /\ u.passports = t.passports /\ u.ok = t.ok
           /\ u.citizens[c] = row
           /\ \A d \in Citizen \ {c} : u.citizens[d] = t.citizens[d]
           /\ \A d \in Citizen : Known(t, d) => Known(u, d)
<1>1. t.citizens \in [Citizen -> CitizenRow]  BY DEF Tables
<1>2. u = [t EXCEPT !.citizens = [t.citizens EXCEPT ![c] = row]]  BY DEF WritesCitizen
<1>3. [t.citizens EXCEPT ![c] = row] \in [Citizen -> CitizenRow]  BY <1>1
<1>4. u \in Tables /\ u.citizens = [t.citizens EXCEPT ![c] = row]
      /\ u.passports = t.passports /\ u.ok = t.ok
      BY <1>2, <1>3 DEF Tables
<1> QED  BY <1>1, <1>4 DEF Known

LEMMA PassportWritten ==
    ASSUME NEW t \in Tables, NEW p \in Passport, NEW row \in PassportRow,
           NEW u, WritesPassport(t, p, row, u)
    PROVE  /\ u \in Tables /\ u.citizens = t.citizens /\ u.ok = t.ok
           /\ u.passports[p] = row
           /\ \A q \in Passport \ {p} : u.passports[q] = t.passports[q]
<1>1. t.passports \in [Passport -> PassportRow]  BY DEF Tables
<1>2. u = [t EXCEPT !.passports = [t.passports EXCEPT ![p] = row]]  BY DEF WritesPassport
<1>3. [t.passports EXCEPT ![p] = row] \in [Passport -> PassportRow]  BY <1>1
<1>4. u \in Tables /\ u.passports = [t.passports EXCEPT ![p] = row]
      /\ u.citizens = t.citizens /\ u.ok = t.ok
      BY <1>2, <1>3 DEF Tables
<1> QED  BY <1>1, <1>4

(* What every statement does to the rows.                                   *)
LEMMA UpsertedRows ==
    ASSUME NEW t \in Tables, NEW e \in Event, e.kind = "CitizenAdded", e.citizen \in Citizen,
           NEW u, u = Upserted(t, e)
    PROVE  /\ Kept(t, u) /\ u.passports = t.passports /\ u.ok = t.ok
           /\ \A d \in Citizen \ {e.citizen} : u.citizens[d] = t.citizens[d]
           /\ \A d \in Citizen : u.citizens[d].passport_issued => t.citizens[d].passport_issued
<1> DEFINE c == e.citizen
           old == t.citizens[c]
           row == IF old = NoCitizen
                  THEN [name |-> e.value, status |-> "pending", role |-> "Citizen",
                        passport_issued |-> FALSE]
                  ELSE [old EXCEPT !.name = e.value, !.role = "Citizen"]
<1>1. e.value \in Name /\ old \in CitizenRow  BY DEF Event, Tables
<1>2. WritesCitizen(t, c, row, u)  BY DEF Upserted, WritesCitizen
<1>3. row \in CitizenRow \ {NoCitizen}  BY <1>1, CitizenRows, NewRows
<1>4. row.passport_issued => old.passport_issued
      BY <1>1 DEF CitizenRow, NoCitizen
<1> HIDE DEF row
<1> QED  BY <1>2, <1>3, <1>4, CitizenWritten DEF Kept

LEMMA UnmarkedRows ==
    ASSUME NEW t \in Tables, NEW c \in Citizen, NEW u, u = Unmarked(t, c)
    PROVE  /\ Kept(t, u) /\ u.passports = t.passports /\ u.ok = t.ok
           /\ ~u.citizens[c].passport_issued
           /\ \A d \in Citizen \ {c} : u.citizens[d] = t.citizens[d]
<1> DEFINE row == [t.citizens[c] EXCEPT !.passport_issued = FALSE]
<1>1. t.citizens[c] \in CitizenRow  BY DEF Tables
<1>2. row \in CitizenRow /\ (Known(t, c) => row # NoCitizen) /\ ~row.passport_issued
      BY <1>1, CitizenRows DEF Known
<1>3. WritesCitizen(t, c, row, u)  BY DEF Unmarked, WritesCitizen
<1> HIDE DEF row
<1> QED  BY <1>2, <1>3, CitizenWritten DEF Kept

LEMMA RevokedRows ==
    ASSUME NEW t \in Tables, NEW e \in Event, e.kind = "PassportRevoked",
           NEW u, u = apply_passport_revoked(t, e)
    PROVE  /\ Kept(t, u) /\ u.ok = t.ok
           /\ ~u.citizens[e.citizen].passport_issued
           /\ \A d \in Citizen \ {e.citizen} : u.citizens[d] = t.citizens[d]
           /\ ~u.passports[e.passport].is_valid
           /\ ~t.passports[e.passport].is_valid => u.passports = t.passports
           /\ \A q \in Passport : /\ u.passports[q].citizen = t.passports[q].citizen
                                  /\ Issued(u, q) <=> Issued(t, q)
           /\ \A q \in Passport \ {e.passport} : u.passports[q] = t.passports[q]
<1> DEFINE p == e.passport
           row == [t.passports[p] EXCEPT !.is_valid = FALSE]
           v == [t EXCEPT !.passports[p] = row]
<1>1. p \in Passport /\ e.citizen \in Citizen  BY DEF Event
<1>2. t.passports[p] \in PassportRow /\ t.passports \in [Passport -> PassportRow]
      BY <1>1 DEF Tables
<1>3. /\ row \in PassportRow /\ ~row.is_valid /\ row.citizen = t.passports[p].citizen
      /\ row # NoPassport <=> Issued(t, p)
      /\ ~t.passports[p].is_valid => row = t.passports[p]
      BY <1>2, PassportRows DEF Issued
<1>4. u = Unmarked(v, e.citizen)  BY DEF apply_passport_revoked
<1> HIDE DEF row
<1>9. WritesPassport(t, p, row, v)  BY DEF WritesPassport
<1> HIDE DEF v
<1>5. /\ v \in Tables /\ v.citizens = t.citizens /\ v.ok = t.ok
      /\ v.passports[p] = row
      /\ \A q \in Passport \ {p} : v.passports[q] = t.passports[q]
      BY <1>1, <1>3, <1>9, PassportWritten
<1>6. /\ Kept(v, u) /\ u.passports = v.passports /\ u.ok = v.ok
      /\ ~u.citizens[e.citizen].passport_issued
      /\ \A d \in Citizen \ {e.citizen} : u.citizens[d] = v.citizens[d]
      BY <1>1, <1>4, <1>5, UnmarkedRows
<1>7. Kept(t, u)  BY <1>5, <1>6 DEF Kept, Known
<1>8. ASSUME ~t.passports[p].is_valid PROVE u.passports = t.passports
  <2>1. \A q \in Passport : v.passports[q] = t.passports[q]  BY <1>3, <1>5, <1>8
  <2>2. v.passports \in [Passport -> PassportRow]  BY <1>5 DEF Tables
  <2>3. v.passports = t.passports  BY <1>2, <2>1, <2>2
  <2> QED  BY <1>6, <2>3
<1>10. \A q \in Passport : /\ u.passports[q].citizen = t.passports[q].citizen
                           /\ Issued(u, q) <=> Issued(t, q)
      BY <1>3, <1>5, <1>6 DEF Issued
<1> QED  BY <1>3, <1>5, <1>6, <1>7, <1>8, <1>10

LEMMA IssuedRows ==
    ASSUME NEW t \in Tables, NEW e \in Event, e.kind = "PassportIssued",
           e.value # "malformed", Issued(t, e.passport) \/ Known(t, e.citizen),
           NEW u, u = apply_passport_issued(t, e)
    PROVE  /\ Kept(t, u) /\ u.ok = t.ok
           /\ Known(t, e.citizen) <=> Known(u, e.citizen)
           /\ ~Known(t, e.citizen) => u.citizens = t.citizens
           /\ \A d \in Citizen \ {e.citizen} : u.citizens[d] = t.citizens[d]
           /\ u.passports[e.passport].is_valid /\ Issued(u, e.passport)
           /\ u.passports[e.passport].citizen = IF Issued(t, e.passport)
                                                THEN t.passports[e.passport].citizen
                                                ELSE e.citizen
           /\ \A q \in Passport \ {e.passport} : u.passports[q] = t.passports[q]
<1> DEFINE p == e.passport
           c == e.citizen
           new == IF t.passports[p] = NoPassport
                  THEN [citizen |-> c, is_valid |-> TRUE, issued_at |-> e.time]
                  ELSE [t.passports[p] EXCEPT !.is_valid = TRUE]
           row == IF t.citizens[c] = NoCitizen THEN t.citizens[c]
                  ELSE [t.citizens[c] EXCEPT !.passport_issued = TRUE, !.status = "active"]
           v == [t EXCEPT !.passports[p] = new]
<1>1. p \in Passport /\ c \in Citizen /\ e.time \in 0..MaxTime  BY DEF Event
<1>2. t.passports[p] \in PassportRow /\ t.citizens[c] \in CitizenRow
      /\ t.citizens \in [Citizen -> CitizenRow]
      BY <1>1 DEF Tables
<1>3. /\ new \in PassportRow \ {NoPassport} /\ new.is_valid
      /\ new.citizen = IF Issued(t, p) THEN t.passports[p].citizen ELSE c
      BY <1>1, <1>2, PassportRows, NewRows DEF Issued
<1>4. row \in CitizenRow /\ (row # NoCitizen <=> Known(t, c)) /\ (~Known(t, c) => row = t.citizens[c])
      BY <1>2, CitizenRows DEF Known
<1>5. WritesCitizen(v, c, row, u) /\ WritesPassport(t, p, new, v)
  <2>1. u = [t EXCEPT !.passports[p] = new, !.citizens[c] = row]
        BY DEF apply_passport_issued
  <2> HIDE DEF new, row
  <2> QED  BY <2>1 DEF Tables, WritesCitizen, WritesPassport
<1> HIDE DEF new, row, v
<1>6. /\ v \in Tables /\ v.citizens = t.citizens /\ v.ok = t.ok
      /\ v.passports[p] = new
      /\ \A q \in Passport \ {p} : v.passports[q] = t.passports[q]
      BY <1>1, <1>3, <1>5, PassportWritten
<1>7. Known(v, c) => row # NoCitizen  BY <1>4, <1>6 DEF Known
<1>8. /\ u \in Tables /\ u.passports = v.passports /\ u.ok = v.ok
      /\ u.citizens[c] = row
      /\ \A d \in Citizen \ {c} : u.citizens[d] = v.citizens[d]
      /\ \A d \in Citizen : Known(v, d) => Known(u, d)
      BY <1>1, <1>4, <1>5, <1>6, <1>7, CitizenWritten
<1>9. Kept(t, u)  BY <1>6, <1>8 DEF Kept, Known
<1>10. Known(t, c) <=> Known(u, c)  BY <1>4, <1>8 DEF Known
<1>11. ASSUME ~Known(t, c) PROVE u.citizens = t.citizens
  <2>1. \A d \in Citizen : u.citizens[d] = t.citizens[d]  BY <1>4, <1>6, <1>8, <1>11
  <2>2. u.citizens \in [Citizen -> CitizenRow]  BY <1>8 DEF Tables
  <2> QED  BY <1>2, <2>1, <2>2
<1> QED  BY <1>3, <1>6, <1>8, <1>9, <1>10, <1>11 DEF Issued

LEMMA UpdatedRows ==
    ASSUME NEW t \in Tables, NEW e \in Event, e.kind \in {"CitizenStatus", "CitizenUpdated"},
           NEW u, u = apply_citizen_updated(t, e)
    PROVE  /\ Kept(t, u) /\ u.passports = t.passports /\ u.ok = t.ok
           /\ \A d \in Citizen : u.citizens[d].passport_issued = t.citizens[d].passport_issued
           /\ \A d \in Citizen \ {e.citizen} : u.citizens[d] = t.citizens[d]
<1> DEFINE c == e.citizen
           row == IF e.kind = "CitizenStatus" THEN [t.citizens[c] EXCEPT !.status = e.value]
                  ELSE [t.citizens[c] EXCEPT !.role = e.value]
<1>1. c \in Citizen  BY DEF Event
<1>2. CASE ~Known(t, c)  BY <1>2 DEF apply_citizen_updated, Kept
<1>3. CASE Known(t, c)
  <2>1. t.citizens[c] \in CitizenRow /\ t.citizens[c] # NoCitizen
        BY <1>1, <1>3 DEF Tables, Known
  <2>2. /\ e.kind = "CitizenStatus" => e.value \in Status
        /\ e.kind = "CitizenUpdated" => e.value \in Role
        BY DEF Event
  <2>3. row \in CitizenRow /\ row # NoCitizen  BY <2>1, <2>2, CitizenRows
  <2>4. row.passport_issued = t.citizens[c].passport_issued  BY <2>1 DEF CitizenRow
  <2>5. WritesCitizen(t, c, row, u)  BY <1>3 DEF apply_citizen_updated, WritesCitizen
  <2> HIDE DEF row
  <2> QED  BY <1>1, <2>3, <2>4, <2>5, CitizenWritten DEF Kept
<1> QED  BY <1>2, <1>3

-----------------------------------------------------------------------------
(* Events.  Of the passports in pairs each comes with the citizen that it   *)
(* may be issued to; only those in reissued have several issuing events.    *)

Genuine(pairs, reissued) ==
    {e \in Event :
        /\ e.kind \in {"PassportIssued", "PassportRevoked"} => <<e.passport, e.citizen>> \in pairs
        /\ e.kind = "PassportIssued" /\ e.passport \notin reissued => e.id = <<4, e.passport, 0>>}

\* Only rows of citizens are written, and nobody is marked.
Plain(t, u) ==
    /\ Kept(t, u) /\ u.passports = t.passports
    /\ \A c \in Citizen : u.citizens[c].passport_issued => t.citizens[c].passport_issued

LEMMA FailedRows ==
    ASSUME NEW t \in Tables
    PROVE  Plain(t, Failed(t)) /\ Failed(t).citizens = t.citizens /\ ~Failed(t).ok
BY DEF Tables, Failed, Plain, Kept, Known

(* What an event does, alone or after it has waited.                        *)
LEMMA AppliedCases ==
    ASSUME NEW t \in Tables, NEW e \in Event, NEW held,
           NEW u, u = Apply(t, e) \/ u = Missed(t, e, held)
    PROVE  \/ Plain(t, u)
           \/ /\ e.kind = "PassportIssued" /\ e.value # "malformed"
              /\ Issued(t, e.passport) \/ Known(t, e.citizen)
              /\ u = apply_passport_issued(t, e)
           \/ e.kind = "PassportRevoked" /\ u = apply_passport_revoked(t, e)
<1>1. Plain(t, t)  BY DEF Plain, Kept
<1>2. Plain(t, Failed(t))  BY FailedRows
<1>3. CASE e.kind = "CitizenAdded"
  <2>1. u \in {t, Failed(t), Upserted(t, e)}
        BY <1>3 DEF Apply, Missed, apply_citizen_added
  <2>2. ASSUME e.citizen \notin Citizen PROVE Upserted(t, e) = t
    <3>1. t.citizens \in [Citizen -> CitizenRow]  BY DEF Tables
    <3>2. \A x : [t.citizens EXCEPT ![e.citizen] = x] = t.citizens  BY <2>2, <3>1
    <3>3. [t EXCEPT !.citizens = t.citizens] = t  BY DEF Tables
    <3> QED  BY <3>2, <3>3 DEF Upserted
  <2>3. Plain(t, Upserted(t, e))  BY <1>1, <1>3, <2>2, UpsertedRows DEF Plain
  <2> QED  BY <1>1, <1>2, <2>1, <2>3
<1>4. CASE e.kind = "PassportIssued"
  <2>1. u \in {t, Failed(t), apply_passport_issued(t, e)}
        BY <1>4 DEF Apply, Missed
  <2>2. CASE e.value = "malformed" \/ (~Issued(t, e.passport) /\ ~Known(t, e.citizen))
        BY <1>1, <1>2, <2>1, <2>2 DEF apply_passport_issued
  <2> QED  BY <1>1, <1>2, <1>4, <2>1, <2>2
<1>5. CASE e.kind = "PassportRevoked"
  <2>1. u \in {t, apply_passport_revoked(t, e), Unmarked(t, e.citizen)}
        BY <1>5 DEF Apply, Missed
  <2>2. e.citizen \in Citizen  BY <1>5 DEF Event
  <2>3. Plain(t, Unmarked(t, e.citizen))  BY <2>2, UnmarkedRows DEF Plain
  <2> QED  BY <1>1, <1>5, <2>1, <2>3
<1>6. CASE e.kind \in {"CitizenStatus", "CitizenUpdated"}
  <2>1. u \in {t, apply_citizen_updated(t, e)}  BY <1>6 DEF Apply, Missed
  <2>2. Plain(t, apply_citizen_updated(t, e))  BY <1>6, UpdatedRows DEF Plain
  <2> QED  BY <1>1, <2>1, <2>2
<1> QED  BY <1>3, <1>4, <1>5, <1>6 DEF Event, Kind

LEMMA AppliedKept ==
    ASSUME NEW t \in Tables, NEW e \in Event, NEW held,
           NEW u, u = Apply(t, e) \/ u = Missed(t, e, held)
    PROVE  Kept(t, u)
<1>1. CASE Plain(t, u)  BY <1>1 DEF Plain
<1>2. CASE /\ e.kind = "PassportIssued" /\ e.value # "malformed"
           /\ Issued(t, e.passport) \/ Known(t, e.citizen)
           /\ u = apply_passport_issued(t, e)
      BY <1>2, IssuedRows
<1>3. CASE e.kind = "PassportRevoked" /\ u = apply_passport_revoked(t, e)
      BY <1>3, RevokedRows
<1> QED  BY <1>1, <1>2, <1>3, AppliedCases

(* It writes the rows that it names, and those it locks.                    *)
LEMMA RowsOf ==
    ASSUME NEW e \in Event
    PROVE  /\ e.citizen \in Citizen => <<"citizen", e.citizen>> \in Rows(e)
           /\ \A c : <<"citizen", c>> \in Rows(e) => c = e.citizen
           /\ \A p : <<"passport", p>> \in Rows(e) <=>
                        e.kind \in {"PassportIssued", "PassportRevoked"} /\ p = e.passport
BY DEF Rows, Event, Kind

LEMMA AppliedSame ==
    ASSUME NEW t \in Tables, NEW e \in Event, NEW held,
           NEW u, u = Apply(t, e) \/ u = Missed(t, e, held)
    PROVE  /\ Same(t, u, Rows(e))
           /\ u = Apply(t, e) => Same(t, u, Locks(t, e))
<1> USE RowsOf
<1>1. Same(t, t, Rows(e)) /\ Same(t, t, Locks(t, e))  BY DEF Same
<1>2. Same(t, Failed(t), Rows(e)) /\ Same(t, Failed(t), Locks(t, e))
      BY FailedRows DEF Same, Plain
<1>3. CASE e.kind = "CitizenAdded"
  <2>1. /\ u = Apply(t, e) => \/ u \in {t, Failed(t)}
                              \/ u = Upserted(t, e) /\ e.citizen # 0 /\ ~NameTaken(t, e.value)
        /\ u \in {t, Failed(t), Upserted(t, e)}
        BY <1>3 DEF Apply, Missed, apply_citizen_added
  <2>2. ASSUME u = Upserted(t, e) PROVE Same(t, u, Rows(e))
    <3>1. CASE e.citizen \in Citizen
          BY <1>3, <2>2, <3>1, UpsertedRows DEF Same
    <3>2. CASE e.citizen \notin Citizen
      <4>1. t.citizens \in [Citizen -> CitizenRow]  BY DEF Tables
      <4>2. \A x : [t.citizens EXCEPT ![e.citizen] = x] = t.citizens  BY <3>2, <4>1
      <4>3. [t EXCEPT !.citizens = t.citizens] = t  BY DEF Tables
      <4>4. Upserted(t, e) = t  BY <4>2, <4>3 DEF Upserted
      <4> QED  BY <1>1, <2>2, <4>4
    <3> QED  BY <3>1, <3>2
  <2> QED  BY <1>1, <1>2, <2>1, <2>2 DEF Locks
<1>4. CASE e.kind = "PassportIssued"
  <2>1. u \in {t, Failed(t), apply_passport_issued(t, e)} /\ Locks(t, e) = Rows(e)
        BY <1>4 DEF Apply, Missed, Locks
  <2>2. CASE e.value = "malformed" \/ (~Issued(t, e.passport) /\ ~Known(t, e.citizen))
        BY <1>1, <1>2, <2>1, <2>2 DEF apply_passport_issued
  <2>3. CASE /\ e.value # "malformed" /\ (Issued(t, e.passport) \/ Known(t, e.citizen))
             /\ u = apply_passport_issued(t, e)
    <3>1. /\ \A d \in Citizen \ {e.citizen} : u.citizens[d] = t.citizens[d]
          /\ \A q \in Passport \ {e.passport} : u.passports[q] = t.passports[q]
          BY <1>4, <2>3, IssuedRows
    <3>2. e.citizen \in Citizen  BY <1>4 DEF Event
    <3>3. <<"citizen", e.citizen>> \in Rows(e) /\ <<"passport", e.passport>> \in Rows(e)
          BY <1>4, <3>2
    <3> QED  BY <2>1, <3>1, <3>3 DEF Same
  <2> QED  BY <1>1, <1>2, <2>1, <2>2, <2>3
<1>5. CASE e.kind = "PassportRevoked"
  <2>1. u \in {t, apply_passport_revoked(t, e), Unmarked(t, e.citizen)} /\ Locks(t, e) = Rows(e)
        BY <1>5 DEF Apply, Missed, Locks
  <2>2. e.citizen \in Citizen  BY <1>5 DEF Event
  <2>3. CASE u = Unmarked(t, e.citizen)  BY <2>1, <2>2, <2>3, UnmarkedRows DEF Same
  <2>4. CASE u = apply_passport_revoked(t, e)
    <3>1. /\ \A d \in Citizen \ {e.citizen} : u.citizens[d] = t.citizens[d]
          /\ \A q \in Passport \ {e.passport} : u.passports[q] = t.passports[q]
          BY <1>5, <2>4, RevokedRows
    <3> QED  BY <1>5, <2>1, <2>2, <3>1 DEF Same
  <2> QED  BY <1>1, <2>1, <2>3, <2>4
<1>6. CASE e.kind \in {"CitizenStatus", "CitizenUpdated"}
  <2>1. u \in {t, apply_citizen_updated(t, e)} /\ Locks(t, e) = Rows(e)
        BY <1>6 DEF Apply, Missed, Locks
  <2>2. CASE u = apply_citizen_updated(t, e)
    <3>1. u.passports = t.passports /\ \A d \in Citizen \ {e.citizen} : u.citizens[d] = t.citizens[d]
          BY <1>6, <2>2, UpdatedRows
    <3>2. e.citizen \in Citizen  BY <1>6 DEF Event
    <3> QED  BY <2>1, <3>1, <3>2 DEF Same
  <2> QED  BY <1>1, <2>1, <2>2
<1> QED  BY <1>3, <1>4, <1>5, <1>6 DEF Event, Kind

\* Every passport has come with the citizen it may be issued to.
Rightful(pairs) ==
    {t \in Tables : \A p \in Passport : Issued(t, p) => <<p, t.passports[p].citizen>> \in pairs}

HasPassport(t, c) ==
    \E p \in Passport : t.passports[p].is_valid /\ t.passports[p].citizen = c

\* Every passport refers to a citizen that is there, and every mark is backed.
Backed(pairs) ==
    {t \in Rightful(pairs) :
        /\ \A p \in Passport : Issued(t, p) => Known(t, t.passports[p].citizen)
        /\ \A c \in Citizen : t.citizens[c].passport_issued => HasPassport(t, c)}

\* A passport comes with one citizen.
OneEach(pairs) == \A x, y \in pairs : x[1] = y[1] => x[2] = y[2]

LEMMA AppliedRightful ==
    ASSUME NEW pairs, NEW reissued, NEW t \in Rightful(pairs), NEW e \in Genuine(pairs, reissued),
           NEW held, NEW u, u = Apply(t, e) \/ u = Missed(t, e, held)
    PROVE  u \in Rightful(pairs)
<1>0. t \in Tables /\ e \in Event  BY DEF Rightful, Genuine
<1>1. u \in Tables  BY <1>0, AppliedKept DEF Kept
<1> SUFFICES ASSUME NEW q \in Passport, Issued(u, q) PROVE <<q, u.passports[q].citizen>> \in pairs
    BY <1>1 DEF Rightful
<1>2. Issued(t, q) => <<q, t.passports[q].citizen>> \in pairs  BY DEF Rightful
<1>3. CASE Plain(t, u)  BY <1>2, <1>3 DEF Plain, Issued
<1>4. CASE /\ e.kind = "PassportIssued" /\ e.value # "malformed"
           /\ Issued(t, e.passport) \/ Known(t, e.citizen)
           /\ u = apply_passport_issued(t, e)
  <2>1. /\ u.passports[e.passport].citizen = IF Issued(t, e.passport)
                                             THEN t.passports[e.passport].citizen ELSE e.citizen
        /\ \A r \in Passport \ {e.passport} : u.passports[r] = t.passports[r]
        BY <1>0, <1>4, IssuedRows
  <2>2. <<e.passport, e.citizen>> \in pairs  BY <1>4 DEF Genuine
  <2> QED  BY <1>2, <2>1, <2>2 DEF Issued
<1>5. CASE e.kind = "PassportRevoked" /\ u = apply_passport_revoked(t, e)
  <2>1. u.passports[q].citizen = t.passports[q].citizen /\ (Issued(u, q) <=> Issued(t, q))
        BY <1>0, <1>5, RevokedRows
  <2> QED  BY <1>2, <2>1
<1> QED  BY <1>0, <1>3, <1>4, <1>5, AppliedCases

(* A mark stays backed: no other citizen has the passport of the event.     *)
LEMMA AppliedBacked ==
    ASSUME NEW pairs, NEW reissued, OneEach(pairs), NEW t \in Backed(pairs),
           NEW e \in Genuine(pairs, reissued),
           NEW held, NEW u, u = Apply(t, e) \/ u = Missed(t, e, held)
    PROVE  u \in Backed(pairs)
<1>0. t \in Tables /\ t \in Rightful(pairs) /\ e \in Event  BY DEF Backed, Rightful, Genuine
<1>1. u \in Rightful(pairs) /\ Kept(t, u)  BY <1>0, AppliedRightful, AppliedKept
<1>2. /\ \A q \in Passport : Issued(t, q) => Known(t, t.passports[q].citizen)
      /\ \A c \in Citizen : t.citizens[c].passport_issued => HasPassport(t, c)
      /\ \A q \in Passport : Issued(t, q) => <<q, t.passports[q].citizen>> \in pairs
      BY DEF Backed, Rightful
<1>10. \A q \in Passport : Issued(t, q) => t.passports[q].citizen \in Citizen
      BY <1>0, PassportRows DEF Tables, Issued
<1>11. \A q \in Passport : t.passports[q].is_valid => Issued(t, q)
      BY <1>0, PassportRows DEF Tables, Issued
<1>3. CASE Plain(t, u)
      BY <1>1, <1>2, <1>3, <1>10 DEF Plain, Kept, Backed, HasPassport, Issued
<1>4. CASE /\ e.kind = "PassportIssued" /\ e.value # "malformed"
           /\ Issued(t, e.passport) \/ Known(t, e.citizen)
           /\ u = apply_passport_issued(t, e)
  <2> DEFINE p == e.passport
             c == e.citizen
  <2>1. p \in Passport /\ c \in Citizen /\ <<p, c>> \in pairs
        BY <1>0, <1>4 DEF Genuine, Event
  <2>2. Issued(t, p) => t.passports[p].citizen = c  BY <1>2, <2>1 DEF OneEach
  <2>3. Known(t, c)  BY <1>2, <1>4, <2>1, <2>2
  <2>4. /\ \A d \in Citizen \ {c} : u.citizens[d] = t.citizens[d]
        /\ u.passports[p].is_valid /\ u.passports[p].citizen = c
        /\ \A q \in Passport \ {p} : u.passports[q] = t.passports[q]
        BY <1>0, <1>4, <2>2, IssuedRows
  <2>5. ASSUME NEW q \in Passport, Issued(u, q) PROVE Known(u, u.passports[q].citizen)
    <3>1. CASE q = p  BY <1>1, <2>1, <2>3, <2>4, <3>1 DEF Kept
    <3>2. CASE q # p
      <4>1. Issued(t, q) /\ u.passports[q].citizen = t.passports[q].citizen
            BY <2>4, <2>5, <3>2 DEF Issued
      <4> QED  BY <1>1, <1>2, <1>10, <4>1 DEF Kept
    <3> QED  BY <3>1, <3>2
  <2>6. ASSUME NEW d \in Citizen, u.citizens[d].passport_issued PROVE HasPassport(u, d)
    <3>1. CASE d = c  BY <2>1, <2>4, <3>1 DEF HasPassport
    <3>2. CASE d # c
      <4>1. PICK q \in Passport : t.passports[q].is_valid /\ t.passports[q].citizen = d
            BY <1>2, <2>4, <2>6, <3>2 DEF HasPassport
      <4>2. q # p  BY <1>11, <2>2, <3>2, <4>1
      <4> QED  BY <2>4, <4>1, <4>2 DEF HasPassport
    <3> QED  BY <3>1, <3>2
  <2> QED  BY <1>1, <2>5, <2>6 DEF Backed
<1>5. CASE e.kind = "PassportRevoked" /\ u = apply_passport_revoked(t, e)
  <2> DEFINE p == e.passport
             c == e.citizen
  <2>1. p \in Passport /\ c \in Citizen /\ <<p, c>> \in pairs
        BY <1>0, <1>5 DEF Genuine, Event
  <2>2. Issued(t, p) => t.passports[p].citizen = c  BY <1>2, <2>1 DEF OneEach
  <2>3. /\ ~u.citizens[c].passport_issued
        /\ \A d \in Citizen \ {c} : u.citizens[d] = t.citizens[d]
        /\ \A q \in Passport : /\ u.passports[q].citizen = t.passports[q].citizen
                               /\ Issued(u, q) <=> Issued(t, q)
        /\ \A q \in Passport \ {p} : u.passports[q] = t.passports[q]
        BY <1>0, <1>5, RevokedRows
  <2>4. \A q \in Passport : Issued(u, q) => Known(u, u.passports[q].citizen)
        BY <1>1, <1>2, <1>10, <2>3 DEF Kept
  <2>5. ASSUME NEW d \in Citizen, u.citizens[d].passport_issued PROVE HasPassport(u, d)
    <3>1. d # c  BY <2>3, <2>5
    <3>2. PICK q \in Passport : t.passports[q].is_valid /\ t.passports[q].citizen = d
          BY <1>2, <2>3, <2>5, <3>1 DEF HasPassport
    <3>3. q # p  BY <1>11, <2>2, <3>1, <3>2
    <3> QED  BY <2>3, <3>2, <3>3 DEF HasPassport
  <2> QED  BY <1>1, <2>4, <2>5 DEF Backed
<1> QED  BY <1>0, <1>3, <1>4, <1>5, AppliedCases

(* The empty tables.                                                        *)
LEMMA EmptyRows ==
    /\ Empty \in Tables /\ Empty.ok
    /\ \A c \in Citizen : Empty.citizens[c] = NoCitizen /\ ~Known(Empty, c)
    /\ \A p \in Passport : Empty.passports[p] = NoPassport /\ ~Issued(Empty, p)
<1>1. NoCitizen \in CitizenRow /\ NoPassport \in PassportRow  BY NewRows
<1> QED  BY <1>1 DEF Empty, Tables, Known, Issued

LEMMA EmptyBacked ==
    ASSUME NEW pairs
    PROVE  Empty \in Backed(pairs) /\ Empty \in Rightful(pairs)
BY EmptyRows, NewRows DEF Backed, Rightful

-----------------------------------------------------------------------------
(* The same for blocks and chains.                                          *)

LEMMA BlockRightful ==
    ASSUME NEW pairs, NEW reissued, NEW t \in Rightful(pairs), NEW b \in Seq(Genuine(pairs, reissued))
    PROVE  apply_event_projections(t, b) \in Rightful(pairs)
<1>1. \A u \in Rightful(pairs), e \in Genuine(pairs, reissued) : Apply(u, e) \in Rightful(pairs)
      BY AppliedRightful
<1> QED  BY <1>1, BlockWithin, Zenon

LEMMA BlockBacked ==
    ASSUME NEW pairs, NEW reissued, OneEach(pairs),
           NEW t \in Backed(pairs), NEW b \in Seq(Genuine(pairs, reissued))
    PROVE  apply_event_projections(t, b) \in Backed(pairs)
<1>1. \A u \in Backed(pairs), e \in Genuine(pairs, reissued) : Apply(u, e) \in Backed(pairs)
      BY AppliedBacked
<1> QED  BY <1>1, BlockWithin, Zenon

LEMMA ChainRightful ==
    ASSUME NEW pairs, NEW reissued, NEW t \in Rightful(pairs),
           NEW c \in Seq(Seq(Genuine(pairs, reissued)))
    PROVE  After(t, c) \in Rightful(pairs)
<1> DEFINE T == Rightful(pairs)
<1>1. \A u \in T, b \in Seq(Genuine(pairs, reissued)) : apply_event_projections(u, b) \in T
      BY BlockRightful
<1> HIDE DEF T
<1>2. t \in T  BY DEF T
<1>3. PICK it \in [SUBSET DOMAIN c -> T] : Leads(it, t, c)  BY <1>1, <1>2, ChainWithin, Zenon
<1>4. After(t, c) \in T  BY <1>3 DEF Leads
<1> QED  BY <1>4 DEF T

LEMMA ChainBacked ==
    ASSUME NEW pairs, NEW reissued, OneEach(pairs), NEW t \in Backed(pairs),
           NEW c \in Seq(Seq(Genuine(pairs, reissued)))
    PROVE  After(t, c) \in Backed(pairs)
<1> DEFINE T == Backed(pairs)
<1>1. \A u \in T, b \in Seq(Genuine(pairs, reissued)) : apply_event_projections(u, b) \in T
      BY BlockBacked
<1> HIDE DEF T
<1>2. t \in T  BY DEF T
<1>3. PICK it \in [SUBSET DOMAIN c -> T] : Leads(it, t, c)  BY <1>1, <1>2, ChainWithin, Zenon
<1>4. After(t, c) \in T  BY <1>3 DEF Leads
<1> QED  BY <1>4 DEF T

(* No citizen is lost.                                                      *)
LEMMA BlockKeeps ==
    ASSUME NEW t \in Tables, NEW b \in Seq(Event)
    PROVE  Kept(t, apply_event_projections(t, b))
<1> DEFINE T == {u \in Tables : Kept(t, u)}
<1>1. \A u \in T, e \in Event : Apply(u, e) \in T
  <2>1. \A u \in Tables, e \in Event : Kept(u, Apply(u, e))  BY AppliedKept
  <2> QED  BY <2>1 DEF Kept
<1>2. t \in T  BY DEF Kept
<1> HIDE DEF T
<1>3. apply_event_projections(t, b) \in T  BY <1>1, <1>2, BlockWithin, Zenon
<1> QED  BY <1>3 DEF T

(* A row that no event names stays as it is.                                *)
LEMMA BlockSame ==
    ASSUME NEW t \in Tables, NEW rows, NEW b \in Seq({e \in Event : Rows(e) \subseteq rows})
    PROVE  Same(t, apply_event_projections(t, b), rows)
<1> DEFINE T == {u \in Tables : Same(t, u, rows)}
           E == {e \in Event : Rows(e) \subseteq rows}
<1>1. \A u \in T, e \in E : Apply(u, e) \in T
  <2> SUFFICES ASSUME NEW u \in T, NEW e \in E PROVE Apply(u, e) \in T  OBVIOUS
  <2>1. Same(u, Apply(u, e), Rows(e)) /\ Apply(u, e) \in Tables
        BY AppliedSame, AppliedKept DEF Kept
  <2> QED  BY <2>1 DEF Same
<1>2. t \in T  BY DEF Same
<1> HIDE DEF T, E
<1>3. apply_event_projections(t, b) \in T
  <2>1. b \in Seq(E)  BY DEF E
  <2> QED  BY <1>1, <1>2, <2>1, BlockWithin, Zenon
<1> QED  BY <1>3 DEF T

LEMMA ChainSame ==
    ASSUME NEW t \in Tables, NEW rows, NEW c \in Seq(Seq({e \in Event : Rows(e) \subseteq rows}))
    PROVE  Same(t, After(t, c), rows)
<1> DEFINE T == {u \in Tables : Same(t, u, rows)}
           B == Seq({e \in Event : Rows(e) \subseteq rows})
<1>1. \A u \in T, b \in B : apply_event_projections(u, b) \in T
  <2> SUFFICES ASSUME NEW u \in T, NEW b \in B PROVE apply_event_projections(u, b) \in T  OBVIOUS
  <2>1. Same(u, apply_event_projections(u, b), rows)  BY BlockSame
  <2>2. b \in Seq(Event)
    <3>1. {e \in Event : Rows(e) \subseteq rows} \subseteq Event  OBVIOUS
    <3> QED  BY <3>1, SeqMonotonic
  <2>3. apply_event_projections(u, b) \in Tables  BY <2>2, BlockKeeps DEF Kept
  <2> QED  BY <2>1, <2>3 DEF Same
<1>2. t \in T  BY DEF Same
<1> HIDE DEF T, B
<1>3. c \in Seq(B)  BY DEF B
<1>4. PICK it \in [SUBSET DOMAIN c -> T] : Leads(it, t, c)  BY <1>1, <1>2, <1>3, ChainWithin, Zenon
<1>5. After(t, c) \in T  BY <1>4 DEF Leads
<1> QED  BY <1>5 DEF T

LEMMA FoldAppended ==
    ASSUME NEW c \in Seq(Seq(Event)), NEW b \in Seq(Event)
    PROVE  Fold(Append(c, b)) = apply_event_projections(Fold(c), b)
<1>1. \A u \in Tables, x \in Seq(Event) : apply_event_projections(u, x) \in Tables
      BY BlockKeeps DEF Kept
<1>2. Empty \in Tables  BY EmptyRows
<1>3. After(Empty, Append(c, b)) = apply_event_projections(After(Empty, c), b)
      BY <1>1, <1>2, ChainAppended
<1>4. Fold(c) = After(Empty, c) /\ Fold(Append(c, b)) = After(Empty, Append(c, b))
      BY DEF Fold, After
<1> QED  BY <1>3, <1>4

LEMMA FoldOfNothing == Fold(<<>>) = Empty
<1> DEFINE T == {Empty}
<1>1. \A u \in T, x \in {} : apply_event_projections(u, x) \in T  OBVIOUS
<1>2. Empty \in T /\ <<>> \in Seq({})  OBVIOUS
<1> HIDE DEF T
<1>3. PICK it \in [SUBSET DOMAIN <<>> -> T] : Leads(it, Empty, <<>>)
      BY <1>1, <1>2, ChainWithin
<1>4. After(Empty, <<>>) \in T  BY <1>3 DEF Leads
<1> QED  BY <1>4 DEF T, After, Fold

-----------------------------------------------------------------------------
(* Tables with the rows that an open transaction has written or deleted.    *)

LEMMA OverlaidRows ==
    ASSUME NEW t \in Tables, NEW own \in Tables, NEW locks, NEW u, u = Overlay(t, own, locks)
    PROVE  /\ u \in Tables /\ u.ok = t.ok
           /\ \A c \in Citizen : u.citizens[c] = IF <<"citizen", c>> \in locks
                                                 THEN own.citizens[c] ELSE t.citizens[c]
           /\ \A p \in Passport : u.passports[p] = IF <<"passport", p>> \in locks
                                                   THEN own.passports[p] ELSE t.passports[p]
BY DEF Tables, Overlay

(* Tables are the same if their rows are.                                   *)
LEMMA SameTables ==
    ASSUME NEW t \in Tables, NEW u \in Tables, t.ok = u.ok,
           \A c \in Citizen : t.citizens[c] = u.citizens[c],
           \A p \in Passport : t.passports[p] = u.passports[p]
    PROVE  t = u
<1>1. t.citizens = u.citizens  BY DEF Tables
<1>2. t.passports = u.passports  BY DEF Tables
<1> QED  BY <1>1, <1>2 DEF Tables

LEMMA NothingOverlaid ==
    ASSUME NEW t \in Tables, NEW own \in Tables
    PROVE  Overlay(t, own, {}) = t
<1> DEFINE u == Overlay(t, own, {})
           none == {}
<1>0. u = Overlay(t, own, none) /\ \A x : x \notin none  OBVIOUS
<1> HIDE DEF u, none
<1>1. /\ u \in Tables /\ u.ok = t.ok
      /\ \A c \in Citizen : u.citizens[c] = t.citizens[c]
      /\ \A p \in Passport : u.passports[p] = t.passports[p]
  <2>1. /\ u \in Tables /\ u.ok = t.ok
        /\ \A c \in Citizen : u.citizens[c] = IF <<"citizen", c>> \in none
                                              THEN own.citizens[c] ELSE t.citizens[c]
        /\ \A p \in Passport : u.passports[p] = IF <<"passport", p>> \in none
                                                THEN own.passports[p] ELSE t.passports[p]
        BY <1>0, OverlaidRows
  <2> QED  BY <1>0, <2>1
<1>2. u = t  BY <1>1, SameTables
<1> QED  BY <1>2 DEF u

(* What the next statement sees is what this one has made of what it saw.   *)
LEMMA WrittenOverlaid ==
    ASSUME NEW t \in Tables, NEW own \in Tables, NEW locks, NEW more, NEW u \in Tables, u.ok = t.ok,
           Same(Overlay(t, own, locks), u, more)
    PROVE  Overlay(t, u, locks \cup more) = u
<1> DEFINE s == Overlay(t, own, locks)
           v == Overlay(t, u, locks \cup more)
<1>0. v = Overlay(t, u, locks \cup more) /\ s = Overlay(t, own, locks) /\ Same(s, u, more)
      OBVIOUS
<1> HIDE DEF s, v
<1>1. /\ \A c \in Citizen : <<"citizen", c>> \notin locks => s.citizens[c] = t.citizens[c]
      /\ \A p \in Passport : <<"passport", p>> \notin locks => s.passports[p] = t.passports[p]
      BY <1>0, OverlaidRows
<1>2. /\ v \in Tables /\ v.ok = t.ok
      /\ \A c \in Citizen : v.citizens[c] = IF <<"citizen", c>> \in locks \cup more
                                            THEN u.citizens[c] ELSE t.citizens[c]
      /\ \A p \in Passport : v.passports[p] = IF <<"passport", p>> \in locks \cup more
                                              THEN u.passports[p] ELSE t.passports[p]
      BY <1>0, OverlaidRows
<1>4. \A c \in Citizen : v.citizens[c] = u.citizens[c]  BY <1>0, <1>1, <1>2 DEF Same
<1>5. \A p \in Passport : v.passports[p] = u.passports[p]  BY <1>0, <1>1, <1>2 DEF Same
<1>6. v = u  BY <1>2, <1>4, <1>5, SameTables
<1> QED  BY <1>6 DEF v

LEMMA OverlaidRightful ==
    ASSUME NEW pairs, NEW t \in Rightful(pairs), NEW own \in Rightful(pairs), NEW locks
    PROVE  Overlay(t, own, locks) \in Rightful(pairs)
<1> DEFINE u == Overlay(t, own, locks)
<1>1. t \in Tables /\ own \in Tables  BY DEF Rightful
<1>2. /\ u \in Tables
      /\ \A p \in Passport : u.passports[p] = IF <<"passport", p>> \in locks
                                              THEN own.passports[p] ELSE t.passports[p]
      BY <1>1, OverlaidRows
<1> HIDE DEF u
<1>3. u \in Rightful(pairs)  BY <1>2 DEF Rightful, Issued
<1> QED  BY <1>3 DEF u

\* Whose passport is locked is locked.
Closed(pairs, locks) ==
    \A x \in pairs : <<"passport", x[1]>> \in locks => <<"citizen", x[2]>> \in locks

\* The other passports of those who are locked are the same.
Spared(pairs, locks, t, u) ==
    \A p \in Passport, c \in Citizen :
        /\ <<p, c>> \in pairs
        /\ <<"citizen", c>> \in locks /\ <<"passport", p>> \notin locks
        => u.passports[p] = t.passports[p]

(* Another transaction leaves what the task sees backed.                    *)
LEMMA OverlaidBacked ==
    ASSUME NEW pairs, NEW locks, Closed(pairs, locks),
           NEW t \in Backed(pairs), NEW u \in Backed(pairs), NEW own \in Rightful(pairs),
           Overlay(t, own, locks) \in Backed(pairs), Spared(pairs, locks, t, u)
    PROVE  Overlay(u, own, locks) \in Backed(pairs)
<1> DEFINE s == Overlay(t, own, locks)
           v == Overlay(u, own, locks)
<1>1. t \in Tables /\ u \in Tables /\ own \in Tables /\ u \in Rightful(pairs)  BY DEF Backed, Rightful
<1>2. /\ s \in Tables
      /\ \A c \in Citizen : s.citizens[c] = IF <<"citizen", c>> \in locks
                                            THEN own.citizens[c] ELSE t.citizens[c]
      /\ \A p \in Passport : s.passports[p] = IF <<"passport", p>> \in locks
                                              THEN own.passports[p] ELSE t.passports[p]
      BY <1>1, OverlaidRows
<1>3. /\ v \in Tables
      /\ \A c \in Citizen : v.citizens[c] = IF <<"citizen", c>> \in locks
                                            THEN own.citizens[c] ELSE u.citizens[c]
      /\ \A p \in Passport : v.passports[p] = IF <<"passport", p>> \in locks
                                              THEN own.passports[p] ELSE u.passports[p]
      BY <1>1, OverlaidRows
<1>4. v \in Rightful(pairs) /\ s \in Backed(pairs)  BY <1>1, OverlaidRightful
<1> HIDE DEF s, v
<1>5. \A w \in {s, u, v} : \A p \in Passport :
         /\ Issued(w, p) => w.passports[p].citizen \in Citizen
         /\ w.passports[p].is_valid => Issued(w, p)
  <2>1. \A w \in Tables, p \in Passport : w.passports[p] \in PassportRow  BY DEF Tables
  <2> QED  BY <1>1, <1>2, <1>3, <2>1, PassportRows DEF Issued
<1>6. \A w \in {s, u, v} : \A p \in Passport : Issued(w, p) => <<p, w.passports[p].citizen>> \in pairs
      BY <1>4 DEF Backed, Rightful
<1>7. \A w \in {s, u} :
         /\ \A p \in Passport : Issued(w, p) => Known(w, w.passports[p].citizen)
         /\ \A c \in Citizen : w.citizens[c].passport_issued => HasPassport(w, c)
      BY <1>4 DEF Backed
<1>8. ASSUME NEW p \in Passport, <<"passport", p>> \notin locks,
             NEW c \in Citizen, <<"citizen", c>> \in locks, <<p, c>> \in pairs
      PROVE  u.passports[p] = s.passports[p]
      BY <1>2, <1>8 DEF Spared
<1>9. ASSUME NEW p \in Passport, Issued(v, p) PROVE Known(v, v.passports[p].citizen)
  <2> DEFINE c == v.passports[p].citizen
  <2>1. c \in Citizen /\ <<p, c>> \in pairs  BY <1>5, <1>6, <1>9
  <2>2. CASE <<"passport", p>> \in locks
    <3>1. <<"citizen", c>> \in locks  BY <2>1, <2>2 DEF Closed
    <3>2. Issued(s, p) /\ s.passports[p].citizen = c  BY <1>2, <1>3, <1>9, <2>2 DEF Issued
    <3>3. Known(s, c)  BY <1>7, <3>2
    <3> QED  BY <1>2, <1>3, <2>1, <3>1, <3>3 DEF Known
  <2>3. CASE <<"passport", p>> \notin locks
    <3>1. Issued(u, p) /\ u.passports[p].citizen = c  BY <1>3, <1>9, <2>3 DEF Issued
    <3>2. Known(u, c)  BY <1>7, <3>1
    <3>3. CASE <<"citizen", c>> \in locks
      <4>1. Issued(s, p) /\ s.passports[p].citizen = c  BY <1>8, <2>1, <2>3, <3>1, <3>3 DEF Issued
      <4>2. Known(s, c)  BY <1>7, <4>1
      <4> QED  BY <1>2, <1>3, <2>1, <3>3, <4>2 DEF Known
    <3>4. CASE <<"citizen", c>> \notin locks  BY <1>3, <2>1, <3>2, <3>4 DEF Known
    <3> QED  BY <3>3, <3>4
  <2> QED  BY <2>2, <2>3
<1>10. ASSUME NEW c \in Citizen, v.citizens[c].passport_issued PROVE HasPassport(v, c)
  <2>1. CASE <<"citizen", c>> \in locks
    <3>1. PICK p \in Passport : s.passports[p].is_valid /\ s.passports[p].citizen = c
          BY <1>2, <1>3, <1>7, <1>10, <2>1 DEF HasPassport
    <3>2. <<p, c>> \in pairs  BY <1>5, <1>6, <3>1
    <3>3. v.passports[p] = s.passports[p]  BY <1>2, <1>3, <1>8, <2>1, <3>2
    <3> QED  BY <3>1, <3>3 DEF HasPassport
  <2>2. CASE <<"citizen", c>> \notin locks
    <3>1. PICK p \in Passport : u.passports[p].is_valid /\ u.passports[p].citizen = c
          BY <1>3, <1>7, <1>10, <2>2 DEF HasPassport
    <3>2. <<p, c>> \in pairs  BY <1>5, <1>6, <3>1
    <3>3. <<"passport", p>> \notin locks  BY <2>2, <3>2 DEF Closed
    <3>4. v.passports[p] = u.passports[p]  BY <1>3, <3>3
    <3> QED  BY <3>1, <3>4 DEF HasPassport
  <2> QED  BY <2>1, <2>2
<1>11. v \in Backed(pairs)  BY <1>4, <1>9, <1>10 DEF Backed
<1> QED  BY <1>11 DEF v

\* The rows of gone are the same in t, and the passports that t has besides are not
\* of those citizens.
Stands(t, gone) ==
    /\ \A c \in Citizen : Known(gone, c) => t.citizens[c] = gone.citizens[c]
    /\ \A p \in Passport : Issued(gone, p) => t.passports[p] = gone.passports[p]

Apart(t, gone) ==
    \A p \in Passport : Issued(t, p) /\ ~Issued(gone, p) => ~Known(gone, t.passports[p].citizen)

LEMMA RowsInTable ==
    ASSUME NEW t
    PROVE  /\ \A c \in Citizen : <<"citizen", c>> \in RowsIn(t) <=> Known(t, c)
           /\ \A p \in Passport : <<"passport", p>> \in RowsIn(t) <=> Issued(t, p)
BY DEF RowsIn

(* What is left when the rows of gone are deleted.                          *)
LEMMA EmptiedRows ==
    ASSUME NEW t \in Tables, NEW gone \in Tables, NEW u, u = Overlay(t, Empty, RowsIn(gone))
    PROVE  /\ u \in Tables /\ u.ok = t.ok
           /\ \A c \in Citizen : u.citizens[c] = IF Known(gone, c) THEN NoCitizen ELSE t.citizens[c]
           /\ \A p \in Passport : u.passports[p] = IF Issued(gone, p) THEN NoPassport
                                                   ELSE t.passports[p]
<1>1. Empty \in Tables  BY EmptyRows
<1>2. /\ u \in Tables /\ u.ok = t.ok
      /\ \A c \in Citizen : u.citizens[c] = IF <<"citizen", c>> \in RowsIn(gone)
                                            THEN Empty.citizens[c] ELSE t.citizens[c]
      /\ \A p \in Passport : u.passports[p] = IF <<"passport", p>> \in RowsIn(gone)
                                              THEN Empty.passports[p] ELSE t.passports[p]
      BY <1>1, OverlaidRows
<1> QED  BY <1>2, RowsInTable, EmptyRows

LEMMA EmptiedBacked ==
    ASSUME NEW pairs, NEW t \in Backed(pairs), NEW gone \in Backed(pairs),
           Stands(t, gone), Apart(t, gone)
    PROVE  Overlay(t, Empty, RowsIn(gone)) \in Backed(pairs)
<1> DEFINE u == Overlay(t, Empty, RowsIn(gone))
<1>1. t \in Tables /\ gone \in Tables /\ t \in Rightful(pairs)  BY DEF Backed, Rightful
<1>2. /\ u \in Tables
      /\ \A c \in Citizen : u.citizens[c] = IF Known(gone, c) THEN NoCitizen ELSE t.citizens[c]
      /\ \A p \in Passport : u.passports[p] = IF Issued(gone, p) THEN NoPassport ELSE t.passports[p]
      BY <1>1, EmptiedRows
<1>3. u \in Rightful(pairs)  BY <1>1, EmptyBacked, OverlaidRightful
<1> HIDE DEF u
<1>4. \A p \in Passport : /\ Issued(t, p) => t.passports[p].citizen \in Citizen
                          /\ t.passports[p].is_valid => Issued(t, p)
      BY <1>1, PassportRows DEF Tables, Issued
<1>5. /\ \A p \in Passport : Issued(t, p) => Known(t, t.passports[p].citizen)
      /\ \A p \in Passport : Issued(gone, p) => Known(gone, gone.passports[p].citizen)
      /\ \A c \in Citizen : t.citizens[c].passport_issued => HasPassport(t, c)
      BY DEF Backed
<1>6. ASSUME NEW p \in Passport, Issued(u, p) PROVE Known(u, u.passports[p].citizen)
  <2>1. ~Issued(gone, p) /\ u.passports[p] = t.passports[p] /\ Issued(t, p)
        BY <1>2, <1>6 DEF Issued
  <2>2. ~Known(gone, t.passports[p].citizen)  BY <2>1 DEF Apart
  <2> QED  BY <1>2, <1>4, <1>5, <2>1, <2>2 DEF Known
<1>7. ASSUME NEW c \in Citizen, u.citizens[c].passport_issued PROVE HasPassport(u, c)
  <2>1. ~Known(gone, c) /\ t.citizens[c].passport_issued  BY <1>2, <1>7, NewRows
  <2>2. PICK p \in Passport : t.passports[p].is_valid /\ t.passports[p].citizen = c
        BY <1>5, <2>1 DEF HasPassport
  <2>3. ~Issued(gone, p)  BY <1>5, <2>1, <2>2 DEF Stands
  <2> QED  BY <1>2, <2>2, <2>3 DEF HasPassport
<1>8. u \in Backed(pairs)  BY <1>3, <1>6, <1>7 DEF Backed
<1> QED  BY <1>8 DEF u

(* From tables that are all deleted a replay begins with empty ones.        *)
LEMMA EmptiedAll ==
    ASSUME NEW t \in Tables, t.ok = TRUE
    PROVE  Overlay(t, Empty, RowsIn(t)) = Empty
<1> DEFINE u == Overlay(t, Empty, RowsIn(t))
<1>0. u = Overlay(t, Empty, RowsIn(t))  OBVIOUS
<1> HIDE DEF u
<1>1. /\ u \in Tables /\ u.ok = t.ok
      /\ \A c \in Citizen : u.citizens[c] = IF Known(t, c) THEN NoCitizen ELSE t.citizens[c]
      /\ \A p \in Passport : u.passports[p] = IF Issued(t, p) THEN NoPassport ELSE t.passports[p]
      BY <1>0, EmptiedRows
<1>2. /\ \A c \in Citizen : u.citizens[c] = Empty.citizens[c]
      /\ \A p \in Passport : u.passports[p] = Empty.passports[p]
      BY <1>1, EmptyRows DEF Known, Issued
<1>3. u.ok \in BOOLEAN /\ Empty.ok \in BOOLEAN /\ u.ok = Empty.ok
      BY <1>1, EmptyRows DEF Tables
<1>4. u = Empty  BY <1>1, <1>2, <1>3, EmptyRows, SameTables
<1> QED  BY <1>4 DEF u

-----------------------------------------------------------------------------
(* The invariant.  First the types: events, blocks and tables as above.     *)

Expected == Genuine(Pairs, Reissued)
Block == Seq(Expected)

AnyRow == {"citizen", "passport", "name"} \X (Citizen \cup Passport \cup Name \cup {0})

Task == [open : BOOLEAN, block : Block, rest : Block, own : Rightful(Pairs),
         locks : SUBSET AnyRow, held : SUBSET AnyRow]
Heal == [step : Steps, copy : Seq(Block), gone : Rightful(Pairs), read : Seq(Block)]

Chains == chain \in [Node -> Seq(Block)]

\* No statement of a committed transaction has failed.
Stores == tables \in [Node -> Rightful(Pairs)] /\ \A n \in Node : tables[n].ok = TRUE

Pools ==
    /\ pending \in [Node -> SUBSET Expected]
    /\ \A n \in Node : IsFiniteSet(pending[n])
    /\ wire \subseteq Node \X Expected

Desks ==
    /\ at \in [Request -> [step : {"idle", "insert", "done"}, event : Expected \cup {NoEvent}]]
    /\ \A r \in Request : at[r].step = "insert" =>
          at[r].event \in Expected /\ r \in scene.asked /\ r.op # "password"
    /\ now \in 0..scene.last
    /\ password \in [Node -> SUBSET Citizen]
    /\ writer \in [Node -> SUBSET Citizen]

Tasks ==
    /\ due \in [Node -> Nat]
    /\ task \in [Node -> Task]
    /\ \A n \in Node : task[n].own.ok = TRUE

Heals ==
    /\ heal \in [Node -> Heal]
    /\ \A n \in Node : heal[n].gone.ok = TRUE
    /\ rebuilt \in [Node -> BOOLEAN]

Kinds == scene \in Scenarios /\ Chains /\ Stores /\ Pools /\ Desks /\ Tasks /\ Heals

\* Rows that refer to citizens, and will do so when the task is committed.
Refers(n) ==
    /\ \A c \in password[n] \cup writer[n] : Known(tables[n], c)
    /\ \A c \in Citizen : Known(tables[n], c) => Known(Seen(n), c)
    /\ Replaying(n) => writer[n] = {}

\* A node where no task adds blocks.
Watched(n) ==
    Observer(n) =>
        /\ due[n] = 0 /\ ~task[n].open
        /\ Replaying(n) => heal[n].gone = tables[n]
        /\ heal[n].step = "read" => heal[n].read = chain[n]
        /\ rebuilt[n] => tables[n] = Fold(chain[n])

\* The marks are backed, for all that see the tables, and will be after the replay.
Stocked(n) ==
    OneEach(Pairs) =>
        /\ tables[n] \in Backed(Pairs) /\ Seen(n) \in Backed(Pairs)
        /\ Closed(Pairs, task[n].locks)
        /\ Replaying(n) =>
              /\ heal[n].gone \in Backed(Pairs)
              /\ task[n].locks \cap RowsIn(heal[n].gone) = {}
              /\ Stands(tables[n], heal[n].gone)
              /\ Apart(tables[n], heal[n].gone) /\ Apart(Seen(n), heal[n].gone)

IInv == Kinds /\ \A n \in Node : Refers(n) /\ Watched(n) /\ Stocked(n)

LEMMA ScenarioTypes ==
    ASSUME NEW s \in Scenarios
    PROVE  /\ s.asked \subseteq Request /\ s.producers \subseteq Node
           /\ s.writers \subseteq Citizen /\ s.last \in 0..MaxTime
BY CitizensAssumption

LEMMA RequestTypes ==
    ASSUME NEW r \in Request
    PROVE  /\ r.node \in Node
           /\ r.op = "post" => r.event \in Event
           /\ r.op # "post" => r.op \in Op /\ r.citizen \in Citizen
           /\ r.op = "register" => r.value \in Name
           /\ r.op = "status" => r.value \in Status
           /\ r.op = "issue" => r.passport \in Passport
<1>1. r \in Asking \/ r \in Posting  BY CitizensAssumption
<1>2. CASE r \in Asking
  <2>1. r.op \in Op /\ r.node \in Node /\ r.citizen \in Citizen /\ r.op # "post"
        BY <1>2 DEF Asking, Op
  <2> QED  BY <2>1, CitizensAssumption
<1>3. CASE r \in Posting
  <2>1. r.op = "post" /\ r.node \in Node /\ r.event \in Event  BY <1>3 DEF Posting
  <2> QED  BY <2>1, CitizensAssumption
<1> QED  BY <1>1, <1>2, <1>3

(* What a handler drafts is one of the events that the tables expect.       *)
LEMMA DraftExpected ==
    ASSUME Kinds, NEW r \in scene.asked, r.op # "password", NEW e \in Drafts(r)
    PROVE  e \in Expected
<1> DEFINE n == r.node
           c == r.citizen
<1>1. r \in Request  BY ScenarioTypes DEF Kinds
<1>2. CASE r.op = "post"
  <2>1. e = r.event /\ e \in Event /\ e \in Posts  BY <1>1, <1>2, RequestTypes DEF Drafts, Posts
  <2>2. e.kind \in {"PassportIssued", "PassportRevoked"} => <<e.passport, e.citizen>> \in Pairs
        BY <2>1 DEF Pairs
  <2>3. e.kind = "PassportIssued" => e.passport \in Reissued  BY <2>1 DEF Reissued
  <2> QED  BY <2>1, <2>2, <2>3 DEF Expected, Genuine
<1>3. CASE r.op # "post"
  <2>1. e \in Built(r) /\ n \in Node /\ c \in Citizen /\ c # 0
        BY <1>1, <1>3, RequestTypes, CitizensAssumption DEF Drafts
  <2>2. now \in 0..MaxTime /\ now \in Nat
        BY ScenarioTypes, CitizensAssumption DEF Kinds, Desks
  <2>3. c \in Nat /\ \A p \in Passport \cup {0} : p \in Nat
    <3>1. Citizen \subseteq Nat /\ Passport \cup {0} \subseteq Nat  BY CitizensAssumption
    <3> QED  BY <2>1, <3>1
  <2>4. ASSUME NEW kind \in Kind, NEW value \in Name \cup Status \cup Role \cup {"none"},
               NEW p \in Passport \cup {0},
               kind = "CitizenAdded" => value \in Name,
               kind = "CitizenStatus" => value \in Status,
               kind = "CitizenUpdated" => value \in Role,
               kind \in {"PassportIssued", "PassportRevoked"} =>
                  p \in Passport /\ <<p, c>> \in Pairs,
               e = EventOf(kind, c, value, p)
        PROVE  e \in Expected
    <3> DEFINE id == IdOf(kind, c, p)
    <3>1. id \in EventId /\ (kind = "PassportIssued" => id = <<4, p, 0>>)
          BY <2>2, <2>3 DEF IdOf, EventId
    <3> HIDE DEF id
    <3>2. e = [id |-> id, kind |-> kind, citizen |-> c, value |-> value, passport |-> p,
               time |-> now]
          BY <2>4 DEF EventOf, id
    <3>3. e \in Event  BY <2>1, <2>2, <2>4, <3>1, <3>2 DEF Event
    <3> QED  BY <2>4, <3>1, <3>2, <3>3 DEF Expected, Genuine
  <2>5. CASE r.op = "register"
    <3>1. e = EventOf("CitizenAdded", c, r.value, 0)  BY <2>1, <2>5 DEF Built
    <3>2. r.value \in Name  BY <1>1, <2>5, RequestTypes
    <3> QED  BY <2>4, <3>1, <3>2 DEF Kind
  <2>6. CASE r.op = "status"
    <3>1. e = EventOf("CitizenStatus", c, r.value, 0)  BY <2>1, <2>6 DEF Built
    <3>2. r.value \in Status  BY <1>1, <2>6, RequestTypes
    <3> QED  BY <2>4, <3>1, <3>2 DEF Kind
  <2>7. CASE r.op = "appoint"
    <3>1. e = EventOf("CitizenUpdated", c, "Judge", 0)  BY <2>1, <2>7 DEF Built
    <3> QED  BY <2>4, <3>1 DEF Kind, Role
  <2>8. CASE r.op = "role"
    <3>1. e = EventOf("CitizenUpdated", c, "Citizen", 0)  BY <2>1, <2>8 DEF Built
    <3> QED  BY <2>4, <3>1 DEF Kind, Role
  <2>9. CASE r.op = "issue"
    <3>1. e = EventOf("PassportIssued", c, "none", r.passport)  BY <2>1, <2>9 DEF Built
    <3>2. r.passport \in Passport /\ <<r.passport, c>> \in Pairs
          BY <1>1, <2>9, RequestTypes DEF Pairs
    <3> QED  BY <2>4, <3>1, <3>2 DEF Kind
  <2>10. CASE r.op \notin {"register", "status", "appoint", "role", "issue"}
    <3>1. PICK p \in ValidPassports(n, c) : e = EventOf("PassportRevoked", c, "none", p)
          BY <2>1, <2>10 DEF Built
    <3>2. p \in Passport /\ tables[n].passports[p].is_valid /\ tables[n].passports[p].citizen = c
          BY <3>1 DEF ValidPassports
    <3>3. tables[n] \in Rightful(Pairs)  BY <2>1 DEF Kinds, Stores
    <3>4. Issued(tables[n], p)  BY <3>2, NewRows DEF Issued
    <3>5. <<p, c>> \in Pairs  BY <3>2, <3>3, <3>4 DEF Rightful
    <3> QED  BY <2>4, <3>1, <3>2, <3>5 DEF Kind
  <2> QED  BY <2>5, <2>6, <2>7, <2>8, <2>9, <2>10
<1> QED  BY <1>2, <1>3

(* The blocks that a producer may collect.                                  *)
LEMMA CollectedBlock ==
    ASSUME Kinds, NEW n \in Node, NEW peers \in SUBSET (Node \ {n}),
           NEW block \in Collected(n, peers)
    PROVE  block \in Block /\ Ids(ToSet(block)) \cap Ids(EventsIn(chain[n])) = {}
<1> DEFINE reached == peers \cup {n}
           pools == {pending[m] : m \in reached}
           events == {e \in UNION pools : e.id \notin Ids(EventsIn(chain[n]))}
<1>1. reached \subseteq Node /\ IsFiniteSet(reached)
      BY CitizensAssumption, FS_Subset
<1>2. IsFiniteSet(pools)
  <2>1. [m \in reached |-> pending[m]] \in Surjection(reached, pools)  BY DEF Surjection
  <2> HIDE DEF pools, reached
  <2> QED  BY <1>1, <2>1, FS_Surjection
<1>3. \A T \in pools : IsFiniteSet(T) /\ T \subseteq Expected
      BY <1>1 DEF Kinds, Pools
<1>4. IsFiniteSet(UNION pools) /\ UNION pools \subseteq Expected
  <2> HIDE DEF pools
  <2> QED  BY <1>2, <1>3, FS_UNION
<1>5. PICK kept \in OnePerId(n, events) : block \in InOrder(kept)
      BY DEF Collected
<1>6. kept \subseteq events  BY <1>5 DEF OnePerId
<1>7. kept \subseteq UNION pools  BY <1>6
<1>8. Cardinality(kept) \in Nat  BY <1>4, <1>7, FS_Subset, FS_CardinalityType
<1>9. block \in [1..Cardinality(kept) -> kept]  BY <1>5 DEF InOrder, SetToSeqs
<1>10. block \in Seq(kept)  BY <1>8, <1>9
<1>11. kept \subseteq Expected  BY <1>4, <1>7
<1>12. \A e \in ToSet(block) : e.id \notin Ids(EventsIn(chain[n]))
       BY <1>6, <1>9 DEF ToSet
<1>13. Ids(ToSet(block)) \cap Ids(EventsIn(chain[n])) = {}  BY <1>12 DEF Ids
<1> QED  BY <1>10, <1>11, <1>13, SeqMonotonic DEF Block

(* What the task sees.                                                      *)
LEMMA SeenRows ==
    ASSUME Kinds, NEW n \in Node
    PROVE  /\ Seen(n) \in Rightful(Pairs) /\ Seen(n) \in Tables /\ Seen(n).ok = TRUE
           /\ tables[n] \in Rightful(Pairs) /\ tables[n] \in Tables
           /\ task[n] \in Task /\ task[n].own \in Rightful(Pairs) /\ task[n].own \in Tables
<1>1. /\ tables[n] \in Rightful(Pairs) /\ tables[n] \in Tables /\ tables[n].ok = TRUE
      /\ task[n] \in Task
      BY DEF Kinds, Stores, Tasks, Rightful
<1>2. task[n].own \in Rightful(Pairs) /\ task[n].own \in Tables
      BY <1>1 DEF Task, Rightful
<1>3. Seen(n) \in Rightful(Pairs)  BY <1>1, <1>2, OverlaidRightful DEF Seen
<1>4. Seen(n) \in Tables /\ Seen(n).ok = tables[n].ok  BY <1>1, <1>2, OverlaidRows DEF Seen
<1> QED  BY <1>1, <1>2, <1>3, <1>4

LEMMA NoTaskTypes ==
    /\ NoTask \in Task /\ NoTask.own.ok = TRUE /\ ~NoTask.open
    /\ NoTask.locks = {} /\ NoTask.held = {} /\ NoTask.own = Empty /\ NoTask.rest = <<>>
    /\ NoHeal \in Heal /\ NoHeal.gone.ok = TRUE /\ NoHeal.step = "none"
<1>1. Empty \in Rightful(Pairs) /\ Empty.ok = TRUE  BY EmptyBacked DEF Empty
<1>2. <<>> \in Block  BY DEF Block
<1>3. <<>> \in Seq(Block)  OBVIOUS
<1> QED  BY <1>1, <1>2, <1>3 DEF NoTask, Task, NoHeal, Heal, Steps

-----------------------------------------------------------------------------
(* The steps.  Each is one of some node; the others stay as they are.       *)

NodeInv(n) == Refers(n) /\ Watched(n) /\ Stocked(n)

Still(n) ==
    /\ chain'[n] = chain[n] /\ tables'[n] = tables[n]
    /\ password'[n] = password[n] /\ writer'[n] = writer[n]
    /\ due'[n] = due[n] /\ task'[n] = task[n]
    /\ heal'[n] = heal[n] /\ rebuilt'[n] = rebuilt[n]

LEMMA SceneStays ==
    ASSUME scene' = scene
    PROVE  /\ Pairs' = Pairs /\ Reissued' = Reissued /\ Expected' = Expected /\ Block' = Block
           /\ Task' = Task /\ Heal' = Heal
           /\ \A n \in Node : Observer(n)' = Observer(n)
BY DEF Pairs, Reissued, Expected, Block, Posts, Task, Heal, Observer

LEMMA Frame ==
    ASSUME scene' = scene, NEW n \in Node, NodeInv(n), Still(n)
    PROVE  NodeInv(n)'
<1>1. Pairs' = Pairs /\ Observer(n)' = Observer(n)  BY SceneStays
<1>2. Seen(n)' = Seen(n) /\ Replaying(n)' = Replaying(n)  BY DEF Still, Seen, Replaying
<1>3. Refers(n)'  BY <1>2 DEF NodeInv, Refers, Still
<1>4. Watched(n)'  BY <1>1, <1>2 DEF NodeInv, Watched, Still
<1>5. Stocked(n)'  BY <1>1, <1>2 DEF NodeInv, Stocked, Still
<1> QED  BY <1>3, <1>4, <1>5 DEF NodeInv

LEMMA InvInit == Init => IInv
<1> SUFFICES ASSUME Init PROVE IInv  OBVIOUS
<1>1. scene \in Scenarios /\ 0 \in 0..scene.last
  <2>1. scene \in Scenarios  BY DEF Init
  <2>2. scene.last \in 0..MaxTime  BY <2>1, ScenarioTypes
  <2> QED  BY <2>1, <2>2, CitizensAssumption
<1>2. Empty \in Rightful(Pairs) /\ Empty \in Backed(Pairs) /\ Empty.ok = TRUE /\ Empty \in Tables
      BY EmptyBacked, EmptyRows DEF Empty
<1>3. <<>> \in Seq(Block) /\ IsFiniteSet({})  BY FS_EmptySet
<1>4. Kinds
  <2>1. Chains /\ Stores  BY <1>2, <1>3 DEF Init, Chains, Stores
  <2>2. Pools /\ Desks  BY <1>1, <1>3 DEF Init, Pools, Desks
  <2>3. Tasks /\ Heals  BY NoTaskTypes DEF Init, Tasks, Heals
  <2> QED  BY <1>1, <2>1, <2>2, <2>3 DEF Kinds
<1>5. ASSUME NEW n \in Node PROVE NodeInv(n)
  <2>1. /\ tables[n] = Empty /\ chain[n] = <<>> /\ task[n] = NoTask /\ heal[n] = NoHeal
        /\ password[n] = {} /\ writer[n] = {} /\ due[n] = 0
        BY DEF Init
  <2>2. Seen(n) = Empty  BY <1>2, <2>1, NothingOverlaid, NoTaskTypes DEF Seen
  <2>3. ~Replaying(n) /\ heal[n].step # "read"  BY <2>1 DEF Replaying, NoHeal
  <2>4. Refers(n)  BY <2>1, <2>2, <2>3 DEF Refers
  <2>5. Watched(n)  BY <2>1, <2>3, NoTaskTypes, FoldOfNothing DEF Watched
  <2>6. Stocked(n)  BY <1>2, <2>1, <2>2, <2>3, NoTaskTypes DEF Stocked, Closed
  <2> QED  BY <2>4, <2>5, <2>6 DEF NodeInv
<1> QED  BY <1>4, <1>5 DEF IInv, NodeInv

(* Steps of the handlers, the wire and the clock.                           *)
LEMMA CheckStep ==
    ASSUME IInv, NEW r \in Request, Check(r)
    PROVE  IInv'
<1>0. Kinds /\ \A n \in Node : NodeInv(n)  BY DEF IInv, NodeInv
<1>1. r \in scene.asked /\ r.op # "password"  BY DEF Check
<1>2. \A e \in Drafts(r) : e \in Expected  BY <1>0, <1>1, DraftExpected
<1>3. /\ UNCHANGED <<scene, chain, tables, pending, due, task, heal, rebuilt>>
      /\ UNCHANGED <<wire, password, writer, now>>
      BY DEF Check
<1>4. /\ at' \in [Request -> [step : {"idle", "insert", "done"}, event : Expected \cup {NoEvent}]]
      /\ \A q \in Request : at'[q].step = "insert" =>
            at'[q].event \in Expected /\ q \in scene.asked /\ q.op # "password"
  <2>1. CASE \E e \in Drafts(r) : at' = [at EXCEPT ![r] = [step |-> "insert", event |-> e]]
        BY <1>0, <1>1, <1>2, <2>1 DEF Kinds, Desks
  <2>2. CASE at' = [at EXCEPT ![r].step = "done"]
        BY <1>0, <2>2 DEF Kinds, Desks
  <2> QED  BY <2>1, <2>2 DEF Check
<1>5. Kinds'
  <2>1. (Chains /\ Stores /\ Pools /\ Tasks /\ Heals)'
        BY <1>0, <1>3, SceneStays DEF Kinds, Chains, Stores, Pools, Tasks, Heals
  <2>2. Desks'  BY <1>0, <1>3, <1>4, SceneStays DEF Kinds, Desks
  <2> QED  BY <1>0, <1>3, <2>1, <2>2 DEF Kinds
<1>6. ASSUME NEW n \in Node PROVE NodeInv(n)'
      BY <1>0, <1>3, Frame DEF Still
<1> QED  BY <1>5, <1>6 DEF IInv, NodeInv

LEMMA InsertStep ==
    ASSUME IInv, NEW r \in Request, Insert(r)
    PROVE  IInv'
<1> DEFINE n == r.node
           e == at[r].event
<1>0. Kinds /\ \A m \in Node : NodeInv(m)  BY DEF IInv, NodeInv
<1>1. n \in Node  BY RequestTypes
<1>2. e \in Expected /\ r \in scene.asked /\ r.op # "password"
      BY <1>0 DEF Insert, Kinds, Desks
<1>3. /\ at' = [at EXCEPT ![r] = [step |-> "done", event |-> NoEvent]]
      /\ UNCHANGED <<scene, chain, tables, task, heal, rebuilt>>
      /\ UNCHANGED <<password, writer, now>>
      BY DEF Insert
<1>4. \/ UNCHANGED <<pending, wire, due>>
      \/ /\ pending' = [pending EXCEPT ![n] = @ \cup {e}]
         /\ wire' = wire \cup {<<m, e>> : m \in Node \ {n}}
         /\ due' = [due EXCEPT ![n] = @ + 1] \/ due' = due
      BY DEF Insert
<1> HIDE DEF n, e
<1>5. Pools'
  <2>1. pending \in [Node -> SUBSET Expected] /\ wire \subseteq Node \X Expected
        BY <1>0 DEF Kinds, Pools
  <2>2. pending' \in [Node -> SUBSET Expected]  BY <1>1, <1>2, <1>4, <2>1
  <2>3. {<<m, e>> : m \in Node \ {n}} \subseteq Node \X Expected  BY <1>2
  <2>4. wire' \subseteq Node \X Expected  BY <1>4, <2>1, <2>3
  <2>5. ASSUME NEW m \in Node PROVE IsFiniteSet(pending'[m])
    <3>1. IsFiniteSet(pending[m])  BY <1>0 DEF Kinds, Pools
    <3>2. IsFiniteSet(pending[m] \cup {e})  BY <3>1, FS_AddElement
    <3>3. pending'[m] = pending[m] \/ pending'[m] = pending[m] \cup {e}
          BY <1>1, <1>4, <2>1
    <3> QED  BY <3>1, <3>2, <3>3
  <2> QED  BY <1>3, <2>2, <2>4, <2>5, SceneStays DEF Pools
<1>6. Kinds'
  <2>1. (Chains /\ Stores /\ Heals)'
        BY <1>0, <1>3, SceneStays DEF Kinds, Chains, Stores, Heals
  <2>2. Tasks'
    <3>1. due' \in [Node -> Nat]  BY <1>0, <1>1, <1>4 DEF Kinds, Tasks
    <3> QED  BY <1>0, <1>3, <3>1, SceneStays DEF Kinds, Tasks
  <2>3. Desks'  BY <1>0, <1>3, SceneStays DEF Kinds, Desks
  <2> QED  BY <1>0, <1>3, <1>5, <2>1, <2>2, <2>3 DEF Kinds
<1>7. ASSUME NEW m \in Node PROVE NodeInv(m)'
  <2>1. CASE due'[m] = due[m]  BY <1>0, <1>3, <2>1, Frame DEF Still
  <2>2. CASE due'[m] # due[m]
    <3>1. m = n  BY <1>0, <1>1, <1>4, <2>2 DEF Kinds, Tasks
    <3>2. ~Observer(m)  BY <1>2, <3>1 DEF Observer, n
    <3>3. Watched(m)'  BY <1>3, <3>2, SceneStays DEF Watched
    <3>4. Seen(m)' = Seen(m) /\ Replaying(m)' = Replaying(m)  BY <1>3 DEF Seen, Replaying
    <3>5. Refers(m)'  BY <1>0, <1>3, <3>4 DEF NodeInv, Refers
    <3>6. Stocked(m)'  BY <1>0, <1>3, <3>4, SceneStays DEF NodeInv, Stocked
    <3> QED  BY <3>3, <3>5, <3>6 DEF NodeInv
  <2> QED  BY <2>1, <2>2
<1> QED  BY <1>6, <1>7 DEF IInv, NodeInv

LEMMA SetPasswordStep ==
    ASSUME IInv, NEW r \in Request, SetPassword(r)
    PROVE  IInv'
<1>0. Kinds /\ \A m \in Node : NodeInv(m)  BY DEF IInv, NodeInv
<1>1. /\ at' = [at EXCEPT ![r].step = "done"]
      /\ \/ UNCHANGED password
         \/ /\ Known(tables[r.node], r.citizen)
            /\ password' = [password EXCEPT ![r.node] = @ \cup {r.citizen}]
      /\ UNCHANGED <<scene, chain, tables, pending, due, task, heal, rebuilt>>
      /\ UNCHANGED <<wire, writer, now>>
      BY DEF SetPassword
<1>2. r.node \in Node /\ r.citizen \in Citizen
      BY RequestTypes DEF SetPassword
<1>3. Kinds'
  <2>1. (Chains /\ Stores /\ Pools /\ Tasks /\ Heals)'
        BY <1>0, <1>1, SceneStays DEF Kinds, Chains, Stores, Pools, Tasks, Heals
  <2>2. password' \in [Node -> SUBSET Citizen]  BY <1>0, <1>1, <1>2 DEF Kinds, Desks
  <2>3. /\ at' \in [Request -> [step : {"idle", "insert", "done"}, event : Expected \cup {NoEvent}]]
        /\ \A q \in Request : at'[q].step = "insert" =>
              at'[q].event \in Expected /\ q \in scene.asked /\ q.op # "password"
    <3>1. at' = [at EXCEPT ![r].step = "done"]  BY <1>1
    <3> QED  BY <1>0, <3>1 DEF Kinds, Desks
  <2>4. Desks'  BY <1>0, <1>1, <2>2, <2>3, SceneStays DEF Kinds, Desks
  <2> QED  BY <1>0, <1>1, <2>1, <2>4 DEF Kinds
<1>4. ASSUME NEW m \in Node PROVE NodeInv(m)'
  <2>1. Seen(m)' = Seen(m) /\ Replaying(m)' = Replaying(m)  BY <1>1 DEF Seen, Replaying
  <2>2. \A c \in password'[m] : c \in password[m] \/ Known(tables[m], c)
        BY <1>0, <1>1, <1>2 DEF Kinds, Desks
  <2>3. Refers(m)'  BY <1>0, <1>1, <2>1, <2>2 DEF NodeInv, Refers
  <2>4. Watched(m)'  BY <1>0, <1>1, <2>1, SceneStays DEF NodeInv, Watched
  <2>5. Stocked(m)'  BY <1>0, <1>1, <2>1, SceneStays DEF NodeInv, Stocked
  <2> QED  BY <2>3, <2>4, <2>5 DEF NodeInv
<1> QED  BY <1>3, <1>4 DEF IInv, NodeInv

LEMMA WriteChatStep ==
    ASSUME IInv, NEW n \in Node, NEW c \in Citizen, WriteChat(n, c)
    PROVE  IInv'
<1>0. Kinds /\ \A m \in Node : NodeInv(m)  BY DEF IInv, NodeInv
<1>1. /\ Known(tables[n], c) /\ ~Replaying(n)
      /\ writer' = [writer EXCEPT ![n] = @ \cup {c}]
      /\ UNCHANGED <<scene, chain, tables, pending, due, task, heal, rebuilt>>
      /\ UNCHANGED <<at, wire, password, now>>
      BY DEF WriteChat
<1>2. Kinds'
  <2>1. (Chains /\ Stores /\ Pools /\ Tasks /\ Heals)'
        BY <1>0, <1>1, SceneStays DEF Kinds, Chains, Stores, Pools, Tasks, Heals
  <2>2. Desks'  BY <1>0, <1>1, SceneStays DEF Kinds, Desks
  <2> QED  BY <1>0, <1>1, <2>1, <2>2 DEF Kinds
<1>3. ASSUME NEW m \in Node PROVE NodeInv(m)'
  <2>1. Seen(m)' = Seen(m) /\ Replaying(m)' = Replaying(m)  BY <1>1 DEF Seen, Replaying
  <2>2. \A d \in writer'[m] : d \in writer[m] \/ Known(tables[m], d)
        BY <1>0, <1>1 DEF Kinds, Desks
  <2>3. Replaying(m) => writer'[m] = {}
        BY <1>0, <1>1 DEF Kinds, Desks, NodeInv, Refers
  <2>4. Refers(m)'  BY <1>0, <1>1, <2>1, <2>2, <2>3 DEF NodeInv, Refers
  <2>5. Watched(m)'  BY <1>0, <1>1, <2>1, SceneStays DEF NodeInv, Watched
  <2>6. Stocked(m)'  BY <1>0, <1>1, <2>1, SceneStays DEF NodeInv, Stocked
  <2> QED  BY <2>4, <2>5, <2>6 DEF NodeInv
<1> QED  BY <1>2, <1>3 DEF IInv, NodeInv

LEMMA ReceiveStep ==
    ASSUME IInv, NEW n \in Node, NEW e, Receive(n, e)
    PROVE  IInv'
<1>0. Kinds /\ \A m \in Node : NodeInv(m)  BY DEF IInv, NodeInv
<1>1. <<n, e>> \in wire /\ e \in Expected  BY <1>0 DEF Receive, Kinds, Pools
<1>2. /\ wire' = wire \ {<<n, e>>}
      /\ pending' = pending \/ pending' = [pending EXCEPT ![n] = @ \cup {e}]
      /\ UNCHANGED <<scene, chain, tables, due, task, heal, rebuilt>>
      /\ UNCHANGED <<at, password, writer, now>>
      BY DEF Receive
<1>3. Pools'
  <2>1. pending \in [Node -> SUBSET Expected] /\ wire \subseteq Node \X Expected
        BY <1>0 DEF Kinds, Pools
  <2>2. pending' \in [Node -> SUBSET Expected]  BY <1>1, <1>2, <2>1
  <2>3. wire' \subseteq Node \X Expected  BY <1>2, <2>1
  <2>4. ASSUME NEW m \in Node PROVE IsFiniteSet(pending'[m])
    <3>1. IsFiniteSet(pending[m])  BY <1>0 DEF Kinds, Pools
    <3>2. IsFiniteSet(pending[m] \cup {e})  BY <3>1, FS_AddElement
    <3>3. pending'[m] = pending[m] \/ pending'[m] = pending[m] \cup {e}  BY <1>2, <2>1
    <3> QED  BY <3>1, <3>2, <3>3
  <2> QED  BY <1>2, <2>2, <2>3, <2>4, SceneStays DEF Pools
<1>4. Kinds'
  <2>1. (Chains /\ Stores /\ Tasks /\ Heals /\ Desks)'
        BY <1>0, <1>2, SceneStays DEF Kinds, Chains, Stores, Tasks, Heals, Desks
  <2> QED  BY <1>0, <1>2, <1>3, <2>1 DEF Kinds
<1>5. ASSUME NEW m \in Node PROVE NodeInv(m)'
      BY <1>0, <1>2, Frame DEF Still
<1> QED  BY <1>4, <1>5 DEF IInv, NodeInv

LEMMA TickStep ==
    ASSUME IInv, Tick \/ UNCHANGED vars
    PROVE  IInv'
<1>0. Kinds /\ \A m \in Node : NodeInv(m)  BY DEF IInv, NodeInv
<1>1. /\ UNCHANGED <<scene, chain, tables, pending, due, task, heal, rebuilt>>
      /\ UNCHANGED <<at, wire, password, writer>>
      BY DEF Tick, vars, desk
<1>2. now' \in 0..scene.last
  <2>1. now \in 0..scene.last /\ scene.last \in 0..MaxTime
        BY <1>0, ScenarioTypes DEF Kinds, Desks
  <2>2. now' = now \/ (now < scene.last /\ now' = now + 1)  BY DEF Tick, vars, desk
  <2> QED  BY <2>1, <2>2, CitizensAssumption
<1>3. Kinds'
  <2>1. (Chains /\ Stores /\ Pools /\ Tasks /\ Heals)'
        BY <1>0, <1>1, SceneStays DEF Kinds, Chains, Stores, Pools, Tasks, Heals
  <2>2. Desks'  BY <1>0, <1>1, <1>2, SceneStays DEF Kinds, Desks
  <2> QED  BY <1>0, <1>1, <2>1, <2>2 DEF Kinds
<1>4. ASSUME NEW m \in Node PROVE NodeInv(m)'
      BY <1>0, <1>1, Frame DEF Still
<1> QED  BY <1>3, <1>4 DEF IInv, NodeInv

-----------------------------------------------------------------------------
(* Steps of the loop that add a block.                                      *)

LEMMA BlockEvents ==
    ASSUME NEW b \in Block, NEW e \in ToSet(b)
    PROVE  e \in Expected /\ e \in Event
BY DEF Block, ToSet, Expected, Genuine

(* A block of which no event names a row.                                   *)
LEMMA UnnamedSame ==
    ASSUME NEW t \in Tables, NEW rows, NEW b \in Seq(Event),
           \A e \in ToSet(b) : Rows(e) \subseteq rows
    PROVE  Same(t, apply_event_projections(t, b), rows)
<1> DEFINE E == {e \in Event : Rows(e) \subseteq rows}
<1>1. \A i \in 1..Len(b) : b[i] \in E  BY DEF ToSet
<1>2. b \in Seq(E)
  <2> HIDE DEF E
  <2> QED  BY <1>1
<1> QED  BY <1>2, BlockSame

(* Passports of citizens whose rows are locked are spared by events that do *)
(* not wait for a lock.                                                     *)
LEMMA EventsSpare ==
    ASSUME OneEach(Pairs), NEW locks, NEW t \in Tables, NEW b \in Block,
           \A e \in ToSet(b) : Rows(e) \cap locks = {}
    PROVE  Spared(Pairs, locks, t, apply_event_projections(t, b))
<1> DEFINE u == apply_event_projections(t, b)
<1> SUFFICES ASSUME NEW p \in Passport, NEW c \in Citizen, <<p, c>> \in Pairs,
                    <<"citizen", c>> \in locks
             PROVE  u.passports[p] = t.passports[p]
    BY DEF Spared
<1> DEFINE x == <<"passport", p>>
           rows == UNION {Rows(e) : e \in ToSet(b)}
<1>1. ASSUME NEW e \in ToSet(b), x \in Rows(e) PROVE FALSE
  <2>1. e \in Expected /\ e \in Event  BY BlockEvents
  <2>2. e.kind \in {"PassportIssued", "PassportRevoked"} /\ e.passport = p
        BY <1>1, <2>1, RowsOf
  <2>3. e.citizen \in Citizen /\ <<p, e.citizen>> \in Pairs
        BY <2>1, <2>2 DEF Event, Expected, Genuine
  <2>4. e.citizen = c  BY <2>3 DEF OneEach
  <2>5. <<"citizen", c>> \in Rows(e)  BY <2>1, <2>3, <2>4, RowsOf
  <2> QED  BY <2>5
<1>2. b \in Seq(Event)
  <2>1. Expected \subseteq Event  BY DEF Expected, Genuine
  <2> QED  BY <2>1, SeqMonotonic DEF Block
<1>3. \A e \in ToSet(b) : Rows(e) \subseteq rows  OBVIOUS
<1>4. x \notin rows  BY <1>1
<1> HIDE DEF rows
<1>5. Same(t, u, rows)  BY <1>2, <1>3, UnnamedSame
<1> QED  BY <1>4, <1>5 DEF Same

LEMMA BlockAdded ==
    ASSUME IInv, NEW n \in Node, ~Replaying(n), NEW block \in Block, AddBlock(n, block),
           UNCHANGED <<scene, due, task, heal, rebuilt, desk>>
    PROVE  IInv'
<1> DEFINE t == apply_event_projections(tables[n], block)
<1>0. Kinds /\ \A m \in Node : NodeInv(m)  BY DEF IInv, NodeInv
<1>1. /\ t.ok /\ Unlocked(n, block)
      /\ chain' = [chain EXCEPT ![n] = Append(@, block)]
      /\ tables' = [tables EXCEPT ![n] = t]
      /\ pending' = [pending EXCEPT ![n] = {e \in @ : e.id \notin Ids(ToSet(block))}]
      BY DEF AddBlock, Commit
<1>2. UNCHANGED <<scene, due, task, heal, rebuilt>> /\ UNCHANGED <<at, wire, password, writer, now>>
      BY DEF desk
<1>3. /\ tables[n] \in Rightful(Pairs) /\ tables[n] \in Tables
      /\ task[n].own \in Rightful(Pairs) /\ task[n].own \in Tables
      /\ chain[n] \in Seq(Block)
      BY <1>0, SeenRows DEF Kinds, Chains
<1>4. t \in Rightful(Pairs)  BY <1>3, BlockRightful DEF Block, Expected
<1>5. block \in Seq(Event) /\ Seq(Block) \subseteq Seq(Seq(Event))
  <2>1. Expected \subseteq Event  BY DEF Expected, Genuine
  <2>2. Block \subseteq Seq(Event)  BY <2>1, SeqMonotonic DEF Block
  <2> QED  BY <2>2, SeqMonotonic
<1>6. Kept(tables[n], t)  BY <1>3, <1>5, BlockKeeps
<1>7. Same(tables[n], t, UNION {Rows(e) : e \in ToSet(block)})
  <2> DEFINE rows == UNION {Rows(e) : e \in ToSet(block)}
  <2>1. \A e \in ToSet(block) : Rows(e) \subseteq rows  OBVIOUS
  <2> HIDE DEF rows
  <2>2. Same(tables[n], t, rows)  BY <1>3, <1>5, <2>1, UnnamedSame
  <2> QED  BY <2>2 DEF rows
<1>8. \A x \in task[n].locks : x \notin UNION {Rows(e) : e \in ToSet(block)}
      BY <1>1 DEF Unlocked
<1>9. t.ok = TRUE  BY <1>1, <1>6 DEF Kept, Tables
<1>10. OneEach(Pairs) => Spared(Pairs, task[n].locks, tables[n], t)
       BY <1>1, <1>3, EventsSpare DEF Unlocked
<1>11. OneEach(Pairs) /\ tables[n] \in Backed(Pairs) => t \in Backed(Pairs)
       BY BlockBacked DEF Block, Expected
<1>12. rebuilt[n] /\ tables[n] = Fold(chain[n]) => t = Fold(Append(chain[n], block))
       BY <1>3, <1>5, FoldAppended
<1> HIDE DEF t
<1>13. /\ tables'[n] = t /\ chain'[n] = Append(chain[n], block)
       /\ \A m \in Node \ {n} : tables'[m] = tables[m] /\ chain'[m] = chain[m]
       BY <1>0, <1>1 DEF Kinds, Chains, Stores
<1>14. Kinds'
  <2>1. Append(chain[n], block) \in Seq(Block)  BY <1>3
  <2>2. Chains'  BY <1>0, <1>1, <1>2, <2>1, SceneStays DEF Kinds, Chains
  <2>3. Stores'  BY <1>0, <1>1, <1>2, <1>4, <1>9, SceneStays DEF Kinds, Stores
  <2>4. Pools'
    <3>1. pending' \in [Node -> SUBSET Expected]  BY <1>0, <1>1 DEF Kinds, Pools
    <3>2. ASSUME NEW m \in Node PROVE IsFiniteSet(pending'[m])
      <4>1. pending'[m] \subseteq pending[m]  BY <1>0, <1>1 DEF Kinds, Pools
      <4>2. IsFiniteSet(pending[m])  BY <1>0 DEF Kinds, Pools
      <4> QED  BY <4>1, <4>2, FS_Subset
    <3> QED  BY <1>0, <1>2, <3>1, <3>2, SceneStays DEF Kinds, Pools
  <2>5. (Tasks /\ Heals /\ Desks)'
        BY <1>0, <1>2, SceneStays DEF Kinds, Tasks, Heals, Desks
  <2> QED  BY <1>0, <1>2, <2>2, <2>3, <2>4, <2>5 DEF Kinds
<1>15. NodeInv(n)'
  <2> DEFINE v == Overlay(t, task[n].own, task[n].locks)
  <2>1. Seen(n)' = v /\ ~Replaying(n)' /\ heal'[n].step # "read"
        BY <1>2, <1>13 DEF Seen, Replaying
  <2>2. t \in Tables  BY <1>6 DEF Kept
  <2>3. /\ \A c \in Citizen : v.citizens[c] = IF <<"citizen", c>> \in task[n].locks
                                              THEN task[n].own.citizens[c] ELSE t.citizens[c]
        BY <1>3, <2>2, OverlaidRows
  <2>4. /\ \A c \in Citizen : Seen(n).citizens[c] = IF <<"citizen", c>> \in task[n].locks
                                                   THEN task[n].own.citizens[c]
                                                   ELSE tables[n].citizens[c]
        BY <1>3, OverlaidRows DEF Seen
  <2>5. OneEach(Pairs) => v \in Backed(Pairs)
        BY <1>0, <1>3, <1>10, <1>11, OverlaidBacked DEF NodeInv, Stocked, Seen
  <2> HIDE DEF v
  <2>6. ASSUME NEW c \in Citizen, Known(t, c) PROVE Known(v, c)
    <3>1. CASE <<"citizen", c>> \in task[n].locks
      <4>1. t.citizens[c] = tables[n].citizens[c]  BY <1>7, <1>8, <3>1 DEF Same
      <4>2. Known(Seen(n), c)  BY <1>0, <2>6, <4>1 DEF NodeInv, Refers, Known
      <4> QED  BY <2>3, <2>4, <3>1, <4>2 DEF Known
    <3>2. CASE <<"citizen", c>> \notin task[n].locks  BY <2>3, <2>6, <3>2 DEF Known
    <3> QED  BY <3>1, <3>2
  <2>7. \A c \in password[n] \cup writer[n] : c \in Citizen /\ Known(tables[n], c)
        BY <1>0 DEF Kinds, Desks, NodeInv, Refers
  <2>8. Refers(n)'  BY <1>2, <1>6, <1>13, <2>1, <2>6, <2>7 DEF Refers, Kept
  <2>9. Watched(n)'
        BY <1>0, <1>2, <1>12, <1>13, <2>1, SceneStays DEF NodeInv, Watched
  <2>10. Stocked(n)'
        BY <1>0, <1>2, <1>11, <1>13, <2>1, <2>5, SceneStays DEF NodeInv, Stocked
  <2> QED  BY <2>8, <2>9, <2>10 DEF NodeInv
<1>16. ASSUME NEW m \in Node PROVE NodeInv(m)'
  <2>1. CASE m = n  BY <1>15, <2>1
  <2>2. CASE m # n  BY <1>0, <1>2, <1>13, <2>2, Frame DEF Still
  <2> QED  BY <2>1, <2>2
<1> QED  BY <1>14, <1>16 DEF IInv, NodeInv

LEMMA ProduceStep ==
    ASSUME IInv, NEW n \in Node, NEW peers \in SUBSET (Node \ {n}), Produce(n, peers)
    PROVE  IInv'
<1>1. PICK block \in Collected(n, peers) : AddBlock(n, block)  BY DEF Produce
<1>2. block \in Block  BY CollectedBlock DEF IInv
<1>3. ~Replaying(n) /\ UNCHANGED <<scene, due, task, heal, rebuilt, desk>>
      BY DEF Produce, Replaying
<1> QED  BY <1>1, <1>2, <1>3, BlockAdded

LEMMA SyncStep ==
    ASSUME IInv, NEW n \in Node, NEW m \in Node, Sync(n, m)
    PROVE  IInv'
<1> DEFINE block == chain[m][Len(chain[n]) + 1]
<1>1. AddBlock(n, block) /\ Len(chain[n]) < Len(chain[m])  BY DEF Sync
<1>2. chain[n] \in Seq(Block) /\ chain[m] \in Seq(Block)  BY DEF IInv, Kinds, Chains
<1>3. block \in Block  BY <1>1, <1>2
<1>4. ~Replaying(n) /\ UNCHANGED <<scene, due, task, heal, rebuilt, desk>>
      BY DEF Sync, Replaying
<1> QED  BY <1>1, <1>3, <1>4, BlockAdded

(* The heal of a node that is not replaying ends or goes on with no rows.   *)
LEMMA HealMoves ==
    ASSUME IInv, NEW n \in Node, NEW h \in Heal, h.gone.ok = TRUE,
           h.step \notin {"cleared", "read"}, heal' = [heal EXCEPT ![n] = h],
           UNCHANGED <<scene, chain, tables, pending, due, task, rebuilt>>,
           UNCHANGED <<at, wire, password, writer, now>>
    PROVE  IInv'
<1>0. Kinds /\ \A m \in Node : NodeInv(m)  BY DEF IInv, NodeInv
<1>1. /\ heal'[n] = h /\ \A m \in Node \ {n} : heal'[m] = heal[m]
      BY <1>0 DEF Kinds, Heals
<1>2. Kinds'
  <2>1. (Chains /\ Stores /\ Pools /\ Tasks /\ Desks)'
        BY <1>0, SceneStays DEF Kinds, Chains, Stores, Pools, Tasks, Desks
  <2>2. Heals'  BY <1>0, <1>1, SceneStays DEF Kinds, Heals
  <2> QED  BY <1>0, <2>1, <2>2 DEF Kinds
<1>3. NodeInv(n)'
  <2>1. Seen(n)' = Seen(n) /\ ~Replaying(n)' /\ heal'[n].step # "read"
        BY <1>1 DEF Seen, Replaying
  <2>2. Refers(n)'  BY <1>0, <2>1 DEF NodeInv, Refers
  <2>3. Watched(n)'  BY <1>0, <2>1, SceneStays DEF NodeInv, Watched
  <2>4. Stocked(n)'  BY <1>0, <2>1, SceneStays DEF NodeInv, Stocked
  <2> QED  BY <2>2, <2>3, <2>4 DEF NodeInv
<1>4. ASSUME NEW m \in Node PROVE NodeInv(m)'
  <2>1. CASE m = n  BY <1>3, <2>1
  <2>2. CASE m # n  BY <1>0, <1>1, <2>2, Frame DEF Still
  <2> QED  BY <2>1, <2>2
<1> QED  BY <1>2, <1>4 DEF IInv, NodeInv

LEMMA AdoptStep ==
    ASSUME IInv, NEW n \in Node, Adopt(n)
    PROVE  IInv'
<1> DEFINE copy == heal[n].copy
           block == copy[Len(chain[n]) + 1]
<1>1. /\ ~Replaying(n)
      /\ UNCHANGED <<scene, due, task, rebuilt, desk>>
      BY DEF Adopt, Replaying
<1>2. CASE Len(chain[n]) < Len(copy) /\ AddBlock(n, block) /\ UNCHANGED heal
  <2>1. copy \in Seq(Block) /\ chain[n] \in Seq(Block)  BY DEF IInv, Kinds, Chains, Heals, Heal
  <2> HIDE DEF copy
  <2>2. block \in Block  BY <1>2, <2>1
  <2> QED  BY <1>1, <1>2, <2>2, BlockAdded
<1>3. CASE heal' = [heal EXCEPT ![n] = NoHeal] /\ UNCHANGED <<chain, tables, pending>>
      BY <1>1, <1>3, NoTaskTypes, HealMoves DEF desk
<1> QED  BY <1>2, <1>3 DEF Adopt

-----------------------------------------------------------------------------
(* Steps of the tasks.                                                      *)

(* What must hold of a task, for the invariant, if only it changes.         *)
LEMMA TaskMoves ==
    ASSUME IInv, NEW n \in Node, NEW x \in Task, x.own.ok = TRUE,
           task' = [task EXCEPT ![n] = x],
           due' \in [Node -> Nat], Observer(n) => due'[n] = 0,
           \A m \in Node \ {n} : due'[m] = due[m],
           UNCHANGED <<scene, chain, tables, pending, heal, rebuilt>>,
           UNCHANGED <<at, wire, password, writer, now>>,
           NEW v, v = Overlay(tables[n], x.own, x.locks),
           \A c \in Citizen : Known(tables[n], c) => Known(v, c),
           Observer(n) => ~x.open,
           OneEach(Pairs) =>
              /\ v \in Backed(Pairs) /\ Closed(Pairs, x.locks)
              /\ Replaying(n) => /\ x.locks \cap RowsIn(heal[n].gone) = {}
                                 /\ Apart(v, heal[n].gone)
    PROVE  IInv'
<1>0. Kinds /\ \A m \in Node : NodeInv(m)  BY DEF IInv, NodeInv
<1>1. task'[n] = x /\ \A m \in Node \ {n} : task'[m] = task[m]
      BY <1>0 DEF Kinds, Tasks
<1>2. Kinds'
  <2>1. (Chains /\ Stores /\ Pools /\ Desks /\ Heals)'
        BY <1>0, SceneStays DEF Kinds, Chains, Stores, Pools, Desks, Heals
  <2>2. Tasks'  BY <1>0, <1>1, SceneStays DEF Kinds, Tasks
  <2> QED  BY <1>0, <2>1, <2>2 DEF Kinds
<1>3. NodeInv(n)'
  <2>1. Seen(n)' = v /\ Replaying(n)' = Replaying(n)
        BY <1>1 DEF Seen, Replaying
  <2>2. Refers(n)'  BY <1>0, <2>1 DEF NodeInv, Refers
  <2>3. Watched(n)'  BY <1>0, <1>1, <2>1, SceneStays DEF NodeInv, Watched
  <2>4. Stocked(n)'  BY <1>0, <1>1, <2>1, SceneStays DEF NodeInv, Stocked
  <2> QED  BY <2>2, <2>3, <2>4 DEF NodeInv
<1>4. ASSUME NEW m \in Node PROVE NodeInv(m)'
  <2>1. CASE m = n  BY <1>3, <2>1
  <2>2. CASE m # n  BY <1>0, <1>1, <2>2, Frame DEF Still
  <2> QED  BY <2>1, <2>2
<1> QED  BY <1>2, <1>4 DEF IInv, NodeInv

(* A task that has written nothing, or goes as if it had not been.          *)
LEMMA TaskWithout ==
    ASSUME IInv, NEW n \in Node, NEW x \in Task, x.own.ok = TRUE, x.locks = {},
           task' = [task EXCEPT ![n] = x],
           due' \in [Node -> Nat], Observer(n) => due'[n] = 0,
           \A m \in Node \ {n} : due'[m] = due[m],
           UNCHANGED <<scene, chain, tables, pending, heal, rebuilt>>,
           UNCHANGED <<at, wire, password, writer, now>>,
           Observer(n) => ~x.open
    PROVE  IInv'
<1>1. tables[n] \in Tables /\ x.own \in Tables
      BY SeenRows DEF IInv, Task, Rightful
<1>2. tables[n] = Overlay(tables[n], x.own, x.locks)  BY <1>1, NothingOverlaid
<1>3. Refers(n) /\ Stocked(n)  BY DEF IInv
<1>4. OneEach(Pairs) =>
         /\ tables[n] \in Backed(Pairs) /\ Closed(Pairs, x.locks)
         /\ Replaying(n) => /\ x.locks \cap RowsIn(heal[n].gone) = {}
                            /\ Apart(tables[n], heal[n].gone)
      BY <1>3 DEF Stocked, Closed
<1> QED  BY <1>2, <1>4, TaskMoves

LEMMA AbortTaskStep ==
    ASSUME IInv, NEW n \in Node, AbortTask(n)
    PROVE  IInv'
<1>1. /\ task' = [task EXCEPT ![n] = NoTask]
      /\ UNCHANGED <<scene, chain, tables, pending, heal, rebuilt>>
      /\ UNCHANGED <<at, wire, password, writer, now>> /\ due' = due
      BY DEF AbortTask, desk
<1>2. due \in [Node -> Nat] /\ (Observer(n) => due[n] = 0)
      BY DEF IInv, Kinds, Tasks, Watched
<1> QED  BY <1>1, <1>2, NoTaskTypes, TaskWithout

LEMMA OpenTaskStep ==
    ASSUME IInv, NEW n \in Node, NEW peers \in SUBSET (Node \ {n}), OpenTask(n, peers)
    PROVE  IInv'
<1>0. Kinds /\ Watched(n)  BY DEF IInv
<1>1. /\ due[n] > 0 /\ due' = [due EXCEPT ![n] = @ - 1]
      /\ UNCHANGED <<scene, chain, tables, pending, heal, rebuilt>>
      /\ UNCHANGED <<at, wire, password, writer, now>>
      BY DEF OpenTask, desk
<1>2. due \in [Node -> Nat] /\ task \in [Node -> Task] /\ task[n] \in Task
      BY <1>0 DEF Kinds, Tasks
<1>3. ~Observer(n)  BY <1>0, <1>1 DEF Watched
<1>4. due' \in [Node -> Nat] /\ \A m \in Node \ {n} : due'[m] = due[m]
      BY <1>1, <1>2
<1>5. ~task[n].open  BY DEF OpenTask
<1>6. CASE UNCHANGED task
  <2>1. (Chains /\ Stores /\ Pools /\ Desks /\ Tasks /\ Heals)'
        BY <1>0, <1>1, <1>4, <1>6, SceneStays
        DEF Kinds, Chains, Stores, Pools, Desks, Tasks, Heals
  <2>2. ASSUME NEW m \in Node PROVE NodeInv(m)'
    <3>0. NodeInv(m)  BY DEF IInv, NodeInv
    <3>1. CASE m = n
      <4>1. Seen(n)' = Seen(n) /\ Replaying(n)' = Replaying(n)
            BY <1>1, <1>6 DEF Seen, Replaying
      <4>2. Refers(n)'  BY <1>1, <3>0, <3>1, <4>1 DEF NodeInv, Refers
      <4>3. Watched(n)'  BY <1>1, <1>3, SceneStays DEF Watched
      <4>4. Stocked(n)'  BY <1>1, <1>6, <3>0, <3>1, <4>1, SceneStays DEF NodeInv, Stocked
      <4> QED  BY <3>1, <4>2, <4>3, <4>4 DEF NodeInv
    <3>2. CASE m # n  BY <1>1, <1>4, <1>6, <3>0, <3>2, Frame DEF Still
    <3> QED  BY <3>1, <3>2
  <2> QED  BY <1>0, <1>1, <2>1, <2>2 DEF IInv, Kinds, NodeInv
<1>7. CASE \E block \in Collected(n, peers) :
              task' = [task EXCEPT ![n] = [NoTask EXCEPT !.open = TRUE, !.block = block,
                                                         !.rest = block]]
  <2>1. PICK block \in Collected(n, peers) :
           task' = [task EXCEPT ![n] = [NoTask EXCEPT !.open = TRUE, !.block = block,
                                                      !.rest = block]]
        BY <1>7
  <2>2. block \in Block  BY <1>0, CollectedBlock
  <2> DEFINE x == [NoTask EXCEPT !.open = TRUE, !.block = block, !.rest = block]
  <2>3. x \in Task /\ x.own.ok = TRUE /\ x.locks = {}
        BY <2>2, NoTaskTypes DEF Task
  <2>4. task' = [task EXCEPT ![n] = x]  BY <2>1
  <2> HIDE DEF x
  <2> QED  BY <1>1, <1>3, <1>4, <2>3, <2>4, TaskWithout
<1> QED  BY <1>6, <1>7 DEF OpenTask

LEMMA AnyRows ==
    ASSUME NEW t, NEW e \in Event
    PROVE  Rows(e) \subseteq AnyRow /\ Locks(t, e) \subseteq Rows(e)
           /\ (e.kind # "CitizenAdded" => Locks(t, e) = Rows(e))
<1>1. /\ e.citizen \in Citizen \cup {0} /\ e.passport \in Passport \cup {0}
      /\ e.kind = "CitizenAdded" => e.value \in Name
      BY DEF Event
<1>2. Rows(e) \subseteq AnyRow  BY <1>1 DEF Rows, AnyRow
<1> QED  BY <1>2 DEF Locks

(* The rows that the next event of a task writes.                           *)
LEMMA Widened ==
    ASSUME NEW pairs, NEW reissued, OneEach(pairs), NEW e \in Genuine(pairs, reissued), NEW locks,
           Closed(pairs, locks), NEW t, NEW more, more = Rows(e) \/ more = Locks(t, e)
    PROVE  Closed(pairs, locks \cup more)
<1>1. e \in Event  BY DEF Genuine
<1> SUFFICES ASSUME NEW x \in pairs, <<"passport", x[1]>> \in more
             PROVE  <<"citizen", x[2]>> \in more
    BY DEF Closed
<1>2. <<"passport", x[1]>> \in Rows(e)  BY <1>1, AnyRows
<1>3. e.kind \in {"PassportIssued", "PassportRevoked"} /\ e.passport = x[1]
      BY <1>1, <1>2, RowsOf
<1>4. more = Rows(e)  BY <1>1, <1>3, AnyRows
<1>5. <<e.passport, e.citizen>> \in pairs  BY <1>3 DEF Genuine
<1>6. e.citizen = x[2]  BY <1>3, <1>5 DEF OneEach
<1>7. e.citizen \in Citizen  BY <1>1, <1>3 DEF Event
<1> QED  BY <1>1, <1>4, <1>6, <1>7, RowsOf

(* A new passport is of a citizen that the replay has not deleted.          *)
LEMMA StillApart ==
    ASSUME NEW t \in Tables, NEW e \in Event, NEW held,
           NEW u, u = Apply(t, e) \/ u = Missed(t, e, held), NEW gone \in Tables,
           Apart(t, gone), e.kind # "CitizenAdded" => Rows(e) \cap RowsIn(gone) = {}
    PROVE  Apart(u, gone)
<1> SUFFICES ASSUME NEW p \in Passport, Issued(u, p), ~Issued(gone, p)
             PROVE  ~Known(gone, u.passports[p].citizen)
    BY DEF Apart
<1>1. CASE Plain(t, u)  BY <1>1 DEF Plain, Apart, Issued
<1>2. CASE /\ e.kind = "PassportIssued" /\ e.value # "malformed"
           /\ Issued(t, e.passport) \/ Known(t, e.citizen)
           /\ u = apply_passport_issued(t, e)
  <2>1. /\ u.passports[e.passport].citizen = IF Issued(t, e.passport)
                                             THEN t.passports[e.passport].citizen
                                             ELSE e.citizen
        /\ \A q \in Passport \ {e.passport} : u.passports[q] = t.passports[q]
        BY <1>2, IssuedRows
  <2>2. e.citizen \in Citizen  BY <1>2 DEF Event
  <2>3. ~Known(gone, e.citizen)
        BY <1>2, <2>2, RowsOf, RowsInTable
  <2> QED  BY <2>1, <2>3 DEF Apart, Issued
<1>3. CASE e.kind = "PassportRevoked" /\ u = apply_passport_revoked(t, e)
      BY <1>3, RevokedRows DEF Apart
<1> QED  BY <1>1, <1>2, <1>3, AppliedCases

LEMMA ProjectEventStep ==
    ASSUME IInv, NEW n \in Node, ProjectEvent(n)
    PROVE  IInv'
<1> DEFINE x == task[n]
           e == Head(x.rest)
           locks == IF x.held = {} THEN Locks(Seen(n), e) ELSE Rows(e)
           blocked == locks \cap Deleted(n)
           t == IF x.held = {} THEN Apply(Seen(n), e) ELSE Missed(Seen(n), e, x.held)
           y == [x EXCEPT !.rest = Tail(@), !.own = t, !.held = {}, !.locks = @ \cup locks]
           s == Seen(n)
<1>0. Kinds /\ Refers(n) /\ Watched(n) /\ Stocked(n)  BY DEF IInv
<1>1. /\ UNCHANGED <<scene, chain, tables, pending, heal, rebuilt>>
      /\ UNCHANGED <<at, wire, password, writer, now>> /\ due' = due
      BY DEF ProjectEvent, desk
<1>2. due \in [Node -> Nat] /\ (Observer(n) => due[n] = 0 /\ ~x.open)
      BY <1>0 DEF Kinds, Tasks, Watched
<1>3. /\ s \in Rightful(Pairs) /\ s \in Tables /\ s.ok = TRUE
      /\ tables[n] \in Tables /\ tables[n].ok = TRUE
      /\ x \in Task /\ x.own \in Rightful(Pairs) /\ x.own \in Tables /\ x.own.ok = TRUE
      /\ x.rest \in Block /\ x.rest # <<>>
      BY <1>0, SeenRows DEF Kinds, Stores, Tasks, Task, ProjectEvent
<1>4. e \in Expected /\ e \in Event
      BY <1>3 DEF Block, Expected, Genuine
<1>5. s = Overlay(tables[n], x.own, x.locks)  BY DEF Seen
<1>6. locks \subseteq Rows(e) /\ Rows(e) \subseteq AnyRow
      BY <1>4, AnyRows
<1>7. t = Apply(s, e) \/ t = Missed(s, e, x.held)  OBVIOUS
<1>8. locks = Rows(e) \/ locks = Locks(s, e)  OBVIOUS
<1>9. Same(s, t, locks)  BY <1>3, <1>4, AppliedSame
<1>10. heal[n].gone \in Tables  BY <1>0 DEF Kinds, Heals, Heal, Rightful
<1>11. \/ blocked # {} /\ task' = [task EXCEPT ![n].held = blocked]
       \/ /\ blocked = {}
          /\ task' = IF t.ok THEN [task EXCEPT ![n] = y] ELSE [task EXCEPT ![n] = NoTask]
       BY DEF ProjectEvent
<1>12. e.kind # "CitizenAdded" => locks = Rows(e)  BY <1>4, AnyRows
<1> HIDE DEF s, t, locks
<1>13. t \in Rightful(Pairs) /\ Kept(s, t) /\ t \in Tables
       BY <1>3, <1>4, <1>7, AppliedRightful, AppliedKept DEF Expected, Kept
<1>14. CASE blocked # {} /\ task' = [task EXCEPT ![n].held = blocked]
  <2> DEFINE z == [x EXCEPT !.held = blocked]
  <2>1. task' = [task EXCEPT ![n] = z]  BY <1>14
  <2>2. z \in Task /\ z.own = x.own /\ z.locks = x.locks /\ z.open = x.open
        BY <1>3, <1>6 DEF Task
  <2>3. s = Overlay(tables[n], z.own, z.locks)  BY <1>5, <2>2
  <2>4. \A c \in Citizen : Known(tables[n], c) => Known(s, c)  BY <1>0 DEF Refers, s
  <2>5. OneEach(Pairs) =>
           /\ s \in Backed(Pairs) /\ Closed(Pairs, z.locks)
           /\ Replaying(n) => /\ z.locks \cap RowsIn(heal[n].gone) = {}
                              /\ Apart(s, heal[n].gone)
        BY <1>0, <2>2 DEF Stocked, s
  <2> HIDE DEF z, blocked
  <2> QED  BY <1>1, <1>2, <1>3, <2>1, <2>2, <2>3, <2>4, <2>5, TaskMoves
<1>15. CASE blocked = {} /\ t.ok /\ task' = [task EXCEPT ![n] = y]
  <2>1. t.ok = TRUE  BY <1>13, <1>15 DEF Tables
  <2>2. Tail(x.rest) \in Block  BY <1>3 DEF Block
  <2>3. y \in Task /\ y.own = t /\ y.locks = x.locks \cup locks /\ y.open = x.open
        BY <1>3, <1>6, <1>13, <2>2 DEF Task
  <2>4. t = Overlay(tables[n], y.own, y.locks)
        BY <1>3, <1>5, <1>9, <1>13, <2>1, <2>3, WrittenOverlaid
  <2>5. \A c \in Citizen : Known(tables[n], c) => Known(t, c)
        BY <1>0, <1>13 DEF Refers, Kept, s
  <2>6. ASSUME OneEach(Pairs)
        PROVE  /\ t \in Backed(Pairs) /\ Closed(Pairs, y.locks)
               /\ Replaying(n) => /\ y.locks \cap RowsIn(heal[n].gone) = {}
                                  /\ Apart(t, heal[n].gone)
    <3>1. /\ s \in Backed(Pairs) /\ Closed(Pairs, x.locks)
          /\ Replaying(n) => /\ x.locks \cap RowsIn(heal[n].gone) = {}
                             /\ Apart(s, heal[n].gone)
          BY <1>0, <2>6 DEF Stocked, s
    <3>2. t \in Backed(Pairs)  BY <1>4, <1>7, <2>6, <3>1, AppliedBacked DEF Expected
    <3>3. Closed(Pairs, y.locks)
      <4>1. e \in Genuine(Pairs, Reissued) /\ OneEach(Pairs) /\ Closed(Pairs, x.locks)
            BY <1>4, <2>6, <3>1 DEF Expected
      <4> HIDE DEF e, x
      <4>2. Closed(Pairs, x.locks \cup locks)  BY <1>8, <4>1, Widened
      <4> QED  BY <2>3, <4>2
    <3>4. Replaying(n) => locks \cap RowsIn(heal[n].gone) = {}  BY <1>15 DEF Deleted
    <3>5. ASSUME Replaying(n) PROVE Apart(t, heal[n].gone)
      <4> DEFINE gone == heal[n].gone
      <4>1. /\ gone \in Tables /\ Apart(s, gone) /\ s \in Tables /\ e \in Event
            /\ e.kind # "CitizenAdded" => Rows(e) \cap RowsIn(gone) = {}
            BY <1>3, <1>4, <1>10, <1>12, <3>1, <3>4, <3>5
      <4> HIDE DEF e, x, gone
      <4>2. Apart(t, gone)  BY <1>7, <4>1, StillApart
      <4> QED  BY <4>2 DEF gone
    <3> QED  BY <2>3, <3>1, <3>2, <3>3, <3>4, <3>5
  <2> HIDE DEF y, blocked
  <2> QED  BY <1>1, <1>2, <1>15, <2>1, <2>3, <2>4, <2>5, <2>6, TaskMoves
<1>16. CASE task' = [task EXCEPT ![n] = NoTask]
       BY <1>1, <1>2, <1>16, NoTaskTypes, TaskWithout
<1> QED  BY <1>11, <1>14, <1>15, <1>16

LEMMA CommitTaskStep ==
    ASSUME IInv, NEW n \in Node, CommitTask(n)
    PROVE  IInv'
<1> DEFINE s == Seen(n)
<1>0. Kinds /\ \A m \in Node : NodeInv(m)  BY DEF IInv, NodeInv
<1>1. /\ task[n].open /\ task' = [task EXCEPT ![n] = NoTask]
      /\ chain' = [chain EXCEPT ![n] = Append(@, task[n].block)]
      /\ tables' = [tables EXCEPT ![n] = s]
      /\ pending' = [pending EXCEPT ![n] = {e \in @ : e.id \notin Ids(ToSet(task[n].block))}]
      /\ UNCHANGED <<scene, due, heal, rebuilt>>
      /\ UNCHANGED <<at, wire, password, writer, now>>
      BY DEF CommitTask, Commit, desk
<1>2. /\ s \in Rightful(Pairs) /\ s \in Tables /\ s.ok = TRUE /\ task[n].block \in Block
      /\ tables[n] \in Tables
      BY <1>0, SeenRows DEF Task
<1>3. ~Observer(n)  BY <1>0, <1>1 DEF NodeInv, Watched
<1>4. \A c \in Citizen : Known(tables[n], c) => Known(s, c)
      BY <1>0 DEF NodeInv, Refers
<1>5. /\ tables'[n] = s /\ task'[n] = NoTask
      /\ \A m \in Node \ {n} : tables'[m] = tables[m] /\ chain'[m] = chain[m] /\ task'[m] = task[m]
      BY <1>0, <1>1 DEF Kinds, Chains, Stores, Tasks
<1>6. OneEach(Pairs) =>
         /\ s \in Backed(Pairs)
         /\ Replaying(n) => Apart(s, heal[n].gone) /\ Stands(s, heal[n].gone)
  <2> SUFFICES ASSUME OneEach(Pairs), Replaying(n)
               PROVE  Stands(s, heal[n].gone)
      BY <1>0 DEF NodeInv, Stocked
  <2>1. /\ task[n].locks \cap RowsIn(heal[n].gone) = {}
        /\ Stands(tables[n], heal[n].gone)
        BY <1>0 DEF NodeInv, Stocked
  <2>0. s = Overlay(tables[n], task[n].own, task[n].locks) /\ task[n].own \in Tables
        BY <1>0, SeenRows DEF Seen
  <2> HIDE DEF s
  <2>2. /\ \A c \in Citizen : s.citizens[c] = IF <<"citizen", c>> \in task[n].locks
                                              THEN task[n].own.citizens[c]
                                              ELSE tables[n].citizens[c]
        /\ \A p \in Passport : s.passports[p] = IF <<"passport", p>> \in task[n].locks
                                                THEN task[n].own.passports[p]
                                                ELSE tables[n].passports[p]
        BY <1>2, <2>0, OverlaidRows
  <2>3. \A c \in Citizen : Known(heal[n].gone, c) => <<"citizen", c>> \notin task[n].locks
        BY <2>1, RowsInTable
  <2>4. \A p \in Passport : Issued(heal[n].gone, p) => <<"passport", p>> \notin task[n].locks
        BY <2>1, RowsInTable
  <2> QED  BY <2>1, <2>2, <2>3, <2>4 DEF Stands
<1> HIDE DEF s
<1>7. Kinds'
  <2>1. Chains'
    <3>1. chain[n] \in Seq(Block)  BY <1>0 DEF Kinds, Chains
    <3>2. Append(chain[n], task[n].block) \in Seq(Block)  BY <1>2, <3>1
    <3> QED  BY <1>0, <1>1, <3>2, SceneStays DEF Kinds, Chains
  <2>2. Stores'  BY <1>0, <1>1, <1>2, SceneStays DEF Kinds, Stores
  <2>3. Pools'
    <3>1. pending' \in [Node -> SUBSET Expected]  BY <1>0, <1>1 DEF Kinds, Pools
    <3>2. ASSUME NEW m \in Node PROVE IsFiniteSet(pending'[m])
      <4>1. pending'[m] \subseteq pending[m]  BY <1>0, <1>1 DEF Kinds, Pools
      <4>2. IsFiniteSet(pending[m])  BY <1>0 DEF Kinds, Pools
      <4> QED  BY <4>1, <4>2, FS_Subset
    <3> QED  BY <1>0, <1>1, <3>1, <3>2, SceneStays DEF Kinds, Pools
  <2>4. Tasks'  BY <1>0, <1>1, NoTaskTypes, SceneStays DEF Kinds, Tasks
  <2>5. (Heals /\ Desks)'  BY <1>0, <1>1, SceneStays DEF Kinds, Heals, Desks
  <2> QED  BY <1>0, <1>1, <2>1, <2>2, <2>3, <2>4, <2>5 DEF Kinds
<1>8. NodeInv(n)'
  <2>1. Overlay(s, NoTask.own, NoTask.locks) = s
        BY <1>2, NoTaskTypes, EmptyRows, NothingOverlaid
  <2>2. Seen(n)' = s /\ Replaying(n)' = Replaying(n)
        BY <1>1, <1>5, <2>1 DEF Seen, Replaying
  <2>3. \A c \in password[n] \cup writer[n] : c \in Citizen /\ Known(tables[n], c)
        BY <1>0 DEF Kinds, Desks, NodeInv, Refers
  <2>4. Refers(n)'  BY <1>0, <1>1, <1>4, <1>5, <2>2, <2>3 DEF NodeInv, Refers
  <2>5. Watched(n)'  BY <1>1, <1>3, SceneStays DEF Watched
  <2>6. Stocked(n)'
    <3>1. task'[n].locks = {}  BY <1>5, NoTaskTypes
    <3> QED  BY <1>0, <1>1, <1>5, <1>6, <2>2, <3>1, SceneStays DEF NodeInv, Stocked, Closed
  <2> QED  BY <2>4, <2>5, <2>6 DEF NodeInv
<1>9. ASSUME NEW m \in Node PROVE NodeInv(m)'
  <2>1. CASE m = n  BY <1>8, <2>1
  <2>2. CASE m # n  BY <1>0, <1>1, <1>5, <2>2, Frame DEF Still
  <2> QED  BY <2>1, <2>2
<1> QED  BY <1>7, <1>9 DEF IInv, NodeInv

-----------------------------------------------------------------------------
(* Steps of the loop that give up a fork.                                   *)

LEMMA TruncateStep ==
    ASSUME IInv, NEW n \in Node, NEW m \in Node, Truncate(n, m)
    PROVE  IInv'
<1>0. Kinds /\ \A l \in Node : NodeInv(l)  BY DEF IInv, NodeInv
<1>1. PICK k \in Fork(n, m) : chain' = [chain EXCEPT ![n] = SubSeq(@, 1, k - 1)]
      BY DEF Truncate
<1> DEFINE h == [NoHeal EXCEPT !.step = "truncated", !.copy = chain[m]]
<1>2. /\ heal' = [heal EXCEPT ![n] = h]
      /\ rebuilt' = [rebuilt EXCEPT ![n] = FALSE]
      /\ UNCHANGED <<scene, tables, pending, due, task>>
      /\ UNCHANGED <<at, wire, password, writer, now>>
      BY DEF Truncate, desk
<1>3. chain[n] \in Seq(Block) /\ chain[m] \in Seq(Block)  BY <1>0 DEF Kinds, Chains
<1>4. h \in Heal /\ h.gone.ok = TRUE /\ h.step = "truncated"
      BY <1>3, NoTaskTypes DEF Heal, Steps
<1> HIDE DEF h
<1>5. SubSeq(chain[n], 1, k - 1) \in Seq(Block)
  <2>1. k \in Nat /\ 1 <= k /\ k <= Len(chain[n])
        BY <1>1, CitizensAssumption DEF Fork
  <2>2. Len(chain[n]) \in Nat /\ chain[n] \in [1..Len(chain[n]) -> Block]  BY <1>3
  <2>3. \A i \in 1..(k - 1) : chain[n][i] \in Block  BY <2>1, <2>2
  <2>4. SubSeq(chain[n], 1, k - 1) = [i \in 1..(k - 1) |-> chain[n][i]]
        BY <1>3, <2>1, <2>2
  <2>5. [i \in 1..(k - 1) |-> chain[n][i]] \in Seq(Block)  BY <2>1, <2>3
  <2> QED  BY <2>4, <2>5
<1>6. /\ heal'[n] = h /\ rebuilt'[n] = FALSE
      /\ \A l \in Node \ {n} : heal'[l] = heal[l] /\ rebuilt'[l] = rebuilt[l] /\ chain'[l] = chain[l]
      BY <1>0, <1>1, <1>2 DEF Kinds, Chains, Heals
<1>7. Kinds'
  <2>1. Chains'  BY <1>0, <1>1, <1>2, <1>5, SceneStays DEF Kinds, Chains
  <2>2. (Stores /\ Pools /\ Tasks /\ Desks)'
        BY <1>0, <1>2, SceneStays DEF Kinds, Stores, Pools, Tasks, Desks
  <2>3. Heals'  BY <1>0, <1>2, <1>4, <1>6, SceneStays DEF Kinds, Heals
  <2> QED  BY <1>0, <1>2, <2>1, <2>2, <2>3 DEF Kinds
<1>8. NodeInv(n)'
  <2>1. Seen(n)' = Seen(n) /\ ~Replaying(n)' /\ heal'[n].step # "read"
        BY <1>2, <1>4, <1>6 DEF Seen, Replaying
  <2>2. Refers(n)'  BY <1>0, <1>2, <2>1 DEF NodeInv, Refers
  <2>3. Watched(n)'  BY <1>0, <1>2, <1>6, <2>1, SceneStays DEF NodeInv, Watched
  <2>4. Stocked(n)'  BY <1>0, <1>2, <2>1, SceneStays DEF NodeInv, Stocked
  <2> QED  BY <2>2, <2>3, <2>4 DEF NodeInv
<1>9. ASSUME NEW l \in Node PROVE NodeInv(l)'
  <2>1. CASE l = n  BY <1>8, <2>1
  <2>2. CASE l # n  BY <1>0, <1>2, <1>6, <2>2, Frame DEF Still
  <2> QED  BY <2>1, <2>2
<1> QED  BY <1>7, <1>9 DEF IInv, NodeInv

(* A replay that has begun, or read the blocks.                             *)
LEMMA HealGoesOn ==
    ASSUME IInv, NEW n \in Node, NEW h \in Heal, h.gone.ok = TRUE,
           heal' = [heal EXCEPT ![n] = h],
           UNCHANGED <<scene, chain, tables, pending, due, task, rebuilt>>,
           UNCHANGED <<at, wire, password, writer, now>>,
           h.step \in {"cleared", "read"}, writer[n] = {},
           Observer(n) => h.gone = tables[n] /\ (h.step = "read" => h.read = chain[n]),
           OneEach(Pairs) =>
              /\ h.gone \in Backed(Pairs)
              /\ task[n].locks \cap RowsIn(h.gone) = {}
              /\ Stands(tables[n], h.gone)
              /\ Apart(tables[n], h.gone) /\ Apart(Seen(n), h.gone)
    PROVE  IInv'
<1>0. Kinds /\ \A m \in Node : NodeInv(m)  BY DEF IInv, NodeInv
<1>1. /\ heal'[n] = h /\ \A m \in Node \ {n} : heal'[m] = heal[m]
      BY <1>0 DEF Kinds, Heals
<1>2. Kinds'
  <2>1. (Chains /\ Stores /\ Pools /\ Tasks /\ Desks)'
        BY <1>0, SceneStays DEF Kinds, Chains, Stores, Pools, Tasks, Desks
  <2>2. Heals'  BY <1>0, <1>1, SceneStays DEF Kinds, Heals
  <2> QED  BY <1>0, <2>1, <2>2 DEF Kinds
<1>3. NodeInv(n)'
  <2>1. Seen(n)' = Seen(n)  BY DEF Seen
  <2>2. Refers(n)'  BY <1>0, <2>1 DEF NodeInv, Refers
  <2>3. Watched(n)'  BY <1>0, <1>1, SceneStays DEF NodeInv, Watched
  <2>4. Stocked(n)'  BY <1>0, <1>1, <2>1, SceneStays DEF NodeInv, Stocked
  <2> QED  BY <2>2, <2>3, <2>4 DEF NodeInv
<1>4. ASSUME NEW m \in Node PROVE NodeInv(m)'
  <2>1. CASE m = n  BY <1>3, <2>1
  <2>2. CASE m # n  BY <1>0, <1>1, <2>2, Frame DEF Still
  <2> QED  BY <2>1, <2>2
<1> QED  BY <1>2, <1>4 DEF IInv, NodeInv

(* New passports of a task are of citizens whose rows it has locked.        *)
LEMMA SeenApart ==
    ASSUME Kinds, NEW n \in Node, Closed(Pairs, task[n].locks),
           task[n].locks \cap RowsIn(tables[n]) = {}
    PROVE  Apart(Seen(n), tables[n])
<1> DEFINE s == Seen(n)
           locks == task[n].locks
<1>1. /\ s \in Rightful(Pairs) /\ s \in Tables /\ tables[n] \in Tables
      /\ task[n].own \in Tables /\ s = Overlay(tables[n], task[n].own, locks)
      BY SeenRows DEF Seen
<1> HIDE DEF s, locks
<1> SUFFICES ASSUME NEW p \in Passport, Issued(s, p), ~Issued(tables[n], p)
             PROVE  ~Known(tables[n], s.passports[p].citizen)
    BY DEF Apart, s
<1> DEFINE c == s.passports[p].citizen
<1>2. <<"passport", p>> \in locks  BY <1>1, OverlaidRows DEF Issued
<1>3. <<p, c>> \in Pairs  BY <1>1 DEF Rightful
<1>4. c \in Citizen
  <2>1. s.passports[p] \in PassportRow /\ s.passports[p] # NoPassport
        BY <1>1 DEF Tables, Issued
  <2> QED  BY <2>1 DEF PassportRow
<1>5. <<"citizen", c>> \in locks
  <2>1. Closed(Pairs, locks)  BY DEF locks
  <2> DEFINE x == <<p, c>>
  <2>2. x[1] = p /\ x[2] = c  OBVIOUS
  <2> QED  BY <1>2, <1>3, <2>1, <2>2 DEF Closed
<1>6. <<"citizen", c>> \notin RowsIn(tables[n])  BY <1>5 DEF locks
<1> QED  BY <1>4, <1>6, RowsInTable

LEMMA ReplayDeleteStep ==
    ASSUME IInv, NEW n \in Node, ReplayDelete(n)
    PROVE  IInv'
<1>0. Kinds /\ NodeInv(n)  BY DEF IInv, NodeInv
<1>1. /\ heal[n].step = "truncated" /\ task[n].locks \cap RowsIn(tables[n]) = {}
      /\ UNCHANGED <<scene, chain, tables, pending, due, task, rebuilt>>
      /\ UNCHANGED <<at, wire, password, writer, now>>
      BY DEF ReplayDelete, desk
<1>2. CASE writer[n] # {}
  <2>1. heal' = [heal EXCEPT ![n] = NoHeal]  BY <1>2 DEF ReplayDelete
  <2> QED  BY <1>1, <2>1, NoTaskTypes, HealMoves
<1>3. CASE writer[n] = {}
  <2> DEFINE h == [heal[n] EXCEPT !.step = "cleared", !.gone = tables[n]]
  <2>1. heal' = [heal EXCEPT ![n] = h]  BY <1>3 DEF ReplayDelete
  <2>2. tables[n] \in Rightful(Pairs) /\ tables[n].ok = TRUE /\ heal[n] \in Heal
        BY <1>0 DEF Kinds, Stores, Heals
  <2>3. h \in Heal /\ h.step = "cleared" /\ h.gone = tables[n]
        BY <2>2 DEF Heal, Steps
  <2>4. Stands(tables[n], tables[n]) /\ Apart(tables[n], tables[n])  BY DEF Stands, Apart
  <2>5. OneEach(Pairs) => Apart(Seen(n), tables[n]) /\ tables[n] \in Backed(Pairs)
        BY <1>0, <1>1, SeenApart DEF NodeInv, Stocked
  <2> HIDE DEF h
  <2> QED  BY <1>1, <1>3, <2>1, <2>2, <2>3, <2>4, <2>5, HealGoesOn
<1> QED  BY <1>2, <1>3

LEMMA ReplayReadStep ==
    ASSUME IInv, NEW n \in Node, ReplayRead(n)
    PROVE  IInv'
<1>0. Kinds /\ NodeInv(n)  BY DEF IInv, NodeInv
<1> DEFINE h == [heal[n] EXCEPT !.step = "read", !.read = chain[n]]
<1>1. /\ heal[n].step = "cleared" /\ Replaying(n)
      /\ heal' = [heal EXCEPT ![n] = h]
      /\ UNCHANGED <<scene, chain, tables, pending, due, task, rebuilt>>
      /\ UNCHANGED <<at, wire, password, writer, now>>
      BY DEF ReplayRead, Replaying, desk
<1>2. heal[n] \in Heal /\ heal[n].gone.ok = TRUE /\ chain[n] \in Seq(Block)
      BY <1>0 DEF Kinds, Heals, Chains
<1>3. h \in Heal /\ h.step = "read" /\ h.gone = heal[n].gone /\ h.read = chain[n]
      BY <1>2 DEF Heal, Steps
<1>4. writer[n] = {} /\ (Observer(n) => heal[n].gone = tables[n])
      BY <1>0, <1>1 DEF NodeInv, Refers, Watched
<1>5. OneEach(Pairs) =>
         /\ heal[n].gone \in Backed(Pairs)
         /\ task[n].locks \cap RowsIn(heal[n].gone) = {}
         /\ Stands(tables[n], heal[n].gone)
         /\ Apart(tables[n], heal[n].gone) /\ Apart(Seen(n), heal[n].gone)
      BY <1>0, <1>1 DEF NodeInv, Stocked
<1> HIDE DEF h
<1> QED  BY <1>1, <1>2, <1>3, <1>4, <1>5, HealGoesOn

(* The passport of a citizen whose row is locked is not named by an event   *)
(* that names no locked row.                                                *)
LEMMA Unnamed ==
    ASSUME OneEach(Pairs), NEW locks, NEW e \in Expected, Rows(e) \cap locks = {},
           NEW p \in Passport, NEW c \in Citizen, <<p, c>> \in Pairs, <<"citizen", c>> \in locks
    PROVE  <<"passport", p>> \notin Rows(e)
<1> SUFFICES ASSUME <<"passport", p>> \in Rows(e) PROVE FALSE  OBVIOUS
<1>1. e \in Event  BY DEF Expected, Genuine
<1>2. e.kind \in {"PassportIssued", "PassportRevoked"} /\ e.passport = p  BY <1>1, RowsOf
<1>3. e.citizen \in Citizen /\ <<p, e.citizen>> \in Pairs
      BY <1>1, <1>2 DEF Event, Expected, Genuine
<1>4. e.citizen = c
  <2> DEFINE x == <<p, c>>
             y == <<p, e.citizen>>
  <2>1. x[1] = y[1] /\ x[2] = c /\ y[2] = e.citizen  OBVIOUS
  <2> QED  BY <1>3, <2>1 DEF OneEach
<1> QED  BY <1>1, <1>3, <1>4, RowsOf

LEMMA OverlaidCitizen ==
    ASSUME NEW t \in Tables, NEW own \in Tables, NEW locks, NEW c \in Citizen
    PROVE  Overlay(t, own, locks).citizens[c] = IF <<"citizen", c>> \in locks
                                                THEN own.citizens[c] ELSE t.citizens[c]
BY DEF Tables, Overlay

(* What replay_projections commits.                                         *)
LEMMA Replayed ==
    ASSUME Kinds, NEW n \in Node, Refers(n), Watched(n), Stocked(n), heal[n].step = "read",
           \A e \in EventsIn(heal[n].read) : Rows(e) \cap task[n].locks = {},
           NEW t, t = After(Cleared(n), heal[n].read)
    PROVE  /\ t \in Rightful(Pairs)
           /\ Observer(n) => t = Fold(chain[n])
           /\ OneEach(Pairs) => t \in Backed(Pairs) /\ Spared(Pairs, task[n].locks, tables[n], t)
           /\ \A c \in Citizen : <<"citizen", c>> \in task[n].locks /\ Known(t, c)
                                    => Known(tables[n], c)
<1> DEFINE read == heal[n].read
           gone == heal[n].gone
           locks == task[n].locks
           u == Cleared(n)
           rows == UNION {Rows(e) : e \in EventsIn(read)}
<1>1. /\ tables[n] \in Rightful(Pairs) /\ tables[n] \in Tables /\ tables[n].ok = TRUE
      /\ gone \in Rightful(Pairs) /\ gone \in Tables /\ read \in Seq(Block)
      /\ Replaying(n)
      BY DEF Kinds, Stores, Heals, Heal, Rightful, Replaying
<1>2. u = Overlay(tables[n], Empty, RowsIn(gone))  BY DEF Cleared
<1>3. u \in Rightful(Pairs)  BY <1>1, <1>2, EmptyBacked, OverlaidRightful
<1>4. read \in Seq(Seq(Genuine(Pairs, Reissued)))  BY <1>1 DEF Block, Expected
<1> HIDE DEF u
<1>5. /\ u \in Tables
      /\ \A c \in Citizen : u.citizens[c] = IF Known(gone, c) THEN NoCitizen
                                            ELSE tables[n].citizens[c]
      /\ \A p \in Passport : u.passports[p] = IF Issued(gone, p) THEN NoPassport
                                              ELSE tables[n].passports[p]
      BY <1>1, <1>2, EmptiedRows
<1>6. t = After(u, read)  BY DEF u
<1> HIDE DEF rows, gone, read
<1>7. t \in Rightful(Pairs)  BY <1>3, <1>4, <1>6, ChainRightful
<1>8. \A e \in EventsIn(read) : e \in Expected /\ e \in Event /\ Rows(e) \subseteq rows
  <2> TAKE e \in EventsIn(read)
  <2>1. PICK k \in DOMAIN read : e \in ToSet(read[k])  BY DEF EventsIn
  <2>2. read[k] \in Block  BY <1>1, <2>1
  <2> QED  BY <2>1, <2>2, BlockEvents DEF rows
<1>9. Same(u, t, rows)
  <2> DEFINE E == {e \in Event : Rows(e) \subseteq rows}
  <2>1. \A k \in 1..Len(read) : read[k] \in Seq(E)
    <3> TAKE k \in 1..Len(read)
    <3>1. read[k] \in Seq(Expected)  BY <1>1 DEF Block
    <3>2. \A i \in 1..Len(read[k]) : read[k][i] \in EventsIn(read)
          BY <1>1, <3>1 DEF EventsIn, ToSet
    <3>3. \A i \in 1..Len(read[k]) : read[k][i] \in E  BY <1>8, <3>2
    <3> HIDE DEF E
    <3> QED  BY <3>1, <3>3
  <2>2. read \in Seq(Seq(E))
    <3> HIDE DEF E
    <3> QED  BY <1>1, <2>1
  <2> QED  BY <1>5, <1>6, <2>2, ChainSame
<1>10. \A e \in EventsIn(read) : Rows(e) \cap locks = {}  BY DEF read
<1>11. \A x \in locks : x \notin rows  BY <1>10 DEF rows
<1>12. Observer(n) => t = Fold(chain[n])
  <2> SUFFICES ASSUME Observer(n) PROVE t = Fold(chain[n])  OBVIOUS
  <2>1. gone = tables[n] /\ read = chain[n]  BY <1>1 DEF Watched, gone, read
  <2>2. u = Empty  BY <1>1, <1>2, <2>1, EmptiedAll
  <2> QED  BY <1>6, <2>1, <2>2 DEF Fold, After
<1>13. ASSUME OneEach(Pairs) PROVE t \in Backed(Pairs)
  <2>1. /\ tables[n] \in Backed(Pairs) /\ gone \in Backed(Pairs)
        /\ Stands(tables[n], gone) /\ Apart(tables[n], gone)
        BY <1>1, <1>13 DEF Stocked, gone
  <2>2. u \in Backed(Pairs)  BY <1>2, <2>1, EmptiedBacked
  <2> QED  BY <1>4, <1>6, <1>13, <2>2, ChainBacked
<1>14. ASSUME OneEach(Pairs) PROVE Spared(Pairs, locks, tables[n], t)
  <2> SUFFICES ASSUME NEW p \in Passport, NEW c \in Citizen, <<p, c>> \in Pairs,
                      <<"citizen", c>> \in locks
               PROVE  t.passports[p] = tables[n].passports[p]
      BY DEF Spared
  <2>1. <<"passport", p>> \notin rows
    <3>1. \A e \in EventsIn(read) : <<"passport", p>> \notin Rows(e)
          BY <1>8, <1>10, <1>14, Unnamed
    <3> QED  BY <3>1 DEF rows
  <2>2. t.passports[p] = u.passports[p]  BY <1>9, <2>1 DEF Same
  <2>3. ASSUME Issued(gone, p) PROVE FALSE
    <3>1. /\ gone \in Backed(Pairs) /\ locks \cap RowsIn(gone) = {}
          BY <1>1, <1>14 DEF Stocked, gone
    <3> DEFINE d == gone.passports[p].citizen
    <3>2. <<p, d>> \in Pairs /\ Known(gone, d)  BY <2>3, <3>1 DEF Backed, Rightful
    <3>3. d = c
      <4> DEFINE x == <<p, c>>
                 y == <<p, d>>
      <4>1. x[1] = y[1] /\ x[2] = c /\ y[2] = d  OBVIOUS
      <4> QED  BY <1>14, <3>2, <4>1 DEF OneEach
    <3>4. <<"citizen", c>> \in RowsIn(gone)  BY <3>2, <3>3, RowsInTable
    <3> QED  BY <3>1, <3>4
  <2> QED  BY <1>5, <2>2, <2>3
<1>15. ASSUME NEW c \in Citizen, <<"citizen", c>> \in locks, Known(t, c)
       PROVE  Known(tables[n], c)
  <2>1. t.citizens[c] = u.citizens[c]  BY <1>9, <1>11, <1>15 DEF Same
  <2> QED  BY <1>5, <1>15, <2>1 DEF Known
<1> QED  BY <1>7, <1>12, <1>13, <1>14, <1>15

LEMMA ReplayStep ==
    ASSUME IInv, NEW n \in Node, replay_projections(n)
    PROVE  IInv'
<1> DEFINE t == After(Cleared(n), heal[n].read)
           h == [NoHeal EXCEPT !.step = "adopt", !.copy = heal[n].copy]
<1>0. Kinds /\ \A m \in Node : NodeInv(m)  BY DEF IInv, NodeInv
<1>1. /\ heal[n].step = "read" /\ Replaying(n)
      /\ \A e \in EventsIn(heal[n].read) : Rows(e) \cap task[n].locks = {}
      /\ UNCHANGED <<scene, chain, pending, due, at, wire, writer, now>>
      BY DEF replay_projections, Replaying
<1>2. \/ /\ t.ok
         /\ tables' = [tables EXCEPT ![n] = t]
         /\ password' = [password EXCEPT ![n] = {}]
         /\ heal' = [heal EXCEPT ![n] = h]
         /\ rebuilt' = [rebuilt EXCEPT ![n] = TRUE]
         /\ UNCHANGED task
      \/ /\ heal' = [heal EXCEPT ![n] = NoHeal]
         /\ task' = [task EXCEPT ![n].held = {}]
         /\ UNCHANGED <<tables, password, rebuilt>>
      BY DEF replay_projections, After
<1>3. /\ t \in Rightful(Pairs)
      /\ Observer(n) => t = Fold(chain[n])
      /\ OneEach(Pairs) => t \in Backed(Pairs) /\ Spared(Pairs, task[n].locks, tables[n], t)
      /\ \A c \in Citizen : <<"citizen", c>> \in task[n].locks /\ Known(t, c)
                               => Known(tables[n], c)
      BY <1>0, <1>1, Replayed DEF NodeInv
<1>4. /\ task[n] \in Task /\ task[n].own \in Rightful(Pairs) /\ task[n].own \in Tables
      /\ tables[n] \in Tables
      BY <1>0, SeenRows
<1>5. h \in Heal /\ h.gone.ok = TRUE /\ h.step = "adopt"
  <2>1. heal[n].copy \in Seq(Block)  BY <1>0 DEF Kinds, Heals, Heal
  <2> QED  BY <2>1, NoTaskTypes DEF Heal, Steps
<1> HIDE DEF t, h
<1>6. CASE /\ t.ok
           /\ tables' = [tables EXCEPT ![n] = t]
           /\ password' = [password EXCEPT ![n] = {}]
           /\ heal' = [heal EXCEPT ![n] = h]
           /\ rebuilt' = [rebuilt EXCEPT ![n] = TRUE]
           /\ UNCHANGED task
  <2>1. /\ tables'[n] = t /\ password'[n] = {} /\ heal'[n] = h
        /\ \A m \in Node \ {n} : /\ tables'[m] = tables[m] /\ password'[m] = password[m]
                                 /\ heal'[m] = heal[m] /\ rebuilt'[m] = rebuilt[m]
        BY <1>0, <1>6 DEF Kinds, Stores, Desks, Heals
  <2>2. t.ok = TRUE /\ t \in Tables  BY <1>3, <1>6 DEF Rightful, Tables
  <2>3. Kinds'
    <3>1. (Chains /\ Pools /\ Tasks)'
          BY <1>0, <1>1, <1>6, SceneStays DEF Kinds, Chains, Pools, Tasks
    <3>2. Stores'  BY <1>0, <1>1, <1>3, <1>6, <2>2, SceneStays DEF Kinds, Stores
    <3>3. Desks'
      <4>1. password' \in [Node -> SUBSET Citizen]  BY <1>0, <1>6 DEF Kinds, Desks
      <4> QED  BY <1>0, <1>1, <4>1, SceneStays DEF Kinds, Desks
    <3>4. Heals'
      <4>1. rebuilt' \in [Node -> BOOLEAN]  BY <1>0, <1>6 DEF Kinds, Heals
      <4>2. heal' \in [Node -> Heal] /\ \A m \in Node : heal'[m].gone.ok = TRUE
            BY <1>0, <1>5, <1>6, <2>1 DEF Kinds, Heals
      <4> QED  BY <1>1, <4>1, <4>2, SceneStays DEF Heals
    <3> QED  BY <1>0, <1>1, <3>1, <3>2, <3>3, <3>4 DEF Kinds
  <2>4. NodeInv(n)'
    <3> DEFINE v == Overlay(t, task[n].own, task[n].locks)
    <3>1. Seen(n)' = v /\ ~Replaying(n)' /\ heal'[n].step # "read"
          BY <1>5, <1>6, <2>1 DEF Seen, Replaying
    <3>2. OneEach(Pairs) => v \in Backed(Pairs)
          BY <1>0, <1>3, <1>4, OverlaidBacked DEF NodeInv, Stocked, Seen
    <3> DEFINE s == Seen(n)
    <3>3. v = Overlay(t, task[n].own, task[n].locks) /\ s = Overlay(tables[n], task[n].own, task[n].locks)
          BY DEF Seen
    <3> HIDE DEF v, s
    <3>4. ASSUME NEW c \in Citizen
          PROVE  /\ v.citizens[c] = IF <<"citizen", c>> \in task[n].locks
                                    THEN task[n].own.citizens[c] ELSE t.citizens[c]
                 /\ s.citizens[c] = IF <<"citizen", c>> \in task[n].locks
                                    THEN task[n].own.citizens[c] ELSE tables[n].citizens[c]
          BY <1>4, <2>2, <3>3, OverlaidCitizen
    <3>5. ASSUME NEW c \in Citizen, Known(t, c) PROVE Known(v, c)
      <4>1. CASE <<"citizen", c>> \in task[n].locks
        <5>1. Known(tables[n], c)  BY <1>3, <3>5, <4>1
        <5>2. Known(s, c)  BY <1>0, <5>1 DEF NodeInv, Refers, s
        <5> QED  BY <3>4, <4>1, <5>2 DEF Known
      <4>2. CASE <<"citizen", c>> \notin task[n].locks  BY <3>4, <3>5, <4>2 DEF Known
      <4> QED  BY <4>1, <4>2
    <3>6. Refers(n)'
      <4>1. writer'[n] = {}  BY <1>0, <1>1 DEF NodeInv, Refers
      <4> QED  BY <2>1, <3>1, <3>5, <4>1 DEF Refers
    <3>7. Watched(n)'
      <4>1. Observer(n) => due'[n] = 0 /\ ~task'[n].open
            BY <1>0, <1>1, <1>6 DEF NodeInv, Watched
      <4> QED  BY <1>1, <1>3, <2>1, <3>1, <4>1, SceneStays DEF Watched
    <3>8. Stocked(n)'
      <4>1. OneEach(Pairs) => Closed(Pairs, task'[n].locks)
            BY <1>0, <1>6 DEF NodeInv, Stocked
      <4> QED  BY <1>1, <1>3, <2>1, <3>1, <3>2, <4>1, SceneStays DEF Stocked
    <3> QED  BY <3>6, <3>7, <3>8 DEF NodeInv
  <2>5. ASSUME NEW m \in Node PROVE NodeInv(m)'
    <3>1. CASE m = n  BY <2>4, <3>1
    <3>2. CASE m # n  BY <1>0, <1>1, <1>6, <2>1, <3>2, Frame DEF Still
    <3> QED  BY <3>1, <3>2
  <2> QED  BY <2>3, <2>5 DEF IInv, NodeInv
<1>7. CASE /\ heal' = [heal EXCEPT ![n] = NoHeal]
           /\ task' = [task EXCEPT ![n].held = {}]
           /\ UNCHANGED <<tables, password, rebuilt>>
  <2>1. /\ heal'[n] = NoHeal
        /\ task'[n] = [task[n] EXCEPT !.held = {}]
        /\ \A m \in Node \ {n} : heal'[m] = heal[m] /\ task'[m] = task[m]
        BY <1>0, <1>7 DEF Kinds, Heals, Tasks
  <2>2. /\ task'[n] \in Task /\ task'[n].own = task[n].own /\ task'[n].locks = task[n].locks
        /\ task'[n].open = task[n].open
        BY <1>4, <2>1 DEF Task
  <2>3. Kinds'
    <3>1. (Chains /\ Stores /\ Pools /\ Desks)'
          BY <1>0, <1>1, <1>7, SceneStays DEF Kinds, Chains, Stores, Pools, Desks
    <3>2. Tasks'
      <4>1. task' \in [Node -> Task] /\ \A m \in Node : task'[m].own.ok = TRUE
            BY <1>0, <1>7, <2>1, <2>2 DEF Kinds, Tasks
      <4> QED  BY <1>0, <1>1, <4>1, SceneStays DEF Kinds, Tasks
    <3>3. Heals'  BY <1>0, <1>1, <1>7, NoTaskTypes, SceneStays DEF Kinds, Heals
    <3> QED  BY <1>0, <1>1, <3>1, <3>2, <3>3 DEF Kinds
  <2>4. NodeInv(n)'
    <3>1. Seen(n)' = Seen(n) /\ ~Replaying(n)' /\ heal'[n].step # "read"
          BY <1>7, <2>1, <2>2, NoTaskTypes DEF Seen, Replaying
    <3>2. Refers(n)'  BY <1>0, <1>1, <1>7, <3>1 DEF NodeInv, Refers
    <3>3. Watched(n)'  BY <1>0, <1>1, <1>7, <2>2, <3>1, SceneStays DEF NodeInv, Watched
    <3>4. Stocked(n)'  BY <1>0, <1>1, <1>7, <2>2, <3>1, SceneStays DEF NodeInv, Stocked
    <3> QED  BY <3>2, <3>3, <3>4 DEF NodeInv
  <2>5. ASSUME NEW m \in Node PROVE NodeInv(m)'
    <3>1. CASE m = n  BY <2>4, <3>1
    <3>2. CASE m # n  BY <1>0, <1>1, <1>7, <2>1, <3>2, Frame DEF Still
    <3> QED  BY <3>1, <3>2
  <2> QED  BY <2>3, <2>5 DEF IInv, NodeInv
<1> QED  BY <1>2, <1>6, <1>7

-----------------------------------------------------------------------------

LEMMA InvStep ==
    ASSUME IInv, Next \/ UNCHANGED vars
    PROVE  IInv'
<1>1. CASE \E r \in Request : Check(r) \/ Insert(r) \/ SetPassword(r)
      BY <1>1, CheckStep, InsertStep, SetPasswordStep
<1>2. CASE \E n \in Node : \E e \in {w[2] : w \in wire} : Receive(n, e)
      BY <1>2, ReceiveStep
<1>3. CASE \E n \in Node, c \in Citizen : WriteChat(n, c)
      BY <1>3, WriteChatStep
<1>4. CASE \E n \in Node : \E peers \in SUBSET (Node \ {n}) : Produce(n, peers) \/ OpenTask(n, peers)
      BY <1>4, ProduceStep, OpenTaskStep
<1>5. CASE \E n \in Node : ProjectEvent(n) \/ CommitTask(n) \/ AbortTask(n)
      BY <1>5, ProjectEventStep, CommitTaskStep, AbortTaskStep
<1>6. CASE \E n, m \in Node : Sync(n, m) \/ Truncate(n, m)
      BY <1>6, SyncStep, TruncateStep
<1>7. CASE \E n \in Node : ReplayDelete(n) \/ ReplayRead(n) \/ replay_projections(n) \/ Adopt(n)
      BY <1>7, ReplayDeleteStep, ReplayReadStep, ReplayStep, AdoptStep
<1>8. CASE Tick \/ UNCHANGED vars  BY <1>8, TickStep
<1> QED  BY <1>1, <1>2, <1>3, <1>4, <1>5, <1>6, <1>7, <1>8 DEF Next

LEMMA Invariant == Spec => []IInv
<1>1. Init => IInv  BY InvInit
<1>2. IInv /\ [Next]_vars => IInv'  BY InvStep
<1> QED  BY <1>1, <1>2, PTL DEF Spec

-----------------------------------------------------------------------------
(* What the behaviours of Citizens keep.                                    *)

LEMMA TableTypes ==
    ASSUME NEW t \in Tables, t.ok = TRUE
    PROVE  t \in Table
<1>1. CitizenRow \subseteq [name : Name \cup {"none"}, status : Status \cup {"none"},
                            role : Role \cup {"none"}, passport_issued : BOOLEAN]
  <2>1. NoCitizen \in [name : Name \cup {"none"}, status : Status \cup {"none"},
                       role : Role \cup {"none"}, passport_issued : BOOLEAN]
        BY DEF NoCitizen
  <2>2. [name : Name, status : Status, role : Role, passport_issued : BOOLEAN]
           \subseteq [name : Name \cup {"none"}, status : Status \cup {"none"},
                      role : Role \cup {"none"}, passport_issued : BOOLEAN]
        OBVIOUS
  <2> QED  BY <2>1, <2>2 DEF CitizenRow
<1>2. PassportRow \subseteq [citizen : Citizen \cup {0}, is_valid : BOOLEAN,
                             issued_at : 0..MaxTime]
  <2>1. 0 \in 0..MaxTime  BY CitizensAssumption
  <2>2. NoPassport \in [citizen : Citizen \cup {0}, is_valid : BOOLEAN, issued_at : 0..MaxTime]
        BY <2>1 DEF NoPassport
  <2>3. [citizen : Citizen, is_valid : BOOLEAN, issued_at : 0..MaxTime]
           \subseteq [citizen : Citizen \cup {0}, is_valid : BOOLEAN, issued_at : 0..MaxTime]
        OBVIOUS
  <2> QED  BY <2>2, <2>3 DEF PassportRow
<1>3. /\ t = [citizens |-> t.citizens, passports |-> t.passports, ok |-> t.ok]
      /\ t.citizens \in [Citizen -> CitizenRow] /\ t.passports \in [Passport -> PassportRow]
      BY DEF Tables
<1> QED  BY <1>1, <1>2, <1>3 DEF Table

\* The types of the variables; no statement of a committed transaction has failed,
\* and rows that refer to a citizen always have one to refer to, through replays
\* and whatever a task commits meanwhile.
THEOREM Types == Spec => []TypeOK
<1>1. IInv => TypeOK
  <2> SUFFICES ASSUME IInv PROVE TypeOK  OBVIOUS
  <2>0. Kinds /\ \A n \in Node : Refers(n)  BY DEF IInv
  <2>1. Expected \subseteq Event  BY DEF Expected, Genuine
  <2>2. Block \subseteq Seq(Event) /\ Seq(Block) \subseteq Seq(Seq(Event))
    <3>1. Block \subseteq Seq(Event)  BY <2>1, SeqMonotonic DEF Block
    <3> QED  BY <3>1, SeqMonotonic
  <2>3. chain \in [Node -> Seq(Seq(Event))]  BY <2>0, <2>2 DEF Kinds, Chains
  <2>4. tables \in [Node -> Table]
    <3>1. \A n \in Node : tables[n] \in Table
          BY <2>0, SeenRows, TableTypes DEF Kinds, Stores
    <3> QED  BY <2>0, <3>1 DEF Kinds, Stores
  <2>5. pending \in [Node -> SUBSET Event] /\ wire \subseteq Node \X Event
        BY <2>0, <2>1 DEF Kinds, Pools
  <2>6. due \in [Node -> Nat] /\ rebuilt \in [Node -> BOOLEAN] /\ scene \in Scenarios
        BY <2>0 DEF Kinds, Tasks, Heals
  <2>7. ASSUME NEW n \in Node
        PROVE  /\ task[n].block \in Seq(Event) /\ task[n].rest \in Seq(Event)
               /\ task[n].own \in Table
               /\ heal[n].step \in Steps
               /\ heal[n].gone \in Table
               /\ heal[n].copy \in Seq(Seq(Event)) /\ heal[n].read \in Seq(Seq(Event))
    <3>1. task[n] \in Task /\ task[n].own.ok = TRUE /\ heal[n] \in Heal /\ heal[n].gone.ok = TRUE
          BY <2>0 DEF Kinds, Tasks, Heals
    <3>2. task[n].own \in Tables /\ heal[n].gone \in Tables
          BY <3>1 DEF Task, Heal, Rightful
    <3>3. task[n].own \in Table /\ heal[n].gone \in Table  BY <3>1, <3>2, TableTypes
    <3> QED  BY <2>2, <3>1, <3>3 DEF Task, Heal
  <2>8. at \in [Request -> [step : {"idle", "insert", "done"}, event : Event \cup {NoEvent}]]
    <3>1. [step : {"idle", "insert", "done"}, event : Expected \cup {NoEvent}]
             \subseteq [step : {"idle", "insert", "done"}, event : Event \cup {NoEvent}]
          BY <2>1
    <3> QED  BY <2>0, <3>1 DEF Kinds, Desks
  <2>9. now \in 0..MaxTime  BY <2>0, ScenarioTypes, CitizensAssumption DEF Kinds, Desks
  <2>10. \A n \in Node : \A c \in password[n] \cup writer[n] : Known(tables[n], c)
         BY <2>0 DEF Refers
  <2> QED  BY <2>3, <2>4, <2>5, <2>6, <2>7, <2>8, <2>9, <2>10 DEF TypeOK
<1> QED  BY <1>1, Invariant, PTL

\* The tables of a node whose blocks only its loop adds are what its chain says,
\* however the blocks came about - produced, fetched, or adopted after a fork - unless
\* a replay has failed: although replay_projections deletes, reads and projects in
\* statements of their own (blockchain.rs), and handlers, gossip and the chat go on.
THEOREM TablesAreFolds == Spec => []ProjectionIsFold
<1>1. IInv => ProjectionIsFold  BY DEF IInv, Watched, ProjectionIsFold
<1> QED  BY <1>1, Invariant, PTL

\* Whoever is marked as having a passport has a valid one, whatever handlers issue and
\* revoke and clients post on several nodes, in whatever order the blocks confirm it
\* and although tasks overlap replays, if nobody posts the passport of another citizen
\* (validator.rs looks at no table for a PassportIssued or a PassportRevoked).
THEOREM PassportsBacked == Spec => []PassportBacked
<1>1. IInv => PassportBacked
  <2> SUFFICES ASSUME IInv, Paired PROVE \A n \in Node : tables[n] \in Backed(Pairs)
      BY DEF PassportBacked, Row, Backed, HasPassport
  <2>1. OneEach(Pairs)  BY DEF Paired, OneEach
  <2> QED  BY <2>1 DEF IInv, Stocked
<1> QED  BY <1>1, Invariant, PTL

-----------------------------------------------------------------------------
(* One producer.  Its chain is the longest, no event is twice in it, and    *)
(* the chains of the others are the beginnings of it: nobody gives up a     *)
(* block.  A passport that a table has was issued by an event of the chain. *)

Issues(e, p) == e.kind = "PassportIssued" /\ e.passport = p

\* Issued once, and revoked.
Spent(t, p) == Issued(t, p) /\ ~t.passports[p].is_valid

(* A passport that is not valid changes only when it is issued.             *)
LEMMA NotIssued ==
    ASSUME NEW t \in Tables, NEW e \in Event, NEW held,
           NEW u, u = Apply(t, e) \/ u = Missed(t, e, held),
           NEW p \in Passport, ~Issues(e, p), ~t.passports[p].is_valid
    PROVE  u.passports[p] = t.passports[p]
<1>1. CASE Plain(t, u)  BY <1>1 DEF Plain
<1>2. CASE /\ e.kind = "PassportIssued" /\ e.value # "malformed"
           /\ Issued(t, e.passport) \/ Known(t, e.citizen)
           /\ u = apply_passport_issued(t, e)
      BY <1>2, IssuedRows DEF Issues
<1>3. CASE e.kind = "PassportRevoked" /\ u = apply_passport_revoked(t, e)
  <2>1. CASE e.passport = p  BY <1>3, <2>1, RevokedRows
  <2>2. CASE e.passport # p  BY <1>3, <2>2, RevokedRows
  <2> QED  BY <2>1, <2>2
<1> QED  BY <1>1, <1>2, <1>3, AppliedCases

LEMMA BlockNotIssued ==
    ASSUME NEW t \in Tables, NEW b \in Seq(Event), NEW p \in Passport,
           \A e \in ToSet(b) : ~Issues(e, p), ~t.passports[p].is_valid
    PROVE  apply_event_projections(t, b).passports[p] = t.passports[p]
<1> DEFINE T == {u \in Tables : u.passports[p] = t.passports[p]}
           E == {e \in Event : ~Issues(e, p)}
<1>1. \A u \in T, e \in E : Apply(u, e) \in T
      BY NotIssued, AppliedKept DEF Kept
<1>2. t \in T  OBVIOUS
<1>3. b \in Seq(E)
  <2>1. \A i \in 1..Len(b) : b[i] \in ToSet(b)  BY DEF ToSet
  <2>2. \A i \in 1..Len(b) : b[i] \in E  BY <2>1
  <2> HIDE DEF E
  <2> QED  BY <2>2
<1> HIDE DEF T, E
<1>4. apply_event_projections(t, b) \in T  BY <1>1, <1>2, <1>3, BlockWithin, Zenon
<1> QED  BY <1>4 DEF T

\* The blocks of c are the first ones of d.
Begins(c, d) == Len(c) <= Len(d) /\ \A k \in 1..Len(c) : c[k] = d[k]

\* No event of the block is in the chain.
Fresh(b, c) == Ids(ToSet(b)) \cap Ids(EventsIn(c)) = {}

NoneTwice(c) ==
    \A i, j \in 1..Len(c) : i < j => Ids(ToSet(c[i])) \cap Ids(ToSet(c[j])) = {}

Led(leader) ==
    /\ \A n \in Node : heal[n].step = "none"
    /\ \A n \in Node : Begins(chain[n], chain[leader])
    /\ NoneTwice(chain[leader])

IssuedInChain ==
    \A n \in Node, p \in Passport :
        Issued(tables[n], p) => \E e \in EventsIn(chain[n]) : Issues(e, p)

\* Only the leader has tasks, and what they have written is as it should be.
Spawned(n, leader) ==
    /\ n # leader => due[n] = 0 /\ ~task[n].open
    /\ ~task[n].open => task[n].rest = <<>>
    /\ task[n].open =>
          /\ Fresh(task[n].block, chain[n])
          /\ ToSet(task[n].rest) \subseteq ToSet(task[n].block)
          /\ \A p \in Passport : Issued(Seen(n), p) =>
                \E e \in EventsIn(chain[n]) \cup ToSet(task[n].block) : Issues(e, p)
          /\ \A p \in Passport \ Reissued : Spent(tables[n], p) => ~Seen(n).passports[p].is_valid

Single ==
    \A leader \in Node : scene.producers = {leader} =>
        Led(leader) /\ IssuedInChain /\ \A n \in Node : Spawned(n, leader)

\* The steps that change chains and tables when leader is the only producer.
Grows(n, block, leader) ==
    /\ chain' = [chain EXCEPT ![n] = Append(@, block)]
    /\ Fresh(block, chain[n])
    /\ \/ n = leader
       \/ /\ n # leader
          /\ Len(chain[n]) < Len(chain[leader])
          /\ block = chain[leader][Len(chain[n]) + 1]
    /\ \A m \in Node \ {n} : tables'[m] = tables[m]
    /\ \A p \in Passport : Issued(tables'[n], p) =>
          \E e \in EventsIn(chain[n]) \cup ToSet(block) : Issues(e, p)
    /\ \A p \in Passport \ Reissued : Spent(tables[n], p) => ~tables'[n].passports[p].is_valid

(* An event that issues a passport that clients do not post has its one id. *)
LEMMA IssueId ==
    ASSUME NEW e \in Expected, NEW p \in Passport \ Reissued, Issues(e, p)
    PROVE  e.id = <<4, p, 0>>
BY DEF Expected, Genuine, Issues

LEMMA ChainEvents ==
    ASSUME Kinds, NEW n \in Node, NEW e \in EventsIn(chain[n])
    PROVE  e \in Expected
<1>1. chain[n] \in Seq(Block)  BY DEF Kinds, Chains
<1>2. PICK k \in DOMAIN chain[n] : e \in ToSet(chain[n][k])  BY DEF EventsIn
<1>3. chain[n][k] \in Block  BY <1>1, <1>2
<1> QED  BY <1>2, <1>3, BlockEvents

(* What is issued is not issued again by a fresh block.                     *)
LEMMA NotAgain ==
    ASSUME Kinds, IssuedInChain, NEW n \in Node, NEW block \in Block, Fresh(block, chain[n]),
           NEW p \in Passport \ Reissued, Issued(tables[n], p), NEW e \in ToSet(block)
    PROVE  ~Issues(e, p)
<1> SUFFICES ASSUME Issues(e, p) PROVE FALSE  OBVIOUS
<1>1. PICK f \in EventsIn(chain[n]) : Issues(f, p)  BY DEF IssuedInChain
<1>2. e \in Expected /\ f \in Expected  BY BlockEvents, ChainEvents
<1>3. e.id = f.id  BY <1>1, <1>2, IssueId
<1> QED  BY <1>3 DEF Fresh, Ids

(* A block that the loop adds grows a chain.                                *)
LEMMA AddedGrows ==
    ASSUME IInv, NEW leader \in Node, IssuedInChain, NEW n \in Node, NEW block \in Block,
           AddBlock(n, block), Fresh(block, chain[n]),
           \/ n = leader
           \/ /\ n # leader
              /\ Len(chain[n]) < Len(chain[leader])
              /\ block = chain[leader][Len(chain[n]) + 1]
    PROVE  Grows(n, block, leader)
<1> DEFINE t == apply_event_projections(tables[n], block)
<1>0. Kinds  BY DEF IInv
<1>1. /\ chain' = [chain EXCEPT ![n] = Append(@, block)]
      /\ tables' = [tables EXCEPT ![n] = t]
      BY DEF AddBlock, Commit
<1>2. tables'[n] = t /\ \A m \in Node \ {n} : tables'[m] = tables[m]
      BY <1>0, <1>1 DEF Kinds, Stores
<1>3. tables[n] \in Tables /\ block \in Seq(Event)
  <2>1. Expected \subseteq Event  BY DEF Expected, Genuine
  <2> QED  BY <1>0, <2>1, SeenRows, SeqMonotonic DEF Block
<1>4. ASSUME NEW p \in Passport, \A e \in ToSet(block) : ~Issues(e, p),
             ~tables[n].passports[p].is_valid
      PROVE  t.passports[p] = tables[n].passports[p]
      BY <1>3, <1>4, BlockNotIssued
<1> HIDE DEF t
<1>5. ASSUME NEW p \in Passport, Issued(t, p)
      PROVE  \E e \in EventsIn(chain[n]) \cup ToSet(block) : Issues(e, p)
  <2>1. CASE Issued(tables[n], p)  BY <2>1 DEF IssuedInChain
  <2>2. CASE ~Issued(tables[n], p)
    <3>1. ~tables[n].passports[p].is_valid  BY <2>2, NewRows DEF Issued
    <3> QED  BY <1>4, <1>5, <2>2, <3>1 DEF Issued
  <2> QED  BY <2>1, <2>2
<1>6. ASSUME NEW p \in Passport \ Reissued, Spent(tables[n], p)
      PROVE  ~t.passports[p].is_valid
  <2>1. \A e \in ToSet(block) : ~Issues(e, p)  BY <1>0, <1>6, NotAgain DEF Spent
  <2> QED  BY <1>4, <1>6, <2>1 DEF Spent
<1> QED  BY <1>1, <1>2, <1>5, <1>6 DEF Grows

(* The next block of the leader's chain is fresh to a chain that begins it. *)
LEMMA NextIsFresh ==
    ASSUME NEW S, NEW c \in Seq(Seq(S)), NEW d \in Seq(Seq(S)),
           Begins(c, d), NoneTwice(d), Len(c) < Len(d)
    PROVE  Fresh(d[Len(c) + 1], c)
<1> DEFINE b == d[Len(c) + 1]
<1> SUFFICES ASSUME NEW e \in ToSet(b), NEW f \in EventsIn(c), e.id = f.id PROVE FALSE
    BY DEF Fresh, Ids
<1>1. PICK k \in 1..Len(c) : f \in ToSet(c[k])
  <2>1. DOMAIN c = 1..Len(c)  OBVIOUS
  <2>2. PICK k \in DOMAIN c : f \in ToSet(c[k])  BY DEF EventsIn
  <2> QED  BY <2>1, <2>2
<1>2. f \in ToSet(d[k]) /\ k \in 1..Len(d) /\ Len(c) + 1 \in 1..Len(d) /\ k < Len(c) + 1
      BY <1>1 DEF Begins
<1> QED  BY <1>2 DEF NoneTwice, Ids

(* A step that leaves a node's chain, tables and task as they are.          *)
LEMMA SpawnedFrame ==
    ASSUME NEW leader \in Node, NEW n \in Node, Spawned(n, leader), scene' = scene,
           task'[n] = task[n], due'[n] = due[n] \/ n = leader,
           ~task[n].open \/ (chain'[n] = chain[n] /\ tables'[n] = tables[n])
    PROVE  Spawned(n, leader)'
<1>1. Reissued' = Reissued  BY SceneStays
<1>2. CASE ~task[n].open  BY <1>2 DEF Spawned
<1>3. CASE task[n].open /\ chain'[n] = chain[n] /\ tables'[n] = tables[n]
  <2>1. Seen(n)' = Seen(n)  BY <1>3 DEF Seen
  <2> QED  BY <1>1, <1>3, <2>1 DEF Spawned
<1> QED  BY <1>2, <1>3

LEMMA SpawnedWithout ==
    ASSUME NEW leader \in Node, NEW n \in Node, task'[n] = NoTask,
           n # leader => due'[n] = 0
    PROVE  Spawned(n, leader)'
BY NoTaskTypes DEF Spawned

(* A task opens with a fresh block.                                         *)
LEMMA OpenTaskSpawned ==
    ASSUME IInv, NEW leader \in Node, \A m \in Node : Spawned(m, leader), IssuedInChain,
           NEW n \in Node, NEW peers \in SUBSET (Node \ {n}), OpenTask(n, peers),
           NEW m \in Node
    PROVE  Spawned(m, leader)'
<1>0. Kinds  BY DEF IInv
<1>1. /\ due[n] > 0 /\ ~task[n].open /\ due' = [due EXCEPT ![n] = @ - 1]
      /\ UNCHANGED <<scene, chain, tables>>
      BY DEF OpenTask
<1>2. n = leader  BY <1>1 DEF Spawned
<1>3. \A l \in Node \ {n} : due'[l] = due[l]  BY <1>0, <1>1 DEF Kinds, Tasks
<1>4. CASE UNCHANGED task  BY <1>1, <1>2, <1>3, <1>4, SpawnedFrame
<1>5. ASSUME NEW block \in Collected(n, peers),
             task' = [task EXCEPT ![n] = [NoTask EXCEPT !.open = TRUE, !.block = block,
                                                        !.rest = block]]
      PROVE  Spawned(m, leader)'
  <2> DEFINE x == [NoTask EXCEPT !.open = TRUE, !.block = block, !.rest = block]
  <2>1. /\ x.open /\ x.block = block /\ x.rest = block
        /\ x.locks = {} /\ x.own = Empty
        BY DEF NoTask
  <2>2. task'[n] = x /\ \A l \in Node \ {n} : task'[l] = task[l]
        BY <1>0, <1>5 DEF Kinds, Tasks
  <2> HIDE DEF x
  <2>3. block \in Block /\ Fresh(block, chain[n])  BY <1>0, CollectedBlock DEF Fresh
  <2>4. CASE m # n  BY <1>1, <1>3, <2>2, <2>4, SpawnedFrame
  <2>5. CASE m = n
    <3>1. tables[n] \in Tables /\ Empty \in Tables  BY <1>0, SeenRows, EmptyRows
    <3>2. Seen(n)' = tables[n]  BY <1>1, <2>1, <2>2, <3>1, NothingOverlaid DEF Seen
    <3>3. \A p \in Passport : Issued(tables[n], p) => \E e \in EventsIn(chain[n]) : Issues(e, p)
          BY DEF IssuedInChain
    <3>4. \A p \in Passport : Spent(tables[n], p) => ~tables[n].passports[p].is_valid
          BY DEF Spent
    <3> QED  BY <1>1, <1>2, <2>1, <2>2, <2>3, <2>5, <3>2, <3>3, <3>4 DEF Spawned
  <2> QED  BY <2>4, <2>5
<1> QED  BY <1>4, <1>5 DEF OpenTask

(* What a step of a task does to what it sees.                              *)
LEMMA Projected ==
    ASSUME IInv, NEW n \in Node, ProjectEvent(n), NEW x, x = task[n],
           NEW e, e = Head(x.rest)
    PROVE  /\ x \in Task /\ x.rest # <<>> /\ e \in Expected
           /\ UNCHANGED <<scene, chain, tables, due>>
           /\ \A m \in Node \ {n} : task'[m] = task[m]
           /\ \/ /\ task'[n].open = x.open /\ task'[n].block = x.block
                 /\ task'[n].rest = x.rest /\ Seen(n)' = Seen(n)
              \/ /\ task'[n].open = x.open /\ task'[n].block = x.block
                 /\ task'[n].rest = Tail(x.rest)
                 /\ Seen(n)' = Apply(Seen(n), e) \/ Seen(n)' = Missed(Seen(n), e, x.held)
              \/ task'[n] = NoTask
<1> DEFINE s == Seen(n)
           locks == IF x.held = {} THEN Locks(s, e) ELSE Rows(e)
           blocked == locks \cap Deleted(n)
           t == IF x.held = {} THEN Apply(s, e) ELSE Missed(s, e, x.held)
           y == [x EXCEPT !.rest = Tail(@), !.own = t, !.held = {}, !.locks = @ \cup locks]
<1>0. Kinds  BY DEF IInv
<1>1. /\ s \in Rightful(Pairs) /\ s \in Tables /\ s.ok = TRUE
      /\ tables[n] \in Tables /\ tables[n].ok = TRUE
      /\ x \in Task /\ x.own \in Tables /\ x.rest \in Block /\ x.rest # <<>>
      BY <1>0, SeenRows DEF Kinds, Stores, Task, ProjectEvent
<1>2. e \in Expected /\ e \in Event  BY <1>1 DEF Block, Expected, Genuine
<1>3. UNCHANGED <<scene, chain, tables, due>>  BY DEF ProjectEvent
<1>4. s = Overlay(tables[n], x.own, x.locks)  BY DEF Seen
<1>5. \/ task' = [task EXCEPT ![n].held = blocked]
      \/ t.ok /\ task' = [task EXCEPT ![n] = y]
      \/ task' = [task EXCEPT ![n] = NoTask]
      BY DEF ProjectEvent
<1>6. (t = Apply(s, e) \/ t = Missed(s, e, x.held)) /\ (locks = Rows(e) \/ locks = Locks(s, e))
      OBVIOUS
<1>7. Same(s, t, locks)  BY <1>1, <1>2, AppliedSame
<1>8. task \in [Node -> Task]  BY <1>0 DEF Kinds, Tasks
<1> HIDE DEF s, t, locks, blocked
<1>9. t \in Tables  BY <1>1, <1>2, <1>6, AppliedKept DEF Kept
<1>10. CASE task' = [task EXCEPT ![n].held = blocked]
  <2>1. /\ task'[n] = [x EXCEPT !.held = blocked]
        /\ \A m \in Node \ {n} : task'[m] = task[m]
        BY <1>8, <1>10
  <2>2. /\ task'[n].open = x.open /\ task'[n].block = x.block /\ task'[n].rest = x.rest
        /\ task'[n].own = x.own /\ task'[n].locks = x.locks
        BY <1>1, <2>1 DEF Task
  <2>3. Seen(n)' = Seen(n)  BY <1>3, <2>2 DEF Seen
  <2> QED  BY <1>1, <1>2, <1>3, <2>1, <2>2, <2>3
<1>11. CASE t.ok /\ task' = [task EXCEPT ![n] = y]
  <2>1. task'[n] = y /\ \A m \in Node \ {n} : task'[m] = task[m]
        BY <1>8, <1>11
  <2>2. /\ y.open = x.open /\ y.block = x.block /\ y.rest = Tail(x.rest)
        /\ y.own = t /\ y.locks = x.locks \cup locks
        BY <1>1 DEF Task
  <2>3. t.ok = TRUE  BY <1>9, <1>11 DEF Tables
  <2>4. Overlay(tables[n], t, x.locks \cup locks) = t
        BY <1>1, <1>4, <1>7, <1>9, <2>3, WrittenOverlaid
  <2>5. Seen(n)' = t  BY <1>3, <2>1, <2>2, <2>4 DEF Seen
  <2> HIDE DEF y
  <2> QED  BY <1>1, <1>2, <1>3, <1>6, <2>1, <2>2, <2>5 DEF s
<1>12. CASE task' = [task EXCEPT ![n] = NoTask]
       BY <1>1, <1>2, <1>3, <1>8, <1>12
<1> QED  BY <1>5, <1>10, <1>11, <1>12

LEMMA ProjectEventSpawned ==
    ASSUME IInv, NEW leader \in Node, \A m \in Node : Spawned(m, leader), IssuedInChain,
           NEW n \in Node, ProjectEvent(n), NEW m \in Node
    PROVE  Spawned(m, leader)'
<1> DEFINE x == task[n]
           e == Head(x.rest)
           s == Seen(n)
           u == Seen(n)'
<1>0. Kinds  BY DEF IInv
<1>1. /\ x \in Task /\ x.rest # <<>> /\ e \in Expected
      /\ UNCHANGED <<scene, chain, tables, due>>
      /\ \A l \in Node \ {n} : task'[l] = task[l]
      /\ \/ /\ task'[n].open = x.open /\ task'[n].block = x.block
            /\ task'[n].rest = x.rest /\ u = s
         \/ /\ task'[n].open = x.open /\ task'[n].block = x.block
            /\ task'[n].rest = Tail(x.rest)
            /\ u = Apply(s, e) \/ u = Missed(s, e, x.held)
         \/ task'[n] = NoTask
      BY Projected
<1>2. x.open /\ n = leader  BY <1>1 DEF Spawned
<1>3. CASE m # n  BY <1>1, <1>3, SpawnedFrame
<1>4. CASE m = n /\ task'[n] = NoTask  BY <1>2, <1>4, SpawnedWithout
<1>5. ASSUME m = n, task'[n].open = x.open, task'[n].block = x.block,
             ToSet(task'[n].rest) \subseteq ToSet(x.block),
             \A p \in Passport : Issued(u, p) =>
                \E f \in EventsIn(chain[n]) \cup ToSet(x.block) : Issues(f, p),
             \A p \in Passport \ Reissued : Spent(tables[n], p) => ~u.passports[p].is_valid
      PROVE  Spawned(m, leader)'
  <2>1. Fresh(x.block, chain[n])  BY <1>2 DEF Spawned
  <2>2. Reissued' = Reissued  BY <1>1, SceneStays
  <2> QED  BY <1>1, <1>2, <1>5, <2>1, <2>2 DEF Spawned
<1>6. /\ Fresh(x.block, chain[n])
      /\ ToSet(x.rest) \subseteq ToSet(x.block)
      /\ \A p \in Passport : Issued(s, p) =>
            \E f \in EventsIn(chain[n]) \cup ToSet(x.block) : Issues(f, p)
      /\ \A p \in Passport \ Reissued : Spent(tables[n], p) => ~s.passports[p].is_valid
      BY <1>2 DEF Spawned
<1>7. CASE /\ m = n
           /\ task'[n].open = x.open /\ task'[n].block = x.block
           /\ task'[n].rest = x.rest /\ u = s
      BY <1>5, <1>6, <1>7
<1>8. CASE /\ m = n
           /\ task'[n].open = x.open /\ task'[n].block = x.block
           /\ task'[n].rest = Tail(x.rest)
           /\ u = Apply(s, e) \/ u = Missed(s, e, x.held)
  <2>1. x.rest \in Seq(Expected) /\ x.block \in Block  BY <1>1 DEF Task, Block
  <2>2. e \in ToSet(x.rest) /\ ToSet(Tail(x.rest)) \subseteq ToSet(x.rest)
    <3>1. Len(x.rest) \in Nat /\ Len(x.rest) >= 1 /\ e = x.rest[1] /\ DOMAIN x.rest = 1..Len(x.rest)
          BY <1>1, <2>1
    <3>2. ASSUME NEW f \in ToSet(Tail(x.rest)) PROVE f \in ToSet(x.rest)
      <4>1. PICK i \in 1..(Len(x.rest) - 1) : f = Tail(x.rest)[i]
            BY <1>1, <2>1, <3>1 DEF ToSet
      <4>2. f = x.rest[i + 1] /\ i + 1 \in 1..Len(x.rest)  BY <1>1, <2>1, <3>1, <4>1
      <4> QED  BY <3>1, <4>2 DEF ToSet
    <3> QED  BY <3>1, <3>2 DEF ToSet
  <2>3. s \in Tables /\ e \in Event  BY <1>0, <1>1, SeenRows DEF Expected, Genuine
  <2>4. e \in ToSet(x.block)  BY <1>6, <2>2
  <2>5. ASSUME NEW p \in Passport, ~Issues(e, p), ~s.passports[p].is_valid
        PROVE  u.passports[p] = s.passports[p]
    <3>1. u = Apply(s, e) \/ u = Missed(s, e, x.held)  BY <1>8
    <3> HIDE DEF u, s, e, x
    <3> QED  BY <2>3, <2>5, <3>1, NotIssued
  <2> HIDE DEF u, s, e, x
  <2>6. ASSUME NEW p \in Passport, Issued(u, p)
        PROVE  \E f \in EventsIn(chain[n]) \cup ToSet(x.block) : Issues(f, p)
    <3>1. CASE Issued(s, p)  BY <1>6, <3>1
    <3>2. CASE ~Issued(s, p)
      <4>1. ~s.passports[p].is_valid  BY <3>2, NewRows DEF Issued
      <4>2. Issues(e, p)  BY <2>5, <2>6, <3>2, <4>1 DEF Issued
      <4> QED  BY <2>4, <4>2
    <3> QED  BY <3>1, <3>2
  <2>7. ASSUME NEW p \in Passport \ Reissued, Spent(tables[n], p)
        PROVE  ~u.passports[p].is_valid
    <3>1. ~Issues(e, p)  BY <1>0, <1>6, <2>1, <2>4, <2>7, NotAgain DEF Spent
    <3>2. ~s.passports[p].is_valid  BY <1>6, <2>7
    <3> QED  BY <2>5, <3>1, <3>2
  <2> QED  BY <1>5, <1>6, <1>8, <2>2, <2>6, <2>7
<1> QED  BY <1>1, <1>3, <1>4, <1>7, <1>8

(* A step of one producer grows a chain by fresh events, or none.           *)
LEMMA SingleGrows ==
    ASSUME IInv, NEW leader \in Node, scene.producers = {leader}, Led(leader), IssuedInChain,
           \A m \in Node : Spawned(m, leader), Next \/ UNCHANGED vars
    PROVE  /\ \A n \in Node : heal'[n].step = "none" /\ Spawned(n, leader)'
           /\ scene' = scene
           /\ \/ UNCHANGED <<chain, tables>>
              \/ \E n \in Node, block \in Block : Grows(n, block, leader)
<1>0. /\ Kinds
      /\ \A n \in Node : chain[n] \in Seq(Block) /\ heal[n].step = "none"
      BY DEF IInv, Kinds, Chains, Led
<1> DEFINE Stays == /\ heal' = heal /\ scene' = scene /\ UNCHANGED <<chain, tables>>
                    /\ \A n \in Node : Spawned(n, leader)'
           Added == /\ heal' = heal /\ scene' = scene
                    /\ \A n \in Node : Spawned(n, leader)'
                    /\ \E n \in Node, block \in Block : Grows(n, block, leader)
<1>1. ASSUME NEW n \in Node, NEW peers \in SUBSET (Node \ {n}), Produce(n, peers)
      PROVE  Added
  <2>1. n = leader /\ UNCHANGED <<scene, heal, due, task>> /\ ~task[n].open
        BY <1>1 DEF Produce
  <2>2. PICK block \in Collected(n, peers) : AddBlock(n, block)  BY <1>1 DEF Produce
  <2>3. block \in Block /\ Fresh(block, chain[n])  BY <1>0, CollectedBlock DEF Fresh
  <2>4. Grows(n, block, leader)  BY <2>1, <2>2, <2>3, AddedGrows
  <2>5. \A m \in Node : ~task[m].open  BY <2>1 DEF Spawned
  <2>6. \A m \in Node : Spawned(m, leader)'  BY <2>1, <2>5, SpawnedFrame
  <2> QED  BY <2>1, <2>3, <2>4, <2>6
<1>2. ASSUME NEW n \in Node, NEW m \in Node, Sync(n, m)
      PROVE  Added
  <2> DEFINE block == chain[m][Len(chain[n]) + 1]
  <2>1. /\ UNCHANGED <<scene, heal, due, task>> /\ AddBlock(n, block)
        /\ Len(chain[n]) < Len(chain[m])
        BY <1>2 DEF Sync
  <2>2. Begins(chain[m], chain[leader]) /\ Begins(chain[n], chain[leader])
        BY DEF Led
  <2>3. /\ Len(chain[n]) \in Nat /\ Len(chain[m]) \in Nat /\ Len(chain[leader]) \in Nat
        /\ Len(chain[n]) + 1 \in 1..Len(chain[m])
        BY <1>0, <2>1
  <2>4. n # leader /\ Len(chain[n]) < Len(chain[leader]) /\ block = chain[leader][Len(chain[n]) + 1]
        BY <2>1, <2>2, <2>3 DEF Begins
  <2>5. Len(chain[n]) + 1 \in 1..Len(chain[leader])  BY <2>3, <2>4
  <2>6. block \in Block  BY <1>0, <2>4, <2>5
  <2>7. Fresh(block, chain[n])
    <3>1. chain[n] \in Seq(Seq(Expected)) /\ chain[leader] \in Seq(Seq(Expected))
          BY <1>0 DEF Block
    <3> QED  BY <2>2, <2>4, <3>1, NextIsFresh DEF Led
  <2> HIDE DEF block
  <2>8. Grows(n, block, leader)  BY <2>1, <2>4, <2>6, <2>7, AddedGrows
  <2>9. ASSUME NEW l \in Node PROVE Spawned(l, leader)'
    <3>1. CASE l = n
      <4>1. ~task[l].open  BY <2>4, <3>1 DEF Spawned
      <4> QED  BY <2>1, <4>1, SpawnedFrame
    <3>2. CASE l # n
      <4>1. chain'[l] = chain[l] /\ tables'[l] = tables[l]
            BY <1>0, <2>8, <3>2 DEF Grows, Kinds, Chains
      <4> QED  BY <2>1, <4>1, SpawnedFrame
    <3> QED  BY <3>1, <3>2
  <2> QED  BY <2>1, <2>6, <2>8, <2>9
<1>3. ASSUME NEW n \in Node, CommitTask(n)
      PROVE  Added
  <2> DEFINE block == task[n].block
  <2>1. /\ task[n].open /\ UNCHANGED <<scene, heal, due>>
        /\ chain' = [chain EXCEPT ![n] = Append(@, block)]
        /\ tables' = [tables EXCEPT ![n] = Seen(n)]
        /\ task' = [task EXCEPT ![n] = NoTask]
        BY <1>3 DEF CommitTask, Commit
  <2>2. n = leader  BY <2>1 DEF Spawned
  <2>3. block \in Block  BY <1>0, SeenRows DEF Task
  <2>4. /\ tables'[n] = Seen(n) /\ task'[n] = NoTask
        /\ \A m \in Node \ {n} : /\ tables'[m] = tables[m] /\ task'[m] = task[m]
                                 /\ chain'[m] = chain[m]
        BY <1>0, <2>1 DEF Kinds, Stores, Tasks, Chains
  <2>5. Grows(n, block, leader)  BY <2>1, <2>2, <2>4 DEF Grows, Spawned
  <2>6. ASSUME NEW l \in Node PROVE Spawned(l, leader)'
    <3>1. CASE l = n  BY <2>2, <2>4, <3>1, SpawnedWithout
    <3>2. CASE l # n  BY <2>1, <2>4, <3>2, SpawnedFrame
    <3> QED  BY <3>1, <3>2
  <2> QED  BY <2>1, <2>3, <2>5, <2>6
<1>4. ASSUME NEW n \in Node, ProjectEvent(n) PROVE Stays
  <2>1. UNCHANGED <<scene, chain, tables, heal>>  BY <1>4 DEF ProjectEvent
  <2> QED  BY <1>4, <2>1, ProjectEventSpawned
<1>5. ASSUME NEW n \in Node, NEW peers \in SUBSET (Node \ {n}), OpenTask(n, peers) PROVE Stays
  <2>1. UNCHANGED <<scene, chain, tables, heal>>  BY <1>5 DEF OpenTask
  <2> QED  BY <1>5, <2>1, OpenTaskSpawned
<1>6. ASSUME NEW n \in Node, AbortTask(n) PROVE Stays
  <2>1. UNCHANGED <<scene, chain, tables, heal, due>> /\ task' = [task EXCEPT ![n] = NoTask]
        BY <1>6 DEF AbortTask
  <2>2. task'[n] = NoTask /\ \A m \in Node \ {n} : task'[m] = task[m]
        BY <1>0, <2>1 DEF Kinds, Tasks
  <2>3. ASSUME NEW l \in Node PROVE Spawned(l, leader)'
    <3>1. CASE l = n
      <4>1. l # leader => due'[l] = 0  BY <2>1 DEF Spawned
      <4> QED  BY <2>2, <3>1, <4>1, SpawnedWithout
    <3>2. CASE l # n  BY <2>1, <2>2, <3>2, SpawnedFrame
    <3> QED  BY <3>1, <3>2
  <2> QED  BY <2>1, <2>3
<1>7. ASSUME NEW n \in Node, NEW m \in Node, Truncate(n, m) PROVE FALSE
  <2>1. PICK k \in Fork(n, m) : TRUE  BY <1>7 DEF Truncate
  <2>2. k \in Nat /\ k >= 1 /\ k <= Len(chain[n]) /\ k <= Len(chain[m]) /\ chain[n][k] # chain[m][k]
        BY <2>1, CitizensAssumption DEF Fork
  <2>3. Len(chain[n]) \in Nat /\ Len(chain[m]) \in Nat  BY <1>0
  <2>4. chain[n][k] = chain[leader][k] /\ chain[m][k] = chain[leader][k]
        BY <2>2, <2>3 DEF Led, Begins
  <2> QED  BY <2>2, <2>4
<1>8. ASSUME NEW n \in Node
      PROVE  ~ReplayDelete(n) /\ ~ReplayRead(n) /\ ~replay_projections(n) /\ ~Adopt(n)
      BY <1>0 DEF ReplayDelete, ReplayRead, replay_projections, Adopt
<1>9. ASSUME UNCHANGED <<scene, heal, chain, tables, task>>,
             \A n \in Node \ {leader} : due'[n] = due[n]
      PROVE  Stays
      BY <1>9, SpawnedFrame
<1>10. ASSUME NEW r \in Request, Insert(r) PROVE Stays
  <2>1. UNCHANGED <<scene, heal, chain, tables, task>>  BY <1>10 DEF Insert
  <2>2. due' = due \/ (r.node \in scene.producers /\ due' = [due EXCEPT ![r.node] = @ + 1])
        BY <1>10 DEF Insert
  <2>3. \A n \in Node \ {leader} : due'[n] = due[n]  BY <1>0, <2>2 DEF Kinds, Tasks
  <2> QED  BY <1>9, <2>1, <2>3
<1>11. ASSUME NEW r \in Request, Check(r) \/ SetPassword(r) PROVE Stays
       BY <1>9, <1>11 DEF Check, SetPassword
<1>12. ASSUME NEW n \in Node, NEW e, Receive(n, e) PROVE Stays
       BY <1>9, <1>12 DEF Receive
<1>13. ASSUME NEW n \in Node, NEW c \in Citizen, WriteChat(n, c) PROVE Stays
       BY <1>9, <1>13 DEF WriteChat
<1>14. ASSUME Tick \/ UNCHANGED vars PROVE Stays
       BY <1>9, <1>14 DEF Tick, vars
<1> HIDE DEF Stays, Added
<1>15. Stays \/ Added
       BY <1>1, <1>2, <1>3, <1>4, <1>5, <1>6, <1>7, <1>8, <1>10, <1>11, <1>12, <1>13, <1>14
       DEF Next
<1> QED  BY <1>0, <1>15 DEF Stays, Added

LEMMA GrownChain ==
    ASSUME IInv, NEW leader \in Node, NEW n \in Node, NEW block \in Block, Grows(n, block, leader)
    PROVE  /\ chain'[n] = Append(chain[n], block)
           /\ EventsIn(chain'[n]) = EventsIn(chain[n]) \cup ToSet(block)
           /\ \A m \in Node \ {n} : chain'[m] = chain[m] /\ tables'[m] = tables[m]
<1>1. chain'[n] = Append(chain[n], block) /\ chain[n] \in Seq(Block)
      BY DEF Grows, IInv, Kinds, Chains
<1>2. \A m \in Node \ {n} : chain'[m] = chain[m] /\ tables'[m] = tables[m]
      BY DEF Grows, IInv, Kinds, Chains
<1>3. EventsIn(Append(chain[n], block)) = EventsIn(chain[n]) \cup ToSet(block)
  <2> DEFINE c == chain[n]
             d == Append(c, block)
             L == Len(c)
  <2>1. /\ L \in Nat /\ DOMAIN c = 1..L /\ DOMAIN d = 1..(L + 1)
        /\ d[L + 1] = block /\ \A k \in 1..L : d[k] = c[k]
    <3> HIDE DEF Block
    <3> QED  BY <1>1, AppendProperties
  <2> HIDE DEF c, d, L
  <2>2. ASSUME NEW e PROVE e \in EventsIn(d) <=> e \in EventsIn(c) \/ e \in ToSet(block)
    <3>1. e \in EventsIn(d) <=> \E k \in 1..(L + 1) : e \in ToSet(d[k])  BY <2>1 DEF EventsIn
    <3>2. e \in EventsIn(c) <=> \E k \in 1..L : e \in ToSet(c[k])  BY <2>1 DEF EventsIn
    <3>3. \A k : k \in 1..(L + 1) <=> k \in 1..L \/ k = L + 1  BY <2>1
    <3> QED  BY <2>1, <3>1, <3>2, <3>3, Zenon
  <2> QED  BY <2>2 DEF c, d
<1> QED  BY <1>1, <1>2, <1>3

LEMMA SingleStep ==
    ASSUME IInv, Single, Next \/ UNCHANGED vars
    PROVE  Single'
<1> SUFFICES ASSUME NEW leader \in Node, scene'.producers = {leader}
             PROVE  (Led(leader) /\ IssuedInChain /\ \A n \in Node : Spawned(n, leader))'
    BY DEF Single
<1>0. scene' = scene
      BY DEF Next, vars, Check, Insert, SetPassword, Receive, WriteChat, Produce, Sync, OpenTask,
             ProjectEvent, CommitTask, AbortTask, Truncate, ReplayDelete, ReplayRead,
             replay_projections, Adopt, Tick
<1>1. Led(leader) /\ IssuedInChain /\ \A n \in Node : Spawned(n, leader)  BY <1>0 DEF Single
<1>2. /\ \A n \in Node : heal'[n].step = "none" /\ Spawned(n, leader)'
      /\ \/ UNCHANGED <<chain, tables>>
         \/ \E n \in Node, block \in Block : Grows(n, block, leader)
      BY <1>0, <1>1, SingleGrows
<1>3. CASE UNCHANGED <<chain, tables>>
      BY <1>1, <1>2, <1>3 DEF Led, IssuedInChain
<1>4. ASSUME NEW n \in Node, NEW block \in Block, Grows(n, block, leader)
      PROVE  (Led(leader) /\ IssuedInChain)'
  <2>1. /\ chain'[n] = Append(chain[n], block)
        /\ EventsIn(chain'[n]) = EventsIn(chain[n]) \cup ToSet(block)
        /\ \A m \in Node \ {n} : chain'[m] = chain[m] /\ tables'[m] = tables[m]
        BY <1>4, GrownChain
  <2>2. \A m \in Node : chain[m] \in Seq(Block) /\ Len(chain[m]) \in Nat
        BY DEF IInv, Kinds, Chains
  <2>3. /\ Len(chain'[n]) = Len(chain[n]) + 1
        /\ chain'[n][Len(chain[n]) + 1] = block
        /\ \A k \in 1..Len(chain[n]) : chain'[n][k] = chain[n][k]
    <3> HIDE DEF Block
    <3> QED  BY <2>1, <2>2, AppendProperties
  <2>4. \A m \in Node : Begins(chain'[m], chain'[leader])
    <3> SUFFICES ASSUME NEW m \in Node PROVE Begins(chain'[m], chain'[leader])
        OBVIOUS
    <3>1. Begins(chain[m], chain[leader])  BY <1>1 DEF Led
    <3>2. CASE n = leader /\ m = n  BY <2>2, <2>3, <3>2 DEF Begins
    <3>3. CASE n = leader /\ m # n  BY <2>1, <2>2, <2>3, <3>1, <3>3 DEF Begins
    <3>4. CASE n # leader /\ m # n  BY <2>1, <3>1, <3>4
    <3>5. CASE n # leader /\ m = n
      <4>1. /\ Len(chain[n]) < Len(chain[leader])
            /\ block = chain[leader][Len(chain[n]) + 1]
            BY <1>4, <3>5 DEF Grows
      <4>2. chain'[leader] = chain[leader]  BY <2>1, <3>5
      <4>3. \A k \in 1..(Len(chain[n]) + 1) : k \in 1..Len(chain[n]) \/ k = Len(chain[n]) + 1
            BY <2>2
      <4>4. \A k \in 1..(Len(chain[n]) + 1) : chain'[n][k] = chain[leader][k]
            BY <2>3, <3>1, <3>5, <4>1, <4>3 DEF Begins
      <4> QED  BY <2>2, <2>3, <3>5, <4>1, <4>2, <4>4 DEF Begins
    <3> QED  BY <3>2, <3>3, <3>4, <3>5
  <2>5. NoneTwice(chain'[leader])
    <3>1. CASE n # leader  BY <1>1, <2>1, <3>1 DEF Led
    <3>2. CASE n = leader
      <4> SUFFICES ASSUME NEW i \in 1..Len(chain'[n]), NEW j \in 1..Len(chain'[n]), i < j,
                          NEW e \in ToSet(chain'[n][i]), NEW f \in ToSet(chain'[n][j]),
                          e.id = f.id
                   PROVE  FALSE
          BY <3>2 DEF NoneTwice, Ids
      <4>1. i \in 1..Len(chain[n]) /\ (j \in 1..Len(chain[n]) \/ j = Len(chain[n]) + 1)
            BY <2>2, <2>3
      <4>2. e \in ToSet(chain[n][i])  BY <2>3, <4>1
      <4>3. CASE j \in 1..Len(chain[n])
        <5>1. f \in ToSet(chain[n][j])  BY <2>3, <4>3
        <5>2. Ids(ToSet(chain[n][i])) \cap Ids(ToSet(chain[n][j])) = {}
              BY <1>1, <3>2, <4>1, <4>3 DEF Led, NoneTwice
        <5> QED  BY <4>2, <5>1, <5>2 DEF Ids
      <4>4. CASE j = Len(chain[n]) + 1
        <5>1. f \in ToSet(block)  BY <2>3, <4>4
        <5>2. e \in EventsIn(chain[n])
          <6>1. DOMAIN chain[n] = 1..Len(chain[n])  BY <2>2
          <6> QED  BY <4>1, <4>2, <6>1 DEF EventsIn
        <5> QED  BY <1>4, <5>1, <5>2 DEF Grows, Fresh, Ids
      <4> QED  BY <4>1, <4>3, <4>4
    <3> QED  BY <3>1, <3>2
  <2>6. Led(leader)'  BY <1>1, <1>2, <2>4, <2>5 DEF Led
  <2>7. IssuedInChain'
    <3> SUFFICES ASSUME NEW m \in Node, NEW p \in Passport, Issued(tables'[m], p)
                 PROVE  \E e \in EventsIn(chain'[m]) : Issues(e, p)
        BY DEF IssuedInChain
    <3>1. CASE m # n  BY <1>1, <2>1, <3>1 DEF IssuedInChain
    <3>2. CASE m = n  BY <1>4, <2>1, <3>2 DEF Grows
    <3> QED  BY <3>1, <3>2
  <2> QED  BY <2>6, <2>7
<1> QED  BY <1>2, <1>3, <1>4

LEMMA SingleInit == Init => Single
<1> SUFFICES ASSUME Init, NEW leader \in Node
             PROVE  Led(leader) /\ IssuedInChain /\ \A n \in Node : Spawned(n, leader)
    BY DEF Single
<1>1. \A n \in Node : heal[n].step = "none" /\ chain[n] = <<>>  BY DEF Init, NoHeal
<1>2. Begins(<<>>, <<>>) /\ NoneTwice(<<>>)  BY DEF Begins, NoneTwice
<1>3. Led(leader)  BY <1>1, <1>2 DEF Led
<1>4. IssuedInChain  BY EmptyRows DEF Init, IssuedInChain
<1>5. \A n \in Node : Spawned(n, leader)  BY NoTaskTypes DEF Init, Spawned
<1> QED  BY <1>3, <1>4, <1>5

\* As long as one node produces blocks, a passport that a table shows as revoked is
\* never valid again: the event that issued it is confirmed, and no pool, gossip,
\* block or task brings it back (block_producer.rs collect_network_pending,
\* projection.rs), unless a client posts that the passport is issued: under an id of
\* its own, projection.rs makes it valid.
THEOREM RevokedStays == Spec => RevokedForGood
<1> DEFINE Stays == OneProducer =>
               \A n \in Node : \A p \in Passport \ Reissued :
                  /\ Issued(tables[n], p)
                  /\ ~tables[n].passports[p].is_valid
                  => ~tables'[n].passports[p].is_valid
<1>1. IInv /\ Single /\ [Next]_vars => [Stays]_vars
  <2> SUFFICES ASSUME IInv, Single, Next \/ UNCHANGED vars, OneProducer,
                      NEW n \in Node, NEW p \in Passport \ Reissued,
                      Issued(tables[n], p), ~tables[n].passports[p].is_valid
               PROVE  ~tables'[n].passports[p].is_valid
      OBVIOUS
  <2>1. scene.producers \subseteq Node  BY ScenarioTypes DEF IInv, Kinds
  <2>2. IsFiniteSet(scene.producers)  BY <2>1, CitizensAssumption, FS_Subset
  <2>3. PICK leader : scene.producers = {leader}  BY <2>2, FS_Singleton DEF OneProducer
  <2>4. leader \in Node /\ Led(leader) /\ IssuedInChain /\ \A m \in Node : Spawned(m, leader)
        BY <2>1, <2>3 DEF Single
  <2>5. \/ UNCHANGED <<chain, tables>>
        \/ \E m \in Node, block \in Block : Grows(m, block, leader)
        BY <2>3, <2>4, SingleGrows
  <2> QED  BY <2>5 DEF Grows, Spent
<1> HIDE DEF Stays
<1>2. IInv /\ Single /\ [Next]_vars => Single'  BY SingleStep
<1>3. Spec => [][Stays]_vars
  BY <1>1, <1>2, Invariant, SingleInit, PTL DEF Spec
<1> QED  BY <1>3 DEF Stays, RevokedForGood
=============================================================================
