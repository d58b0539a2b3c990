----------------------------- MODULE ChatProofs -----------------------------
(***************************************************************************)
(* Proofs about Chat, for any nodes, registries, connections, requests,    *)
(* queues, caches and pages: the types, ShownOnce, NoEcho,                 *)
(* RetryStoresNothing and WalkComplete.                                    *)
(*                                                                         *)
(* Messages: of a message a node has one handler at most, and only the     *)
(* handler that stores it announces it (WorkInv); what it has still to     *)
(* announce has not been shown (ShownInv).  Pages: ids make created_at a   *)
(* total order, in which a page is what comes next, and what a reader has  *)
(* not seen is behind all that he has (WalkInv).                           *)
(***************************************************************************)
EXTENDS Chat, FiniteSetTheorems, TLAPS

-----------------------------------------------------------------------------
(* The order of messages, and the sequence of a page.                       *)

\* What is newer than m among the messages S.
Newer(S, m) == {k \in S : Older(m, k)}
Rank(S, m) == Cardinality(Newer(S, m)) + 1

\* Messages that ids tell apart, in the order from new to old.
Apart(S) == S \subseteq ChatRequest /\ \A r, q \in S : r.id = q.id => r = q
Falling(s) == \A i, j \in DOMAIN s : i < j => Older(s[j], s[i])
Distinct(s) == \A i, j \in DOMAIN s : s[i] = s[j] => i = j

\* Older is a strict total order on messages that ids tell apart.
LEMMA OlderIsTotal ==
    ASSUME NEW S, Apart(S), NEW a \in S, NEW b \in S, NEW c \in S
    PROVE  /\ ~Older(a, a)
           /\ Older(a, b) => ~Older(b, a)
           /\ a # b => Older(a, b) \/ Older(b, a)
           /\ Older(a, b) /\ Older(b, c) => Older(a, c)
<1>1. /\ a.id \in Nat /\ a.at \in Nat /\ b.id \in Nat /\ b.at \in Nat
      /\ c.id \in Nat /\ c.at \in Nat
      BY DEF Apart, ChatRequest
<1>2. a.id = b.id => a = b  BY DEF Apart
<1> QED  BY <1>1, <1>2 DEF Older

\* The newer a message, the smaller its rank.
LEMMA RankFalls ==
    ASSUME NEW S, IsFiniteSet(S), Apart(S), NEW a \in S, NEW b \in S, Older(a, b)
    PROVE  Rank(S, b) < Rank(S, a)
<1>1. /\ IsFiniteSet(Newer(S, a)) /\ IsFiniteSet(Newer(S, b))
      BY FS_Subset DEF Newer
<1>2. Newer(S, b) \subseteq Newer(S, a)
  <2> SUFFICES ASSUME NEW k \in S, Older(b, k) PROVE Older(a, k)
      BY DEF Newer
  <2> QED  BY OlderIsTotal
<1>3. b \in Newer(S, a) /\ b \notin Newer(S, b)  BY OlderIsTotal DEF Newer
<1>4. /\ Cardinality(Newer(S, b)) <= Cardinality(Newer(S, a))
      /\ Cardinality(Newer(S, b)) # Cardinality(Newer(S, a))
      BY <1>1, <1>2, <1>3, FS_Subset
<1>5. Cardinality(Newer(S, b)) \in Nat /\ Cardinality(Newer(S, a)) \in Nat
      BY <1>1, FS_CardinalityType
<1> QED  BY <1>4, <1>5 DEF Rank

\* Every rank from 1 to the number of messages is that of one of them.
LEMMA RanksAreTaken ==
    ASSUME NEW S, IsFiniteSet(S), Apart(S)
    PROVE  /\ \A m \in S : Rank(S, m) \in 1..Cardinality(S)
           /\ \A i \in 1..Cardinality(S) : \E m \in S : Rank(S, m) = i
<1>0. Cardinality(S) \in Nat  BY FS_CardinalityType
<1>1. ASSUME NEW m \in S PROVE Rank(S, m) \in 1..Cardinality(S)
  <2>1. Newer(S, m) \subseteq S \ {m}  BY OlderIsTotal DEF Newer
  <2>2. IsFiniteSet(S \ {m}) /\ Cardinality(S \ {m}) = Cardinality(S) - 1
        BY FS_RemoveElement
  <2>3. IsFiniteSet(Newer(S, m)) /\ Cardinality(Newer(S, m)) <= Cardinality(S) - 1
        BY <2>1, <2>2, FS_Subset
  <2>4. Cardinality(Newer(S, m)) \in Nat  BY <2>3, FS_CardinalityType
  <2> QED  BY <1>0, <2>3, <2>4 DEF Rank
<1> DEFINE N == 1..Cardinality(S)
           f == [m \in S |-> Rank(S, m)]
<1>2. f \in [S -> N]  BY <1>1
<1>3. ASSUME NEW a \in S, NEW b \in S, f[a] = f[b] PROVE a = b
  <2>1. Rank(S, a) = Rank(S, b)  BY <1>3
  <2>2. Rank(S, a) \in Nat  BY <1>1, <1>0
  <2>3. ~Older(a, b) /\ ~Older(b, a)  BY <2>1, <2>2, RankFalls
  <2> QED  BY <2>3, OlderIsTotal
<1>4. f \in Injection(S, N)  BY <1>2, <1>3 DEF Injection, IsInjective
<1>5. IsFiniteSet(N) /\ Cardinality(N) = Cardinality(S)
  <2>1. /\ IsFiniteSet(1..Cardinality(S))
        /\ Cardinality(1..Cardinality(S))
              = IF 1 > Cardinality(S) THEN 0 ELSE Cardinality(S) - 1 + 1
        BY <1>0, FS_Interval
  <2> QED  BY <2>1, <1>0
<1> HIDE DEF N
<1>6. f \in Surjection(S, N)  BY <1>4, <1>5, FS_Injection
<1>7. \A i \in N : \E m \in S : f[m] = i  BY <1>6 DEF Surjection
<1> QED  BY <1>1, <1>7 DEF N

\* One is newest.
LEMMA OneIsNewest ==
    ASSUME NEW S, IsFiniteSet(S), Apart(S), S # {}
    PROVE  \E m \in S : Newer(S, m) = {}
<1>1. Cardinality(S) \in Nat /\ Cardinality(S) # 0
      BY FS_CardinalityType, FS_EmptySet
<1>2. PICK m \in S : Rank(S, m) = 1  BY <1>1, RanksAreTaken
<1>3. IsFiniteSet(Newer(S, m))  BY FS_Subset DEF Newer
<1>4. Cardinality(Newer(S, m)) \in Nat  BY <1>3, FS_CardinalityType
<1>5. Cardinality(Newer(S, m)) = 0  BY <1>2, <1>4 DEF Rank
<1> QED  BY <1>3, <1>5, FS_EmptySet

\* A finite set of messages has a sequence from new to old, and what is such a sequence
\* of that length has them all.
LEMMA PageHasOrder ==
    ASSUME NEW S, IsFiniteSet(S), Apart(S)
    PROVE  /\ \E s \in [1..Cardinality(S) -> S] : Falling(s)
           /\ \A s \in [1..Cardinality(S) -> S] :
                Falling(s) => \A m \in S : \E i \in DOMAIN s : s[i] = m
<1>0. Cardinality(S) \in Nat  BY FS_CardinalityType
<1> DEFINE N == 1..Cardinality(S)
<1>1. \E s \in [N -> S] : Falling(s)
  <2> DEFINE s == [i \in N |-> CHOOSE m \in S : Rank(S, m) = i]
  <2>1. \A i \in N : s[i] \in S /\ Rank(S, s[i]) = i  BY RanksAreTaken
  <2>2. s \in [N -> S]  BY <2>1
  <2>3. ASSUME NEW i \in N, NEW j \in N, i < j PROVE Older(s[j], s[i])
    <3>1. s[i] # s[j]  BY <2>1, <2>3
    <3>2. ~Older(s[i], s[j])
      <4> SUFFICES ASSUME Older(s[i], s[j]) PROVE FALSE
          OBVIOUS
      <4>1. Rank(S, s[j]) < Rank(S, s[i])  BY <2>1, RankFalls
      <4>2. j < i  BY <4>1, <2>1
      <4> QED  BY <4>2, <2>3, <1>0
    <3> QED  BY <3>1, <3>2, <2>1, OlderIsTotal
  <2> HIDE DEF s
  <2> QED  BY <2>2, <2>3 DEF Falling
<1>2. ASSUME NEW s \in [N -> S], Falling(s), NEW m \in S
      PROVE  \E i \in DOMAIN s : s[i] = m
  <2>1. \A i, j \in N : s[i] = s[j] => i = j
    <3> SUFFICES ASSUME NEW i \in N, NEW j \in N, s[i] = s[j], i < j PROVE FALSE
        BY <1>0
    <3>1. Older(s[j], s[i])  BY <1>2 DEF Falling
    <3> QED  BY <3>1, OlderIsTotal
  <2>2. s \in Injection(N, S)  BY <2>1 DEF Injection, IsInjective
  <2>3. Cardinality(N) = Cardinality(S)
    <3>1. Cardinality(1..Cardinality(S))
              = IF 1 > Cardinality(S) THEN 0 ELSE Cardinality(S) - 1 + 1
        BY <1>0, FS_Interval
    <3> QED  BY <3>1, <1>0
  <2>4. s \in Surjection(N, S)  BY <2>2, <2>3, FS_Injection
  <2> QED  BY <2>4 DEF Surjection
<1> QED  BY <1>1, <1>2

-----------------------------------------------------------------------------
(* Queues.                                                                  *)

LEMMA AppendFacts ==
    ASSUME NEW S, NEW q \in Seq(S), NEW m \in S
    PROVE  /\ Append(q, m) \in Seq(S) /\ Append(q, m) # <<>>
           /\ Len(Append(q, m)) = Len(q) + 1
           /\ \A i \in 1..Len(q) : Append(q, m)[i] = q[i]
           /\ Append(q, m)[Len(q) + 1] = m
OBVIOUS

LEMMA TailFacts ==
    ASSUME NEW S, NEW q \in Seq(S), q # <<>>
    PROVE  /\ Tail(q) \in Seq(S) /\ Len(q) \in Nat \ {0} /\ Len(Tail(q)) = Len(q) - 1
           /\ \A i \in 1..Len(Tail(q)) : Tail(q)[i] = q[i + 1]
           /\ Head(q) = q[1] /\ Head(q) \in S
OBVIOUS

LEMMA ConcatFacts ==
    ASSUME NEW S, NEW s \in Seq(S), NEW t \in Seq(S)
    PROVE  /\ s \o t \in Seq(S)
           /\ Len(s) \in Nat /\ Len(t) \in Nat /\ Len(s \o t) = Len(s) + Len(t)
           /\ DOMAIN s = 1..Len(s) /\ DOMAIN t = 1..Len(t)
           /\ DOMAIN (s \o t) = 1..(Len(s) + Len(t))
           /\ \A i \in 1..Len(s) : (s \o t)[i] = s[i]
           /\ \A i \in 1..Len(t) : (s \o t)[Len(s) + i] = t[i]
OBVIOUS

-----------------------------------------------------------------------------
(* Types.                                                                   *)

JobRecord ==
    [node : Hub, msg : cscene.asked, next : {"insert", "plugin", "clients", "remember"}]
ConnRecord ==
    [phase : {"new", "counted", "open", "closed"}, queue : Seq(cscene.asked),
     got : Seq(cscene.asked)]
WalkRecord ==
    [begun : BOOLEAN, over : BOOLEAN, due : SUBSET cscene.asked, seen : Seq(cscene.asked)]

\* The scene is one that is described, but for the restarts that have been.
SceneTypes ==
    /\ cscene \in SceneRecord
    /\ Apart(cscene.asked)
    /\ \A r \in cscene.asked : r.dedup # noId => Cross(r)
    /\ IsFiniteSet(cscene.conns)

HubTypes ==
    /\ SceneTypes
    /\ stored \in [Hub -> SUBSET cscene.asked]
    /\ \A n \in Hub : IsFiniteSet(stored[n])
    /\ citizens \in [Hub -> SUBSET Author]
    /\ steps \subseteq JobRecord
    /\ \A j \in steps : j.next = "remember" => j.msg.dedup # noId
    /\ wire \subseteq cscene.asked \X Entry
    /\ conn \in [Client \cup Plugin -> ConnRecord]
    /\ counted \in [Hub -> Nat]
    /\ cache \in [Hub -> [DedupId -> Nat]]
    /\ waiting \subseteq cscene.asked
    /\ answered \in [Hub -> SUBSET DedupId]
    /\ walk \in [Hub -> WalkRecord]

\* What the requests of a scene are.
LEMMA AskedTypes ==
    ASSUME SceneTypes, NEW r \in cscene.asked
    PROVE  /\ r.node \in Hub /\ r.id \in Nat \ {0} /\ r.dedup \in DedupId \cup {noId}
           /\ r.op \in {"send", "admin", "reply", "inbound", "outbound"}
           /\ WriterOf(r) \in Author
<1>1. r \in ChatRequest  BY DEF SceneTypes, Apart
<1>2. r.op \in {"send", "admin", "reply", "inbound", "outbound"}  BY <1>1 DEF ChatRequest
<1>3. WriterOf(r) \in {"citizen", "guest", "bot"}  BY <1>2 DEF WriterOf
<1> QED  BY <1>1, <1>2, <1>3 DEF ChatRequest, Author

\* What is read is a page in the order from new to old, behind what was seen.
PageOf(n) == {m \in PageRows(n, walk[n].seen) : ~m.tui}

Reads(n, s) ==
    /\ s \in Seq(PageOf(n)) /\ Falling(s)
    /\ \A m \in PageOf(n) : \E i \in DOMAIN s : s[i] = m
    /\ walk' = [walk EXCEPT ![n] =
                   [begun |-> TRUE, over |-> PageOf(n) = {},
                    due |-> IF walk[n].begun THEN walk[n].due ELSE stored[n],
                    seen |-> walk[n].seen \o s]]

LEMMA PageIsRead ==
    ASSUME HubTypes, NEW n \in Hub, ReadPage(n)
    PROVE  \E s : Reads(n, s)
<1> DEFINE page == PageOf(n)
           latest == CHOOSE s \in [1..Cardinality(page) -> page] :
                        \A i, j \in DOMAIN s : i < j => Older(s[j], s[i])
<1>1. page \subseteq stored[n]  BY DEF PageOf, PageRows
<1>2. IsFiniteSet(page) /\ Apart(page)
  <2>1. stored[n] \subseteq cscene.asked /\ IsFiniteSet(stored[n])  BY DEF HubTypes
  <2>2. IsFiniteSet(page)  BY <1>1, <2>1, FS_Subset
  <2>3. Apart(page)  BY <1>1, <2>1 DEF HubTypes, SceneTypes, Apart
  <2> QED  BY <2>2, <2>3
<1>3. walk' = [walk EXCEPT ![n] =
                   [begun |-> TRUE, over |-> page = {},
                    due |-> IF walk[n].begun THEN walk[n].due ELSE stored[n],
                    seen |-> walk[n].seen \o latest]]
      BY DEF ReadPage, PageOf
<1> HIDE DEF page
<1>4. \E s \in [1..Cardinality(page) -> page] : Falling(s)  BY <1>2, PageHasOrder
<1>5. latest \in [1..Cardinality(page) -> page] /\ Falling(latest)
      BY <1>4 DEF Falling
<1>6. \A m \in page : \E i \in DOMAIN latest : latest[i] = m
      BY <1>2, <1>5, PageHasOrder
<1>7. Cardinality(page) \in Nat  BY <1>2, FS_CardinalityType
<1> HIDE DEF latest
<1>8. latest \in Seq(page)  BY <1>5, <1>7
<1>9. Reads(n, latest)  BY <1>3, <1>5, <1>6, <1>8 DEF Reads, page
<1> QED  BY <1>9

\* A push keeps the types of connections.
LEMMA PushedTypes ==
    ASSUME HubTypes, NEW n \in Hub, NEW who, NEW m \in cscene.asked
    PROVE  Pushed(n, who, m) \in [Client \cup Plugin -> ConnRecord]
<1> SUFFICES ASSUME NEW x \in Client \cup Plugin PROVE Pushed(n, who, m)[x] \in ConnRecord
    BY DEF Pushed
<1> DEFINE q == Append(conn[x].queue, m)
           short == IF Len(q) > BROADCAST_CAPACITY THEN Tail(q) ELSE q
<1>1. conn[x] \in ConnRecord  BY DEF HubTypes
<1>2. q \in Seq(cscene.asked) /\ q # <<>>
  <2> DEFINE old == conn[x].queue
             A == cscene.asked
  <2>1. old \in Seq(A) /\ m \in A  BY <1>1 DEF ConnRecord
  <2> HIDE DEF old, A
  <2>2. Append(old, m) \in Seq(A) /\ Append(old, m) # <<>>  BY <2>1, AppendFacts
  <2> QED  BY <2>2 DEF old, A
<1> HIDE DEF q
<1>3. short \in Seq(cscene.asked)  BY <1>2, TailFacts
<1> HIDE DEF short
<1>4. [conn[x] EXCEPT !.queue = short] \in ConnRecord  BY <1>1, <1>3 DEF ConnRecord
<1> QED  BY <1>1, <1>4 DEF Pushed, short, q

LEMMA ClosedType ==
    ASSUME NEW x
    PROVE  /\ Closed(x) = [phase |-> "closed", queue |-> <<>>, got |-> <<>>]
           /\ Closed(x) \in ConnRecord
<1>1. Closed(x) = [phase |-> "closed", queue |-> <<>>, got |-> <<>>]
      BY DEF Closed, Unopened
<1>2. <<>> \in Seq(cscene.asked)  OBVIOUS
<1> QED  BY <1>1, <1>2 DEF ConnRecord

LEMMA TypesInitially == ChatInit => HubTypes
<1> SUFFICES ASSUME ChatInit PROVE HubTypes
    OBVIOUS
<1> USE ChatAssumption DEF ChatInit
<1>1. SceneTypes
  <2>1. cscene \in SceneRecord  OBVIOUS
  <2>2. cscene.asked \subseteq ChatRequest  BY <2>1 DEF SceneRecord
  <2> QED  BY <2>1, <2>2 DEF SceneTypes, Apart, Cross
<1>2. IsFiniteSet({})  BY FS_EmptySet
<1>3. Unopened \in ConnRecord  BY DEF Unopened, ConnRecord
<1>4. NoWalk \in WalkRecord  BY DEF NoWalk, WalkRecord
<1>5. cscene.known \in [Hub -> SUBSET Author]  BY <1>1 DEF SceneTypes, SceneRecord
<1> QED  BY <1>1, <1>2, <1>3, <1>4, <1>5 DEF HubTypes

\* The set of requests stays, and so do messages that are stored.
LEMMA SceneKept ==
    ASSUME HubTypes, [ChatNext]_hvars
    PROVE  SceneTypes' /\ cscene'.asked = cscene.asked /\ cscene'.conns = cscene.conns
<1>1. CASE cscene' = cscene  BY <1>1 DEF HubTypes, SceneTypes
<1>2. ASSUME NEW n \in Hub, RestartHub(n)
      PROVE  SceneTypes' /\ cscene'.asked = cscene.asked /\ cscene'.conns = cscene.conns
  <2>1. cscene \in SceneRecord /\ cscene' = [cscene EXCEPT !.restarts = cscene.restarts \ {n}]
        BY <1>2 DEF RestartHub, HubTypes, SceneTypes
  <2>2. /\ cscene'.asked = cscene.asked /\ cscene'.conns = cscene.conns
        /\ cscene' \in SceneRecord
        BY <2>1 DEF SceneRecord
  <2> QED  BY <2>2 DEF HubTypes, SceneTypes
<1> QED
  BY <1>1, <1>2 DEF ChatNext, SendMessage, SendAsBot, CrossChannel, InsertCross, PushPlugin,
     PushClients, Remember, DropHandler, ReceiveChat, LosePush, Register, Subscribe, Deliver,
     Close, ReadPage, LearnAuthor, hvars

\* A row more.
LEMMA InsertedTypes ==
    ASSUME HubTypes, NEW n \in Hub, NEW m \in cscene.asked, Inserted(n, m)
    PROVE  /\ stored' \in [Hub -> SUBSET cscene.asked]
           /\ \A k \in Hub : IsFiniteSet(stored'[k])
           /\ \A k \in Hub : stored'[k] = IF k = n THEN stored[k] \cup {m} ELSE stored[k]
<1>1. stored' = [stored EXCEPT ![n] = stored[n] \cup {m}] /\ stored \in [Hub -> SUBSET cscene.asked]
      BY DEF Inserted, HubTypes
<1>2. stored' \in [Hub -> SUBSET cscene.asked]  BY <1>1
<1>3. \A k \in Hub : stored'[k] = IF k = n THEN stored[k] \cup {m} ELSE stored[k]  BY <1>1
<1>4. ASSUME NEW k \in Hub PROVE IsFiniteSet(stored'[k])
  <2>1. IsFiniteSet(stored[k]) /\ IsFiniteSet(stored[k] \cup {m})  BY FS_AddElement DEF HubTypes
  <2> QED  BY <2>1, <1>3
<1> QED  BY <1>2, <1>3, <1>4

LEMMA StepType ==
    ASSUME NEW n \in Hub, NEW m \in cscene.asked,
           NEW next \in {"insert", "plugin", "clients", "remember"}
    PROVE  /\ Step(n, m, next) \in JobRecord
           /\ Step(n, m, next).node = n /\ Step(n, m, next).msg = m
           /\ Step(n, m, next).next = next
BY DEF Step, JobRecord

LEMMA GossipType ==
    ASSUME NEW n \in Hub, NEW m \in cscene.asked
    PROVE  Gossip(n, m) \subseteq cscene.asked \X Entry
BY DEF Gossip

\* What a handler that remembers does: entry e gives way if the cache is full.
Remembers(j, e, full) ==
    /\ full => cache[j.node][e] # 0
    /\ cache' = [cache EXCEPT ![j.node] =
                    [d \in DedupId |-> IF d = j.msg.dedup THEN j.msg.id
                                      ELSE IF full /\ d = e THEN 0 ELSE cache[j.node][d]]]
    /\ answered' = [answered EXCEPT ![j.node] =
                       (IF full THEN answered[j.node] \ {e} ELSE answered[j.node])
                       \cup {j.msg.dedup}]

LEMMA RememberFacts ==
    ASSUME HubTypes, NEW j \in steps, Remember(j)
    PROVE  \E e \in DedupId, full \in BOOLEAN : Remembers(j, e, full)
<1> DEFINE n == j.node
           full == Cardinality({e \in DedupId : cache[n][e] # 0}) >= MAX_DEDUP_ENTRIES
           Room(e) == [(IF full THEN [cache[n] EXCEPT ![e] = 0] ELSE cache[n])
                          EXCEPT ![j.msg.dedup] = j.msg.id]
           After(e) == [d \in DedupId |-> IF d = j.msg.dedup THEN j.msg.id
                                         ELSE IF full /\ d = e THEN 0 ELSE cache[n][d]]
<1>1. PICK e \in DedupId :
         /\ full => cache[n][e] # 0
         /\ cache' = [cache EXCEPT ![n] = Room(e)]
         /\ answered' = [answered EXCEPT ![n] =
                (IF full THEN answered[n] \ {e} ELSE answered[n]) \cup {j.msg.dedup}]
      BY DEF Remember, HubTypes
<1>2. full \in BOOLEAN  OBVIOUS
<1> HIDE DEF full
<1>3. cache[n] \in [DedupId -> Nat]  BY DEF HubTypes, JobRecord
<1>4. Room(e) = After(e)
  <2>1. Room(e) = [d \in DedupId |-> Room(e)[d]]  BY <1>3, <1>2
  <2>2. \A d \in DedupId : Room(e)[d] = After(e)[d]  BY <1>3, <1>2
  <2> QED  BY <2>1, <2>2
<1>5. Remembers(j, e, full)  BY <1>1, <1>4 DEF Remembers
<1> QED  BY <1>2, <1>5

LEMMA TypesStep ==
    ASSUME HubTypes, [ChatNext]_hvars PROVE HubTypes'
<1>0. SceneTypes' /\ cscene'.asked = cscene.asked  BY SceneKept
<1> DEFINE A == cscene.asked
           Rest ==
             /\ stored' \in [Hub -> SUBSET A]
             /\ \A n \in Hub : IsFiniteSet(stored'[n])
             /\ citizens' \in [Hub -> SUBSET Author]
             /\ steps' \subseteq JobRecord
             /\ \A j \in steps' : j.next = "remember" => j.msg.dedup # noId
             /\ wire' \subseteq A \X Entry
             /\ conn' \in [Client \cup Plugin -> ConnRecord]
             /\ counted' \in [Hub -> Nat]
             /\ cache' \in [Hub -> [DedupId -> Nat]]
             /\ waiting' \subseteq A
             /\ answered' \in [Hub -> SUBSET DedupId]
             /\ walk' \in [Hub -> WalkRecord]
<1> SUFFICES Rest
  <2>1. JobRecord' = JobRecord /\ ConnRecord' = ConnRecord /\ WalkRecord' = WalkRecord
        BY <1>0 DEF JobRecord, ConnRecord, WalkRecord
  <2> QED  BY <1>0, <2>1 DEF HubTypes
<1>1. ASSUME NEW r \in waiting, SendMessage(r) PROVE Rest
  <2>1. r \in A /\ r.node \in Hub  BY AskedTypes DEF HubTypes
  <2>2. Step(r.node, r, "plugin") \in JobRecord /\ Step(r.node, r, "plugin").next = "plugin"
        BY <2>1, StepType
  <2>3. CASE "citizen" \in citizens[r.node]
    <3>1. Inserted(r.node, r) /\ steps' = steps \cup {Step(r.node, r, "plugin")}
          BY <1>1, <2>3 DEF SendMessage
    <3>2. stored' \in [Hub -> SUBSET A] /\ \A n \in Hub : IsFiniteSet(stored'[n])
          BY <2>1, <3>1, InsertedTypes
    <3> QED  BY <1>1, <2>1, <2>2, <3>1, <3>2 DEF SendMessage, Made, HubTypes
  <2>4. CASE "citizen" \notin citizens[r.node]
        BY <1>1, <2>4 DEF SendMessage, Made, HubTypes
  <2> QED  BY <2>3, <2>4
<1>2. ASSUME NEW r \in waiting, SendAsBot(r) PROVE Rest
  <2>1. r \in A /\ r.node \in Hub  BY AskedTypes DEF HubTypes
  <2>2. Step(r.node, r, "plugin") \in JobRecord /\ Step(r.node, r, "plugin").next = "plugin"
        BY <2>1, StepType
  <2>3. stored' \in [Hub -> SUBSET A] /\ \A n \in Hub : IsFiniteSet(stored'[n])
        BY <1>2, <2>1, InsertedTypes DEF SendAsBot
  <2>4. citizens' \in [Hub -> SUBSET Author]
    <3>1. citizens' = [citizens EXCEPT ![r.node] = citizens[r.node] \cup {"bot"}]
          BY <1>2 DEF SendAsBot
    <3> QED  BY <3>1 DEF HubTypes, Author
  <2>5. wire' \subseteq A \X Entry
    <3>1. wire' = wire \cup Gossip(r.node, r)  BY <1>2 DEF SendAsBot
    <3> QED  BY <3>1, <2>1, GossipType DEF HubTypes
  <2>6. steps' \subseteq steps \cup {Step(r.node, r, "plugin")}  BY <1>2 DEF SendAsBot
  <2>7. waiting' \subseteq waiting  BY <1>2 DEF SendAsBot, Made
  <2> QED  BY <1>2, <2>2, <2>3, <2>4, <2>5, <2>6, <2>7 DEF SendAsBot, HubTypes
<1>3. ASSUME NEW r \in waiting, CrossChannel(r) PROVE Rest
  <2>1. r \in A /\ r.node \in Hub  BY AskedTypes DEF HubTypes
  <2>2. Step(r.node, r, "insert") \in JobRecord /\ Step(r.node, r, "insert").next = "insert"
        BY <2>1, StepType
  <2>3. steps' \subseteq steps \cup {Step(r.node, r, "insert")} /\ waiting' \subseteq waiting
        BY <1>3 DEF CrossChannel, Made
  <2> QED  BY <1>3, <2>2, <2>3 DEF CrossChannel, HubTypes
<1>4. ASSUME NEW j \in steps, InsertCross(j) PROVE Rest
  <2>1. j.node \in Hub /\ j.msg \in A  BY DEF HubTypes, JobRecord
  <2>2. Step(j.node, j.msg, "plugin") \in JobRecord /\ Step(j.node, j.msg, "plugin").next = "plugin"
        BY <2>1, StepType
  <2>3. stored' \in [Hub -> SUBSET A] /\ \A n \in Hub : IsFiniteSet(stored'[n])
        BY <1>4, <2>1, InsertedTypes DEF InsertCross
  <2>4. citizens' \in [Hub -> SUBSET Author]
    <3>1. citizens' = [citizens EXCEPT ![j.node] = citizens[j.node] \cup {WriterOf(j.msg)}]
          BY <1>4 DEF InsertCross
    <3>2. WriterOf(j.msg) \in Author  BY <2>1, AskedTypes DEF HubTypes
    <3> QED  BY <3>1, <3>2 DEF HubTypes
  <2>5. steps' \subseteq steps \cup {Step(j.node, j.msg, "plugin")}
        BY <1>4 DEF InsertCross, Then, Keep
  <2> QED  BY <1>4, <2>2, <2>3, <2>4, <2>5 DEF InsertCross, HubTypes
<1>5. ASSUME NEW j \in steps, PushPlugin(j) PROVE Rest
  <2>1. j.node \in Hub /\ j.msg \in A  BY DEF HubTypes, JobRecord
  <2>2. Step(j.node, j.msg, "clients") \in JobRecord /\ Step(j.node, j.msg, "clients").next = "clients"
        BY <2>1, StepType
  <2>3. conn' \in [Client \cup Plugin -> ConnRecord]
        BY <1>5, <2>1, PushedTypes DEF PushPlugin, HubTypes
  <2>4. steps' \subseteq steps \cup {Step(j.node, j.msg, "clients")}
        BY <1>5 DEF PushPlugin, Then, Keep
  <2> QED  BY <1>5, <2>2, <2>3, <2>4 DEF PushPlugin, HubTypes
<1>6. ASSUME NEW j \in steps, PushClients(j) PROVE Rest
  <2>1. j.node \in Hub /\ j.msg \in A  BY DEF HubTypes, JobRecord
  <2>2. /\ Step(j.node, j.msg, "remember") \in JobRecord
        /\ Step(j.node, j.msg, "remember").msg = j.msg
        BY <2>1, StepType
  <2>3. conn' \in [Client \cup Plugin -> ConnRecord]
        BY <1>6, <2>1, PushedTypes DEF PushClients, HubTypes
  <2>4. \/ steps' \subseteq steps
        \/ j.msg.dedup # noId /\ steps' \subseteq steps \cup {Step(j.node, j.msg, "remember")}
        BY <1>6 DEF PushClients, Then, Keep
  <2>5. wire' \subseteq A \X Entry
    <3>1. wire' \subseteq wire \cup Gossip(j.node, j.msg)  BY <1>6 DEF PushClients
    <3> QED  BY <3>1, <2>1, GossipType DEF HubTypes
  <2>6. steps' \subseteq JobRecord /\ \A k \in steps' : k.next = "remember" => k.msg.dedup # noId
        BY <2>2, <2>4 DEF HubTypes
  <2> QED  BY <1>6, <2>3, <2>5, <2>6 DEF PushClients, HubTypes
<1>7. ASSUME NEW j \in steps, Remember(j) PROVE Rest
  <2>1. j.node \in Hub /\ j.msg \in A  BY DEF HubTypes, JobRecord
  <2>2. j.msg.dedup \in DedupId /\ j.msg.id \in Nat
        BY <1>7, <2>1, AskedTypes DEF Remember, HubTypes
  <2>3. cache' \in [Hub -> [DedupId -> Nat]] /\ answered' \in [Hub -> SUBSET DedupId]
    <3>1. PICK e \in DedupId, full \in BOOLEAN : Remembers(j, e, full)
          BY <1>7, RememberFacts
    <3> QED  BY <3>1, <2>1, <2>2 DEF Remembers, HubTypes
  <2>4. steps' \subseteq steps  BY <1>7 DEF Remember, Keep
  <2> QED  BY <1>7, <2>3, <2>4 DEF Remember, HubTypes
<1>8. ASSUME NEW j \in steps, DropHandler(j) PROVE Rest
  BY <1>8 DEF DropHandler, Keep, HubTypes
<1>9. ASSUME NEW p \in wire, ReceiveChat(p) PROVE Rest
  <2> DEFINE n == Leads[p[2]]
             m == p[1]
  <2>1. n \in Hub /\ m \in A  BY ChatAssumption DEF HubTypes
  <2> HIDE DEF n, m
  <2>2. Step(n, m, "plugin") \in JobRecord /\ Step(n, m, "plugin").next = "plugin"
        BY <2>1, StepType
  <2>3. \/ Inserted(n, m) /\ steps' = steps \cup {Step(n, m, "plugin")}
        \/ UNCHANGED <<stored, steps>>
        BY <1>9 DEF ReceiveChat, n, m
  <2>4. stored' \in [Hub -> SUBSET A] /\ \A k \in Hub : IsFiniteSet(stored'[k])
        BY <2>1, <2>3, InsertedTypes DEF HubTypes
  <2>5. wire' \subseteq wire  BY <1>9 DEF ReceiveChat
  <2> QED  BY <1>9, <2>2, <2>3, <2>4, <2>5 DEF ReceiveChat, HubTypes
<1>10. ASSUME NEW p \in wire, LosePush(p) PROVE Rest
  BY <1>10 DEF LosePush, HubTypes
<1>11. ASSUME NEW x \in Client \cup Plugin, Register(x) PROVE Rest
  <2>1. conn[x] \in ConnRecord /\ HubOf[x] \in Hub  BY ChatAssumption DEF HubTypes
  <2>2. [conn[x] EXCEPT !.phase = "counted"] \in ConnRecord  BY <2>1 DEF ConnRecord
  <2>3. conn' = [conn EXCEPT ![x] = [conn[x] EXCEPT !.phase = "counted"]]
        BY <1>11 DEF Register, HubTypes
  <2>4. counted' \in [Hub -> Nat]  BY <1>11, <2>1 DEF Register, HubTypes
  <2> QED  BY <1>11, <2>2, <2>3, <2>4 DEF Register, HubTypes
<1>12. ASSUME NEW x \in Client \cup Plugin, Subscribe(x) PROVE Rest
  <2>1. conn[x] \in ConnRecord  BY DEF HubTypes
  <2>2. [conn[x] EXCEPT !.phase = "open"] \in ConnRecord  BY <2>1 DEF ConnRecord
  <2>3. conn' = [conn EXCEPT ![x] = [conn[x] EXCEPT !.phase = "open"]]
        BY <1>12 DEF Subscribe, HubTypes
  <2> QED  BY <1>12, <2>2, <2>3 DEF Subscribe, HubTypes
<1>13. ASSUME NEW x \in Client \cup Plugin, Deliver(x) PROVE Rest
  <2> DEFINE q == conn[x].queue
             g == conn[x].got
  <2>1. conn[x] \in ConnRecord /\ q \in Seq(A) /\ g \in Seq(A) /\ q # <<>>
        BY <1>13 DEF HubTypes, ConnRecord, Deliver
  <2>2. Tail(q) \in Seq(A) /\ Append(g, Head(q)) \in Seq(A)
        BY <2>1, TailFacts, AppendFacts
  <2>3. [conn[x] EXCEPT !.queue = Tail(q), !.got = Append(g, Head(q))] \in ConnRecord
        BY <2>1, <2>2 DEF ConnRecord
  <2>4. conn' = [conn EXCEPT ![x] =
                   [conn[x] EXCEPT !.queue = Tail(q), !.got = Append(g, Head(q))]]
        BY <1>13 DEF Deliver, HubTypes
  <2> HIDE DEF q, g
  <2> QED  BY <1>13, <2>3, <2>4 DEF Deliver, HubTypes
<1>14. ASSUME NEW x \in Client \cup Plugin, Close(x) PROVE Rest
  <2>1. HubOf[x] \in Hub  BY ChatAssumption
  <2>2. counted' \in [Hub -> Nat]
    <3> DEFINE c == counted[HubOf[x]]
    <3>1. c \in Nat  BY <2>1 DEF HubTypes
    <3>2. (IF c = 0 THEN 0 ELSE c - 1) \in Nat  BY <3>1
    <3>3. \/ counted' = counted
          \/ counted' = [counted EXCEPT ![HubOf[x]] = IF c = 0 THEN 0 ELSE c - 1]
          BY <1>14 DEF Close
    <3> HIDE DEF c
    <3> QED  BY <3>2, <3>3 DEF HubTypes
  <2>3. conn' \in [Client \cup Plugin -> ConnRecord]
        BY <1>14, ClosedType DEF Close, HubTypes
  <2> QED  BY <1>14, <2>2, <2>3 DEF Close, HubTypes
<1>15. ASSUME NEW n \in Hub, ReadPage(n) PROVE Rest
  <2>1. PICK s : Reads(n, s)  BY <1>15, PageIsRead
  <2>2. walk[n] \in WalkRecord /\ stored[n] \subseteq A  BY DEF HubTypes
  <2>3. PageOf(n) \subseteq A  BY <2>2 DEF PageOf, PageRows
  <2>4. s \in Seq(A)  BY <2>1, <2>3 DEF Reads
  <2>5. walk[n].seen \o s \in Seq(A)
    <3>1. walk[n].seen \in Seq(A)  BY <2>2 DEF WalkRecord
    <3> QED  BY <2>4, <3>1, ConcatFacts
  <2>6. [begun |-> TRUE, over |-> PageOf(n) = {},
         due |-> IF walk[n].begun THEN walk[n].due ELSE stored[n],
         seen |-> walk[n].seen \o s] \in WalkRecord
        BY <2>2, <2>5 DEF WalkRecord
  <2>7. walk' \in [Hub -> WalkRecord]  BY <2>1, <2>6 DEF Reads, HubTypes
  <2> QED  BY <1>15, <2>7 DEF ReadPage, HubTypes
<1>16. ASSUME NEW n \in Hub, RestartHub(n) PROVE Rest
  <2>1. conn' \in [Client \cup Plugin -> ConnRecord]
        BY <1>16, ClosedType DEF RestartHub, HubTypes
  <2>2. steps' \subseteq steps  BY <1>16 DEF RestartHub
  <2> QED  BY <1>16, <2>1, <2>2 DEF RestartHub, HubTypes
<1>17. ASSUME NEW n \in Hub, NEW a \in Author, LearnAuthor(n, a) PROVE Rest
  BY <1>17 DEF LearnAuthor, HubTypes
<1>18. CASE UNCHANGED hvars  BY <1>18 DEF hvars, HubTypes
<1> QED
  BY <1>1, <1>2, <1>3, <1>4, <1>5, <1>6, <1>7, <1>8, <1>9, <1>10, <1>11, <1>12, <1>13,
     <1>14, <1>15, <1>16, <1>17, <1>18 DEF ChatNext

-----------------------------------------------------------------------------
(* Handlers: each has its own message on its node.                          *)

\* Of a request that has not been made there is nothing anywhere.
Fresh ==
    \A r \in waiting : /\ \A n \in Hub : r \notin stored[n]
                       /\ \A j \in steps : j.msg # r
                       /\ \A p \in wire : p[1] # r

OneJob == \A j, k \in steps : j.node = k.node /\ j.msg = k.msg => j = k

\* What is announced is stored; what is not yet is from another channel.
Placed ==
    \A j \in steps :
        /\ j.next = "insert" => j.msg \notin stored[j.node] /\ Cross(j.msg)
        /\ j.next # "insert" => j.msg \in stored[j.node]

\* What comes from other channels stays on its node.
StaysHome == \A p \in wire : ~Cross(p[1])

WorkInv == Fresh /\ OneJob /\ Placed /\ StaysHome

LEMMA WorkInitially == ChatInit => WorkInv
BY DEF ChatInit, WorkInv, Fresh, OneJob, Placed, StaysHome

\* A message that no handler has and that is stored or to be inserted gets a handler.
LEMMA JobAdded ==
    ASSUME HubTypes, WorkInv, NEW n \in Hub, NEW m \in cscene.asked,
           NEW next \in {"insert", "plugin"},
           \A j \in steps : ~(j.node = n /\ j.msg = m),
           steps' \subseteq steps \cup {Step(n, m, next)},
           IF next = "insert" THEN UNCHANGED stored /\ Cross(m) /\ m \notin stored[n]
           ELSE Inserted(n, m)
    PROVE  OneJob' /\ Placed'
<1> DEFINE new == Step(n, m, next)
<1>1. new.node = n /\ new.msg = m /\ new.next = next  BY StepType
<1>2. steps' \subseteq steps \cup {new}  OBVIOUS
<1> HIDE DEF new
<1>3. OneJob'  BY <1>1, <1>2 DEF WorkInv, OneJob
<1>4. Placed'
  <2>1. CASE next = "insert"  BY <1>1, <1>2, <2>1 DEF WorkInv, Placed
  <2>2. CASE next = "plugin"
    <3>1. Inserted(n, m)  BY <2>2
    <3>2. \A k \in Hub : stored'[k] = IF k = n THEN stored[k] \cup {m} ELSE stored[k]
          BY <3>1, InsertedTypes
    <3>3. \A j \in steps : j.node \in Hub  BY DEF HubTypes, JobRecord
    <3> SUFFICES ASSUME NEW j \in steps'
                 PROVE  /\ j.next = "insert" => j.msg \notin stored'[j.node] /\ Cross(j.msg)
                        /\ j.next # "insert" => j.msg \in stored'[j.node]
        BY DEF Placed
    <3>4. CASE j = new  BY <1>1, <2>2, <3>2, <3>4
    <3>5. CASE j \in steps
      <4>1. ~(j.node = n /\ j.msg = m)  BY <3>5
      <4>2. /\ j.next = "insert" => j.msg \notin stored[j.node] /\ Cross(j.msg)
            /\ j.next # "insert" => j.msg \in stored[j.node]
            BY <3>5 DEF WorkInv, Placed
      <4>3. j.msg \in stored'[j.node] <=> j.msg \in stored[j.node]
            BY <3>2, <3>3, <3>5, <4>1
      <4> QED  BY <4>2, <4>3
    <3> QED  BY <1>2, <3>4, <3>5
  <2> QED  BY <2>1, <2>2
<1> QED  BY <1>3, <1>4

\* A handler goes on to announce.
LEMMA JobGoesOn ==
    ASSUME HubTypes, WorkInv, NEW j \in steps, NEW next \in {"plugin", "clients", "remember"},
           steps' \subseteq Then(j, next),
           \/ j.next # "insert" /\ UNCHANGED stored
           \/ Inserted(j.node, j.msg)
    PROVE  OneJob' /\ Placed'
<1> DEFINE new == Step(j.node, j.msg, next)
<1>0. j.node \in Hub /\ j.msg \in cscene.asked  BY DEF HubTypes, JobRecord
<1>1. new.node = j.node /\ new.msg = j.msg /\ new.next = next  BY <1>0, StepType
<1>2. steps' \subseteq (steps \ {j}) \cup {new}  BY DEF Then, Keep
<1> HIDE DEF new
<1>3. OneJob'  BY <1>1, <1>2 DEF WorkInv, OneJob
<1>4. Placed'
  <2>1. CASE j.next # "insert" /\ UNCHANGED stored
        BY <1>1, <1>2, <2>1 DEF WorkInv, Placed
  <2>2. CASE Inserted(j.node, j.msg)
    <3>1. \A k \in Hub :
            stored'[k] = IF k = j.node THEN stored[k] \cup {j.msg} ELSE stored[k]
          BY <1>0, <2>2, InsertedTypes
    <3>2. \A k \in steps : k.node \in Hub  BY DEF HubTypes, JobRecord
    <3>3. \A k \in steps \ {j} : k.node = j.node => k.msg # j.msg  BY DEF WorkInv, OneJob
    <3> SUFFICES ASSUME NEW k \in steps'
                 PROVE  /\ k.next = "insert" => k.msg \notin stored'[k.node] /\ Cross(k.msg)
                        /\ k.next # "insert" => k.msg \in stored'[k.node]
        BY DEF Placed
    <3>4. CASE k = new  BY <1>0, <1>1, <3>1, <3>4
    <3>5. CASE k \in steps \ {j}
      <4>1. ~(k.node = j.node /\ k.msg = j.msg)  BY <3>3, <3>5
      <4>2. /\ k.next = "insert" => k.msg \notin stored[k.node] /\ Cross(k.msg)
            /\ k.next # "insert" => k.msg \in stored[k.node]
            BY <3>5 DEF WorkInv, Placed
      <4>3. k.msg \in stored'[k.node] <=> k.msg \in stored[k.node]
            BY <3>1, <3>2, <3>5, <4>1
      <4> QED  BY <4>2, <4>3
    <3> QED  BY <1>2, <3>4, <3>5
  <2> QED  BY <2>1, <2>2
<1> QED  BY <1>3, <1>4

\* What stays fresh: stored, handlers and pushes get no request that is still waiting.
LEMMA FreshKept ==
    ASSUME HubTypes, Fresh, NEW m, waiting' \subseteq waiting \ {m},
           \A n \in Hub : stored'[n] \subseteq stored[n] \cup {m},
           \A j \in steps' : j.msg = m \/ \E k \in steps : k.msg = j.msg,
           \A p \in wire' : p[1] = m \/ p \in wire
    PROVE  Fresh'
BY DEF Fresh

LEMMA WorkStep ==
    ASSUME HubTypes, WorkInv, [ChatNext]_hvars PROVE WorkInv'
<1> DEFINE A == cscene.asked
<1>1. ASSUME NEW r \in waiting, SendMessage(r) PROVE WorkInv'
  <2>1. r \in A /\ r.node \in Hub  BY AskedTypes DEF HubTypes
  <2>2. waiting' = waiting \ {r} /\ wire' = wire /\ r.op = "send"  BY <1>1 DEF SendMessage, Made
  <2>3. CASE UNCHANGED <<stored, steps>>
        BY <2>2, <2>3 DEF WorkInv, Fresh, OneJob, Placed, StaysHome
  <2>4. CASE Inserted(r.node, r) /\ steps' = steps \cup {Step(r.node, r, "plugin")}
    <3>1. \A j \in steps : j.msg # r  BY DEF WorkInv, Fresh
    <3>2. OneJob' /\ Placed'  BY <2>1, <2>4, <3>1, JobAdded
    <3>3. \A n \in Hub : stored'[n] \subseteq stored[n] \cup {r}
          BY <2>1, <2>4, InsertedTypes
    <3>4. \A j \in steps' : j.msg = r \/ \E k \in steps : k.msg = j.msg
          BY <2>1, <2>4, StepType
    <3>5. Fresh'  BY <2>2, <3>3, <3>4, FreshKept DEF WorkInv
    <3> QED  BY <2>2, <3>2, <3>5 DEF WorkInv, StaysHome
  <2> QED  BY <1>1, <2>3, <2>4 DEF SendMessage
<1>2. ASSUME NEW r \in waiting, SendAsBot(r) PROVE WorkInv'
  <2>1. r \in A /\ r.node \in Hub  BY AskedTypes DEF HubTypes
  <2>2. /\ waiting' = waiting \ {r} /\ ~Cross(r)
        /\ wire' = wire \cup Gossip(r.node, r) /\ Inserted(r.node, r)
        /\ steps' \subseteq steps \cup {Step(r.node, r, "plugin")}
        BY <1>2 DEF SendAsBot, Made, Cross
  <2>3. \A j \in steps : j.msg # r  BY DEF WorkInv, Fresh
  <2>4. OneJob' /\ Placed'  BY <2>1, <2>2, <2>3, JobAdded
  <2>5. \A n \in Hub : stored'[n] \subseteq stored[n] \cup {r}
        BY <2>1, <2>2, InsertedTypes
  <2>6. \A j \in steps' : j.msg = r \/ \E k \in steps : k.msg = j.msg
        BY <2>1, <2>2, StepType
  <2>7. \A p \in wire' : p[1] = r \/ p \in wire  BY <2>2 DEF Gossip
  <2>8. Fresh'  BY <2>2, <2>5, <2>6, <2>7, FreshKept DEF WorkInv
  <2>9. StaysHome'  BY <2>2, <2>7 DEF WorkInv, StaysHome
  <2> QED  BY <2>4, <2>8, <2>9 DEF WorkInv
<1>3. ASSUME NEW r \in waiting, CrossChannel(r) PROVE WorkInv'
  <2>1. r \in A /\ r.node \in Hub  BY AskedTypes DEF HubTypes
  <2>2. /\ waiting' = waiting \ {r} /\ Cross(r) /\ UNCHANGED <<wire, stored>>
        /\ steps' \subseteq steps \cup {Step(r.node, r, "insert")}
        BY <1>3 DEF CrossChannel, Made, Cross
  <2>3. (\A j \in steps : j.msg # r) /\ r \notin stored[r.node]
        BY <2>1 DEF WorkInv, Fresh
  <2>4. OneJob' /\ Placed'  BY <2>1, <2>2, <2>3, JobAdded
  <2>6. \A j \in steps' : j.msg = r \/ \E k \in steps : k.msg = j.msg
        BY <2>1, <2>2, StepType
  <2>7. Fresh'  BY <2>2, <2>6, FreshKept DEF WorkInv
  <2> QED  BY <2>2, <2>4, <2>7 DEF WorkInv, StaysHome
<1>4. ASSUME NEW j \in steps, InsertCross(j) PROVE WorkInv'
  <2>1. j.node \in Hub /\ j.msg \in A  BY DEF HubTypes, JobRecord
  <2>2. /\ steps' = Then(j, "plugin") /\ Inserted(j.node, j.msg)
        /\ UNCHANGED <<waiting, wire>>
        BY <1>4 DEF InsertCross
  <2>3. OneJob' /\ Placed'  BY <2>2, JobGoesOn
  <2>4. \A n \in Hub : stored'[n] \subseteq stored[n] \cup {j.msg}
        BY <2>1, <2>2, InsertedTypes
  <2>5. \A k \in steps' : k.msg = j.msg \/ k \in steps
        BY <2>1, <2>2, StepType DEF Then, Keep
  <2>6. waiting \subseteq waiting \ {j.msg}  BY DEF WorkInv, Fresh
  <2>7. Fresh'  BY <2>2, <2>4, <2>5, <2>6, FreshKept DEF WorkInv
  <2> QED  BY <2>2, <2>3, <2>7 DEF WorkInv, StaysHome
<1>5. ASSUME NEW j \in steps, PushPlugin(j) PROVE WorkInv'
  <2>1. j.node \in Hub /\ j.msg \in A  BY DEF HubTypes, JobRecord
  <2>2. /\ steps' = Then(j, "clients") /\ UNCHANGED <<waiting, wire, stored>>
        /\ j.next = "plugin"
        BY <1>5 DEF PushPlugin
  <2>3. OneJob' /\ Placed'  BY <2>2, JobGoesOn
  <2>4. \A k \in steps' : k.msg = j.msg \/ k \in steps
        BY <2>1, <2>2, StepType DEF Then, Keep
  <2>5. waiting \subseteq waiting \ {j.msg}  BY DEF WorkInv, Fresh
  <2>6. Fresh'  BY <2>2, <2>4, <2>5, FreshKept DEF WorkInv
  <2> QED  BY <2>2, <2>3, <2>6 DEF WorkInv, StaysHome
<1>6. ASSUME NEW j \in steps, PushClients(j) PROVE WorkInv'
  <2>1. j.node \in Hub /\ j.msg \in A  BY DEF HubTypes, JobRecord
  <2>2. /\ steps' \subseteq Then(j, "remember") /\ UNCHANGED <<waiting, stored>>
        /\ j.next = "clients"
        BY <1>6 DEF PushClients, Then
  <2>3. OneJob' /\ Placed'  BY <2>2, JobGoesOn
  <2>4. \A k \in steps' : k.msg = j.msg \/ k \in steps
        BY <2>1, <2>2, StepType DEF Then, Keep
  <2>5. waiting \subseteq waiting \ {j.msg}  BY DEF WorkInv, Fresh
  <2>6. \/ wire' = wire
        \/ j.msg.op = "send" /\ wire' = wire \cup Gossip(j.node, j.msg)
        BY <1>6 DEF PushClients
  <2>7. \A p \in wire' : p \in wire \/ (p[1] = j.msg /\ ~Cross(j.msg))
        BY <2>6 DEF Gossip, Cross
  <2>8. Fresh'  BY <2>2, <2>4, <2>5, <2>7, FreshKept DEF WorkInv
  <2> QED  BY <2>3, <2>7, <2>8 DEF WorkInv, StaysHome
<1>7. ASSUME NEW p \in wire, ReceiveChat(p) PROVE WorkInv'
  <2> DEFINE n == Leads[p[2]]
             m == p[1]
  <2>1. n \in Hub /\ m \in A /\ ~Cross(m)
        BY ChatAssumption DEF HubTypes, WorkInv, StaysHome
  <2>0. waiting \subseteq waiting \ {m}  BY DEF WorkInv, Fresh
  <2>2. wire' \subseteq wire /\ waiting' = waiting  BY <1>7 DEF ReceiveChat
  <2>3. \/ m \notin stored[n] /\ Inserted(n, m) /\ steps' = steps \cup {Step(n, m, "plugin")}
        \/ UNCHANGED <<stored, steps>>
        BY <1>7 DEF ReceiveChat
  <2> HIDE DEF n, m
  <2>4. CASE UNCHANGED <<stored, steps>>
        BY <2>2, <2>4 DEF WorkInv, Fresh, OneJob, Placed, StaysHome
  <2>5. CASE m \notin stored[n] /\ Inserted(n, m) /\ steps' = steps \cup {Step(n, m, "plugin")}
    <3>1. \A j \in steps : ~(j.node = n /\ j.msg = m)  BY <2>1, <2>5 DEF WorkInv, Placed
    <3>2. OneJob' /\ Placed'  BY <2>1, <2>5, <3>1, JobAdded
    <3>3. \A k \in Hub : stored'[k] \subseteq stored[k] \cup {m}
          BY <2>1, <2>5, InsertedTypes
    <3>4. \A j \in steps' : j.msg = m \/ \E k \in steps : k.msg = j.msg
          BY <2>1, <2>5, StepType
    <3>5. Fresh'  BY <2>0, <2>2, <3>3, <3>4, FreshKept DEF WorkInv
    <3> QED  BY <2>2, <3>2, <3>5 DEF WorkInv, StaysHome
  <2> QED  BY <2>3, <2>4, <2>5
<1>8. ASSUME UNCHANGED <<stored, waiting>>, steps' \subseteq steps, wire' \subseteq wire
      PROVE  WorkInv'
  BY <1>8 DEF WorkInv, Fresh, OneJob, Placed, StaysHome
<1> QED
  BY <1>1, <1>2, <1>3, <1>4, <1>5, <1>6, <1>7, <1>8 DEF ChatNext,
     Remember, DropHandler, Keep, LosePush, Register, Subscribe, Deliver, Close, ReadPage,
     RestartHub, LearnAuthor, hvars

-----------------------------------------------------------------------------
(* What connections get.                                                    *)

RowsIn(s) == {s[i] : i \in DOMAIN s}
Shows(x) == RowsIn(Seen(x))

\* A message that is still to be announced to x has not been.
Unseen ==
    \A j \in steps, x \in Client \cup Plugin :
        HubOf[x] = j.node /\ (j.next = "plugin" \/ (j.next = "clients" /\ x \in Client))
        => j.msg \notin Shows(x)

ShownRight ==
    \A x \in Client \cup Plugin : Distinct(Seen(x)) /\ Shows(x) \subseteq stored[HubOf[x]]

QueuesShort == \A x \in Client \cup Plugin : Len(conn[x].queue) <= BROADCAST_CAPACITY

ShownInv == ShownRight /\ Unseen /\ NoEcho /\ QueuesShort

\* One more at the end, and one less in the middle.
LEMMA LongerDistinct ==
    ASSUME NEW S, NEW s \in Seq(S), NEW m \in S, Distinct(s), m \notin RowsIn(s)
    PROVE  /\ Distinct(Append(s, m))
           /\ RowsIn(Append(s, m)) = RowsIn(s) \cup {m}
<1>1. /\ DOMAIN s = 1..Len(s) /\ Len(s) \in Nat
      /\ DOMAIN Append(s, m) = 1..(Len(s) + 1)
      OBVIOUS
<1>2. /\ \A i \in 1..Len(s) : Append(s, m)[i] = s[i]
      /\ Append(s, m)[Len(s) + 1] = m
      BY AppendFacts
<1>3. Distinct(Append(s, m))  BY <1>1, <1>2 DEF Distinct, RowsIn
<1>4. RowsIn(Append(s, m)) = RowsIn(s) \cup {m}  BY <1>1, <1>2 DEF RowsIn
<1> QED  BY <1>3, <1>4

LEMMA ShorterDistinct ==
    ASSUME NEW S, NEW g \in Seq(S), NEW q \in Seq(S), q # <<>>, Distinct(g \o q)
    PROVE  /\ Distinct(g \o Tail(q))
           /\ RowsIn(g \o Tail(q)) \subseteq RowsIn(g \o q)
<1> DEFINE t == g \o Tail(q)
           s == g \o q
           old(i) == IF i <= Len(g) THEN i ELSE i + 1
<1>1. /\ Tail(q) \in Seq(S) /\ Len(q) \in Nat \ {0} /\ Len(Tail(q)) = Len(q) - 1
      /\ \A i \in 1..Len(Tail(q)) : Tail(q)[i] = q[i + 1]
      BY TailFacts
<1>2. /\ Len(g) \in Nat /\ DOMAIN s = 1..(Len(g) + Len(q))
      /\ \A i \in 1..Len(g) : s[i] = g[i]
      /\ \A i \in 1..Len(q) : s[Len(g) + i] = q[i]
      BY ConcatFacts
<1>3. /\ DOMAIN t = 1..(Len(g) + Len(Tail(q)))
      /\ \A i \in 1..Len(g) : t[i] = g[i]
      /\ \A i \in 1..Len(Tail(q)) : t[Len(g) + i] = Tail(q)[i]
      BY <1>1, ConcatFacts
<1> HIDE DEF t, s
<1>4. \A i \in DOMAIN t : old(i) \in DOMAIN s /\ t[i] = s[old(i)]
  <2> TAKE i \in DOMAIN t
  <2>1. CASE i <= Len(g)  BY <2>1, <1>1, <1>2, <1>3
  <2>2. CASE i > Len(g)
    <3> DEFINE k == i - Len(g)
    <3>1. k \in 1..Len(Tail(q)) /\ k + 1 \in 1..Len(q) /\ i = Len(g) + k
          BY <2>2, <1>1, <1>2, <1>3
    <3>2. t[i] = Tail(q)[k] /\ Tail(q)[k] = q[k + 1]  BY <3>1, <1>1, <1>3
    <3>3. s[Len(g) + (k + 1)] = q[k + 1]  BY <3>1, <1>2
    <3>4. old(i) = i + 1 /\ i \in Nat  BY <2>2, <1>1, <1>2, <1>3
    <3>5. old(i) = Len(g) + (k + 1)  BY <3>1, <3>4, <1>2
    <3>6. Len(g) + (k + 1) \in DOMAIN s  BY <3>1, <1>1, <1>2
    <3> QED  BY <3>2, <3>3, <3>5, <3>6
  <2> QED  BY <2>1, <2>2, <1>2, <1>3, <1>1
<1>5. \A i, j \in DOMAIN t : old(i) = old(j) => i = j  BY <1>1, <1>2, <1>3
<1> HIDE DEF old
<1>6. Distinct(s)  BY DEF s
<1>7. Distinct(t)  BY <1>4, <1>5, <1>6 DEF Distinct
<1>8. RowsIn(t) \subseteq RowsIn(s)  BY <1>4 DEF RowsIn
<1> QED  BY <1>7, <1>8 DEF t, s

\* What a push brings to a connection: nothing, or the message at the end.
LEMMA PushedSeen ==
    ASSUME HubTypes, NEW x \in Client \cup Plugin, NEW n, NEW who, NEW m \in cscene.asked,
           conn' = Pushed(n, who, m), Distinct(Seen(x)),
           x \in who /\ HubOf[x] = n => m \notin Shows(x),
           Len(conn[x].queue) <= BROADCAST_CAPACITY
    PROVE  /\ Distinct(Seen(x)')
           /\ \/ Shows(x)' \subseteq Shows(x)
              \/ x \in who /\ HubOf[x] = n /\ Shows(x)' \subseteq Shows(x) \cup {m}
           /\ Len(conn'[x].queue) <= BROADCAST_CAPACITY
<1> DEFINE A == cscene.asked
           g == conn[x].got
           q == conn[x].queue
           r == Append(q, m)
           short == IF Len(r) > BROADCAST_CAPACITY THEN Tail(r) ELSE r
<1>1. conn[x] \in ConnRecord  BY DEF HubTypes
<1>2. g \in Seq(A) /\ q \in Seq(A) /\ m \in A  BY <1>1 DEF ConnRecord
<1>3. \/ conn'[x] = conn[x]
      \/ x \in who /\ HubOf[x] = n /\ conn'[x] = [conn[x] EXCEPT !.queue = short]
      BY DEF Pushed
<1>4. CASE conn'[x] = conn[x]  BY <1>4 DEF Seen, Shows
<1>5. CASE x \in who /\ HubOf[x] = n /\ conn'[x] = [conn[x] EXCEPT !.queue = short]
  <2>1. conn'[x].got = g /\ conn'[x].queue = short  BY <1>1, <1>5 DEF ConnRecord
  <2>2. Seen(x) = g \o q /\ Seen(x)' = g \o short  BY <2>1 DEF Seen
  <2>3. m \notin Shows(x)  BY <1>5
  <2> HIDE DEF g, q, A
  <2>4. g \o r = Append(g \o q, m)  BY <1>2
  <2>5. g \o q \in Seq(A)  BY <1>2, ConcatFacts
  <2>6. m \notin RowsIn(g \o q)  BY <2>2, <2>3 DEF Shows
  <2>7. Distinct(g \o q)  BY <2>2
  <2>8. Distinct(g \o r) /\ RowsIn(g \o r) = RowsIn(g \o q) \cup {m}
    <3> DEFINE s == g \o q
    <3>1. s \in Seq(A) /\ m \in A /\ Distinct(s) /\ m \notin RowsIn(s)
          BY <1>2, <2>5, <2>6, <2>7 DEF A
    <3> HIDE DEF s
    <3>2. Distinct(Append(s, m)) /\ RowsIn(Append(s, m)) = RowsIn(s) \cup {m}
          BY <3>1, LongerDistinct
    <3> QED  BY <2>4, <3>2 DEF s
  <2>9. r \in Seq(A) /\ r # <<>> /\ Len(r) = Len(q) + 1 /\ Len(q) \in Nat
        BY <1>2, AppendFacts
  <2> HIDE DEF r
  <2>10. Distinct(g \o Tail(r)) /\ RowsIn(g \o Tail(r)) \subseteq RowsIn(g \o q) \cup {m}
    <3>1. Distinct(g \o Tail(r)) /\ RowsIn(g \o Tail(r)) \subseteq RowsIn(g \o r)
          BY <1>2, <2>8, <2>9, ShorterDistinct
    <3> QED  BY <2>8, <3>1
  <2>11. Len(Tail(r)) = Len(r) - 1  BY <2>9, TailFacts
  <2>12. Distinct(g \o short) /\ RowsIn(g \o short) \subseteq RowsIn(g \o q) \cup {m}
         BY <2>8, <2>10
  <2>13. Len(short) <= BROADCAST_CAPACITY
    <3>1. Len(q) <= BROADCAST_CAPACITY  BY DEF q
    <3> QED  BY <2>9, <2>11, <3>1, ChatAssumption
  <2> HIDE DEF short
  <2>14. Distinct(Seen(x)')  BY <2>2, <2>12
  <2>15. Shows(x)' \subseteq Shows(x) \cup {m}  BY <2>2, <2>12 DEF Shows
  <2> QED  BY <1>5, <2>1, <2>13, <2>14, <2>15
<1> QED  BY <1>3, <1>4, <1>5

\* What touches connections.
LEMMA ConnTouched ==
    ASSUME [ChatNext]_hvars
    PROVE  \/ UNCHANGED <<conn, counted>>
           \/ \E j \in steps : PushPlugin(j) \/ PushClients(j)
           \/ \E y \in Client \cup Plugin : Register(y) \/ Subscribe(y) \/ Deliver(y) \/ Close(y)
           \/ \E n \in Hub : RestartHub(n)
<1> DEFINE Same == UNCHANGED <<conn, counted>>
<1>1. ASSUME NEW r \in waiting, SendMessage(r) \/ SendAsBot(r) \/ CrossChannel(r) PROVE Same
  BY <1>1 DEF SendMessage, SendAsBot, CrossChannel
<1>2. ASSUME NEW j \in steps, InsertCross(j) \/ Remember(j) \/ DropHandler(j) PROVE Same
  BY <1>2 DEF InsertCross, Remember, DropHandler
<1>3. ASSUME NEW p \in wire, ReceiveChat(p) \/ LosePush(p) PROVE Same
  BY <1>3 DEF ReceiveChat, LosePush
<1>4. ASSUME NEW n \in Hub, ReadPage(n) PROVE Same  BY <1>4 DEF ReadPage
<1>5. ASSUME NEW n \in Hub, NEW a \in Author, LearnAuthor(n, a) PROVE Same
  BY <1>5 DEF LearnAuthor
<1>6. CASE UNCHANGED hvars  BY <1>6 DEF hvars
<1> HIDE DEF Same
<1>7. ASSUME ChatNext, ~Same
      PROVE  \/ \E j \in steps : PushPlugin(j) \/ PushClients(j)
             \/ \E y \in Client \cup Plugin : Register(y) \/ Subscribe(y) \/ Deliver(y) \/ Close(y)
             \/ \E n \in Hub : RestartHub(n)
  BY <1>1, <1>2, <1>3, <1>4, <1>5, <1>7 DEF ChatNext
<1> QED  BY <1>6, <1>7 DEF Same

\* A step shows nothing new to x, or one message that a handler announces.
Announced(x, j) ==
    /\ HubOf[x] = j.node
    /\ Shows(x)' \subseteq Shows(x) \cup {j.msg}
    /\ \/ PushPlugin(j) /\ x \in Plugin /\ ForPlugin(j.msg)
       \/ PushClients(j) /\ x \in Client

LEMMA SeenStep ==
    ASSUME HubTypes, WorkInv, ShownInv, [ChatNext]_hvars, NEW x \in Client \cup Plugin
    PROVE  /\ Distinct(Seen(x)') /\ Len(conn'[x].queue) <= BROADCAST_CAPACITY
           /\ \/ Shows(x)' \subseteq Shows(x)
              \/ \E j \in steps : Announced(x, j)
<1> DEFINE Result ==
      /\ Distinct(Seen(x)') /\ Len(conn'[x].queue) <= BROADCAST_CAPACITY
      /\ \/ Shows(x)' \subseteq Shows(x)
         \/ \E j \in steps : Announced(x, j)
<1>0. /\ Distinct(Seen(x)) /\ Len(conn[x].queue) <= BROADCAST_CAPACITY
      /\ conn[x] \in ConnRecord
      BY DEF ShownInv, ShownRight, QueuesShort, HubTypes
<1>1. ASSUME conn'[x].queue = conn[x].queue, conn'[x].got = conn[x].got PROVE Result
  <2>1. Seen(x)' = Seen(x)  BY <1>1 DEF Seen
  <2>2. Shows(x)' = Shows(x)  BY <2>1 DEF Shows
  <2> QED  BY <1>0, <1>1, <2>1, <2>2
<1>2. ASSUME conn'[x] = Closed(x) PROVE Result
  <2>1. conn'[x].queue = <<>> /\ conn'[x].got = <<>>  BY <1>2, ClosedType
  <2>2. Seen(x)' = <<>>  BY <2>1 DEF Seen
  <2>3. Shows(x)' = {} /\ Distinct(Seen(x)')  BY <2>2 DEF Shows, RowsIn, Distinct
  <2>4. Len(conn'[x].queue) = 0  BY <2>1
  <2> QED  BY <2>3, <2>4, ChatAssumption
<1>3. ASSUME NEW j \in steps, PushPlugin(j) PROVE Result
  <2>1. CASE UNCHANGED conn  BY <1>1, <2>1
  <2>2. CASE ForPlugin(j.msg) /\ conn' = Pushed(j.node, Plugin, j.msg)
    <3>1. j.msg \in cscene.asked  BY DEF HubTypes, JobRecord
    <3>2. x \in Plugin /\ HubOf[x] = j.node => j.msg \notin Shows(x)
          BY <1>3 DEF PushPlugin, ShownInv, Unseen
    <3>3. /\ Distinct(Seen(x)') /\ Len(conn'[x].queue) <= BROADCAST_CAPACITY
          /\ \/ Shows(x)' \subseteq Shows(x)
             \/ x \in Plugin /\ HubOf[x] = j.node /\ Shows(x)' \subseteq Shows(x) \cup {j.msg}
          BY <1>0, <2>2, <3>1, <3>2, PushedSeen
    <3> QED  BY <1>3, <2>2, <3>3 DEF Announced
  <2> QED  BY <1>3, <2>1, <2>2 DEF PushPlugin
<1>4. ASSUME NEW j \in steps, PushClients(j) PROVE Result
  <2>1. CASE UNCHANGED conn  BY <1>1, <2>1
  <2>2. CASE conn' = Pushed(j.node, Client, j.msg)
    <3>1. j.msg \in cscene.asked  BY DEF HubTypes, JobRecord
    <3>2. x \in Client /\ HubOf[x] = j.node => j.msg \notin Shows(x)
          BY <1>4 DEF PushClients, ShownInv, Unseen
    <3>3. /\ Distinct(Seen(x)') /\ Len(conn'[x].queue) <= BROADCAST_CAPACITY
          /\ \/ Shows(x)' \subseteq Shows(x)
             \/ x \in Client /\ HubOf[x] = j.node /\ Shows(x)' \subseteq Shows(x) \cup {j.msg}
          BY <1>0, <2>2, <3>1, <3>2, PushedSeen
    <3> QED  BY <1>4, <2>2, <3>3 DEF Announced
  <2> QED  BY <1>4, <2>1, <2>2 DEF PushClients
<1>5. ASSUME NEW y \in Client \cup Plugin, Register(y) PROVE Result
  <2>1. conn' = [conn EXCEPT ![y] = [conn[y] EXCEPT !.phase = "counted"]]
        BY <1>5 DEF Register, HubTypes
  <2>2. conn'[x].queue = conn[x].queue /\ conn'[x].got = conn[x].got
        BY <2>1 DEF HubTypes, ConnRecord
  <2> QED  BY <2>2, <1>1
<1>6. ASSUME NEW y \in Client \cup Plugin, Subscribe(y) PROVE Result
  <2>1. conn' = [conn EXCEPT ![y] = [conn[y] EXCEPT !.phase = "open"]]
        BY <1>6 DEF Subscribe, HubTypes
  <2>2. conn'[x].queue = conn[x].queue /\ conn'[x].got = conn[x].got
        BY <2>1 DEF HubTypes, ConnRecord
  <2> QED  BY <2>2, <1>1
<1>7. ASSUME NEW y \in Client \cup Plugin, Deliver(y) PROVE Result
  <2> DEFINE A == cscene.asked
             q == conn[y].queue
             g == conn[y].got
  <2>1. conn' = [conn EXCEPT ![y] = [conn[y] EXCEPT !.queue = Tail(q), !.got = Append(g, Head(q))]]
        BY <1>7 DEF Deliver, HubTypes
  <2>2. conn[y] \in ConnRecord /\ conn \in [Client \cup Plugin -> ConnRecord] /\ q # <<>>
        BY <1>7 DEF HubTypes, Deliver
  <2>3. CASE x # y
        BY <1>1, <2>1, <2>2, <2>3
  <2>4. CASE x = y
    <3>1. conn'[x].queue = Tail(q) /\ conn'[x].got = Append(g, Head(q))
          BY <2>1, <2>2, <2>4 DEF ConnRecord
    <3>2. q \in Seq(A) /\ g \in Seq(A)  BY <2>2 DEF ConnRecord
    <3>3. Seen(x) = g \o q /\ Seen(x)' = Append(g, Head(q)) \o Tail(q)
          BY <2>4, <3>1 DEF Seen
    <3>4. Len(q) <= BROADCAST_CAPACITY  BY <1>0, <2>4
    <3> HIDE DEF q, g, A
    <3>5. Append(g, Head(q)) \o Tail(q) = g \o q  BY <2>2, <3>2
    <3>6. Seen(x)' = Seen(x)  BY <3>3, <3>5
    <3>7. Shows(x)' = Shows(x)  BY <3>6 DEF Shows
    <3>8. Len(conn'[x].queue) <= BROADCAST_CAPACITY
      <4>1. Len(Tail(q)) = Len(q) - 1 /\ Len(q) \in Nat  BY <2>2, <3>2, TailFacts
      <4> QED  BY <3>1, <3>4, <4>1, ChatAssumption
    <3> QED  BY <1>0, <3>6, <3>7, <3>8
  <2> QED  BY <2>3, <2>4
<1>8. ASSUME NEW y \in Client \cup Plugin, Close(y) PROVE Result
  <2>1. conn' = [conn EXCEPT ![y] = Closed(y)]  BY <1>8 DEF Close
  <2>2. conn'[x] = conn[x] \/ conn'[x] = Closed(x)  BY <2>1 DEF HubTypes
  <2> QED  BY <2>2, <1>1, <1>2
<1>9. ASSUME NEW n \in Hub, RestartHub(n) PROVE Result
  <2>1. conn'[x] = conn[x] \/ conn'[x] = Closed(x)  BY <1>9 DEF RestartHub, HubTypes
  <2> QED  BY <2>1, <1>1, <1>2
<1>10. ASSUME conn' = conn PROVE Result  BY <1>10, <1>1
<1> HIDE DEF Result
<1>11. Result
  <2>1. CASE UNCHANGED <<conn, counted>>  BY <1>10, <2>1
  <2>2. CASE \E j \in steps : PushPlugin(j) \/ PushClients(j)  BY <1>3, <1>4, <2>2
  <2>3. CASE \E y \in Client \cup Plugin : Register(y) \/ Subscribe(y) \/ Deliver(y) \/ Close(y)
        BY <1>5, <1>6, <1>7, <1>8, <2>3
  <2>4. CASE \E n \in Hub : RestartHub(n)  BY <1>9, <2>4
  <2> QED  BY ConnTouched, <2>1, <2>2, <2>3, <2>4
<1> QED  BY <1>11 DEF Result

\* A handler that is new in its phase announces what is new on its node, or has passed
\* plugins.
LEMMA NewJobs ==
    ASSUME HubTypes, WorkInv, [ChatNext]_hvars, NEW k \in steps' \ steps
    PROVE  \/ k.next \in {"insert", "plugin"} /\ k.msg \notin stored[k.node] /\ UNCHANGED conn
           \/ k.next = "clients" /\ \E j \in steps :
                 PushPlugin(j) /\ k.node = j.node /\ k.msg = j.msg
           \/ k.next = "remember"
<1> DEFINE Result ==
      \/ k.next \in {"insert", "plugin"} /\ k.msg \notin stored[k.node] /\ UNCHANGED conn
      \/ k.next = "clients" /\ \E j \in steps : PushPlugin(j) /\ k.node = j.node /\ k.msg = j.msg
      \/ k.next = "remember"
<1>1. ASSUME NEW n \in Hub, NEW m \in cscene.asked, NEW next \in {"insert", "plugin"},
             m \notin stored[n], steps' \subseteq steps \cup {Step(n, m, next)}, UNCHANGED conn
      PROVE  Result
  BY <1>1, StepType
<1>2. ASSUME NEW j \in steps, NEW next \in {"plugin", "clients", "remember"},
             steps' \subseteq steps \cup Then(j, next)
      PROVE  k.node = j.node /\ k.msg = j.msg /\ k.next = next
  <2>1. j.node \in Hub /\ j.msg \in cscene.asked  BY DEF HubTypes, JobRecord
  <2>2. k = Step(j.node, j.msg, next)  BY <1>2 DEF Then, Keep
  <2> QED  BY <2>1, <2>2, StepType
<1>3. ASSUME NEW r \in waiting, SendMessage(r) \/ SendAsBot(r) \/ CrossChannel(r) PROVE Result
  <2>1. r \in cscene.asked /\ r.node \in Hub  BY AskedTypes DEF HubTypes
  <2>2. r \notin stored[r.node]  BY <2>1 DEF WorkInv, Fresh
  <2>3. /\ UNCHANGED conn
        /\ \/ steps' \subseteq steps \cup {Step(r.node, r, "plugin")}
           \/ steps' \subseteq steps \cup {Step(r.node, r, "insert")}
        BY <1>3 DEF SendMessage, SendAsBot, CrossChannel
  <2> HIDE DEF Result
  <2> QED  BY <1>1, <2>1, <2>2, <2>3
<1>4. ASSUME NEW j \in steps, InsertCross(j) PROVE Result
  <2>1. k.node = j.node /\ k.msg = j.msg /\ k.next = "plugin"
        BY <1>2, <1>4 DEF InsertCross
  <2>2. j.msg \notin stored[j.node]  BY <1>4 DEF InsertCross, WorkInv, Placed
  <2> QED  BY <1>4, <2>1, <2>2 DEF InsertCross
<1>5. ASSUME NEW j \in steps, PushPlugin(j) PROVE Result
  <2>1. k.node = j.node /\ k.msg = j.msg /\ k.next = "clients"
        BY <1>2, <1>5 DEF PushPlugin
  <2> QED  BY <1>5, <2>1
<1>6. ASSUME NEW j \in steps, PushClients(j) PROVE Result
  <2>1. steps' \subseteq steps \cup Then(j, "remember")  BY <1>6 DEF PushClients, Keep, Then
  <2> QED  BY <1>2, <2>1
<1>7. ASSUME NEW p \in wire, ReceiveChat(p) PROVE Result
  <2> DEFINE n == Leads[p[2]]
             m == p[1]
  <2>1. n \in Hub /\ m \in cscene.asked  BY ChatAssumption DEF HubTypes
  <2>2. m \notin stored[n] /\ steps' = steps \cup {Step(n, m, "plugin")} /\ UNCHANGED conn
        BY <1>7 DEF ReceiveChat
  <2> HIDE DEF n, m, Result
  <2> QED  BY <1>1, <2>1, <2>2
<1>8. ASSUME steps' \subseteq steps PROVE Result  BY <1>8
<1> HIDE DEF Result
<1>9. Result
  <2>1. CASE \E r \in waiting : SendMessage(r) \/ SendAsBot(r) \/ CrossChannel(r)
        BY <2>1, <1>3
  <2>2. CASE \E j \in steps : InsertCross(j) \/ PushPlugin(j) \/ PushClients(j)
        BY <2>2, <1>4, <1>5, <1>6
  <2>3. CASE \E p \in wire : ReceiveChat(p)  BY <2>3, <1>7
  <2>4. \/ steps' \subseteq steps
        \/ \E r \in waiting : SendMessage(r) \/ SendAsBot(r) \/ CrossChannel(r)
        \/ \E j \in steps : InsertCross(j) \/ PushPlugin(j) \/ PushClients(j)
        \/ \E p \in wire : ReceiveChat(p)
        BY DEF ChatNext, Remember, DropHandler, Keep, LosePush, Register, Subscribe, Deliver,
           Close, ReadPage, RestartHub, LearnAuthor, hvars
  <2> QED  BY <2>1, <2>2, <2>3, <2>4, <1>8
<1> QED  BY <1>9 DEF Result

\* Messages stay.
LEMMA StoredGrows ==
    ASSUME HubTypes, [ChatNext]_hvars, NEW n \in Hub
    PROVE  stored[n] \subseteq stored'[n]
<1>1. ASSUME NEW k \in Hub, NEW m \in cscene.asked, Inserted(k, m)
      PROVE  stored[n] \subseteq stored'[n]
  BY <1>1, InsertedTypes
<1>2. ASSUME NEW r \in waiting, SendMessage(r) \/ SendAsBot(r) PROVE stored[n] \subseteq stored'[n]
  <2>1. r \in cscene.asked /\ r.node \in Hub  BY AskedTypes DEF HubTypes
  <2>2. Inserted(r.node, r) \/ UNCHANGED stored  BY <1>2 DEF SendMessage, SendAsBot
  <2> QED  BY <1>1, <2>1, <2>2
<1>3. ASSUME NEW j \in steps, InsertCross(j) PROVE stored[n] \subseteq stored'[n]
  <2>1. j.node \in Hub /\ j.msg \in cscene.asked  BY DEF HubTypes, JobRecord
  <2>2. Inserted(j.node, j.msg)  BY <1>3 DEF InsertCross
  <2> QED  BY <1>1, <2>1, <2>2
<1>4. ASSUME NEW p \in wire, ReceiveChat(p) PROVE stored[n] \subseteq stored'[n]
  <2>1. Leads[p[2]] \in Hub /\ p[1] \in cscene.asked  BY ChatAssumption DEF HubTypes
  <2>2. Inserted(Leads[p[2]], p[1]) \/ UNCHANGED stored  BY <1>4 DEF ReceiveChat
  <2> QED  BY <1>1, <2>1, <2>2
<1>5. \/ UNCHANGED stored
      \/ \E r \in waiting : SendMessage(r) \/ SendAsBot(r)
      \/ \E j \in steps : InsertCross(j)
      \/ \E p \in wire : ReceiveChat(p)
      BY DEF ChatNext, CrossChannel, PushPlugin, PushClients, Remember, DropHandler, LosePush,
         Register, Subscribe, Deliver, Close, ReadPage, RestartHub, LearnAuthor, hvars
<1> QED  BY <1>2, <1>3, <1>4, <1>5

LEMMA ShownInitially == ChatInit => ShownInv
<1> SUFFICES ASSUME ChatInit PROVE ShownInv
    OBVIOUS
<1>1. \A x \in Client \cup Plugin : conn[x].queue = <<>> /\ conn[x].got = <<>>
      BY DEF ChatInit, Unopened
<1>2. \A x \in Client \cup Plugin : Seen(x) = <<>>  BY <1>1 DEF Seen
<1>3. \A x \in Client \cup Plugin : Shows(x) = {} /\ Distinct(Seen(x))
      BY <1>2 DEF Shows, RowsIn, Distinct
<1>4. QueuesShort  BY <1>1, ChatAssumption DEF QueuesShort
<1>5. NoEcho  BY <1>2 DEF NoEcho
<1> QED  BY <1>3, <1>4, <1>5 DEF ShownInv, ShownRight, Unseen, ChatInit

LEMMA ShownStep ==
    ASSUME HubTypes, WorkInv, ShownInv, [ChatNext]_hvars PROVE ShownInv'
<1>1. ASSUME NEW x \in Client \cup Plugin PROVE Shows(x)' \subseteq stored'[HubOf[x]]
  <2>1. HubOf[x] \in Hub  BY ChatAssumption
  <2>2. Shows(x) \subseteq stored[HubOf[x]] /\ stored[HubOf[x]] \subseteq stored'[HubOf[x]]
        BY <2>1, StoredGrows DEF ShownInv, ShownRight
  <2>3. CASE Shows(x)' \subseteq Shows(x)  BY <2>2, <2>3
  <2>4. ASSUME NEW j \in steps, Announced(x, j) PROVE Shows(x)' \subseteq stored'[HubOf[x]]
    <3>1. j.next # "insert"  BY <2>4 DEF Announced, PushPlugin, PushClients
    <3>2. j.msg \in stored[j.node]  BY <3>1 DEF WorkInv, Placed
    <3> QED  BY <2>2, <2>4, <3>2 DEF Announced
  <2> QED  BY <2>3, <2>4, SeenStep
<1>2. ShownRight'  BY <1>1, SeenStep DEF ShownRight
<1>3. QueuesShort'  BY SeenStep DEF QueuesShort
<1>4. NoEcho'
  <2> SUFFICES ASSUME NEW x \in Plugin PROVE \A m \in Shows(x)' : m.op = "send"
      BY DEF NoEcho, Shows, RowsIn
  <2>1. \A m \in Shows(x) : m.op = "send"  BY DEF ShownInv, NoEcho, Shows, RowsIn
  <2>2. CASE Shows(x)' \subseteq Shows(x)  BY <2>1, <2>2
  <2>3. ASSUME NEW j \in steps, Announced(x, j) PROVE \A m \in Shows(x)' : m.op = "send"
    <3>1. ForPlugin(j.msg)  BY <2>3, ChatAssumption DEF Announced
    <3>2. j.msg.op \in {"send", "admin", "reply", "inbound", "outbound"}
      <4>1. j.msg \in cscene.asked  BY DEF HubTypes, JobRecord
      <4> QED  BY <4>1, AskedTypes DEF HubTypes
    <3>3. j.msg.op = "send"  BY <3>1, <3>2 DEF ForPlugin, WriterOf, Cross
    <3> QED  BY <2>1, <2>3, <3>3 DEF Announced
  <2> QED  BY <2>2, <2>3, SeenStep
<1>5. Unseen'
  <2> SUFFICES ASSUME NEW k \in steps', NEW x \in Client \cup Plugin, HubOf[x] = k.node,
                      k.next = "plugin" \/ (k.next = "clients" /\ x \in Client)
               PROVE  k.msg \notin Shows(x)'
      BY DEF Unseen
  <2>0. Shows(x) \subseteq stored[k.node]  BY DEF ShownInv, ShownRight
  <2>1. CASE k \in steps
    <3>1. k.msg \notin Shows(x)  BY <2>1 DEF ShownInv, Unseen
    <3>2. ASSUME NEW j \in steps, Announced(x, j) PROVE k.msg # j.msg
      <4> SUFFICES ASSUME k.msg = j.msg PROVE FALSE
          OBVIOUS
      <4>1. k = j  BY <2>1, <3>2 DEF Announced, WorkInv, OneJob
      <4>2. CASE PushPlugin(j) /\ x \in Plugin
        <5>1. x \notin Client /\ j.next = "plugin" /\ steps' = Then(j, "clients")
              BY <4>2, ChatAssumption DEF PushPlugin
        <5>2. j.node \in Hub /\ j.msg \in cscene.asked  BY DEF HubTypes, JobRecord
        <5>3. Step(j.node, j.msg, "clients").next = "clients"  BY <5>2, StepType
        <5>4. k = Step(j.node, j.msg, "clients")  BY <4>1, <5>1 DEF Then, Keep
        <5> QED  BY <4>1, <5>1, <5>3, <5>4
      <4>3. CASE PushClients(j)
        <5>1. j.next = "clients" /\ steps' \subseteq Then(j, "remember")
              BY <4>3 DEF PushClients, Then
        <5>2. j.node \in Hub /\ j.msg \in cscene.asked  BY DEF HubTypes, JobRecord
        <5>3. Step(j.node, j.msg, "remember").next = "remember"  BY <5>2, StepType
        <5>4. k = Step(j.node, j.msg, "remember")  BY <4>1, <5>1 DEF Then, Keep
        <5> QED  BY <4>1, <5>1, <5>3, <5>4
      <4> QED  BY <3>2, <4>2, <4>3 DEF Announced
    <3>3. CASE Shows(x)' \subseteq Shows(x)  BY <3>1, <3>3
    <3>4. ASSUME NEW j \in steps, Announced(x, j) PROVE k.msg \notin Shows(x)'
          BY <3>1, <3>2, <3>4 DEF Announced
    <3> QED  BY <3>3, <3>4, SeenStep
  <2>2. CASE k \notin steps
    <3>1. CASE k.msg \notin stored[k.node] /\ UNCHANGED conn
      <4>1. Seen(x)' = Seen(x)  BY <3>1 DEF Seen
      <4>2. Shows(x)' = Shows(x)  BY <4>1 DEF Shows
      <4> QED  BY <2>0, <3>1, <4>2
    <3>2. ASSUME NEW j \in steps, PushPlugin(j), k.node = j.node, k.msg = j.msg,
                 k.next = "clients"
          PROVE  k.msg \notin Shows(x)'
      <4>1. x \in Client /\ x \notin Plugin  BY <3>2, ChatAssumption
      <4>2. k.msg \notin Shows(x)  BY <3>2, <4>1 DEF PushPlugin, ShownInv, Unseen
      <4>3. Seen(x)' = Seen(x)
        <5>1. conn'[x] = conn[x]  BY <3>2, <4>1 DEF PushPlugin, Pushed
        <5> QED  BY <5>1 DEF Seen
      <4>4. Shows(x)' = Shows(x)  BY <4>3 DEF Shows
      <4> QED  BY <4>2, <4>4
    <3> QED  BY <2>2, <3>1, <3>2, NewJobs
  <2> QED  BY <2>1, <2>2
<1> QED  BY <1>2, <1>3, <1>4, <1>5 DEF ShownInv

-----------------------------------------------------------------------------
(* The number of plugins, and the answers that are remembered.              *)

Taken(n) == {x \in Plugin : HubOf[x] = n /\ conn[x].phase \in {"counted", "open"}}

CountInv ==
    /\ \A n \in Hub : counted[n] = Cardinality(Taken(n))
    /\ \A x \in Client \cup Plugin : conn[x].phase # "new" => x \in cscene.conns

LEMMA CountInitially == ChatInit => CountInv
<1> SUFFICES ASSUME ChatInit PROVE CountInv
    OBVIOUS
<1>1. \A x \in Client \cup Plugin : conn[x].phase = "new"  BY DEF ChatInit, Unopened
<1>2. \A n \in Hub : Taken(n) = {}  BY <1>1 DEF Taken
<1> QED  BY <1>1, <1>2, FS_EmptySet DEF CountInv, ChatInit

LEMMA TakenIsFinite ==
    ASSUME HubTypes, CountInv, NEW n
    PROVE  IsFiniteSet(Taken(n))
<1>1. Taken(n) \subseteq cscene.conns  BY DEF Taken, CountInv
<1> QED  BY <1>1, FS_Subset DEF HubTypes, SceneTypes

LEMMA CountStep ==
    ASSUME HubTypes, CountInv, [ChatNext]_hvars PROVE CountInv'
<1>0. cscene'.conns = cscene.conns  BY SceneKept
<1>1. ASSUME counted' = counted, \A x \in Client \cup Plugin : conn'[x].phase = conn[x].phase
      PROVE  CountInv'
  <2>1. \A n \in Hub : Taken(n)' = Taken(n)  BY <1>1 DEF Taken
  <2> QED  BY <1>0, <1>1, <2>1 DEF CountInv
<1>2. ASSUME NEW n \in Hub, NEW who, NEW m, conn' = Pushed(n, who, m), counted' = counted
      PROVE  CountInv'
  <2> SUFFICES ASSUME NEW x \in Client \cup Plugin PROVE conn'[x].phase = conn[x].phase
      BY <1>1, <1>2
  <2>1. conn[x] \in ConnRecord  BY DEF HubTypes
  <2> DEFINE q == Append(conn[x].queue, m)
             short == IF Len(q) > BROADCAST_CAPACITY THEN Tail(q) ELSE q
  <2>2. conn'[x] = conn[x] \/ conn'[x] = [conn[x] EXCEPT !.queue = short]  BY <1>2 DEF Pushed
  <2> HIDE DEF short
  <2> QED  BY <2>1, <2>2 DEF ConnRecord
<1>3. ASSUME NEW j \in steps, PushPlugin(j) \/ PushClients(j) PROVE CountInv'
  <2>1. j.node \in Hub  BY DEF HubTypes, JobRecord
  <2>2. /\ counted' = counted
        /\ \/ conn' = conn
           \/ conn' = Pushed(j.node, Plugin, j.msg) \/ conn' = Pushed(j.node, Client, j.msg)
        BY <1>3 DEF PushPlugin, PushClients
  <2> QED  BY <1>1, <1>2, <2>1, <2>2
<1>4. ASSUME NEW y \in Client \cup Plugin, Register(y) PROVE CountInv'
  <2>1. /\ y \in Plugin /\ y \in cscene.conns /\ conn[y].phase = "new"
        /\ conn' = [conn EXCEPT ![y] = [conn[y] EXCEPT !.phase = "counted"]]
        /\ counted' = [counted EXCEPT ![HubOf[y]] = counted[HubOf[y]] + 1]
        BY <1>4 DEF Register, HubTypes
  <2>2. \A x \in Client \cup Plugin :
          conn'[x].phase = IF x = y THEN "counted" ELSE conn[x].phase
        BY <2>1 DEF HubTypes, ConnRecord
  <2>3. \A n \in Hub : Taken(n)' = IF n = HubOf[y] THEN Taken(n) \cup {y} ELSE Taken(n)
        BY <2>1, <2>2 DEF Taken
  <2>4. y \notin Taken(HubOf[y])  BY <2>1 DEF Taken
  <2>5. \A n \in Hub : counted'[n] = Cardinality(Taken(n)')
    <3> TAKE n \in Hub
    <3>1. counted[n] = Cardinality(Taken(n)) /\ counted[n] \in Nat  BY DEF CountInv, HubTypes
    <3>2. IsFiniteSet(Taken(n))  BY TakenIsFinite
    <3>3. y \notin Taken(n) => Cardinality(Taken(n) \cup {y}) = Cardinality(Taken(n)) + 1
          BY <3>2, FS_AddElement
    <3>4. HubOf[y] \in Hub /\ counted \in [Hub -> Nat]  BY ChatAssumption DEF HubTypes
    <3>5. CASE n = HubOf[y]  BY <3>1, <3>3, <3>4, <3>5, <2>1, <2>3, <2>4
    <3>6. CASE n # HubOf[y]  BY <3>1, <3>4, <3>6, <2>1, <2>3
    <3> QED  BY <3>5, <3>6
  <2> QED  BY <1>0, <2>1, <2>2, <2>5 DEF CountInv
<1>5. ASSUME NEW y \in Client \cup Plugin, Subscribe(y) PROVE CountInv'
  <2>1. /\ y \in cscene.conns /\ conn[y].phase = IF y \in Plugin THEN "counted" ELSE "new"
        /\ conn' = [conn EXCEPT ![y] = [conn[y] EXCEPT !.phase = "open"]]
        /\ counted' = counted
        BY <1>5 DEF Subscribe, HubTypes
  <2>2. \A x \in Client \cup Plugin :
          conn'[x].phase = IF x = y THEN "open" ELSE conn[x].phase
        BY <2>1 DEF HubTypes, ConnRecord
  <2>3. \A n \in Hub : Taken(n)' = Taken(n)
    <3> SUFFICES ASSUME NEW x \in Plugin
                 PROVE  conn'[x].phase \in {"counted", "open"} <=> conn[x].phase \in {"counted", "open"}
        BY DEF Taken
    <3> QED  BY <2>1, <2>2
  <2> QED  BY <1>0, <2>1, <2>2, <2>3 DEF CountInv
<1>6. ASSUME NEW y \in Client \cup Plugin, Deliver(y) PROVE CountInv'
  <2> DEFINE q == conn[y].queue
             g == conn[y].got
  <2>1. /\ conn' = [conn EXCEPT ![y] = [conn[y] EXCEPT !.queue = Tail(q), !.got = Append(g, Head(q))]]
        /\ counted' = counted
        BY <1>6 DEF Deliver, HubTypes
  <2> HIDE DEF q, g
  <2>2. \A x \in Client \cup Plugin : conn'[x].phase = conn[x].phase
        BY <2>1 DEF HubTypes, ConnRecord
  <2> QED  BY <2>1, <2>2, <1>1
<1>7. ASSUME NEW y \in Client \cup Plugin, Close(y) PROVE CountInv'
  <2>1. /\ conn[y].phase = "open" /\ conn' = [conn EXCEPT ![y] = Closed(y)]
        /\ Closed(y).phase = "closed"
        BY <1>7, ClosedType DEF Close
  <2>2. \A x \in Client \cup Plugin :
          conn'[x].phase = IF x = y THEN "closed" ELSE conn[x].phase
        BY <2>1 DEF HubTypes
  <2>3. y \in cscene.conns  BY <2>1 DEF CountInv
  <2>4. CASE y \in Client
    <3>1. \A n \in Hub : Taken(n)' = Taken(n)  BY <2>2, <2>4, ChatAssumption DEF Taken
    <3>2. counted' = counted  BY <1>7, <2>4 DEF Close
    <3> QED  BY <1>0, <2>2, <2>3, <3>1, <3>2 DEF CountInv
  <2>5. CASE y \notin Client
    <3>0. y \in Plugin /\ HubOf[y] \in Hub  BY <2>5, ChatAssumption
    <3>1. \A n \in Hub : Taken(n)' = IF n = HubOf[y] THEN Taken(n) \ {y} ELSE Taken(n)
          BY <2>2, <3>0 DEF Taken
    <3>2. y \in Taken(HubOf[y])  BY <2>1, <3>0 DEF Taken
    <3>3. counted' = [counted EXCEPT ![HubOf[y]] =
                         IF counted[HubOf[y]] = 0 THEN 0 ELSE counted[HubOf[y]] - 1]
          BY <1>7, <2>5 DEF Close
    <3>4. \A n \in Hub : counted'[n] = Cardinality(Taken(n)')
      <4> TAKE n \in Hub
      <4>1. counted[n] = Cardinality(Taken(n)) /\ counted[n] \in Nat /\ counted \in [Hub -> Nat]
            BY DEF CountInv, HubTypes
      <4>2. IsFiniteSet(Taken(n))  BY TakenIsFinite
      <4>3. /\ y \in Taken(n) => Cardinality(Taken(n) \ {y}) = Cardinality(Taken(n)) - 1
            /\ Cardinality(Taken(n)) = 0 => Taken(n) = {}
            BY <4>2, FS_RemoveElement, FS_EmptySet
      <4>4. CASE n = HubOf[y]
        <5>1. counted[n] # 0  BY <4>1, <4>3, <4>4, <3>2
        <5>2. counted'[n] = counted[n] - 1  BY <3>0, <3>3, <4>1, <4>4, <5>1
        <5>3. Cardinality(Taken(n)') = Cardinality(Taken(n)) - 1  BY <3>1, <3>2, <4>3, <4>4
        <5> QED  BY <4>1, <5>2, <5>3
      <4>5. CASE n # HubOf[y]  BY <4>1, <4>5, <3>0, <3>1, <3>3
      <4> QED  BY <4>4, <4>5
    <3> QED  BY <1>0, <2>2, <2>3, <3>4 DEF CountInv
  <2> QED  BY <2>4, <2>5
<1>8. ASSUME NEW n \in Hub, RestartHub(n) PROVE CountInv'
  <2>1. /\ counted' = [counted EXCEPT ![n] = 0]
        /\ \A x \in Client \cup Plugin :
              conn'[x] = IF HubOf[x] = n /\ conn[x].phase # "new" THEN Closed(x) ELSE conn[x]
        BY <1>8 DEF RestartHub, HubTypes
  <2>2. \A x \in Client \cup Plugin : Closed(x).phase = "closed"  BY ClosedType
  <2>3. \A x \in Client \cup Plugin :
           conn'[x].phase = IF HubOf[x] = n /\ conn[x].phase # "new" THEN "closed"
                            ELSE conn[x].phase
        BY <2>1, <2>2
  <2>4. \A x \in Client \cup Plugin : conn'[x].phase # "new" => x \in cscene.conns
        BY <2>3 DEF CountInv
  <2>5. Taken(n)' = {}  BY <2>3 DEF Taken
  <2>6. \A k \in Hub \ {n} : Taken(k)' = Taken(k)  BY <2>3 DEF Taken
  <2>7. Cardinality(Taken(n)') = 0  BY <2>5, FS_EmptySet
  <2>8. \A k \in Hub : counted'[k] = Cardinality(Taken(k)')
        BY <2>1, <2>6, <2>7 DEF CountInv, HubTypes
  <2> QED  BY <1>0, <2>4, <2>8 DEF CountInv
<1>9. CASE UNCHANGED <<conn, counted>>
  <2>1. conn' = conn /\ counted' = counted  BY <1>9
  <2> QED  BY <2>1, <1>1
<1> QED  BY <1>3, <1>4, <1>5, <1>6, <1>7, <1>8, <1>9, ConnTouched

CacheInv ==
    /\ \A n \in Hub, d \in DedupId :
         cache[n][d] = 0 \/ \E m \in stored[n] : m.dedup = d /\ m.id = cache[n][d]
    /\ \A n \in Hub : \A d \in answered[n] : cache[n][d] # 0

LEMMA CacheInitially == ChatInit => CacheInv
BY DEF ChatInit, CacheInv

\* A handler answers with a message that is stored, and whose dedup id it has; an entry
\* that gives way is no answer any more.
LEMMA CacheStep ==
    ASSUME HubTypes, WorkInv, CacheInv, [ChatNext]_hvars PROVE CacheInv'
<1>0. \A n \in Hub : stored[n] \subseteq stored'[n]  BY StoredGrows
<1>1. ASSUME cache' = cache, answered' = answered PROVE CacheInv'
  BY <1>0, <1>1 DEF CacheInv
<1>2. ASSUME NEW j \in steps, Remember(j) PROVE CacheInv'
  <2>0. /\ j.node \in Hub /\ j.msg \in cscene.asked /\ j.msg \in stored[j.node]
        /\ j.msg.dedup # noId
        BY <1>2 DEF HubTypes, JobRecord, Remember, WorkInv, Placed
  <2>1. j.msg.dedup \in DedupId /\ j.msg.id \in Nat \ {0}  BY <2>0, AskedTypes DEF HubTypes
  <2>2. PICK e \in DedupId, full \in BOOLEAN : Remembers(j, e, full)  BY <1>2, RememberFacts
  <2>3. \A n \in Hub, d \in DedupId :
          cache'[n][d] = IF n = j.node /\ d = j.msg.dedup THEN j.msg.id
                         ELSE IF n = j.node /\ full /\ d = e THEN 0 ELSE cache[n][d]
        BY <2>0, <2>2 DEF Remembers, HubTypes
  <2>4. \A n \in Hub :
          answered'[n] = IF n = j.node
                         THEN (IF full THEN answered[n] \ {e} ELSE answered[n]) \cup {j.msg.dedup}
                         ELSE answered[n]
        BY <2>0, <2>2 DEF Remembers, HubTypes
  <2>5. \A n \in Hub, d \in DedupId :
          cache'[n][d] = 0 \/ \E m \in stored'[n] : m.dedup = d /\ m.id = cache'[n][d]
    <3> TAKE n \in Hub, d \in DedupId
    <3>1. CASE n = j.node /\ d = j.msg.dedup  BY <3>1, <1>0, <2>0, <2>3
    <3>2. CASE ~(n = j.node /\ d = j.msg.dedup)  BY <3>2, <1>0, <2>3 DEF CacheInv
    <3> QED  BY <3>1, <3>2
  <2>6. \A n \in Hub : \A d \in answered'[n] : cache'[n][d] # 0
    <3> SUFFICES ASSUME NEW n \in Hub, NEW d \in answered'[n] PROVE cache'[n][d] # 0
        OBVIOUS
    <3>1. CASE n = j.node /\ d = j.msg.dedup  BY <3>1, <2>1, <2>3
    <3>2. CASE ~(n = j.node /\ d = j.msg.dedup)
      <4>1. d \in answered[n] /\ ~(n = j.node /\ full /\ d = e)  BY <3>2, <2>4
      <4>2. d \in DedupId /\ cache[n][d] # 0  BY <4>1 DEF CacheInv, HubTypes
      <4> QED  BY <3>2, <4>1, <4>2, <2>3
    <3> QED  BY <3>1, <3>2
  <2> QED  BY <2>5, <2>6 DEF CacheInv
<1>3. ASSUME NEW n \in Hub, RestartHub(n) PROVE CacheInv'
  <2>1. /\ \A k \in Hub, d \in DedupId : cache'[k][d] = IF k = n THEN 0 ELSE cache[k][d]
        /\ \A k \in Hub : answered'[k] = IF k = n THEN {} ELSE answered[k]
        BY <1>3 DEF RestartHub, HubTypes
  <2>2. \A k \in Hub : answered[k] \subseteq DedupId  BY DEF HubTypes
  <2> QED  BY <1>0, <2>1, <2>2 DEF CacheInv
<1>4. \/ cache' = cache /\ answered' = answered
      \/ \E j \in steps : Remember(j)
      \/ \E n \in Hub : RestartHub(n)
      BY DEF ChatNext, SendMessage, SendAsBot, CrossChannel, InsertCross, PushPlugin, PushClients,
         DropHandler, ReceiveChat, LosePush, Register, Subscribe, Deliver, Close, ReadPage,
         LearnAuthor, hvars
<1> QED  BY <1>1, <1>2, <1>3, <1>4

-----------------------------------------------------------------------------
(* A reader who goes back.                                                  *)

Has(w, m) == m.tui \/ m \in RowsIn(w.seen)
Ahead(w, m) == \A i \in DOMAIN w.seen : Older(m, w.seen[i])
OfTui(S) == {m \in S : m.tui}

\* What walk w has of the messages S: before it is over, what it has not seen is still
\* ahead of it.
WalkRight(w, S) ==
    /\ Falling(w.seen) /\ RowsIn(w.seen) \subseteq S /\ w.due \subseteq S
    /\ ~w.begun => w.seen = <<>> /\ ~w.over
    /\ w.begun /\ ~w.over => \A m \in w.due : Has(w, m) \/ Ahead(w, m)
    /\ w.over /\ Cardinality(OfTui(S)) < Limit => \A m \in w.due : Has(w, m)

WalkInv == \A n \in Hub : WalkRight(walk[n], stored[n])

LEMMA WalkInitially == ChatInit => WalkInv
BY DEF ChatInit, WalkInv, WalkRight, NoWalk, Falling, RowsIn

\* Messages that arrive leave the walk as it is.
LEMMA WalkStays ==
    ASSUME NEW w, NEW S, NEW T, IsFiniteSet(T), S \subseteq T, WalkRight(w, S)
    PROVE  WalkRight(w, T)
<1>1. OfTui(S) \subseteq OfTui(T) /\ OfTui(T) \subseteq T  BY DEF OfTui
<1>2. IsFiniteSet(OfTui(T)) /\ IsFiniteSet(OfTui(S))  BY <1>1, FS_Subset
<1>3. /\ Cardinality(OfTui(S)) <= Cardinality(OfTui(T))
      /\ Cardinality(OfTui(S)) \in Nat /\ Cardinality(OfTui(T)) \in Nat
      BY <1>1, <1>2, FS_Subset, FS_CardinalityType
<1>4. Cardinality(OfTui(T)) < Limit => Cardinality(OfTui(S)) < Limit
      BY <1>3, ChatAssumption
<1> QED  BY <1>4 DEF WalkRight

\* A page goes on behind what was seen, and leaves nothing out but what is of the TUI.
LEMMA ReadStep ==
    ASSUME HubTypes, WalkInv, NEW n \in Hub, ReadPage(n)
    PROVE  WalkRight(walk'[n], stored[n])
<1> DEFINE w == walk[n]
           v == walk'[n]
           S == stored[n]
           page == PageOf(n)
           before == {m \in S : Ahead(w, m)}
<1>1. PICK s : Reads(n, s)  BY PageIsRead
<1>2. /\ w \in WalkRecord /\ S \subseteq cscene.asked /\ IsFiniteSet(S) /\ Apart(S)
      /\ ~w.over /\ WalkRight(w, S)
      BY DEF HubTypes, SceneTypes, Apart, WalkInv, ReadPage
<1>3. /\ v.begun = TRUE /\ v.over = (page = {}) /\ v.seen = w.seen \o s
      /\ v.due = IF w.begun THEN w.due ELSE S
      BY <1>1 DEF Reads, HubTypes
<1>4. page = {m \in before : Cardinality(Newer(before, m)) < Limit /\ ~m.tui}
      BY DEF PageOf, PageRows, Ahead, Newer
<1>5. before \subseteq S /\ IsFiniteSet(before) /\ Apart(before) /\ page \subseteq before
  <2>1. before \subseteq S  OBVIOUS
  <2>2. IsFiniteSet(before)  BY <1>2, <2>1, FS_Subset
  <2>3. Apart(before)  BY <1>2, <2>1 DEF Apart
  <2> QED  BY <1>4, <2>1, <2>2, <2>3
<1>6. s \in Seq(page) /\ Falling(s) /\ RowsIn(s) = page
  <2>1. s \in Seq(page) /\ Falling(s) /\ \A m \in page : \E i \in DOMAIN s : s[i] = m
        BY <1>1 DEF Reads
  <2>2. RowsIn(s) \subseteq page  BY <2>1 DEF RowsIn
  <2>3. page \subseteq RowsIn(s)  BY <2>1 DEF RowsIn
  <2> QED  BY <2>1, <2>2, <2>3
<1>7. \A m \in before, i \in DOMAIN w.seen : Older(m, w.seen[i])  BY DEF Ahead
<1> HIDE DEF w, v, page, before, S
<1>8. /\ Len(w.seen) \in Nat /\ Len(s) \in Nat
      /\ DOMAIN w.seen = 1..Len(w.seen) /\ DOMAIN s = 1..Len(s)
      /\ DOMAIN v.seen = 1..(Len(w.seen) + Len(s))
      /\ \A i \in 1..Len(w.seen) : v.seen[i] = w.seen[i]
      /\ \A i \in 1..Len(s) : v.seen[Len(w.seen) + i] = s[i]
  <2>1. w.seen \in Seq(cscene.asked)  BY <1>2 DEF WalkRecord
  <2>2. s \in Seq(cscene.asked)  BY <1>2, <1>5, <1>6
  <2> QED  BY <1>3, <2>1, <2>2, ConcatFacts
<1>9. \A i \in DOMAIN v.seen :
        \/ i \in DOMAIN w.seen /\ v.seen[i] = w.seen[i]
        \/ /\ i > Len(w.seen) /\ i - Len(w.seen) \in DOMAIN s
           /\ v.seen[i] = s[i - Len(w.seen)] /\ v.seen[i] \in page
  <2> TAKE i \in DOMAIN v.seen
  <2>1. CASE i <= Len(w.seen)  BY <1>8, <2>1
  <2>2. CASE i > Len(w.seen)
    <3> DEFINE k == i - Len(w.seen)
    <3>1. k \in 1..Len(s) /\ i = Len(w.seen) + k  BY <1>8, <2>2
    <3>2. v.seen[i] = s[k]  BY <1>8, <3>1
    <3>3. s[k] \in page  BY <1>6, <1>8, <3>1 DEF RowsIn
    <3> QED  BY <1>8, <2>2, <3>1, <3>2, <3>3
  <2> QED  BY <1>8, <2>1, <2>2
<1>10. RowsIn(v.seen) = RowsIn(w.seen) \cup page
  <2>1. RowsIn(v.seen) \subseteq RowsIn(w.seen) \cup page  BY <1>9 DEF RowsIn
  <2>2. RowsIn(w.seen) \subseteq RowsIn(v.seen)  BY <1>8 DEF RowsIn
  <2>3. page \subseteq RowsIn(v.seen)
    <3> SUFFICES ASSUME NEW m \in page PROVE m \in RowsIn(v.seen)
        OBVIOUS
    <3>1. PICK i \in 1..Len(s) : s[i] = m  BY <1>6, <1>8 DEF RowsIn
    <3>2. Len(w.seen) + i \in DOMAIN v.seen /\ v.seen[Len(w.seen) + i] = m  BY <1>8, <3>1
    <3> QED  BY <3>2 DEF RowsIn
  <2> QED  BY <2>1, <2>2, <2>3
<1>11. Falling(v.seen)
  <2> SUFFICES ASSUME NEW i \in DOMAIN v.seen, NEW j \in DOMAIN v.seen, i < j
               PROVE  Older(v.seen[j], v.seen[i])
      BY DEF Falling
  <2>1. CASE i \in DOMAIN w.seen /\ j \in DOMAIN w.seen
        BY <1>2, <1>8, <2>1 DEF WalkRight, Falling
  <2>2. CASE i \in DOMAIN w.seen /\ j \notin DOMAIN w.seen
        BY <1>5, <1>7, <1>8, <1>9, <2>2
  <2>3. CASE i \notin DOMAIN w.seen
    <3> DEFINE a == i - Len(w.seen)
               b == j - Len(w.seen)
    <3>1. /\ a \in DOMAIN s /\ v.seen[i] = s[a]  BY <1>9, <2>3
    <3>2. j \notin DOMAIN w.seen  BY <1>8, <2>3
    <3>3. b \in DOMAIN s /\ v.seen[j] = s[b]  BY <1>9, <3>2
    <3>4. a < b  BY <1>8
    <3>5. Older(s[b], s[a])  BY <1>6, <3>1, <3>3, <3>4 DEF Falling
    <3> QED  BY <3>1, <3>3, <3>5
  <2> QED  BY <2>1, <2>2, <2>3
<1>12. RowsIn(v.seen) \subseteq S /\ v.due \subseteq S
       BY <1>2, <1>3, <1>5, <1>10 DEF WalkRight
<1>13. \A m \in v.due : Has(w, m) \/ m \in before
  <2> TAKE m \in v.due
  <2>1. m \in S  BY <1>12
  <2>2. CASE w.begun  BY <1>2, <1>3, <2>1, <2>2 DEF WalkRight, before
  <2>3. CASE ~w.begun
    <3>1. w.seen = <<>>  BY <1>2, <2>3 DEF WalkRight
    <3>2. Ahead(w, m)  BY <3>1 DEF Ahead
    <3> QED  BY <2>1, <3>2 DEF before
  <2> QED  BY <2>2, <2>3
\* What is behind a message of the page is older than it.
<1>14. \A m \in before \ page, k \in page : m.tui \/ Older(m, k)
  <2> SUFFICES ASSUME NEW m \in before \ page, NEW k \in page, ~m.tui, ~Older(m, k)
               PROVE  FALSE
      OBVIOUS
  <2>1. Older(k, m)  BY <1>5, OlderIsTotal
  <2>2. Rank(before, m) < Rank(before, k)  BY <1>5, <2>1, RankFalls
  <2>3. IsFiniteSet(Newer(before, m)) /\ IsFiniteSet(Newer(before, k))
        BY <1>5, FS_Subset DEF Newer
  <2>4. Cardinality(Newer(before, m)) \in Nat /\ Cardinality(Newer(before, k)) \in Nat
        BY <2>3, FS_CardinalityType
  <2>5. Cardinality(Newer(before, k)) < Limit  BY <1>4
  <2>6. Cardinality(Newer(before, m)) < Limit  BY <2>2, <2>4, <2>5, ChatAssumption DEF Rank
  <2> QED  BY <1>4, <2>6
<1>15. \A m \in v.due : Has(v, m) \/ Ahead(v, m)
  <2> TAKE m \in v.due
  <2>1. CASE Has(w, m)  BY <1>10, <2>1 DEF Has
  <2>2. CASE m \in page  BY <1>10, <2>2 DEF Has
  <2>3. CASE m \in before \ page /\ ~m.tui
    <3>1. \A i \in DOMAIN v.seen : Older(m, v.seen[i])
          BY <1>7, <1>9, <1>14, <2>3
    <3> QED  BY <3>1 DEF Ahead
  <2> QED  BY <1>13, <2>1, <2>2, <2>3 DEF Has
\* A page is empty only if nothing is left that is not of the TUI.
<1>16. ASSUME page = {}, Cardinality(OfTui(S)) < Limit, NEW m \in before PROVE m.tui
  <2> SUFFICES ASSUME ~m.tui PROVE FALSE
      OBVIOUS
  <2> DEFINE own == {k \in before : ~k.tui}
  <2>1. own \subseteq before /\ own # {}  OBVIOUS
  <2>2. IsFiniteSet(own) /\ Apart(own)  BY <1>5, <2>1, FS_Subset DEF Apart
  <2> HIDE DEF own
  <2>3. PICK k \in own : Newer(own, k) = {}  BY <2>1, <2>2, OneIsNewest
  <2>4. Newer(before, k) \subseteq OfTui(S)
        BY <1>5, <2>3 DEF Newer, OfTui, own
  <2>5. OfTui(S) \subseteq S  BY DEF OfTui
  <2>6. IsFiniteSet(OfTui(S))  BY <1>2, <2>5, FS_Subset
  <2>7. /\ IsFiniteSet(Newer(before, k))
        /\ Cardinality(Newer(before, k)) <= Cardinality(OfTui(S))
        BY <2>4, <2>6, FS_Subset
  <2>8. Cardinality(Newer(before, k)) \in Nat /\ Cardinality(OfTui(S)) \in Nat
        BY <2>6, <2>7, FS_CardinalityType
  <2>9. Cardinality(Newer(before, k)) < Limit  BY <1>16, <2>7, <2>8, ChatAssumption
  <2>10. k \in before /\ ~k.tui  BY <2>3 DEF own
  <2>11. k \in page  BY <1>4, <2>9, <2>10
  <2> QED  BY <1>16, <2>11
<1>17. v.over /\ Cardinality(OfTui(S)) < Limit => \A m \in v.due : Has(v, m)
  <2> SUFFICES ASSUME v.over, Cardinality(OfTui(S)) < Limit, NEW m \in v.due PROVE Has(v, m)
      OBVIOUS
  <2>1. page = {}  BY <1>3
  <2>2. m \in before => m.tui  BY <1>16, <2>1
  <2> QED  BY <1>10, <1>13, <2>2 DEF Has
<1>18. WalkRight(v, S)  BY <1>3, <1>11, <1>12, <1>15, <1>17 DEF WalkRight
<1> QED  BY <1>18 DEF v, S

LEMMA WalkStep ==
    ASSUME HubTypes, WalkInv, [ChatNext]_hvars PROVE WalkInv'
<1> SUFFICES ASSUME NEW n \in Hub PROVE WalkRight(walk'[n], stored'[n])
    BY DEF WalkInv
<1>0. stored[n] \subseteq stored'[n]  BY StoredGrows
<1>1. IsFiniteSet(stored'[n])  BY TypesStep DEF HubTypes
<1>2. CASE walk'[n] = walk[n]
  <2>1. WalkRight(walk[n], stored[n])  BY DEF WalkInv
  <2> QED  BY <1>0, <1>1, <1>2, <2>1, WalkStays
<1>3. CASE ReadPage(n)
  <2>1. WalkRight(walk'[n], stored[n])  BY <1>3, ReadStep
  <2> QED  BY <1>0, <1>1, <2>1, WalkStays
<1>4. ASSUME NEW k \in Hub, ReadPage(k), k # n PROVE walk'[n] = walk[n]
  <2>1. PICK s : Reads(k, s)  BY <1>4, PageIsRead
  <2> QED  BY <1>4, <2>1 DEF Reads, HubTypes
<1>5. walk' = walk \/ \E k \in Hub : ReadPage(k)
      BY DEF ChatNext, SendMessage, SendAsBot, CrossChannel, InsertCross, PushPlugin, PushClients,
         Remember, DropHandler, ReceiveChat, LosePush, Register, Subscribe, Deliver, Close,
         RestartHub, LearnAuthor, hvars
<1> QED  BY <1>2, <1>3, <1>4, <1>5

-----------------------------------------------------------------------------
(* The theorems.                                                            *)

ChatInv == HubTypes /\ WorkInv /\ ShownInv /\ CountInv /\ CacheInv /\ WalkInv

LEMMA ChatInvariant == ChatSpec => []ChatInv
<1>1. ChatInit => ChatInv
  BY TypesInitially, WorkInitially, ShownInitially, CountInitially, CacheInitially,
     WalkInitially DEF ChatInv
<1>2. ChatInv /\ [ChatNext]_hvars => ChatInv'
  BY TypesStep, WorkStep, ShownStep, CountStep, CacheStep, WalkStep DEF ChatInv
<1> QED  BY <1>1, <1>2, PTL DEF ChatSpec

\* The rows that are there are from requests and authors, what a handler announces is
\* stored, the channel's status counts its plugins, queues keep their bound, and the cache
\* answers with messages that are stored (chat.rs, channel.rs).
THEOREM ChatTypes == ChatSpec => []ChatTypeOK
<1>1. ChatInv => ChatTypeOK
  <2> SUFFICES ASSUME ChatInv PROVE ChatTypeOK
      OBVIOUS
  <2>1. \A n \in Hub : stored[n] \subseteq cscene.asked /\ citizens[n] \subseteq Author
        BY DEF ChatInv, HubTypes
  <2>2. \A j \in steps :
          /\ j.node \in Hub /\ j.next \in {"insert", "plugin", "clients", "remember"}
          /\ j.msg \in stored[j.node] \/ j.next = "insert"
        BY DEF ChatInv, HubTypes, JobRecord, WorkInv, Placed
  <2>3. \A n \in Hub : counted[n] =
          Cardinality({x \in Plugin : HubOf[x] = n /\ conn[x].phase \in {"counted", "open"}})
        BY DEF ChatInv, CountInv, Taken
  <2>4. wire \subseteq (cscene.asked \X Entry)  BY DEF ChatInv, HubTypes
  <2>5. DOMAIN conn = Client \cup Plugin  BY DEF ChatInv, HubTypes
  <2>6. \A x \in DOMAIN conn : Len(conn[x].queue) <= BROADCAST_CAPACITY
        BY <2>5 DEF ChatInv, ShownInv, QueuesShort
  <2>7. \A n \in Hub, d \in DedupId :
          cache[n][d] = 0 \/ \E m \in stored[n] : m.dedup = d /\ m.id = cache[n][d]
        BY DEF ChatInv, CacheInv
  <2> QED  BY <2>1, <2>2, <2>3, <2>4, <2>6, <2>7 DEF ChatTypeOK
<1> QED  BY <1>1, ChatInvariant, PTL

\* A connection gets a message once, and only one that its node has stored, whatever
\* is pushed twice, dropped half way or lost from a full queue (push_plugin_json,
\* push_frontend_json, receive_gossip_chat_message).
THEOREM ShownAtMostOnce == ChatSpec => []ShownOnce
<1>1. ChatInv => ShownOnce
  <2> SUFFICES ASSUME ChatInv, NEW x \in DOMAIN conn
               PROVE  /\ \A i, j \in DOMAIN Seen(x) : Seen(x)[i] = Seen(x)[j] => i = j
                      /\ \A i \in DOMAIN Seen(x) : Seen(x)[i] \in stored[HubOf[x]]
      BY DEF ShownOnce
  <2>1. x \in Client \cup Plugin  BY DEF ChatInv, HubTypes
  <2>2. Distinct(Seen(x)) /\ Shows(x) \subseteq stored[HubOf[x]]
        BY <2>1 DEF ChatInv, ShownInv, ShownRight
  <2> QED  BY <2>2 DEF Distinct, Shows, RowsIn
<1> QED  BY <1>1, ChatInvariant, PTL

\* No plugin is asked to answer a plugin, its own or that of another node, nor what another
\* channel brought in (broadcast_chat_message).
THEOREM PluginsHearCitizens == ChatSpec => []NoEcho
<1>1. ChatInv => NoEcho  BY DEF ChatInv, ShownInv
<1> QED  BY <1>1, ChatInvariant, PTL

\* A request whose dedup id has been answered starts nothing, whatever is under way for
\* that id (cross_channel_handler, remember_dedup).
THEOREM RetriesStoreNothing == ChatSpec => RetryStoresNothing
<1> DEFINE Nothing == \A r \in waiting \ waiting' : r.dedup \in answered[r.node] => steps' \subseteq steps
<1>1. ChatInv /\ [ChatNext]_hvars => [Nothing]_hvars
  <2> SUFFICES ASSUME ChatInv, ChatNext, NEW r \in waiting \ waiting',
                      r.dedup \in answered[r.node]
               PROVE  steps' \subseteq steps
      OBVIOUS
  <2>1. r \in cscene.asked /\ r.node \in Hub  BY AskedTypes DEF ChatInv, HubTypes
  <2>2. r.dedup \in DedupId /\ cache[r.node][r.dedup] # 0
        BY <2>1 DEF ChatInv, HubTypes, CacheInv
  <2>3. r.dedup # noId  BY <2>2, ChatAssumption
  <2>4. r.op \in {"inbound", "outbound"}
        BY <2>1, <2>3 DEF ChatInv, HubTypes, SceneTypes, Cross
  <2>5. ASSUME NEW q \in waiting, SendMessage(q) \/ SendAsBot(q) PROVE FALSE
    <3>1. q = r  BY <2>5 DEF SendMessage, SendAsBot, Made
    <3> QED  BY <2>4, <2>5, <3>1 DEF SendMessage, SendAsBot, Made
  <2>6. ASSUME NEW q \in waiting, CrossChannel(q) PROVE steps' \subseteq steps
    <3>1. q = r  BY <2>6 DEF CrossChannel, Made
    <3> QED  BY <2>2, <2>3, <2>6, <3>1 DEF CrossChannel
  <2>7. \E q \in waiting : SendMessage(q) \/ SendAsBot(q) \/ CrossChannel(q)
    <3>1. waiting' # waiting  OBVIOUS
    <3> QED
      BY <3>1 DEF ChatNext, InsertCross, PushPlugin, PushClients, Remember, DropHandler,
         ReceiveChat, LosePush, Register, Subscribe, Deliver, Close, ReadPage, RestartHub,
         LearnAuthor
  <2> QED  BY <2>5, <2>6, <2>7
<1> QED  BY <1>1, ChatInvariant, PTL DEF ChatSpec, RetryStoresNothing

\* A reader who goes back until a page is empty has every message of the beginning once,
\* but for those of the TUI, unless these fill a page (list_messages with its cursor).
THEOREM WalksAreComplete == ChatSpec => []WalkComplete
<1>1. ChatInv => WalkComplete
  <2> SUFFICES ASSUME ChatInv, NEW n \in Hub
               PROVE  /\ \A i, j \in DOMAIN walk[n].seen :
                           walk[n].seen[i] = walk[n].seen[j] => i = j
                      /\ walk[n].over /\ Cardinality({m \in stored[n] : m.tui}) < Limit
                         => \A m \in walk[n].due :
                              m.tui \/ \E i \in DOMAIN walk[n].seen : walk[n].seen[i] = m
      BY DEF WalkComplete
  <2> DEFINE s == walk[n].seen
  <2>1. /\ WalkRight(walk[n], stored[n]) /\ Apart(stored[n]) /\ s \in Seq(cscene.asked)
        BY DEF ChatInv, WalkInv, HubTypes, SceneTypes, Apart, WalkRecord
  <2>2. ASSUME NEW i \in DOMAIN s, NEW j \in DOMAIN s, s[i] = s[j], i < j PROVE FALSE
    <3>1. Older(s[j], s[i]) /\ s[i] \in stored[n]
          BY <2>1, <2>2 DEF WalkRight, Falling, RowsIn
    <3> QED  BY <2>1, <2>2, <3>1, OlderIsTotal
  <2>3. \A i, j \in DOMAIN s : s[i] = s[j] => i = j
    <3>1. DOMAIN s = 1..Len(s) /\ Len(s) \in Nat  BY <2>1
    <3> TAKE i \in DOMAIN s, j \in DOMAIN s
    <3>2. i \in Nat /\ j \in Nat  BY <3>1
    <3> QED  BY <2>2, <3>2
  <2>4. walk[n].over /\ Cardinality({m \in stored[n] : m.tui}) < Limit
          => \A m \in walk[n].due : m.tui \/ \E i \in DOMAIN s : s[i] = m
        BY <2>1 DEF WalkRight, Has, RowsIn, OfTui
  <2> QED  BY <2>3, <2>4
<1> QED  BY <1>1, ChatInvariant, PTL
=============================================================================
