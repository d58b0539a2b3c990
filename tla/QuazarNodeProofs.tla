-------------------------- MODULE QuazarNodeProofs --------------------------
(***************************************************************************)
(* Theorems about QuazarNode, for every value of its constants.            *)
(***************************************************************************)
EXTENDS QuazarNode, BlockchainProofs

(***************************************************************************)
(* Types.  MAX(block_number) is a number because the numbers of a table    *)
(* are bounded: the invariant that carries TypeOK.                         *)
(***************************************************************************)
TypeInv ==
    /\ TypeOK
    /\ \A n \in Node : Bounded(blocks[n])

LEMMA GenesisType == Genesis \in Hash
BY DEF Genesis, Hash

LEMMA CreatorAtType ==
    ASSUME NEW phase \in CreatorPhase, NEW batch \in SUBSET Event
    PROVE  CreatorAt(phase, batch) \in Creator
BY GenesisType DEF CreatorAt, Creator

LEMMA NoCreatorType == NoCreator \in Creator
BY CreatorAtType DEF NoCreator, CreatorPhase

LEMMA SyncerAtType ==
    ASSUME NEW phase \in SyncPhase, NEW registry \in SUBSET Node, NEW todo \in SUBSET Node
    PROVE  SyncerAt(phase, registry, todo) \in Syncer
BY DEF SyncerAt, Syncer

LEMMA NoSyncerType == NoSyncer \in Syncer
BY SyncerAtType DEF NoSyncer, SyncPhase

LEMMA SetCreatorType ==
    ASSUME creator \in [Node -> [Task -> Creator]],
           NEW n \in Node, NEW t \in Task, NEW c \in Creator, SetCreator(n, t, c)
    PROVE  creator' \in [Node -> [Task -> Creator]]
BY DEF SetCreator

LEMMA SetSyncerType ==
    ASSUME syncer \in [Node -> Syncer], NEW n \in Node, NEW s \in Syncer, SetSyncer(n, s)
    PROVE  syncer' \in [Node -> Syncer]
BY DEF SetSyncer

\* What a step leaves typed when it writes only one of the actors' states.
LEMMA CreatorOnly ==
    ASSUME TypeInv, UNCHANGED <<tables, alive, requests, syncer, crashes>>,
           creator' \in [Node -> [Task -> Creator]]
    PROVE  TypeInv'
BY DEF TypeInv, TypeOK, tables, requests

LEMMA SyncerOnly ==
    ASSUME TypeInv, UNCHANGED <<tables, alive, requests, creator, crashes>>,
           syncer' \in [Node -> Syncer]
    PROVE  TypeInv'
BY DEF TypeInv, TypeOK, tables, requests

\* The tasks.
LEMMA CreateStepType ==
    ASSUME TypeInv, NEW n \in Node, NEW t \in Task, CreateStep(n, t)
    PROVE  TypeInv'
<1>. USE GenesisType, NoCreatorType
<1>1. /\ creator \in [Node -> [Task -> Creator]]
      /\ creator[n][t] \in Creator
      /\ creator[n][t].batch \in SUBSET Event
      /\ creator[n][t].rows \in SUBSET Event
      /\ creator[n][t].prev \in Hash
      /\ creator[n][t].number \in Nat
  BY DEF TypeInv, TypeOK, Creator
<1>2. /\ blocks[n] \in SUBSET Block
      /\ Bounded(blocks[n])
      /\ Tip(blocks[n]) \in Nat
      /\ TipHash(blocks[n]) \in Hash
  BY TipIsGreatest, TipHashType DEF TypeInv, TypeOK
<1>3. ASSUME NEW next, CheckProducer(n, t, next) PROVE TypeInv'
  <2>1. CreatorAt("collect", {}) \in Creator
    BY CreatorAtType DEF CreatorPhase
  <2>2. PICK c \in Creator : SetCreator(n, t, c)
    BY <1>3, <2>1 DEF CheckProducer
  <2>. QED BY <1>1, <1>3, <2>2, SetCreatorType, CreatorOnly DEF CheckProducer
<1>4. ASSUME NEW reached, NEW confirmed, CollectPending(n, t, reached, confirmed) PROVE TypeInv'
  <2>. DEFINE batch == Collected(n, reached, confirmed)
  <2>1. reached \subseteq Node /\ \A p \in Node : pending[p] \in SUBSET Event
    BY <1>4 DEF CollectPending, TypeInv, TypeOK
  <2>2. batch \in SUBSET Event
    BY <2>1 DEF Collected
  <2>3. CreatorAt("gated", batch) \in Creator
    BY <2>2, CreatorAtType DEF CreatorPhase
  <2>4. PICK c \in Creator : SetCreator(n, t, c)
    BY <1>4, <2>3 DEF CollectPending
  <2>. QED BY <1>1, <1>4, <2>4, SetCreatorType, CreatorOnly DEF CollectPending
<1>5. ASSUME BeginTx(n, t) PROVE TypeInv'
  <2>. DEFINE batch == creator[n][t].batch \ events[n]
  <2>1. CreatorAt("filtered", batch) \in Creator
    BY <1>1, CreatorAtType DEF CreatorPhase
  <2>2. PICK c \in Creator : SetCreator(n, t, c)
    BY <1>5, <2>1 DEF BeginTx
  <2>. QED BY <1>1, <1>5, <2>2, SetCreatorType, CreatorOnly DEF BeginTx
<1>6. ASSUME ReadTip(n, t) PROVE TypeInv'
  <2>1. [creator[n][t] EXCEPT !.phase = "tip", !.rows = creator[n][t].batch \ events[n],
                              !.prev = TipHash(blocks[n])] \in Creator
    BY <1>1, <1>2 DEF Creator, CreatorPhase
  <2>. QED BY <1>1, <1>6, <2>1, SetCreatorType, CreatorOnly DEF ReadTip
<1>7. ASSUME ReadNumber(n, t) PROVE TypeInv'
  <2>1. [creator[n][t] EXCEPT !.phase = "number", !.number = Tip(blocks[n]) + 1] \in Creator
    <3>1. Tip(blocks[n]) + 1 \in Nat
      BY <1>2
    <3>. QED BY <1>1, <3>1 DEF Creator, CreatorPhase
  <2>. QED BY <1>1, <1>7, <2>1, SetCreatorType, CreatorOnly DEF ReadNumber
<1>8. ASSUME NEW s \in Stamp, CommitBlock(n, t, s) PROVE TypeInv'
  <2>. DEFINE c == creator[n][t]
              b == NewBlock(c.number, s, c.prev, c.batch)
  <2>1. b \in Block
    BY <1>1, NewBlockType
  <2>2. blocks' = [blocks EXCEPT ![n] = @ \cup {b}]
    BY <1>8 DEF CommitBlock
  <2>3. blocks' \in [Node -> SUBSET Block] /\ \A m \in Node : Bounded(blocks'[m])
    BY <1>2, <2>1, <2>2, BoundedInsert DEF TypeInv, TypeOK
  <2>4. /\ events' = [events EXCEPT ![n] = @ \cup c.rows]
        /\ pending' = [pending EXCEPT ![n] = @ \ c.batch]
    BY <1>8 DEF CommitBlock
  <2>5. [c EXCEPT !.phase = "apply"] \in Creator
    BY <1>1 DEF Creator, CreatorPhase
  <2>6. creator' \in [Node -> [Task -> Creator]]
    BY <1>1, <1>8, <2>5, SetCreatorType DEF CommitBlock
  <2>7. UNCHANGED <<alive, requests, syncer, crashes>>
    BY <1>8 DEF CommitBlock
  <2>. QED BY <1>1, <2>3, <2>4, <2>6, <2>7 DEF TypeInv, TypeOK, requests
<1>9. CASE BlockNumberTaken(n, t)
  BY <1>1, <1>9, SetCreatorType, CreatorOnly DEF BlockNumberTaken
<1>10. CASE CreateFails(n, t)
  BY <1>1, <1>10, SetCreatorType, CreatorOnly DEF CreateFails
<1>11. CASE ApplyCreated(n, t)
  <2>1. apply_peer_list_updates(alive[n], creator[n][t].batch) \in SUBSET Node
    BY <1>1, NetworkAssumption DEF apply_peer_list_updates, TypeInv, TypeOK
  <2>2. alive' \in [Node -> SUBSET Node]
    BY <1>11, <2>1 DEF ApplyCreated, TypeInv, TypeOK
  <2>3. creator' \in [Node -> [Task -> Creator]]
    BY <1>1, <1>11, SetCreatorType DEF ApplyCreated
  <2>4. UNCHANGED <<tables, requests, syncer, crashes>>
    BY <1>11 DEF ApplyCreated
  <2>. QED BY <2>2, <2>3, <2>4 DEF TypeInv, TypeOK, tables, requests
<1>. QED BY <1>3, <1>4, <1>5, <1>6, <1>7, <1>8, <1>9, <1>10, <1>11 DEF CreateStep

\* The block synchronisation.
LEMMA RepliesType ==
    ASSUME TypeInv, NEW p \in Node, NEW reply \in Replies(p)
    PROVE  reply \in SUBSET Block
<1>1. blocks[p] \in SUBSET Block
  BY DEF TypeInv, TypeOK
<1>2. \A b \in blocks[p], E \in SUBSET Event : [b EXCEPT !.events = E] \in Block
  BY <1>1 DEF Block
<1>. QED BY <1>1, <1>2 DEF Replies

LEMMA SyncStepType ==
    ASSUME TypeInv, NEW n \in Node, SyncStep(n)
    PROVE  TypeInv'
<1>. USE NoSyncerType
<1>1. /\ syncer \in [Node -> Syncer]
      /\ syncer[n] \in Syncer
      /\ syncer[n].alive \in SUBSET Node
      /\ syncer[n].todo \in SUBSET Node
      /\ syncer[n].reply \in SUBSET Block
      /\ syncer[n].rest \in SUBSET Block
      /\ syncer[n].suffix \in SUBSET Block
      /\ syncer[n].gone \in SUBSET Event
      /\ syncer[n].deleted \in SUBSET Block
  BY DEF TypeInv, TypeOK, Syncer
<1>2. alive[n] \in SUBSET Node /\ blocks[n] \in SUBSET Block
  BY DEF TypeInv, TypeOK
<1>3. NextPeer(n) \in Syncer
  BY <1>1, SyncerAtType DEF NextPeer, SyncPhase
<1>4. \A b : NextBlock(n, b) \in Syncer
  BY <1>1 DEF NextBlock, Syncer, SyncPhase
<1>5. ASSUME AdoptError(n) PROVE syncer' \in [Node -> Syncer]
  <2>1. PICK f : SetSyncer(n, NextBlock(n, f))
    BY <1>5 DEF AdoptError
  <2>. QED BY <1>1, <1>4, <2>1, SetSyncerType
<1>6. CASE BeginRound(n)
  <2>1. SyncerAt("peers", alive[n], alive[n] \ {n}) \in Syncer
    BY <1>2, SyncerAtType DEF SyncPhase
  <2>. QED BY <1>1, <1>6, <2>1, SetSyncerType, SyncerOnly DEF BeginRound
<1>7. CASE EndRound(n)
  <2>1. syncer' \in [Node -> Syncer]
    BY <1>1, <1>7, SetSyncerType DEF EndRound
  <2>2. CreatorAt("start", {}) \in Creator /\ bg \in Task
    BY CreatorAtType, GenesisType DEF CreatorPhase, Task
  <2>3. creator' \in [Node -> [Task -> Creator]]
    BY <1>7, <2>2, SetCreatorType DEF EndRound, TypeInv, TypeOK
  <2>4. UNCHANGED <<tables, alive, requests, crashes>>
    BY <1>7 DEF EndRound
  <2>. QED BY <2>1, <2>3, <2>4 DEF TypeInv, TypeOK, tables, requests
<1>8. ASSUME NEW p \in syncer[n].todo, NEW reply \in Replies(p), FetchBlocks(n, p, reply)
      PROVE  TypeInv'
  <2>1. reply \in SUBSET Block
    BY <1>1, RepliesType
  <2>2. SyncerAt("fetched", syncer[n].alive, syncer[n].todo \ {p}) \in Syncer
    BY <1>1, SyncerAtType DEF SyncPhase
  <2>3. [SyncerAt("fetched", syncer[n].alive, syncer[n].todo \ {p}) EXCEPT !.reply = reply] \in Syncer
    BY <2>1, <2>2 DEF Syncer
  <2>. QED BY <1>1, <1>8, <2>3, SetSyncerType, SyncerOnly DEF FetchBlocks
<1>9. ASSUME NEW p \in syncer[n].todo, FetchFails(n, p) PROVE TypeInv'
  <2>1. SyncerAt("peers", syncer[n].alive, syncer[n].todo \ {p}) \in Syncer
    BY <1>1, SyncerAtType DEF SyncPhase
  <2>. QED BY <1>1, <1>9, <2>1, SetSyncerType, SyncerOnly DEF FetchFails
<1>10. ASSUME NEW local \in {{}, blocks[n]}, LoadLocal(n, local) PROVE TypeInv'
  <2>1. [syncer[n] EXCEPT !.phase = "scan", !.local = local, !.rest = syncer[n].reply] \in Syncer
    BY <1>1, <1>2 DEF Syncer, SyncPhase
  <2>. QED BY <1>1, <1>10, <2>1, SetSyncerType, SyncerOnly DEF LoadLocal
<1>11. ASSUME NEW b \in syncer[n].rest, NEW class \in SyncBlockAction, ScanBlock(n, b, class)
       PROVE  TypeInv'
  <2>1. /\ [syncer[n] EXCEPT !.phase = "insert"] \in Syncer
        /\ [syncer[n] EXCEPT !.phase = "truncate"] \in Syncer
    BY <1>1 DEF Syncer, SyncPhase
  <2>2. PICK s \in Syncer : SetSyncer(n, s)
    BY <1>4, <1>11, <2>1 DEF ScanBlock
  <2>. QED BY <1>1, <1>11, <2>2, SetSyncerType, SyncerOnly DEF ScanBlock
<1>12. ASSUME NEW b \in syncer[n].rest, DeleteEvents(n, b) \/ DeleteBlocks(n, b) PROVE TypeInv'
  <2>1. /\ Events(From(blocks[n], b)) \cap events[n] \in SUBSET Event
        /\ From(blocks[n], b) \in SUBSET Block
    BY <1>2 DEF From, TypeInv, TypeOK
  <2>2. /\ [syncer[n] EXCEPT !.phase = "deleteBlocks",
                !.gone = Events(From(blocks[n], b)) \cap events[n]] \in Syncer
        /\ [syncer[n] EXCEPT !.phase = "commitDelete", !.deleted = From(blocks[n], b)] \in Syncer
    BY <1>1, <2>1 DEF Syncer, SyncPhase
  <2>. QED BY <1>1, <1>12, <2>2, SetSyncerType, SyncerOnly DEF DeleteEvents, DeleteBlocks
<1>21. ASSUME NEW b \in syncer[n].rest, CommitTruncate(n, b) PROVE TypeInv'
  <2>1. /\ blocks' = [blocks EXCEPT ![n] = @ \ syncer[n].deleted]
        /\ events' = [events EXCEPT ![n] = @ \ syncer[n].gone]
    BY <1>21 DEF CommitTruncate
  <2>2. blocks' \in [Node -> SUBSET Block] /\ events' \in [Node -> SUBSET Event]
    BY <2>1 DEF TypeInv, TypeOK
  <2>3. \A m \in Node : Bounded(blocks'[m])
    <3>1. \A m \in Node : blocks'[m] \in SUBSET blocks[m]
      BY <2>1 DEF TypeInv, TypeOK
    <3>. QED BY <3>1, BoundedSubset DEF TypeInv
  <2>4. [syncer[n] EXCEPT !.phase = "replay", !.gone = {}, !.deleted = {}] \in Syncer
    BY <1>1 DEF Syncer, SyncPhase
  <2>5. syncer' \in [Node -> Syncer]
    BY <1>1, <1>21, <2>4, SetSyncerType DEF CommitTruncate
  <2>6. UNCHANGED <<pending, alive, requests, creator, crashes>>
    BY <1>21 DEF CommitTruncate
  <2>. QED BY <2>2, <2>3, <2>5, <2>6 DEF TypeInv, TypeOK, requests
<1>13. ASSUME NEW b \in syncer[n].rest, ReplayProjections(n, b) PROVE TypeInv'
  <2>1. [syncer[n] EXCEPT !.phase = "adopt",
            !.suffix = From(syncer[n].reply, b)] \in Syncer
    BY <1>1 DEF From, Syncer, SyncPhase
  <2>. QED BY <1>1, <1>13, <2>1, SetSyncerType, SyncerOnly DEF ReplayProjections
<1>14. ASSUME NEW b \in syncer[n].rest \cup syncer[n].suffix, InsertSynced(n, b) PROVE TypeInv'
  <2>1. b \in Block
    BY <1>1
  <2>2. /\ blocks' = [blocks EXCEPT ![n] = @ \cup {b}]
        /\ events' = [events EXCEPT ![n] = @ \cup b.events]
    BY <1>14 DEF InsertSynced
  <2>3. blocks' \in [Node -> SUBSET Block] /\ \A m \in Node : Bounded(blocks'[m])
    BY <1>2, <2>1, <2>2, BoundedInsert DEF TypeInv, TypeOK
  <2>4. events' \in [Node -> SUBSET Event]
    BY <2>1, <2>2 DEF TypeInv, TypeOK, Block
  <2>5. /\ [syncer[n] EXCEPT !.phase = "cleanup"] \in Syncer
        /\ [syncer[n] EXCEPT !.phase = "adoptCleanup"] \in Syncer
    BY <1>1 DEF Syncer, SyncPhase
  <2>6. PICK s \in Syncer : SetSyncer(n, s)
    BY <1>14, <2>5 DEF InsertSynced
  <2>7. syncer' \in [Node -> Syncer]
    BY <1>1, <2>6, SetSyncerType
  <2>8. UNCHANGED <<pending, alive, requests, creator, crashes>>
    BY <1>14 DEF InsertSynced
  <2>. QED BY <2>3, <2>4, <2>7, <2>8 DEF TypeInv, TypeOK, requests
<1>15. ASSUME NEW b \in syncer[n].rest \cup syncer[n].suffix, SyncNumberTaken(n, b) PROVE TypeInv'
  <2>1. syncer' \in [Node -> Syncer]
    BY <1>1, <1>4, <1>5, <1>15, SetSyncerType DEF SyncNumberTaken
  <2>. QED BY <1>15, <2>1, SyncerOnly DEF SyncNumberTaken
<1>16. ASSUME NEW b \in syncer[n].rest \cup syncer[n].suffix, NEW gone \in SUBSET b.events,
              CleanupPending(n, b, gone)
       PROVE  TypeInv'
  <2>1. [syncer[n] EXCEPT !.phase = "adopt", !.suffix = @ \ {b}] \in Syncer
    BY <1>1 DEF Syncer, SyncPhase
  <2>2. PICK s \in Syncer : SetSyncer(n, s)
    BY <1>4, <1>16, <2>1 DEF CleanupPending
  <2>3. syncer' \in [Node -> Syncer]
    BY <1>1, <2>2, SetSyncerType
  <2>4. /\ pending' = [pending EXCEPT ![n] = @ \ gone]
        /\ UNCHANGED <<blocks, events, alive, requests, creator, crashes>>
    BY <1>16 DEF CleanupPending
  <2>. QED BY <2>3, <2>4 DEF TypeInv, TypeOK, requests
<1>17. ASSUME NEW b \in syncer[n].suffix, NEW class \in SyncBlockAction, AdoptBlock(n, b, class)
       PROVE  TypeInv'
  <2>1. /\ [syncer[n] EXCEPT !.phase = "adoptInsert"] \in Syncer
        /\ [syncer[n] EXCEPT !.suffix = @ \ {b}] \in Syncer
    BY <1>1 DEF Syncer, SyncPhase
  <2>2. syncer' \in [Node -> Syncer]
    BY <1>1, <1>5, <1>17, <2>1, SetSyncerType DEF AdoptBlock
  <2>. QED BY <1>17, <2>2, SyncerOnly DEF AdoptBlock
<1>18. CASE ScanDone(n)
  BY <1>1, <1>3, <1>18, SetSyncerType, SyncerOnly DEF ScanDone
<1>19. CASE AdoptDone(n)
  <2>1. apply_peer_list_updates(alive[n], Events(syncer[n].reply)) \in SUBSET Node
    <3>1. Events(syncer[n].reply) \in SUBSET Event
      BY <1>1 DEF Events, Block
    <3>. QED BY <1>2, <3>1, NetworkAssumption DEF apply_peer_list_updates
  <2>2. alive' \in [Node -> SUBSET Node]
    BY <1>19, <2>1 DEF AdoptDone, TypeInv, TypeOK
  <2>3. syncer' \in [Node -> Syncer]
    BY <1>1, <1>3, <1>19, SetSyncerType DEF AdoptDone
  <2>4. UNCHANGED <<tables, requests, creator, crashes>>
    BY <1>19 DEF AdoptDone
  <2>. QED BY <2>2, <2>3, <2>4 DEF TypeInv, TypeOK, tables, requests
<1>20. CASE SyncFails(n)
  BY <1>5, <1>20, SyncerOnly DEF SyncFails
<1>. QED BY <1>6, <1>7, <1>8, <1>9, <1>10, <1>11, <1>12, <1>13, <1>14, <1>15, <1>16, <1>17,
            <1>18, <1>19, <1>20, <1>21 DEF SyncStep

\* The requests, POST /peers and crashes.
LEMMA RequestStepType ==
    ASSUME TypeInv, NEW n \in Node, Client(n) \/ Gossip(n)
    PROVE  TypeInv'
<1>1. ASSUME NEW e \in Event, AddEventValidate(n, e) PROVE TypeInv'
  BY <1>1 DEF AddEventValidate, TypeInv, TypeOK, tables
<1>2. ASSUME NEW e \in Event, AddEventInsert(n, e) PROVE TypeInv'
  <2>1. CreatorAt("start", {}) \in Creator /\ e \in Task
    BY CreatorAtType, GenesisType DEF CreatorPhase, Task
  <2>2. creator' \in [Node -> [Task -> Creator]] /\ wire' \in [Node -> SUBSET Event]
    <3>1. creator \in [Node -> [Task -> Creator]] /\ wire \in [Node -> SUBSET Event]
      BY DEF TypeInv, TypeOK
    <3>2. CASE e \in pending[n]
      BY <1>2, <3>1, <3>2 DEF AddEventInsert
    <3>3. CASE e \notin pending[n]
      <4>1. SetCreator(n, e, CreatorAt("start", {}))
        BY <1>2, <3>3 DEF AddEventInsert, SetCreator
      <4>2. wire' = [p \in Node |-> IF p \in alive[n] \ {n} THEN wire[p] \cup {e} ELSE wire[p]]
        BY <1>2, <3>3 DEF AddEventInsert
      <4>3. wire' \in [Node -> SUBSET Event]
        BY <3>1, <4>2
      <4>. QED BY <2>1, <3>1, <4>1, <4>3, SetCreatorType
    <3>. QED BY <3>2, <3>3
  <2>. QED BY <1>2, <2>2 DEF AddEventInsert, TypeInv, TypeOK
<1>3. ASSUME NEW e \in Event, GossipLost(n, e) PROVE TypeInv'
  BY <1>3 DEF GossipLost, TypeInv, TypeOK, tables
<1>4. ASSUME NEW e \in Event, GossipCheck(n, e) PROVE TypeInv'
  BY <1>4 DEF GossipCheck, TypeInv, TypeOK, tables
<1>5. ASSUME NEW e \in Event, GossipInsert(n, e) PROVE TypeInv'
  BY <1>5 DEF GossipInsert, TypeInv, TypeOK
<1>. QED BY <1>1, <1>2, <1>3, <1>4, <1>5 DEF Client, Gossip

LEMMA AddPeerType ==
    ASSUME TypeInv, NEW n \in Node, NEW p \in Node, NEW up \in BOOLEAN, AddPeer(n, p, up)
    PROVE  TypeInv'
BY DEF AddPeer, TypeInv, TypeOK, tables, requests

LEMMA CrashType ==
    ASSUME TypeInv, NEW n \in Node, Crash(n)
    PROVE  TypeInv'
<1>1. alive' \in [Node -> SUBSET Node]
  BY NetworkAssumption DEF Crash, TypeInv, TypeOK
<1>2. creator' \in [Node -> [Task -> Creator]] /\ syncer' \in [Node -> Syncer]
  BY NoCreatorType, NoSyncerType DEF Crash, TypeInv, TypeOK
<1>. QED BY <1>1, <1>2 DEF Crash, TypeInv, TypeOK, tables

LEMMA InitType == Init => TypeInv
<1>. SUFFICES ASSUME Init PROVE TypeInv
  OBVIOUS
<1>1. \A n \in Node : Bounded(blocks[n])
  BY DEF Init, Bounded
<1>. QED BY <1>1, NoCreatorType, NoSyncerType, NetworkAssumption DEF Init, TypeInv, TypeOK

LEMMA NextType == TypeInv /\ [Next]_vars => TypeInv'
<1>. SUFFICES ASSUME TypeInv, [Next]_vars PROVE TypeInv'
  OBVIOUS
<1>1. CASE UNCHANGED vars
  BY <1>1 DEF vars, tables, requests, TypeInv, TypeOK
<1>2. CASE Next
  BY <1>2, CreateStepType, SyncStepType, RequestStepType, AddPeerType, CrashType DEF Next
<1>. QED BY <1>1, <1>2

LEMMA TypeInvariant == Spec => []TypeInv
BY InitType, NextType, PTL DEF Spec

(* Every variable keeps its type: in particular every table row, and every  *)
(* block a node holds while it synchronises, is a block over known events.  *)
THEOREM TypeCorrect == Spec => []TypeOK
<1>1. TypeInv => TypeOK
  BY DEF TypeInv
<1>. QED BY TypeInvariant, <1>1, PTL

-----------------------------------------------------------------------------
(***************************************************************************)
(* What block production and synchronisation keep true of the tables of    *)
(* every node, gateways, crashes, failures and damaged replies included:   *)
(* HashCommitted and PendingLeavesConfirmed.                               *)
(*                                                                         *)
(* The inductive invariant says of each node that no two of its blocks     *)
(* have the same number, and what its synchronisation knows of the block   *)
(* it works on: that its hash is right when it is about to be inserted,    *)
(* and that it is in the table when its events leave the pending pool.     *)
(***************************************************************************)

\* The block the synchronisation in state s works on (see Current).
Working(s) ==
    IF s.phase \in {"insert", "cleanup", "truncate", "deleteBlocks", "commitDelete", "replay"}
    THEN {b \in s.rest : Lowest(b, s.rest)}
    ELSE IF s.phase \in {"adopt", "adoptInsert", "adoptCleanup"}
    THEN {b \in s.suffix : Lowest(b, s.suffix)}
    ELSE {}

ChainOK(B) ==
    /\ Unique(B)
    /\ \A b \in B : HashOK(b)

SyncOK(B, s) ==
    /\ Unique(s.reply)
    /\ s.rest \subseteq s.reply
    /\ s.suffix \subseteq s.reply
    /\ s.phase \in {"insert", "adoptInsert"} => \A b \in Working(s) : HashOK(b)
    /\ s.phase \in {"cleanup", "adoptCleanup"} => Working(s) \subseteq B

ConfirmInv ==
    \A n \in Node : ChainOK(blocks[n]) /\ SyncOK(blocks[n], syncer[n])

-----------------------------------------------------------------------------
LEMMA CurrentWorking ==
    ASSUME NEW n, NEW b
    PROVE  Current(n, b) <=> b \in Working(syncer[n])
BY DEF Current, Working, Truncating

\* Only one block is the lowest of a reply, or of a part of it.
LEMMA LowestIsOne ==
    ASSUME NEW R \in SUBSET Block, Unique(R), NEW S \in SUBSET R,
           NEW b \in S, NEW c \in S, Lowest(b, S), Lowest(c, S)
    PROVE  b = c
<1>1. b.number <= c.number /\ c.number <= b.number /\ b.number \in Nat /\ c.number \in Nat
  BY DEF Lowest, Block
<1>. QED BY <1>1 DEF Unique

LEMMA WorkingIsOne ==
    ASSUME NEW s \in Syncer, NEW B, SyncOK(B, s), NEW b \in Working(s)
    PROVE  Working(s) = {b}
BY LowestIsOne DEF SyncOK, Working, Syncer

\* classify_block lets in only blocks whose hash is right.
LEMMA InsertHashed ==
    ASSUME NEW n, NEW b, "insert" \in Classes(n, b)
    PROVE  HashOK(b)
BY DEF Classes, classify_block

\* Synchronisation states that hold no obligation.
LEMMA QuietSync ==
    /\ \A B : SyncOK(B, NoSyncer)
    /\ \A B, phase, registry, todo : SyncOK(B, SyncerAt(phase, registry, todo))
BY DEF SyncOK, NoSyncer, SyncerAt, Working, Unique

LEMMA NextBlockSync ==
    ASSUME TypeInv, ConfirmInv, NEW n \in Node, NEW b, NEW B
    PROVE  SyncOK(B, NextBlock(n, b))
<1>1. SyncOK(blocks[n], syncer[n]) /\ syncer[n] \in Syncer
  BY DEF ConfirmInv, TypeInv, TypeOK
<1>. QED BY <1>1 DEF SyncOK, NextBlock, Working, Syncer

\* A step that writes one synchronisation state only.
LEMMA SyncWrite ==
    ASSUME TypeInv, ConfirmInv, NEW n \in Node, NEW s, SetSyncer(n, s),
           SyncOK(blocks[n], s), UNCHANGED <<blocks, events>>
    PROVE  ConfirmInv'
<1>1. syncer \in [Node -> Syncer]
  BY DEF TypeInv, TypeOK
<1>2. \A m \in Node : syncer'[m] = IF m = n THEN s ELSE syncer[m]
  BY <1>1 DEF SetSyncer
<1>. QED BY <1>2 DEF ConfirmInv

LEMMA AdoptErrorSync ==
    ASSUME TypeInv, ConfirmInv, NEW n \in Node, AdoptError(n), UNCHANGED <<blocks, events>>
    PROVE  ConfirmInv'
BY NextBlockSync, SyncWrite DEF AdoptError

\* A block more in a table: what it takes, and what it leaves true.
LEMMA ChainAppend ==
    ASSUME NEW B \in SUBSET Block, ChainOK(B), NEW b \in Block, HashOK(b),
           b.number \notin Numbers(B)
    PROVE  ChainOK(B \cup {b})
BY DEF ChainOK, Unique, Numbers

LEMMA SyncGrows ==
    ASSUME NEW B, NEW C, NEW s, B \subseteq C, SyncOK(B, s)
    PROVE  SyncOK(C, s)
BY DEF SyncOK

-----------------------------------------------------------------------------
LEMMA CreateStepConfirm ==
    ASSUME TypeInv, ConfirmInv, NEW n \in Node, NEW t \in Task, CreateStep(n, t)
    PROVE  ConfirmInv'
<1>1. ASSUME NEW s \in Stamp, CommitBlock(n, t, s) PROVE ConfirmInv'
  <2>. DEFINE c == creator[n][t]
              b == NewBlock(c.number, s, c.prev, c.batch)
  <2>1. c.batch \in SUBSET Event /\ c.prev \in Hash /\ c.number \in Nat
    BY DEF TypeInv, TypeOK, Creator
  <2>2. b \in Block /\ HashOK(b) /\ b.number = c.number /\ b.events = c.batch
    BY <2>1, NewBlockType DEF NewBlock
  <2>3. /\ c.number \notin Numbers(blocks[n])
        /\ blocks' = [blocks EXCEPT ![n] = @ \cup {b}]
        /\ UNCHANGED syncer
    BY <1>1 DEF CommitBlock
  <2>. HIDE DEF b, c
  <2>4. blocks \in [Node -> SUBSET Block]
    BY DEF TypeInv, TypeOK
  <2>5. ChainOK(blocks[n] \cup {b})
    BY <2>2, <2>3, <2>4, ChainAppend DEF ConfirmInv
  <2>6. ASSUME NEW m \in Node PROVE ChainOK(blocks'[m]) /\ SyncOK(blocks'[m], syncer'[m])
    <3>1. blocks[m] \subseteq blocks'[m]
      BY <2>3, <2>4
    <3>2. SyncOK(blocks'[m], syncer'[m])
      BY <2>3, <3>1, SyncGrows DEF ConfirmInv
    <3>3. ChainOK(blocks'[m])
      BY <2>3, <2>4, <2>5 DEF ConfirmInv
    <3>. QED BY <3>2, <3>3
  <2>. QED BY <2>6 DEF ConfirmInv
<1>2. CASE UNCHANGED <<blocks, events, syncer>>
  BY <1>2 DEF ConfirmInv
<1>. QED BY <1>1, <1>2 DEF CreateStep, CheckProducer, CollectPending, BeginTx, ReadTip, ReadNumber,
            BlockNumberTaken, CreateFails, ApplyCreated, tables

LEMMA RepliesUnique ==
    ASSUME TypeInv, ConfirmInv, NEW p \in Node, NEW reply \in Replies(p)
    PROVE  Unique(reply)
<1>1. blocks[p] \in SUBSET Block /\ Unique(blocks[p])
  BY DEF TypeInv, TypeOK, ConfirmInv, ChainOK
<1>2. ASSUME NEW b \in blocks[p], NEW E,
             reply = (blocks[p] \ {b}) \cup {[b EXCEPT !.events = E]}
      PROVE  Unique(reply)
  <2>1. [b EXCEPT !.events = E].number = b.number
    BY <1>1 DEF Block
  <2>. QED BY <1>1, <1>2, <2>1 DEF Unique
<1>. QED BY <1>1, <1>2 DEF Replies

LEMMA SyncStepConfirm ==
    ASSUME TypeInv, ConfirmInv, NEW n \in Node, SyncStep(n)
    PROVE  ConfirmInv'
<1>1. /\ syncer \in [Node -> Syncer]
      /\ syncer[n] \in Syncer
      /\ SyncOK(blocks[n], syncer[n])
      /\ blocks \in [Node -> SUBSET Block]
      /\ syncer[n].reply \in SUBSET Block
      /\ syncer[n].rest \in SUBSET Block
      /\ syncer[n].suffix \in SUBSET Block
  BY DEF TypeInv, TypeOK, ConfirmInv, Syncer
<1>2. CASE BeginRound(n)
  BY <1>2, SyncWrite, QuietSync DEF BeginRound, tables
<1>3. CASE EndRound(n)
  BY <1>3, SyncWrite, QuietSync DEF EndRound, tables
<1>4. ASSUME NEW p \in syncer[n].todo, NEW reply \in Replies(p), FetchBlocks(n, p, reply)
      PROVE  ConfirmInv'
  <2>. DEFINE s == [SyncerAt("fetched", syncer[n].alive, syncer[n].todo \ {p}) EXCEPT !.reply = reply]
  <2>1. Unique(reply)
    BY <1>1, RepliesUnique DEF Syncer
  <2>2. SyncOK(blocks[n], s)
    BY <2>1 DEF SyncOK, SyncerAt, Working
  <2>. QED BY <1>4, <2>2, SyncWrite DEF FetchBlocks, tables
<1>5. ASSUME NEW p \in syncer[n].todo, FetchFails(n, p) PROVE ConfirmInv'
  BY <1>5, SyncWrite, QuietSync DEF FetchFails, tables
<1>6. ASSUME NEW local \in {{}, blocks[n]}, LoadLocal(n, local) PROVE ConfirmInv'
  <2>. DEFINE s == [syncer[n] EXCEPT !.phase = "scan", !.local = local, !.rest = syncer[n].reply]
  <2>1. SyncOK(blocks[n], s)
    BY <1>1 DEF SyncOK, Working, Syncer
  <2>. QED BY <1>6, <2>1, SyncWrite DEF LoadLocal, tables
<1>7. ASSUME NEW b \in syncer[n].rest, NEW class \in SyncBlockAction, ScanBlock(n, b, class)
      PROVE  ConfirmInv'
  <2>1. CASE class = "insert"
    <3>. DEFINE s == [syncer[n] EXCEPT !.phase = "insert"]
    <3>1. SetSyncer(n, s) /\ UNCHANGED <<blocks, events>> /\ HashOK(b) /\ Lowest(b, syncer[n].rest)
      BY <1>7, <2>1, InsertHashed DEF ScanBlock, tables
    <3>2. \A c \in Working(s) : c = b
      BY <1>1, <3>1, LowestIsOne DEF Working, SyncOK, Syncer
    <3>3. SyncOK(blocks[n], s)
      BY <1>1, <3>1, <3>2 DEF SyncOK, Syncer
    <3>. QED BY <3>1, <3>3, SyncWrite
  <2>2. CASE class # "insert"
    <3>. DEFINE s == [syncer[n] EXCEPT !.phase = "truncate"]
    <3>1. SyncOK(blocks[n], s)
      BY <1>1 DEF SyncOK, Working, Syncer
    <3>2. /\ SetSyncer(n, s) \/ SetSyncer(n, NextBlock(n, b))
          /\ UNCHANGED <<blocks, events>>
      BY <1>7, <2>2 DEF ScanBlock, tables
    <3>. QED BY <3>1, <3>2, NextBlockSync, SyncWrite
  <2>. QED BY <2>1, <2>2
<1>8. ASSUME NEW b \in syncer[n].rest, DeleteEvents(n, b) \/ DeleteBlocks(n, b) PROVE ConfirmInv'
  <2>1. /\ UNCHANGED <<blocks, events>>
        /\ \/ \E E : SetSyncer(n, [syncer[n] EXCEPT !.phase = "deleteBlocks", !.gone = E])
           \/ \E D : SetSyncer(n, [syncer[n] EXCEPT !.phase = "commitDelete", !.deleted = D])
    BY <1>8 DEF DeleteEvents, DeleteBlocks, tables
  <2>2. \A E : SyncOK(blocks[n], [syncer[n] EXCEPT !.phase = "deleteBlocks", !.gone = E])
    BY <1>1 DEF SyncOK, Syncer
  <2>3. \A D : SyncOK(blocks[n], [syncer[n] EXCEPT !.phase = "commitDelete", !.deleted = D])
    BY <1>1 DEF SyncOK, Syncer
  <2>. QED BY <2>1, <2>2, <2>3, SyncWrite
<1>17. ASSUME NEW b \in syncer[n].rest, CommitTruncate(n, b) PROVE ConfirmInv'
  <2>. DEFINE s == [syncer[n] EXCEPT !.phase = "replay", !.gone = {}, !.deleted = {}]
  <2>1. /\ blocks' = [blocks EXCEPT ![n] = @ \ syncer[n].deleted]
        /\ syncer' = [syncer EXCEPT ![n] = s]
    BY <1>17 DEF CommitTruncate, SetSyncer
  <2>2. ChainOK(blocks[n] \ syncer[n].deleted)
    BY DEF ConfirmInv, ChainOK, Unique
  <2>3. \A B : SyncOK(B, s)
    BY <1>1 DEF SyncOK, Syncer
  <2>. HIDE DEF s
  <2>. QED BY <1>1, <2>1, <2>2, <2>3 DEF ConfirmInv
<1>9. ASSUME NEW b \in syncer[n].rest, ReplayProjections(n, b) PROVE ConfirmInv'
  <2>. DEFINE s == [syncer[n] EXCEPT !.phase = "adopt",
                       !.suffix = From(syncer[n].reply, b)]
  <2>1. SyncOK(blocks[n], s)
    BY <1>1 DEF From, SyncOK, Working, Syncer
  <2>. QED BY <1>9, <2>1, SyncWrite DEF ReplayProjections, tables
<1>10. ASSUME NEW b \in syncer[n].rest \cup syncer[n].suffix, InsertSynced(n, b) PROVE ConfirmInv'
  <2>. DEFINE s == [syncer[n] EXCEPT !.phase = IF @ = "insert" THEN "cleanup" ELSE "adoptCleanup"]
              B == blocks[n] \cup {b}
  <2>1. /\ syncer[n].phase \in {"insert", "adoptInsert"}
        /\ b \in Working(syncer[n])
        /\ b.number \notin Numbers(blocks[n])
        /\ blocks' = [blocks EXCEPT ![n] = @ \cup {b}]
        /\ syncer' = [syncer EXCEPT ![n] = s]
    BY <1>10, CurrentWorking DEF InsertSynced, SetSyncer
  <2>2. b \in Block /\ HashOK(b)
    BY <1>1, <2>1 DEF SyncOK
  <2>3. ChainOK(B)
    BY <1>1, <2>1, <2>2, ChainAppend DEF ConfirmInv
  <2>4. Working(syncer[n]) = {b}
    BY <1>1, <2>1, WorkingIsOne
  <2>5. Working(s) = Working(syncer[n])
    BY <1>1, <2>1 DEF Working, Syncer
  <2>6. SyncOK(B, s)
    BY <1>1, <2>4, <2>5 DEF SyncOK, Syncer
  <2>. HIDE DEF s
  <2>. QED BY <1>1, <2>1, <2>3, <2>6 DEF ConfirmInv
<1>11. ASSUME NEW b \in syncer[n].rest \cup syncer[n].suffix, SyncNumberTaken(n, b) PROVE ConfirmInv'
  BY <1>11, AdoptErrorSync, NextBlockSync, SyncWrite DEF SyncNumberTaken, tables
<1>12. ASSUME NEW b \in syncer[n].rest \cup syncer[n].suffix, NEW gone \in SUBSET b.events,
              CleanupPending(n, b, gone)
       PROVE  ConfirmInv'
  <2>. DEFINE s == [syncer[n] EXCEPT !.phase = "adopt", !.suffix = @ \ {b}]
  <2>1. SyncOK(blocks[n], s)
    BY <1>1 DEF SyncOK, Syncer
  <2>2. /\ SetSyncer(n, s) \/ SetSyncer(n, NextBlock(n, b))
        /\ UNCHANGED <<blocks, events>>
    BY <1>12 DEF CleanupPending
  <2>. QED BY <2>1, <2>2, NextBlockSync, SyncWrite
<1>13. ASSUME NEW b \in syncer[n].suffix, NEW class \in SyncBlockAction, AdoptBlock(n, b, class)
       PROVE  ConfirmInv'
  <2>1. syncer[n].phase = "adopt" /\ UNCHANGED <<blocks, events>>
    BY <1>13 DEF AdoptBlock, tables
  <2>2. CASE class = "insert"
    <3>. DEFINE s == [syncer[n] EXCEPT !.phase = "adoptInsert"]
    <3>1. SetSyncer(n, s) /\ HashOK(b) /\ b \in Working(syncer[n])
      BY <1>13, <2>2, InsertHashed, CurrentWorking DEF AdoptBlock
    <3>2. Working(s) = {b}
      <4>1. Working(s) = Working(syncer[n])
        BY <1>1, <2>1 DEF Working, Syncer
      <4>. QED BY <1>1, <3>1, <4>1, WorkingIsOne
    <3>3. SyncOK(blocks[n], s)
      BY <1>1, <3>1, <3>2 DEF SyncOK, Syncer
    <3>. QED BY <2>1, <3>1, <3>3, SyncWrite
  <2>3. CASE class = "skip"
    <3>. DEFINE s == [syncer[n] EXCEPT !.suffix = @ \ {b}]
    <3>1. SyncOK(blocks[n], s)
      BY <1>1, <2>1 DEF SyncOK, Syncer
    <3>. QED BY <1>13, <2>1, <2>3, <3>1, SyncWrite DEF AdoptBlock
  <2>4. CASE class \in {"reject", "fork"}
    BY <1>13, <2>1, <2>4, AdoptErrorSync DEF AdoptBlock
  <2>. QED BY <2>2, <2>3, <2>4 DEF SyncBlockAction
<1>14. CASE ScanDone(n)
  BY <1>14, SyncWrite, QuietSync DEF ScanDone, NextPeer, tables
<1>15. CASE AdoptDone(n)
  BY <1>15, SyncWrite, QuietSync DEF AdoptDone, NextPeer, tables
<1>16. CASE SyncFails(n)
  BY <1>16, AdoptErrorSync DEF SyncFails, tables
<1>. QED BY <1>2, <1>3, <1>4, <1>5, <1>6, <1>7, <1>8, <1>9, <1>10, <1>11, <1>12, <1>13, <1>14,
            <1>15, <1>16, <1>17 DEF SyncStep

LEMMA InitConfirm == Init => ConfirmInv
BY QuietSync DEF Init, ConfirmInv, ChainOK, Unique

LEMMA CrashConfirm ==
    ASSUME TypeInv, ConfirmInv, NEW n \in Node, Crash(n)
    PROVE  ConfirmInv'
<1>1. syncer' = [syncer EXCEPT ![n] = NoSyncer] /\ UNCHANGED <<blocks, events>>
  BY DEF Crash, tables
<1>. QED BY <1>1, QuietSync DEF ConfirmInv, TypeInv, TypeOK

LEMMA NextConfirm == TypeInv /\ ConfirmInv /\ [Next]_vars => ConfirmInv'
<1>. SUFFICES ASSUME TypeInv, ConfirmInv, [Next]_vars PROVE ConfirmInv'
  OBVIOUS
<1>1. CASE UNCHANGED vars
  BY <1>1 DEF vars, tables, ConfirmInv
<1>2. ASSUME NEW n \in Node, Client(n) \/ Gossip(n) PROVE ConfirmInv'
  <2>1. UNCHANGED <<blocks, events, syncer>>
    BY <1>2 DEF Client, Gossip, AddEventValidate, AddEventInsert, GossipLost, GossipCheck,
                GossipInsert, tables
  <2>. QED BY <2>1 DEF ConfirmInv
<1>3. ASSUME NEW n \in Node, NEW p \in Node, NEW up \in BOOLEAN, AddPeer(n, p, up) PROVE ConfirmInv'
  BY <1>3 DEF AddPeer, tables, ConfirmInv
<1>. QED BY <1>1, <1>2, <1>3, CreateStepConfirm, SyncStepConfirm, CrashConfirm DEF Next

LEMMA ConfirmInvariant == Spec => []ConfirmInv
BY InitConfirm, NextConfirm, TypeInvariant, PTL DEF Spec

-----------------------------------------------------------------------------
(* Every stored block carries the hash of its own content (classify_block,  *)
(* create_block_from_events).                                               *)
THEOREM HashesCommitted == Spec => []HashCommitted
<1>1. ConfirmInv => HashCommitted
  BY DEF ConfirmInv, ChainOK, HashCommitted
<1>. QED BY <1>1, ConfirmInvariant, PTL

(* An event leaves the pending pool only when a block of the node holds it  *)
(* (delete_in_tx in create_block_from_events, delete_by_ids after           *)
(* insert_synced_block has committed).                                      *)
THEOREM PendingNotLost == Spec => PendingLeavesConfirmed
<1>. DEFINE Kept == \A n \in Node : \A e \in pending[n] \ pending'[n] : e \in Events(blocks'[n])
<1>1. ASSUME TypeInv, ConfirmInv, [Next]_vars PROVE Kept \/ UNCHANGED vars
  <2>1. pending \in [Node -> SUBSET Event] /\ blocks \in [Node -> SUBSET Block]
    BY <1>1 DEF TypeInv, TypeOK
  <2>2. ASSUME NEW n \in Node, NEW t \in Task, CreateStep(n, t) PROVE Kept
    <3>1. ASSUME NEW s \in Stamp, CommitBlock(n, t, s) PROVE Kept
      <4>. DEFINE c == creator[n][t]
                  b == NewBlock(c.number, s, c.prev, c.batch)
      <4>1. /\ blocks' = [blocks EXCEPT ![n] = @ \cup {b}]
            /\ pending' = [pending EXCEPT ![n] = @ \ c.batch]
        BY <3>1 DEF CommitBlock
      <4>2. b.events = c.batch
        BY DEF NewBlock
      <4>. HIDE DEF b, c
      <4>. QED BY <2>1, <4>1, <4>2 DEF Events
    <3>2. CASE UNCHANGED pending
      BY <3>2
    <3>. QED BY <2>2, <3>1, <3>2 DEF CreateStep, CheckProducer, CollectPending, BeginTx, ReadTip,
                ReadNumber, BlockNumberTaken, CreateFails, ApplyCreated, tables
  <2>3. ASSUME NEW n \in Node, SyncStep(n) PROVE Kept
    <3>1. ASSUME NEW b \in syncer[n].rest \cup syncer[n].suffix, NEW gone \in SUBSET b.events,
                 CleanupPending(n, b, gone)
          PROVE  Kept
      <4>1. b \in blocks[n]
        BY <1>1, <3>1, CurrentWorking DEF CleanupPending, ConfirmInv, SyncOK
      <4>2. pending' = [pending EXCEPT ![n] = @ \ gone] /\ UNCHANGED blocks
        BY <3>1 DEF CleanupPending
      <4>. QED BY <2>1, <4>1, <4>2 DEF Events
    <3>2. CASE UNCHANGED pending
      BY <3>2
    <3>. QED BY <2>3, <3>1, <3>2 DEF SyncStep, BeginRound, EndRound, FetchBlocks, FetchFails, LoadLocal,
                ScanBlock, DeleteEvents, DeleteBlocks, CommitTruncate, ReplayProjections, InsertSynced, SyncNumberTaken, AdoptBlock,
                ScanDone, AdoptDone, SyncFails, tables
  <2>4. ASSUME NEW n \in Node, Client(n) \/ Gossip(n) PROVE Kept
    <3>1. \A m \in Node : pending[m] \subseteq pending'[m]
      BY <2>1, <2>4 DEF Client, Gossip, AddEventValidate, AddEventInsert, GossipLost, GossipCheck,
                GossipInsert, tables
    <3>. QED BY <3>1
  <2>5. ASSUME NEW n \in Node, NEW p \in Node, NEW up \in BOOLEAN, AddPeer(n, p, up) PROVE Kept
    BY <2>5 DEF AddPeer, tables
  <2>6. ASSUME NEW n \in Node, Crash(n) PROVE Kept
    BY <2>6 DEF Crash, tables
  <2>. QED BY <1>1, <2>2, <2>3, <2>4, <2>5, <2>6 DEF Next
<1>. QED BY <1>1, TypeInvariant, ConfirmInvariant, PTL DEF Spec, PendingLeavesConfirmed

-----------------------------------------------------------------------------
(***************************************************************************)
(* ConfirmedInChain.  On a node without spawned tasks either the loop's    *)
(* own task or the synchronisation is at work (LoopInv), so that nothing   *)
(* is committed between the statements of truncate_chain_from: the rows    *)
(* it deletes from `events` are those of the blocks it deletes (RecordInv).*)
(***************************************************************************)

\* What holds of the tasks C, the synchronisation s and the requests A of such a node.
LoopOnly(C, s, A) ==
    /\ A = {}
    /\ \A e \in Event : C[e].phase = "idle"
    /\ s.phase # "idle" => C[bg].phase = "idle"

LoopInv == \A n \in Observer : LoopOnly(creator[n], syncer[n], adding[n])

\* What the open deletion of s has met in the tables B and E.
Deletes(B, E, s) ==
    /\ s.phase \in {"deleteBlocks", "commitDelete"} =>
          \A b \in Working(s) : s.gone = Events(From(B, b)) \cap E
    /\ s.phase = "commitDelete" => \A b \in Working(s) : s.deleted = From(B, b)

RecordInv ==
    \A n \in Observer :
        /\ events[n] \subseteq Events(blocks[n])
        /\ Deletes(blocks[n], events[n], syncer[n])
        /\ creator[n][bg].rows \subseteq creator[n][bg].batch

LEMMA ObserverNode == \A n \in Observer : n \in Node
BY DEF Observer

\* The steps of one node leave the tables, tasks and requests of the others alone.
LEMMA OthersLeftAlone ==
    ASSUME TypeInv, NEW n \in Node, NEW m \in Node, m # n,
           Client(m) \/ (\E t \in Task : CreateStep(m, t)) \/ SyncStep(m) \/ Crash(m)
    PROVE  /\ blocks'[n] = blocks[n]
           /\ events'[n] = events[n]
           /\ creator'[n] = creator[n]
           /\ syncer'[n] = syncer[n]
           /\ adding'[n] = adding[n]
<1>. DEFINE Alone == /\ blocks'[n] = blocks[n] /\ events'[n] = events[n] /\ creator'[n] = creator[n]
                     /\ syncer'[n] = syncer[n] /\ adding'[n] = adding[n]
<1>1. /\ blocks \in [Node -> SUBSET Block]
      /\ events \in [Node -> SUBSET Event]
      /\ creator \in [Node -> [Task -> Creator]]
      /\ syncer \in [Node -> Syncer]
      /\ adding \in [Node -> SUBSET Event]
  BY DEF TypeInv, TypeOK
<1>2. CASE Client(m)
  BY <1>1, <1>2 DEF Client, AddEventValidate, AddEventInsert, tables
<1>3. ASSUME NEW t \in Task, CreateStep(m, t) PROVE Alone
  BY <1>1, <1>3 DEF CreateStep, CheckProducer, CollectPending, BeginTx, ReadTip, ReadNumber,
     CommitBlock, BlockNumberTaken, CreateFails, ApplyCreated, SetCreator, tables, requests
<1>4. CASE SyncStep(m)
  <2>1. UNCHANGED adding /\ creator'[n] = creator[n]
    BY <1>1, <1>4 DEF SyncStep, BeginRound, EndRound, FetchBlocks, FetchFails, LoadLocal, ScanBlock,
       ScanDone, InsertSynced, SyncNumberTaken, SyncFails, CleanupPending, DeleteEvents, DeleteBlocks,
       CommitTruncate, ReplayProjections, AdoptBlock, AdoptDone, SetCreator, requests
  <2>2. blocks'[n] = blocks[n] /\ events'[n] = events[n]
    BY <1>1, <1>4 DEF SyncStep, BeginRound, EndRound, FetchBlocks, FetchFails, LoadLocal, ScanBlock,
       ScanDone, InsertSynced, SyncNumberTaken, SyncFails, CleanupPending, DeleteEvents, DeleteBlocks,
       CommitTruncate, ReplayProjections, AdoptBlock, AdoptDone, tables
  <2>3. \E s : SetSyncer(m, s)
    BY <1>4 DEF SyncStep, BeginRound, EndRound, FetchBlocks, FetchFails, LoadLocal, ScanBlock,
       ScanDone, InsertSynced, SyncNumberTaken, SyncFails, AdoptError, CleanupPending, DeleteEvents,
       DeleteBlocks, CommitTruncate, ReplayProjections, AdoptBlock, AdoptDone
  <2>4. syncer'[n] = syncer[n]
    BY <1>1, <2>3 DEF SetSyncer
  <2>. QED BY <2>1, <2>2, <2>4
<1>5. CASE Crash(m)
  BY <1>1, <1>5 DEF Crash, tables
<1>. QED BY <1>2, <1>3, <1>4, <1>5

\* A task's step is about the loop's task, while no synchronisation goes on.
LEMMA LoopTask ==
    ASSUME LoopInv, NEW n \in Observer, NEW t \in Task, creator[n][t].phase # "idle"
    PROVE  t = bg /\ syncer[n].phase = "idle"
BY DEF LoopInv, LoopOnly, Task

LEMMA TaskAtWork ==
    ASSUME LoopInv, NEW n \in Observer, NEW t \in Task, CreateStep(n, t)
    PROVE  t = bg /\ syncer[n].phase = "idle"
<1>1. creator[n][t].phase # "idle"
  BY DEF CreateStep, CheckProducer, CollectPending, BeginTx, ReadTip, ReadNumber, CommitBlock,
         BlockNumberTaken, CreateFails, ApplyCreated, InTx
<1>. QED BY <1>1, LoopTask

\* While the synchronisation does anything, the loop's task is idle.
LEMMA SyncAtWork ==
    ASSUME LoopInv, NEW n \in Observer, SyncStep(n)
    PROVE  creator[n][bg].phase = "idle"
<1>1. BeginRound(n) \/ syncer[n].phase # "idle"
  BY DEF SyncStep, EndRound, FetchBlocks, FetchFails, LoadLocal, ScanBlock, ScanDone, InsertSynced,
         SyncNumberTaken, SyncFails, CleanupPending, DeleteEvents, DeleteBlocks, CommitTruncate,
         ReplayProjections, AdoptBlock, AdoptDone, Truncating
<1>. QED BY <1>1 DEF BeginRound, LoopInv, LoopOnly

LEMMA InitLoop == Init => LoopInv
BY ObserverNode DEF Init, LoopInv, LoopOnly, NoSyncer, SyncerAt, NoCreator, CreatorAt, Task

LEMMA NextLoop == TypeInv /\ LoopInv /\ [Next]_vars => LoopInv'
<1>. SUFFICES ASSUME TypeInv, LoopInv, [Next]_vars, NEW n \in Observer
             PROVE  LoopOnly(creator'[n], syncer'[n], adding'[n])
  BY DEF LoopInv, Observer
<1>1. /\ n \in Node /\ LoopOnly(creator[n], syncer[n], adding[n])
      /\ creator \in [Node -> [Task -> Creator]] /\ syncer \in [Node -> Syncer]
      /\ bg \in Task /\ \A e \in Event : e \in Task /\ e # bg
  BY ObserverNode, NetworkAssumption DEF LoopInv, TypeInv, TypeOK, Task
<1>2. CASE UNCHANGED <<creator, syncer, adding>>
  BY <1>1, <1>2
<1>3. ASSUME NEW m \in Node, m # n,
             Client(m) \/ (\E t \in Task : CreateStep(m, t)) \/ SyncStep(m) \/ Crash(m)
      PROVE  LoopOnly(creator'[n], syncer'[n], adding'[n])
  BY <1>1, <1>3, OthersLeftAlone
<1>4. ~Client(n)
  <2>1. adding[n] = {}
    BY <1>1 DEF LoopOnly
  <2>. QED BY <2>1 DEF Client, AddEventValidate, AddEventInsert, Observer
<1>5. ASSUME NEW t \in Task, CreateStep(n, t)
      PROVE  LoopOnly(creator'[n], syncer'[n], adding'[n])
  <2>1. t = bg /\ syncer[n].phase = "idle"
    BY <1>5, TaskAtWork
  <2>2. UNCHANGED <<syncer, adding>> /\ \E c : SetCreator(n, t, c)
    BY <1>5 DEF CreateStep, CheckProducer, CollectPending, BeginTx, ReadTip, ReadNumber, CommitBlock,
       BlockNumberTaken, CreateFails, ApplyCreated, requests
  <2>3. \A e \in Event : creator'[n][e] = creator[n][e]
    BY <1>1, <2>1, <2>2 DEF SetCreator
  <2>. QED BY <1>1, <2>1, <2>2, <2>3 DEF LoopOnly
<1>6. CASE SyncStep(n)
  <2>1. creator[n][bg].phase = "idle"
    BY <1>6, SyncAtWork
  <2>2. CASE EndRound(n)
    <3>1. syncer'[n].phase = "idle" /\ UNCHANGED adding
      BY <1>1, <2>2 DEF EndRound, SetSyncer, NoSyncer, SyncerAt, requests
    <3>2. \A e \in Event : creator'[n][e] = creator[n][e]
      BY <1>1, <2>2 DEF EndRound, SetCreator
    <3>. QED BY <1>1, <3>1, <3>2 DEF LoopOnly
  <2>3. CASE UNCHANGED <<creator, adding>>
    BY <1>1, <2>1, <2>3 DEF LoopOnly
  <2>. QED BY <1>6, <2>2, <2>3 DEF SyncStep, BeginRound, FetchBlocks, FetchFails, LoadLocal, ScanBlock,
       ScanDone, InsertSynced, SyncNumberTaken, SyncFails, CleanupPending, DeleteEvents, DeleteBlocks,
       CommitTruncate, ReplayProjections, AdoptBlock, AdoptDone, requests
<1>7. CASE Crash(n)
  BY <1>1, <1>7 DEF Crash, LoopOnly, NoSyncer, SyncerAt, NoCreator, CreatorAt
<1>8. ASSUME NEW m \in Node, Gossip(m) \/ \E p \in Node, up \in BOOLEAN : AddPeer(m, p, up)
      PROVE  UNCHANGED <<creator, syncer, adding>>
  BY <1>8 DEF Gossip, GossipLost, GossipCheck, GossipInsert, AddPeer, requests
<1>9. UNCHANGED vars => UNCHANGED <<creator, syncer, adding>>
  BY DEF vars, requests
<1>. QED BY <1>2, <1>3, <1>4, <1>5, <1>6, <1>7, <1>8, <1>9 DEF Next

LEMMA LoopInvariant == Spec => []LoopInv
BY InitLoop, NextLoop, TypeInvariant, PTL DEF Spec

-----------------------------------------------------------------------------
\* The part of RecordInv about one node.
Recorded(B, E, c, s) ==
    /\ E \subseteq Events(B)
    /\ Deletes(B, E, s)
    /\ c.rows \subseteq c.batch

\* Synchronisation states in no deletion.
LEMMA NoDeletes ==
    ASSUME NEW s, s.phase \notin {"deleteBlocks", "commitDelete"}
    PROVE  \A B, E : Deletes(B, E, s)
BY DEF Deletes

\* The loop's task: what it has inserted is part of what it puts in its block.
LEMMA CreateStepRecord ==
    ASSUME TypeInv, LoopInv, RecordInv, NEW n \in Observer, NEW t \in Task, CreateStep(n, t)
    PROVE  Recorded(blocks'[n], events'[n], creator'[n][bg], syncer'[n])
<1>1. /\ t = bg /\ n \in Node /\ bg \in Task /\ syncer[n].phase = "idle"
      /\ creator \in [Node -> [Task -> Creator]] /\ creator[n][bg] \in Creator
      /\ blocks \in [Node -> SUBSET Block] /\ events \in [Node -> SUBSET Event]
      /\ Recorded(blocks[n], events[n], creator[n][bg], syncer[n])
  <2>1. t = bg /\ syncer[n].phase = "idle"
    BY TaskAtWork
  <2>2. n \in Node /\ bg \in Task /\ Recorded(blocks[n], events[n], creator[n][bg], syncer[n])
    BY ObserverNode DEF RecordInv, Recorded, Task
  <2>. QED BY <2>1, <2>2 DEF TypeInv, TypeOK
<1>2. \A B, E : Deletes(B, E, syncer[n])
  BY <1>1, NoDeletes
<1>3. \A c : SetCreator(n, t, c) => creator'[n][bg] = c
  BY <1>1 DEF SetCreator
<1>4. NoCreator.rows = {} /\ \A phase, batch : CreatorAt(phase, batch).rows = {}
  BY DEF NoCreator, CreatorAt
<1>5. ASSUME NEW s \in Stamp, CommitBlock(n, t, s)
      PROVE  Recorded(blocks'[n], events'[n], creator'[n][bg], syncer'[n])
  <2>. DEFINE c == creator[n][bg]
             b == NewBlock(c.number, s, c.prev, c.batch)
  <2>1. /\ blocks'[n] = blocks[n] \cup {b} /\ events'[n] = events[n] \cup c.rows
        /\ creator'[n][bg] = [c EXCEPT !.phase = "apply"] /\ UNCHANGED syncer
    BY <1>1, <1>3, <1>5 DEF CommitBlock
  <2>2. b.events = c.batch /\ c.rows \subseteq c.batch
    BY <1>1 DEF NewBlock, Recorded
  <2>3. creator'[n][bg].rows = c.rows /\ creator'[n][bg].batch = c.batch
    BY <1>1, <2>1 DEF Creator
  <2>. HIDE DEF b, c
  <2>4. events'[n] \subseteq Events(blocks'[n])
    BY <1>1, <2>1, <2>2 DEF Events, Recorded
  <2>. QED BY <1>2, <2>1, <2>2, <2>3, <2>4 DEF Recorded
<1>6. CASE ReadTip(n, t) \/ ReadNumber(n, t)
  <2>. DEFINE c == creator[n][bg]
             r == [c EXCEPT !.phase = "tip", !.rows = c.batch \ events[n], !.prev = TipHash(blocks[n])]
             k == [c EXCEPT !.phase = "number", !.number = Tip(blocks[n]) + 1]
  <2>1. r.rows \subseteq r.batch /\ k.rows \subseteq k.batch
    BY <1>1 DEF Creator, Recorded
  <2>2. creator'[n][bg] = r \/ creator'[n][bg] = k
    BY <1>1, <1>3, <1>6 DEF ReadTip, ReadNumber
  <2>3. UNCHANGED <<blocks, events, syncer>>
    BY <1>6 DEF ReadTip, ReadNumber, tables
  <2>. HIDE DEF r, k
  <2>. QED BY <1>1, <2>1, <2>2, <2>3 DEF Recorded
<1>7. ASSUME \/ \E next \in {1, Tip(blocks[n]) + 1} : CheckProducer(n, t, next)
             \/ \E reached \in SUBSET Node, confirmed \in {{}, events[n]} :
                   CollectPending(n, t, reached, confirmed)
             \/ BeginTx(n, t) \/ BlockNumberTaken(n, t) \/ CreateFails(n, t) \/ ApplyCreated(n, t)
      PROVE  Recorded(blocks'[n], events'[n], creator'[n][bg], syncer'[n])
  <2>1. \E c : SetCreator(n, t, c) /\ c.rows = {}
    BY <1>4, <1>7 DEF CheckProducer, CollectPending, BeginTx, BlockNumberTaken, CreateFails, ApplyCreated
  <2>2. creator'[n][bg].rows = {}
    BY <1>3, <2>1
  <2>3. UNCHANGED <<blocks, events, syncer>>
    BY <1>7 DEF CheckProducer, CollectPending, BeginTx, BlockNumberTaken, CreateFails, ApplyCreated, tables
  <2>. QED BY <1>1, <2>2, <2>3 DEF Recorded
<1>. QED BY <1>5, <1>6, <1>7 DEF CreateStep

\* The synchronisation.
LEMMA SyncStepRecord ==
    ASSUME TypeInv, ConfirmInv, LoopInv, RecordInv, NEW n \in Observer, SyncStep(n)
    PROVE  Recorded(blocks'[n], events'[n], creator'[n][bg], syncer'[n])
<1>. DEFINE Goal == Recorded(blocks'[n], events'[n], creator'[n][bg], syncer'[n])
<1>1. /\ n \in Node /\ bg \in Task
      /\ creator \in [Node -> [Task -> Creator]]
      /\ syncer \in [Node -> Syncer] /\ syncer[n] \in Syncer
      /\ blocks \in [Node -> SUBSET Block] /\ events \in [Node -> SUBSET Event]
      /\ SyncOK(blocks[n], syncer[n])
      /\ Recorded(blocks[n], events[n], creator[n][bg], syncer[n])
  BY ObserverNode DEF RecordInv, Recorded, ConfirmInv, TypeInv, TypeOK, Task
<1>2. creator'[n][bg].rows \subseteq creator'[n][bg].batch
  <2>1. creator' = creator \/ SetCreator(n, bg, CreatorAt("start", {}))
    BY DEF SyncStep, BeginRound, EndRound, FetchBlocks, FetchFails, LoadLocal, ScanBlock,
       ScanDone, InsertSynced, SyncNumberTaken, SyncFails, CleanupPending, DeleteEvents, DeleteBlocks,
       CommitTruncate, ReplayProjections, AdoptBlock, AdoptDone
  <2>. QED BY <1>1, <2>1 DEF SetCreator, CreatorAt, Recorded
<1>3. \A s : SetSyncer(n, s) => syncer'[n] = s
  BY <1>1 DEF SetSyncer
<1>4. ASSUME NEW b \in syncer[n].rest, DeleteEvents(n, b) PROVE Goal
  <2>. DEFINE s == [syncer[n] EXCEPT !.phase = "deleteBlocks",
                       !.gone = Events(From(blocks[n], b)) \cap events[n]]
  <2>1. syncer'[n] = s /\ UNCHANGED <<blocks, events>> /\ b \in Working(syncer[n])
    BY <1>3, <1>4, CurrentWorking DEF DeleteEvents, tables
  <2>2. syncer[n].phase = "truncate"
    BY <1>4 DEF DeleteEvents
  <2>3. Working(s) = {b}
    <3>1. Working(s) = Working(syncer[n])
      BY <1>1, <2>2 DEF Working, Syncer
    <3>. QED BY <1>1, <2>1, <3>1, WorkingIsOne
  <2>4. /\ s.phase = "deleteBlocks" /\ s.gone = Events(From(blocks[n], b)) \cap events[n]
    BY <1>1 DEF Syncer
  <2>. HIDE DEF s
  <2>5. Deletes(blocks[n], events[n], s)
    BY <2>3, <2>4 DEF Deletes
  <2>. QED BY <1>1, <1>2, <2>1, <2>5 DEF Recorded
<1>5. ASSUME NEW b \in syncer[n].rest, DeleteBlocks(n, b) PROVE Goal
  <2>. DEFINE s == [syncer[n] EXCEPT !.phase = "commitDelete", !.deleted = From(blocks[n], b)]
  <2>1. syncer'[n] = s /\ UNCHANGED <<blocks, events>> /\ b \in Working(syncer[n])
    BY <1>3, <1>5, CurrentWorking DEF DeleteBlocks, tables
  <2>2. syncer[n].phase = "deleteBlocks"
    BY <1>5 DEF DeleteBlocks
  <2>3. Working(s) = {b}
    <3>1. Working(s) = Working(syncer[n])
      BY <1>1, <2>2 DEF Working, Syncer
    <3>. QED BY <1>1, <2>1, <3>1, WorkingIsOne
  <2>4. /\ s.phase = "commitDelete" /\ s.gone = syncer[n].gone /\ s.deleted = From(blocks[n], b)
    BY <1>1 DEF Syncer
  <2>5. s.gone = Events(From(blocks[n], b)) \cap events[n]
    BY <1>1, <2>1, <2>2, <2>4 DEF Recorded, Deletes
  <2>. HIDE DEF s
  <2>6. Deletes(blocks[n], events[n], s)
    BY <2>3, <2>4, <2>5 DEF Deletes
  <2>. QED BY <1>1, <1>2, <2>1, <2>6 DEF Recorded
<1>6. ASSUME NEW b \in syncer[n].rest, CommitTruncate(n, b) PROVE Goal
  <2>1. /\ blocks'[n] = blocks[n] \ syncer[n].deleted /\ events'[n] = events[n] \ syncer[n].gone
        /\ syncer[n].phase = "commitDelete" /\ b \in Working(syncer[n])
        /\ syncer'[n].phase = "replay"
    BY <1>1, <1>3, <1>6, CurrentWorking DEF CommitTruncate, Syncer
  <2>2. syncer[n].deleted = From(blocks[n], b) /\ syncer[n].gone = Events(From(blocks[n], b)) \cap events[n]
    BY <1>1, <2>1 DEF Recorded, Deletes
  <2>3. events'[n] \subseteq Events(blocks'[n])
    BY <1>1, <2>1, <2>2 DEF Events, Recorded
  <2>. QED BY <1>2, <2>1, <2>3, NoDeletes DEF Recorded
<1>7. ASSUME NEW b \in syncer[n].rest \cup syncer[n].suffix, InsertSynced(n, b) PROVE Goal
  <2>1. /\ blocks'[n] = blocks[n] \cup {b} /\ events'[n] = events[n] \cup b.events
        /\ syncer'[n].phase \in {"cleanup", "adoptCleanup"}
    BY <1>1, <1>3, <1>7 DEF InsertSynced, Syncer
  <2>2. events'[n] \subseteq Events(blocks'[n])
    BY <1>1, <2>1 DEF Events, Recorded
  <2>. QED BY <1>2, <2>1, <2>2, NoDeletes DEF Recorded
<1>8. ASSUME UNCHANGED <<blocks, events>>,
             \E s : SetSyncer(n, s) /\ s.phase \notin {"deleteBlocks", "commitDelete"}
      PROVE  Goal
  <2>1. syncer'[n].phase \notin {"deleteBlocks", "commitDelete"}
    BY <1>3, <1>8
  <2>. QED BY <1>1, <1>2, <1>8, <2>1, NoDeletes DEF Recorded
<1>9. /\ NoSyncer.phase = "idle" /\ NextPeer(n).phase = "peers"
      /\ \A phase, registry, todo : SyncerAt(phase, registry, todo).phase = phase
      /\ \A b : NextBlock(n, b).phase = "scan"
  BY <1>1 DEF NoSyncer, NextPeer, SyncerAt, NextBlock, Syncer
<1>10. CASE BeginRound(n) \/ EndRound(n) \/ ScanDone(n) \/ AdoptDone(n)
            \/ \E p \in syncer[n].todo : FetchFails(n, p)
  BY <1>8, <1>9, <1>10 DEF BeginRound, EndRound, ScanDone, AdoptDone, FetchFails, tables
<1>11. ASSUME NEW p \in syncer[n].todo, NEW reply \in Replies(p), FetchBlocks(n, p, reply) PROVE Goal
  <2>1. [SyncerAt("fetched", syncer[n].alive, syncer[n].todo \ {p}) EXCEPT !.reply = reply].phase = "fetched"
    BY DEF SyncerAt
  <2>. QED BY <1>8, <1>11, <2>1 DEF FetchBlocks, tables
<1>12. ASSUME NEW local \in {{}, blocks[n]}, LoadLocal(n, local) PROVE Goal
  <2>1. [syncer[n] EXCEPT !.phase = "scan", !.local = local, !.rest = syncer[n].reply].phase = "scan"
    BY <1>1 DEF Syncer
  <2>. QED BY <1>8, <1>12, <2>1 DEF LoadLocal, tables
<1>13. ASSUME NEW b \in syncer[n].rest, NEW class \in SyncBlockAction, ScanBlock(n, b, class) PROVE Goal
  <2>1. /\ [syncer[n] EXCEPT !.phase = "insert"].phase = "insert"
        /\ [syncer[n] EXCEPT !.phase = "truncate"].phase = "truncate"
    BY <1>1 DEF Syncer
  <2>. QED BY <1>8, <1>9, <1>13, <2>1 DEF ScanBlock, tables
<1>14. ASSUME NEW b \in syncer[n].rest, ReplayProjections(n, b) PROVE Goal
  <2>1. [syncer[n] EXCEPT !.phase = "adopt", !.suffix = From(syncer[n].reply, b)].phase = "adopt"
    BY <1>1 DEF Syncer
  <2>. QED BY <1>8, <1>14, <2>1 DEF ReplayProjections, tables
<1>15. CASE SyncFails(n) \/ \E b \in syncer[n].rest \cup syncer[n].suffix : SyncNumberTaken(n, b)
  BY <1>8, <1>9, <1>15 DEF SyncFails, SyncNumberTaken, AdoptError, tables
<1>16. ASSUME NEW b \in syncer[n].rest \cup syncer[n].suffix, NEW gone \in SUBSET b.events,
              CleanupPending(n, b, gone)
       PROVE  Goal
  <2>1. [syncer[n] EXCEPT !.phase = "adopt", !.suffix = @ \ {b}].phase = "adopt"
    BY <1>1 DEF Syncer
  <2>. QED BY <1>8, <1>9, <1>16, <2>1 DEF CleanupPending
<1>17. ASSUME NEW b \in syncer[n].suffix, NEW class \in SyncBlockAction, AdoptBlock(n, b, class) PROVE Goal
  <2>1. /\ [syncer[n] EXCEPT !.phase = "adoptInsert"].phase = "adoptInsert"
        /\ [syncer[n] EXCEPT !.suffix = @ \ {b}].phase = syncer[n].phase
        /\ syncer[n].phase = "adopt"
    BY <1>1, <1>17 DEF AdoptBlock, Syncer
  <2>. QED BY <1>8, <1>9, <1>17, <2>1 DEF AdoptBlock, AdoptError, tables
<1>. QED BY <1>4, <1>5, <1>6, <1>7, <1>10, <1>11, <1>12, <1>13, <1>14, <1>15, <1>16, <1>17 DEF SyncStep

LEMMA InitRecord == Init => RecordInv
<1>. SUFFICES ASSUME Init, NEW n \in Observer
             PROVE  /\ events[n] \subseteq Events(blocks[n])
                    /\ Deletes(blocks[n], events[n], syncer[n])
                    /\ creator[n][bg].rows \subseteq creator[n][bg].batch
  BY DEF RecordInv
<1>1. events[n] = {} /\ syncer[n].phase = "idle" /\ creator[n][bg].rows = {}
  BY ObserverNode DEF Init, NoSyncer, SyncerAt, NoCreator, CreatorAt, Task
<1>. QED BY <1>1, NoDeletes

LEMMA NextRecord == TypeInv /\ ConfirmInv /\ LoopInv /\ RecordInv /\ [Next]_vars => RecordInv'
<1>. SUFFICES ASSUME TypeInv, ConfirmInv, LoopInv, RecordInv, [Next]_vars, NEW n \in Observer
             PROVE  Recorded(blocks'[n], events'[n], creator'[n][bg], syncer'[n])
  BY DEF RecordInv, Recorded, Observer
<1>1. n \in Node /\ Recorded(blocks[n], events[n], creator[n][bg], syncer[n])
  BY ObserverNode DEF RecordInv, Recorded
<1>2. CASE UNCHANGED <<blocks, events, creator, syncer>>
  BY <1>1, <1>2
<1>3. ASSUME NEW m \in Node, m # n,
             Client(m) \/ (\E t \in Task : CreateStep(m, t)) \/ SyncStep(m) \/ Crash(m)
      PROVE  Recorded(blocks'[n], events'[n], creator'[n][bg], syncer'[n])
  BY <1>1, <1>3, OthersLeftAlone
<1>4. ~Client(n)
  <2>1. adding[n] = {}
    BY DEF LoopInv, LoopOnly
  <2>. QED BY <2>1 DEF Client, AddEventValidate, AddEventInsert, Observer
<1>5. CASE Crash(n)
  <2>1. /\ blocks'[n] = blocks[n] /\ events'[n] = events[n] /\ syncer'[n].phase = "idle"
        /\ creator'[n][bg].rows = {}
    BY <1>1, <1>5 DEF Crash, tables, NoSyncer, SyncerAt, NoCreator, CreatorAt, TypeInv, TypeOK, Task
  <2>. QED BY <1>1, <2>1, NoDeletes DEF Recorded
<1>6. ASSUME NEW m \in Node, Gossip(m) \/ \E p \in Node, up \in BOOLEAN : AddPeer(m, p, up)
      PROVE  UNCHANGED <<blocks, events, creator, syncer>>
  BY <1>6 DEF Gossip, GossipLost, GossipCheck, GossipInsert, AddPeer, tables, requests
<1>7. UNCHANGED vars => UNCHANGED <<blocks, events, creator, syncer>>
  BY DEF vars, tables, requests
<1>. QED BY <1>2, <1>3, <1>4, <1>5, <1>6, <1>7, CreateStepRecord, SyncStepRecord DEF Next

LEMMA RecordInvariant == Spec => []RecordInv
BY InitRecord, NextRecord, TypeInvariant, ConfirmInvariant, LoopInvariant, PTL DEF Spec

(* On a node without spawned tasks an event is confirmed only as part of a  *)
(* block of the chain, also between and after the statements with which     *)
(* truncate_chain_from removes blocks.                                      *)
THEOREM ConfirmedEventsInChain == Spec => []ConfirmedInChain
<1>1. RecordInv => ConfirmedInChain
  BY DEF RecordInv, ConfirmedInChain
<1>. QED BY <1>1, RecordInvariant, PTL
=============================================================================
