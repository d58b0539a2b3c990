----------------------------- MODULE LinkProofs ------------------------------
(***************************************************************************)
(* Proofs about what the background loops make of the chains.              *)
(*                                                                         *)
(* ObserverLinked and PrefixAgreement: on a node that runs no spawned      *)
(* production task the loop is the only writer of `blocks`, and either it  *)
(* synchronises or it produces: what one of the two has read of the tip is *)
(* still true when it inserts a block.  A read that fails and is replaced  *)
(* by a default lets in a block that claims to be a first one.  A peer     *)
(* with spawned tasks can serve such a block at any height, so the         *)
(* theorems ask that there are no such reads, or no such peers.            *)
(*                                                                         *)
(* NoEventTwice and HealReplacesFork ask that no node spawns a task: the   *)
(* hash of a block holds all the chain below it, and a copy of the table   *)
(* is decided upon before anything else writes the table.                  *)
(*                                                                         *)
(* ImplementsLog asks that registries agree as well: whose turn a number   *)
(* is decides what is in the block, so that no chain ever forks.           *)
(***************************************************************************)
EXTENDS QuazarNodeProofs, LoopNetwork, FiniteSetTheorems

ReadsOrPeers == ~BlindReads \/ Requests = {}

\* Block b is on top of table B, or its number is taken there.
Fits(b, B) == b.number \in Numbers(B) \/ (b.number = Tip(B) + 1 /\ b.prev = TipHash(B))

TipKnown(B, c) ==
    /\ c.phase \in {"tip", "number"} => c.prev = TipHash(B)
    /\ c.phase = "number" => c.number = Tip(B) + 1

SyncFits(B, s) ==
    /\ s.phase \in {"insert", "adoptInsert"} => \A b \in Working(s) : Fits(b, B)
    /\ Requests = {} => \A b \in s.reply : b.prev = Genesis => b.number = 1

NodeLinked(B, C, s, A) ==
    /\ Linked(B)
    /\ LoopOnly(C, s, A)
    /\ TipKnown(B, C[bg])
    /\ SyncFits(B, s)

LinkInv == \A n \in Observer : NodeLinked(blocks[n], creator[n], syncer[n], adding[n])

Inv == TypeInv /\ ConfirmInv /\ RecordInv /\ LinkInv

-----------------------------------------------------------------------------
LEMMA LinkedLoop == LinkInv => LoopInv
BY DEF LinkInv, NodeLinked, LoopInv

\* A step that leaves a node's tables, tasks, synchronisation and requests alone.
LEMMA StillLinked ==
    ASSUME NEW n, NodeLinked(blocks[n], creator[n], syncer[n], adding[n]),
           blocks'[n] = blocks[n], creator'[n] = creator[n], syncer'[n] = syncer[n],
           adding'[n] = adding[n]
    PROVE  NodeLinked(blocks'[n], creator'[n], syncer'[n], adding'[n])
OBVIOUS

\* A step of the loop's task that leaves the table alone.
LEMMA TaskWrite ==
    ASSUME Inv, NEW n \in Observer, NEW t \in Task, NEW c,
           creator[n][t].phase # "idle", SetCreator(n, t, c), TipKnown(blocks[n], c),
           UNCHANGED <<blocks, syncer, adding>>
    PROVE  NodeLinked(blocks'[n], creator'[n], syncer'[n], adding'[n])
<1>1. t = bg /\ syncer[n].phase = "idle"  BY LoopTask, LinkedLoop DEF Inv
<1>2. n \in Node /\ creator \in [Node -> [Task -> Creator]] /\ bg \in Task
      BY ObserverNode DEF Inv, TypeInv, TypeOK, Task
<1>3. creator'[n] = [creator[n] EXCEPT ![bg] = c]  BY <1>1, <1>2 DEF SetCreator
<1>4. creator'[n][bg] = c /\ \A e \in Event : creator'[n][e].phase = "idle"
      BY <1>2, <1>3, NetworkAssumption DEF Inv, LinkInv, NodeLinked, LoopOnly, Task
<1> QED  BY <1>1, <1>4 DEF Inv, LinkInv, NodeLinked, LoopOnly

\* A step that only writes the synchronisation, of a node whose task is idle.
LEMMA LoopWrite ==
    ASSUME Inv, NEW n \in Observer, NEW s, SetSyncer(n, s), SyncFits(blocks[n], s),
           creator[n][bg].phase = "idle", UNCHANGED <<blocks, creator, adding>>
    PROVE  NodeLinked(blocks'[n], creator'[n], syncer'[n], adding'[n])
<1>1. syncer'[n] = s
      BY ObserverNode DEF SetSyncer, Inv, TypeInv, TypeOK
<1> QED  BY <1>1 DEF Inv, LinkInv, NodeLinked, LoopOnly

\* Synchronisation states that await no insertion and hold no blocks, or old ones.
LEMMA FreshFits ==
    /\ \A B : SyncFits(B, NoSyncer)
    /\ \A B, phase, registry, todo : SyncFits(B, SyncerAt(phase, registry, todo))
BY DEF SyncFits, NoSyncer, SyncerAt, Working

LEMMA OldReplyFits ==
    ASSUME NEW B, NEW s, NEW r, SyncFits(B, s), r.reply = s.reply,
           r.phase \notin {"insert", "adoptInsert"}
    PROVE  \A C : SyncFits(C, r)
BY DEF SyncFits

LEMMA NextBlockFits ==
    ASSUME Inv, NEW n \in Observer, NEW b
    PROVE  \A C : SyncFits(C, NextBlock(n, b))
<1>1. syncer[n] \in Syncer  BY ObserverNode DEF Inv, TypeInv, TypeOK
<1>2. NextBlock(n, b).reply = syncer[n].reply /\ NextBlock(n, b).phase = "scan"
      BY <1>1 DEF NextBlock, Syncer
<1>3. SyncFits(blocks[n], syncer[n])  BY DEF Inv, LinkInv, NodeLinked
<1> QED  BY <1>2, <1>3, OldReplyFits

\* A block classified Insert is one that goes on top, or that cannot go in.
LEMMA InsertFits ==
    ASSUME ReadsOrPeers, Inv, NEW n \in Observer, NEW b \in syncer[n].reply,
           "insert" \in Classes(n, b)
    PROVE  Fits(b, blocks[n])
<1>1. /\ blocks[n] \in SUBSET Block /\ Bounded(blocks[n]) /\ Linked(blocks[n])
      /\ SyncFits(blocks[n], syncer[n])
      BY ObserverNode DEF Inv, TypeInv, TypeOK, LinkInv, NodeLinked
<1>2. CASE classify_block(b, blocks[n]) = "insert"
  BY <1>2 DEF classify_block, Fits
<1>3. CASE BlindReads /\ b.prev = Genesis
  <2>1. b.number = 1  BY <1>1, <1>3 DEF ReadsOrPeers, SyncFits
  <2>2. CASE blocks[n] = {}
    BY <1>1, <1>3, <2>1, <2>2, LinkedFacts DEF Fits, TipHash
  <2>3. CASE blocks[n] # {}
    <3>1. Tip(blocks[n]) \in Nat /\ Tip(blocks[n]) \in Numbers(blocks[n])
          /\ Numbers(blocks[n]) = 1 .. Tip(blocks[n])
          BY <1>1, <2>3, LinkedFacts
    <3> QED  BY <2>1, <3>1 DEF Fits
  <2> QED  BY <2>2, <2>3
<1> QED  BY <1>2, <1>3 DEF Classes

-----------------------------------------------------------------------------
(* The steps of a node's own tasks and of its synchronisation.              *)
LEMMA CreateStepLinked ==
    ASSUME Inv, NEW n \in Observer, NEW t \in Task, CreateStep(n, t)
    PROVE  NodeLinked(blocks'[n], creator'[n], syncer'[n], adding'[n])
<1>1. /\ n \in Node
      /\ creator \in [Node -> [Task -> Creator]]
      /\ creator[n][t] \in Creator
      /\ blocks \in [Node -> SUBSET Block] /\ blocks[n] \in SUBSET Block
      /\ Bounded(blocks[n]) /\ Linked(blocks[n])
      BY ObserverNode DEF Inv, TypeInv, TypeOK, LinkInv, NodeLinked
<1>2. creator[n][t].phase # "idle"
      BY DEF CreateStep, CheckProducer, CollectPending, BeginTx, ReadTip, ReadNumber, CommitBlock,
             BlockNumberTaken, CreateFails, ApplyCreated, InTx
<1>3. t = bg /\ syncer[n].phase = "idle" /\ TipKnown(blocks[n], creator[n][t])
      BY <1>2, LoopTask, LinkedLoop DEF Inv, LinkInv, NodeLinked
<1>4. TipKnown(blocks[n], NoCreator)  BY DEF TipKnown, NoCreator, CreatorAt
<1>5. \A next : CheckProducer(n, t, next)
                => NodeLinked(blocks'[n], creator'[n], syncer'[n], adding'[n])
  <2>1. TipKnown(blocks[n], CreatorAt("collect", {}))  BY DEF TipKnown, CreatorAt
  <2> QED  BY <1>2, <1>4, <2>1, TaskWrite DEF CheckProducer, tables, requests
<1>6. \A reached, confirmed : CollectPending(n, t, reached, confirmed)
                => NodeLinked(blocks'[n], creator'[n], syncer'[n], adding'[n])
  <2>1. \A batch : TipKnown(blocks[n], CreatorAt("gated", batch))
        BY DEF TipKnown, CreatorAt
  <2> QED  BY <1>2, <1>4, <2>1, TaskWrite DEF CollectPending, tables, requests
<1>7. CASE BeginTx(n, t)
  <2>1. \A batch : TipKnown(blocks[n], CreatorAt("filtered", batch))
        BY DEF TipKnown, CreatorAt
  <2> QED  BY <1>2, <1>4, <1>7, <2>1, TaskWrite DEF BeginTx, tables, requests
<1>8. CASE ReadTip(n, t)
  <2> DEFINE c == [creator[n][t] EXCEPT !.phase = "tip", !.rows = creator[n][t].batch \ events[n],
                                         !.prev = TipHash(blocks[n])]
  <2>1. TipKnown(blocks[n], c)  BY <1>1 DEF TipKnown, Creator
  <2> QED  BY <1>2, <1>8, <2>1, TaskWrite DEF ReadTip, tables, requests
<1>9. CASE ReadNumber(n, t)
  <2> DEFINE c == [creator[n][t] EXCEPT !.phase = "number", !.number = Tip(blocks[n]) + 1]
  <2>1. TipKnown(blocks[n], c)  BY <1>1, <1>3, <1>9 DEF TipKnown, Creator, ReadNumber
  <2> QED  BY <1>2, <1>9, <2>1, TaskWrite DEF ReadNumber, tables, requests
<1>10. ASSUME NEW s \in Stamp, CommitBlock(n, t, s)
       PROVE  NodeLinked(blocks'[n], creator'[n], syncer'[n], adding'[n])
  <2> DEFINE c == creator[n][t]
             b == NewBlock(c.number, s, c.prev, c.batch)
             B == blocks[n] \cup {b}
  <2>1. /\ c.phase = "number"
        /\ blocks' = [blocks EXCEPT ![n] = B]
        /\ creator' = [creator EXCEPT ![n][t] = [c EXCEPT !.phase = "apply"]]
        /\ UNCHANGED <<syncer, adding>>
        BY <1>10 DEF CommitBlock, SetCreator, requests
  <2>2. c.prev = TipHash(blocks[n]) /\ c.number = Tip(blocks[n]) + 1
        BY <1>3, <2>1 DEF TipKnown
  <2>3. b \in Block /\ HashOK(b) /\ b.number = c.number /\ b.prev = c.prev
        BY <1>1, NewBlockType DEF NewBlock, Creator
  <2>4. Linked(B)
    <3> HIDE DEF b, c
    <3> QED  BY <1>1, <2>2, <2>3, LinkedAppend
  <2>5. blocks'[n] = B  BY <1>1, <2>1
  <2>6. creator'[n][bg].phase = "apply"
        BY <1>1, <1>3, <2>1 DEF Creator
  <2>7. \A e \in Event : creator'[n][e].phase = "idle"
        BY <1>1, <1>3, <2>1, NetworkAssumption DEF Inv, LinkInv, NodeLinked, LoopOnly, Task
  <2>8. SyncFits(B, syncer[n])
        BY <1>3 DEF Inv, LinkInv, NodeLinked, SyncFits
  <2>9. TipKnown(B, creator'[n][bg])  BY <2>6 DEF TipKnown
  <2> HIDE DEF B
  <2> QED  BY <1>3, <2>1, <2>4, <2>5, <2>7, <2>8, <2>9 DEF NodeLinked, LoopOnly, Inv, LinkInv
<1>11. CASE BlockNumberTaken(n, t) \/ CreateFails(n, t)
  BY <1>2, <1>4, <1>11, TaskWrite DEF BlockNumberTaken, CreateFails, tables, requests
<1>12. CASE ApplyCreated(n, t)
  BY <1>2, <1>4, <1>12, TaskWrite DEF ApplyCreated, tables, requests
<1> QED
  BY <1>5, <1>6, <1>7, <1>8, <1>9, <1>10, <1>11, <1>12 DEF CreateStep

\* Under Requests = {} every block list served has its first block only at number 1.
LEMMA RepliesFirst ==
    ASSUME Inv, Requests = {}, NEW p \in Node, NEW reply \in Replies(p), NEW b \in reply,
           b.prev = Genesis
    PROVE  b.number = 1
<1>1. p \in Observer  BY DEF Observer
<1>2. blocks[p] \in SUBSET Block /\ Bounded(blocks[p]) /\ Linked(blocks[p])
      BY <1>1 DEF Inv, TypeInv, TypeOK, LinkInv, NodeLinked
<1>3. \E c \in blocks[p] : b.prev = c.prev /\ b.number = c.number
  <2>1. \A c \in blocks[p] : \A E : [c EXCEPT !.events = E].prev = c.prev
                             /\ [c EXCEPT !.events = E].number = c.number
        BY <1>2 DEF Block
  <2>2. CASE b \in blocks[p]
    BY <2>2
  <2>3. CASE b \notin blocks[p]
    <3>1. PICK c \in blocks[p], E \in SUBSET Event : b = [c EXCEPT !.events = E]
          BY <2>3 DEF Replies
    <3> QED  BY <2>1, <3>1
  <2> QED  BY <2>2, <2>3
<1> QED  BY <1>2, <1>3, GenesisIsFirst

LEMMA SyncStepLinked ==
    ASSUME ReadsOrPeers, Inv, NEW n \in Observer, SyncStep(n)
    PROVE  NodeLinked(blocks'[n], creator'[n], syncer'[n], adding'[n])
<1> DEFINE Goal == NodeLinked(blocks'[n], creator'[n], syncer'[n], adding'[n])
<1>1. /\ n \in Node
      /\ syncer \in [Node -> Syncer]
      /\ syncer[n] \in Syncer
      /\ blocks \in [Node -> SUBSET Block]
      /\ blocks[n] \in SUBSET Block
      /\ Bounded(blocks[n])
      /\ NodeLinked(blocks[n], creator[n], syncer[n], adding[n])
      /\ SyncOK(blocks[n], syncer[n]) /\ Deletes(blocks[n], events[n], syncer[n])
      BY ObserverNode DEF Inv, TypeInv, TypeOK, LinkInv, ConfirmInv, RecordInv
<1>2. Linked(blocks[n]) /\ SyncFits(blocks[n], syncer[n])  BY <1>1 DEF NodeLinked
<1>3. syncer[n].phase # "idle" => creator[n][bg].phase = "idle"
      BY <1>1 DEF NodeLinked, LoopOnly
<1>4. CASE BeginRound(n)
  BY <1>4, FreshFits, LoopWrite DEF BeginRound, tables, requests
<1>5. CASE EndRound(n)
  <2>1. syncer'[n] = NoSyncer /\ UNCHANGED <<blocks, adding>>
        BY <1>1, <1>5 DEF EndRound, SetSyncer, tables, requests
  <2>2. creator'[n][bg].phase \in {"start", "idle"} /\ \A e \in Event : creator'[n][e] = creator[n][e]
    <3>1. creator \in [Node -> [Task -> Creator]] /\ bg \in Task /\ bg \notin Event
          BY NetworkAssumption DEF Inv, TypeInv, TypeOK, Task
    <3>2. creator[n][bg].phase = "idle"  BY <1>3, <1>5 DEF EndRound
    <3> QED  BY <1>1, <1>5, <3>1, <3>2 DEF EndRound, SetCreator, CreatorAt, Task
  <2>3. TipKnown(blocks[n], creator'[n][bg])  BY <2>2 DEF TipKnown
  <2> QED  BY <1>1, <2>1, <2>2, <2>3, FreshFits DEF NodeLinked, LoopOnly, NoSyncer, SyncerAt
<1>6. ASSUME NEW p \in syncer[n].todo, NEW reply \in Replies(p), FetchBlocks(n, p, reply)
      PROVE  Goal
  <2> DEFINE s == [SyncerAt("fetched", syncer[n].alive, syncer[n].todo \ {p}) EXCEPT !.reply = reply]
  <2>1. p \in Node  BY <1>1 DEF Syncer
  <2>2. s.reply = reply /\ s.phase = "fetched"  BY DEF SyncerAt
  <2>3. SyncFits(blocks[n], s)  BY <2>1, <2>2, RepliesFirst DEF SyncFits
  <2> QED  BY <1>3, <1>6, <2>3, LoopWrite DEF FetchBlocks, tables, requests
<1>7. ASSUME NEW p \in syncer[n].todo, FetchFails(n, p) PROVE Goal
  BY <1>3, <1>7, FreshFits, LoopWrite DEF FetchFails, tables, requests
<1>8. ASSUME NEW local \in {{}, blocks[n]}, LoadLocal(n, local) PROVE Goal
  <2> DEFINE s == [syncer[n] EXCEPT !.phase = "scan", !.local = local, !.rest = syncer[n].reply]
  <2>1. s.reply = syncer[n].reply /\ s.phase = "scan"  BY <1>1 DEF Syncer
  <2>2. SyncFits(blocks[n], s)  BY <1>2, <2>1, OldReplyFits
  <2> QED  BY <1>3, <1>8, <2>2, LoopWrite DEF LoadLocal, tables, requests
<1>9. ASSUME NEW b \in syncer[n].rest, NEW class \in SyncBlockAction, ScanBlock(n, b, class)
      PROVE  Goal
  <2>1. creator[n][bg].phase = "idle" /\ UNCHANGED <<blocks, creator, adding>>
        BY <1>3, <1>9 DEF ScanBlock, tables, requests
  <2>2. CASE class = "insert"
    <3> DEFINE s == [syncer[n] EXCEPT !.phase = "insert"]
    <3>1. SetSyncer(n, s) /\ "insert" \in Classes(n, b) /\ Lowest(b, syncer[n].rest)
          BY <1>9, <2>2 DEF ScanBlock
    <3>2. Fits(b, blocks[n])  BY <1>1, <3>1, InsertFits DEF SyncOK
    <3>3. \A c \in Working(s) : c = b
          BY <1>1, <3>1, LowestIsOne DEF Working, SyncOK, Syncer
    <3>4. s.reply = syncer[n].reply  BY <1>1 DEF Syncer
    <3>5. SyncFits(blocks[n], s)  BY <1>2, <3>2, <3>3, <3>4 DEF SyncFits
    <3> QED  BY <2>1, <3>1, <3>5, LoopWrite
  <2>3. CASE class # "insert"
    <3> DEFINE s == [syncer[n] EXCEPT !.phase = "truncate"]
    <3>1. s.reply = syncer[n].reply /\ s.phase = "truncate"  BY <1>1 DEF Syncer
    <3>2. SyncFits(blocks[n], s)  BY <1>2, <3>1, OldReplyFits
    <3>3. SetSyncer(n, s) \/ SetSyncer(n, NextBlock(n, b))
          BY <1>9, <2>3 DEF ScanBlock
    <3> QED  BY <2>1, <3>2, <3>3, NextBlockFits, LoopWrite
  <2> QED  BY <2>2, <2>3
<1>10. ASSUME NEW b \in syncer[n].rest, CommitTruncate(n, b) PROVE Goal
  <2> DEFINE B == {c \in blocks[n] : c.number < b.number}
             s == [syncer[n] EXCEPT !.phase = "replay", !.gone = {}, !.deleted = {}]
  <2>1. b.number \in Nat /\ \A c \in blocks[n] : c.number \in Nat
        BY <1>1 DEF Syncer, Block
  <2>2. syncer[n].phase = "commitDelete" /\ syncer[n].deleted = From(blocks[n], b)
        BY <1>1, <1>10, CurrentWorking DEF CommitTruncate, Deletes
  <2>3. blocks[n] \ From(blocks[n], b) = B  BY <2>1 DEF From
  <2>4. blocks'[n] = B
        BY <1>1, <1>10, <2>2, <2>3 DEF CommitTruncate
  <2>5. syncer'[n] = s /\ UNCHANGED <<creator, adding>> /\ creator[n][bg].phase = "idle"
        BY <1>1, <1>3, <1>10 DEF CommitTruncate, SetSyncer, requests
  <2>6. Linked(B)  BY <1>1, <1>2, <2>1, LinkedPrefix
  <2>7. s.reply = syncer[n].reply /\ s.phase = "replay"  BY <1>1 DEF Syncer
  <2>8. SyncFits(B, s)  BY <1>2, <2>7, OldReplyFits
  <2> HIDE DEF B, s
  <2> QED  BY <1>1, <2>4, <2>5, <2>6, <2>8 DEF NodeLinked, LoopOnly, TipKnown
<1>11. ASSUME NEW b \in syncer[n].rest, ReplayProjections(n, b) PROVE Goal
  <2> DEFINE s == [syncer[n] EXCEPT !.phase = "adopt", !.suffix = From(syncer[n].reply, b)]
  <2>1. s.reply = syncer[n].reply /\ s.phase = "adopt"  BY <1>1 DEF Syncer
  <2>2. SyncFits(blocks[n], s)  BY <1>2, <2>1, OldReplyFits
  <2> QED  BY <1>3, <1>11, <2>2, LoopWrite DEF ReplayProjections, tables, requests
<1>12. ASSUME NEW b \in syncer[n].rest \cup syncer[n].suffix, InsertSynced(n, b) PROVE Goal
  <2> DEFINE B == blocks[n] \cup {b}
             s == [syncer[n] EXCEPT !.phase = IF @ = "insert" THEN "cleanup" ELSE "adoptCleanup"]
  <2>1. /\ syncer[n].phase \in {"insert", "adoptInsert"}
        /\ b \in Working(syncer[n])
        /\ b.number \notin Numbers(blocks[n])
        BY <1>12, CurrentWorking DEF InsertSynced
  <2>2. /\ blocks'[n] = B
        /\ syncer'[n] = s
        /\ UNCHANGED <<creator, adding>>
        BY <1>1, <1>12 DEF InsertSynced, SetSyncer, requests
  <2>3. b \in Block /\ HashOK(b)  BY <1>1, <2>1 DEF SyncOK, Syncer
  <2>4. b.number = Tip(blocks[n]) + 1 /\ b.prev = TipHash(blocks[n])
        BY <1>2, <2>1 DEF SyncFits, Fits
  <2>5. Linked(B)  BY <1>1, <1>2, <2>3, <2>4, LinkedAppend
  <2>6. s.reply = syncer[n].reply /\ s.phase \in {"cleanup", "adoptCleanup"}
        BY <1>1 DEF Syncer
  <2> HIDE DEF B, s
  <2>7. SyncFits(B, s)  BY <1>2, <2>6, OldReplyFits
  <2>8. creator[n][bg].phase = "idle"  BY <1>3, <2>1
  <2> QED  BY <1>1, <2>2, <2>5, <2>7, <2>8 DEF NodeLinked, LoopOnly, TipKnown
<1>13. ASSUME SyncFails(n) \/ \E b \in syncer[n].rest \cup syncer[n].suffix : SyncNumberTaken(n, b)
       PROVE  Goal
  <2>1. /\ creator[n][bg].phase = "idle"
        /\ UNCHANGED <<blocks, creator, adding>>
        /\ \E f : SetSyncer(n, NextBlock(n, f))
        BY <1>3, <1>13 DEF SyncFails, SyncNumberTaken, AdoptError, Truncating, tables, requests
  <2> QED  BY <2>1, NextBlockFits, LoopWrite
<1>14. ASSUME NEW b \in syncer[n].rest \cup syncer[n].suffix, NEW gone \in SUBSET b.events,
              CleanupPending(n, b, gone)
       PROVE  Goal
  <2> DEFINE s == [syncer[n] EXCEPT !.phase = "adopt", !.suffix = @ \ {b}]
  <2>1. s.reply = syncer[n].reply /\ s.phase = "adopt"  BY <1>1 DEF Syncer
  <2>2. SyncFits(blocks[n], s)  BY <1>2, <2>1, OldReplyFits
  <2>3. /\ creator[n][bg].phase = "idle"
        /\ UNCHANGED <<blocks, creator, adding>>
        /\ SetSyncer(n, s) \/ SetSyncer(n, NextBlock(n, b))
        BY <1>3, <1>14 DEF CleanupPending, requests
  <2> QED  BY <2>2, <2>3, NextBlockFits, LoopWrite
<1>15. ASSUME NEW b \in syncer[n].suffix, NEW class \in SyncBlockAction, AdoptBlock(n, b, class)
       PROVE  Goal
  <2>1. /\ syncer[n].phase = "adopt"
        /\ creator[n][bg].phase = "idle"
        /\ UNCHANGED <<blocks, creator, adding>>
        BY <1>3, <1>15 DEF AdoptBlock, tables, requests
  <2>2. CASE class = "insert"
    <3> DEFINE s == [syncer[n] EXCEPT !.phase = "adoptInsert"]
    <3>1. SetSyncer(n, s) /\ "insert" \in Classes(n, b) /\ b \in Working(syncer[n])
          BY <1>15, <2>2, CurrentWorking DEF AdoptBlock
    <3>2. Fits(b, blocks[n])  BY <1>1, <3>1, InsertFits DEF SyncOK
    <3>3. Working(s) = {b}
      <4>1. Working(s) = Working(syncer[n])  BY <1>1, <2>1 DEF Working, Syncer
      <4> QED  BY <1>1, <3>1, <4>1, WorkingIsOne
    <3>4. s.reply = syncer[n].reply  BY <1>1 DEF Syncer
    <3>5. SyncFits(blocks[n], s)  BY <1>2, <3>2, <3>3, <3>4 DEF SyncFits
    <3> QED  BY <2>1, <3>1, <3>5, LoopWrite
  <2>3. CASE class = "skip"
    <3> DEFINE s == [syncer[n] EXCEPT !.suffix = @ \ {b}]
    <3>1. s.reply = syncer[n].reply /\ s.phase = "adopt"  BY <1>1, <2>1 DEF Syncer
    <3>2. SyncFits(blocks[n], s)  BY <1>2, <3>1, OldReplyFits
    <3> QED  BY <1>15, <2>1, <2>3, <3>2, LoopWrite DEF AdoptBlock
  <2>4. CASE class \in {"reject", "fork"}
    BY <1>15, <2>1, <2>4, NextBlockFits, LoopWrite DEF AdoptBlock, AdoptError
  <2> QED  BY <2>2, <2>3, <2>4 DEF SyncBlockAction
<1>18. ASSUME NEW b \in syncer[n].rest, DeleteEvents(n, b) PROVE Goal
  <2> DEFINE s == [syncer[n] EXCEPT !.phase = "deleteBlocks",
                       !.gone = Events(From(blocks[n], b)) \cap events[n]]
  <2>1. s.reply = syncer[n].reply /\ s.phase = "deleteBlocks"  BY <1>1 DEF Syncer
  <2>2. SyncFits(blocks[n], s)  BY <1>2, <2>1, OldReplyFits
  <2> HIDE DEF s
  <2> QED  BY <1>3, <1>18, <2>2, LoopWrite DEF DeleteEvents, tables, requests, s
<1>19. ASSUME NEW b \in syncer[n].rest, DeleteBlocks(n, b) PROVE Goal
  <2> DEFINE s == [syncer[n] EXCEPT !.phase = "commitDelete", !.deleted = From(blocks[n], b)]
  <2>1. s.reply = syncer[n].reply /\ s.phase = "commitDelete"  BY <1>1 DEF Syncer
  <2>2. SyncFits(blocks[n], s)  BY <1>2, <2>1, OldReplyFits
  <2> HIDE DEF s
  <2> QED  BY <1>3, <1>19, <2>2, LoopWrite DEF DeleteBlocks, tables, requests, s
<1>16. CASE ScanDone(n)
  BY <1>3, <1>16, FreshFits, LoopWrite DEF ScanDone, NextPeer, tables, requests
<1>17. CASE AdoptDone(n)
  BY <1>3, <1>17, FreshFits, LoopWrite DEF AdoptDone, NextPeer, tables, requests
<1> QED
  BY <1>4, <1>5, <1>6, <1>7, <1>8, <1>9, <1>10, <1>11, <1>12, <1>13, <1>14, <1>15, <1>16, <1>17,
     <1>18, <1>19 DEF SyncStep

-----------------------------------------------------------------------------
LEMMA InitLinked == Init => LinkInv
<1> SUFFICES ASSUME Init, NEW n \in Observer
             PROVE  NodeLinked(blocks[n], creator[n], syncer[n], adding[n])
    BY DEF LinkInv
<1>1. /\ blocks[n] = {} /\ adding[n] = {} /\ syncer[n] = NoSyncer
      /\ \A t \in Task : creator[n][t] = NoCreator
      BY ObserverNode DEF Init
<1>2. NoCreator.phase = "idle"  BY DEF NoCreator, CreatorAt
<1> QED  BY <1>1, <1>2, EmptyLinked, FreshFits DEF NodeLinked, LoopOnly, TipKnown, Task

LEMMA NextLinked == ReadsOrPeers /\ Inv /\ [Next]_vars => LinkInv'
<1> SUFFICES ASSUME ReadsOrPeers, Inv, [Next]_vars, NEW n \in Observer
             PROVE  NodeLinked(blocks'[n], creator'[n], syncer'[n], adding'[n])
    BY DEF LinkInv, Observer
<1>1. n \in Node /\ NodeLinked(blocks[n], creator[n], syncer[n], adding[n])
      BY ObserverNode DEF Inv, LinkInv
<1>2. CASE UNCHANGED <<blocks, creator, syncer, adding>>
  BY <1>1, <1>2, StillLinked
<1>3. ASSUME NEW m \in Node, m # n,
             Client(m) \/ (\E t \in Task : CreateStep(m, t)) \/ SyncStep(m) \/ Crash(m)
      PROVE  NodeLinked(blocks'[n], creator'[n], syncer'[n], adding'[n])
  BY <1>1, <1>3, OthersLeftAlone, StillLinked DEF Inv
<1>4. ~Client(n)
  <2>1. adding[n] = {}  BY <1>1 DEF NodeLinked, LoopOnly
  <2> QED  BY <2>1 DEF Client, AddEventValidate, AddEventInsert, Observer
<1>5. CASE Crash(n)
  <2>1. /\ blocks'[n] = blocks[n] /\ adding'[n] = {} /\ syncer'[n] = NoSyncer
        /\ \A t \in Task : creator'[n][t] = NoCreator
        BY <1>1, <1>5 DEF Crash, tables, Inv, TypeInv, TypeOK
  <2>2. NoCreator.phase = "idle"  BY DEF NoCreator, CreatorAt
  <2> QED  BY <1>1, <2>1, <2>2, FreshFits DEF NodeLinked, LoopOnly, TipKnown, Task
<1>6. ASSUME NEW m \in Node, Gossip(m) \/ \E p \in Node, up \in BOOLEAN : AddPeer(m, p, up)
      PROVE  UNCHANGED <<blocks, creator, syncer, adding>>
  BY <1>6 DEF Gossip, GossipLost, GossipCheck, GossipInsert, AddPeer, tables, requests
<1>7. UNCHANGED vars => UNCHANGED <<blocks, creator, syncer, adding>>
  BY DEF vars, tables, requests
<1> QED
  BY <1>2, <1>3, <1>4, <1>5, <1>6, <1>7, CreateStepLinked, SyncStepLinked DEF Next

LEMMA LinkInvariant == ASSUME ReadsOrPeers PROVE Spec => []Inv
<1>1. Init => LinkInv  BY InitLinked
<1>2. TypeInv /\ ConfirmInv /\ RecordInv /\ LinkInv /\ [Next]_vars => LinkInv'
      BY NextLinked DEF Inv
<1> QED  BY <1>1, <1>2, TypeInvariant, ConfirmInvariant, RecordInvariant, PTL DEF Spec, Inv

-----------------------------------------------------------------------------
(* On nodes without spawned tasks the chain is numbered 1..tip and linked,  *)
(* through self-healing, failures and crashes (sync_blocks_from_peers,      *)
(* try_create_block).                                                       *)
THEOREM ObserversLinked == ASSUME ReadsOrPeers PROVE Spec => []ObserverLinked
<1>1. Inv => ObserverLinked  BY DEF Inv, LinkInv, NodeLinked, ObserverLinked
<1> QED  BY <1>1, LinkInvariant, PTL

(* Two such nodes with a hash in common agree below it (classify_block).    *)
THEOREM PrefixesAgree == ASSUME ReadsOrPeers PROVE Spec => []PrefixAgreement
<1>1. Inv => PrefixAgreement
  <2> SUFFICES ASSUME Inv, NEW m \in Observer, NEW n \in Observer,
                      NEW b \in blocks[m], NEW c \in blocks[n], b.hash = c.hash
               PROVE  {x \in blocks[m] : x.number <= b.number}
                      = {x \in blocks[n] : x.number <= c.number}
      BY DEF PrefixAgreement
  <2>1. \A k \in {m, n} : /\ blocks[k] \in SUBSET Block
                          /\ Bounded(blocks[k])
                          /\ Linked(blocks[k])
        BY ObserverNode DEF Inv, TypeInv, TypeOK, LinkInv, NodeLinked
  <2>2. b = c  BY <2>1, HashCommits DEF Linked
  <2>3. \A x \in blocks[m] : x.number <= b.number => x \in blocks[n]
        BY <2>1, <2>2, CommonHashCommonPrefix
  <2>4. \A x \in blocks[n] : x.number <= c.number => x \in blocks[m]
        BY <2>1, <2>2, CommonHashCommonPrefix
  <2> QED  BY <2>2, <2>3, <2>4
<1> QED  BY <1>1, LinkInvariant, PTL

-----------------------------------------------------------------------------
(* What a step of the synchronisation does to the chain: nothing, a block   *)
(* of the peer on top, or the end of the chain goes.                        *)
SyncKeeps(n) ==
    /\ UNCHANGED <<blocks, events>>
    /\ syncer'[n].reply \subseteq syncer[n].reply \/ \E p \in Node : syncer'[n].reply \in Replies(p)

SyncAdds(n, b) ==
    /\ b \in syncer[n].reply
    /\ HashOK(b)
    /\ b.number = Tip(blocks[n]) + 1
    /\ b.prev = TipHash(blocks[n])
    /\ blocks' = [blocks EXCEPT ![n] = @ \cup {b}]
    /\ events' = [events EXCEPT ![n] = @ \cup b.events]
    /\ syncer'[n].reply = syncer[n].reply

SyncDrops(n, k) ==
    /\ syncer[n].phase = "commitDelete"
    /\ \E b \in Working(syncer[n]) : b.number = k
    /\ blocks' = [blocks EXCEPT ![n] = {c \in @ : c.number < k}]
    /\ events' = [events EXCEPT ![n] = @ \ Events({c \in blocks[n] : c.number >= k})]
    /\ syncer'[n].reply = syncer[n].reply

LEMMA SyncCases ==
    ASSUME Inv, NEW n \in Observer, SyncStep(n)
    PROVE  /\ SyncKeeps(n) \/ (\E b \in Block : SyncAdds(n, b)) \/ (\E k \in Nat : SyncDrops(n, k))
           /\ creator[n][bg].phase = "idle"
           /\ creator'[n][bg].phase \in {"idle", "start"}
           /\ \A m \in Node \ {n} : syncer'[m] = syncer[m] /\ creator'[m] = creator[m]
<1>1. /\ n \in Node
      /\ syncer \in [Node -> Syncer] /\ syncer[n] \in Syncer
      /\ creator \in [Node -> [Task -> Creator]] /\ bg \in Task
      /\ blocks \in [Node -> SUBSET Block] /\ blocks[n] \in SUBSET Block
      /\ events \in [Node -> SUBSET Event]
      /\ SyncOK(blocks[n], syncer[n]) /\ SyncFits(blocks[n], syncer[n])
      /\ Deletes(blocks[n], events[n], syncer[n])
      BY ObserverNode DEF Inv, TypeInv, TypeOK, LinkInv, ConfirmInv, RecordInv, NodeLinked, Task
<1>3. creator[n][bg].phase = "idle"  BY SyncAtWork, LinkedLoop DEF Inv
<1>4. creator'[n][bg].phase \in {"idle", "start"} /\ \A m \in Node \ {n} : creator'[m] = creator[m]
  <2>1. creator' = creator \/ SetCreator(n, bg, CreatorAt("start", {}))
        BY DEF SyncStep, BeginRound, EndRound, FetchBlocks, FetchFails, LoadLocal, ScanBlock,
           ScanDone, InsertSynced, SyncNumberTaken, SyncFails, CleanupPending, DeleteEvents, DeleteBlocks,
           CommitTruncate, ReplayProjections, AdoptBlock, AdoptDone
  <2> QED  BY <1>1, <1>3, <2>1 DEF SetCreator, CreatorAt
<1>5. \A s, m : SetSyncer(n, s) /\ m \in Node \ {n} => syncer'[n] = s /\ syncer'[m] = syncer[m]
      BY <1>1 DEF SetSyncer
<1>6. \A m \in Node \ {n} : syncer'[m] = syncer[m]
  <2>1. \E s : SetSyncer(n, s)
        BY DEF SyncStep, BeginRound, EndRound, FetchBlocks, FetchFails, LoadLocal, ScanBlock,
           ScanDone, InsertSynced, SyncNumberTaken, SyncFails, AdoptError, CleanupPending,
           DeleteEvents, DeleteBlocks,
           CommitTruncate, ReplayProjections, AdoptBlock, AdoptDone
  <2> QED  BY <1>5, <2>1
<1>7. \A s : SetSyncer(n, s) => syncer'[n] = s  BY <1>1 DEF SetSyncer
<1>8. NoSyncer.reply = {} /\ \A phase, registry, todo : SyncerAt(phase, registry, todo).reply = {}
      BY DEF NoSyncer, SyncerAt
<1>9. \A b : NextBlock(n, b).reply = syncer[n].reply  BY <1>1 DEF NextBlock, Syncer
<1>10. ASSUME \/ BeginRound(n) \/ EndRound(n) \/ ScanDone(n) \/ AdoptDone(n)
              \/ \E p \in syncer[n].todo : FetchFails(n, p)
       PROVE  SyncKeeps(n)
  <2>1. SetSyncer(n, NoSyncer) \/ \E phase, registry, todo : SetSyncer(n, SyncerAt(phase, registry, todo))
        BY <1>10 DEF BeginRound, EndRound, ScanDone, AdoptDone, FetchFails, NextPeer
  <2>2. syncer'[n].reply = {}  BY <1>7, <1>8, <2>1
  <2>3. UNCHANGED <<blocks, events>>
        BY <1>10 DEF BeginRound, EndRound, ScanDone, AdoptDone, FetchFails, tables
  <2> QED  BY <2>2, <2>3 DEF SyncKeeps
<1>11. ASSUME NEW p \in syncer[n].todo, NEW reply \in Replies(p), FetchBlocks(n, p, reply)
       PROVE  SyncKeeps(n)
  <2>1. p \in Node  BY <1>1 DEF Syncer
  <2>2. syncer'[n].reply = reply  BY <1>7, <1>11 DEF FetchBlocks, SyncerAt
  <2> QED  BY <1>11, <2>1, <2>2 DEF FetchBlocks, SyncKeeps, tables
<1>12. ASSUME \/ \E local \in {{}, blocks[n]} : LoadLocal(n, local)
              \/ \E b \in syncer[n].rest, class \in SyncBlockAction : ScanBlock(n, b, class)
              \/ \E b \in syncer[n].rest : ReplayProjections(n, b) \/ DeleteEvents(n, b) \/ DeleteBlocks(n, b)
              \/ \E b \in syncer[n].suffix, class \in SyncBlockAction : AdoptBlock(n, b, class)
              \/ SyncFails(n)
              \/ \E b \in syncer[n].rest \cup syncer[n].suffix :
                    SyncNumberTaken(n, b) \/ \E gone \in SUBSET b.events : CleanupPending(n, b, gone)
       PROVE  SyncKeeps(n)
  <2>1. UNCHANGED <<blocks, events>>
        BY <1>12 DEF LoadLocal, ScanBlock, ReplayProjections, DeleteEvents, DeleteBlocks, AdoptBlock,
           SyncFails, SyncNumberTaken, CleanupPending, tables
  <2>2. syncer'[n].reply = syncer[n].reply
    <3>1. CASE \E local \in {{}, blocks[n]} : LoadLocal(n, local)
      BY <1>1, <1>7, <3>1 DEF LoadLocal, Syncer
    <3>2. CASE \E b \in syncer[n].rest, class \in SyncBlockAction : ScanBlock(n, b, class)
      BY <1>1, <1>7, <1>9, <3>2 DEF ScanBlock, Syncer
    <3>3. CASE \E b \in syncer[n].rest : ReplayProjections(n, b) \/ DeleteEvents(n, b) \/ DeleteBlocks(n, b)
      BY <1>1, <1>7, <3>3 DEF ReplayProjections, DeleteEvents, DeleteBlocks, Syncer
    <3>4. CASE \E b \in syncer[n].suffix, class \in SyncBlockAction : AdoptBlock(n, b, class)
      BY <1>1, <1>7, <1>9, <3>4 DEF AdoptBlock, AdoptError, Syncer
    <3>5. CASE SyncFails(n) \/ \E b \in syncer[n].rest \cup syncer[n].suffix : SyncNumberTaken(n, b)
      BY <1>1, <1>7, <1>9, <3>5 DEF SyncFails, SyncNumberTaken, AdoptError, Syncer
    <3>6. CASE \E b \in syncer[n].rest \cup syncer[n].suffix :
                  \E gone \in SUBSET b.events : CleanupPending(n, b, gone)
      <4>1. PICK b : \/ SetSyncer(n, NextBlock(n, b))
                     \/ SetSyncer(n, [syncer[n] EXCEPT !.phase = "adopt", !.suffix = @ \ {b}])
            BY <3>6 DEF CleanupPending
      <4>2. [syncer[n] EXCEPT !.phase = "adopt", !.suffix = @ \ {b}].reply = syncer[n].reply
            BY <1>1 DEF Syncer
      <4> QED  BY <1>7, <1>9, <4>1, <4>2
    <3> QED  BY <1>12, <3>1, <3>2, <3>3, <3>4, <3>5, <3>6
  <2> QED  BY <2>1, <2>2 DEF SyncKeeps
<1>13. ASSUME NEW b \in syncer[n].rest \cup syncer[n].suffix, InsertSynced(n, b)
       PROVE  b \in Block /\ SyncAdds(n, b)
  <2>1. /\ syncer[n].phase \in {"insert", "adoptInsert"}
        /\ b \in Working(syncer[n])
        /\ b.number \notin Numbers(blocks[n])
        BY <1>13, CurrentWorking DEF InsertSynced
  <2>2. b \in syncer[n].reply /\ b \in Block /\ HashOK(b)
        BY <1>1, <2>1 DEF SyncOK, Syncer
  <2>3. b.number = Tip(blocks[n]) + 1 /\ b.prev = TipHash(blocks[n])
        BY <1>1, <2>1 DEF SyncFits, Fits
  <2>4. syncer'[n].reply = syncer[n].reply
        BY <1>1, <1>7, <1>13 DEF InsertSynced, Syncer
  <2> QED  BY <1>13, <2>2, <2>3, <2>4 DEF InsertSynced, SyncAdds
<1>14. ASSUME NEW b \in syncer[n].rest, CommitTruncate(n, b)
       PROVE  b.number \in Nat /\ SyncDrops(n, b.number)
  <2> DEFINE dropped == {c \in blocks[n] : c.number >= b.number}
  <2>1. b.number \in Nat /\ \A c \in blocks[n] : c.number \in Nat
        BY <1>1 DEF Syncer, Block
  <2>2. syncer'[n].reply = syncer[n].reply
        BY <1>1, <1>7, <1>14 DEF CommitTruncate, Syncer
  <2>3. blocks[n] \ dropped = {c \in blocks[n] : c.number < b.number}
        BY <2>1
  <2>4. syncer[n].phase = "commitDelete" /\ b \in Working(syncer[n])
        BY <1>14, CurrentWorking DEF CommitTruncate
  <2>5. syncer[n].deleted = dropped /\ syncer[n].gone = Events(dropped) \cap events[n]
        BY <1>1, <2>4 DEF Deletes, From
  <2> HIDE DEF dropped
  <2>6. events[n] \ syncer[n].gone = events[n] \ Events(dropped)  BY <2>5
  <2>7. /\ blocks' = [blocks EXCEPT ![n] = {c \in @ : c.number < b.number}]
        /\ events' = [events EXCEPT ![n] = @ \ Events(dropped)]
        BY <1>1, <1>14, <2>3, <2>5, <2>6 DEF CommitTruncate
  <2> QED  BY <2>1, <2>2, <2>4, <2>7 DEF SyncDrops, dropped
<1>15. SyncKeeps(n) \/ (\E b \in Block : SyncAdds(n, b)) \/ (\E k \in Nat : SyncDrops(n, k))
  BY <1>10, <1>11, <1>12, <1>13, <1>14 DEF SyncStep
<1> QED  BY <1>3, <1>4, <1>6, <1>15

-----------------------------------------------------------------------------
(* Where all nodes are driven by their loops, an event is in one block of   *)
(* a chain at most.  A hash tells the events of the whole chain below it,   *)
(* so the invariant is about hashes, those of the lists that peers have     *)
(* answered among them: these blocks come from chains of which parts may    *)
(* be gone by now.                                                          *)
NodeOnce(B, E, c, s) ==
    /\ \A b \in B \cup s.reply : Unrepeated(b.hash)
    /\ Events(B) \subseteq E
    /\ c.phase \in InTx => c.batch \cap E = {}
    /\ c.phase \in {"tip", "number"} => c.rows = c.batch

OnceInv == \A n \in Node : NodeOnce(blocks[n], events[n], creator[n][bg], syncer[n])

LEMMA AllObserve == ASSUME Requests = {} PROVE Observer = Node
BY DEF Observer

LEMMA NodeFacts ==
    ASSUME Inv, NEW n \in Observer
    PROVE  /\ n \in Node
           /\ blocks \in [Node -> SUBSET Block] /\ blocks[n] \in SUBSET Block
           /\ events \in [Node -> SUBSET Event]
           /\ creator \in [Node -> [Task -> Creator]] /\ creator[n][bg] \in Creator /\ bg \in Task
           /\ syncer \in [Node -> Syncer] /\ syncer[n] \in Syncer
           /\ Bounded(blocks[n]) /\ Linked(blocks[n])
BY ObserverNode DEF Inv, TypeInv, TypeOK, LinkInv, NodeLinked, Task

\* A production task starts a transaction with new events, and keeps them.
LEMMA TaskBatch ==
    ASSUME Inv, OnceInv, NEW n \in Observer, NEW t \in Task, CreateStep(n, t),
           ~\E s \in Stamp : CommitBlock(n, t, s)
    PROVE  /\ UNCHANGED <<blocks, events, syncer>>
           /\ creator'[n][bg].phase \in InTx => creator'[n][bg].batch \cap events[n] = {}
           /\ creator'[n][bg].phase \in {"tip", "number"} => creator'[n][bg].rows = creator'[n][bg].batch
<1>1. UNCHANGED <<blocks, events, syncer>>
      BY DEF CreateStep, CheckProducer, CollectPending, BeginTx, ReadTip, ReadNumber,
         BlockNumberTaken, CreateFails, ApplyCreated, tables
<1>2. creator[n][t].phase # "idle"
      BY DEF CreateStep, CheckProducer, CollectPending, BeginTx, ReadTip, ReadNumber,
         BlockNumberTaken, CreateFails, ApplyCreated, InTx
<1>3. t = bg  BY <1>2, LoopTask, LinkedLoop DEF Inv
<1>4. \A c : SetCreator(n, t, c) => creator'[n][bg] = c  BY <1>3, NodeFacts DEF SetCreator
<1>5. /\ creator \in [Node -> [Task -> Creator]] /\ creator[n][bg] \in Creator
      /\ creator[n][bg].phase \in InTx => creator[n][bg].batch \cap events[n] = {}
      /\ creator[n][bg].phase \in {"tip", "number"} => creator[n][bg].rows = creator[n][bg].batch
      BY ObserverNode, NodeFacts DEF OnceInv, NodeOnce
<1> DEFINE New(c) == /\ c.phase \in InTx => c.batch \cap events[n] = {}
                     /\ c.phase \in {"tip", "number"} => c.rows = c.batch
<1>6. New(NoCreator) /\ \A batch : New(CreatorAt("collect", {})) /\ New(CreatorAt("gated", batch))
      BY DEF NoCreator, CreatorAt, InTx
<1>7. CASE BeginTx(n, t)
  <2>1. New(CreatorAt("filtered", creator[n][t].batch \ events[n]))  BY DEF CreatorAt
  <2> HIDE DEF New
  <2>2. New(creator'[n][bg])  BY <1>4, <1>6, <1>7, <2>1 DEF BeginTx
  <2> QED  BY <1>1, <2>2 DEF New
<1>8. CASE ReadTip(n, t)
  <2> DEFINE c == [creator[n][bg] EXCEPT !.phase = "tip", !.rows = creator[n][bg].batch \ events[n],
                                          !.prev = TipHash(blocks[n])]
  <2>1. creator'[n][bg] = c /\ creator[n][bg].phase \in InTx
        BY <1>3, <1>4, <1>8 DEF ReadTip, InTx
  <2>2. c.batch = creator[n][bg].batch /\ c.rows = creator[n][bg].batch \ events[n]  BY <1>5 DEF Creator
  <2> HIDE DEF c
  <2> QED  BY <1>1, <1>5, <2>1, <2>2
<1>9. CASE ReadNumber(n, t)
  <2> DEFINE c == [creator[n][bg] EXCEPT !.phase = "number", !.number = Tip(blocks[n]) + 1]
  <2>1. creator'[n][bg] = c /\ creator[n][bg].phase = "tip" /\ creator[n][bg].phase \in InTx
        BY <1>3, <1>4, <1>9 DEF ReadNumber, InTx
  <2>2. c.batch = creator[n][bg].batch /\ c.rows = creator[n][bg].rows  BY <1>5 DEF Creator
  <2> HIDE DEF c
  <2> QED  BY <1>1, <1>5, <2>1, <2>2
<1>10. ASSUME \/ \E next \in {1, Tip(blocks[n]) + 1} : CheckProducer(n, t, next)
              \/ \E reached \in SUBSET Node, confirmed \in {{}, events[n]} :
                    CollectPending(n, t, reached, confirmed)
              \/ BlockNumberTaken(n, t) \/ CreateFails(n, t) \/ ApplyCreated(n, t)
       PROVE  New(creator'[n][bg])
  <2> HIDE DEF New
  <2> QED  BY <1>4, <1>6, <1>10 DEF CheckProducer, CollectPending, BlockNumberTaken, CreateFails, ApplyCreated
<1> QED  BY <1>1, <1>7, <1>8, <1>9, <1>10 DEF CreateStep

LEMMA CreateStepOnce ==
    ASSUME Inv, OnceInv, NEW n \in Observer, NEW t \in Task, CreateStep(n, t)
    PROVE  NodeOnce(blocks'[n], events'[n], creator'[n][bg], syncer'[n])
<1>1. NodeOnce(blocks[n], events[n], creator[n][bg], syncer[n])  BY ObserverNode DEF OnceInv
<1>2. CASE ~\E s \in Stamp : CommitBlock(n, t, s)
  BY <1>1, <1>2, TaskBatch DEF NodeOnce
<1>3. ASSUME NEW s \in Stamp, CommitBlock(n, t, s)
      PROVE  NodeOnce(blocks'[n], events'[n], creator'[n][bg], syncer'[n])
  <2> DEFINE c == creator[n][bg]
             b == NewBlock(c.number, s, c.prev, c.batch)
  <2>1. t = bg  BY <1>3, LoopTask, LinkedLoop DEF CommitBlock, Inv
  <2>2. /\ c.phase = "number"
        /\ blocks'[n] = blocks[n] \cup {b}
        /\ events'[n] = events[n] \cup c.batch
        /\ syncer' = syncer
        BY <1>1, <1>3, <2>1, NodeFacts DEF CommitBlock, NodeOnce
  <2>3. creator'[n][bg].phase = "apply"
        BY <1>3, <2>1, NodeFacts DEF CommitBlock, SetCreator, Creator
  <2>4. c.prev = TipHash(blocks[n])  BY <2>2 DEF Inv, LinkInv, NodeLinked, TipKnown
  <2>5. b \in Block /\ HashOK(b) /\ b.prev = c.prev /\ b.events = c.batch
        BY NodeFacts, NewBlockType DEF NewBlock, Creator
  <2>6. b.events \cap Events(blocks[n]) = {}
        BY <1>1, <2>2, <2>5 DEF NodeOnce, InTx
  <2>7. Unrepeated(b.hash)
    <3>1. \A d \in blocks[n] : Unrepeated(d.hash)  BY <1>1 DEF NodeOnce
    <3> HIDE DEF b, c
    <3> QED  BY <2>4, <2>5, <2>6, <3>1, NodeFacts, UnrepeatedOnTop
  <2> HIDE DEF b
  <2>8. Events(blocks[n] \cup {b}) = Events(blocks[n]) \cup b.events  BY DEF Events
  <2> QED  BY <1>1, <2>2, <2>3, <2>5, <2>7, <2>8 DEF NodeOnce, InTx
<1> QED  BY <1>2, <1>3

\* What a peer answers has the hashes of its chain, damaged or not.
LEMMA RepliedHashes ==
    ASSUME TypeInv, NEW p \in Node, NEW reply \in Replies(p), NEW b \in reply
    PROVE  \E c \in blocks[p] : b.hash = c.hash /\ b.number = c.number
<1>1. \A c \in blocks[p] : \A E : [c EXCEPT !.events = E].hash = c.hash
                           /\ [c EXCEPT !.events = E].number = c.number
      BY DEF TypeInv, TypeOK, Block
<1>2. CASE b \in blocks[p]  BY <1>2
<1>3. CASE b \notin blocks[p]
  <2>1. PICK c \in blocks[p], E \in SUBSET Event : b = [c EXCEPT !.events = E]
        BY <1>3 DEF Replies
  <2> QED  BY <1>1, <2>1
<1> QED  BY <1>2, <1>3

LEMMA SyncStepOnce ==
    ASSUME Requests = {}, Inv, OnceInv, NEW n \in Node, SyncStep(n)
    PROVE  NodeOnce(blocks'[n], events'[n], creator'[n][bg], syncer'[n])
<1>1. /\ n \in Observer
      /\ \A m \in Node : NodeOnce(blocks[m], events[m], creator[m][bg], syncer[m])
      BY AllObserve DEF OnceInv
<1>2. creator'[n][bg].phase \notin InTx  BY <1>1, SyncCases DEF InTx
<1>3. CASE SyncKeeps(n)
  <2>1. ASSUME NEW b \in syncer'[n].reply PROVE Unrepeated(b.hash)
    <3>1. CASE b \in syncer[n].reply  BY <1>1, <3>1 DEF NodeOnce
    <3>2. CASE b \notin syncer[n].reply
      <4>1. PICK p \in Node : syncer'[n].reply \in Replies(p)  BY <1>3, <2>1, <3>2 DEF SyncKeeps
      <4>2. PICK c \in blocks[p] : b.hash = c.hash  BY <2>1, <4>1, RepliedHashes DEF Inv
      <4> QED  BY <1>1, <4>2 DEF NodeOnce
    <3> QED  BY <3>1, <3>2
  <2> QED  BY <1>1, <1>2, <1>3, <2>1 DEF NodeOnce, SyncKeeps, InTx
<1>4. ASSUME NEW b \in Block, SyncAdds(n, b)
      PROVE  NodeOnce(blocks'[n], events'[n], creator'[n][bg], syncer'[n])
  <2>1. /\ blocks'[n] = blocks[n] \cup {b} /\ events'[n] = events[n] \cup b.events
        /\ b \in syncer[n].reply /\ syncer'[n].reply = syncer[n].reply
        BY <1>1, <1>4, NodeFacts DEF SyncAdds
  <2>2. Events(blocks[n] \cup {b}) = Events(blocks[n]) \cup b.events  BY DEF Events
  <2> QED  BY <1>1, <1>2, <2>1, <2>2 DEF NodeOnce, InTx
<1>5. ASSUME NEW k \in Nat, SyncDrops(n, k)
      PROVE  NodeOnce(blocks'[n], events'[n], creator'[n][bg], syncer'[n])
  <2> DEFINE kept == {c \in blocks[n] : c.number < k}
             dropped == {c \in blocks[n] : c.number >= k}
  <2>1. /\ blocks'[n] = kept /\ events'[n] = events[n] \ Events(dropped)
        /\ syncer'[n].reply = syncer[n].reply
        BY <1>1, <1>5, NodeFacts DEF SyncDrops
  <2>2. ASSUME NEW b \in kept, NEW c \in dropped PROVE b.events \cap c.events = {}
    <3>1. b \in blocks[n] /\ c \in blocks[n] /\ b # c
          BY <1>1, NodeFacts DEF Block
    <3>2. \A d \in blocks[n] : Unrepeated(d.hash)  BY <1>1 DEF NodeOnce
    <3> QED  BY <1>1, <3>1, <3>2, NodeFacts, OneBlockEach
  <2>3. Events(kept) \cap Events(dropped) = {}
    <3> HIDE DEF kept, dropped
    <3> QED  BY <2>2 DEF Events
  <2>4. Events(kept) \subseteq events[n]  BY <1>1 DEF NodeOnce, Events
  <2>5. \A b \in kept : Unrepeated(b.hash)  BY <1>1 DEF NodeOnce
  <2> HIDE DEF kept, dropped
  <2> QED  BY <1>1, <1>2, <2>1, <2>3, <2>4, <2>5 DEF NodeOnce, InTx
<1> QED  BY <1>1, <1>3, <1>4, <1>5, SyncCases

LEMMA InitOnce == Init => OnceInv
<1> SUFFICES ASSUME Init, NEW n \in Node
             PROVE  NodeOnce(blocks[n], events[n], creator[n][bg], syncer[n])
    BY DEF OnceInv
<1>1. /\ blocks[n] = {} /\ events[n] = {} /\ syncer[n].reply = {}
      /\ creator[n][bg].phase = "idle"
      BY DEF Init, NoSyncer, SyncerAt, NoCreator, CreatorAt, Task
<1> QED  BY <1>1 DEF NodeOnce, Events, InTx

LEMMA NextOnce == ASSUME Requests = {}, Inv, OnceInv, [Next]_vars PROVE OnceInv'
<1> SUFFICES ASSUME NEW n \in Node
             PROVE  NodeOnce(blocks'[n], events'[n], creator'[n][bg], syncer'[n])
    BY DEF OnceInv
<1>1. n \in Observer /\ NodeOnce(blocks[n], events[n], creator[n][bg], syncer[n])
      BY AllObserve DEF OnceInv
<1>2. CASE UNCHANGED <<blocks, events, creator, syncer>>
  BY <1>1, <1>2
<1>3. ASSUME NEW m \in Node, m # n,
             Client(m) \/ (\E t \in Task : CreateStep(m, t)) \/ SyncStep(m) \/ Crash(m)
      PROVE  NodeOnce(blocks'[n], events'[n], creator'[n][bg], syncer'[n])
  BY <1>1, <1>3, OthersLeftAlone DEF Inv
<1>4. ~Client(n)
  <2>1. adding[n] = {}  BY <1>1 DEF Inv, LinkInv, NodeLinked, LoopOnly
  <2> QED  BY <2>1 DEF Client, AddEventValidate, AddEventInsert
<1>5. CASE Crash(n)
  <2>1. /\ blocks'[n] = blocks[n] /\ events'[n] = events[n] /\ syncer'[n].reply = {}
        /\ creator'[n][bg].phase = "idle"
        BY <1>1, <1>5, NodeFacts DEF Crash, tables, NoSyncer, SyncerAt, NoCreator, CreatorAt
  <2> QED  BY <1>1, <2>1 DEF NodeOnce, InTx
<1>6. ASSUME NEW m \in Node, Gossip(m) \/ \E p \in Node, up \in BOOLEAN : AddPeer(m, p, up)
      PROVE  UNCHANGED <<blocks, events, creator, syncer>>
  BY <1>6 DEF Gossip, GossipLost, GossipCheck, GossipInsert, AddPeer, tables, requests
<1>7. UNCHANGED vars => UNCHANGED <<blocks, events, creator, syncer>>
  BY DEF vars, tables, requests
<1> QED
  BY <1>1, <1>2, <1>3, <1>4, <1>5, <1>6, <1>7, CreateStepOnce, SyncStepOnce DEF Next

LEMMA OnceInvariant == ASSUME Requests = {} PROVE Spec => [](Inv /\ OnceInv)
<1>1. Inv /\ OnceInv /\ [Next]_vars => OnceInv'  BY NextOnce
<1>2. Spec => []Inv  BY LinkInvariant DEF ReadsOrPeers
<1> QED  BY <1>1, <1>2, InitOnce, PTL DEF Spec

(* No event is in two blocks of a chain, whatever is gossiped twice,        *)
(* collected from several pools, damaged on the way, truncated and adopted: *)
(* create_block_from_events filters under its lock, and nothing else writes *)
(* the tables meanwhile.                                                    *)
THEOREM EventsConfirmedOnce == ASSUME Requests = {} PROVE Spec => []NoEventTwice
<1>1. Inv /\ OnceInv => NoEventTwice
  <2> SUFFICES ASSUME Inv, OnceInv, NEW n \in Node
               PROVE  \A b, c \in blocks[n] : b # c => b.events \cap c.events = {}
      BY DEF NoEventTwice
  <2>1. n \in Observer /\ \A b \in blocks[n] : Unrepeated(b.hash)
        BY AllObserve DEF OnceInv, NodeOnce
  <2> QED  BY <2>1, NodeFacts, OneBlockEach
<1> QED  BY <1>1, OnceInvariant, PTL

-----------------------------------------------------------------------------
(* The chains as one log.  Where the registries agree on the public nodes,  *)
(* nothing changes that, and the loops alone produce, every block is one of *)
(* the node whose turn its number was (Settled), so nobody is ahead of the  *)
(* node that adds the next one, and no chain ever forks.                    *)
Turn(k, R) == {p \in R : Cardinality({q \in R : q < p}) = (k - 1) % Cardinality(R)}

\* R are the public nodes that every registry lists; loops see no blind reads.
LoopsAgree(R) ==
    /\ Requests = {} /\ Forced = {} /\ ~BlindReads
    /\ R # {}
    /\ \A n \in Node : Rotation({n} \cup Bootstrap[n]) = R
    /\ \A e \in Event : PeerAlive[e] \cap Public = {} /\ PeerDead[e] \cap Public = {}
    /\ \A n, p \in Node, up \in BOOLEAN : <<n, p, up>> \in Operated => p \notin Public

Settled(b, R) ==
    /\ \E m \in Node : b \in blocks[m]
    /\ \A p \in Turn(b.number, R) : b \in blocks[p]

RingInv(R) ==
    \A n \in Node :
        /\ Rotation(alive[n]) = R
        /\ syncer[n].phase = "idle" \/ Rotation(syncer[n].alive) = R

NoFork == \A n \in Node : syncer[n].phase \notin Truncating \cup {"replay"}

SettledInv(R) ==
    \A n \in Node :
        /\ \A b \in blocks[n] : Settled(b, R)
        /\ \A b \in syncer[n].reply : HashOK(b) => Settled(b, R)

\* The task c of a node with table B is in its node's turn, and has events.
OnTurn(n, c, B, R) ==
    /\ c.phase \in {"collect", "gated"} \cup InTx => n \in Turn(Tip(B) + 1, R)
    /\ c.phase \in {"gated"} \cup InTx => c.batch # {}

TurnInv(R) == \A n \in Node : OnTurn(n, creator[n][bg], blocks[n], R)

LogInv(R) == RingInv(R) /\ NoFork /\ SettledInv(R) /\ TurnInv(R)

LEMMA ProducerIsTurn ==
    ASSUME NEW k, NEW A
    PROVE  producer_id_for_block(k, A) = Turn(k, Rotation(A))
BY DEF producer_id_for_block, Turn

\* It is the turn of one node at most.
LEMMA OneTurn ==
    ASSUME NEW R, R \subseteq Node, NEW k, NEW p \in Turn(k, R), NEW r \in Turn(k, R)
    PROVE  p = r
<1> DEFINE Below(x) == {q \in R : q < x}
<1>1. IsFiniteSet(R) /\ R \subseteq Nat /\ p \in R /\ r \in R
      BY NodeAssumption, FS_Subset DEF Turn
<1>2. Cardinality(Below(p)) = Cardinality(Below(r))  BY DEF Turn
<1>3. ASSUME NEW x \in R, NEW y \in R, x < y PROVE Cardinality(Below(x)) # Cardinality(Below(y))
  <2>1. x \in Nat /\ y \in Nat /\ Below(x) \subseteq R /\ Below(y) \subseteq R  BY <1>1
  <2>2. Below(x) \subseteq Below(y)
    <3> SUFFICES ASSUME NEW q \in R, q < x PROVE q < y  OBVIOUS
    <3> QED  BY <1>1, <1>3, <2>1
  <2>3. x \in Below(y) /\ x \notin Below(x)  BY <1>3, <2>1
  <2>4. IsFiniteSet(Below(y))  BY <1>1, <2>1, FS_Subset
  <2> HIDE DEF Below
  <2> QED  BY <2>2, <2>3, <2>4, FS_Subset
<1> HIDE DEF Below
<1>4. ~(p < r) /\ ~(r < p)  BY <1>1, <1>2, <1>3
<1> QED  BY <1>1, <1>4

\* Peer list updates, POST /peers and restarts leave the rotation as it is.
LEMMA UpdatesKeepRing ==
    ASSUME NEW R, LoopsAgree(R), NEW A, NEW E \in SUBSET Event
    PROVE  Rotation(apply_peer_list_updates(A, E)) = Rotation(A)
<1>1. \A e \in E : PeerAlive[e] \cap Public = {} /\ PeerDead[e] \cap Public = {}
      BY DEF LoopsAgree
<1> QED  BY <1>1 DEF Rotation, apply_peer_list_updates

LEMMA AliveKept ==
    ASSUME NEW R, LoopsAgree(R), TypeInv, \A n \in Node : Rotation(alive[n]) = R, [Next]_vars
    PROVE  \A n \in Node : Rotation(alive'[n]) = R
<1> SUFFICES ASSUME NEW n \in Node PROVE Rotation(alive'[n]) = R  OBVIOUS
<1>1. alive \in [Node -> SUBSET Node] /\ Rotation(alive[n]) = R
      /\ creator \in [Node -> [Task -> Creator]] /\ syncer \in [Node -> Syncer]
      BY DEF TypeInv, TypeOK
<1>2. ASSUME NEW m \in Node, NEW E \in SUBSET Event,
             alive' = [alive EXCEPT ![m] = apply_peer_list_updates(@, E)]
      PROVE  Rotation(alive'[n]) = R
  BY <1>1, <1>2, UpdatesKeepRing
<1>3. ASSUME NEW m \in Node, NEW t \in Task, CreateStep(m, t) PROVE Rotation(alive'[n]) = R
  <2>1. UNCHANGED alive \/ ApplyCreated(m, t)
        BY <1>3 DEF CreateStep, CheckProducer, CollectPending, BeginTx, ReadTip, ReadNumber,
           CommitBlock, BlockNumberTaken, CreateFails
  <2>2. creator[m][t].batch \in SUBSET Event  BY <1>1 DEF Creator
  <2> QED  BY <1>1, <1>2, <2>1, <2>2 DEF ApplyCreated
<1>4. ASSUME NEW m \in Node, SyncStep(m) PROVE Rotation(alive'[n]) = R
  <2>1. UNCHANGED alive \/ AdoptDone(m)
        BY <1>4 DEF SyncStep, BeginRound, EndRound, FetchBlocks, FetchFails, LoadLocal, ScanBlock,
           ScanDone, InsertSynced, SyncNumberTaken, SyncFails, CleanupPending, DeleteEvents, DeleteBlocks,
           CommitTruncate, ReplayProjections, AdoptBlock
  <2>2. Events(syncer[m].reply) \in SUBSET Event  BY <1>1 DEF Syncer, Block, Events
  <2> QED  BY <1>1, <1>2, <2>1, <2>2 DEF AdoptDone
<1>5. ASSUME NEW m \in Node, NEW p \in Node, NEW up \in BOOLEAN, AddPeer(m, p, up)
      PROVE  Rotation(alive'[n]) = R
  <2>1. p \notin Public  BY <1>5 DEF AddPeer, LoopsAgree
  <2>2. alive'[n] \in {alive[n], alive[n] \cup {p}, alive[n] \ {p}}  BY <1>1, <1>5 DEF AddPeer
  <2> QED  BY <1>1, <2>1, <2>2 DEF Rotation
<1>6. ASSUME NEW m \in Node, Crash(m) PROVE Rotation(alive'[n]) = R
  <2>1. alive'[n] = alive[n] \/ alive'[n] = alive[n] \cup ({n} \cup Bootstrap[n])
        BY <1>1, <1>6 DEF Crash
  <2>2. Rotation({n} \cup Bootstrap[n]) = R  BY DEF LoopsAgree
  <2> QED  BY <1>1, <2>1, <2>2 DEF Rotation
<1>7. ASSUME NEW m \in Node, Client(m) \/ Gossip(m) PROVE UNCHANGED alive
  BY <1>7 DEF Client, AddEventValidate, AddEventInsert, Gossip, GossipLost, GossipCheck, GossipInsert
<1>8. UNCHANGED vars => UNCHANGED alive  BY DEF vars
<1> QED  BY <1>1, <1>3, <1>4, <1>5, <1>6, <1>7, <1>8 DEF Next

\* A round works on the registry it has read when it began.
LEMMA RoundRegistry ==
    ASSUME TypeInv, NEW n \in Node, SyncStep(n)
    PROVE  \/ syncer'[n].phase = "idle"
           \/ syncer'[n].alive = alive[n]
           \/ syncer[n].phase # "idle" /\ syncer'[n].alive = syncer[n].alive
<1>1. syncer \in [Node -> Syncer] /\ syncer[n] \in Syncer  BY DEF TypeInv, TypeOK
<1>2. \A s : SetSyncer(n, s) => syncer'[n] = s  BY <1>1 DEF SetSyncer
<1>3. \A phase, registry, todo : SyncerAt(phase, registry, todo).alive = registry
      BY DEF SyncerAt
<1>4. \A b : NextBlock(n, b).alive = syncer[n].alive  BY <1>1 DEF NextBlock, Syncer
<1>5. CASE BeginRound(n)
  BY <1>2, <1>3, <1>5 DEF BeginRound
<1>6. CASE EndRound(n)
  BY <1>2, <1>6 DEF EndRound, NoSyncer, SyncerAt
<1>7. ASSUME ~BeginRound(n), ~EndRound(n)
      PROVE  syncer[n].phase # "idle" /\ syncer'[n].alive = syncer[n].alive
  <2> DEFINE Same == syncer'[n].alive = syncer[n].alive
  <2>1. syncer[n].phase # "idle"
        BY <1>7 DEF SyncStep, FetchBlocks, FetchFails, LoadLocal, ScanBlock,
           ScanDone, InsertSynced, SyncNumberTaken, SyncFails, CleanupPending, DeleteEvents, DeleteBlocks,
           CommitTruncate, ReplayProjections, AdoptBlock, AdoptDone, Truncating
  <2>2. ASSUME ScanDone(n) \/ AdoptDone(n) \/ \E p \in syncer[n].todo : FetchFails(n, p)
        PROVE  Same
    <3>1. \E todo : SetSyncer(n, SyncerAt("peers", syncer[n].alive, todo))
          BY <2>2 DEF ScanDone, AdoptDone, FetchFails, NextPeer
    <3> QED  BY <1>2, <1>3, <3>1
  <2>3. ASSUME NEW p \in syncer[n].todo, NEW reply \in Replies(p), FetchBlocks(n, p, reply)
        PROVE  Same
    BY <1>2, <2>3 DEF FetchBlocks, SyncerAt
  <2>4. SyncFails(n) \/ (\E b \in syncer[n].rest \cup syncer[n].suffix : SyncNumberTaken(n, b)) => Same
    BY <1>2, <1>4 DEF SyncFails, SyncNumberTaken, AdoptError
  <2>5. ASSUME NEW b \in syncer[n].suffix, NEW class \in SyncBlockAction, AdoptBlock(n, b, class)
        PROVE  Same
    BY <1>1, <1>2, <1>4, <2>5 DEF AdoptBlock, AdoptError, Syncer
  <2>6. ASSUME NEW b \in syncer[n].rest, NEW class \in SyncBlockAction, ScanBlock(n, b, class)
        PROVE  Same
    BY <1>1, <1>2, <1>4, <2>6 DEF ScanBlock, Syncer
  <2>7. ASSUME NEW b \in syncer[n].rest,
               DeleteEvents(n, b) \/ DeleteBlocks(n, b) \/ CommitTruncate(n, b) \/ ReplayProjections(n, b)
        PROVE  Same
    BY <1>1, <1>2, <2>7 DEF DeleteEvents, DeleteBlocks, CommitTruncate, ReplayProjections, Syncer
  <2>8. ASSUME NEW local \in {{}, blocks[n]}, LoadLocal(n, local) PROVE Same
    BY <1>1, <1>2, <2>8 DEF LoadLocal, Syncer
  <2>9. ASSUME NEW b \in syncer[n].rest \cup syncer[n].suffix, InsertSynced(n, b) PROVE Same
    BY <1>1, <1>2, <2>9 DEF InsertSynced, Syncer
  <2>10. ASSUME NEW b \in syncer[n].rest \cup syncer[n].suffix, NEW gone \in SUBSET b.events,
                CleanupPending(n, b, gone)
         PROVE  Same
    <3>1. [syncer[n] EXCEPT !.phase = "adopt", !.suffix = @ \ {b}].alive = syncer[n].alive
          BY <1>1 DEF Syncer
    <3> QED  BY <1>2, <1>4, <2>10, <3>1 DEF CleanupPending
  <2>11. Same
    BY <1>7, <2>2, <2>3, <2>4, <2>5, <2>6, <2>7, <2>8, <2>9, <2>10 DEF SyncStep
  <2> QED  BY <2>1, <2>11
<1> QED  BY <1>2, <1>5, <1>6, <1>7

LEMMA RingStep ==
    ASSUME NEW R, LoopsAgree(R), TypeInv, RingInv(R), [Next]_vars
    PROVE  RingInv(R)'
<1>1. \A n \in Node : Rotation(alive'[n]) = R  BY AliveKept DEF RingInv
<1>2. syncer \in [Node -> Syncer]  BY DEF TypeInv, TypeOK
<1>3. ASSUME NEW n \in Node PROVE syncer'[n].phase = "idle" \/ Rotation(syncer'[n].alive) = R
  <2>1. syncer[n].phase = "idle" \/ Rotation(syncer[n].alive) = R  BY DEF RingInv
  <2>2. CASE syncer'[n] = syncer[n]  BY <2>1, <2>2
  <2>3. CASE SyncStep(n)
    BY <2>1, <2>3, RoundRegistry DEF RingInv
  <2>4. CASE Crash(n)
    BY <1>2, <2>4 DEF Crash, NoSyncer, SyncerAt
  <2>5. ASSUME NEW m \in Node, m # n, SyncStep(m) \/ Crash(m) PROVE syncer'[n] = syncer[n]
    <3>1. \E s : syncer' = [syncer EXCEPT ![m] = s]
          BY <2>5 DEF SyncStep, BeginRound, EndRound, FetchBlocks, FetchFails, LoadLocal, ScanBlock,
             ScanDone, InsertSynced, SyncNumberTaken, SyncFails, AdoptError, CleanupPending,
             DeleteEvents, DeleteBlocks,
           CommitTruncate, ReplayProjections, AdoptBlock, AdoptDone, SetSyncer, Crash
    <3> QED  BY <1>2, <2>5, <3>1
  <2>6. ASSUME NEW m \in Node, \/ Client(m) \/ Gossip(m) \/ (\E t \in Task : CreateStep(m, t))
                               \/ \E p \in Node, up \in BOOLEAN : AddPeer(m, p, up)
        PROVE  syncer' = syncer
    BY <2>6 DEF Client, AddEventValidate, AddEventInsert, Gossip, GossipLost, GossipCheck,
       GossipInsert, CreateStep, CheckProducer, CollectPending, BeginTx, ReadTip, ReadNumber,
       CommitBlock, BlockNumberTaken, CreateFails, ApplyCreated, AddPeer
  <2>7. UNCHANGED vars => syncer' = syncer  BY DEF vars
  <2> QED  BY <2>2, <2>3, <2>4, <2>5, <2>6, <2>7 DEF Next
<1> QED  BY <1>1, <1>3 DEF RingInv

\* A block that differs from the one at its number is not settled.
LEMMA ForksAreUnsettled ==
    ASSUME Requests = {}, NEW R, LogInv(R), Inv, NEW n \in Node, NEW b \in syncer[n].reply,
           "fork" \in Classes(n, b), n \in Turn(b.number, R)
    PROVE  FALSE
<1>1. n \in Observer  BY AllObserve
<1>2. HashOK(b) /\ b.number \in Numbers(blocks[n]) /\ BlockAt(blocks[n], b.number).hash # b.hash
      BY DEF Classes, classify_block
<1>3. b \in blocks[n]  BY <1>2 DEF LogInv, SettledInv, Settled
<1>4. BlockAt(blocks[n], b.number) \in blocks[n] /\ BlockAt(blocks[n], b.number).number = b.number
      BY <1>2, BlockAtNumber
<1>5. Unique(blocks[n])  BY <1>1, NodeFacts, LinkedFacts
<1> QED  BY <1>2, <1>3, <1>4, <1>5 DEF Unique

LEMMA NoForkStep ==
    ASSUME NEW R, LoopsAgree(R), LogInv(R), Inv, [Next]_vars
    PROVE  NoFork'
<1> USE DEF Truncating
<1> SUFFICES ASSUME NEW n \in Node PROVE syncer'[n].phase \notin Truncating \cup {"replay"}
    BY DEF NoFork
<1>1. /\ Requests = {} /\ n \in Observer
      /\ syncer[n].phase \notin Truncating \cup {"replay"}
      /\ syncer \in [Node -> Syncer] /\ syncer[n] \in Syncer
      /\ syncer[n].rest \subseteq syncer[n].reply
      BY AllObserve DEF LoopsAgree, LogInv, NoFork, Inv, TypeInv, TypeOK, ConfirmInv, SyncOK
<1>2. CASE syncer' = syncer  BY <1>1, <1>2
<1>3. CASE SyncStep(n)
  <2>1. \A s : SetSyncer(n, s) => syncer'[n] = s  BY <1>1 DEF SetSyncer
  <2>2. ASSUME NEW b \in syncer[n].rest, NEW class \in SyncBlockAction, ScanBlock(n, b, class)
        PROVE  syncer'[n].phase \notin Truncating \cup {"replay"}
    <3>1. ~(class = "fork" /\ SelfHeals(n, b))
      <4> SUFFICES ASSUME class = "fork", SelfHeals(n, b) PROVE FALSE  OBVIOUS
      <4>1. Rotation(syncer[n].alive) = R  BY <2>2 DEF ScanBlock, LogInv, RingInv
      <4>2. n \in Turn(b.number, R)  BY <4>1, ProducerIsTurn DEF SelfHeals
      <4> QED  BY <1>1, <2>2, <4>2, ForksAreUnsettled DEF ScanBlock
    <3>2. SetSyncer(n, [syncer[n] EXCEPT !.phase = "insert"]) \/ SetSyncer(n, NextBlock(n, b))
          BY <2>2, <3>1 DEF ScanBlock
    <3> QED  BY <1>1, <2>1, <3>2 DEF NextBlock, Syncer
  <2>3. \A phase, registry, todo : SyncerAt(phase, registry, todo).phase = phase
        BY DEF SyncerAt
  <2>4. \A b : NextBlock(n, b).phase = "scan"  BY <1>1 DEF NextBlock, Syncer
  <2>5. ASSUME BeginRound(n) \/ EndRound(n) \/ ScanDone(n) \/ AdoptDone(n)
               \/ \E p \in syncer[n].todo : FetchFails(n, p)
        PROVE  syncer'[n].phase \notin Truncating \cup {"replay"}
    <3>1. SetSyncer(n, NoSyncer) \/ \E registry, todo : SetSyncer(n, SyncerAt("peers", registry, todo))
          BY <2>5 DEF BeginRound, EndRound, ScanDone, AdoptDone, FetchFails, NextPeer
    <3> QED  BY <2>1, <2>3, <3>1 DEF NoSyncer
  <2>6. ASSUME NEW p \in syncer[n].todo, NEW reply \in Replies(p), FetchBlocks(n, p, reply)
        PROVE  syncer'[n].phase \notin Truncating \cup {"replay"}
    BY <2>1, <2>6 DEF FetchBlocks, SyncerAt
  <2>7. ASSUME NEW b \in syncer[n].rest,
               DeleteEvents(n, b) \/ DeleteBlocks(n, b) \/ CommitTruncate(n, b) \/ ReplayProjections(n, b)
        PROVE  FALSE
    BY <1>1, <2>7 DEF DeleteEvents, DeleteBlocks, CommitTruncate, ReplayProjections
  <2>8. ASSUME SyncFails(n) \/ \E b \in syncer[n].rest \cup syncer[n].suffix : SyncNumberTaken(n, b)
        PROVE  syncer'[n].phase \notin Truncating \cup {"replay"}
    BY <2>1, <2>4, <2>8 DEF SyncFails, SyncNumberTaken, AdoptError
  <2>9. ASSUME NEW b \in syncer[n].suffix, NEW class \in SyncBlockAction, AdoptBlock(n, b, class)
        PROVE  syncer'[n].phase \notin Truncating \cup {"replay"}
    BY <1>1, <2>1, <2>4, <2>9 DEF AdoptBlock, AdoptError, Syncer
  <2>10. ASSUME NEW local \in {{}, blocks[n]}, LoadLocal(n, local)
         PROVE  syncer'[n].phase \notin Truncating \cup {"replay"}
    BY <1>1, <2>1, <2>10 DEF LoadLocal, Syncer
  <2>11. ASSUME NEW b \in syncer[n].rest \cup syncer[n].suffix, InsertSynced(n, b)
         PROVE  syncer'[n].phase \notin Truncating \cup {"replay"}
    BY <1>1, <2>1, <2>11 DEF InsertSynced, Syncer
  <2>12. ASSUME NEW b \in syncer[n].rest \cup syncer[n].suffix, NEW gone \in SUBSET b.events,
                CleanupPending(n, b, gone)
         PROVE  syncer'[n].phase \notin Truncating \cup {"replay"}
    <3>1. [syncer[n] EXCEPT !.phase = "adopt", !.suffix = @ \ {b}].phase = "adopt"
          BY <1>1 DEF Syncer
    <3> QED  BY <2>1, <2>4, <2>12, <3>1 DEF CleanupPending
  <2> QED
    BY <1>3, <2>2, <2>5, <2>6, <2>7, <2>8, <2>9, <2>10, <2>11, <2>12 DEF SyncStep
<1>4. CASE Crash(n)
  BY <1>1, <1>4 DEF Crash, NoSyncer, SyncerAt
<1>5. ASSUME NEW m \in Node, m # n, SyncStep(m) \/ Crash(m)
      PROVE  syncer'[n].phase \notin Truncating \cup {"replay"}
  BY <1>1, <1>5, OthersLeftAlone DEF Inv
<1>6. ASSUME NEW m \in Node, \/ Client(m) \/ Gossip(m) \/ (\E t \in Task : CreateStep(m, t))
                             \/ \E p \in Node, up \in BOOLEAN : AddPeer(m, p, up)
      PROVE  syncer' = syncer
  BY <1>6 DEF Client, AddEventValidate, AddEventInsert, Gossip, GossipLost, GossipCheck,
     GossipInsert, CreateStep, CheckProducer, CollectPending, BeginTx, ReadTip, ReadNumber,
     CommitBlock, BlockNumberTaken, CreateFails, ApplyCreated, AddPeer
<1>7. UNCHANGED vars => syncer' = syncer  BY DEF vars
<1> QED  BY <1>2, <1>3, <1>4, <1>5, <1>6, <1>7 DEF Next

\* The ways a chain changes when none forks.
LEMMA ChainSteps ==
    ASSUME NEW R, LoopsAgree(R), LogInv(R), Inv, [Next]_vars
    PROVE  \/ UNCHANGED blocks
           \/ \E n \in Node, s \in Stamp : CommitBlock(n, bg, s)
           \/ \E n \in Node, b \in Block : SyncAdds(n, b)
<1>1. Requests = {} /\ Observer = Node  BY AllObserve DEF LoopsAgree
<1>2. ASSUME NEW n \in Node, NEW t \in Task, CreateStep(n, t)
      PROVE  UNCHANGED blocks \/ \E s \in Stamp : CommitBlock(n, bg, s)
  <2>1. \/ UNCHANGED blocks
        \/ creator[n][t].phase = "number" /\ \E s \in Stamp : CommitBlock(n, t, s)
        BY <1>2 DEF CreateStep, CheckProducer, CollectPending, BeginTx, ReadTip, ReadNumber,
           CommitBlock, BlockNumberTaken, CreateFails, ApplyCreated, tables
  <2> QED  BY <1>1, <2>1, LoopTask, LinkedLoop DEF Inv
<1>3. ASSUME NEW n \in Node, SyncStep(n)
      PROVE  UNCHANGED blocks \/ \E b \in Block : SyncAdds(n, b)
  <2>1. SyncKeeps(n) \/ (\E b \in Block : SyncAdds(n, b)) \/ (\E k \in Nat : SyncDrops(n, k))
        BY <1>1, <1>3, SyncCases
  <2>2. ~\E k \in Nat : SyncDrops(n, k)  BY DEF SyncDrops, LogInv, NoFork, Truncating
  <2> QED  BY <2>1, <2>2 DEF SyncKeeps
<1>4. ASSUME NEW n \in Node, \/ Client(n) \/ Gossip(n) \/ Crash(n)
                             \/ \E p \in Node, up \in BOOLEAN : AddPeer(n, p, up)
      PROVE  UNCHANGED blocks
  BY <1>4 DEF Client, AddEventValidate, AddEventInsert, Gossip, GossipLost, GossipCheck,
     GossipInsert, AddPeer, Crash, tables
<1>5. UNCHANGED vars => UNCHANGED blocks  BY DEF vars, tables
<1> QED  BY <1>2, <1>3, <1>4, <1>5 DEF Next

\* A commit puts a block of new events on top, in its node's turn.
LEMMA CommitFacts ==
    ASSUME Requests = {}, NEW R, LogInv(R), Inv, OnceInv, NEW n \in Node, NEW s \in Stamp,
           CommitBlock(n, bg, s)
    PROVE  \E b \in Block :
               /\ blocks' = [blocks EXCEPT ![n] = @ \cup {b}]
               /\ HashOK(b)
               /\ b.number = Tip(blocks[n]) + 1 /\ b.prev = TipHash(blocks[n])
               /\ b.events # {} /\ b.events \cap Events(blocks[n]) = {}
               /\ n \in Turn(b.number, R)
<1> DEFINE c == creator[n][bg]
           b == NewBlock(c.number, s, c.prev, c.batch)
<1>1. n \in Observer  BY AllObserve
<1>2. c.phase = "number" /\ blocks' = [blocks EXCEPT ![n] = @ \cup {b}]
      BY DEF CommitBlock
<1>3. c.number = Tip(blocks[n]) + 1 /\ c.prev = TipHash(blocks[n])
      BY <1>1, <1>2 DEF Inv, LinkInv, NodeLinked, TipKnown
<1>4. /\ b \in Block /\ HashOK(b)
      /\ b.number = c.number /\ b.prev = c.prev /\ b.events = c.batch
      BY <1>1, NodeFacts, NewBlockType DEF NewBlock, Creator
<1>5. c.batch # {} /\ n \in Turn(Tip(blocks[n]) + 1, R)
      BY <1>2 DEF LogInv, TurnInv, OnTurn, InTx
<1>6. c.batch \cap Events(blocks[n]) = {}
      BY <1>2 DEF OnceInv, NodeOnce, InTx
<1> HIDE DEF b, c
<1> QED  BY <1>2, <1>3, <1>4, <1>5, <1>6

\* A block that a loop copies is one of another chain, that is longer.
LEMMA CopyFacts ==
    ASSUME Requests = {}, NEW R, LogInv(R), Inv, NEW n \in Node, NEW b \in Block, SyncAdds(n, b)
    PROVE  /\ Settled(b, R)
           /\ \E m \in Node : b \in blocks[m] /\ Tip(blocks[n]) < Tip(blocks[m])
<1>1. Settled(b, R)  BY DEF SyncAdds, LogInv, SettledInv
<1>2. PICK m \in Node : b \in blocks[m]  BY <1>1 DEF Settled
<1>3. b.number \in 1 .. Tip(blocks[m]) /\ Tip(blocks[m]) \in Nat /\ Tip(blocks[n]) \in Nat
      BY <1>2, AllObserve, NodeFacts, LinkedFacts
<1>4. b.number = Tip(blocks[n]) + 1  BY DEF SyncAdds
<1> QED  BY <1>1, <1>2, <1>3, <1>4

\* Nobody has a block at a number that the node whose turn it is has not.
LEMMA NobodyAhead ==
    ASSUME Requests = {}, NEW R, LogInv(R), Inv, NEW n \in Node,
           n \in Turn(Tip(blocks[n]) + 1, R), NEW m \in Node
    PROVE  Tip(blocks[m]) <= Tip(blocks[n])
<1>1. /\ Tip(blocks[n]) \in Nat /\ Tip(blocks[m]) \in Nat
      /\ Numbers(blocks[m]) = 1 .. Tip(blocks[m])
      /\ \A c \in blocks[n] : c.number \in 1 .. Tip(blocks[n])
      BY AllObserve, NodeFacts, LinkedFacts
<1> SUFFICES ASSUME Tip(blocks[n]) < Tip(blocks[m]) PROVE FALSE  BY <1>1
<1>2. Tip(blocks[n]) + 1 \in Numbers(blocks[m])  BY <1>1
<1>3. PICK c \in blocks[m] : c.number = Tip(blocks[n]) + 1  BY <1>2 DEF Numbers
<1>4. c \in blocks[n]  BY <1>3 DEF LogInv, SettledInv, Settled
<1> QED  BY <1>1, <1>3, <1>4

LEMMA SettledStep ==
    ASSUME NEW R, R \subseteq Node, LoopsAgree(R), LogInv(R), Inv, OnceInv, [Next]_vars
    PROVE  SettledInv(R)'
<1>1. /\ Requests = {} /\ Observer = Node
      /\ blocks \in [Node -> SUBSET Block] /\ syncer \in [Node -> Syncer]
      BY AllObserve DEF LoopsAgree, Inv, TypeInv, TypeOK
<1>2. \A m \in Node : blocks[m] \subseteq blocks'[m]
  <2>1. ASSUME NEW n \in Node, NEW b, blocks' = [blocks EXCEPT ![n] = @ \cup {b}]
        PROVE  \A m \in Node : blocks[m] \subseteq blocks'[m]
    BY <1>1, <2>1
  <2>2. ASSUME NEW n \in Node, NEW s \in Stamp, CommitBlock(n, bg, s)
        PROVE  \A m \in Node : blocks[m] \subseteq blocks'[m]
    BY <1>1, <2>1, <2>2, CommitFacts
  <2>3. ASSUME NEW n \in Node, NEW b \in Block, SyncAdds(n, b)
        PROVE  \A m \in Node : blocks[m] \subseteq blocks'[m]
    BY <2>1, <2>3 DEF SyncAdds
  <2> QED  BY <2>2, <2>3, ChainSteps
<1>3. \A b : Settled(b, R) => Settled(b, R)'
  <2>1. \A k : Turn(k, R) \subseteq Node  BY DEF Turn
  <2> QED  BY <1>2, <2>1 DEF Settled
<1>4. ASSUME NEW n \in Node, NEW b \in blocks'[n] PROVE Settled(b, R)'
  <2>1. CASE b \in blocks[n]
    BY <1>3, <2>1 DEF LogInv, SettledInv
  <2>2. CASE b \notin blocks[n]
    <3>1. ASSUME NEW m \in Node, NEW s \in Stamp, CommitBlock(m, bg, s) PROVE Settled(b, R)'
      <4>1. PICK c \in Block : /\ blocks' = [blocks EXCEPT ![m] = @ \cup {c}]
                               /\ m \in Turn(c.number, R)
            BY <1>1, <3>1, CommitFacts
      <4>2. b = c /\ b \in blocks'[m]  BY <1>1, <2>2, <4>1
      <4>3. \A p \in Turn(b.number, R) : p = m  BY <4>1, <4>2, OneTurn
      <4> QED  BY <4>2, <4>3 DEF Settled
    <3>2. ASSUME NEW m \in Node, NEW c \in Block, SyncAdds(m, c) PROVE Settled(b, R)'
      <4>1. b = c  BY <1>1, <2>2, <3>2 DEF SyncAdds
      <4> QED  BY <1>1, <1>3, <3>2, <4>1, CopyFacts
    <3> QED  BY <2>2, <3>1, <3>2, ChainSteps
  <2> QED  BY <2>1, <2>2
<1>5. ASSUME NEW n \in Node, NEW b \in syncer'[n].reply, HashOK(b) PROVE Settled(b, R)'
  <2>1. CASE b \in syncer[n].reply
    BY <1>3, <1>5, <2>1 DEF LogInv, SettledInv
  <2>2. ASSUME NEW p \in Node, syncer'[n].reply \in Replies(p), SyncStep(n) PROVE Settled(b, R)'
    <3>1. PICK c \in blocks[p] : b.hash = c.hash  BY <2>2, RepliedHashes DEF Inv
    <3>2. b \in Block
      <4>1. Replies(p) \subseteq SUBSET Block  BY <2>2, RepliesType DEF Inv
      <4> QED  BY <2>2, <4>1
    <3>3. c \in Block /\ HashOK(c)  BY <1>1 DEF Inv, ConfirmInv, ChainOK
    <3>4. b = c  BY <1>5, <3>1, <3>2, <3>3, HashCommits
    <3> QED  BY <1>3, <3>4 DEF LogInv, SettledInv
  <2>3. CASE SyncStep(n)
    <3>1. \/ syncer'[n].reply \subseteq syncer[n].reply
          \/ \E p \in Node : syncer'[n].reply \in Replies(p)
          BY <1>1, <2>3, SyncCases DEF SyncKeeps, SyncAdds, SyncDrops
    <3> QED  BY <1>5, <2>1, <2>2, <2>3, <3>1
  <2>4. CASE Crash(n)
    BY <1>1, <1>5, <2>4 DEF Crash, NoSyncer, SyncerAt
  <2>5. ASSUME NEW m \in Node, m # n, SyncStep(m) \/ Crash(m) PROVE syncer'[n] = syncer[n]
    BY <2>5, OthersLeftAlone DEF Inv
  <2>6. ASSUME NEW m \in Node, \/ Client(m) \/ Gossip(m) \/ (\E t \in Task : CreateStep(m, t))
                               \/ \E p \in Node, up \in BOOLEAN : AddPeer(m, p, up)
        PROVE  syncer' = syncer
    BY <2>6 DEF Client, AddEventValidate, AddEventInsert, Gossip, GossipLost, GossipCheck,
       GossipInsert, CreateStep, CheckProducer, CollectPending, BeginTx, ReadTip, ReadNumber,
       CommitBlock, BlockNumberTaken, CreateFails, ApplyCreated, AddPeer
  <2>7. UNCHANGED vars => syncer' = syncer  BY DEF vars
  <2> QED  BY <1>5, <2>1, <2>3, <2>4, <2>5, <2>6, <2>7 DEF Next
<1> QED  BY <1>4, <1>5 DEF SettledInv

LEMMA TurnStep ==
    ASSUME NEW R, LoopsAgree(R), LogInv(R), Inv, OnceInv, [Next]_vars
    PROVE  TurnInv(R)'
<1>1. Requests = {} /\ Observer = Node  BY AllObserve DEF LoopsAgree
<1> SUFFICES ASSUME NEW n \in Node
             PROVE  OnTurn(n, creator'[n][bg], blocks'[n], R)
    BY DEF TurnInv
<1>2. OnTurn(n, creator[n][bg], blocks[n], R)  BY DEF LogInv, TurnInv
<1>3. CASE creator'[n] = creator[n] /\ blocks'[n] = blocks[n]
  BY <1>2, <1>3
<1>4. ASSUME creator'[n][bg].phase \notin {"collect", "gated"} \cup InTx
      PROVE  OnTurn(n, creator'[n][bg], blocks'[n], R)
  BY <1>4 DEF OnTurn
<1>5. ASSUME NEW t \in Task, CreateStep(n, t)
      PROVE  OnTurn(n, creator'[n][bg], blocks'[n], R)
  <2>1. creator[n][t].phase # "idle"
        BY <1>5 DEF CreateStep, CheckProducer, CollectPending, BeginTx, ReadTip, ReadNumber,
           CommitBlock, BlockNumberTaken, CreateFails, ApplyCreated, InTx
  <2>2. t = bg  BY <1>1, <2>1, LoopTask, LinkedLoop DEF Inv
  <2>3. \A c : SetCreator(n, t, c) => creator'[n][bg] = c
        BY <1>1, <2>2, NodeFacts DEF SetCreator
  <2>4. \A phase, batch : /\ CreatorAt(phase, batch).phase = phase
                           /\ CreatorAt(phase, batch).batch = batch
        BY DEF CreatorAt
  <2>5. NoCreator.phase = "idle"  BY <2>4 DEF NoCreator
  <2>6. ASSUME NEW next \in {1, Tip(blocks[n]) + 1}, CheckProducer(n, t, next)
        PROVE  creator'[n][bg].phase = "idle"
               \/ (creator'[n][bg].phase = "collect" /\ n \in Turn(Tip(blocks[n]) + 1, R))
    <3>1. next = Tip(blocks[n]) + 1 /\ Forced = {} /\ Rotation(alive[n]) = R /\ R # {}
          BY <2>6 DEF CheckProducer, Read, LoopsAgree, LogInv, RingInv
    <3>2. resolve_block_producer(n, next, alive[n]) = Turn(next, R)
          BY <3>1, ProducerIsTurn DEF resolve_block_producer
    <3> QED  BY <2>3, <2>4, <2>5, <2>6, <3>1, <3>2 DEF CheckProducer
  <2>7. ASSUME NEW reached, NEW confirmed, CollectPending(n, t, reached, confirmed)
        PROVE  creator'[n][bg].phase = "idle"
               \/ (/\ creator'[n][bg].phase = "gated" /\ creator'[n][bg].batch # {}
                   /\ n \in Turn(Tip(blocks[n]) + 1, R))
    BY <1>2, <2>2, <2>3, <2>4, <2>5, <2>7 DEF CollectPending, OnTurn
  <2>8. ASSUME BeginTx(n, t) \/ ReadTip(n, t) \/ ReadNumber(n, t)
        PROVE  creator'[n][bg].phase = "idle"
               \/ (/\ creator'[n][bg].phase \in InTx /\ creator'[n][bg].batch # {}
                   /\ n \in Turn(Tip(blocks[n]) + 1, R))
    <3>1. creator[n][bg].phase \in {"gated"} \cup InTx
          BY <2>2, <2>8 DEF BeginTx, ReadTip, ReadNumber, InTx
    <3>2. n \in Turn(Tip(blocks[n]) + 1, R) /\ creator[n][bg].batch # {}
          BY <1>2, <3>1 DEF OnTurn
    <3>3. CASE BeginTx(n, t)
      BY <2>3, <2>4, <2>5, <3>2, <3>3 DEF BeginTx, InTx
    <3>4. CASE ReadTip(n, t)
      BY <1>1, <2>2, <2>3, <3>2, <3>4, NodeFacts DEF ReadTip, InTx, Creator
    <3>5. CASE ReadNumber(n, t)
      BY <1>1, <2>2, <2>3, <3>2, <3>5, NodeFacts DEF ReadNumber, InTx, Creator
    <3> QED  BY <2>8, <3>3, <3>4, <3>5
  <2>9. ASSUME BlockNumberTaken(n, t) \/ CreateFails(n, t) \/ ApplyCreated(n, t)
        PROVE  creator'[n][bg].phase = "idle"
    BY <2>3, <2>5, <2>9 DEF BlockNumberTaken, CreateFails, ApplyCreated
  <2>10. ASSUME NEW s \in Stamp, CommitBlock(n, t, s) PROVE creator'[n][bg].phase = "apply"
    BY <1>1, <2>2, <2>10, NodeFacts DEF CommitBlock, SetCreator, Creator
  <2>11. (\E s \in Stamp : CommitBlock(n, t, s)) \/ blocks' = blocks
    BY <1>5 DEF CreateStep, CheckProducer, CollectPending, BeginTx, ReadTip, ReadNumber,
       BlockNumberTaken, CreateFails, ApplyCreated, tables
  <2> QED
    BY <1>5, <2>6, <2>7, <2>8, <2>9, <2>10, <2>11 DEF CreateStep, OnTurn, InTx
<1>6. CASE SyncStep(n)
  <2>1. creator'[n][bg].phase \in {"idle", "start"}  BY <1>1, <1>6, SyncCases
  <2> QED  BY <1>4, <2>1 DEF InTx
<1>7. CASE Crash(n)
  <2>1. creator'[n][bg].phase = "idle"
        BY <1>1, <1>7, NodeFacts DEF Crash, NoCreator, CreatorAt
  <2> QED  BY <1>4, <2>1 DEF InTx
<1>8. ~Client(n)
  <2>1. adding[n] = {}  BY <1>1 DEF Inv, LinkInv, NodeLinked, LoopOnly
  <2> QED  BY <1>1, <2>1 DEF Client, AddEventValidate, AddEventInsert
<1>9. ASSUME NEW m \in Node, m # n,
             Client(m) \/ (\E t \in Task : CreateStep(m, t)) \/ SyncStep(m) \/ Crash(m)
      PROVE  creator'[n] = creator[n] /\ blocks'[n] = blocks[n]
  BY <1>9, OthersLeftAlone DEF Inv
<1>10. ASSUME NEW m \in Node, Gossip(m) \/ \E p \in Node, up \in BOOLEAN : AddPeer(m, p, up)
       PROVE  UNCHANGED <<blocks, creator>>
  BY <1>10 DEF Gossip, GossipLost, GossipCheck, GossipInsert, AddPeer, tables
<1>11. UNCHANGED vars => UNCHANGED <<blocks, creator>>  BY DEF vars, tables
<1> QED  BY <1>3, <1>5, <1>6, <1>7, <1>8, <1>9, <1>10, <1>11 DEF Next

LEMMA InitLog ==
    ASSUME NEW R, LoopsAgree(R), Init
    PROVE  LogInv(R)
<1>1. \A n \in Node : /\ blocks[n] = {} /\ syncer[n].reply = {} /\ syncer[n].phase = "idle"
                      /\ creator[n][bg].phase = "idle"
                      /\ alive[n] = {n} \cup Bootstrap[n]
      BY DEF Init, NoSyncer, SyncerAt, NoCreator, CreatorAt, Task
<1> QED  BY <1>1 DEF LogInv, RingInv, NoFork, Truncating, SettledInv, TurnInv, OnTurn, InTx, LoopsAgree

LEMMA LogInvariant ==
    ASSUME NEW R, LoopsAgree(R), R \subseteq Node
    PROVE  Spec => [](Inv /\ OnceInv /\ LogInv(R))
<1>1. Requests = {}  BY DEF LoopsAgree
<1>2. Init => LogInv(R)  BY InitLog
<1>3. Inv /\ OnceInv /\ LogInv(R) /\ [Next]_vars => LogInv(R)'
      BY RingStep, NoForkStep, SettledStep, TurnStep DEF Inv, LogInv
<1>4. Spec => [](Inv /\ OnceInv)  BY <1>1, OnceInvariant
<1> QED  BY <1>2, <1>3, <1>4, PTL DEF Spec

-----------------------------------------------------------------------------
(* The chain of a node as a sequence of entries, and what a block on top    *)
(* adds to it.                                                              *)
EntryOf(b) == [stamp |-> b.stamp, events |-> b.events]

LEMMA EntriesOfLinked ==
    ASSUME NEW B \in SUBSET Block, Bounded(B), Linked(B)
    PROVE  /\ Entries(B) \in Seq(Log!Entry)
           /\ Len(Entries(B)) = Tip(B)
           /\ DOMAIN Entries(B) = 1 .. Tip(B)
           /\ \A b \in B : Entries(B)[b.number] = EntryOf(b)
           /\ \A k \in 1 .. Tip(B) : \E b \in B : b.number = k /\ Entries(B)[k] = EntryOf(b)
<1>1. Tip(B) \in Nat /\ Numbers(B) = 1 .. Tip(B) /\ Unique(B)  BY LinkedFacts
<1>2. Entries(B) = [k \in 1 .. Tip(B) |-> EntryOf(BlockAt(B, k))]  BY DEF Entries, EntryOf
<1>3. \A k \in 1 .. Tip(B) : BlockAt(B, k) \in B /\ BlockAt(B, k).number = k
      BY <1>1, BlockAtNumber
<1>4. \A b \in Block : EntryOf(b) \in Log!Entry  BY DEF EntryOf, Log!Entry, Block
<1>5. \A b \in B : b.number \in 1 .. Tip(B)  BY LinkedFacts
<1>6. \A b \in B : BlockAt(B, b.number) = b  BY <1>1, <1>3, <1>5 DEF Unique
<1>7. Entries(B) \in [1 .. Tip(B) -> Log!Entry]  BY <1>2, <1>3, <1>4
<1>8. Entries(B) \in Seq(Log!Entry) /\ Len(Entries(B)) = Tip(B)
  <2> HIDE DEF Log!Entry
  <2> QED  BY <1>1, <1>7
<1> QED  BY <1>2, <1>3, <1>5, <1>6, <1>8

LEMMA EntriesOnTop ==
    ASSUME NEW B \in SUBSET Block, Bounded(B), Linked(B), NEW b \in Block,
           HashOK(b), b.number = Tip(B) + 1, b.prev = TipHash(B)
    PROVE  Entries(B \cup {b}) = Append(Entries(B), EntryOf(b))
<1> DEFINE C == B \cup {b}
           k == Tip(B)
           e == Entries(B)
           f == Entries(C)
<1>1. C \in SUBSET Block /\ Bounded(C) /\ Linked(C)  BY BoundedInsert, LinkedAppend
<1>2. k \in Nat /\ Numbers(B) = 1 .. k  BY LinkedFacts
<1>3. Numbers(C) = 1 .. k + 1
  <2>1. Numbers(C) = Numbers(B) \cup {k + 1}  BY DEF Numbers
  <2> HIDE DEF C, k
  <2>2. (1 .. k) \cup {k + 1} = 1 .. k + 1  BY <1>2
  <2> QED  BY <1>2, <2>1, <2>2
<1>4. Tip(C) = k + 1  BY <1>1, <1>2, <1>3, TipOfInterval
<1> HIDE DEF C, k
<1>5. /\ e \in Seq(Log!Entry) /\ Len(e) = k
      /\ f \in Seq(Log!Entry) /\ Len(f) = k + 1
      /\ EntryOf(b) \in Log!Entry
      BY <1>1, <1>4, EntriesOfLinked DEF k, EntryOf, Log!Entry, Block
<1>6. f[k + 1] = EntryOf(b)  BY <1>1, EntriesOfLinked DEF C, k
<1>7. ASSUME NEW i \in 1 .. k PROVE f[i] = e[i]
  <2>1. PICK c \in B : c.number = i /\ e[i] = EntryOf(c)  BY EntriesOfLinked DEF k
  <2>2. c \in C  BY DEF C
  <2> QED  BY <1>1, <2>1, <2>2, EntriesOfLinked
<1> HIDE DEF e, f
<1>8. f = Append(e, EntryOf(b))  BY <1>2, <1>5, <1>6, <1>7
<1> QED  BY <1>8 DEF C, e, f

LogOf == [n \in Node |-> Entries(blocks[n])]

\* A block on top of n's chain is an entry more at n.
LEMMA LogGrows ==
    ASSUME Requests = {}, Inv, NEW n \in Node, NEW b \in Block,
           blocks' = [blocks EXCEPT ![n] = @ \cup {b}],
           HashOK(b), b.number = Tip(blocks[n]) + 1, b.prev = TipHash(blocks[n])
    PROVE  LogOf' = [LogOf EXCEPT ![n] = Append(@, EntryOf(b))]
<1>1. /\ blocks \in [Node -> SUBSET Block] /\ blocks[n] \in SUBSET Block
      /\ Bounded(blocks[n]) /\ Linked(blocks[n])
      BY AllObserve, NodeFacts
<1>2. Entries(blocks[n] \cup {b}) = Append(Entries(blocks[n]), EntryOf(b))
      BY <1>1, EntriesOnTop
<1>3. \A m \in Node : Entries(blocks[m])' = Entries(blocks'[m])  BY DEF Entries
<1>4. LogOf' = [m \in Node |-> Entries(blocks'[m])]  BY <1>3 DEF LogOf
<1>5. \A m \in Node : Entries(blocks'[m])
                      = IF m = n THEN Append(Entries(blocks[n]), EntryOf(b)) ELSE Entries(blocks[m])
      BY <1>1, <1>2
<1> QED  BY <1>4, <1>5 DEF LogOf

LEMMA LogStep ==
    ASSUME NEW R, LoopsAgree(R), LogInv(R), Inv, OnceInv, [Next]_vars
    PROVE  [Log!Next]_LogOf
<1>1. Requests = {}  BY DEF LoopsAgree
<1>2. CASE UNCHANGED blocks
  BY <1>2 DEF LogOf, Entries
<1>3. ASSUME NEW n \in Node, NEW s \in Stamp, CommitBlock(n, bg, s)
      PROVE  Log!Next
  <2>1. PICK b \in Block : /\ blocks' = [blocks EXCEPT ![n] = @ \cup {b}]
                           /\ HashOK(b)
                           /\ b.number = Tip(blocks[n]) + 1 /\ b.prev = TipHash(blocks[n])
                           /\ b.events # {} /\ b.events \cap Events(blocks[n]) = {}
                           /\ n \in Turn(b.number, R)
        BY <1>1, <1>3, CommitFacts
  <2>2. LogOf' = [LogOf EXCEPT ![n] = Append(@, EntryOf(b))]  BY <1>1, <2>1, LogGrows
  <2>3. \A m \in Node : Len(LogOf[m]) <= Len(LogOf[n])
    <3>1. \A m \in Node : Tip(blocks[m]) <= Tip(blocks[n])  BY <1>1, <2>1, NobodyAhead
    <3>2. \A m \in Node : Len(LogOf[m]) = Tip(blocks[m])
          BY <1>1, AllObserve, NodeFacts, EntriesOfLinked DEF LogOf
    <3> QED  BY <3>1, <3>2
  <2>4. Log!Logged(n) \subseteq Events(blocks[n])
    <3> SUFFICES ASSUME NEW k \in DOMAIN LogOf[n] PROVE LogOf[n][k].events \subseteq Events(blocks[n])
        BY DEF Log!Logged, LogOf
    <3>1. k \in 1 .. Tip(blocks[n]) /\ LogOf[n] = Entries(blocks[n])
          BY <1>1, AllObserve, NodeFacts, EntriesOfLinked DEF LogOf
    <3>2. PICK c \in blocks[n] : Entries(blocks[n])[k] = EntryOf(c)
          BY <1>1, <3>1, AllObserve, NodeFacts, EntriesOfLinked
    <3> QED  BY <3>1, <3>2 DEF EntryOf, Events
  <2>5. EntryOf(b) \in Log!Entry /\ EntryOf(b).events = b.events
        BY DEF EntryOf, Log!Entry, Block
  <2>6. Log!Produce(n, EntryOf(b))
        BY <2>1, <2>2, <2>3, <2>4, <2>5 DEF Log!Produce, LogOf
  <2> QED  BY <2>5, <2>6 DEF Log!Next
<1>4. ASSUME NEW n \in Node, NEW b \in Block, SyncAdds(n, b)
      PROVE  Log!Next
  <2>1. PICK m \in Node : b \in blocks[m] /\ Tip(blocks[n]) < Tip(blocks[m])
        BY <1>1, <1>4, CopyFacts
  <2>2. LogOf' = [LogOf EXCEPT ![n] = Append(@, EntryOf(b))]
        BY <1>1, <1>4, LogGrows DEF SyncAdds
  <2>3. /\ Len(LogOf[n]) = Tip(blocks[n]) /\ Len(LogOf[m]) = Tip(blocks[m])
        /\ LogOf[m][b.number] = EntryOf(b)
        BY <1>1, <2>1, AllObserve, NodeFacts, EntriesOfLinked DEF LogOf
  <2>4. b.number = Len(LogOf[n]) + 1  BY <1>4, <2>3 DEF SyncAdds
  <2>5. Log!Copy(n, m)
    <3>1. LogOf' = [LogOf EXCEPT ![n] = Append(@, LogOf[m][Len(@) + 1])]
          BY <2>2, <2>3, <2>4
    <3> QED  BY <2>1, <2>3, <3>1 DEF Log!Copy, LogOf
  <2> QED  BY <2>5 DEF Log!Next
<1> QED  BY <1>2, <1>3, <1>4, ChainSteps

(* Under one rotation the loops of all nodes together implement the log of  *)
(* ReplicatedLog: producing in turn (resolve_block_producer) and copying    *)
(* (insert_synced_block), with failures, crashes and damaged block lists in *)
(* between, add to one log of which every chain is a prefix.                *)
THEOREM LoopsImplementLog ==
    ASSUME NEW R, LoopsAgree(R), R \subseteq Node
    PROVE  Spec => ImplementsLog
<1>1. Init => Log!Init
  <2> SUFFICES ASSUME Init, NEW n \in Node PROVE Entries(blocks[n]) = <<>>
      BY DEF Log!Init
  <2>1. Tip({}) = 0 /\ {} \in SUBSET Block  BY EmptyLinked, LinkedFacts
  <2> QED  BY <2>1 DEF Init, Entries
<1>2. Inv /\ OnceInv /\ LogInv(R) /\ [Next]_vars => [Log!Next]_LogOf  BY LogStep
<1> QED  BY <1>1, <1>2, LogInvariant, PTL DEF Spec, ImplementsLog, Log!Spec, LogOf

-----------------------------------------------------------------------------
(* Self-healing.  sync_blocks_from_peers compares the peer's blocks with    *)
(* local_blocks, a copy that is taken once per peer.  Until the visit has   *)
(* truncated, the table holds all of the copy; once it has, the copy        *)
(* differs from the peer's chain below every block that is left, so that    *)
(* the same visit never truncates again.                                    *)
Differs(s, k) == HashesAt(s.local, k) # HashesAt(s.reply, k)

Whole(B) == \E k \in Nat : Numbers(B) = 1 .. k

ForkAt(n, f, B, s) ==
    /\ n \in producer_id_for_block(f.number, s.alive)
    /\ HashesAt(B, f.number) \notin {{}, {f.hash}}
    /\ chains_share_prefix(B, s.reply, f.number)

NodeHeal(n, B, s) ==
    /\ Whole(s.reply)
    /\ s.phase \in {"scan", "insert", "cleanup"} =>
          \/ s.local \subseteq B
          \/ \E f \in s.reply : Differs(s, f.number) /\ \A b \in s.rest : f.number < b.number
    /\ s.phase \in Truncating =>
          s.local \subseteq B /\ \A f \in s.rest : Lowest(f, s.rest) => ForkAt(n, f, B, s)
    /\ s.phase \in {"replay", "adopt", "adoptInsert", "adoptCleanup"} =>
          \A f \in s.rest : Lowest(f, s.rest) => Differs(s, f.number)

HealInv == \A n \in Node : NodeHeal(n, blocks[n], syncer[n])

\* A table with one block per number has one hash per number.
LEMMA HashOfNumber ==
    ASSUME NEW B, Unique(B), NEW b \in B
    PROVE  HashesAt(B, b.number) = {b.hash}
BY DEF HashesAt, Unique

LEMMA ReplyIsWhole ==
    ASSUME Inv, NEW p \in Observer, NEW reply \in Replies(p)
    PROVE  Whole(reply)
<1>1. Whole(blocks[p])  BY NodeFacts, LinkedFacts DEF Whole
<1>2. \A c \in blocks[p] : \A E : [c EXCEPT !.events = E].number = c.number
      BY NodeFacts DEF Block
<1>3. Numbers(reply) = Numbers(blocks[p])
  <2>1. CASE reply = blocks[p]  BY <2>1
  <2>2. CASE reply # blocks[p]
    <3>1. PICK b \in blocks[p], E \in SUBSET Event :
                  reply = (blocks[p] \ {b}) \cup {[b EXCEPT !.events = E]}
          BY <2>2 DEF Replies
    <3> DEFINE c == [b EXCEPT !.events = E]
    <3>2. c.number = b.number  BY <1>2
    <3> HIDE DEF c
    <3>3. reply = (blocks[p] \ {b}) \cup {c}  BY <3>1 DEF c
    <3> QED  BY <3>2, <3>3 DEF Numbers
  <2> QED  BY <2>1, <2>2
<1> QED  BY <1>1, <1>3 DEF Whole

\* What is decided on the copy is true of the table.
LEMMA ForkFound ==
    ASSUME Requests = {}, Inv, HealInv, NEW n \in Node, NEW b \in syncer[n].rest,
           syncer[n].phase = "scan", Lowest(b, syncer[n].rest),
           "fork" \in Classes(n, b), SelfHeals(n, b)
    PROVE  syncer[n].local \subseteq blocks[n] /\ ForkAt(n, b, blocks[n], syncer[n])
<1> DEFINE s == syncer[n]
           B == blocks[n]
<1>1. /\ n \in Observer /\ s \in Syncer /\ Unique(s.reply) /\ s.rest \subseteq s.reply
      /\ Unique(B) /\ B \in SUBSET Block /\ NodeHeal(n, B, s)
      BY AllObserve, NodeFacts, LinkedFacts DEF Inv, ConfirmInv, SyncOK, HealInv
<1>2. /\ n \in producer_id_for_block(b.number, s.alive)
      /\ chains_share_prefix(s.local, s.reply, b.number)
      BY DEF SelfHeals
<1>3. b \in s.reply /\ b.number \in Nat  BY <1>1 DEF Syncer, Block
<1>4. \A k \in 1 .. b.number - 1 : k \in Numbers(s.reply)
  <2>1. PICK k \in Nat : Numbers(s.reply) = 1 .. k  BY <1>1 DEF NodeHeal, Whole
  <2>2. b.number \in 1 .. k  BY <1>3, <2>1 DEF Numbers
  <2> QED  BY <2>1, <2>2
<1>5. s.local \subseteq B
  <2> SUFFICES ASSUME NEW f \in s.reply, Differs(s, f.number), \A c \in s.rest : f.number < c.number
               PROVE  FALSE
      BY <1>1 DEF NodeHeal
  <2>1. f.number \in Numbers(s.reply) /\ f.number < b.number  BY DEF Numbers
  <2>2. f.number \in 1 .. b.number - 1
    <3>1. PICK k \in Nat : Numbers(s.reply) = 1 .. k  BY <1>1 DEF NodeHeal, Whole
    <3> QED  BY <1>3, <2>1, <3>1
  <2> QED  BY <1>2, <2>2 DEF chains_share_prefix, Differs
<1>6. b.number \in Numbers(B) /\ BlockAt(B, b.number).hash # b.hash
      BY DEF Classes, classify_block
<1>7. HashesAt(B, b.number) \notin {{}, {b.hash}}
  <2>1. BlockAt(B, b.number) \in B /\ BlockAt(B, b.number).number = b.number
        BY <1>6, BlockAtNumber
  <2>2. HashesAt(B, b.number) = {BlockAt(B, b.number).hash}  BY <1>1, <2>1, HashOfNumber
  <2> QED  BY <1>6, <2>2
<1>8. ASSUME NEW k \in 1 .. b.number - 1 PROVE HashesAt(B, k) = HashesAt(s.reply, k)
  <2>1. HashesAt(s.local, k) = HashesAt(s.reply, k)  BY <1>2 DEF chains_share_prefix
  <2>2. PICK r \in s.reply : r.number = k  BY <1>4 DEF Numbers
  <2>3. r.hash \in HashesAt(s.local, k)  BY <2>1, <2>2 DEF HashesAt
  <2>4. PICK c \in s.local : c.number = k  BY <2>3 DEF HashesAt
  <2>5. c \in B /\ Unique(s.local)  BY <1>1, <1>5 DEF Unique
  <2>6. HashesAt(B, k) = {c.hash} /\ HashesAt(s.local, k) = {c.hash}
        BY <1>1, <2>4, <2>5, HashOfNumber
  <2> QED  BY <2>1, <2>6
<1> QED  BY <1>2, <1>5, <1>7, <1>8 DEF ForkAt, chains_share_prefix

\* While the visit goes on, rest only loses its lowest block and the table grows.
LEMMA OuterHeal ==
    ASSUME NEW n, NEW B, NEW s, NEW C, NEW r, NodeHeal(n, B, s),
           s.phase \in {"scan", "insert", "cleanup"}, B \subseteq C,
           r.phase \in {"scan", "insert", "cleanup"},
           r.local = s.local, r.reply = s.reply, r.rest \subseteq s.rest
    PROVE  NodeHeal(n, C, r)
BY DEF NodeHeal, Differs, Truncating

\* After the fork block, the copy differs below all that is left.
LEMMA ForkPassed ==
    ASSUME NEW n, NEW B, NEW s \in Syncer, NEW C, NEW r, NodeHeal(n, B, s), Unique(s.reply),
           s.phase \in {"replay", "adopt", "adoptInsert", "adoptCleanup"},
           s.rest \subseteq s.reply, NEW f \in s.rest, Lowest(f, s.rest),
           r.phase = "scan", r.local = s.local, r.reply = s.reply, r.rest = s.rest \ {f}
    PROVE  NodeHeal(n, C, r)
<1>1. Differs(s, f.number)  BY DEF NodeHeal
<1>2. \A b \in s.rest : b.number \in Nat  BY DEF Syncer, Block
<1>3. \A b \in r.rest : f.number < b.number
  <2> SUFFICES ASSUME NEW b \in s.rest, b # f PROVE f.number < b.number  OBVIOUS
  <2>1. f.number <= b.number  BY DEF Lowest
  <2>2. f.number # b.number  BY DEF Unique
  <2> QED  BY <1>2, <2>1, <2>2
<1> QED  BY <1>1, <1>3 DEF NodeHeal, Differs, Truncating

\* The truncation makes it differ at the fork block.
LEMMA ForkDiffers ==
    ASSUME NEW n, NEW B, NEW s \in Syncer, NodeHeal(n, B, s), s.phase \in Truncating,
           Unique(B), Unique(s.reply), s.rest \subseteq s.reply,
           NEW f \in s.rest, Lowest(f, s.rest)
    PROVE  Differs(s, f.number)
<1>1. s.local \subseteq B /\ HashesAt(B, f.number) \notin {{}, {f.hash}}
      BY DEF NodeHeal, ForkAt
<1>2. HashesAt(s.reply, f.number) = {f.hash}  BY HashOfNumber
<1> SUFFICES ASSUME HashesAt(s.local, f.number) = {f.hash} PROVE FALSE
    BY <1>2 DEF Differs
<1>3. PICK c \in s.local : c.number = f.number /\ c.hash = f.hash  BY DEF HashesAt
<1>4. HashesAt(B, f.number) = {c.hash}  BY <1>1, <1>3, HashOfNumber
<1> QED  BY <1>1, <1>3, <1>4

LEMMA NextBlockHeal ==
    ASSUME Requests = {}, Inv, HealInv, NEW n \in Node, NEW b \in syncer[n].rest,
           Lowest(b, syncer[n].rest), syncer[n].phase \notin {"idle", "peers", "fetched"}, NEW C,
           syncer[n].phase \in {"scan", "insert", "cleanup"} \cup Truncating => blocks[n] \subseteq C
    PROVE  NodeHeal(n, C, NextBlock(n, b))
<1> USE DEF Truncating
<1> DEFINE s == syncer[n]
           r == NextBlock(n, b)
<1>1. /\ s \in Syncer /\ Unique(s.reply) /\ s.rest \subseteq s.reply /\ NodeHeal(n, blocks[n], s)
      BY AllObserve, NodeFacts DEF Inv, ConfirmInv, SyncOK, HealInv
<1>2. /\ r.phase = "scan" /\ r.local = s.local /\ r.reply = s.reply /\ r.rest = s.rest \ {b}
      BY <1>1 DEF NextBlock, Syncer
<1>3. b \in s.rest /\ Lowest(b, s.rest)  OBVIOUS
<1>4. s.phase \in {"scan", "insert", "cleanup"} \cup Truncating => blocks[n] \subseteq C  OBVIOUS
<1>5. s.phase \in {"scan", "insert", "cleanup", "replay", "adopt", "adoptInsert", "adoptCleanup"}
                  \cup Truncating
      BY <1>1 DEF Syncer, SyncPhase, Truncating
<1> HIDE DEF r, s
<1>6. ASSUME s.phase \in {"scan", "insert", "cleanup"} PROVE NodeHeal(n, C, r)
  BY <1>1, <1>2, <1>4, <1>6, OuterHeal
<1>7. ASSUME s.phase \in Truncating PROVE NodeHeal(n, C, r)
  <2>1. s.local \subseteq C /\ Whole(s.reply)  BY <1>1, <1>4, <1>7 DEF NodeHeal
  <2> QED  BY <1>2, <2>1 DEF NodeHeal
<1>8. ASSUME s.phase \in {"replay", "adopt", "adoptInsert", "adoptCleanup"} PROVE NodeHeal(n, C, r)
  BY <1>1, <1>2, <1>3, <1>8, ForkPassed
<1>9. NodeHeal(n, C, r)  BY <1>5, <1>6, <1>7, <1>8
<1> QED  BY <1>9 DEF r

LEMMA FreshHeal ==
    /\ \A n, B : NodeHeal(n, B, NoSyncer)
    /\ \A n, B, registry, todo : NodeHeal(n, B, SyncerAt("peers", registry, todo))
<1>1. Whole({})
  <2>1. Numbers({}) = 1 .. 0  BY DEF Numbers
  <2> QED  BY <2>1 DEF Whole
<1> QED  BY <1>1 DEF NodeHeal, NoSyncer, SyncerAt

LEMMA SyncStepHeal ==
    ASSUME Requests = {}, Inv, HealInv, NEW n \in Node, SyncStep(n)
    PROVE  NodeHeal(n, blocks'[n], syncer'[n])
<1> USE DEF Truncating
<1> DEFINE s == syncer[n]
           B == blocks[n]
           Goal == NodeHeal(n, blocks'[n], syncer'[n])
<1>1. /\ n \in Observer /\ s \in Syncer /\ syncer \in [Node -> Syncer]
      /\ blocks \in [Node -> SUBSET Block]
      /\ Unique(s.reply) /\ s.rest \subseteq s.reply
      /\ Unique(B) /\ B \in SUBSET Block /\ NodeHeal(n, B, s)
      BY AllObserve, NodeFacts, LinkedFacts DEF Inv, ConfirmInv, SyncOK, HealInv
<1>2. \A x : SetSyncer(n, x) => syncer'[n] = x  BY <1>1 DEF SetSyncer
<1>3. ASSUME NEW b \in s.rest, Lowest(b, s.rest), SetSyncer(n, NextBlock(n, b)),
             s.phase \notin {"idle", "peers", "fetched"}, blocks' = blocks
      PROVE  Goal
  BY <1>2, <1>3, NextBlockHeal
<1>4. ASSUME \/ BeginRound(n) \/ EndRound(n) \/ ScanDone(n) \/ AdoptDone(n)
             \/ \E p \in s.todo : FetchFails(n, p)
      PROVE  Goal
  <2>1. SetSyncer(n, NoSyncer) \/ \E registry, todo : SetSyncer(n, SyncerAt("peers", registry, todo))
        BY <1>4 DEF BeginRound, EndRound, ScanDone, AdoptDone, FetchFails, NextPeer
  <2> QED  BY <1>2, <2>1, FreshHeal
<1>5. ASSUME NEW p \in s.todo, NEW reply \in Replies(p), FetchBlocks(n, p, reply)
      PROVE  Goal
  <2>1. syncer'[n].phase = "fetched" /\ syncer'[n].reply = reply
        BY <1>2, <1>5 DEF FetchBlocks, SyncerAt
  <2>2. p \in Observer  BY <1>1, AllObserve DEF Syncer
  <2>3. Whole(reply)  BY <2>2, ReplyIsWhole
  <2> QED  BY <2>1, <2>3 DEF NodeHeal
<1>6. ASSUME NEW local \in {{}, B}, LoadLocal(n, local) PROVE Goal
  <2>1. /\ syncer'[n].phase = "scan" /\ syncer'[n].local = local /\ syncer'[n].reply = s.reply
        /\ blocks' = blocks
        BY <1>1, <1>2, <1>6 DEF LoadLocal, Syncer, tables
  <2> QED  BY <1>1, <2>1 DEF NodeHeal
<1>7. ASSUME NEW b \in s.rest, NEW class \in SyncBlockAction, ScanBlock(n, b, class) PROVE Goal
  <2>1. s.phase = "scan" /\ Lowest(b, s.rest) /\ class \in Classes(n, b) /\ blocks' = blocks
        BY <1>7 DEF ScanBlock, tables
  <2>2. CASE class = "insert"
    <3>1. SetSyncer(n, [s EXCEPT !.phase = "insert"])  BY <1>7, <2>2 DEF ScanBlock
    <3>2. /\ syncer'[n].phase = "insert" /\ syncer'[n].local = s.local
          /\ syncer'[n].reply = s.reply /\ syncer'[n].rest = s.rest
          BY <1>1, <1>2, <3>1 DEF Syncer
    <3> QED  BY <1>1, <2>1, <3>2, OuterHeal
  <2>3. CASE class = "fork" /\ SelfHeals(n, b)
    <3>1. SetSyncer(n, [s EXCEPT !.phase = "truncate"])  BY <1>7, <2>3 DEF ScanBlock
    <3>2. /\ syncer'[n].phase = "truncate" /\ syncer'[n].local = s.local
          /\ syncer'[n].reply = s.reply /\ syncer'[n].rest = s.rest /\ syncer'[n].alive = s.alive
          BY <1>1, <1>2, <3>1 DEF Syncer
    <3>3. s.local \subseteq B /\ ForkAt(n, b, B, s)  BY <2>1, <2>3, ForkFound
    <3>4. \A f \in s.rest : Lowest(f, s.rest) => f = b  BY <1>1, <2>1, LowestIsOne DEF Syncer
    <3> QED  BY <1>1, <2>1, <3>2, <3>3, <3>4 DEF NodeHeal, ForkAt
  <2>4. CASE class # "insert" /\ ~(class = "fork" /\ SelfHeals(n, b))
    <3>1. SetSyncer(n, NextBlock(n, b))  BY <1>7, <2>4 DEF ScanBlock
    <3> QED  BY <1>3, <2>1, <3>1
  <2> QED  BY <2>2, <2>3, <2>4
<1>8. ASSUME NEW b \in s.rest, CommitTruncate(n, b) PROVE Goal
  <2>1. /\ s.phase = "commitDelete" /\ s.phase \in Truncating
        /\ SetSyncer(n, [s EXCEPT !.phase = "replay", !.gone = {}, !.deleted = {}])
        BY <1>8 DEF CommitTruncate, Truncating
  <2>2. /\ syncer'[n].phase = "replay" /\ syncer'[n].local = s.local
        /\ syncer'[n].reply = s.reply /\ syncer'[n].rest = s.rest
        BY <1>1, <1>2, <2>1 DEF Syncer
  <2>3. \A f \in s.rest : Lowest(f, s.rest) => Differs(s, f.number)
        BY <1>1, <2>1, ForkDiffers
  <2> QED  BY <1>1, <2>2, <2>3 DEF NodeHeal, Differs, Truncating
<1>15. ASSUME NEW b \in s.rest, DeleteEvents(n, b) \/ DeleteBlocks(n, b) PROVE Goal
  <2>1. /\ s.phase \in Truncating /\ blocks' = blocks /\ syncer'[n].phase \in Truncating
        /\ syncer'[n].local = s.local /\ syncer'[n].reply = s.reply /\ syncer'[n].rest = s.rest
        /\ syncer'[n].alive = s.alive
        BY <1>1, <1>2, <1>15 DEF DeleteEvents, DeleteBlocks, Syncer, Truncating, tables
  <2> QED  BY <1>1, <2>1 DEF NodeHeal, ForkAt, Truncating
<1>9. ASSUME NEW b \in s.rest, ReplayProjections(n, b) PROVE Goal
  <2>1. /\ s.phase = "replay" /\ blocks' = blocks
        /\ syncer'[n].phase = "adopt" /\ syncer'[n].local = s.local
        /\ syncer'[n].reply = s.reply /\ syncer'[n].rest = s.rest
        BY <1>1, <1>2, <1>9 DEF ReplayProjections, Syncer, tables
  <2> QED  BY <1>1, <2>1 DEF NodeHeal, Differs
<1>10. ASSUME NEW b \in s.rest \cup s.suffix, InsertSynced(n, b) PROVE Goal
  <2>1. /\ s.phase \in {"insert", "adoptInsert"} /\ B \subseteq blocks'[n]
        /\ syncer'[n].phase = (IF s.phase = "insert" THEN "cleanup" ELSE "adoptCleanup")
        /\ syncer'[n].local = s.local
        /\ syncer'[n].reply = s.reply /\ syncer'[n].rest = s.rest
        BY <1>1, <1>2, <1>10 DEF InsertSynced, Syncer
  <2>2. CASE s.phase = "insert"  BY <1>1, <2>1, <2>2, OuterHeal
  <2>3. CASE s.phase = "adoptInsert"  BY <1>1, <2>1, <2>3 DEF NodeHeal, Differs
  <2> QED  BY <2>1, <2>2, <2>3
<1>11. ASSUME SyncFails(n) \/ \E b \in s.rest \cup s.suffix : SyncNumberTaken(n, b) PROVE Goal
  <2>1. /\ s.phase \in {"insert", "adoptInsert", "replay"} \cup Truncating /\ blocks' = blocks
        /\ \E f \in s.rest : Lowest(f, s.rest) /\ SetSyncer(n, NextBlock(n, f))
    <3>1. CASE SyncFails(n)  BY <3>1 DEF SyncFails, AdoptError, tables
    <3>2. ASSUME NEW b \in s.rest \cup s.suffix, SyncNumberTaken(n, b)
          PROVE  /\ s.phase \in {"insert", "adoptInsert", "replay"} \cup Truncating /\ blocks' = blocks
                 /\ \E f \in s.rest : Lowest(f, s.rest) /\ SetSyncer(n, NextBlock(n, f))
      BY <3>2 DEF SyncNumberTaken, AdoptError, Current, tables
    <3> QED  BY <1>11, <3>1, <3>2
  <2> QED  BY <1>3, <2>1
<1>12. ASSUME NEW b \in s.rest \cup s.suffix, NEW gone \in SUBSET b.events, CleanupPending(n, b, gone)
       PROVE  Goal
  <2>1. blocks' = blocks /\ s.phase \in {"cleanup", "adoptCleanup"}  BY <1>12 DEF CleanupPending
  <2>2. CASE s.phase = "cleanup"
    <3>1. b \in s.rest /\ Lowest(b, s.rest) /\ SetSyncer(n, NextBlock(n, b))
          BY <1>12, <2>2 DEF CleanupPending, Current
    <3> QED  BY <1>3, <2>1, <3>1
  <2>3. CASE s.phase = "adoptCleanup"
    <3>1. SetSyncer(n, [s EXCEPT !.phase = "adopt", !.suffix = @ \ {b}])
          BY <1>12, <2>3 DEF CleanupPending
    <3>2. /\ syncer'[n].phase = "adopt" /\ syncer'[n].local = s.local
          /\ syncer'[n].reply = s.reply /\ syncer'[n].rest = s.rest
          BY <1>1, <1>2, <3>1 DEF Syncer
    <3> QED  BY <1>1, <2>1, <2>3, <3>2 DEF NodeHeal, Differs
  <2> QED  BY <2>1, <2>2, <2>3
<1>13. ASSUME NEW b \in s.suffix, NEW class \in SyncBlockAction, AdoptBlock(n, b, class) PROVE Goal
  <2>1. s.phase = "adopt" /\ blocks' = blocks  BY <1>13 DEF AdoptBlock, tables
  <2>2. CASE class \in {"reject", "fork"}
    <3>1. \E f \in s.rest : Lowest(f, s.rest) /\ SetSyncer(n, NextBlock(n, f))
          BY <1>13, <2>2 DEF AdoptBlock, AdoptError
    <3> QED  BY <1>3, <2>1, <3>1
  <2>3. CASE class \in {"insert", "skip"}
    <3>1. \/ SetSyncer(n, [s EXCEPT !.phase = "adoptInsert"])
          \/ SetSyncer(n, [s EXCEPT !.suffix = @ \ {b}])
          BY <1>13, <2>3 DEF AdoptBlock
    <3>2. /\ syncer'[n].phase \in {"adopt", "adoptInsert"} /\ syncer'[n].local = s.local
          /\ syncer'[n].reply = s.reply /\ syncer'[n].rest = s.rest
          BY <1>1, <1>2, <2>1, <3>1 DEF Syncer
    <3> QED  BY <1>1, <2>1, <3>2 DEF NodeHeal, Differs
  <2> QED  BY <2>2, <2>3 DEF SyncBlockAction
<1> HIDE DEF Goal
<1>14. Goal
  BY <1>4, <1>5, <1>6, <1>7, <1>8, <1>9, <1>10, <1>11, <1>12, <1>13, <1>15 DEF SyncStep
<1> QED  BY <1>14 DEF Goal

LEMMA InitHeal == Init => HealInv
BY FreshHeal DEF Init, HealInv

\* Production only adds blocks, while the loop of its node is not synchronising.
LEMMA CreateAdds ==
    ASSUME Requests = {}, Inv, NEW n \in Node, NEW t \in Task, CreateStep(n, t)
    PROVE  blocks[n] \subseteq blocks'[n] /\ syncer' = syncer /\ syncer[n].phase = "idle"
<1>1. n \in Observer /\ creator[n][t].phase # "idle"
      BY AllObserve DEF CreateStep, CheckProducer, CollectPending, BeginTx, ReadTip, ReadNumber,
         CommitBlock, BlockNumberTaken, CreateFails, ApplyCreated, InTx
<1>2. syncer[n].phase = "idle"  BY <1>1, LoopTask, LinkedLoop DEF Inv
<1>3. blocks[n] \subseteq blocks'[n] /\ syncer' = syncer
      BY <1>1, NodeFacts DEF CreateStep, CheckProducer, CollectPending, BeginTx, ReadTip, ReadNumber,
         CommitBlock, BlockNumberTaken, CreateFails, ApplyCreated, tables, requests
<1> QED  BY <1>2, <1>3

LEMMA NextHeal == ASSUME Requests = {}, Inv, HealInv, [Next]_vars PROVE HealInv'
<1> USE DEF Truncating
<1> SUFFICES ASSUME NEW n \in Node PROVE NodeHeal(n, blocks'[n], syncer'[n])
    BY DEF HealInv, NodeHeal, ForkAt, Differs, Whole
<1>1. n \in Observer /\ NodeHeal(n, blocks[n], syncer[n])  BY AllObserve DEF HealInv
<1>2. ASSUME blocks'[n] = blocks[n], syncer'[n] = syncer[n]
      PROVE  NodeHeal(n, blocks'[n], syncer'[n])
  BY <1>1, <1>2
<1>3. ASSUME NEW m \in Node, m # n,
             Client(m) \/ (\E t \in Task : CreateStep(m, t)) \/ SyncStep(m) \/ Crash(m)
      PROVE  NodeHeal(n, blocks'[n], syncer'[n])
  BY <1>1, <1>3, OthersLeftAlone DEF Inv
<1>4. ~Client(n)
  <2>1. adding[n] = {}  BY <1>1 DEF Inv, LinkInv, NodeLinked, LoopOnly
  <2> QED  BY <2>1 DEF Client, AddEventValidate, AddEventInsert
<1>5. ASSUME Crash(n) PROVE NodeHeal(n, blocks'[n], syncer'[n])
  <2>1. syncer'[n] = NoSyncer  BY <1>1, <1>5, NodeFacts DEF Crash
  <2> QED  BY <2>1, FreshHeal
<1>6. ASSUME NEW t \in Task, CreateStep(n, t) PROVE NodeHeal(n, blocks'[n], syncer'[n])
  BY <1>1, <1>6, CreateAdds DEF NodeHeal
<1>7. ASSUME NEW m \in Node, Gossip(m) \/ \E p \in Node, up \in BOOLEAN : AddPeer(m, p, up)
      PROVE  UNCHANGED <<blocks, syncer>>
  BY <1>7 DEF Gossip, GossipLost, GossipCheck, GossipInsert, AddPeer, tables, requests
<1>8. UNCHANGED vars => UNCHANGED <<blocks, syncer>>  BY DEF vars, tables, requests
<1> HIDE DEF HealInv
<1>9. ASSUME SyncStep(n) PROVE NodeHeal(n, blocks'[n], syncer'[n])
  BY <1>9, SyncStepHeal
<1> QED  BY <1>2, <1>3, <1>4, <1>5, <1>6, <1>7, <1>8, <1>9 DEF Next

LEMMA HealInvariant == ASSUME Requests = {} PROVE Spec => [](Inv /\ HealInv)
<1>1. Inv /\ HealInv /\ [Next]_vars => HealInv'  BY NextHeal
<1>2. Spec => []Inv  BY LinkInvariant DEF ReadsOrPeers
<1> QED  BY <1>1, <1>2, InitHeal, PTL DEF Spec

\* What a truncation takes away, and why.
Healed(n) ==
    \E f \in syncer[n].reply :
        /\ blocks[n] \ blocks'[n] = From(blocks[n], f)
        /\ f.number \in Numbers(From(blocks[n], f))
        /\ n \in producer_id_for_block(f.number, syncer[n].alive)
        /\ HashesAt(blocks[n], f.number) \notin {{}, {f.hash}}
        /\ chains_share_prefix(blocks[n], syncer[n].reply, f.number)

LEMMA DropsHeal ==
    ASSUME Requests = {}, Inv, HealInv, NEW n \in Node, NEW k \in Nat, SyncDrops(n, k)
    PROVE  Healed(n)
<1>1. /\ n \in Observer /\ syncer[n].rest \subseteq syncer[n].reply
      /\ blocks \in [Node -> SUBSET Block] /\ blocks[n] \in SUBSET Block
      /\ NodeHeal(n, blocks[n], syncer[n])
      BY AllObserve, NodeFacts DEF Inv, ConfirmInv, SyncOK, HealInv
<1>2. PICK f \in Working(syncer[n]) : f.number = k  BY DEF SyncDrops
<1>3. f \in syncer[n].rest /\ Lowest(f, syncer[n].rest)
      BY <1>2 DEF SyncDrops, Working
<1>4. ForkAt(n, f, blocks[n], syncer[n])  BY <1>1, <1>3 DEF NodeHeal, SyncDrops, Truncating
<1>5. blocks'[n] = {c \in blocks[n] : c.number < k}  BY <1>1 DEF SyncDrops
<1>6. \A c \in blocks[n] : ~(c.number < k) <=> c.number >= k  BY <1>1 DEF Block
<1>7. blocks[n] \ blocks'[n] = From(blocks[n], f)
      BY <1>2, <1>5, <1>6 DEF From
<1>8. f.number \in Numbers(From(blocks[n], f))
  <2>1. PICK c \in blocks[n] : c.number = f.number  BY <1>4 DEF ForkAt, HashesAt
  <2>2. c \in From(blocks[n], f)  BY <1>1, <2>1 DEF From, Block
  <2> QED  BY <2>1, <2>2 DEF Numbers
<1> QED  BY <1>1, <1>3, <1>4, <1>7, <1>8 DEF Healed, ForkAt

(* A node gives up blocks only where it is the designated producer, from    *)
(* the first number at which the peer's chain differs from its own, and     *)
(* gives up all of them: the check was made on local_blocks, which is       *)
(* still the table when delete_blocks_from runs.                            *)
THEOREM HealsReplaceForks == ASSUME Requests = {} PROVE Spec => HealReplacesFork
<1>1. ASSUME Inv, HealInv, [Next]_vars, NEW n \in Node
      PROVE  blocks[n] \subseteq blocks'[n] \/ Healed(n)
  <2>1. n \in Observer  BY AllObserve
  <2>2. ASSUME NEW m \in Node, m # n,
               Client(m) \/ (\E t \in Task : CreateStep(m, t)) \/ SyncStep(m) \/ Crash(m)
        PROVE  blocks[n] \subseteq blocks'[n]
    BY <1>1, <2>2, OthersLeftAlone DEF Inv
  <2>3. ASSUME Client(n) \/ (\E t \in Task : CreateStep(n, t)) \/ Crash(n)
        PROVE  blocks[n] \subseteq blocks'[n]
    BY <1>1, <2>3, CreateAdds DEF Client, AddEventValidate, AddEventInsert, Crash, tables
  <2>4. ASSUME NEW m \in Node, Gossip(m) \/ \E p \in Node, up \in BOOLEAN : AddPeer(m, p, up)
        PROVE  UNCHANGED blocks
    BY <2>4 DEF Gossip, GossipLost, GossipCheck, GossipInsert, AddPeer, tables
  <2>5. UNCHANGED vars => UNCHANGED blocks  BY DEF vars, tables
  <2>6. ASSUME SyncStep(n) PROVE blocks[n] \subseteq blocks'[n] \/ Healed(n)
    <3>1. SyncKeeps(n) \/ (\E b \in Block : SyncAdds(n, b)) \/ (\E k \in Nat : SyncDrops(n, k))
          BY <1>1, <2>1, <2>6, SyncCases
    <3>2. SyncKeeps(n) \/ (\E b \in Block : SyncAdds(n, b)) => blocks[n] \subseteq blocks'[n]
          BY <1>1, <2>1, NodeFacts DEF SyncKeeps, SyncAdds
    <3> QED  BY <1>1, <3>1, <3>2, DropsHeal
  <2> QED  BY <1>1, <2>2, <2>3, <2>4, <2>5, <2>6 DEF Next
<1>2. Inv /\ HealInv /\ [Next]_vars =>
          \A n \in Node : blocks[n] \subseteq blocks'[n] \/ Healed(n)
      BY <1>1
<1>3. Inv /\ HealInv /\ [Next]_vars =>
          [\A n \in Node : LET removed == blocks[n] \ blocks'[n] IN
              removed = {} \/
              \E f \in syncer[n].reply :
                  /\ removed \subseteq From(blocks[n], f)
                  /\ f.number \in Numbers(removed)
                  /\ n \in Observer => removed = From(blocks[n], f)
                  /\ n \in producer_id_for_block(f.number, syncer[n].alive)
                  /\ HashesAt(blocks[n], f.number) \notin {{}, {f.hash}}
                  /\ chains_share_prefix(blocks[n], syncer[n].reply, f.number)]_vars
  <2> SUFFICES ASSUME Inv, HealInv, [Next]_vars, NEW n \in Node, ~(blocks[n] \subseteq blocks'[n])
               PROVE  \E f \in syncer[n].reply :
                         /\ blocks[n] \ blocks'[n] = From(blocks[n], f)
                         /\ f.number \in Numbers(blocks[n] \ blocks'[n])
                         /\ n \in producer_id_for_block(f.number, syncer[n].alive)
                         /\ HashesAt(blocks[n], f.number) \notin {{}, {f.hash}}
                         /\ chains_share_prefix(blocks[n], syncer[n].reply, f.number)
      OBVIOUS
  <2> QED  BY <1>2 DEF Healed
<1> QED  BY <1>3, HealInvariant, PTL DEF Spec, HealReplacesFork
=============================================================================
