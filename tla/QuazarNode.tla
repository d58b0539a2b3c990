----------------------------- MODULE QuazarNode -----------------------------
(***************************************************************************)
(* A network of quazar nodes: submission of events (handlers.rs), gossip   *)
(* (gossip.rs), the pending pool (pending.rs), block production            *)
(* (block_producer.rs: try_create_block, create_block_from_events), block  *)
(* synchronisation and self-healing (block_producer.rs:                    *)
(* sync_blocks_from_peers, blockchain.rs: insert_synced_block,             *)
(* truncate_chain_from, adopt_peer_suffix), the node registry (nodes.rs)   *)
(* and restart (main.rs).                                                  *)
(*                                                                         *)
(* Atomicity follows the database.  A transaction is one step where all    *)
(* its effects are its own commit; create_block_from_events and            *)
(* truncate_chain_from run under READ COMMITTED, so each of their          *)
(* statements that reads is a step of its own, and a statement that meets  *)
(* a row of an open transaction waits for its end.  The advisory lock is   *)
(* taken by create_block_from_events only: insert_synced_block and         *)
(* truncate_chain_from do not take it.                                     *)
(***************************************************************************)
EXTENDS Blockchain

CONSTANTS
    Requests,   \* <<n, e>>: the POST /event requests clients make
    Forced,     \* nodes started with QUAZAR_FORCE_PRODUCER
    Bootstrap,  \* QUAZAR_BOOTSTRAP_PEERS of each node
    PeerAlive,  \* the peers a PeerListUpdate event reports alive (others: none)
    PeerDead,   \* the peers a PeerListUpdate event reports dead
    Operated,   \* <<n, peer, alive>>: the POST /peers requests operators make
    MinEvents,  \* BlockPolicy.min_events
    bg,         \* the block production task of the background loop
    MaxBlock,   \* bound: no production task is started on a longer chain
    MaxCrash,   \* bound: crashes in a behaviour
    Backlog,    \* Backlog[n]: the events in n's pending table at start-up
    InFlight,   \* InFlight[n]: the gossip POSTs on their way to n at start-up
    Faults,     \* whether queries and requests can fail, and pushes get lost
    Garbling,   \* whether a block list can arrive damaged
    BlindReads  \* whether a read can fail whose error the code replaces by a default

ASSUME NetworkAssumption ==
    /\ Requests \subseteq Node \X Event
    /\ Forced \subseteq Node
    /\ Bootstrap \in [Node -> SUBSET Node]
    /\ PeerAlive \in [Event -> SUBSET Node]
    /\ PeerDead \in [Event -> SUBSET Node]
    /\ \A e, f \in Event : PeerAlive[e] \cap PeerDead[f] = {}
    /\ Operated \subseteq Node \X Node \X BOOLEAN
    /\ MinEvents \in Nat
    /\ bg \notin Event
    /\ MaxBlock \in Nat
    /\ MaxCrash \in Nat
    /\ Backlog \in [Node -> SUBSET Event]
    /\ InFlight \in [Node -> SUBSET Event]
    /\ Faults \in BOOLEAN
    /\ Garbling \in BOOLEAN
    /\ BlindReads \in BOOLEAN

VARIABLES
    blocks,     \* blocks[n]: the `blocks` table of n
    events,     \* events[n]: the `events` table (confirmed events) of n
    pending,    \* pending[n]: the `pending_events` table of n
    alive,      \* alive[n]: the entries of n's `nodes` table with status alive
    sent,       \* sent[n]: the events clients have submitted to n
    adding,     \* adding[n]: add_event requests past validation at n
    wire,       \* wire[n]: gossip POSTs on their way to n
    receiving,  \* receiving[n]: gossip requests past their checks at n
    creator,    \* creator[n][t]: the try_create_block task t of n
    syncer,     \* syncer[n]: the sync_blocks_from_peers part of n's loop
    crashes     \* number of crashes so far

tables == <<blocks, events, pending>>
requests == <<sent, adding, wire, receiving>>
vars == <<tables, alive, requests, creator, syncer, crashes>>

-----------------------------------------------------------------------------
(* A try_create_block task is spawned for every event accepted by add_event *)
(* (task e) and run once per round of the background loop (task bg).        *)

Task == Event \cup {bg}

CreatorPhase ==
    {"idle",
     "start",      \* spawned, has read nothing yet
     "collect",    \* this node is the producer of the next block it read
     "gated",      \* has collected enough events, no transaction yet
     "filtered",   \* in the transaction, lock held, confirmed events dropped
     "tip",        \* events inserted and projected, last_hash read
     "number",     \* block number read
     "apply"}      \* committed; peer list updates not applied yet

\* The phases in which the advisory lock 42424242 is held.
InTx == {"filtered", "tip", "number"}

Creator == [phase : CreatorPhase,
            batch : SUBSET Event,    \* the events of the block
            rows : SUBSET Event,     \* those it has inserted in `events`, uncommitted
            prev : Hash,
            number : Nat]

CreatorAt(phase, batch) ==
    [phase |-> phase, batch |-> batch, rows |-> {}, prev |-> Genesis, number |-> 0]

NoCreator == CreatorAt("idle", {})

-----------------------------------------------------------------------------
(* sync_blocks_from_peers, run by the background loop before try_create_block. *)

SyncPhase ==
    {"idle",          \* not in sync_blocks_from_peers
     "peers",         \* in the loop over the peers
     "fetched",       \* has the blocks of one peer
     "scan",          \* in the loop over the peer's blocks
     "insert",        \* classified Insert, transaction not run yet
     "cleanup",       \* inserted, pending not cleaned yet
     "truncate",      \* self-healing decided
     "deleteBlocks",  \* events of the blocks read deleted, uncommitted
     "commitDelete",  \* blocks deleted, uncommitted
     "replay",        \* truncated, projections not rebuilt yet
     "adopt",         \* in adopt_peer_suffix' loop
     "adoptInsert",   \* as insert and cleanup, within adopt_peer_suffix
     "adoptCleanup"}

Syncer == [phase : SyncPhase,
           alive : SUBSET Node,      \* the registry as read when the round began
           todo : SUBSET Node,       \* peers not visited yet in this round
           reply : SUBSET Block,     \* the blocks of the peer being visited
           local : SUBSET Block,     \* local_blocks, loaded once per peer
           rest : SUBSET Block,      \* blocks of reply not handled yet
           suffix : SUBSET Block,    \* those adopt_peer_suffix has not handled yet
           gone : SUBSET Event,      \* rows of `events` deleted, uncommitted
           deleted : SUBSET Block]   \* rows of `blocks` deleted, uncommitted

SyncerAt(phase, registry, todo) ==
    [phase |-> phase, alive |-> registry, todo |-> todo, reply |-> {},
     local |-> {}, rest |-> {}, suffix |-> {}, gone |-> {}, deleted |-> {}]

NoSyncer == SyncerAt("idle", {}, {})

-----------------------------------------------------------------------------
TypeOK ==
    /\ blocks \in [Node -> SUBSET Block]
    /\ events \in [Node -> SUBSET Event]
    /\ pending \in [Node -> SUBSET Event]
    /\ alive \in [Node -> SUBSET Node]
    /\ sent \in [Node -> SUBSET Event]
    /\ adding \in [Node -> SUBSET Event]
    /\ wire \in [Node -> SUBSET Event]
    /\ receiving \in [Node -> SUBSET Event]
    /\ creator \in [Node -> [Task -> Creator]]
    /\ syncer \in [Node -> Syncer]
    /\ crashes \in Nat

Init ==
    /\ blocks = [n \in Node |-> {}]
    /\ events = [n \in Node |-> {}]
    /\ pending = Backlog
    /\ alive = [n \in Node |-> {n} \cup Bootstrap[n]]
    /\ sent = [n \in Node |-> {}]
    /\ adding = [n \in Node |-> {}]
    /\ wire = InFlight
    /\ receiving = [n \in Node |-> {}]
    /\ creator = [n \in Node |-> [t \in Task |-> NoCreator]]
    /\ syncer = [n \in Node |-> NoSyncer]
    /\ crashes = 0

-----------------------------------------------------------------------------
(* POST /event.  Validation rejects an event_id that is pending or          *)
(* confirmed; the insertion is a later statement, and spawns the gossip     *)
(* pushes and a block production task when it really inserted.              *)

Known(n, e) == e \in pending[n] \/ e \in events[n]

AddEventValidate(n, e) ==
    /\ <<n, e>> \in Requests
    /\ ~Known(n, e)
    /\ e \notin sent[n]     \* bound: an event is submitted once to a node
    /\ sent' = [sent EXCEPT ![n] = @ \cup {e}]
    /\ adding' = [adding EXCEPT ![n] = @ \cup {e}]
    /\ UNCHANGED <<tables, alive, wire, receiving, creator, syncer, crashes>>

AddEventInsert(n, e) ==
    /\ e \in adding[n]
    /\ adding' = [adding EXCEPT ![n] = @ \ {e}]
    /\ pending' = [pending EXCEPT ![n] = @ \cup {e}]
    /\ IF e \in pending[n]
       THEN UNCHANGED <<wire, creator>>
       ELSE /\ wire' = [p \in Node |-> IF p \in alive[n] \ {n}
                                       THEN wire[p] \cup {e} ELSE wire[p]]
            /\ creator' = [creator EXCEPT ![n][e] = CreatorAt("start", {})]
    /\ UNCHANGED <<blocks, events, alive, sent, receiving, syncer, crashes>>

(* POST /events/gossip.  A push is not retried: it may be lost.             *)

GossipLost(n, e) ==
    /\ Faults
    /\ e \in wire[n]
    /\ wire' = [wire EXCEPT ![n] = @ \ {e}]
    /\ UNCHANGED <<tables, alive, sent, adding, receiving, creator, syncer, crashes>>

GossipCheck(n, e) ==
    /\ e \in wire[n]
    /\ wire' = [wire EXCEPT ![n] = @ \ {e}]
    /\ receiving' = IF Known(n, e) THEN receiving
                    ELSE [receiving EXCEPT ![n] = @ \cup {e}]
    /\ UNCHANGED <<tables, alive, sent, adding, creator, syncer, crashes>>

GossipInsert(n, e) ==
    /\ e \in receiving[n]
    /\ receiving' = [receiving EXCEPT ![n] = @ \ {e}]
    /\ pending' = [pending EXCEPT ![n] = @ \cup {e}]
    /\ UNCHANGED <<blocks, events, alive, sent, adding, wire, creator, syncer, crashes>>

-----------------------------------------------------------------------------
(* try_create_block and create_block_from_events.                           *)

SetCreator(n, t, c) == creator' = [creator EXCEPT ![n][t] = c]

\* The outcomes of a read that yields x, or a default when it fails.
Read(x, default) == {x} \cup (IF BlindReads THEN {default} ELSE {})

CheckProducer(n, t, next) ==
    /\ creator[n][t].phase = "start"
    /\ next \in Read(Tip(blocks[n]) + 1, 1)
    /\ LET mine == n \in Forced \/ n \in resolve_block_producer(n, next, alive[n])
       IN  SetCreator(n, t, IF mine THEN CreatorAt("collect", {}) ELSE NoCreator)
    /\ UNCHANGED <<tables, alive, requests, syncer, crashes>>

\* Faulty variant: the pools of the peers are not collected.
collected_locally(n, reached, confirmed) == pending[n] \ confirmed

\* collect_network_pending: the local pool and the pools of the peers that answer.
Collected(n, reached, confirmed) ==
    (pending[n] \cup UNION {pending[p] : p \in reached}) \ confirmed

\* block_creation_gate: enough events, or an old enough one (any can be).
CollectPending(n, t, reached, confirmed) ==
    /\ creator[n][t].phase = "collect"
    /\ reached \subseteq alive[n] \ {n}
    /\ Faults \/ reached = alive[n] \ {n}
    /\ confirmed \in Read(events[n], {})
    /\ LET batch == Collected(n, reached, confirmed)
       IN  \/ /\ batch # {}
              /\ SetCreator(n, t, CreatorAt("gated", batch))
           \/ /\ batch = {} \/ Cardinality(batch) < MinEvents
              /\ SetCreator(n, t, NoCreator)
    /\ UNCHANGED <<tables, alive, requests, syncer, crashes>>

LockFree(n) == \A t \in Task : creator[n][t].phase \notin InTx

\* Faulty variant: the batch is not filtered again under the lock.
begin_unfiltered(n, t) ==
    /\ creator[n][t].phase = "gated"
    /\ LockFree(n)
    /\ SetCreator(n, t, CreatorAt("filtered", creator[n][t].batch))
    /\ UNCHANGED <<tables, alive, requests, syncer, crashes>>

BeginTx(n, t) ==
    /\ creator[n][t].phase = "gated"
    /\ LockFree(n)
    /\ LET batch == creator[n][t].batch \ events[n]
       IN  SetCreator(n, t, IF batch = {} THEN NoCreator
                            ELSE CreatorAt("filtered", batch))
    /\ UNCHANGED <<tables, alive, requests, syncer, crashes>>

\* The events are inserted (ON CONFLICT DO NOTHING, once a deletion of the same
\* rows has ended) and projected, uncommitted; then last_hash is read.
ReadTip(n, t) ==
    /\ creator[n][t].phase = "filtered"
    /\ creator[n][t].batch \cap syncer[n].gone = {}
    /\ SetCreator(n, t, [creator[n][t] EXCEPT
                            !.phase = "tip",
                            !.rows = creator[n][t].batch \ events[n],
                            !.prev = TipHash(blocks[n])])
    /\ UNCHANGED <<tables, alive, requests, syncer, crashes>>

ReadNumber(n, t) ==
    /\ creator[n][t].phase = "tip"
    /\ SetCreator(n, t, [creator[n][t] EXCEPT !.phase = "number",
                                             !.number = Tip(blocks[n]) + 1])
    /\ UNCHANGED <<tables, alive, requests, syncer, crashes>>

\* Faulty variant: the events of the block are not recorded as confirmed.
commit_unrecorded(n, t, s) ==
    /\ creator[n][t].phase = "number"
    /\ LET c == creator[n][t]
           b == NewBlock(c.number, s, c.prev, c.batch)
       IN  /\ c.number \notin Numbers(blocks[n])
           /\ blocks' = [blocks EXCEPT ![n] = @ \cup {b}]
           /\ pending' = [pending EXCEPT ![n] = @ \ c.batch]
           /\ SetCreator(n, t, [c EXCEPT !.phase = "apply"])
    /\ UNCHANGED <<events, alive, requests, syncer, crashes>>

CommitBlock(n, t, s) ==
    /\ creator[n][t].phase = "number"
    /\ LET c == creator[n][t]
           b == NewBlock(c.number, s, c.prev, c.batch)
       IN  /\ c.number \notin Numbers(blocks[n])
           /\ blocks' = [blocks EXCEPT ![n] = @ \cup {b}]
           /\ events' = [events EXCEPT ![n] = @ \cup c.rows]
           /\ pending' = [pending EXCEPT ![n] = @ \ c.batch]
           /\ SetCreator(n, t, [c EXCEPT !.phase = "apply"])
    /\ UNCHANGED <<alive, requests, syncer, crashes>>

\* UNIQUE(block_number): the transaction fails and is rolled back.  While the
\* row with the number is being deleted, the insertion waits.
BlockNumberTaken(n, t) ==
    /\ creator[n][t].phase = "number"
    /\ creator[n][t].number \in Numbers(blocks[n]) \ Numbers(syncer[n].deleted)
    /\ SetCreator(n, t, NoCreator)
    /\ UNCHANGED <<tables, alive, requests, syncer, crashes>>

\* Faulty variant: pending events are deleted outside the transaction.
create_fails_forgets(n, t) ==
    /\ Faults
    /\ creator[n][t].phase \in {"start", "collect", "gated"} \cup InTx
    /\ pending' = [pending EXCEPT ![n] = @ \ creator[n][t].batch]
    /\ SetCreator(n, t, NoCreator)
    /\ UNCHANGED <<blocks, events, alive, requests, syncer, crashes>>

\* Any error on the way (a query, a projection) ends the task and rolls back.
CreateFails(n, t) ==
    /\ Faults
    /\ creator[n][t].phase \in {"start", "collect", "gated"} \cup InTx
    /\ SetCreator(n, t, NoCreator)
    /\ UNCHANGED <<tables, alive, requests, syncer, crashes>>

apply_peer_list_updates(registry, E) ==
    (registry \ UNION {PeerDead[e] : e \in E}) \cup UNION {PeerAlive[e] : e \in E}

ApplyCreated(n, t) ==
    /\ creator[n][t].phase = "apply"
    /\ alive' = [alive EXCEPT ![n] = apply_peer_list_updates(@, creator[n][t].batch)]
    /\ SetCreator(n, t, NoCreator)
    /\ UNCHANGED <<tables, requests, syncer, crashes>>

-----------------------------------------------------------------------------
(* background_sync: a round of sync_blocks_from_peers over the alive peers, *)
(* then try_create_block, then the next round.                              *)

SetSyncer(n, s) == syncer' = [syncer EXCEPT ![n] = s]

BeginRound(n) ==
    /\ syncer[n].phase = "idle"
    /\ creator[n][bg].phase = "idle"
    /\ SetSyncer(n, SyncerAt("peers", alive[n], alive[n] \ {n}))
    /\ UNCHANGED <<tables, alive, requests, creator, crashes>>

EndRound(n) ==
    /\ syncer[n].phase = "peers"
    /\ syncer[n].todo = {}
    /\ SetSyncer(n, NoSyncer)
    /\ IF Tip(blocks[n]) < MaxBlock
       THEN SetCreator(n, bg, CreatorAt("start", {}))
       ELSE UNCHANGED creator
    /\ UNCHANGED <<tables, alive, requests, crashes>>

\* The visit of the current peer is over.
NextPeer(n) == SyncerAt("peers", syncer[n].alive, syncer[n].todo)

\* What GET /blocks of p can yield: its blocks, or a damaged copy of them.
Replies(p) ==
    {blocks[p]} \cup
    IF Garbling
    THEN {(blocks[p] \ {b}) \cup {[b EXCEPT !.events = E]} : b \in blocks[p], E \in SUBSET Event}
    ELSE {}

FetchBlocks(n, p, reply) ==
    /\ syncer[n].phase = "peers"
    /\ p \in syncer[n].todo
    /\ reply \in Replies(p)
    /\ SetSyncer(n, [SyncerAt("fetched", syncer[n].alive, syncer[n].todo \ {p})
                        EXCEPT !.reply = reply])
    /\ UNCHANGED <<tables, alive, requests, creator, crashes>>

\* The peer cannot be reached, or its answer cannot be read.
FetchFails(n, p) ==
    /\ Faults
    /\ syncer[n].phase = "peers"
    /\ p \in syncer[n].todo
    /\ SetSyncer(n, SyncerAt("peers", syncer[n].alive, syncer[n].todo \ {p}))
    /\ UNCHANGED <<tables, alive, requests, creator, crashes>>

LoadLocal(n, local) ==
    /\ syncer[n].phase = "fetched"
    /\ local \in Read(blocks[n], {})
    /\ SetSyncer(n, [syncer[n] EXCEPT !.phase = "scan", !.local = local,
                                      !.rest = syncer[n].reply])
    /\ UNCHANGED <<tables, alive, requests, creator, crashes>>

(* What classify_block can answer.  Its three reads default to "not stored",  *)
(* "tip 0" and "0" when they fail, which rejects the block, unless it claims  *)
(* to be a first block.                                                       *)
Classes(n, b) ==
    {classify_block(b, blocks[n])} \cup
    IF ~BlindReads THEN {}
    ELSE IF HashOK(b) /\ b.prev = Genesis /\ b.number \in {1, Tip(blocks[n]) + 1}
    THEN {"reject", "insert"}
    ELSE {"reject"}

\* Continue the outer loop after block b.
NextBlock(n, b) ==
    [syncer[n] EXCEPT !.phase = "scan", !.rest = @ \ {b}, !.suffix = {},
                      !.gone = {}, !.deleted = {}]

\* Faulty variant: a node takes over any peer's copy of any forked block.
heals_any_fork(n, b) == chains_share_prefix(syncer[n].local, syncer[n].reply, b.number)

\* The designated producer of a forked block takes over the peer's copy.
SelfHeals(n, b) ==
    /\ n \in producer_id_for_block(b.number, syncer[n].alive)
    /\ chains_share_prefix(syncer[n].local, syncer[n].reply, b.number)

ScanBlock(n, b, class) ==
    /\ syncer[n].phase = "scan"
    /\ b \in syncer[n].rest
    /\ Lowest(b, syncer[n].rest)
    /\ class \in Classes(n, b)
    /\ SetSyncer(n, IF class = "insert"
                    THEN [syncer[n] EXCEPT !.phase = "insert"]
                    ELSE IF class = "fork" /\ SelfHeals(n, b)
                    THEN [syncer[n] EXCEPT !.phase = "truncate"]
                    ELSE NextBlock(n, b))
    /\ UNCHANGED <<tables, alive, requests, creator, crashes>>

ScanDone(n) ==
    /\ syncer[n].phase = "scan"
    /\ syncer[n].rest = {}
    /\ SetSyncer(n, NextPeer(n))
    /\ UNCHANGED <<tables, alive, requests, creator, crashes>>

\* The phases of truncate_chain_from's transaction.
Truncating == {"truncate", "deleteBlocks", "commitDelete"}

\* The block the outer loop, or adopt_peer_suffix' loop, is working on.
Current(n, b) ==
    \/ /\ syncer[n].phase \in {"insert", "cleanup", "replay"} \cup Truncating
       /\ b \in syncer[n].rest
       /\ Lowest(b, syncer[n].rest)
    \/ /\ syncer[n].phase \in {"adopt", "adoptInsert", "adoptCleanup"}
       /\ b \in syncer[n].suffix
       /\ Lowest(b, syncer[n].suffix)

\* A creator's uncommitted rows of the same events make the insertion wait.
RowsFree(n, E) ==
    \A t \in Task : creator[n][t].phase \in {"tip", "number"} => creator[n][t].rows \cap E = {}

InsertSynced(n, b) ==
    /\ syncer[n].phase \in {"insert", "adoptInsert"}
    /\ Current(n, b)
    /\ RowsFree(n, b.events)
    /\ b.number \notin Numbers(blocks[n])
    /\ blocks' = [blocks EXCEPT ![n] = @ \cup {b}]
    /\ events' = [events EXCEPT ![n] = @ \cup b.events]
    /\ SetSyncer(n, [syncer[n] EXCEPT
                        !.phase = IF @ = "insert" THEN "cleanup" ELSE "adoptCleanup"])
    /\ UNCHANGED <<pending, alive, requests, creator, crashes>>

\* adopt_peer_suffix returns an error: the outer loop goes on after the fork block.
AdoptError(n) ==
    \E f \in syncer[n].rest : Lowest(f, syncer[n].rest) /\ SetSyncer(n, NextBlock(n, f))

SyncNumberTaken(n, b) ==
    /\ syncer[n].phase \in {"insert", "adoptInsert"}
    /\ Current(n, b)
    /\ b.number \in Numbers(blocks[n])
    /\ IF syncer[n].phase = "insert" THEN SetSyncer(n, NextBlock(n, b)) ELSE AdoptError(n)
    /\ UNCHANGED <<tables, alive, requests, creator, crashes>>

\* A query or a projection fails; the transaction at hand is rolled back.
SyncFails(n) ==
    /\ Faults
    /\ syncer[n].phase \in {"insert", "adoptInsert", "replay"} \cup Truncating
    /\ AdoptError(n)
    /\ UNCHANGED <<tables, alive, requests, creator, crashes>>

\* delete_by_ids after the commit; it stops at the first failing id.
CleanupPending(n, b, gone) ==
    /\ syncer[n].phase \in {"cleanup", "adoptCleanup"}
    /\ Current(n, b)
    /\ gone \subseteq b.events
    /\ Faults \/ gone = b.events
    /\ pending' = [pending EXCEPT ![n] = @ \ gone]
    /\ SetSyncer(n, IF syncer[n].phase = "cleanup" THEN NextBlock(n, b)
                    ELSE [syncer[n] EXCEPT !.phase = "adopt", !.suffix = @ \ {b}])
    /\ UNCHANGED <<blocks, events, alive, requests, creator, crashes>>

-----------------------------------------------------------------------------
(* adopt_peer_suffix: truncate_chain_from, then insertion block by block.   *)

From(B, b) == {c \in B : c.number >= b.number}

\* Faulty variant: the events of the truncated blocks stay confirmed.
delete_no_events(n, b) ==
    /\ syncer[n].phase = "truncate"
    /\ Current(n, b)
    /\ SetSyncer(n, [syncer[n] EXCEPT !.phase = "deleteBlocks"])
    /\ UNCHANGED <<tables, alive, requests, creator, crashes>>

\* The blocks from b on are read, and the rows of their events deleted.
DeleteEvents(n, b) ==
    /\ syncer[n].phase = "truncate"
    /\ Current(n, b)
    /\ SetSyncer(n, [syncer[n] EXCEPT !.phase = "deleteBlocks",
                        !.gone = Events(From(blocks[n], b)) \cap events[n]])
    /\ UNCHANGED <<tables, alive, requests, creator, crashes>>

\* Faulty variant: the block below the fork goes as well.
delete_one_below(n, b) ==
    /\ syncer[n].phase = "deleteBlocks"
    /\ Current(n, b)
    /\ SetSyncer(n, [syncer[n] EXCEPT !.phase = "commitDelete",
                        !.deleted = {c \in blocks[n] : c.number + 1 >= b.number}])
    /\ UNCHANGED <<tables, alive, requests, creator, crashes>>

\* DELETE FROM blocks takes all the rows there are now: a task may have
\* committed a block since the events were deleted.
DeleteBlocks(n, b) ==
    /\ syncer[n].phase = "deleteBlocks"
    /\ Current(n, b)
    /\ SetSyncer(n, [syncer[n] EXCEPT !.phase = "commitDelete", !.deleted = From(blocks[n], b)])
    /\ UNCHANGED <<tables, alive, requests, creator, crashes>>

CommitTruncate(n, b) ==
    /\ syncer[n].phase = "commitDelete"
    /\ Current(n, b)
    /\ blocks' = [blocks EXCEPT ![n] = @ \ syncer[n].deleted]
    /\ events' = [events EXCEPT ![n] = @ \ syncer[n].gone]
    /\ SetSyncer(n, [syncer[n] EXCEPT !.phase = "replay", !.gone = {}, !.deleted = {}])
    /\ UNCHANGED <<pending, alive, requests, creator, crashes>>

ReplayProjections(n, b) ==
    /\ syncer[n].phase = "replay"
    /\ Current(n, b)
    /\ SetSyncer(n, [syncer[n] EXCEPT !.phase = "adopt",
                        !.suffix = From(syncer[n].reply, b)])
    /\ UNCHANGED <<tables, alive, requests, creator, crashes>>

AdoptBlock(n, b, class) ==
    /\ syncer[n].phase = "adopt"
    /\ Current(n, b)
    /\ class \in Classes(n, b)
    /\ \/ /\ class = "insert"
          /\ SetSyncer(n, [syncer[n] EXCEPT !.phase = "adoptInsert"])
       \/ /\ class = "skip"
          /\ SetSyncer(n, [syncer[n] EXCEPT !.suffix = @ \ {b}])
       \/ /\ class \in {"reject", "fork"}
          /\ AdoptError(n)
    /\ UNCHANGED <<tables, alive, requests, creator, crashes>>

\* reconciled: peer list updates of all the peer's blocks, and on to the next peer.
AdoptDone(n) ==
    /\ syncer[n].phase = "adopt"
    /\ syncer[n].suffix = {}
    /\ alive' = [alive EXCEPT ![n] = apply_peer_list_updates(@, Events(syncer[n].reply))]
    /\ SetSyncer(n, NextPeer(n))
    /\ UNCHANGED <<tables, requests, creator, crashes>>

-----------------------------------------------------------------------------
(* POST /peers, and a crash followed by main's start-up.                    *)

AddPeer(n, p, up) ==
    /\ <<n, p, up>> \in Operated
    /\ alive' = [alive EXCEPT ![n] = IF up THEN @ \cup {p} ELSE @ \ {p}]
    /\ UNCHANGED <<tables, requests, creator, syncer, crashes>>

Crash(n) ==
    /\ crashes < MaxCrash
    /\ crashes' = crashes + 1
    /\ adding' = [adding EXCEPT ![n] = {}]
    /\ receiving' = [receiving EXCEPT ![n] = {}]
    /\ creator' = [creator EXCEPT ![n] = [t \in Task |-> NoCreator]]
    /\ syncer' = [syncer EXCEPT ![n] = NoSyncer]
    /\ alive' = [alive EXCEPT ![n] = @ \cup {n} \cup Bootstrap[n]]
    /\ UNCHANGED <<tables, sent, wire>>

-----------------------------------------------------------------------------
Client(n) == \E e \in Event : AddEventValidate(n, e) \/ AddEventInsert(n, e)

Gossip(n) == \E e \in Event : GossipLost(n, e) \/ GossipCheck(n, e) \/ GossipInsert(n, e)

CreateStep(n, t) ==
    \/ \E next \in {1, Tip(blocks[n]) + 1} : CheckProducer(n, t, next)
    \/ \E reached \in SUBSET Node, confirmed \in {{}, events[n]} :
          CollectPending(n, t, reached, confirmed)
    \/ BeginTx(n, t)
    \/ ReadTip(n, t)
    \/ ReadNumber(n, t)
    \/ \E s \in Stamp : CommitBlock(n, t, s)
    \/ BlockNumberTaken(n, t)
    \/ CreateFails(n, t)
    \/ ApplyCreated(n, t)

SyncStep(n) ==
    \/ BeginRound(n)
    \/ \E p \in syncer[n].todo : \E reply \in Replies(p) : FetchBlocks(n, p, reply)
    \/ \E p \in syncer[n].todo : FetchFails(n, p)
    \/ \E local \in {{}, blocks[n]} : LoadLocal(n, local)
    \/ \E b \in syncer[n].rest :
          \/ \E class \in SyncBlockAction : ScanBlock(n, b, class)
          \/ DeleteEvents(n, b)
          \/ DeleteBlocks(n, b)
          \/ CommitTruncate(n, b)
          \/ ReplayProjections(n, b)
    \/ \E b \in syncer[n].rest \cup syncer[n].suffix :
          \/ InsertSynced(n, b)
          \/ SyncNumberTaken(n, b)
          \/ \E gone \in SUBSET b.events : CleanupPending(n, b, gone)
    \/ \E b \in syncer[n].suffix, class \in SyncBlockAction : AdoptBlock(n, b, class)
    \/ ScanDone(n)
    \/ AdoptDone(n)
    \/ SyncFails(n)
    \/ EndRound(n)

Next ==
    \E n \in Node :
        \/ Client(n)
        \/ Gossip(n)
        \/ \E t \in Task : CreateStep(n, t)
        \/ SyncStep(n)
        \/ \E p \in Node, up \in BOOLEAN : AddPeer(n, p, up)
        \/ Crash(n)

Spec == Init /\ [][Next]_vars

(* The runtime polls ready tasks (tokio): the background loop of a node goes  *)
(* on, and so do the requests and tasks at hand, in no particular order; each *)
(* of them ends after a few steps.                                            *)
Fairness ==
    \A n \in Node :
        /\ WF_vars(SyncStep(n) \/ CreateStep(n, bg))
        /\ WF_vars(\E e \in Event : \/ CreateStep(n, e)
                                   \/ AddEventInsert(n, e)
                                   \/ GossipCheck(n, e)
                                   \/ GossipInsert(n, e))

FairSpec == Spec /\ Fairness

-----------------------------------------------------------------------------
(* Properties.                                                              *)

\* Nodes whose only block production is that of the background loop.
Observer == {n \in Node : \A e \in Event : <<n, e>> \notin Requests}

(* Every stored block carries the hash of its own content: neither a block  *)
(* list damaged on the wire nor a stale tip or number read by a production  *)
(* task puts a block in a table that its hash does not describe             *)
(* (classify_block's check, create_block_from_events' computation).         *)
HashCommitted == \A n \in Node : \A b \in blocks[n] : HashOK(b)

(* On a node that runs no spawned production task, sync, self-healing at    *)
(* any of its steps, its failures and crashes, and the loop's own block     *)
(* production keep the chain numbered 1..tip and hash-linked, whatever      *)
(* chains its peers serve.                                                  *)
ObserverLinked == \A n \in Observer : Linked(blocks[n])

(* Two such nodes that hold the same hash at some height hold the same      *)
(* blocks up to it: what classify_block's Skip relies on.                   *)
PrefixAgreement ==
    \A m, n \in Observer : \A b \in blocks[m], c \in blocks[n] :
        b.hash = c.hash => {x \in blocks[m] : x.number <= b.number}
                         = {x \in blocks[n] : x.number <= c.number}

(* On a node that runs no spawned production task, a row of the `events`    *)
(* table always stands for an event of a block, also between and after the  *)
(* statements of truncate_chain_from and of its roll back: the table that   *)
(* validation and production consult reports no event as confirmed that has *)
(* left the chain.                                                          *)
ConfirmedInChain == \A n \in Observer : events[n] \subseteq Events(blocks[n])

(* An event leaves a node's pending pool only once a block of that node     *)
(* holds it: neither a rolled back transaction, nor the clean-up that runs  *)
(* after insert_synced_block's commit, drops an unconfirmed event.          *)
PendingLeavesConfirmed ==
    [][\A n \in Node : \A e \in pending[n] \ pending'[n] : e \in Events(blocks'[n])]_vars

(* Blocks disappear from a node only by self-healing, and then from the     *)
(* first block on which the peer's copy differs, a block the node is the    *)
(* designated producer of and which goes itself; the check was made on a    *)
(* snapshot, several steps and possibly several locally produced blocks     *)
(* earlier.  Where no task commits beside the deletion, nothing above the   *)
(* fork stays.                                                              *)
HealReplacesFork ==
    [][\A n \in Node : LET removed == blocks[n] \ blocks'[n] IN
        removed = {} \/
        \E f \in syncer[n].reply :
            /\ removed \subseteq From(blocks[n], f)
            /\ f.number \in Numbers(removed)
            /\ n \in Observer => removed = From(blocks[n], f)
            /\ n \in producer_id_for_block(f.number, syncer[n].alive)
            /\ HashesAt(blocks[n], f.number) \notin {{}, {f.hash}}
            /\ chains_share_prefix(blocks[n], syncer[n].reply, f.number)]_vars

(* An event in some pending pool is in the end in a block of every node.    *)
EventuallyConfirmed ==
    \A n \in Node : \A e \in Event : e \in pending[n] ~> \A m \in Node : e \in Events(blocks[m])

(* create_block_from_events leaves out what is already confirmed, so no     *)
(* event is in two blocks of a chain.                                       *)
NoEventTwice ==
    \A n \in Node : \A b, c \in blocks[n] : b # c => b.events \cap c.events = {}

-----------------------------------------------------------------------------
(* A statement of the code that it does not live up to.                     *)

(* Every node's chain is numbered 1..tip and each block names the hash of   *)
(* the one before it, as classify_block demands of every block it lets in:  *)
(* "previous_hash mismatch" otherwise.                                      *)
AllLinked == \A n \in Node : Linked(blocks[n])
=============================================================================
