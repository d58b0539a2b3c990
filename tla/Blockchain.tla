----------------------------- MODULE Blockchain -----------------------------
(***************************************************************************)
(* The pure part of the block layer: what a block is, how its hash commits *)
(* to it, how a received block is classified against the local `blocks`    *)
(* table, and which node is designated to produce a given block number     *)
(* (src/blockchain.rs and the first functions of src/block_producer.rs).   *)
(*                                                                         *)
(* A `blocks` table is a set of blocks.  Its block_number column is UNIQUE *)
(* in the schema, but nothing in the schema makes the numbers contiguous   *)
(* or the hashes linked: that is for the code to establish.                *)
(***************************************************************************)
EXTENDS Naturals, Sequences, FiniteSets

CONSTANTS
    Node,       \* node ids; the code orders them (sort by id), so they are numbers
    Event,      \* event_ids
    Stamp,      \* the values a block timestamp can take
    Public      \* the nodes whose registered URL does not contain "localhost"

ASSUME NodeAssumption == Node \subseteq Nat /\ IsFiniteSet(Node) /\ Public \subseteq Node

-----------------------------------------------------------------------------
(* Blocks.  SHA-256 is taken to be collision free: a hash is represented by *)
(* what it commits to.  A block's hash commits to its number, timestamp and *)
(* events and, through previous_hash, to everything below it.  The events   *)
(* of a block are a set: the code always sorts them by (timestamp, id).     *)

Body == [number : Nat, stamp : Stamp, events : SUBSET Event]
Hash == Seq(Body)
Block == [number : Nat, stamp : Stamp, events : SUBSET Event, prev : Hash, hash : Hash]

\* The previous_hash "0" of the first block.
Genesis == <<>>

\* Faulty variants: the hash leaves out the events, or the block number.
hash_without_events(number, stamp, prev, events) ==
    Append(prev, [number |-> number, stamp |-> stamp, events |-> {}])

hash_without_number(number, stamp, prev, events) ==
    Append(prev, [stamp |-> stamp, events |-> events])

compute_block_hash(number, stamp, prev, events) ==
    Append(prev, [number |-> number, stamp |-> stamp, events |-> events])

\* The block create_block_from_events assembles.
NewBlock(number, stamp, prev, events) ==
    [number |-> number, stamp |-> stamp, events |-> events, prev |-> prev,
     hash |-> compute_block_hash(number, stamp, prev, events)]

HashOK(b) == b.hash = compute_block_hash(b.number, b.stamp, b.prev, b.events)

-----------------------------------------------------------------------------
(* Queries on a `blocks` table B.                                          *)

Numbers(B) == {b.number : b \in B}
Events(B) == UNION {b.events : b \in B}

\* COALESCE(MAX(block_number), 0)
Tip(B) == CHOOSE m \in Numbers(B) \cup {0} : \A k \in Numbers(B) : k <= m

BlockAt(B, k) == CHOOSE b \in B : b.number = k

\* SELECT block_hash ... ORDER BY block_number DESC LIMIT 1, or "0"
TipHash(B) == IF B = {} THEN Genesis ELSE BlockAt(B, Tip(B)).hash

\* b is the lowest block of S: the sync loops go through blocks by number.
Lowest(b, S) == \A c \in S : b.number <= c.number

(* "fork" is the Reject "already exists with a different hash", the only   *)
(* reason the callers tell apart from the other rejections.                *)
SyncBlockAction == {"skip", "reject", "fork", "insert"}

\* Faulty variants: no check of the block's own hash; none of previous_hash;
\* none of previous_hash and of the position.
classify_unhashed(b, B) ==
    IF b.number \in Numbers(B)
    THEN IF BlockAt(B, b.number).hash = b.hash THEN "skip" ELSE "fork"
    ELSE IF b.number = Tip(B) + 1 /\ b.prev = TipHash(B) THEN "insert"
    ELSE "reject"

classify_unlinked(b, B) ==
    IF ~HashOK(b) THEN "reject"
    ELSE IF b.number \in Numbers(B)
         THEN IF BlockAt(B, b.number).hash = b.hash THEN "skip" ELSE "fork"
    ELSE IF b.number = Tip(B) + 1 THEN "insert"
    ELSE "reject"

classify_unordered(b, B) ==
    IF ~HashOK(b) THEN "reject"
    ELSE IF b.number \in Numbers(B)
         THEN IF BlockAt(B, b.number).hash = b.hash THEN "skip" ELSE "fork"
    ELSE "insert"

classify_block(b, B) ==
    IF ~HashOK(b) THEN "reject"
    ELSE IF b.number \in Numbers(B)
         THEN IF BlockAt(B, b.number).hash = b.hash THEN "skip" ELSE "fork"
    ELSE IF b.number = Tip(B) + 1 /\ b.prev = TipHash(B) THEN "insert"
    ELSE "reject"

\* The hashes stored at number k: none or one.
HashesAt(B, k) == {b.hash : b \in {c \in B : c.number = k}}

chains_share_prefix(local, peer, fork) ==
    \A k \in 1 .. fork - 1 : HashesAt(local, k) = HashesAt(peer, k)

-----------------------------------------------------------------------------
(* Producer rotation over the alive nodes of a registry.                    *)

Rotation(alive) == alive \cap Public

\* The designated producer of block k, as a set: empty when nobody is alive.
producer_id_for_block(k, alive) ==
    LET ring == Rotation(alive)
    IN  {p \in ring : Cardinality({q \in ring : q < p}) = (k - 1) % Cardinality(ring)}

\* Faulty variant: a node stands in for a designated producer other than itself.
always_self(self, k, alive) == {self}

resolve_block_producer(self, k, alive) ==
    IF Rotation(alive) = {} THEN {self} ELSE producer_id_for_block(k, alive)

-----------------------------------------------------------------------------
(* What a `blocks` table should be: numbered 1..tip and hash-linked.        *)

Contiguous(B) ==
    /\ Numbers(B) = 1 .. Tip(B)
    /\ \A b, c \in B : b.number = c.number => b = c

Linked(B) ==
    /\ Contiguous(B)
    /\ \A b \in B : HashOK(b)
    /\ \A b \in B : b.number = 1 => b.prev = Genesis
    /\ \A b, c \in B : c.number = b.number + 1 => c.prev = b.hash
=============================================================================
