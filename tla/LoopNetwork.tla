---------------------------- MODULE LoopNetwork -----------------------------
(***************************************************************************)
(* The network of QuazarNode seen as a ReplicatedLog.  The refinement holds*)
(* when all registries agree and blocks are produced by the background     *)
(* loops alone; the runs of MCQuazarNode say what happens otherwise.       *)
(***************************************************************************)
EXTENDS QuazarNode

\* The chain of a node as a sequence of log entries.
Entries(B) ==
    [k \in 1 .. Tip(B) |-> LET b == BlockAt(B, k) IN [stamp |-> b.stamp, events |-> b.events]]

Log == INSTANCE ReplicatedLog WITH log <- [n \in Node |-> Entries(blocks[n])]

(* Production under the rotation of resolve_block_producer, copying by      *)
(* insert_synced_block, and every failure in between, make the chains       *)
(* prefixes of one log to which events are added once and for all.          *)
ImplementsLog == Log!Spec
=============================================================================
