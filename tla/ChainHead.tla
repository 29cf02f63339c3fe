------------------------------ MODULE ChainHead ------------------------------
(***************************************************************************)
(* What the chain-head tracker promises (spec 3, 4.3, 5, 7): the node's    *)
(* tip only moves forward to a later epoch while the node runs; the        *)
(* durable copy only ever takes the value the tip has at that moment; a    *)
(* restart resumes from the durable copy (or from genesis when there is    *)
(* none).  A durable write may fail or be lost, so the durable copy may    *)
(* lag behind the tip, but it never runs ahead of it and never regresses.  *)
(***************************************************************************)
EXTENDS Naturals

CONSTANTS
  ChainInfos,   \* the tip beacons: records [checkpoint, hash]
  Genesis,      \* ChainInfo built on first run
  NoChainInfo   \* nothing persisted yet

VARIABLES
  tip,      \* the chain head the node currently works from
  durable   \* the chain head a restart would recover

vars == <<tip, durable>>

Init ==
  /\ tip = Genesis
  /\ durable = NoChainInfo

(* Consolidation of a later epoch moves the tip forward. *)
Advance ==
  /\ \E ci \in ChainInfos : ci.checkpoint > tip.checkpoint /\ tip' = ci
  /\ UNCHANGED durable

(* A write of the current tip reaches durable storage. *)
Persist ==
  /\ durable' = tip
  /\ UNCHANGED tip

(* The node restarts from what is durable. *)
Recover ==
  /\ tip' = IF durable = NoChainInfo THEN Genesis ELSE durable
  /\ UNCHANGED durable

Next == Advance \/ Persist \/ Recover

Spec == Init /\ [][Next]_vars

(* The durable chain head is never ahead of the tip. *)
DurableNotAhead ==
  durable = NoChainInfo \/ durable.checkpoint <= tip.checkpoint

=============================================================================
