------------------------------ MODULE Network --------------------------------
(***************************************************************************)
(* Several nodes, each with its own BlocksManager block index, receive the *)
(* candidates proposed for each epoch through the network, in any order    *)
(* and with any delay.  Each node's EpochManager closes epochs on the same *)
(* wall-clock schedule, and each node then consolidates the closed epoch   *)
(* over the candidates it holds, scanning its HashSet in its own order    *)
(* (a per-process random hasher).  A candidate that reaches a node after   *)
(* that node consolidated its epoch is still inserted by process_new_block *)
(* but never consolidated.                                                 *)
(*                                                                         *)
(* A node's process may exit and start again (node.rs close, then run):   *)
(* its block index, held in memory only, starts empty, the blocks on their *)
(* way to it are lost with its sessions, and its EpochManager consolidates *)
(* from the epoch it started in.  Peers may offer it a candidate of the    *)
(* open epoch again, as a relay or through the inventory exchange.         *)
(*                                                                         *)
(* TimelyDelivery states the network assumption under which the nodes are  *)
(* meant to agree: when an epoch closes, every node holds every candidate  *)
(* proposed for it, a node that restarted during the epoch included.       *)
(***************************************************************************)
EXTENDS Naturals, FiniteSets, FiniteSetsExt

CONSTANTS
  Nodes,           \* the nodes
  Blocks,          \* the candidates that may be proposed
  BlockHash,       \* [Blocks -> Nat], injective
  MaxEpoch,        \* the last epoch the clock closes
  NoHash,          \* an epoch consolidated with no candidate
  Undecided,       \* an epoch a node has not consolidated
  TimelyDelivery,  \* BOOLEAN: candidates reach every node before their epoch closes
  MaxRestarts      \* bound on the process restarts of all nodes together

Epochs == 1..MaxEpoch

VARIABLES
  node_blocks,     \* per node: BlocksManager.blocks
  node_cands,      \* per node: BlocksManager.epoch_to_block_hash
  in_transit,      \* <<node, block>> pairs sent and not yet delivered
  proposed,        \* candidates proposed so far
  current_epoch,   \* the shared clock: the epoch not yet closed
  consolidated,    \* per node and epoch: the hash it consolidated, history
  restarted_in,    \* per node: the epochs during which its process started again, history
  restarts         \* process restarts so far

vars == <<node_blocks, node_cands, in_transit, proposed, current_epoch, consolidated,
          restarted_in, restarts>>

(* The block index of node n. *)
Idx(n) == INSTANCE BlockIndex WITH blocks <- node_blocks[n],
                                   epoch_to_block_hash <- node_cands[n]

Init ==
  /\ node_blocks = [n \in Nodes |-> << >>]
  /\ node_cands = [n \in Nodes |-> [e \in Epochs |-> {}]]
  /\ in_transit = {}
  /\ proposed = {}
  /\ current_epoch = 1
  /\ consolidated = [n \in Nodes |-> [e \in Epochs |-> Undecided]]
  /\ restarted_in = [n \in Nodes |-> {}]
  /\ restarts = 0

(* A leader of the open epoch broadcasts its candidate to every node. *)
Propose(b) ==
  /\ current_epoch <= MaxEpoch
  /\ b.checkpoint = current_epoch
  /\ b \notin proposed
  /\ proposed' = proposed \cup {b}
  /\ in_transit' = in_transit \cup (Nodes \X {b})
  /\ UNCHANGED <<node_blocks, node_cands, current_epoch, consolidated,
                 restarted_in, restarts>>

(* A peer offers n again, during the epoch, one of its candidates: a      *)
(* relay of a block n may already have, or a block n fetches after its     *)
(* inventory exchange found it missing.                                    *)
Relay(n, b) ==
  /\ b \in proposed /\ b.checkpoint = current_epoch
  /\ <<n, b>> \notin in_transit
  /\ in_transit' = in_transit \cup {<<n, b>>}
  /\ UNCHANGED <<node_blocks, node_cands, proposed, current_epoch, consolidated,
                 restarted_in, restarts>>

(* Node n's session hands the block to its BlocksManager:                  *)
(* process_new_block inserts it, or rejects it as already known.           *)
Deliver(n, b) ==
  /\ <<n, b>> \in in_transit
  /\ in_transit' = in_transit \ {<<n, b>>}
  /\ IF Idx(n)!IsNewBlock(b)
       THEN /\ node_blocks' = [node_blocks EXCEPT ![n] = Idx(n)!WithBlock(b)]
            /\ node_cands' = [node_cands EXCEPT ![n] = Idx(n)!WithCandidate(b)]
       ELSE UNCHANGED <<node_blocks, node_cands>>
  /\ UNCHANGED <<proposed, current_epoch, consolidated,
                 restarted_in, restarts>>

(* The clock closes the current epoch on every node. *)
Tick ==
  /\ current_epoch <= MaxEpoch
  /\ TimelyDelivery =>
       \A n \in Nodes, b \in proposed :
         b.checkpoint = current_epoch => ~Idx(n)!IsNewBlock(b)
  /\ current_epoch' = current_epoch + 1
  /\ UNCHANGED <<node_blocks, node_cands, in_transit, proposed, consolidated,
                 restarted_in, restarts>>

(* The epoch node n's running process started in. *)
Joined(n) == IF restarted_in[n] = {} THEN 1 ELSE Max(restarted_in[n])

(* Node n's process exits (node::close, exit(0)) and node::run starts it    *)
(* again within the open epoch: BlocksManager::default holds no block and  *)
(* no candidate, and what its closed sessions were delivering is lost.     *)
Restart(n) ==
  /\ restarts < MaxRestarts
  /\ current_epoch <= MaxEpoch
  /\ node_blocks' = [node_blocks EXCEPT ![n] = << >>]
  /\ node_cands' = [node_cands EXCEPT ![n] = [e \in Epochs |-> {}]]
  /\ in_transit' = in_transit \ ({n} \X Blocks)
  /\ restarted_in' = [restarted_in EXCEPT ![n] = @ \cup {current_epoch}]
  /\ restarts' = restarts + 1
  /\ UNCHANGED <<proposed, current_epoch, consolidated>>

(* Node n consolidates the oldest closed epoch its process has not: the    *)
(* best of its candidates scanned from `first`, the element its HashSet    *)
(* yields first.                                                           *)
Consolidate(n) ==
  \E e \in Epochs :
    /\ Joined(n) <= e /\ e < current_epoch
    /\ consolidated[n][e] = Undecided
    /\ \A d \in Joined(n)..e - 1 : consolidated[n][d] # Undecided
    /\ LET cands == node_cands[n][e] IN
       IF cands = {}
         THEN consolidated' = [consolidated EXCEPT ![n][e] = NoHash]
         ELSE \E first \in cands :
                consolidated' = [consolidated EXCEPT
                                   ![n][e] = Idx(n)!BestOf(first, cands \ {first})]
    /\ UNCHANGED <<node_blocks, node_cands, in_transit, proposed, current_epoch,
                   restarted_in, restarts>>

Next ==
  \/ \E b \in Blocks : Propose(b)
  \/ \E p \in in_transit : Deliver(p[1], p[2])
  \/ \E n \in Nodes, b \in Blocks : Relay(n, b)
  \/ Tick
  \/ \E n \in Nodes : Consolidate(n) \/ Restart(n)

Spec == Init /\ [][Next]_vars

(***************************************************************************)
(* Properties                                                              *)
(***************************************************************************)

(* Spec 4.2: the tie-break is a fixed total order "so all honest nodes     *)
(* agree without additional communication": two nodes that consolidated   *)
(* the same epoch hold the same canonical block for it, also when one of   *)
(* them restarted during the epoch and had to fetch its candidates again.  *)
NodesAgree ==
  \A e \in Epochs, n1, n2 \in Nodes :
    consolidated[n1][e] # Undecided /\ consolidated[n2][e] # Undecided
      => consolidated[n1][e] = consolidated[n2][e]

=============================================================================
