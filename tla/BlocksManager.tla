---------------------------- MODULE BlocksManager ----------------------------
(***************************************************************************)
(* The BlocksManager actor (src/core/src/actors/blocks_manager/mod.rs)     *)
(* with the collaborators it talks to: the StorageManager actor that       *)
(* answers Put/Get on CHAIN_KEY (storage_manager/messages.rs), the         *)
(* EpochManager that closes epochs and asks for their consolidation,       *)
(* sessions that deliver blocks and inventory vectors, and the node        *)
(* process that may exit (node.rs close) or abort at startup and be run    *)
(* again (node.rs run).                                                    *)
(*                                                                         *)
(* The actor handles one message at a time.  persist_chain_info sends a    *)
(* Put and registers the reply future with AsyncContext::wait, so until    *)
(* the StorageManager answers the actor handles no other message:          *)
(* `persist_call` = "waiting" is that blocked state; "panicked" is the     *)
(* unwinding from the unwrap of a failed Put::from_value.  Storage may     *)
(* apply a Put or fail it; the process may stop with a Put in flight,      *)
(* which then has or has not reached the store.                            *)
(***************************************************************************)
EXTENDS BlockIndex

CONSTANTS
  NoChainInfo,   \* chain_info: None
  NoValue,       \* CHAIN_KEY absent from storage
  GenesisHash,   \* hash of the genesis-equivalent ChainInfo's beacon
  MaxEpoch,      \* the last epoch the clock closes
  MaxCrashes,    \* bound on process exits
  InvOffers,     \* inventory vector lists sessions may offer
  QueryHashes    \* hashes sessions may ask for

ASSUME Epochs = 1..MaxEpoch
ASSUME GenesisHash \notin Hashes

VARIABLES
  status,          \* "down", "loading" (chain info recovery in flight), "ready"
  chain_info,      \* BlocksManager.chain_info
  persist_call,    \* persist_chain_info: "idle", "waiting" on a Put, "panicked"
  put_in_flight,   \* Put messages sent and not yet answered
  store,           \* the bytes under CHAIN_KEY in storage
  consolidations,  \* consolidate(epoch) messages queued for the actor
  current_epoch,   \* the EpochManager's clock: the epoch not yet closed
  reply,           \* the last answer given to a session
  crashes          \* process exits so far

vars == <<blocks, epoch_to_block_hash, status, chain_info, persist_call,
          put_in_flight, store, consolidations, current_epoch, reply, crashes>>

ChainInfos == [checkpoint : {0} \cup Epochs, hash : {GenesisHash} \cup Hashes]

(* ChainInfo constructed on first run: tip at checkpoint 0. *)
Genesis == [checkpoint |-> 0, hash |-> GenesisHash]

NoReply == [op |-> "none"]

(* ChainInfo::to_bytes: the tip beacon's fields in order. *)
ToBytes(ci) == <<ci.checkpoint, ci.hash>>

(* Get<ChainInfo>: the stored bytes converted back into a ChainInfo. *)
FromBytes(v) == [checkpoint |-> v[1], hash |-> v[2]]

(* Put::from_value(CHAIN_KEY, ci) when to_bytes succeeds. *)
PutFromValue(ci) == [key |-> "CHAIN_KEY", value |-> ToBytes(ci)]

StoredValues == {ToBytes(ci) : ci \in ChainInfos}

(* The state of a freshly started process: BlocksManager::default(). *)
MemoryReset ==
  /\ IndexReset
  /\ chain_info' = NoChainInfo
  /\ persist_call' = "idle"
  /\ put_in_flight' = {}
  /\ consolidations' = << >>
  /\ reply' = NoReply

Init ==
  /\ IndexInit
  /\ status = "down"
  /\ chain_info = NoChainInfo
  /\ persist_call = "idle"
  /\ put_in_flight = {}
  /\ store = NoValue
  /\ consolidations = << >>
  /\ current_epoch = 1
  /\ reply = NoReply
  /\ crashes = 0

(* The actor takes its next message only when it is not blocked on a future. *)
Serving == status = "ready" /\ persist_call = "idle"

(* Mutant: the Put future is spawned instead of waited for. *)
PersistChainInfoSpawned(ci) ==
  IF ci = NoChainInfo
    THEN UNCHANGED <<persist_call, put_in_flight>>
    ELSE \/ /\ persist_call' = persist_call
            /\ put_in_flight' = put_in_flight \cup {PutFromValue(ci)}
         \/ /\ crashes < MaxCrashes
            /\ persist_call' = "panicked"
            /\ UNCHANGED put_in_flight

(***************************************************************************)
(* persist_chain_info: with no chain info it logs and returns; otherwise   *)
(* it sends Put::from_value(CHAIN_KEY, chain_info) and waits for the       *)
(* answer.  If to_bytes fails, the unwrap panics and the process exits     *)
(* (Crash), with chain_info already advanced in memory.                    *)
(***************************************************************************)
PersistChainInfo(ci) ==
  IF ci = NoChainInfo
    THEN UNCHANGED <<persist_call, put_in_flight>>
    ELSE \/ /\ persist_call' = "waiting"
            /\ put_in_flight' = put_in_flight \cup {PutFromValue(ci)}
         \/ /\ crashes < MaxCrashes
            /\ persist_call' = "panicked"
            /\ UNCHANGED put_in_flight

(* node::run: the StorageManager and then the BlocksManager start; the     *)
(* actor's started() asks storage for CHAIN_KEY and waits for the answer.  *)
Start ==
  /\ status = "down"
  /\ status' = "loading"
  /\ UNCHANGED <<blocks, epoch_to_block_hash, chain_info, persist_call,
                 put_in_flight, store, consolidations, current_epoch, reply, crashes>>

(***************************************************************************)
(* The Get(CHAIN_KEY) answer: a stored ChainInfo is adopted; an absent one *)
(* is replaced by genesis, which is persisted; a storage error aborts the  *)
(* startup (the process exits).                                            *)
(***************************************************************************)
LoadChainInfo ==
  /\ status = "loading"
  /\ status' = "ready"
  /\ IF store = NoValue
       THEN /\ chain_info' = Genesis
            /\ PersistChainInfo(Genesis)
       ELSE /\ chain_info' = FromBytes(store)
            /\ UNCHANGED <<persist_call, put_in_flight>>
  /\ UNCHANGED <<blocks, epoch_to_block_hash, store, consolidations,
                 current_epoch, reply, crashes>>

LoadChainInfoFails ==
  /\ status = "loading"
  /\ status' = "down"
  /\ MemoryReset
  /\ UNCHANGED <<store, current_epoch, crashes>>

(***************************************************************************)
(* The StorageManager answers a Put: Ok after writing the value, or an     *)
(* error with the store untouched.  Either answer resolves the future the  *)
(* actor waits on; the error is only logged (FIXME #72).                   *)
(***************************************************************************)
PutCompletes(put, ok) ==
  /\ status # "down"
  /\ put \in put_in_flight
  /\ store' = IF ok THEN put.value ELSE store
  /\ put_in_flight' = put_in_flight \ {put}
  /\ persist_call' = "idle"
  /\ UNCHANGED <<blocks, epoch_to_block_hash, status, chain_info,
                 consolidations, current_epoch, reply, crashes>>

(***************************************************************************)
(* A session's block: process_new_block hashes it (to_bytes may fail with  *)
(* a StorageError) and inserts it, or rejects it as a duplicate.           *)
(***************************************************************************)
ReceiveBlock(b) ==
  /\ Serving
  /\ \/ /\ ProcessNewBlock(b)
        /\ reply' = [op |-> "block", result |-> Ok(Hash(b))]
     \/ /\ ~IsNewBlock(b)
        /\ reply' = [op |-> "block", result |-> Err("BlockAlreadyExists")]
        /\ UNCHANGED indexVars
     \/ /\ reply' = [op |-> "block", result |-> Err("StorageError")]
        /\ UNCHANGED indexVars
  /\ UNCHANGED <<status, chain_info, persist_call, put_in_flight, store,
                 consolidations, current_epoch, crashes>>

(* A session asks for a block by hash: try_to_get_block. *)
GetBlock(h) ==
  /\ Serving
  /\ reply' = [op |-> "get", result |-> TryToGetBlock(h)]
  /\ UNCHANGED <<blocks, epoch_to_block_hash, status, chain_info, persist_call,
                 put_in_flight, store, consolidations, current_epoch, crashes>>

(* A session offers inventory vectors: discard_existing_inv_vectors. *)
ReceiveInvVectors(vs) ==
  /\ Serving
  /\ reply' = [op |-> "inv", result |-> Ok(DiscardExistingInvVectors(vs))]
  /\ UNCHANGED <<blocks, epoch_to_block_hash, status, chain_info, persist_call,
                 put_in_flight, store, consolidations, current_epoch, crashes>>

(* The EpochManager closes the current epoch and, while the node runs,     *)
(* sends consolidate(epoch) to the actor's mailbox.                        *)
Tick ==
  /\ current_epoch <= MaxEpoch
  /\ current_epoch' = current_epoch + 1
  /\ consolidations' = IF status = "down" THEN consolidations
                       ELSE Append(consolidations, current_epoch)
  /\ UNCHANGED <<blocks, epoch_to_block_hash, status, chain_info, persist_call,
                 put_in_flight, store, reply, crashes>>

(* consolidate(epoch) at the head of the mailbox: the canonical candidate *)
(* of the epoch becomes chain_info and is persisted; an epoch without     *)
(* candidates is a no-op (spec 4.2 step 1).                               *)
Consolidate ==
  /\ Serving
  /\ consolidations # << >>
  /\ consolidations' = Tail(consolidations)
  /\ LET e     == Head(consolidations)
         cands == epoch_to_block_hash[e]
         ci    == [checkpoint |-> e, hash |-> Canonical(cands)]
     IN IF cands = {}
          THEN UNCHANGED <<chain_info, persist_call, put_in_flight>>
          ELSE /\ chain_info' = ci
               /\ PersistChainInfo(ci)
  /\ UNCHANGED <<blocks, epoch_to_block_hash, status, store, current_epoch,
                 reply, crashes>>

(***************************************************************************)
(* The process exits (node::close, or a panic such as the unwrap of        *)
(* Put::from_value): all actor memory is lost; a Put in flight may or may  *)
(* not have reached the store.                                             *)
(***************************************************************************)
Crash ==
  /\ status # "down"
  /\ crashes < MaxCrashes
  /\ crashes' = crashes + 1
  /\ status' = "down"
  /\ store' \in {store} \cup {put.value : put \in put_in_flight}
  /\ MemoryReset
  /\ UNCHANGED current_epoch

Next ==
  \/ Start
  \/ LoadChainInfo
  \/ LoadChainInfoFails
  \/ \E put \in put_in_flight, ok \in BOOLEAN : PutCompletes(put, ok)
  \/ \E b \in Blocks : ReceiveBlock(b)
  \/ \E h \in QueryHashes : GetBlock(h)
  \/ \E vs \in InvOffers : ReceiveInvVectors(vs)
  \/ Tick
  \/ Consolidate
  \/ Crash

Spec == Init /\ [][Next]_vars

(***************************************************************************)
(* Properties                                                              *)
(***************************************************************************)

(* The chain head the node works from: the actor's chain_info while it     *)
(* serves, otherwise what a start would recover from storage.              *)
TipBar ==
  IF status = "ready" THEN chain_info
  ELSE IF store = NoValue THEN Genesis ELSE FromBytes(store)

DurableBar == IF store = NoValue THEN NoChainInfo ELSE FromBytes(store)

Chain == INSTANCE ChainHead WITH tip <- TipBar, durable <- DurableBar

(* The actor, the StorageManager and process exits together implement the *)
(* chain-head contract: the tip only moves to later epochs, storage only   *)
(* ever receives the current tip (never an older Put landing late), and a *)
(* restart resumes from storage or from genesis.                          *)
ChainHeadRefinement == Chain!Spec

(* Module documentation (mod.rs line 11): valid blocks are put into       *)
(* storage, so the block a recovered chain head names can be served: the  *)
(* tip beacon of a serving node is genesis or a block the node has.       *)
TipBlockKnown ==
  status = "ready" /\ chain_info # NoChainInfo /\ chain_info # Genesis
    => chain_info.hash \in DOMAIN blocks

(* Spec 5: persistence does not suspend the processing of block messages: *)
(* a serving node can always take a session's block.                      *)
NonBlockingPersistence ==
  status = "ready" => \A b \in Blocks : ENABLED ReceiveBlock(b)

=============================================================================
