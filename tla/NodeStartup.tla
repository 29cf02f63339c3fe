---------------------------- MODULE NodeStartup -----------------------------
(***************************************************************************)
(* Start-up of the node process (src/core/src/actors/node.rs run): the     *)
(* actors are started and registered in the system registry one after the  *)
(* other, then system.run() starts polling them.  Actor::start only spawns *)
(* the actor: its started() hook runs once the system polls it, in any     *)
(* order.  Two hooks look a collaborator up in the registry and send it a  *)
(* request: the EpochManager asks the ConfigManager for the configuration  *)
(* (epoch_manager/actor.rs started), and the BlocksManager asks the        *)
(* StorageManager for CHAIN_KEY; when storage holds none, the genesis      *)
(* chain info is persisted with persist_chain_info, which looks the        *)
(* StorageManager up again, sends it a Put and waits for the answer.  A    *)
(* registry lookup of a service that is not registered starts a fresh     *)
(* default instance of it.  The interrupt                                  *)
(* handlers registered by callback() may call close(), which exits.        *)
(***************************************************************************)
EXTENDS Naturals, Sequences, SequencesExt

CONSTANTS NoInstance   \* no address registered for a service

(* The actors in the order node::run starts them. *)
RunOrder ==
  << "ConfigManager", "StorageManager", "PeersManager", "ConnectionsManager",
     "SessionsManager", "EpochManager", "BlocksManager", "MempoolManager",
     "UtxoManager", "InventoryManager", "JsonRpcServer" >>

Actors == ToSet(RunOrder)

(* Mutant: the StorageManager's registry().set line is dropped. *)
RegistersDroppedStorage(a) == a \notin {"JsonRpcServer", "StorageManager"}

(* Every actor node::run starts is set in the registry but the JSON-RPC    *)
(* server.                                                                 *)
Registers(a) == a # "JsonRpcServer"

(* An actor instance: started by node::run, or by a registry lookup that   *)
(* found no address.                                                       *)
Instance(a, origin) == [actor |-> a, origin |-> origin]

VARIABLES
  line,        \* the next actor node::run starts; Len(RunOrder)+1 past the last
  running,     \* system.run() is polling the actors
  registry,    \* SystemRegistry: actor type -> registered instance
  spawned,     \* instances started whose started() has not yet run
  live,        \* instances whose started() has run
  mail,        \* requests sent and not yet handled: [to, kind]
  em_config,   \* the EpochManager has processed its configuration
  bm_chain,    \* the BlocksManager's chain info: "none", "persisting", "loaded"
  exited,      \* the process has exited
  chain_stored \* the database holds a ChainInfo under CHAIN_KEY

vars == <<line, running, registry, spawned, live, mail, em_config, bm_chain, exited,
          chain_stored>>

Instances == [actor : Actors, origin : {"run", "registry"}]

Init ==
  /\ line = 1
  /\ running = FALSE
  /\ registry = [a \in Actors |-> NoInstance]
  /\ spawned = {} /\ live = {} /\ mail = {}
  /\ em_config = FALSE
  /\ bm_chain = "none"
  /\ exited = FALSE
  /\ chain_stored \in BOOLEAN

(* node::run, one actor: `X::default().start()` spawns it, and             *)
(* `registry().set(addr)` registers it.                                     *)
RunActor ==
  /\ ~exited
  /\ line <= Len(RunOrder)
  /\ LET a == RunOrder[line] IN
     /\ spawned' = spawned \cup {Instance(a, "run")}
     /\ registry' = IF Registers(a) THEN [registry EXCEPT ![a] = Instance(a, "run")]
                    ELSE registry
  /\ line' = line + 1
  /\ UNCHANGED <<running, live, mail, em_config, bm_chain, exited,
                 chain_stored>>

(* system.run(): the arbiter starts polling the spawned actors. *)
SystemRun ==
  /\ ~exited /\ ~running
  /\ line = Len(RunOrder) + 1
  /\ running' = TRUE
  /\ UNCHANGED <<line, registry, spawned, live, mail, em_config, bm_chain, exited,
                 chain_stored>>

(* The address a lookup of actor type a returns: the registered one, or a  *)
(* default instance the registry starts and registers.                     *)
Lookup(a) == IF registry[a] # NoInstance THEN registry[a] ELSE Instance(a, "registry")

(* A started() hook of instance i that looks actor type a up in the       *)
(* registry and sends it a request of the given kind; a default instance   *)
(* the lookup starts is spawned.                                            *)
StartedSending(i, a, kind) ==
  LET t == Lookup(a) IN
  /\ registry' = [registry EXCEPT ![a] = t]
  /\ spawned' = (spawned \ {i}) \cup ({t} \ live)
  /\ live' = live \cup {i}
  /\ mail' = mail \cup {[to |-> t, kind |-> kind]}

(* The started() hook of an actor whose hook sends nothing in this core. *)
Started(i) ==
  /\ running /\ ~exited
  /\ i \in spawned
  /\ i.actor \notin {"EpochManager", "BlocksManager"}
  /\ spawned' = spawned \ {i}
  /\ live' = live \cup {i}
  /\ UNCHANGED <<line, running, registry, mail, em_config, bm_chain, exited,
                 chain_stored>>

(* Mutant: started() only logs and sends no configuration request. *)
EpochManagerStartedNoRequest(i) ==
  /\ running /\ ~exited
  /\ i \in spawned /\ i.actor = "EpochManager"
  /\ spawned' = spawned \ {i}
  /\ live' = live \cup {i}
  /\ UNCHANGED <<line, running, registry, mail, em_config, bm_chain, exited,
                 chain_stored>>

(* EpochManager::started: send_get_config_request to the ConfigManager. *)
EpochManagerStarted(i) ==
  /\ running /\ ~exited
  /\ i \in spawned /\ i.actor = "EpochManager"
  /\ StartedSending(i, "ConfigManager", "GetConfig")
  /\ UNCHANGED <<line, running, em_config, bm_chain, exited,
                 chain_stored>>

(* BlocksManager::started: Get(CHAIN_KEY) to the StorageManager. *)
BlocksManagerStarted(i) ==
  /\ running /\ ~exited
  /\ i \in spawned /\ i.actor = "BlocksManager"
  /\ StartedSending(i, "StorageManager", "GetChainInfo")
  /\ UNCHANGED <<line, running, em_config, bm_chain, exited,
                 chain_stored>>

(* A started ConfigManager answers; the EpochManager's process_config     *)
(* takes the configuration.                                                 *)
AnswerConfig(m) ==
  /\ ~exited
  /\ m \in mail /\ m.kind = "GetConfig" /\ m.to \in live
  /\ mail' = mail \ {m}
  /\ em_config' = TRUE
  /\ UNCHANGED <<line, running, registry, spawned, live, bm_chain, exited,
                 chain_stored>>

(* load_or_init persists the chain info only when it built a fresh genesis *)
(* one, storage holding none.                                              *)
Persists(stored) == ~stored

(* persist_chain_info at start-up: the StorageManager is looked up in the  *)
(* registry (a default instance is started if none is registered), the    *)
(* Put of CHAIN_KEY is sent to it, and the actor waits for the answer.     *)
(* Put::from_value(..).unwrap() panics when the chain info does not        *)
(* serialize, ending the process before anything is sent.                  *)
PersistChainInfo(rest) ==
  LET t == Lookup("StorageManager") IN
  /\ registry' = [registry EXCEPT !["StorageManager"] = t]
  /\ spawned' = spawned \cup ({t} \ live)
  /\ bm_chain' = "persisting"
  /\ mail' = rest \cup {[to |-> t, kind |-> "Put"]}

(* A started StorageManager answers the Get: the stored chain info is      *)
(* adopted, or genesis is built and persisted, or a storage error aborts   *)
(* the start (spec 7).                                                     *)
AnswerChainInfo(m, ok) ==
  /\ ~exited
  /\ m \in mail /\ m.kind = "GetChainInfo" /\ m.to \in live
  /\ LET rest == mail \ {m} IN
     CASE ~ok -> exited' = TRUE /\ mail' = rest
                 /\ UNCHANGED <<registry, spawned, bm_chain>>
       [] ok /\ Persists(chain_stored) ->
                 \/ PersistChainInfo(rest) /\ UNCHANGED exited
                 \/ exited' = TRUE /\ mail' = rest
                    /\ UNCHANGED <<registry, spawned, bm_chain>>
       [] OTHER -> bm_chain' = "loaded" /\ mail' = rest
                   /\ UNCHANGED <<registry, spawned, exited>>
  /\ UNCHANGED <<line, running, live, em_config, chain_stored>>

(* The StorageManager answers the Put; Ok or error, the waiting future     *)
(* resolves (an error is only logged) and the BlocksManager is ready.      *)
AnswerPut(m) ==
  /\ ~exited
  /\ m \in mail /\ m.kind = "Put" /\ m.to \in live
  /\ mail' = mail \ {m}
  /\ bm_chain' = "loaded"
  /\ UNCHANGED <<line, running, registry, spawned, live, em_config, exited,
                 chain_stored>>

(* node::close, called from an interrupt handler: exit(0). *)
Exit ==
  /\ ~exited
  /\ exited' = TRUE
  /\ UNCHANGED <<line, running, registry, spawned, live, mail, em_config, bm_chain,
                 chain_stored>>

Next ==
  \/ RunActor
  \/ SystemRun
  \/ \E i \in spawned : Started(i) \/ EpochManagerStarted(i) \/ BlocksManagerStarted(i)
  \/ \E m \in mail : AnswerConfig(m) \/ AnswerPut(m) \/ \E ok \in BOOLEAN : AnswerChainInfo(m, ok)
  \/ Exit

(* node::run runs to system.run(), and the arbiter polls every actor with  *)
(* a hook to run or a message to handle.                                   *)
Fairness ==
  /\ WF_vars(RunActor) /\ WF_vars(SystemRun)
  /\ \A i \in Instances :
       WF_vars(Started(i) \/ EpochManagerStarted(i) \/ BlocksManagerStarted(i))
  /\ \A m \in [to : Instances, kind : {"GetConfig", "GetChainInfo", "Put"}] :
       WF_vars(AnswerConfig(m) \/ AnswerPut(m) \/ \E ok \in BOOLEAN : AnswerChainInfo(m, ok))

Spec == Init /\ [][Next]_vars /\ Fairness

(***************************************************************************)
(* Properties                                                              *)
(***************************************************************************)

(* Every registry lookup a started() hook makes finds the actor node::run  *)
(* started, so no service runs twice (two StorageManagers over one         *)
(* database, a ConfigManager without the node's configuration), whatever   *)
(* the order in which the system runs the hooks.                           *)
SingleInstancePerService ==
  \A i \in spawned \cup live : i.origin = "run"

(* Once the system runs, start-up completes unless the process exits: the  *)
(* EpochManager gets its configuration and the BlocksManager its chain     *)
(* info.                                                                   *)
StartupCompletes ==
  running ~> (exited \/ (em_config /\ bm_chain = "loaded"))


=============================================================================
