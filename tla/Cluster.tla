------------------------------ MODULE Cluster ------------------------------
(* The nodes of an installation watching each other: cluster_discovery     *)
(* broadcasts a heartbeat every 2500 ms, cluster_manager ages what it      *)
(* heard and turns silence into SUSPECT and OFFLINE, cluster_events hands  *)
(* every change to cluster_failover, and cluster_io keeps who owns which   *)
(* input or output.  One unit of time is one heartbeat period.             *)
(*                                                                         *)
(* On every node two tasks call the handlers: the receiver (heartbeats and *)
(* frames) and core_aux_task (the ageing).  Each changes the table under   *)
(* cluster_manager_lock and publishes after leaving it, so an event may be *)
(* handled when the table has already moved on.                            *)
EXTENDS Naturals, FiniteSets

CONSTANTS
  Nodes,         \* node_identity: ids derived from the MAC, never 0
  Ios,           \* ids of inputs and outputs
  LocalIo,       \* LocalIo[n]: what register_local_cluster_io registers on n
  Gateways,      \* nodes the registries hold with the profile "gateway"
  Admitted,      \* nodes the registries hold as ACTIVE (operational)
  MaxNodes,      \* MAX_NODES, slots of the manager's table
  SuspectAfter,  \* HEARTBEAT_TIMEOUT_MS
  OfflineAfter,  \* SUSPECT_TIMEOUT_MS
  AgeModulus,    \* 2^32 ms: where now - last_seen_ms starts again at 0
  WrapChoices,   \* does the behaviour last longer than AgeModulus?
  Crashes        \* bound: power cuts in a behaviour

ASSUME ClusterAssumption ==
  /\ Nodes \subseteq Nat \ {0} /\ IsFiniteSet(Nodes)
  /\ LocalIo \in [Nodes -> SUBSET Ios]
  /\ Gateways \subseteq Nodes /\ Admitted \subseteq Nodes
  /\ SuspectAfter \in Nat /\ OfflineAfter \in Nat /\ AgeModulus \in Nat
  /\ 0 < SuspectAfter /\ SuspectAfter < OfflineAfter
  /\ OfflineAfter + 1 < AgeModulus
  /\ MaxNodes \in Nat /\ Crashes \in Nat
  /\ WrapChoices \subseteq BOOLEAN

NoNode == 0
ASSUME NoEntryAssumption == NoNode \notin Nodes

NoSlot == "none"
States == {"ONLINE", "SUSPECT", "OFFLINE"}

VARIABLES
  up,       \* nodes that are powered and have started the cluster
  state,    \* state[n][m]: nodes[].state of m in the table of n, or NoSlot
  age,      \* age[n][m]: now - last_seen_ms of m, as n computes it
  rx,       \* rx[n]: node whose ONLINE event the receiver has yet to publish
  events,   \* events[n]: cluster_manager_events_buf, yet to be published
  told,     \* told[n][m]: last event about m that the handler of n was given
  io,       \* io[n][i]: entry of io_table, NoEntry where it is not valid
  latched,  \* nodes that applied the fail-safe for a lost gateway
  net,      \* frames broadcast so far
  sent,     \* nodes that sent their heartbeat of this period
  ran,      \* nodes whose ageing ran in this period
  lossy,    \* heartbeats may still be lost
  wraps,    \* the behaviour lasts longer than AgeModulus
  crashes   \* power cuts so far

vars == <<up, state, age, rx, events, told, io, latched, net, sent, ran,
          lossy, wraps, crashes>>

NoEntry == [owner |-> NoNode, original_owner |-> NoNode]
Entry(owner, original) == [owner |-> owner, original_owner |-> original]

Update == [type : {"io_update"}, to : Nodes, io : Ios, new_owner : Nodes,
           original_owner : Nodes]
Command == [type : {"output_command"}, to : Nodes, io : Ios, requester : Nodes]
Event == [node : Nodes, type : States]

(* cluster_manager_start and register_local_cluster_io on n.               *)
FreshTable(n) == [m \in Nodes |-> IF m = n THEN "ONLINE" ELSE NoSlot]
FreshIo(n) == [i \in Ios |-> IF i \in LocalIo[n] THEN Entry(n, n) ELSE NoEntry]

Init ==
  /\ up = Nodes
  /\ state = [n \in Nodes |-> FreshTable(n)]
  /\ age = [n \in Nodes |-> [m \in Nodes |-> 0]]
  /\ rx = [n \in Nodes |-> NoNode]
  /\ events = [n \in Nodes |-> {}]
  /\ told = [n \in Nodes |-> [m \in Nodes |-> NoSlot]]
  /\ io = [n \in Nodes |-> FreshIo(n)]
  /\ latched = {} /\ net = {} /\ sent = {} /\ ran = {}
  /\ lossy = TRUE /\ crashes = 0
  /\ wraps \in WrapChoices

-----------------------------------------------------------------------------
(* The manager.                                                            *)

Known(n) == {m \in Nodes : state[n][m] # NoSlot}

(* get_or_create_node finds the slot of m or a free one.                   *)
HasSlot(n, m) == m \in Known(n) \/ Cardinality(Known(n)) < MaxNodes

(* Mutant: >= where the thresholds are exceeded with >.                    *)
StateFromAgeReached(a) ==
  IF a >= OfflineAfter THEN "OFFLINE"
  ELSE IF a >= SuspectAfter THEN "SUSPECT" ELSE "ONLINE"

StateFromAge(a) ==
  IF a > OfflineAfter THEN "OFFLINE"
  ELSE IF a > SuspectAfter THEN "SUSPECT" ELSE "ONLINE"

(* cluster_get_master_node: the least id that is ONLINE, NoNode if none.   *)
OnlineIn(n) == {m \in Nodes : state[n][m] = "ONLINE"}
IsMaster(n, m) == m \in OnlineIn(n) /\ \A k \in OnlineIn(n) : m <= k

(* cluster_transport_send_heartbeat on n; at each node the broadcast       *)
(* reaches, cluster_discovery_on_heartbeat -> cluster_manager_update_node  *)
(* up to the unlock.  A receiver that is still publishing does not take    *)
(* the next datagram.                                                      *)
Heartbeat(n) ==
  /\ n \in up /\ n \notin sent
  /\ \E reached \in SUBSET {m \in up \ {n} : rx[m] = NoNode} :
       /\ ~lossy => reached = up \ {n}
       /\ LET heard == {m \in reached : HasSlot(m, n)}
          IN  /\ state' = [m \in Nodes |-> IF m \in heard
                             THEN [state[m] EXCEPT ![n] = "ONLINE"]
                             ELSE state[m]]
              /\ age' = [m \in Nodes |-> IF m \in heard
                           THEN [age[m] EXCEPT ![n] = 0] ELSE age[m]]
              /\ rx' = [m \in Nodes |->
                          IF m \in heard /\ state[m][n] # "ONLINE"
                          THEN n ELSE rx[m]]
  /\ sent' = sent \cup {n}
  /\ UNCHANGED <<up, events, told, io, latched, net, ran, lossy, wraps,
                 crashes>>

(* cluster_manager_process up to the unlock: refresh every slot but our    *)
(* own and keep the changes in the event buffer.                           *)
Refreshed(n, m) ==
  IF m = n \/ state[n][m] = NoSlot THEN state[n][m]
  ELSE StateFromAge(age[n][m])

(* Mutant: only a node that was ONLINE is announced.                       *)
AnnouncedOnce(n, m) == Refreshed(n, m) # state[n][m] /\ state[n][m] = "ONLINE"

(* old_state != node->state: the change is announced.                      *)
Announced(n, m) == Refreshed(n, m) # state[n][m]

Process(n) ==
  /\ n \in up /\ events[n] = {}
  /\ state' = [state EXCEPT ![n] = [m \in Nodes |-> Refreshed(n, m)]]
  /\ events' = [events EXCEPT ![n] =
                  {[node |-> m, type |-> Refreshed(n, m)] :
                     m \in {k \in Nodes : Announced(n, k)}}]
  /\ ran' = ran \cup {n}
  /\ UNCHANGED <<up, age, rx, told, io, latched, net, sent, lossy, wraps,
                 crashes>>

-----------------------------------------------------------------------------
(* Ownership of inputs and outputs, and the event handler.                 *)

Frames(n, table, which) ==
  {[type |-> "io_update", to |-> m, io |-> i, new_owner |-> table[i].owner,
    original_owner |-> table[i].original_owner] :
     m \in up \ {n}, i \in {j \in which : table[j] # NoEntry}}

(* cluster_io_handle_node_offline on n: the master takes over.             *)
TakenOver(n, m) ==
  IF ~IsMaster(n, n) THEN io[n]
  ELSE [i \in Ios |-> IF io[n][i].owner = m
                      THEN [io[n][i] EXCEPT !.owner = n] ELSE io[n][i]]

(* cluster_io_handle_node_online on n: give back, then sync_all.           *)
GivenBack(n, m) ==
  [i \in Ios |-> IF io[n][i].original_owner = m /\ io[n][i].owner = n
                 THEN [io[n][i] EXCEPT !.owner = m] ELSE io[n][i]]

(* cluster_io_sync_state_to_node: the stored value of what m owns.         *)
Resync(n, m, table) ==
  {[type |-> "output_command", to |-> m, io |-> i, requester |-> n] :
     i \in {j \in Ios : table[j].owner = m}}

Changed(n, table) == {i \in Ios : table[i] # io[n][i]}

(* Mutants: the loss of any node latches; only gateways that are not yet   *)
(* admitted are looked up.                                                 *)
LatchesOnAny(e) == e.type # "ONLINE"
LatchesOnNew(e) == e.type # "ONLINE" /\ e.node \in Gateways \ Admitted

(* cluster_failover_apply_local_failsafe_if_gateway_lost: SUSPECT and      *)
(* OFFLINE of a registered gateway apply the fail-safe.                    *)
LatchesOn(e) == e.type # "ONLINE" /\ e.node \in Gateways

(* cluster_failover_event_handler on n.                                    *)
Handle(n, e) ==
  /\ told' = [told EXCEPT ![n][e.node] = e.type]
  /\ latched' = IF LatchesOn(e)
                THEN latched \cup {n} ELSE latched
  /\ \/ /\ e.type = "OFFLINE"
        /\ LET table == TakenOver(n, e.node)
           IN  /\ io' = [io EXCEPT ![n] = table]
               /\ net' = net \cup Frames(n, table, Changed(n, table))
     \/ /\ e.type = "ONLINE"
        /\ LET table == GivenBack(n, e.node)
           IN  /\ io' = [io EXCEPT ![n] = table]
               /\ net' = net \cup Frames(n, table, Ios)
                             \cup Resync(n, e.node, table)
     \/ /\ e.type = "SUSPECT"
        /\ UNCHANGED <<io, net>>

(* The rest of cluster_manager_update_node: publish ONLINE.                *)
ReceiverPublish(n) ==
  /\ n \in up /\ rx[n] # NoNode
  /\ Handle(n, [node |-> rx[n], type |-> "ONLINE"])
  /\ rx' = [rx EXCEPT ![n] = NoNode]
  /\ UNCHANGED <<up, state, age, events, sent, ran, lossy, wraps, crashes>>

(* cluster_manager_publish_events, one event.                              *)
AuxPublish(n) ==
  /\ n \in up
  /\ \E e \in events[n] :
       /\ Handle(n, e)
       /\ events' = [events EXCEPT ![n] = @ \ {e}]
  /\ UNCHANGED <<up, state, age, rx, sent, ran, lossy, wraps, crashes>>

(* cluster_io_node_is_operational.                                         *)
Operational(n, m) == m = n \/ m \in Admitted

(* cluster_io_allocate_locked: an unknown id gets an entry of our own.     *)
Allocated(n, i) == IF io[n][i] = NoEntry THEN Entry(n, n) ELSE io[n][i]

(* Mutant: an update overwrites an id that is local.                       *)
AfterUpdateUnguarded(n, msg) == Entry(msg.new_owner, msg.original_owner)

(* cluster_io_handle_update: what becomes of the entry.                    *)
AfterUpdate(n, msg) ==
  LET entry == Allocated(n, msg.io)
  IN  IF entry.original_owner = n /\ msg.original_owner # n THEN entry
      ELSE Entry(msg.new_owner, msg.original_owner)

(* A frame reaches its node (cluster_io_handle_transport_frame -> protocol_  *)
(* process_frame).  Frames stay in net: one may arrive late, twice or      *)
(* never.  An output command goes on to OutputPath.                        *)
Deliver(msg) ==
  /\ msg.to \in up /\ msg.type = "io_update"
  /\ Operational(msg.to, msg.new_owner)
  /\ Operational(msg.to, msg.original_owner)
  /\ io' = [io EXCEPT ![msg.to][msg.io] = AfterUpdate(msg.to, msg)]
  /\ UNCHANGED <<up, state, age, rx, events, told, latched, net, sent, ran,
                 lossy, wraps, crashes>>

-----------------------------------------------------------------------------
(* The environment: time, power and the quality of the network.            *)

(* Ages count up to one beyond the last threshold, and start again at 0    *)
(* where the behaviour outlasts the 32-bit clock.                          *)
Older(a) == IF wraps THEN (a + 1) % AgeModulus
            ELSE IF a > OfflineAfter THEN a ELSE a + 1

(* A period is over when every node sent, aged and published.              *)
Tick ==
  /\ up \subseteq sent /\ up \subseteq ran
  /\ \A n \in up : events[n] = {} /\ rx[n] = NoNode
  /\ age' = [n \in Nodes |-> [m \in Nodes |->
               IF n \in up /\ m # n /\ state[n][m] # NoSlot
               THEN Older(age[n][m]) ELSE age[n][m]]]
  /\ sent' = {} /\ ran' = {}
  /\ UNCHANGED <<up, state, rx, events, told, io, latched, net, lossy, wraps,
                 crashes>>

(* A power cut clears the RAM; the registries are in flash.                *)
Crash(n) ==
  /\ n \in up /\ crashes < Crashes
  /\ crashes' = crashes + 1
  /\ up' = up \ {n}
  /\ state' = [state EXCEPT ![n] = FreshTable(n)]
  /\ age' = [age EXCEPT ![n] = [m \in Nodes |-> 0]]
  /\ rx' = [rx EXCEPT ![n] = NoNode]
  /\ events' = [events EXCEPT ![n] = {}]
  /\ told' = [told EXCEPT ![n] = [m \in Nodes |-> NoSlot]]
  /\ io' = [io EXCEPT ![n] = FreshIo(n)]
  /\ latched' = latched \ {n}
  /\ UNCHANGED <<net, sent, ran, lossy, wraps>>

(* A node starts again; its first heartbeat waits for a random delay.      *)
Boot(n) ==
  /\ n \notin up
  /\ up' = up \cup {n}
  /\ sent' = sent \cup {n}
  /\ UNCHANGED <<state, age, rx, events, told, io, latched, net, ran, lossy,
                 wraps, crashes>>

(* From here on every heartbeat arrives.                                   *)
Heal ==
  /\ lossy /\ lossy' = FALSE
  /\ UNCHANGED <<up, state, age, rx, events, told, io, latched, net, sent,
                 ran, wraps, crashes>>

Next ==
  \/ \E n \in Nodes :
       Heartbeat(n) \/ Process(n) \/ ReceiverPublish(n) \/ AuxPublish(n)
         \/ Crash(n) \/ Boot(n)
  \/ \E msg \in net : Deliver(msg)
  \/ Tick \/ Heal

(* discovery_broadcast_task and core_aux_task are periodic, a publisher    *)
(* goes on once it started, and time passes.  Neither a node's start nor a *)
(* better network is promised.                                             *)
Fairness ==
  /\ \A n \in Nodes :
       /\ WF_vars(Heartbeat(n))
       /\ WF_vars(Process(n) /\ n \notin ran)
       /\ WF_vars(ReceiverPublish(n))
       /\ WF_vars(AuxPublish(n))
  /\ WF_vars(Tick)

Spec == Init /\ [][Next]_vars
FairSpec == Spec /\ Fairness

-----------------------------------------------------------------------------
(* The tables and queues hold what their C types can hold.                 *)
TypeOK ==
  /\ up \subseteq Nodes
  /\ state \in [Nodes -> [Nodes -> States \cup {NoSlot}]]
  /\ age \in [Nodes -> [Nodes -> 0 .. (AgeModulus - 1)]]
  /\ rx \in [Nodes -> Nodes \cup {NoNode}]
  /\ events \in [Nodes -> SUBSET Event]
  /\ told \in [Nodes -> [Nodes -> States \cup {NoSlot}]]
  /\ io \in [Nodes -> [Ios -> {NoEntry} \cup
               [owner : Nodes, original_owner : Nodes]]]
  /\ latched \subseteq Nodes
  /\ net \subseteq (Update \cup Command)
  /\ sent \subseteq Nodes /\ ran \subseteq Nodes
  /\ lossy \in BOOLEAN /\ wraps \in BOOLEAN
  /\ crashes \in 0 .. Crashes

(* cluster_io_handle_update ("conflito com IO local"): whatever updates    *)
(* about the same id other nodes broadcast, in any order, an input or      *)
(* output a node registered keeps that node as its original owner there,   *)
(* so failback can always find its way home.                               *)
OwnIoKept ==
  \A n \in Nodes : \A i \in LocalIo[n] : io[n][i].original_owner = n

(* cluster_failover.c, "O gateway nao deve derrubar suas proprias saidas   *)
(* quando um relay/sensor some": a node that knows no other gateway never  *)
(* applies the fail-safe, whoever goes silent.                             *)
FieldLossHarmless ==
  \A n \in latched : \E g \in Gateways \ {n} : told[n][g] # NoSlot

(* A node the table holds as OFFLINE was handed to the failover handler as *)
(* OFFLINE, or is about to be: neither task's event overtakes the other's  *)
(* so that a loss goes unhandled.                                          *)
LossIsHandled ==
  \A n \in up : \A m \in Nodes :
    state[n][m] = "OFFLINE" =>
      told[n][m] = "OFFLINE" \/ [node |-> m, type |-> "OFFLINE"] \in events[n]

(* The receiver's ONLINE is not overtaken by an older loss either: once    *)
(* nothing is left to publish, a node that is ONLINE again was last handed *)
(* to the handler as ONLINE.                                               *)
ReturnIsHandled ==
  \A n \in up : \A m \in Nodes \ {n} :
    state[n][m] = "ONLINE" /\ events[n] = {} /\ rx[n] = NoNode =>
      told[n][m] = "ONLINE"

(* PLANS.md, "quando o no correspondente reconectar [...] ele recebera o   *)
(* comando com o estado 1 automaticamente": when a node returns from       *)
(* OFFLINE, every output of it that the table of n knows is commanded.     *)
ReturnResynced ==
  [][\A n \in Nodes : \A m \in Nodes \ {n} :
       told[n][m] = "OFFLINE" /\ told'[n][m] = "ONLINE" =>
         \A i \in LocalIo[m] \ LocalIo[n] : io[n][i] # NoEntry =>
           [type |-> "output_command", to |-> m, io |-> i, requester |-> n]
             \in net']_vars

Agreement ==
  \A n \in up : \E m \in up : IsMaster(n, m) /\ \A k \in up : m <= k

(* Once heartbeats arrive, and within the first 2^32 ms of a silence, all  *)
(* running nodes settle on the running node with the least id as master.   *)
MasterAgreement == (<>[](~lossy /\ ~wraps)) => <>[]Agreement

(* A gateway that goes silent for good after a node heard it makes that    *)
(* node apply its fail-safe.                                               *)
GatewayLossLatches ==
  \A n \in Nodes : \A g \in Gateways \ {n} :
    (n \in up /\ g \notin up /\ state[n][g] # NoSlot)
      ~> (n \in latched \/ n \notin up \/ g \in up)

=============================================================================
