--------------------------- MODULE Cluster_proofs ---------------------------
(* For any number of nodes, ids and thresholds: what a node registered     *)
(* stays its own, no loss goes unhandled, and only the loss of another     *)
(* gateway applies the fail-safe.                                          *)
EXTENDS Cluster, TLAPS

Slots == {NoEntry} \cup [owner : Nodes, original_owner : Nodes]

(* The part of the types that ownership needs.                             *)
IoType ==
  /\ io \in [Nodes -> [Ios -> Slots]]
  /\ net \subseteq (Update \cup Command)

IoInv == IoType /\ OwnIoKept

LEMMA FreshIoType ==
  ASSUME NEW n \in Nodes
  PROVE  /\ FreshIo(n) \in [Ios -> Slots]
         /\ \A i \in LocalIo[n] : FreshIo(n)[i].original_owner = n
  BY ClusterAssumption DEF FreshIo, Entry, Slots

(* Taking over and giving back change the owner of an entry only.          *)
LEMMA HandlersKeepOriginal ==
  ASSUME IoType, NEW n \in Nodes, NEW m \in Nodes
  PROVE  /\ TakenOver(n, m) \in [Ios -> Slots]
         /\ GivenBack(n, m) \in [Ios -> Slots]
         /\ \A i \in Ios :
              /\ TakenOver(n, m)[i].original_owner = io[n][i].original_owner
              /\ GivenBack(n, m)[i].original_owner = io[n][i].original_owner
  <1>1. ASSUME NEW i \in Ios, NEW k \in Nodes,
               io[n][i].owner \in Nodes
        PROVE  /\ [io[n][i] EXCEPT !.owner = k] \in Slots
               /\ [io[n][i] EXCEPT !.owner = k].original_owner
                    = io[n][i].original_owner
    BY <1>1, NoEntryAssumption DEF IoType, Slots, NoEntry
  <1>2. \A i \in Ios : io[n][i] \in Slots
    BY DEF IoType
  <1>3. \A i \in Ios :
          /\ TakenOver(n, m)[i] \in Slots
          /\ TakenOver(n, m)[i].original_owner = io[n][i].original_owner
    BY <1>1, <1>2 DEF TakenOver
  <1>4. \A i \in Ios :
          /\ GivenBack(n, m)[i] \in Slots
          /\ GivenBack(n, m)[i].original_owner = io[n][i].original_owner
    BY <1>1, <1>2 DEF GivenBack
  <1>5. /\ TakenOver(n, m) = [i \in Ios |-> TakenOver(n, m)[i]]
        /\ GivenBack(n, m) = [i \in Ios |-> GivenBack(n, m)[i]]
    BY DEF TakenOver, GivenBack, IoType
  <1> QED BY <1>3, <1>4, <1>5

(* An update leaves a well-formed entry, and does not take an id from the  *)
(* node that registered it.                                                *)
LEMMA UpdateKeepsOriginal ==
  ASSUME IoType, NEW msg \in Update
  PROVE  /\ AfterUpdate(msg.to, msg) \in Slots
         /\ io[msg.to][msg.io].original_owner = msg.to =>
              AfterUpdate(msg.to, msg).original_owner = msg.to
  BY NoEntryAssumption
     DEF IoType, Slots, Update, AfterUpdate, Allocated, Entry, NoEntry, NoNode

(* The frames a node broadcasts are well formed.                           *)
LEMMA FramesType ==
  ASSUME NEW n \in Nodes, NEW m \in Nodes, NEW table \in [Ios -> Slots],
         NEW which \in SUBSET Ios, up \subseteq Nodes
  PROVE  /\ Frames(n, table, which) \subseteq Update
         /\ Resync(n, m, table) \subseteq Command
  BY DEF Frames, Resync, Update, Command, Slots

(* A new table of one node that keeps the original owners.                 *)
LEMMA TableKeepsIo ==
  ASSUME IoInv, NEW n \in Nodes, NEW table \in [Ios -> Slots],
         \A i \in LocalIo[n] : table[i].original_owner = n,
         io' = [io EXCEPT ![n] = table],
         net' \subseteq (Update \cup Command)
  PROVE  IoInv'
  BY ClusterAssumption DEF IoInv, IoType, OwnIoKept

(* Handle keeps the invariant of the tables.                               *)
LEMMA HandleKeepsIo ==
  ASSUME IoInv, up \subseteq Nodes, NEW n \in Nodes, NEW e \in Event,
         Handle(n, e)
  PROVE  IoInv'
  <1>1. IoType /\ OwnIoKept /\ e.node \in Nodes /\ e.type \in States
    BY DEF IoInv, Event
  <1>2. ASSUME NEW table \in [Ios -> Slots],
               \A i \in Ios : table[i].original_owner = io[n][i].original_owner
        PROVE  \A i \in LocalIo[n] : table[i].original_owner = n
    BY <1>1, <1>2, ClusterAssumption DEF OwnIoKept
  <1>3. CASE e.type = "OFFLINE"
    <2> DEFINE table == TakenOver(n, e.node)
    <2>1. /\ io' = [io EXCEPT ![n] = table]
          /\ net' = net \cup Frames(n, table, Changed(n, table))
      BY <1>3 DEF Handle
    <2>2. /\ table \in [Ios -> Slots]
          /\ \A i \in Ios : table[i].original_owner = io[n][i].original_owner
      BY <1>1, HandlersKeepOriginal
    <2>3. Changed(n, table) \in SUBSET Ios
      BY DEF Changed
    <2> HIDE DEF table
    <2>4. net' \subseteq (Update \cup Command)
      BY <1>1, <2>1, <2>2, <2>3, FramesType DEF IoType
    <2> QED BY <1>2, <2>1, <2>2, <2>4, TableKeepsIo
  <1>4. CASE e.type = "ONLINE"
    <2> DEFINE table == GivenBack(n, e.node)
    <2>1. /\ io' = [io EXCEPT ![n] = table]
          /\ net' = net \cup Frames(n, table, Ios) \cup Resync(n, e.node, table)
      BY <1>4 DEF Handle
    <2>2. /\ table \in [Ios -> Slots]
          /\ \A i \in Ios : table[i].original_owner = io[n][i].original_owner
      BY <1>1, HandlersKeepOriginal
    <2> HIDE DEF table
    <2>4. net' \subseteq (Update \cup Command)
      BY <1>1, <2>1, <2>2, FramesType DEF IoType
    <2> QED BY <1>2, <2>1, <2>2, <2>4, TableKeepsIo
  <1>5. CASE e.type = "SUSPECT"
    BY <1>5, <1>1 DEF Handle, IoInv, IoType, OwnIoKept
  <1> QED BY <1>1, <1>3, <1>4, <1>5 DEF States

(* The queues hold events about nodes: what the handlers are called with.  *)
QueueType ==
  /\ up \subseteq Nodes
  /\ rx \in [Nodes -> Nodes \cup {NoNode}]
  /\ events \in [Nodes -> SUBSET Event]
  /\ state \in [Nodes -> [Nodes -> States \cup {NoSlot}]]
  /\ age \in [Nodes -> [Nodes -> Nat]]
  /\ told \in [Nodes -> [Nodes -> States \cup {NoSlot}]]

(* What makes the order of the two publishers harmless for a loss: the     *)
(* receiver still has to announce a node only while that node is ONLINE    *)
(* with age 0, an event of the buffer is what the table says unless the    *)
(* node came back meanwhile, and OFFLINE was announced or is in the buffer.*)
ReceiverFresh ==
  \A n \in Nodes : rx[n] # NoNode =>
    n \in up /\ rx[n] # n /\ state[n][rx[n]] = "ONLINE" /\ age[n][rx[n]] = 0

EventsCurrent ==
  \A n \in Nodes : \A e \in events[n] :
    e.type = state[n][e.node] \/ state[n][e.node] = "ONLINE"

LossPending ==
  \A n, m \in Nodes :
    state[n][m] = "OFFLINE" =>
      told[n][m] = "OFFLINE" \/ [node |-> m, type |-> "OFFLINE"] \in events[n]

LossInv == QueueType /\ ReceiverFresh /\ EventsCurrent /\ LossPending

LEMMA AgeStates ==
  ASSUME NEW a \in Nat
  PROVE  StateFromAge(a) \in States /\ StateFromAge(0) = "ONLINE"
  BY ClusterAssumption DEF StateFromAge, States

LEMMA LossInit == Init => LossInv
  BY NoEntryAssumption
     DEF Init, LossInv, QueueType, ReceiverFresh, EventsCurrent, LossPending,
         FreshTable, States, NoSlot

(* What the refresh makes of a slot.                                       *)
LEMMA RefreshedFacts ==
  ASSUME LossInv, NEW n \in Nodes, NEW m \in Nodes
  PROVE  /\ Refreshed(n, m) \in States \cup {NoSlot}
         /\ Announced(n, m) => Refreshed(n, m) \in States
         /\ m # n /\ state[n][m] = "ONLINE" /\ age[n][m] = 0 =>
              Refreshed(n, m) = "ONLINE"
  <1>1. state[n][m] \in States \cup {NoSlot} /\ age[n][m] \in Nat
    BY DEF LossInv, QueueType
  <1>2. StateFromAge(age[n][m]) \in States /\ StateFromAge(0) = "ONLINE"
    BY <1>1, AgeStates
  <1> QED BY <1>1, <1>2 DEF Refreshed, Announced, States, NoSlot

(* A heartbeat only brings nodes back.                                     *)
LEMMA LossHeartbeat ==
  ASSUME LossInv, NEW n \in Nodes, Heartbeat(n)
  PROVE  LossInv'
  <1>1. PICK reached \in SUBSET {m \in up \ {n} : rx[m] = NoNode} :
          LET heard == {m \in reached : HasSlot(m, n)}
          IN  /\ state' = [m \in Nodes |-> IF m \in heard
                             THEN [state[m] EXCEPT ![n] = "ONLINE"]
                             ELSE state[m]]
              /\ age' = [m \in Nodes |-> IF m \in heard
                           THEN [age[m] EXCEPT ![n] = 0] ELSE age[m]]
              /\ rx' = [m \in Nodes |->
                          IF m \in heard /\ state[m][n] # "ONLINE"
                          THEN n ELSE rx[m]]
    BY DEF Heartbeat
  <1> DEFINE heard == {m \in reached : HasSlot(m, n)}
  <1>2. /\ state' = [m \in Nodes |-> IF m \in heard
                       THEN [state[m] EXCEPT ![n] = "ONLINE"] ELSE state[m]]
        /\ age' = [m \in Nodes |-> IF m \in heard
                     THEN [age[m] EXCEPT ![n] = 0] ELSE age[m]]
        /\ rx' = [m \in Nodes |-> IF m \in heard /\ state[m][n] # "ONLINE"
                                  THEN n ELSE rx[m]]
    BY <1>1
  <1>3. \A m \in heard : m \in up /\ m # n /\ rx[m] = NoNode
    OBVIOUS
  <1>4. UNCHANGED <<up, events, told>>
    BY DEF Heartbeat
  <1> HIDE DEF heard
  <1>5. QueueType'
    BY <1>2, <1>4 DEF LossInv, QueueType, States
  <1>6. ReceiverFresh'
    BY <1>2, <1>3, <1>4 DEF LossInv, QueueType, ReceiverFresh
  <1>7. EventsCurrent'
    BY <1>2, <1>4 DEF LossInv, QueueType, EventsCurrent, Event
  <1>8. LossPending'
    BY <1>2, <1>4 DEF LossInv, QueueType, LossPending
  <1> QED BY <1>5, <1>6, <1>7, <1>8 DEF LossInv

(* The ageing puts what it changed in the buffer, which was empty.         *)
LEMMA LossProcess ==
  ASSUME LossInv, NEW n \in Nodes, Process(n)
  PROVE  LossInv'
  <1>1. /\ n \in up /\ events[n] = {}
        /\ state' = [state EXCEPT ![n] = [m \in Nodes |-> Refreshed(n, m)]]
        /\ events' = [events EXCEPT ![n] =
              {[node |-> m, type |-> Refreshed(n, m)] :
                 m \in {k \in Nodes : Announced(n, k)}}]
        /\ UNCHANGED <<up, age, rx, told>>
    BY DEF Process
  <1>2. \A m \in Nodes :
          /\ Refreshed(n, m) \in States \cup {NoSlot}
          /\ Announced(n, m) => Refreshed(n, m) \in States
          /\ m # n /\ state[n][m] = "ONLINE" /\ age[n][m] = 0 =>
               Refreshed(n, m) = "ONLINE"
    BY RefreshedFacts
  <1>3. \A k, m \in Nodes :
          state'[k][m] = IF k = n THEN Refreshed(n, m) ELSE state[k][m]
    BY <1>1 DEF LossInv, QueueType
  <1>4. \A k \in Nodes \ {n} : events'[k] = events[k]
    BY <1>1 DEF LossInv, QueueType
  <1>5. events'[n] = {[node |-> m, type |-> Refreshed(n, m)] :
                       m \in {k \in Nodes : Announced(n, k)}}
    BY <1>1 DEF LossInv, QueueType
  <1>6. QueueType'
    <2>1. events'[n] \subseteq Event
      BY <1>2, <1>5 DEF Event
    <2>2. [m \in Nodes |-> Refreshed(n, m)] \in [Nodes -> States \cup {NoSlot}]
      BY <1>2
    <2> QED BY <1>1, <2>1, <2>2, <1>5 DEF LossInv, QueueType
  <1>7. ReceiverFresh'
    BY <1>1, <1>2, <1>3 DEF LossInv, QueueType, ReceiverFresh
  <1>8. EventsCurrent'
    <2> SUFFICES ASSUME NEW k \in Nodes, NEW e \in events'[k]
                 PROVE  e.type = state'[k][e.node]
                          \/ state'[k][e.node] = "ONLINE"
      BY DEF EventsCurrent
    <2>1. CASE k = n
      BY <2>1, <1>3, <1>5
    <2>2. CASE k # n
      <3>1. e \in events[k] /\ e.node \in Nodes
        BY <2>2, <1>4 DEF LossInv, QueueType, Event
      <3> QED BY <2>2, <3>1, <1>3 DEF LossInv, EventsCurrent
    <2> QED BY <2>1, <2>2
  <1>9. LossPending'
    <2> SUFFICES ASSUME NEW k \in Nodes, NEW m \in Nodes,
                        state'[k][m] = "OFFLINE"
                 PROVE  told[k][m] = "OFFLINE"
                          \/ [node |-> m, type |-> "OFFLINE"] \in events'[k]
      BY <1>1 DEF LossPending
    <2>1. CASE k # n
      BY <2>1, <1>3, <1>4 DEF LossInv, LossPending
    <2>2. CASE k = n /\ Announced(n, m)
      BY <2>2, <1>3, <1>5
    <2>3. CASE k = n /\ ~Announced(n, m)
      <3>1. state[n][m] = "OFFLINE"
        BY <2>3, <1>3 DEF Announced
      <3> QED BY <2>3, <3>1, <1>1 DEF LossInv, LossPending
    <2> QED BY <2>1, <2>2, <2>3
  <1> QED BY <1>6, <1>7, <1>8, <1>9 DEF LossInv

(* Handling an event only touches what the handler was told about it.      *)
LEMMA HandleTold ==
  ASSUME LossInv, NEW n \in Nodes, NEW e \in Event, Handle(n, e)
  PROVE  /\ told' \in [Nodes -> [Nodes -> States \cup {NoSlot}]]
         /\ \A k, m \in Nodes :
              told'[k][m] = IF k = n /\ m = e.node THEN e.type ELSE told[k][m]
  BY DEF Handle, LossInv, QueueType, Event

LEMMA LossReceiver ==
  ASSUME LossInv, NEW n \in Nodes, ReceiverPublish(n)
  PROVE  LossInv'
  <1> DEFINE e == [node |-> rx[n], type |-> "ONLINE"]
  <1>1. /\ rx[n] \in Nodes /\ rx[n] # NoNode
        /\ e \in Event /\ Handle(n, e)
        /\ rx' = [rx EXCEPT ![n] = NoNode]
        /\ UNCHANGED <<up, state, age, events>>
    BY DEF ReceiverPublish, LossInv, QueueType, Event, States
  <1>2. state[n][rx[n]] = "ONLINE"
    BY <1>1 DEF LossInv, ReceiverFresh
  <1>3. /\ told' \in [Nodes -> [Nodes -> States \cup {NoSlot}]]
        /\ \A k, m \in Nodes :
             told'[k][m] = IF k = n /\ m = rx[n] THEN "ONLINE" ELSE told[k][m]
    BY <1>1, HandleTold
  <1>4. QueueType'
    BY <1>1, <1>3 DEF LossInv, QueueType
  <1>5. ReceiverFresh'
    BY <1>1 DEF LossInv, QueueType, ReceiverFresh
  <1>6. EventsCurrent'
    BY <1>1 DEF LossInv, EventsCurrent
  <1>7. LossPending'
    BY <1>1, <1>2, <1>3 DEF LossInv, LossPending
  <1> QED BY <1>4, <1>5, <1>6, <1>7 DEF LossInv

LEMMA LossAux ==
  ASSUME LossInv, NEW n \in Nodes, AuxPublish(n)
  PROVE  LossInv'
  <1>1. PICK e \in events[n] :
          Handle(n, e) /\ events' = [events EXCEPT ![n] = @ \ {e}]
    BY DEF AuxPublish
  <1>2. e \in Event /\ e.node \in Nodes /\ e.type \in States
    BY DEF LossInv, QueueType, Event
  <1>3. UNCHANGED <<up, state, age, rx>>
    BY DEF AuxPublish
  <1>4. /\ told' \in [Nodes -> [Nodes -> States \cup {NoSlot}]]
        /\ \A k, m \in Nodes :
             told'[k][m] = IF k = n /\ m = e.node THEN e.type ELSE told[k][m]
    BY <1>1, <1>2, HandleTold
  <1>5. \A k \in Nodes :
          events'[k] = IF k = n THEN events[n] \ {e} ELSE events[k]
    BY <1>1 DEF LossInv, QueueType
  <1>6. QueueType'
    BY <1>1, <1>3, <1>4, <1>5 DEF LossInv, QueueType
  <1>7. ReceiverFresh'
    BY <1>3 DEF LossInv, ReceiverFresh
  <1>8. EventsCurrent'
    BY <1>3, <1>5 DEF LossInv, EventsCurrent
  <1>9. LossPending'
    <2> SUFFICES ASSUME NEW k \in Nodes, NEW m \in Nodes,
                        state[k][m] = "OFFLINE"
                 PROVE  told'[k][m] = "OFFLINE"
                          \/ [node |-> m, type |-> "OFFLINE"] \in events'[k]
      BY <1>3 DEF LossPending
    <2>1. CASE k = n /\ m = e.node
      BY <2>1, <1>4 DEF LossInv, EventsCurrent
    <2>2. CASE ~(k = n /\ m = e.node)
      <3>1. told'[k][m] = told[k][m]
        BY <2>2, <1>4
      <3>2. [node |-> m, type |-> "OFFLINE"] \in events[k] =>
              [node |-> m, type |-> "OFFLINE"] \in events'[k]
        BY <2>2, <1>5
      <3> QED BY <3>1, <3>2 DEF LossInv, LossPending
    <2> QED BY <2>1, <2>2
  <1> QED BY <1>6, <1>7, <1>8, <1>9 DEF LossInv

(* Time passes only when nothing is left to publish.                       *)
LEMMA LossTick ==
  ASSUME LossInv, Tick
  PROVE  LossInv'
  <1>1. \A a \in Nat : Older(a) \in Nat
    BY ClusterAssumption DEF Older
  <1>2. UNCHANGED <<up, state, rx, events, told>>
    BY DEF Tick
  <1>3. age' \in [Nodes -> [Nodes -> Nat]]
    BY <1>1 DEF Tick, LossInv, QueueType
  <1>4. QueueType'
    BY <1>2, <1>3 DEF LossInv, QueueType
  <1>5. ReceiverFresh'
    <2>1. \A n \in up : rx[n] = NoNode
      BY DEF Tick
    <2> QED BY <2>1, <1>2 DEF LossInv, ReceiverFresh
  <1>6. EventsCurrent' /\ LossPending'
    BY <1>2 DEF LossInv, EventsCurrent, LossPending
  <1> QED BY <1>4, <1>5, <1>6 DEF LossInv

LEMMA LossCrash ==
  ASSUME LossInv, NEW n \in Nodes, Crash(n)
  PROVE  LossInv'
  <1>1. /\ up' = up \ {n}
        /\ state' = [state EXCEPT ![n] = FreshTable(n)]
        /\ age' = [age EXCEPT ![n] = [m \in Nodes |-> 0]]
        /\ rx' = [rx EXCEPT ![n] = NoNode]
        /\ events' = [events EXCEPT ![n] = {}]
        /\ told' = [told EXCEPT ![n] = [m \in Nodes |-> NoSlot]]
    BY DEF Crash
  <1>2. /\ FreshTable(n) \in [Nodes -> States \cup {NoSlot}]
        /\ \A m \in Nodes : FreshTable(n)[m] # "OFFLINE"
    BY DEF FreshTable, States, NoSlot
  <1>3. QueueType'
    BY <1>1, <1>2 DEF LossInv, QueueType
  <1>4. ReceiverFresh'
    BY <1>1 DEF LossInv, QueueType, ReceiverFresh
  <1>5. EventsCurrent'
    BY <1>1 DEF LossInv, QueueType, EventsCurrent
  <1>6. LossPending'
    BY <1>1, <1>2 DEF LossInv, QueueType, LossPending
  <1> QED BY <1>3, <1>4, <1>5, <1>6 DEF LossInv

LEMMA LossNext == LossInv /\ [Next]_vars => LossInv'
  <1> SUFFICES ASSUME LossInv, [Next]_vars PROVE LossInv'
    OBVIOUS
  <1>1. CASE \E n \in Nodes : Heartbeat(n)
    BY <1>1, LossHeartbeat
  <1>2. CASE \E n \in Nodes : Process(n)
    BY <1>2, LossProcess
  <1>3. CASE \E n \in Nodes : ReceiverPublish(n)
    BY <1>3, LossReceiver
  <1>4. CASE \E n \in Nodes : AuxPublish(n)
    BY <1>4, LossAux
  <1>5. CASE \E n \in Nodes : Crash(n)
    BY <1>5, LossCrash
  <1>6. CASE \E n \in Nodes : Boot(n)
    BY <1>6 DEF Boot, LossInv, QueueType, ReceiverFresh, EventsCurrent,
                LossPending
  <1>7. CASE Tick
    BY <1>7, LossTick
  <1>8. CASE \/ \E msg \in net : Deliver(msg)
             \/ Heal \/ UNCHANGED vars
    <2>1. UNCHANGED <<up, state, age, rx, events, told>>
      BY <1>8 DEF Deliver, Heal, vars
    <2> QED BY <2>1 DEF LossInv, QueueType, ReceiverFresh, EventsCurrent,
                        LossPending
  <1> QED BY <1>1, <1>2, <1>3, <1>4, <1>5, <1>6, <1>7, <1>8 DEF Next

(* No loss goes unhandled: whenever a table says OFFLINE, the failover     *)
(* handler of that node was last told OFFLINE or will be, although the     *)
(* receiver and the auxiliary task publish outside the lock.               *)
THEOREM LossAlwaysHandled == Spec => []LossIsHandled
  <1>1. LossInv => LossIsHandled
    BY DEF LossInv, QueueType, LossPending, LossIsHandled
  <1> QED BY <1>1, LossInit, LossNext, PTL DEF Spec

LEMMA IoInit == Init => IoInv
  BY FreshIoType, ClusterAssumption DEF Init, IoInv, IoType, OwnIoKept

LEMMA IoNext == LossInv /\ IoInv /\ [Next]_vars => IoInv'
  <1> SUFFICES ASSUME LossInv, IoInv, [Next]_vars PROVE IoInv'
    OBVIOUS
  <1>1. ASSUME NEW n \in Nodes, ReceiverPublish(n)
        PROVE  IoInv'
    <2>1. [node |-> rx[n], type |-> "ONLINE"] \in Event
      BY <1>1 DEF ReceiverPublish, LossInv, QueueType, Event, States
    <2> QED BY <1>1, <2>1, HandleKeepsIo DEF ReceiverPublish, LossInv, QueueType
  <1>2. ASSUME NEW n \in Nodes, AuxPublish(n)
        PROVE  IoInv'
    <2>1. PICK e \in events[n] : Handle(n, e)
      BY <1>2 DEF AuxPublish
    <2>2. e \in Event /\ up \subseteq Nodes
      BY DEF LossInv, QueueType
    <2> QED BY <2>1, <2>2, HandleKeepsIo
  <1>3. ASSUME NEW msg \in net, Deliver(msg)
        PROVE  IoInv'
    <2>1. IoType /\ OwnIoKept /\ msg \in Update
      BY <1>3 DEF IoInv, IoType, Deliver, Update, Command
    <2>2. /\ AfterUpdate(msg.to, msg) \in Slots
          /\ io[msg.to][msg.io].original_owner = msg.to =>
               AfterUpdate(msg.to, msg).original_owner = msg.to
      BY <2>1, UpdateKeepsOriginal
    <2>3. /\ io' = [io EXCEPT ![msg.to][msg.io] = AfterUpdate(msg.to, msg)]
          /\ net' = net
      BY <1>3 DEF Deliver
    <2>4. msg.to \in Nodes /\ msg.io \in Ios
      BY <2>1 DEF Update
    <2>5. IoType'
      BY <2>1, <2>2, <2>3, <2>4 DEF IoType
    <2>6. OwnIoKept'
      BY <2>1, <2>2, <2>3, <2>4, ClusterAssumption DEF IoType, OwnIoKept
    <2> QED BY <2>5, <2>6 DEF IoInv
  <1>4. ASSUME NEW n \in Nodes, Crash(n)
        PROVE  IoInv'
    <2>1. io' = [io EXCEPT ![n] = FreshIo(n)] /\ net' = net
      BY <1>4 DEF Crash
    <2> QED BY <2>1, FreshIoType, TableKeepsIo DEF IoInv, IoType
  <1>5. CASE \/ \E n \in Nodes : Heartbeat(n) \/ Process(n) \/ Boot(n)
             \/ Tick \/ Heal \/ UNCHANGED vars
    BY <1>5 DEF Heartbeat, Process, Boot, Tick, Heal, vars, IoInv, IoType,
                OwnIoKept
  <1> QED BY <1>1, <1>2, <1>3, <1>4, <1>5 DEF Next

(* What a node registered stays its own in its table, for any number of    *)
(* nodes that broadcast the same id.                                       *)
THEOREM OwnIoAlwaysKept == Spec => []OwnIoKept
  <1>1. Init => LossInv /\ IoInv
    BY LossInit, IoInit
  <1>2. (LossInv /\ IoInv) /\ [Next]_vars => (LossInv /\ IoInv)'
    BY LossNext, IoNext
  <1>3. LossInv /\ IoInv => OwnIoKept
    BY DEF IoInv
  <1> QED BY <1>1, <1>2, <1>3, PTL DEF Spec

(* No node announces a loss of its own, and whoever applied the fail-safe  *)
(* was told of a gateway other than itself.                                *)
FieldInv ==
  /\ \A n \in Nodes : \A e \in events[n] : e.node # n
  /\ latched \subseteq Nodes
  /\ FieldLossHarmless

(* Events move from Process to the handler, which latches for a gateway    *)
(* and records that it was told of it.                                     *)
LEMMA FieldNext == LossInv /\ FieldInv /\ [Next]_vars => FieldInv'
  <1> SUFFICES ASSUME LossInv, FieldInv, [Next]_vars PROVE FieldInv'
    OBVIOUS
  <1>0. \A k \in latched : k \in Nodes
    BY DEF FieldInv
  <1>1. ASSUME NEW n \in Nodes, NEW e \in Event, Handle(n, e),
               e.type # "ONLINE" => e.node # n,
               \A k \in Nodes : events'[k] \subseteq events[k]
        PROVE  FieldInv'
    <2>1. /\ told' \in [Nodes -> [Nodes -> States \cup {NoSlot}]]
          /\ \A k, m \in Nodes :
               told'[k][m] = IF k = n /\ m = e.node THEN e.type ELSE told[k][m]
      BY <1>1, HandleTold
    <2>2. e.type # NoSlot
      BY DEF Event, States, NoSlot
    <2>3. \A k, m \in Nodes : told[k][m] # NoSlot => told'[k][m] # NoSlot
      BY <2>1, <2>2
    <2>4. \A k \in latched : \E g \in Gateways \ {k} : told'[k][g] # NoSlot
      BY <1>0, <2>3, ClusterAssumption DEF FieldInv, FieldLossHarmless
    <2>5. LatchesOn(e) => /\ e.node \in Gateways \ {n}
                          /\ told'[n][e.node] # NoSlot
      BY <1>1, <2>1, <2>2 DEF LatchesOn, Event
    <2>6. latched' = IF LatchesOn(e) THEN latched \cup {n} ELSE latched
      BY <1>1 DEF Handle
    <2> QED BY <1>1, <2>4, <2>5, <2>6 DEF FieldInv, FieldLossHarmless
  <1>2. ASSUME NEW n \in Nodes, ReceiverPublish(n)
        PROVE  FieldInv'
    <2> DEFINE e == [node |-> rx[n], type |-> "ONLINE"]
    <2>1. e \in Event /\ Handle(n, e) /\ e.type = "ONLINE" /\ events' = events
      BY <1>2 DEF ReceiverPublish, LossInv, QueueType, Event, States
    <2> QED BY <1>1, <2>1
  <1>3. ASSUME NEW n \in Nodes, AuxPublish(n)
        PROVE  FieldInv'
    <2>1. PICK e \in events[n] :
            Handle(n, e) /\ events' = [events EXCEPT ![n] = @ \ {e}]
      BY <1>3 DEF AuxPublish
    <2>2. e \in Event /\ e.node # n
      BY DEF FieldInv, LossInv, QueueType
    <2>3. \A k \in Nodes : events'[k] \subseteq events[k]
      BY <2>1 DEF LossInv, QueueType
    <2> QED BY <1>1, <2>1, <2>2, <2>3
  <1>4. ASSUME NEW n \in Nodes, Process(n)
        PROVE  FieldInv'
    <2>1. \A k \in Nodes : k # n => events'[k] = events[k]
      BY <1>4 DEF Process, LossInv, QueueType
    <2>2. \A e \in events'[n] : e.node # n
      BY <1>4 DEF Process, LossInv, QueueType, Announced, Refreshed
    <2>3. UNCHANGED <<told, latched>>
      BY <1>4 DEF Process
    <2> QED BY <2>1, <2>2, <2>3 DEF FieldInv, FieldLossHarmless
  <1>5. ASSUME NEW n \in Nodes, Crash(n)
        PROVE  FieldInv'
    <2>1. /\ latched' = latched \ {n}
          /\ \A k \in Nodes \ {n} : events'[k] = events[k] /\ told'[k] = told[k]
          /\ events'[n] = {}
      BY <1>5 DEF Crash, LossInv, QueueType
    <2> QED BY <1>0, <2>1 DEF FieldInv, FieldLossHarmless
  <1>6. CASE \/ \E n \in Nodes : Heartbeat(n) \/ Boot(n)
             \/ \E msg \in net : Deliver(msg)
             \/ Tick \/ Heal \/ UNCHANGED vars
    BY <1>6 DEF Heartbeat, Boot, Deliver, Tick, Heal, vars, FieldInv,
                FieldLossHarmless
  <1> QED BY <1>2, <1>3, <1>4, <1>5, <1>6 DEF Next

(* Only a node that was told of another gateway applies the fail-safe: the *)
(* loss of field nodes, in any number and order, never takes a gateway's   *)
(* own outputs down                                                        *)
(* (cluster_failover_apply_local_failsafe_if_gateway_lost).                *)
THEOREM FieldLossNeverLatches == Spec => []FieldLossHarmless
  <1>1. Init => LossInv /\ FieldInv
    BY LossInit DEF Init, FieldInv, FieldLossHarmless
  <1>2. (LossInv /\ FieldInv) /\ [Next]_vars => (LossInv /\ FieldInv)'
    BY LossNext, FieldNext
  <1>3. LossInv /\ FieldInv => FieldLossHarmless
    BY DEF FieldInv
  <1> QED BY <1>1, <1>2, <1>3, PTL DEF Spec
=============================================================================
