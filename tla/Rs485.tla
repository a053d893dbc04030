-------------------------------- MODULE Rs485 --------------------------------
(***************************************************************************)
(* The RS-485 field bus: the gateway's polling master (rs485_master.c), the *)
(* passive field nodes (rs485_engine.c), the half-duplex driver (rs485.c)   *)
(* and the wire between them.  Time is in milliseconds: the bus moves for   *)
(* one (turn "bus"), then the gateway's control loop runs fieldbus_tick     *)
(* once (turn "loop"), unless the loop is held up, by the erase of a flash  *)
(* page for example, and lets milliseconds go by (Stall).  A tick falls up  *)
(* to a fraction of a millisecond early or late, so a limit met exactly may *)
(* be seen on either side.                                                  *)
(*                                                                          *)
(* Field nodes are numbered like the addresses; the address of node n is    *)
(* site.addr[n], its identity modulo MaxNodes, which two nodes may share.   *)
(*                                                                          *)
(* A frame arrives whole or is garbled: the checksum and the hexadecimal    *)
(* coding only decide which.  A frame that meets another one on the wire is *)
(* garbled.  The field cur of a frame, heard and jam are history variables. *)
(***************************************************************************)
EXTENDS Integers, Sequences, FiniteSets

CONSTANTS
  MaxNodes,         \* RS485_MAX_NODES
  MaxRetry,         \* RS485_MAX_RETRY
  ResponseTimeout,  \* RESPONSE_TIMEOUT_US
  RetryBackoff,     \* RETRY_BACKOFF_US
  IdlePoll,         \* IDLE_POLL_INTERVAL_US
  IdMod,            \* modulus of the message id (2^16)
  ShortTx, LongTx,  \* time a poll or an answer, and a cluster frame, is sent
  Sites             \* installations: which addresses answer, and how

ASSUME Rs485Assumption ==
  /\ MaxNodes \in Nat \ {0} /\ MaxRetry \in Nat \ {0}
  /\ ResponseTimeout \in Nat /\ RetryBackoff \in Nat /\ IdlePoll \in Nat
  /\ IdMod \in Nat /\ IdMod > 2
  /\ ShortTx \in Nat \ {0} /\ LongTx \in Nat \ {0}

(* The time-out leaves room for a poll, the delay of a prompt node, and its *)
(* answer (RESPONSE_TIMEOUT_US is 6 ms, a short frame takes up to 2).       *)
ASSUME AnswerInTime == ResponseTimeout >= 2 * ShortTx + 2

Addresses == 1..MaxNodes
Gateway == 0
Nobody == 0
Devices == {Gateway} \cup Addresses
Ids == 0..(IdMod - 1)

None == [left |-> 0]
Frames == [type : {"poll", "ack", "cluster", "bad"}, node : Devices, id : Ids,
           cur : BOOLEAN]
Frame(type, node, id, cur) ==
  [type |-> type, node |-> node, id |-> id, cur |-> cur]
Bad == Frame("bad", Nobody, 0, FALSE)

VARIABLES
  site, budget,        \* the installation and the disturbances it has left
  stalls,              \* milliseconds the gateway's loop may still be held up
  turn,
  waiting, retryPending, awaiting, curId, idCounter, currentNode,
  retries, online,     \* nodes[].retry_count and nodes[].online
  age, due,            \* since request_start_us; until next_poll_due_us
  tx,                  \* tx_state of the gateway's driver
  rx,                  \* frames the gateway has received and not yet read
  air,                 \* per device: the frame it is sending
  ack,                 \* per field node: pending_ack_frame
  off,                 \* field nodes that have been switched off
  heard,               \* an answer to the request in progress was discarded
  jam                  \* two devices have driven the bus at once, though the
                       \* gateway had turned round the line it was done with

masterVars == <<waiting, retryPending, awaiting, curId, idCounter,
                currentNode, retries, online, age, due>>
fieldVars == <<ack, off>>
vars == <<site, budget, stalls, turn, masterVars, tx, rx, air, fieldVars, heard, jam>>

Init ==
  /\ site \in Sites
  /\ budget = site.disturbances /\ stalls = site.stalls
  /\ turn = "bus"
  /\ waiting = FALSE /\ retryPending = FALSE
  /\ awaiting = Nobody
  /\ curId = 0 /\ idCounter = 1
  /\ currentNode = 0
  /\ retries = [n \in Addresses |-> 0]
  /\ online = [n \in Addresses |-> FALSE]
  /\ age = 0
  /\ due = IdlePoll
  /\ tx = [on |-> FALSE, left |-> 0]
  /\ rx = <<>>
  /\ air = [d \in Devices |-> None]
  /\ ack = [n \in Addresses |-> None]
  /\ off = {}
  /\ heard = FALSE /\ jam = FALSE

-----------------------------------------------------------------------------
(* The wire and the field nodes.                                           *)

Sending(f, time) == [left |-> time, frame |-> f, hit |-> FALSE]

(* A field node answers two of its ticks after the poll; a slow one may be *)
(* held up for longer.                                                     *)
Delays(n) == IF n \in site.slow THEN site.delays ELSE {1, 2}

Present == (site.prompt \cup site.slow) \ off
Address(n) == site.addr[n]

(* The driver keeps the line until rs485_tx_service turns it round, which  *)
(* a tick that is late does late.                                          *)
Held == tx.on /\ tx.left = 0
Driving == {d \in Devices : air[d] # None}
             \cup (IF tx.on THEN {Gateway} ELSE {})

Clash == Cardinality(Driving) > 1

Done == {d \in Devices : air[d].left = 1}
Intact(d) == ~air[d].hit /\ ~Clash

(* What reaches the gateway's receive buffer: nothing while it drives the  *)
(* line; of a garbled frame either nothing or one that fails its checksum. *)
Arrivals ==
  LET from == Done \ {Gateway}
      garbled == \E d \in from : ~Intact(d)
  IN  IF tx.on \/ from = {} THEN {rx}
      ELSE IF garbled THEN {rx, Append(rx, Bad)}
      ELSE {Append(rx, air[CHOOSE d \in from : TRUE].frame)}

(* The poll that has just arrived at field node n.                         *)
Polled(n) ==
  /\ n \in Present
  /\ air[n] = None
  /\ Gateway \in Done /\ Intact(Gateway)
  /\ air[Gateway].frame.type = "poll" /\ air[Gateway].frame.node = Address(n)

(* rs485_engine_tick_1ms sends the pending answer; the driver drops it if  *)
(* the node is still sending something else.                               *)
Answers(n) == n \notin off /\ ack[n].left = 1

AckAfterTick ==
  [n \in Addresses |-> IF n \in off \/ ack[n].left <= 1 THEN None
                       ELSE [ack[n] EXCEPT !.left = @ - 1]]

(* The nodes that are asked, and when they may answer.                     *)
Asked == {n \in Addresses : Polled(n)}
Waitings == {w \in [Asked -> {1, 2} \cup site.delays] : \A n \in Asked : w[n] \in Delays(n)}

(* rs485_engine_receive: a poll for the own address replaces an answer     *)
(* that has not been sent.                                                 *)
Acks ==
  LET poll == air[Gateway].frame
      answer == Frame("ack", poll.node, poll.id, poll.cur)
      pending(n, w) == IF AckAfterTick[n] = None THEN Sending(answer, w)
                       ELSE [AckAfterTick[n] EXCEPT !.frame = answer]
  IN  {[n \in Addresses |-> IF n \in Asked THEN pending(n, w[n]) ELSE AckAfterTick[n]] : w \in Waitings}

AirAfter(d) ==
  IF air[d].left > 1
  THEN [air[d] EXCEPT !.left = @ - 1, !.hit = @ \/ Clash]
  ELSE IF air[d] = None /\ d \in Addresses /\ Answers(d)
  THEN Sending(ack[d].frame, ShortTx)
  ELSE None

CapAge(a) == IF a > ResponseTimeout + 1 THEN ResponseTimeout + 1 ELSE a
CapDue(t) == IF t < 0 THEN -1 ELSE t
CapLeft(t) == IF t < 0 THEN 0 ELSE t

Millisecond ==
  /\ turn = "bus"
  /\ turn' = "loop"
  /\ age' = IF waiting THEN CapAge(age + 1) ELSE 0
  /\ due' = CapDue(due - 1)
  /\ tx' = [tx EXCEPT !.left = CapLeft(@ - 1)]
  /\ rx' \in Arrivals
  /\ air' = [d \in Devices |-> AirAfter(d)]
  /\ ack' \in Acks
  /\ jam' = (jam \/ (Clash /\ ~Held))
  /\ UNCHANGED <<site, budget, stalls, waiting, retryPending, awaiting, curId,
                 idCounter, currentNode, retries, online, off, heard>>

(* Core 0 sends a heartbeat or a cluster frame on the same driver at any   *)
(* time; rs485_send_bytes drops what finds a transmission in progress.     *)
TxActive == tx.on /\ tx.left > 0

ClusterSend(d) ==
  /\ turn = "bus" /\ budget > 0
  /\ d \in Present \cup {Gateway}
  /\ budget' = budget - 1
  /\ IF (IF d = Gateway THEN TxActive ELSE air[d] # None)
     THEN UNCHANGED <<air, tx>>
     ELSE /\ air' = [air EXCEPT ![d] =
                       Sending(Frame("cluster", d, 0, FALSE), LongTx)]
          /\ tx' = IF d = Gateway THEN [on |-> TRUE, left |-> LongTx] ELSE tx
  /\ UNCHANGED <<site, stalls, turn, masterVars, rx, fieldVars, heard, jam>>

(* Electrical noise garbles a frame on the wire.                           *)
Noise(d) ==
  /\ turn = "bus" /\ budget > 0
  /\ air[d] # None /\ ~air[d].hit
  /\ budget' = budget - 1
  /\ air' = [air EXCEPT ![d].hit = TRUE]
  /\ UNCHANGED <<site, stalls, turn, masterVars, tx, rx, fieldVars, heard, jam>>

(* A field node loses power.                                               *)
SwitchOff(n) ==
  /\ turn = "bus"
  /\ n \in site.dies \ off
  /\ off' = off \cup {n}
  /\ UNCHANGED <<site, budget, stalls, turn, masterVars, tx, rx, air, ack, heard, jam>>

-----------------------------------------------------------------------------
(* The gateway: fieldbus_tick, rs485_master_has_work and                   *)
(* rs485_master_process_one.                                               *)

HasWork == waiting \/ retryPending \/ due <= 0

(* rs485_read_bytes lets rs485_tx_service turn the line round first.  What *)
(* is still in the UART while the driver sends may not be readable yet.    *)
Service == tx' = [tx EXCEPT !.on = TxActive]
Readable == HasWork /\ rx # <<>>

EndTick == turn = "loop" /\ turn' = "bus"

(* The loop is held up, and this millisecond's tick is not run.            *)
Stall ==
  /\ EndTick /\ stalls > 0
  /\ stalls' = stalls - 1
  /\ UNCHANGED <<site, budget, masterVars, tx, rx, air, fieldVars, heard, jam>>

NoWork ==
  /\ EndTick
  /\ ~waiting /\ ~retryPending /\ due >= 0
  /\ UNCHANGED <<site, budget, stalls, masterVars, tx, rx, air, fieldVars, heard, jam>>

(* A checksum error ends the tick: no time-out is looked at.               *)
CrcError ==
  /\ EndTick /\ Readable /\ Service
  /\ Head(rx).type = "bad"
  /\ rx' = Tail(rx)
  /\ UNCHANGED <<site, budget, stalls, masterVars, air, fieldVars, heard, jam>>

AcceptsAnyId(f) == waiting /\ f.node = awaiting

Accepts(f) == waiting /\ f.node = awaiting /\ f.id = curId

AckAcceptedKeeping ==
  /\ EndTick /\ Readable /\ Service
  /\ Head(rx).type = "ack" /\ Accepts(Head(rx))
  /\ rx' = Tail(rx)
  /\ waiting' = FALSE /\ retryPending' = FALSE
  /\ awaiting' = Nobody
  /\ age' = 0
  /\ online' = [online EXCEPT ![awaiting] = TRUE]
  /\ due' = IdlePoll
  /\ UNCHANGED <<site, budget, stalls, curId, idCounter, currentNode, retries,
                 air, fieldVars, heard, jam>>

(* rs485_master_on_ack                                                     *)
AckAccepted ==
  /\ EndTick /\ Readable /\ Service
  /\ Head(rx).type = "ack" /\ Accepts(Head(rx))
  /\ rx' = Tail(rx)
  /\ waiting' = FALSE /\ retryPending' = FALSE
  /\ awaiting' = Nobody
  /\ age' = 0
  /\ online' = [online EXCEPT ![awaiting] = TRUE]
  /\ retries' = [retries EXCEPT ![awaiting] = 0]
  /\ due' = IdlePoll
  /\ UNCHANGED <<site, budget, stalls, curId, idCounter, currentNode, air, fieldVars,
                 heard, jam>>

AckIgnored ==
  /\ EndTick /\ Readable /\ Service
  /\ Head(rx).type = "ack" /\ ~Accepts(Head(rx))
  /\ rx' = Tail(rx)
  /\ heard' = (heard \/ (Head(rx).node = awaiting /\ Head(rx).cur))
  /\ UNCHANGED <<site, budget, stalls, masterVars, air, fieldVars, jam>>

(* rs485_engine_receive returns no frame: none is complete, or it was a    *)
(* cluster frame, which goes to its callback.                              *)
NoFrameLeaves ==
  {r \in {rx} : r = <<>> \/ TxActive}
    \cup {Tail(r) : r \in {q \in {rx} : q # <<>> /\ Head(q).type = "cluster"}}

NoFrame == rx' \in NoFrameLeaves

StillWaiting ==
  /\ EndTick /\ NoFrame /\ Service
  /\ waiting /\ age <= ResponseTimeout
  /\ UNCHANGED <<site, budget, stalls, masterVars, air, fieldVars, heard, jam>>

TimedOutEarly == waiting /\ age >= ResponseTimeout - 3

TimedOut == waiting /\ age >= ResponseTimeout

RetryUncounted ==
  /\ EndTick /\ NoFrame /\ Service
  /\ TimedOut /\ retries[awaiting] + 1 < MaxRetry
  /\ UNCHANGED retries
  /\ waiting' = FALSE /\ retryPending' = TRUE
  /\ age' = 0
  /\ due' = RetryBackoff
  /\ UNCHANGED <<site, budget, stalls, awaiting, curId, idCounter, currentNode, online,
                 air, fieldVars, heard, jam>>

(* The first time-outs of a request schedule a retry with the same id.     *)
Retry ==
  /\ EndTick /\ NoFrame /\ Service
  /\ TimedOut /\ retries[awaiting] + 1 < MaxRetry
  /\ retries' = [retries EXCEPT ![awaiting] = @ + 1]
  /\ waiting' = FALSE /\ retryPending' = TRUE
  /\ age' = 0
  /\ due' = RetryBackoff
  /\ UNCHANGED <<site, budget, stalls, awaiting, curId, idCounter, currentNode, online,
                 air, fieldVars, heard, jam>>

GiveUpStillAwaiting ==
  /\ EndTick /\ NoFrame /\ Service
  /\ TimedOut /\ retries[awaiting] + 1 >= MaxRetry
  /\ online' = [online EXCEPT ![awaiting] = FALSE]
  /\ retries' = [retries EXCEPT ![awaiting] = 0]
  /\ waiting' = FALSE /\ retryPending' = FALSE
  /\ curId' = 0 /\ UNCHANGED awaiting
  /\ age' = 0
  /\ due' = IdlePoll
  /\ UNCHANGED <<site, budget, stalls, idCounter, currentNode, air, fieldVars, heard,
                 jam>>

(* The last one declares the node offline.                                 *)
GiveUp ==
  /\ EndTick /\ NoFrame /\ Service
  /\ TimedOut /\ retries[awaiting] + 1 >= MaxRetry
  /\ online' = [online EXCEPT ![awaiting] = FALSE]
  /\ retries' = [retries EXCEPT ![awaiting] = 0]
  /\ waiting' = FALSE /\ retryPending' = FALSE
  /\ awaiting' = Nobody /\ curId' = 0
  /\ age' = 0
  /\ due' = IdlePoll
  /\ UNCHANGED <<site, budget, stalls, idCounter, currentNode, air, fieldVars, heard,
                 jam>>

BackOff ==
  /\ EndTick /\ NoFrame /\ Service
  /\ ~waiting /\ retryPending /\ due >= 0
  /\ UNCHANGED <<site, budget, stalls, masterVars, air, fieldVars, heard, jam>>

(* rs485_send_bytes: a poll that finds a transmission in progress is       *)
(* dropped; the master does not learn of it.                               *)
Transmit(f, sky) ==
  IF TxActive THEN tx' = tx /\ air' = sky
  ELSE /\ tx' = [on |-> TRUE, left |-> ShortTx]
       /\ air' = [sky EXCEPT ![Gateway] = Sending(f, ShortTx)]

StartRequest(n) ==
  /\ waiting' = TRUE /\ retryPending' = FALSE
  /\ awaiting' = n
  /\ age' = 0
  /\ due' = ResponseTimeout

SendRetry ==
  /\ EndTick /\ NoFrame
  /\ ~waiting /\ retryPending /\ due <= 0
  /\ StartRequest(awaiting)
  /\ Transmit(Frame("poll", awaiting, curId, TRUE), air)
  /\ UNCHANGED <<site, budget, stalls, curId, idCounter, currentNode, retries, online,
                 fieldVars, heard, jam>>

(* next_msg_id: the counter skips 0 when it wraps.                         *)
NextId(id) == IF (id + 1) % IdMod = 0 THEN 1 ELSE (id + 1) % IdMod

(* History: what belongs to earlier requests is no longer current.         *)
Stale(t) == IF t = None THEN None ELSE [t EXCEPT !.frame.cur = FALSE]

FollowingShort(k) == IF k + 1 >= MaxNodes - 1 THEN 0 ELSE k + 1

(* The round of the addresses.                                             *)
Following(k) == IF k + 1 >= MaxNodes THEN 0 ELSE k + 1

SendNext ==
  /\ EndTick
  /\ ~waiting /\ ~retryPending /\ due <= 0
  /\ StartRequest(currentNode + 1)
  /\ currentNode' = Following(currentNode)
  /\ curId' = idCounter /\ idCounter' = NextId(idCounter)
  /\ Transmit(Frame("poll", currentNode + 1, idCounter, TRUE),
              [d \in Devices |-> Stale(air[d])])
  /\ ack' = [n \in Addresses |-> Stale(ack[n])]
  /\ \E r \in NoFrameLeaves :
       rx' = [i \in DOMAIN r |-> [r[i] EXCEPT !.cur = FALSE]]
  /\ heard' = FALSE
  /\ UNCHANGED <<site, budget, stalls, retries, online, off, jam>>
Disturb ==
  \/ \E d \in Devices : ClusterSend(d) \/ Noise(d)
  \/ \E n \in Addresses : SwitchOff(n)

Loop ==
  \/ NoWork \/ CrcError \/ AckAccepted \/ AckIgnored
  \/ StillWaiting \/ Retry \/ GiveUp \/ BackOff
  \/ SendRetry \/ SendNext

Next == Millisecond \/ Loop \/ Stall \/ Disturb

(* Time passes, and the timer of the control loop releases it every        *)
(* millisecond but for those in which it is held up.                       *)
Fairness == WF_vars(Millisecond) /\ WF_vars(Loop)

Spec == Init /\ [][Next]_vars /\ Fairness

-----------------------------------------------------------------------------
(* Properties.                                                             *)

Transmissions(S) ==
  {None} \cup [left : S \ {0}, frame : Frames, hit : BOOLEAN]

(* Type correctness of the bus and of the master's variables.              *)
TypeOK ==
  /\ site \in Sites /\ budget \in Nat /\ stalls \in Nat /\ turn \in {"bus", "loop"}
  /\ waiting \in BOOLEAN /\ retryPending \in BOOLEAN
  /\ awaiting \in Addresses \cup {Nobody}
  /\ curId \in Ids /\ idCounter \in Ids \ {0}
  /\ currentNode \in 0..(MaxNodes - 1)
  /\ retries \in [Addresses -> 0..MaxRetry]
  /\ online \in [Addresses -> BOOLEAN]
  /\ age \in 0..(ResponseTimeout + 1) /\ due \in Int
  /\ tx \in [on : BOOLEAN, left : Nat]
  /\ rx \in Seq(Frames)
  /\ air \in [Devices -> Transmissions(Nat)]
  /\ ack \in [Addresses -> Transmissions(Nat)]
  /\ off \subseteq Addresses
  /\ heard \in BOOLEAN /\ jam \in BOOLEAN

(* Failed attempts are counted for the request in progress only, and a     *)
(* request never has more than MaxRetry of them: a node that comes back    *)
(* starts afresh (node->retry_count in process_one and on_ack).            *)
RetriesBelongToRequest ==
  \A n \in Addresses : retries[n] > 0 =>
    /\ awaiting = n /\ (waiting \/ retryPending)
    /\ retries[n] < MaxRetry

(* At most one request is outstanding: the master waits for an answer or   *)
(* for its back-off, and only then for a node it has polled under an id    *)
(* that is not 0 (the flags of rs485_master.c).                            *)
OneRequest ==
  /\ ~(waiting /\ retryPending)
  /\ (waiting \/ retryPending) <=> awaiting # Nobody
  /\ awaiting # Nobody => curId # 0

(* An answer is only accepted if it was given to the request in progress:  *)
(* neither a late one of an earlier request nor one of another node, even  *)
(* though ids wrap (the checks of rs485_master_on_ack).                    *)
AckAnswersRequest ==
  [][(waiting /\ ~waiting' /\ online'[awaiting] /\ ~retryPending') =>
       Head(rx).cur /\ Head(rx).node = awaiting]_vars

(* The frames that are on the line, pending at a node or unread.           *)
Around(f) ==
  \/ \E d \in Devices : air[d] # None /\ f = air[d].frame
  \/ \E n \in Addresses : ack[n] # None /\ f = ack[n].frame
  \/ \E i \in 1..Len(rx) : f = rx[i]

Unused(id) == \A f \in Frames : Around(f) => f.id # id

(* No frame outlives the round of the ids: when next_msg_id gives an id to *)
(* a new request, nothing that was sent under it the last time is left on  *)
(* the line, at a node or in the receive buffer.                           *)
IdsOutliveFrames == [][SendNext => Unused(idCounter)]_vars

(* Prompt nodes with addresses of their own, and no cluster traffic.       *)
Own == \A m, n \in site.prompt : Address(m) = Address(n) => m = n
Calm == site.slow = {} /\ site.disturbances = 0 /\ Own

(* With prompt nodes and no cluster traffic only one device at a time      *)
(* drives the bus, however late the gateway's ticks are: time-out and      *)
(* back-off leave room for the answer and for the turn-round of the line   *)
(* (RESPONSE_TIMEOUT_US, rs485_tx_service).  The one exception is a line   *)
(* the gateway still holds after its poll because the tick that turns it   *)
(* round is late; it is over with that tick.                               *)
OneTalker == Calm => ~jam

(* The same of a line that is still held.                                  *)
AnswerFindsLineFree == [][Calm /\ Millisecond => ~Clash]_vars

(* An address at which no node is left is offline for the master from some *)
(* time on, whatever frames of it were still under way.                    *)
SilentGoesOffline ==
  \A a \in Addresses : <>[]((\A n \in Present : Address(n) # a) => ~online[a])

(* A node that answers promptly is online for good once the disturbances   *)
(* are over: neither a dead neighbour nor a slow one, whose late answers   *)
(* hit the polls of others, keeps it offline.                              *)
PromptComesOnline ==
  Own => \A n \in Addresses : <>[](n \in site.prompt \ off => online[Address(n)])

(* endap_rs485_failsafe_audit.md: a node whose answers are late but arrive *)
(* before the third attempt is given up stays online.                      *)
LateAnswerKeepsOnline ==
  [][\A n \in Addresses : online[n] /\ ~online'[n] => ~heard]_vars
=============================================================================
