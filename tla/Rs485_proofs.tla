---------------------------- MODULE Rs485_proofs ----------------------------
(***************************************************************************)
(* Proofs about Rs485, for every number of addresses and every time-out.   *)
(* The first part is about the polling master and assumes nothing of the   *)
(* frames that arrive; the second follows the line of an installation with *)
(* prompt nodes and no other traffic from the poll to the answer; the      *)
(* third follows the frames, and says which answers are accepted.          *)
(***************************************************************************)
EXTENDS Rs485, SequenceTheorems, FiniteSetTheorems, TLAPS

MasterTypes ==
  /\ waiting \in BOOLEAN /\ retryPending \in BOOLEAN
  /\ awaiting \in Addresses \cup {Nobody}
  /\ curId \in Ids /\ idCounter \in Ids \ {0}
  /\ currentNode \in 0..(MaxNodes - 1)
  /\ retries \in [Addresses -> Nat]

(* Retries belong to the request; the request has an address and an id.    *)
(* Each part needs the others: a time-out touches retries[awaiting], which *)
(* exists because a waiting master has an address.                         *)
MasterInv == MasterTypes /\ OneRequest /\ RetriesBelongToRequest

LEMMA IdsWrapPastZero == \A id \in Ids : NextId(id) \in Ids \ {0}
  BY Rs485Assumption DEF Ids, NextId

LEMMA RoundOfAddresses ==
  \A k \in 0..(MaxNodes - 1) :
    k + 1 \in Addresses /\ Following(k) \in 0..(MaxNodes - 1)
  BY Rs485Assumption DEF Addresses, Following

LEMMA FirstIds == 0 \in Ids /\ 1 \in Ids \ {0} /\ 0 \in 0..(MaxNodes - 1)
  BY Rs485Assumption DEF Ids

LEMMA InitMaster == Init => MasterInv
<1> SUFFICES ASSUME Init PROVE MasterInv
  OBVIOUS
<1>1. MasterTypes
  BY FirstIds DEF Init, MasterTypes
<1>2. OneRequest
  BY DEF Init, OneRequest
<1>3. RetriesBelongToRequest
  BY DEF Init, RetriesBelongToRequest
<1> QED
  BY <1>1, <1>2, <1>3 DEF MasterInv

(* The steps that leave the request alone: the wire, the disturbances and  *)
(* the ticks that find nothing to do.                                      *)
LEMMA RequestUntouched ==
  ASSUME MasterInv,
         UNCHANGED <<waiting, retryPending, awaiting, curId, idCounter,
                     currentNode, retries>>
  PROVE  MasterInv'
  BY DEF MasterInv, MasterTypes, OneRequest, RetriesBelongToRequest

LEMMA StepMaster == MasterInv /\ [Next]_vars => MasterInv'
<1> SUFFICES ASSUME MasterInv, [Next]_vars PROVE MasterInv'
  OBVIOUS
<1> USE DEF MasterInv, MasterTypes, OneRequest, RetriesBelongToRequest
<1>1. CASE Millisecond
  BY <1>1, RequestUntouched DEF Millisecond
<1>2. CASE Disturb \/ Stall
  BY <1>2, RequestUntouched DEF Disturb, ClusterSend, Noise, SwitchOff, Stall, masterVars
<1>3. CASE NoWork \/ CrcError \/ AckIgnored \/ StillWaiting \/ BackOff
  BY <1>3, RequestUntouched
     DEF NoWork, CrcError, AckIgnored, StillWaiting, BackOff, masterVars
<1>4. CASE AckAccepted
  <2>1. awaiting \in Addresses
    BY <1>4 DEF AckAccepted, Accepts
  <2>2. /\ waiting' = FALSE /\ retryPending' = FALSE /\ awaiting' = Nobody
        /\ UNCHANGED <<curId, idCounter, currentNode>>
        /\ retries' = [retries EXCEPT ![awaiting] = 0]
    BY <1>4 DEF AckAccepted
  <2>3. MasterTypes'
    BY <2>1, <2>2
  <2>4. OneRequest'
    BY <2>2
  <2>5. RetriesBelongToRequest'
    BY <2>1, <2>2, Rs485Assumption
  <2> QED
    BY <2>3, <2>4, <2>5
<1>5. CASE Retry
  <2>1. awaiting \in Addresses
    BY <1>5 DEF Retry, TimedOut
  <2>2. /\ waiting /\ waiting' = FALSE /\ retryPending' = TRUE
        /\ UNCHANGED <<awaiting, curId, idCounter, currentNode>>
        /\ retries[awaiting] + 1 < MaxRetry
        /\ retries' = [retries EXCEPT ![awaiting] = @ + 1]
    BY <1>5 DEF Retry, TimedOut
  <2>3. MasterTypes'
    <3>1. waiting' \in BOOLEAN /\ retryPending' \in BOOLEAN
      BY <2>2
    <3>2. retries' \in [Addresses -> Nat]
      BY <2>1, <2>2
    <3> QED
      BY <2>2, <3>1, <3>2
  <2>4. OneRequest'
    BY <2>2
  <2>5. RetriesBelongToRequest'
    BY <2>1, <2>2, Rs485Assumption
  <2> QED
    BY <2>3, <2>4, <2>5
<1>6. CASE GiveUp
  <2>1. awaiting \in Addresses
    BY <1>6 DEF GiveUp, TimedOut
  <2>2. /\ waiting' = FALSE /\ retryPending' = FALSE /\ awaiting' = Nobody
        /\ curId' = 0 /\ UNCHANGED <<idCounter, currentNode>>
        /\ retries' = [retries EXCEPT ![awaiting] = 0]
    BY <1>6 DEF GiveUp
  <2>3. MasterTypes'
    BY <2>1, <2>2, FirstIds
  <2>4. OneRequest'
    BY <2>2
  <2>5. RetriesBelongToRequest'
    BY <2>1, <2>2
  <2> QED
    BY <2>3, <2>4, <2>5
<1>7. CASE SendRetry
  BY <1>7 DEF SendRetry, StartRequest
<1>8. CASE SendNext
  <2>1. /\ waiting' = TRUE /\ retryPending' = FALSE
        /\ awaiting' = currentNode + 1
        /\ currentNode' = Following(currentNode)
        /\ curId' = idCounter /\ idCounter' = NextId(idCounter)
        /\ ~waiting /\ ~retryPending /\ UNCHANGED retries
    BY <1>8 DEF SendNext, StartRequest
  <2>2. /\ awaiting' \in Addresses /\ currentNode' \in 0..(MaxNodes - 1)
        /\ idCounter' \in Ids \ {0}
    BY <2>1, IdsWrapPastZero, RoundOfAddresses
  <2>3. \A n \in Addresses : retries[n] = 0
    BY <2>1
  <2>4. MasterTypes'
    BY <2>1, <2>2
  <2>5. OneRequest'
    BY <2>1, <2>2 DEF Addresses, Nobody, Ids
  <2>6. RetriesBelongToRequest'
    BY <2>1, <2>3
  <2> QED
    BY <2>4, <2>5, <2>6
<1>9. CASE UNCHANGED vars
  BY <1>9, RequestUntouched DEF vars, masterVars
<1> QED
  BY <1>1, <1>2, <1>3, <1>4, <1>5, <1>6, <1>7, <1>8, <1>9 DEF Next, Loop

LEMMA MasterInvariant == Spec => []MasterInv
<1>1. Init => MasterInv
  BY InitMaster
<1>2. MasterInv /\ [Next]_vars => MasterInv'
  BY StepMaster
<1> QED
  BY <1>1, <1>2, PTL DEF Spec

(* rs485_master.c: at most one request is outstanding, it has an address   *)
(* and an id that is not 0, whatever frames arrive.                        *)
THEOREM OneRequestAtATime == Spec => []OneRequest
<1>1. MasterInv => OneRequest
  BY DEF MasterInv
<1> QED
  BY <1>1, MasterInvariant, PTL

(* rs485_master.c: failed attempts are only ever counted for the request   *)
(* in progress and stay below MaxRetry.                                    *)
THEOREM RetriesBounded == Spec => []RetriesBelongToRequest
<1>1. MasterInv => RetriesBelongToRequest
  BY DEF MasterInv
<1> QED
  BY <1>1, MasterInvariant, PTL

-----------------------------------------------------------------------------
(***************************************************************************)
(* The bus of an installation with prompt nodes and no other traffic.  The *)
(* line goes round: the gateway polls, a node waits and answers, and       *)
(* silence follows; the age of the request bounds how far the round has    *)
(* come, so that it is over when the request times out.  The gateway may   *)
(* hold the line from the end of its poll until a tick of it is run.       *)
(***************************************************************************)
Wire == {None} \cup [left : Nat \ {0}, frame : Frames, hit : BOOLEAN]
Airing == {d \in Devices : air[d] # None}
Pending == {n \in Addresses : ack[n] # None}

Polling ==
  /\ Airing = {Gateway} /\ Pending = {}
  /\ tx.on /\ tx.left = air[Gateway].left /\ age + tx.left = ShortTx
Waits ==
  /\ Airing = {}
  /\ \E n \in Addresses : Pending = {n} /\ ack[n].left \in {1, 2} /\ age + ack[n].left <= ShortTx + 2
Replying ==
  /\ Pending = {}
  /\ \E n \in Addresses : Airing = {n} /\ age + air[n].left <= 2 * ShortTx + 2
Silent == Airing = {} /\ Pending = {}
Free == tx.on => tx.left = 0

WireTypes ==
  /\ age \in Nat /\ tx \in [on : BOOLEAN, left : Nat]
  /\ air \in [Devices -> Wire] /\ ack \in [Addresses -> Wire]

CalmInv ==
  /\ budget = 0 /\ ~jam
  /\ WireTypes
  /\ Polling \/ ((Waits \/ Replying \/ Silent) /\ Free)
  /\ rx = <<>> \/ (waiting /\ Silent /\ Free /\ \E f : rx = <<f>>)
  /\ ~waiting => Silent /\ ~tx.on

(* None is no transmission; the devices and the addresses.                 *)
LEMMA WireFacts ==
  /\ None \in Wire /\ None.left = 0
  /\ \A t \in Wire : t # None => t.left \in Nat \ {0} /\ t.frame \in Frames /\ t.hit \in BOOLEAN
  /\ Gateway \in Devices /\ Gateway \notin Addresses /\ Addresses \subseteq Devices
<1>1. None \in Wire /\ None.left = 0
  BY DEF Wire, None
<1>2. \A t \in Wire : t # None => t.left \in Nat \ {0} /\ t.frame \in Frames /\ t.hit \in BOOLEAN
  BY DEF Wire
<1>3. Gateway \in Devices /\ Gateway \notin Addresses /\ Addresses \subseteq Devices
  BY Rs485Assumption DEF Devices, Gateway, Addresses
<1> QED BY <1>1, <1>2, <1>3

LEMMA SendingWire ==
  ASSUME NEW f \in Frames, NEW time \in Nat \ {0}
  PROVE  /\ Sending(f, time) \in Wire /\ Sending(f, time) # None
         /\ Sending(f, time).left = time /\ Sending(f, time).frame = f /\ Sending(f, time).hit = FALSE
<1>1. Sending(f, time) \in Wire /\ Sending(f, time).left = time /\ Sending(f, time).frame = f
      /\ Sending(f, time).hit = FALSE
  BY DEF Sending, Wire
<1> QED BY <1>1, WireFacts

(* One millisecond of a frame on the wire.                                 *)
LEMMA ShorterWire ==
  ASSUME NEW t \in Wire, t.left > 1, NEW b \in BOOLEAN
  PROVE  /\ [t EXCEPT !.left = @ - 1, !.hit = @ \/ b] \in Wire
         /\ [t EXCEPT !.left = @ - 1, !.hit = @ \/ b].left = t.left - 1
         /\ [t EXCEPT !.left = @ - 1] \in Wire
         /\ [t EXCEPT !.left = @ - 1].left = t.left - 1
<1>1. t \in [left : Nat \ {0}, frame : Frames, hit : BOOLEAN]
  BY WireFacts DEF Wire
<1>2. t.left - 1 \in Nat \ {0} /\ (t.hit \/ b) \in BOOLEAN
  BY <1>1
<1> QED BY <1>1, <1>2 DEF Wire

(* The frames the master sends.                                            *)
LEMMA PollFrame ==
  ASSUME NEW n \in Addresses, NEW id \in Ids
  PROVE  Frame("poll", n, id, TRUE) \in Frames
BY DEF Frame, Frames, Devices

-----------------------------------------------------------------------------
(* A millisecond.  Only one device drives the line, unless it is held.     *)
LEMMA CalmNoClash ==
  ASSUME CalmInv, ~Held
  PROVE  ~Clash
<1>1. Driving = Airing \cup (IF tx.on THEN {Gateway} ELSE {})
  BY DEF Driving, Airing
<1>2. Driving = {} \/ \E d \in Devices : Driving = {d}
  BY <1>1, WireFacts DEF CalmInv, Polling, Free, Held, Waits, Replying, Silent
<1>3. Cardinality({}) = 0 /\ \A d \in Devices : Cardinality({d}) = 1
  BY FS_EmptySet, FS_Singleton
<1> QED BY <1>2, <1>3 DEF Clash

(* What a millisecond makes of a pending answer and of a frame.            *)
LEMMA AckTickFacts ==
  ASSUME WireTypes
  PROVE  /\ AckAfterTick \in [Addresses -> Wire]
         /\ \A n \in Addresses :
              /\ n \in off \/ ack[n].left <= 1 => AckAfterTick[n] = None
              /\ n \notin off /\ ack[n].left > 1 => AckAfterTick[n].left = ack[n].left - 1
<1>1. \A n \in Addresses : ack[n] \in Wire /\ ack[n].left \in Nat
  BY WireFacts DEF WireTypes
<1>2. ASSUME NEW n \in Addresses
      PROVE  /\ AckAfterTick[n] \in Wire
             /\ n \in off \/ ack[n].left <= 1 => AckAfterTick[n] = None
             /\ n \notin off /\ ack[n].left > 1 => AckAfterTick[n].left = ack[n].left - 1
  <2>1. CASE n \in off \/ ack[n].left <= 1
    <3>1. AckAfterTick[n] = None
      BY <2>1 DEF AckAfterTick
    <3> QED BY <1>1, <2>1, <3>1, WireFacts
  <2>2. CASE ~(n \in off \/ ack[n].left <= 1)
    <3>1. AckAfterTick[n] = [ack[n] EXCEPT !.left = @ - 1]
      BY <2>2 DEF AckAfterTick
    <3>2. ack[n].left > 1
      BY <1>1, <2>2
    <3> QED BY <1>1, <2>2, <3>1, <3>2, ShorterWire
  <2> QED BY <2>1, <2>2
<1>3. AckAfterTick \in [Addresses -> Wire]
  BY <1>2 DEF AckAfterTick
<1> QED BY <1>2, <1>3

LEMMA AirFacts ==
  ASSUME WireTypes, NEW d \in Devices
  PROVE  /\ AirAfter(d) \in Wire
         /\ air[d].left > 1 => AirAfter(d).left = air[d].left - 1
         /\ air[d].left = 1 => AirAfter(d) = None
         /\ air[d] = None /\ ~(d \in Addresses /\ Answers(d)) => AirAfter(d) = None
         /\ air[d] = None /\ d \in Addresses /\ Answers(d) =>
              AirAfter(d).left = ShortTx
<1>1. air[d] \in Wire /\ air[d].left \in Nat /\ (air[d] # None => air[d].left # 0)
  BY WireFacts DEF WireTypes
<1>2. CASE air[d].left > 1
  <2>1. AirAfter(d) = [air[d] EXCEPT !.left = @ - 1, !.hit = @ \/ Clash]
    BY <1>2 DEF AirAfter
  <2>2. Clash \in BOOLEAN /\ air[d] # None
    BY <1>2, WireFacts DEF Clash
  <2>3. AirAfter(d) \in Wire /\ AirAfter(d).left = air[d].left - 1
    BY <1>1, <1>2, <2>1, <2>2, ShorterWire
  <2>4. air[d].left # 1
    BY <1>1, <1>2
  <2> QED BY <2>2, <2>3, <2>4
<1>3. CASE air[d].left = 1
  <2>1. AirAfter(d) = None
    BY <1>3, WireFacts DEF AirAfter
  <2> QED BY <1>3, <2>1, WireFacts
<1>4. CASE air[d] = None /\ ~(d \in Addresses /\ Answers(d))
  <2>1. AirAfter(d) = None
    BY <1>4, WireFacts DEF AirAfter
  <2> QED BY <1>4, <2>1, WireFacts
<1>5. CASE air[d] = None /\ d \in Addresses /\ Answers(d)
  <2>1. AirAfter(d) = Sending(ack[d].frame, ShortTx)
    BY <1>5, WireFacts DEF AirAfter
  <2>2. ack[d] \in Wire /\ ack[d] # None
    BY <1>5, WireFacts DEF WireTypes, Answers
  <2>3. ack[d].frame \in Frames
    BY <2>2, WireFacts
  <2>4. ShortTx \in Nat \ {0}
    BY Rs485Assumption
  <2>5. Sending(ack[d].frame, ShortTx) \in Wire /\ Sending(ack[d].frame, ShortTx).left = ShortTx
    BY <2>3, <2>4, SendingWire
  <2> QED BY <1>5, <2>1, <2>5, WireFacts
<1> QED BY <1>1, <1>2, <1>3, <1>4, <1>5

(* Nobody is asked: the pending answers come closer, and nothing is added. *)
LEMMA AcksUnasked ==
  ASSUME Asked = {}
  PROVE  Acks = {AckAfterTick}
<1>1. Waitings # {}
  <2>1. [n \in {} |-> 1] \in Waitings
    BY DEF Waitings
  <2> QED BY <2>1
<1>2. [n \in Addresses |-> AckAfterTick[n]] = AckAfterTick
  BY DEF AckAfterTick
<1> QED BY <1>1, <1>2 DEF Acks

(* Where addresses are not shared at most one node is asked, and it        *)
(* answers within two milliseconds.                                        *)
LEMMA AcksAsked ==
  ASSUME Calm, \A n \in Addresses : AckAfterTick[n] = None, air[Gateway].frame \in Frames,
         NEW a \in Acks
  PROVE  \/ a = AckAfterTick
         \/ \E n \in Addresses, d \in {1, 2}, f \in Frames : a = [AckAfterTick EXCEPT ![n] = Sending(f, d)]
<1> DEFINE poll == air[Gateway].frame
           answer == Frame("ack", poll.node, poll.id, poll.cur)
           pending(n, w) == IF AckAfterTick[n] = None THEN Sending(answer, w)
                            ELSE [AckAfterTick[n] EXCEPT !.frame = answer]
<1>1. PICK w \in Waitings : a = [n \in Addresses |-> IF n \in Asked THEN pending(n, w[n]) ELSE AckAfterTick[n]]
  BY DEF Acks
<1>2. \A m, n \in Asked : m = n
  BY DEF Calm, Own, Asked, Polled, Present
<1>3. answer \in Frames
  BY DEF Frames, Frame
<1> HIDE DEF answer
<1>4. a = [n \in Addresses |-> IF n \in Asked THEN Sending(answer, w[n]) ELSE None]
  BY <1>1
<1>5. AckAfterTick = [n \in Addresses |-> None]
  BY DEF AckAfterTick
<1>6. CASE Asked = {}
  BY <1>4, <1>5, <1>6
<1>7. CASE Asked # {}
  <2>1. PICK n \in Asked : Asked = {n}
    BY <1>2, <1>7
  <2>2. n \in Addresses /\ w[n] \in {1, 2}
    BY DEF Asked, Waitings, Delays, Calm
  <2>3. a = [AckAfterTick EXCEPT ![n] = Sending(answer, w[n])]
    BY <1>4, <1>5, <2>1, <2>2
  <2> QED BY <1>3, <2>2, <2>3
<1> QED BY <1>6, <1>7

(* No poll arrives.                                                        *)
LEMMA AcksWithoutPoll ==
  ASSUME air[Gateway].left # 1
  PROVE  Acks = {AckAfterTick}
<1>1. Asked = {}
  BY DEF Asked, Polled, Done
<1> QED BY <1>1, AcksUnasked


LEMMA ArrivalsWithoutFrame ==
  ASSUME \A n \in Addresses : air[n].left # 1
  PROVE  Arrivals = {rx}
<1>1. Done \ {Gateway} = {}
  BY DEF Done, Devices, Gateway
<1> QED BY <1>1 DEF Arrivals

(* Types and the age of the request after a millisecond.                   *)
LEMMA MsTypes ==
  ASSUME WireTypes, Millisecond, ack' \in [Addresses -> Wire]
  PROVE  /\ WireTypes'
         /\ tx'.on = tx.on /\ tx'.left = CapLeft(tx.left - 1)
         /\ \A d \in Devices : air'[d] = AirAfter(d)
         /\ waiting /\ age <= ResponseTimeout => age' = age + 1
<1>1. tx' = [tx EXCEPT !.left = CapLeft(@ - 1)] /\ tx \in [on : BOOLEAN, left : Nat]
  BY DEF Millisecond, WireTypes
<1>2. CapLeft(tx.left - 1) \in Nat
  BY <1>1 DEF CapLeft
<1>3. tx' \in [on : BOOLEAN, left : Nat] /\ tx'.on = tx.on /\ tx'.left = CapLeft(tx.left - 1)
  BY <1>1, <1>2
<1>4. air' \in [Devices -> Wire] /\ \A d \in Devices : air'[d] = AirAfter(d)
  BY AirFacts DEF Millisecond
<1>5. age' \in Nat /\ (waiting /\ age <= ResponseTimeout => age' = age + 1)
  BY Rs485Assumption DEF Millisecond, WireTypes, CapAge
<1> QED BY <1>3, <1>4, <1>5 DEF WireTypes

(* The gateway's own transmission stays over.                              *)
LEMMA FreeStays ==
  ASSUME WireTypes, tx'.on = tx.on, tx'.left = CapLeft(tx.left - 1), Free
  PROVE  Free'
BY DEF WireTypes, Free, CapLeft

LEMMA MsPolling ==
  ASSUME CalmInv, Calm, Millisecond, Polling
  PROVE  WireTypes' /\ (Polling' \/ ((Waits' \/ Silent') /\ Free')) /\ rx' = <<>>
<1>1. WireTypes /\ waiting /\ rx = <<>>
  <2>1. ~Silent /\ WireTypes
    BY WireFacts DEF CalmInv, Polling, Silent
  <2> QED BY <2>1 DEF CalmInv
<1>2. /\ tx.on /\ tx.left = air[Gateway].left /\ tx.left \in Nat \ {0} /\ age \in Nat
      /\ age + tx.left = ShortTx /\ air[Gateway] # None
  BY <1>1, WireFacts DEF Polling, Airing, WireTypes
<1>3. \A d \in Devices \ {Gateway} : air[d] = None
  BY DEF Polling, Airing
<1>4. \A n \in Addresses : ack[n] = None /\ ack[n].left = 0 /\ ~Answers(n) /\ AckAfterTick[n] = None
  BY <1>1, AckTickFacts, WireFacts DEF Polling, Pending, Answers
<1>5. rx' = <<>>
  BY <1>1, <1>2 DEF Millisecond, Arrivals
<1>6. age <= ResponseTimeout
  BY <1>2, AnswerInTime, Rs485Assumption
<1>7. CASE tx.left > 1
  <2>1. ack' = AckAfterTick
    BY <1>2, <1>7, AcksWithoutPoll DEF Millisecond
  <2>2. ack' \in [Addresses -> Wire]
    BY <1>1, <2>1, AckTickFacts
  <2>3. /\ WireTypes' /\ tx'.on = tx.on /\ tx'.left = CapLeft(tx.left - 1) /\ age' = age + 1
        /\ \A d \in Devices : air'[d] = AirAfter(d)
    BY <1>1, <1>6, <2>2, MsTypes
  <2>4. tx'.left = tx.left - 1
    BY <1>2, <1>7, <2>3 DEF CapLeft
  <2>5. air'[Gateway].left = tx.left - 1 /\ air'[Gateway] # None
    BY <1>1, <1>2, <1>7, <2>3, AirFacts, WireFacts
  <2>6. \A d \in Devices \ {Gateway} : air'[d] = None
    BY <1>1, <1>3, <1>4, <2>3, AirFacts, WireFacts
  <2>7. Airing' = {Gateway}
    BY <2>5, <2>6, WireFacts DEF Airing
  <2>8. Pending' = {}
    BY <1>4, <2>1 DEF Pending
  <2>9. tx'.on /\ tx'.left = air'[Gateway].left /\ age' + tx'.left = ShortTx
    BY <1>2, <2>3, <2>4, <2>5
  <2>10. Polling'
    BY <2>7, <2>8, <2>9 DEF Polling
  <2> QED BY <1>5, <2>3, <2>10
<1>8. CASE tx.left = 1
  <2>0. \/ ack' = AckAfterTick
        \/ \E n \in Addresses, d \in {1, 2}, f \in Frames : ack' = [AckAfterTick EXCEPT ![n] = Sending(f, d)]
    <3>1. air[Gateway].frame \in Frames
      BY <1>1, <1>2, WireFacts DEF WireTypes
    <3>2. ack' \in Acks
      BY DEF Millisecond
    <3> QED BY <1>4, <3>1, <3>2, AcksAsked
  <2>1. AckAfterTick \in [Addresses -> Wire]
    BY <1>1, AckTickFacts
  <2>2. /\ ack' \in [Addresses -> Wire]
        /\ \/ \A n \in Addresses : ack'[n] = None
           \/ \E n \in Addresses : /\ ack'[n] # None /\ ack'[n].left \in {1, 2}
                                   /\ \A m \in Addresses \ {n} : ack'[m] = None
    <3>1. CASE ack' = AckAfterTick
      BY <1>4, <2>1, <3>1
    <3>2. ASSUME NEW n \in Addresses, NEW d \in {1, 2}, NEW f \in Frames,
                 ack' = [AckAfterTick EXCEPT ![n] = Sending(f, d)]
          PROVE  /\ ack' \in [Addresses -> Wire]
                 /\ ack'[n] # None /\ ack'[n].left \in {1, 2} /\ \A m \in Addresses \ {n} : ack'[m] = None
      <4>1. Sending(f, d) \in Wire /\ Sending(f, d) # None /\ Sending(f, d).left = d
        <5>1. d \in Nat \ {0}
          OBVIOUS
        <5> QED BY <5>1, SendingWire
      <4>2. ack' \in [Addresses -> Wire] /\ ack'[n] = Sending(f, d) /\ \A m \in Addresses \ {n} : ack'[m] = None
        BY <1>4, <2>1, <3>2, <4>1
      <4> QED BY <4>1, <4>2
    <3> QED BY <2>0, <3>1, <3>2
  <2>3. /\ WireTypes' /\ tx'.on = tx.on /\ tx'.left = CapLeft(tx.left - 1) /\ age' = age + 1
        /\ \A d \in Devices : air'[d] = AirAfter(d)
    BY <1>1, <1>6, <2>2, MsTypes
  <2>4. tx'.on /\ tx'.left = 0 /\ age' = ShortTx
    BY <1>2, <1>8, <2>3 DEF CapLeft
  <2>5. \A d \in Devices : air'[d] = None
    BY <1>1, <1>2, <1>3, <1>4, <1>8, <2>3, AirFacts, WireFacts
  <2>6. Airing' = {}
    BY <2>5 DEF Airing
  <2>7. Pending' = {} \/ Waits'
    <3>1. CASE \A n \in Addresses : ack'[n] = None
      BY <3>1 DEF Pending
    <3>2. CASE \E n \in Addresses : /\ ack'[n] # None /\ ack'[n].left \in {1, 2}
                                    /\ \A m \in Addresses \ {n} : ack'[m] = None
      <4>1. PICK n \in Addresses : /\ ack'[n] # None /\ ack'[n].left \in {1, 2}
                                   /\ \A m \in Addresses \ {n} : ack'[m] = None
        BY <3>2
      <4>2. Pending' = {n}
        BY <4>1 DEF Pending
      <4>3. age' + ack'[n].left <= ShortTx + 2
        BY <2>4, <4>1, Rs485Assumption
      <4> QED BY <2>6, <4>1, <4>2, <4>3 DEF Waits
    <3> QED BY <2>2, <3>1, <3>2
  <2>8. (Waits' \/ Silent') /\ Free'
    BY <2>4, <2>6, <2>7 DEF Silent, Free
  <2> QED BY <1>5, <2>3, <2>8
<1> QED BY <1>2, <1>7, <1>8

LEMMA MsQuiet ==
  ASSUME CalmInv, Millisecond, \A d \in Devices : air[d] = None
  PROVE  /\ ack' = AckAfterTick /\ WireTypes' /\ rx' = rx /\ (Free => Free')
         /\ waiting /\ age <= ResponseTimeout => age' = age + 1
         /\ \A d \in Devices : air'[d] = AirAfter(d)
<1>1. WireTypes
  BY DEF CalmInv
<1>2. air[Gateway].left = 0 /\ \A n \in Addresses : air[n].left = 0
  BY WireFacts
<1>3. ack' = AckAfterTick
  BY <1>2, AcksWithoutPoll DEF Millisecond
<1>4. rx' = rx
  BY <1>2, ArrivalsWithoutFrame DEF Millisecond
<1>5. ack' \in [Addresses -> Wire]
  BY <1>1, <1>3, AckTickFacts
<1> QED BY <1>1, <1>3, <1>4, <1>5, MsTypes, FreeStays

LEMMA MsWaits ==
  ASSUME CalmInv, Millisecond, Waits, Free
  PROVE  WireTypes' /\ rx' = <<>> /\ (Waits' \/ Replying' \/ Silent') /\ Free'
<1>1. WireTypes /\ waiting /\ rx = <<>> /\ \A d \in Devices : air[d] = None
  <2>1. ~Silent /\ WireTypes
    BY DEF CalmInv, Waits, Silent
  <2> QED BY <2>1 DEF CalmInv, Waits, Airing
<1>2. PICK n \in Addresses : Pending = {n} /\ ack[n].left \in {1, 2} /\ age + ack[n].left <= ShortTx + 2
  BY DEF Waits
<1>3. \A m \in Addresses \ {n} : ack[m] = None /\ ~Answers(m) /\ AckAfterTick[m] = None
  BY <1>1, <1>2, AckTickFacts, WireFacts DEF Pending, Answers
<1>4. age <= ResponseTimeout /\ age \in Nat
  BY <1>1, <1>2, AnswerInTime, Rs485Assumption DEF WireTypes
<1>5. /\ ack' = AckAfterTick /\ WireTypes' /\ rx' = <<>> /\ Free' /\ age' = age + 1
      /\ \A d \in Devices : air'[d] = AirAfter(d)
  BY <1>1, <1>4, MsQuiet
<1>6. \A d \in Devices \ {n} : air'[d] = None
  BY <1>1, <1>3, <1>5, AirFacts
<1>7. \A m \in Addresses \ {n} : ack'[m] = None
  BY <1>3, <1>5
<1>8. n \in Devices
  BY WireFacts
<1>9. CASE n \in off
  <2>1. air'[n] = None
    BY <1>1, <1>5, <1>8, <1>9, AirFacts DEF Answers
  <2>2. ack'[n] = None
    BY <1>1, <1>5, <1>9, AckTickFacts
  <2>3. Airing' = {} /\ Pending' = {}
    BY <1>6, <1>7, <2>1, <2>2 DEF Airing, Pending
  <2> QED BY <1>5, <2>3 DEF Silent
<1>10. CASE n \notin off /\ ack[n].left = 2
  <2>1. air'[n] = None
    BY <1>1, <1>5, <1>8, <1>10, AirFacts DEF Answers
  <2>2. ack'[n].left = 1 /\ ack'[n] # None
    BY <1>1, <1>5, <1>10, AckTickFacts, WireFacts
  <2>3. Airing' = {} /\ Pending' = {n}
    BY <1>6, <1>7, <2>1, <2>2 DEF Airing, Pending
  <2>4. age' + ack'[n].left <= ShortTx + 2
    BY <1>2, <1>4, <1>5, <1>10, <2>2, Rs485Assumption
  <2>5. Waits'
    BY <2>2, <2>3, <2>4 DEF Waits
  <2> QED BY <1>5, <2>5
<1>11. CASE n \notin off /\ ack[n].left = 1
  <2>1. air'[n].left = ShortTx
    BY <1>1, <1>5, <1>8, <1>11, AirFacts DEF Answers
  <2>2. air'[n] # None
    BY <2>1, WireFacts, Rs485Assumption
  <2>3. ack'[n] = None
    BY <1>1, <1>5, <1>11, AckTickFacts
  <2>4. Airing' = {n} /\ Pending' = {}
    BY <1>6, <1>7, <1>8, <2>2, <2>3 DEF Airing, Pending
  <2>5. age' + air'[n].left <= 2 * ShortTx + 2
    BY <1>2, <1>4, <1>5, <1>11, <2>1, Rs485Assumption
  <2>6. Replying'
    BY <1>5, <2>4, <2>5 DEF Replying
  <2> QED BY <1>5, <2>6
<1> QED BY <1>2, <1>9, <1>10, <1>11

LEMMA MsReplying ==
  ASSUME CalmInv, Millisecond, Replying, Free
  PROVE  /\ WireTypes' /\ (Replying' \/ Silent') /\ Free'
         /\ rx' = <<>> \/ (Silent' /\ \E f : rx' = <<f>>)
<1>1. WireTypes /\ waiting /\ rx = <<>>
  <2>1. ~Silent /\ WireTypes
    BY WireFacts DEF CalmInv, Replying, Silent
  <2> QED BY <2>1 DEF CalmInv
<1>2. PICK n \in Addresses : Airing = {n} /\ age + air[n].left <= 2 * ShortTx + 2
  BY DEF Replying
<1>3. n \in Devices /\ n # Gateway /\ air[n] # None /\ air[n] \in Wire /\ air[n].left \in Nat \ {0}
  BY <1>1, <1>2, WireFacts DEF Airing, WireTypes
<1>4. \A d \in Devices \ {n} : air[d] = None /\ air[d].left = 0
  BY <1>2, WireFacts DEF Airing
<1>5. \A m \in Addresses : ack[m] = None /\ ~Answers(m) /\ AckAfterTick[m] = None
  BY <1>1, AckTickFacts, WireFacts DEF Replying, Pending, Answers
<1>6. age \in Nat /\ age <= ResponseTimeout
  BY <1>1, <1>2, <1>3, AnswerInTime, Rs485Assumption DEF WireTypes
<1>7. ack' = AckAfterTick
  BY <1>3, <1>4, AcksWithoutPoll, WireFacts DEF Millisecond
<1>8. /\ WireTypes' /\ Free' /\ age' = age + 1
      /\ \A d \in Devices : air'[d] = AirAfter(d)
  <2>1. ack' \in [Addresses -> Wire]
    BY <1>1, <1>7, AckTickFacts
  <2> QED BY <1>1, <1>6, <2>1, MsTypes, FreeStays
<1>9. Pending' = {}
  BY <1>5, <1>7 DEF Pending
<1>10. \A d \in Devices \ {n} : air'[d] = None
  BY <1>1, <1>4, <1>5, <1>8, AirFacts
<1>11. CASE air[n].left > 1
  <2>1. air'[n].left = air[n].left - 1
    BY <1>1, <1>3, <1>8, <1>11, AirFacts
  <2>2. air'[n] # None
    BY <1>3, <1>11, <2>1, WireFacts
  <2>3. Airing' = {n}
    BY <1>3, <1>10, <2>2 DEF Airing
  <2>4. age' + air'[n].left <= 2 * ShortTx + 2
    BY <1>2, <1>3, <1>6, <1>8, <2>1, Rs485Assumption
  <2>5. Replying'
    BY <1>8, <1>9, <2>3, <2>4 DEF Replying
  <2>6. \A m \in Addresses : air[m].left # 1
    BY <1>3, <1>4, <1>11, WireFacts
  <2>7. rx' = <<>>
    BY <1>1, <2>6, ArrivalsWithoutFrame DEF Millisecond
  <2> QED BY <1>8, <2>5, <2>7
<1>12. CASE air[n].left = 1
  <2>1. air'[n] = None
    BY <1>1, <1>3, <1>8, <1>12, AirFacts
  <2>2. Airing' = {}
    BY <1>10, <2>1 DEF Airing
  <2>3. Silent'
    BY <1>8, <1>9, <2>2 DEF Silent
  <2>4. rx' = rx \/ \E f : rx' = Append(rx, f)
    BY DEF Millisecond, Arrivals
  <2>5. rx' = <<>> \/ \E f : rx' = <<f>>
    BY <1>1, <2>4
  <2> QED BY <1>8, <2>3, <2>5
<1> QED BY <1>3, <1>11, <1>12

LEMMA MsSilent ==
  ASSUME CalmInv, Millisecond, Silent
  PROVE  WireTypes' /\ rx' = rx /\ Silent' /\ (Free => Free')
<1>1. WireTypes /\ (\A d \in Devices : air[d] = None) /\ \A n \in Addresses : ack[n] = None /\ ~Answers(n)
  BY WireFacts DEF CalmInv, Silent, Airing, Pending, Answers
<1>2. /\ ack' = AckAfterTick /\ WireTypes' /\ rx' = rx /\ (Free => Free')
      /\ \A d \in Devices : air'[d] = AirAfter(d)
  BY <1>1, MsQuiet
<1>3. \A d \in Devices : air'[d] = None
  BY <1>1, <1>2, AirFacts
<1>4. \A n \in Addresses : ack'[n] = None
  BY <1>1, <1>2, AckTickFacts, WireFacts
<1> QED BY <1>2, <1>3, <1>4 DEF Silent, Airing, Pending

LEMMA CalmMillisecond ==
  ASSUME CalmInv, Calm, Millisecond
  PROVE  CalmInv'
<1>1. waiting' = waiting /\ budget' = budget
  BY DEF Millisecond
<1>2. ~jam'
  BY CalmNoClash DEF CalmInv, Millisecond
<1>3. CASE waiting
  <2>1. /\ WireTypes' /\ (Polling' \/ ((Waits' \/ Replying' \/ Silent') /\ Free'))
        /\ rx' = <<>> \/ (Silent' /\ Free' /\ \E f : rx' = <<f>>)
    BY MsPolling, MsWaits, MsReplying, MsSilent DEF CalmInv
  <2> QED BY <1>1, <1>2, <1>3, <2>1 DEF CalmInv
<1>4. CASE ~waiting
  <2>1. Silent /\ ~tx.on /\ rx = <<>> /\ Free
    BY <1>4 DEF CalmInv, Free
  <2>2. WireTypes' /\ rx' = <<>> /\ Silent' /\ Free'
    BY <2>1, MsSilent
  <2>3. ~tx'.on
    BY <2>1 DEF Millisecond, CalmInv, WireTypes
  <2> QED BY <1>1, <1>2, <1>4, <2>2, <2>3 DEF CalmInv
<1> QED BY <1>3, <1>4

-----------------------------------------------------------------------------
(* The tick of the gateway.  What it reads leaves the buffer empty.        *)
LEMMA CalmReads ==
  ASSUME CalmInv
  PROVE  /\ \A r \in NoFrameLeaves : r = <<>>
         /\ rx # <<>> => Tail(rx) = <<>> /\ Silent
<1>1. rx # <<>> => Silent /\ ~TxActive
  BY DEF CalmInv, Free, TxActive
<1>2. rx # <<>> => Tail(rx) = <<>>
  <2> SUFFICES ASSUME rx # <<>> PROVE Tail(rx) = <<>>
    OBVIOUS
  <2>1. PICK f : rx = <<f>>
    BY DEF CalmInv
  <2> QED BY <2>1
<1> QED BY <1>1, <1>2 DEF NoFrameLeaves

(* The driver turns the line round, and the request stays or is over.      *)
LEMMA CalmServed ==
  ASSUME CalmInv, rx' = <<>>,
         UNCHANGED <<budget, jam, air, ack>>,
         tx' \in [on : BOOLEAN, left : Nat], tx'.left = tx.left, tx'.on = TxActive,
         (age' = age /\ waiting' = waiting) \/ (Silent /\ age' = 0 /\ waiting' \in BOOLEAN)
  PROVE  CalmInv'
<1>1. WireTypes' /\ ~jam' /\ budget' = 0
  BY DEF CalmInv, WireTypes
<1>2. Airing' = Airing /\ Pending' = Pending
  BY DEF Airing, Pending
<1>3. Silent => Silent' /\ ~tx'.on
  <2>1. Silent => ~Polling
    BY DEF Silent, Polling
  <2> QED BY <1>2, <2>1 DEF CalmInv, Silent, Free, TxActive
<1>4. ~waiting' => Silent' /\ ~tx'.on
  BY <1>3 DEF CalmInv
<1>5. Polling' \/ ((Waits' \/ Replying' \/ Silent') /\ Free')
  <2>1. CASE Silent
    BY <1>3, <2>1 DEF Free
  <2>2. CASE age' = age /\ Polling
    <3>1. tx.left \in Nat \ {0}
      BY <2>2, WireFacts DEF Polling, Airing, CalmInv, WireTypes
    <3>2. tx'.on
      BY <2>2, <3>1 DEF Polling, TxActive
    <3> QED BY <1>2, <2>2, <3>2 DEF Polling
  <2>3. CASE age' = age /\ Waits /\ Free
    BY <1>2, <2>3 DEF Waits, Free, TxActive
  <2>4. CASE age' = age /\ Replying /\ Free
    BY <1>2, <2>4 DEF Replying, Free, TxActive
  <2> QED BY <2>1, <2>2, <2>3, <2>4 DEF CalmInv
<1> QED BY <1>1, <1>4, <1>5 DEF CalmInv

(* The answer of a prompt node is over when its request times out.         *)
LEMMA CalmTimeout ==
  ASSUME CalmInv, age >= ResponseTimeout
  PROVE  Silent
<1>1. age \in Nat /\ ShortTx \in Nat \ {0} /\ ResponseTimeout \in Nat /\ ResponseTimeout >= 2 * ShortTx + 2
  BY AnswerInTime, Rs485Assumption DEF CalmInv, WireTypes
<1>2. ~Polling
  BY <1>1 DEF Polling, CalmInv, WireTypes
<1>4. ~Waits
  BY <1>1 DEF Waits
<1>5. ~Replying
  <2> SUFFICES ASSUME NEW n \in Addresses, Airing = {n}, age + air[n].left <= 2 * ShortTx + 2
               PROVE FALSE
    BY DEF Replying
  <2>1. air[n].left \in Nat \ {0}
    BY WireFacts DEF CalmInv, WireTypes, Airing
  <2> QED BY <1>1, <2>1
<1> QED BY <1>2, <1>4, <1>5 DEF CalmInv

(* A poll goes out on a silent line.                                       *)
LEMMA CalmTransmit ==
  ASSUME CalmInv, Silent, ~tx.on, rx' = <<>>, UNCHANGED <<budget, jam>>,
         NEW f \in Frames, NEW sky, sky = [d \in Devices |-> None], Transmit(f, sky),
         ack' = [n \in Addresses |-> None], waiting', age' = 0
  PROVE  CalmInv'
<1>1. ~TxActive /\ ShortTx \in Nat \ {0}
  BY Rs485Assumption DEF TxActive
<1>2. tx' = [on |-> TRUE, left |-> ShortTx] /\ air' = [sky EXCEPT ![Gateway] = Sending(f, ShortTx)]
  BY <1>1 DEF Transmit
<1>3. Sending(f, ShortTx) \in Wire /\ Sending(f, ShortTx) # None /\ Sending(f, ShortTx).left = ShortTx
  BY <1>1, SendingWire
<1>4. air' \in [Devices -> Wire] /\ air'[Gateway] = Sending(f, ShortTx)
      /\ \A d \in Devices \ {Gateway} : air'[d] = None
  BY <1>2, <1>3, WireFacts
<1>5. ack' \in [Addresses -> Wire] /\ Pending' = {}
  BY WireFacts DEF Pending
<1>6. Airing' = {Gateway}
  BY <1>3, <1>4, WireFacts DEF Airing
<1>7. WireTypes'
  BY <1>1, <1>2, <1>4, <1>5 DEF WireTypes
<1>8. Polling'
  BY <1>1, <1>2, <1>3, <1>4, <1>5, <1>6 DEF Polling
<1> QED BY <1>7, <1>8 DEF CalmInv

LEMMA CalmLoop ==
  ASSUME CalmInv, MasterInv, Loop
  PROVE  CalmInv'
<1> DEFINE Line == UNCHANGED <<budget, jam, air, ack>>
<1> DEFINE Served == tx' \in [on : BOOLEAN, left : Nat] /\ tx'.left = tx.left /\ tx'.on = TxActive
<1>0. TxActive \in BOOLEAN /\ tx \in [on : BOOLEAN, left : Nat]
  BY DEF CalmInv, WireTypes, TxActive
<1>1. Service => Served
  BY <1>0 DEF Service
<1>3. CASE NoWork
  <2>1. Silent /\ ~tx.on /\ tx' = tx /\ age' = age /\ waiting' = waiting /\ Line /\ rx' = rx
    BY <1>3 DEF NoWork, masterVars, fieldVars, CalmInv
  <2>2. ~TxActive /\ rx = <<>>
    BY <1>3, <2>1 DEF TxActive, NoWork, CalmInv
  <2> QED BY <1>0, <2>1, <2>2, CalmServed
<1>4. CASE CrcError \/ AckIgnored
  <2>1. Service /\ rx' = <<>> /\ Line /\ age' = age /\ waiting' = waiting
    BY <1>4, CalmReads DEF CrcError, AckIgnored, Readable, masterVars, fieldVars
  <2> QED BY <1>1, <2>1, CalmServed
<1>5. CASE AckAccepted
  <2>1. Service /\ rx' = <<>> /\ Line /\ age' = 0 /\ waiting' = FALSE /\ Silent
    BY <1>5, CalmReads DEF AckAccepted, Readable, masterVars, fieldVars
  <2> QED BY <1>1, <2>1, CalmServed
<1>6. CASE StillWaiting \/ BackOff
  <2>1. Service /\ rx' = <<>> /\ Line /\ age' = age /\ waiting' = waiting
    BY <1>6, CalmReads DEF StillWaiting, BackOff, NoFrame, masterVars, fieldVars
  <2> QED BY <1>1, <2>1, CalmServed
<1>7. CASE Retry \/ GiveUp
  <2>1. Service /\ rx' = <<>> /\ Line /\ age' = 0 /\ waiting' = FALSE /\ age >= ResponseTimeout
    BY <1>7, CalmReads DEF Retry, GiveUp, TimedOut, NoFrame, masterVars, fieldVars
  <2>2. Silent
    BY <2>1, CalmTimeout
  <2> QED BY <1>1, <2>1, <2>2, CalmServed
<1>8. CASE SendRetry
  <2>1. /\ ~waiting /\ retryPending /\ rx' = <<>> /\ age' = 0 /\ waiting' /\ UNCHANGED <<budget, jam, ack>>
        /\ Transmit(Frame("poll", awaiting, curId, TRUE), air)
    BY <1>8, CalmReads DEF SendRetry, StartRequest, NoFrame, fieldVars
  <2>2. Silent /\ ~tx.on
    BY <2>1 DEF CalmInv
  <2>3. Frame("poll", awaiting, curId, TRUE) \in Frames
    <3>1. awaiting \in Addresses /\ curId \in Ids
      BY <2>1 DEF MasterInv, MasterTypes, OneRequest
    <3> QED BY <3>1, PollFrame
  <2>4. air = [d \in Devices |-> None] /\ ack = [n \in Addresses |-> None]
    <3>1. air \in [Devices -> Wire] /\ ack \in [Addresses -> Wire]
      BY DEF CalmInv, WireTypes
    <3> QED BY <2>2, <3>1 DEF Silent, Airing, Pending
  <2>5. ack' = [n \in Addresses |-> None]
    BY <2>1, <2>4
  <2> QED BY <2>1, <2>2, <2>3, <2>4, <2>5, CalmTransmit
<1>9. CASE SendNext
  <2>1. /\ ~waiting /\ age' = 0 /\ waiting' /\ UNCHANGED <<budget, jam>>
        /\ ack' = [n \in Addresses |-> Stale(ack[n])]
        /\ Transmit(Frame("poll", currentNode + 1, idCounter, TRUE), [d \in Devices |-> Stale(air[d])])
    BY <1>9 DEF SendNext, StartRequest
  <2>2. Silent /\ ~tx.on
    BY <2>1 DEF CalmInv
  <2>3. Frame("poll", currentNode + 1, idCounter, TRUE) \in Frames
    <3>1. currentNode + 1 \in Addresses /\ idCounter \in Ids
      BY RoundOfAddresses DEF MasterInv, MasterTypes
    <3> QED BY <3>1, PollFrame
  <2>4. (\A d \in Devices : Stale(air[d]) = None) /\ \A n \in Addresses : Stale(ack[n]) = None
    BY <2>2 DEF Silent, Airing, Pending, Stale
  <2>5. [d \in Devices |-> Stale(air[d])] = [d \in Devices |-> None] /\ ack' = [n \in Addresses |-> None]
    BY <2>1, <2>4
  <2>6. rx' = <<>>
    <3>1. PICK r \in NoFrameLeaves : rx' = [i \in DOMAIN r |-> [r[i] EXCEPT !.cur = FALSE]]
      BY <1>9 DEF SendNext
    <3>2. r = <<>>
      BY <3>1, CalmReads
    <3>3. DOMAIN r = 1..0 /\ 1..0 = {}
      BY <3>2
    <3>4. Len(rx') = 0 /\ rx' \in Seq({})
      BY <3>1, <3>3
    <3> QED BY <3>4
  <2> QED BY <2>1, <2>2, <2>3, <2>5, <2>6, CalmTransmit
<1> QED BY <1>3, <1>4, <1>5, <1>6, <1>7, <1>8, <1>9 DEF Loop

LEMMA CalmInit ==
  ASSUME Init, Calm
  PROVE  CalmInv
<1>1. WireTypes
  BY WireFacts DEF Init, WireTypes
<1>2. Silent /\ ~tx.on /\ Free
  BY DEF Init, Silent, Free, Airing, Pending
<1> QED BY <1>1, <1>2 DEF Init, Calm, CalmInv

LEMMA CalmStep == (Calm => CalmInv) /\ MasterInv /\ [Next]_vars => (Calm => CalmInv)'
<1> SUFFICES ASSUME Calm => CalmInv, MasterInv, [Next]_vars, Calm' PROVE CalmInv'
  OBVIOUS
<1>1. site' = site
  BY DEF Next, vars, Millisecond, Disturb, ClusterSend, Noise, SwitchOff, Loop, NoWork, CrcError,
         AckAccepted, AckIgnored, StillWaiting, Retry, GiveUp, BackOff, SendRetry, SendNext, Stall
<1>2. Calm /\ CalmInv
  BY <1>1 DEF Calm, Own, Address
<1>3. CASE Millisecond
  BY <1>2, <1>3, CalmMillisecond
<1>4. CASE Loop
  BY <1>2, <1>4, CalmLoop
<1>5. CASE Disturb \/ Stall \/ UNCHANGED vars
  <2>1. ~(\E d \in Devices : ClusterSend(d) \/ Noise(d))
    BY <1>2 DEF CalmInv, ClusterSend, Noise
  <2>2. UNCHANGED <<budget, waiting, age, tx, rx, air, ack, jam>>
    BY <1>5, <2>1 DEF Disturb, SwitchOff, Stall, vars, masterVars, fieldVars
  <2> QED BY <1>2, <2>2 DEF CalmInv, WireTypes, Polling, Waits, Replying, Silent, Free, Airing, Pending
<1> QED BY <1>3, <1>4, <1>5 DEF Next

(* rs485.c and rs485_master.c: with prompt nodes, no two at one address,   *)
(* and no other traffic the gateway and the nodes never drive the line at  *)
(* once, however many addresses are polled, however late the gateway's     *)
(* ticks are and whichever nodes fail, as long as the time-out leaves room *)
(* for a poll, the delay of a node and its answer; but for the line that   *)
(* the gateway has not turned round yet because its tick is late.          *)
THEOREM OneTalkerOnly == Spec => []OneTalker
<1>1. Init => (Calm => CalmInv)
  BY CalmInit
<1>2. (Calm => CalmInv) /\ MasterInv /\ [Next]_vars => (Calm => CalmInv)'
  BY CalmStep
<1>3. (Calm => CalmInv) => OneTalker
  BY DEF Calm, CalmInv, OneTalker
<1> QED BY <1>1, <1>2, <1>3, MasterInvariant, PTL DEF Spec

-----------------------------------------------------------------------------
(***************************************************************************)
(* Which answer is accepted.  Nothing is assumed of delays, noise and      *)
(* other traffic: every frame on the line, pending at a node or unread was *)
(* made by a step that is known, so a frame of an earlier request can only *)
(* carry the id of the present one if it outlived a round of all ids.      *)
(***************************************************************************)

(* Frames that carry the id of a request.                                  *)
Asks(f) == f.type \in {"poll", "ack"}

(* What a transmission consists of.                                        *)
Shape(t) == t # None => t = [left |-> t.left, frame |-> t.frame, hit |-> t.hit] /\ t.frame \in Frames
Shapes ==
  /\ air = [d \in Devices |-> air[d]] /\ ack = [n \in Addresses |-> ack[n]]
  /\ (\A d \in Devices : Shape(air[d])) /\ (\A n \in Addresses : Shape(ack[n]))
  /\ rx \in Seq(Frames)

(* A frame made of g: the frame itself, or the answer to a poll.           *)
From(f, g) == Around(g) /\ f.id = g.id /\ (Asks(f) <=> Asks(g)) /\ (f.cur <=> g.cur)
(* ... or a poll that is sent again, or a frame that is neither.           *)
Again(f) == f.id = curId /\ f.cur /\ Asks(f) /\ retryPending
Made(f) == (f.id = 0 /\ ~Asks(f)) \/ Again(f) \/ \E g \in Frames : From(f, g)

(* The frames there are have their fields.                                 *)
LEMMA AroundFrames ==
  ASSUME Shapes, NEW f, Around(f)
  PROVE  f \in Frames /\ Made(f)
<1>1. f \in Frames
  BY DEF Shapes, Shape, Around
<1>2. From(f, f)
  BY DEF From
<1> QED BY <1>1, <1>2 DEF Made

(* The frames that stand for nothing.                                      *)
LEMMA OtherFrames ==
  /\ Bad \in Frames /\ Bad.id = 0 /\ ~Asks(Bad)
  /\ \A d \in Devices : Frame("cluster", d, 0, FALSE) \in Frames
                        /\ Frame("cluster", d, 0, FALSE).id = 0 /\ ~Asks(Frame("cluster", d, 0, FALSE))
<1>1. 0 \in Ids /\ Nobody \in Devices
  BY FirstIds DEF Nobody, Devices, Gateway
<1> QED BY <1>1 DEF Bad, Frame, Frames, Asks

(* What a millisecond makes of the answers that are pending.               *)
LEMMA MsAckMade ==
  ASSUME Shapes, Millisecond
  PROVE  /\ ack' = [n \in Addresses |-> ack'[n]]
         /\ \A n \in Addresses : Shape(ack'[n]) /\ (ack'[n] # None => Made(ack'[n].frame))
<1> DEFINE T == AckAfterTick
<1>0. None.left = 0
  BY DEF None
<1>1. /\ T = [n \in Addresses |-> T[n]]
      /\ \A n \in Addresses : Shape(T[n]) /\ (T[n] # None => Made(T[n].frame))
  <2>1. T = [n \in Addresses |-> T[n]]
    BY DEF AckAfterTick
  <2>2. ASSUME NEW n \in Addresses PROVE Shape(T[n]) /\ (T[n] # None => Made(T[n].frame))
    <3>1. CASE n \in off \/ ack[n].left <= 1
      BY <3>1 DEF AckAfterTick, Shape
    <3>2. CASE ~(n \in off \/ ack[n].left <= 1)
      <4>1. T[n] = [ack[n] EXCEPT !.left = @ - 1] /\ ack[n] # None
        BY <1>0, <3>2 DEF AckAfterTick
      <4>2. ack[n] = [left |-> ack[n].left, frame |-> ack[n].frame, hit |-> ack[n].hit] /\ ack[n].frame \in Frames
        BY <4>1 DEF Shapes, Shape
      <4>3. Shape(T[n]) /\ T[n].frame = ack[n].frame
        BY <4>1, <4>2 DEF Shape
      <4>4. Around(ack[n].frame)
        BY <4>1 DEF Around
      <4> QED BY <4>3, <4>4, AroundFrames
    <3> QED BY <3>1, <3>2
  <2> QED BY <2>1, <2>2
<1>2. ack' \in Acks
  BY DEF Millisecond
<1>3. CASE Asked = {}
  <2>1. ack' = T
    BY <1>2, <1>3, AcksUnasked
  <2> QED BY <1>1, <2>1
<1>4. CASE Asked # {}
  <2> DEFINE poll == air[Gateway].frame
             answer == Frame("ack", poll.node, poll.id, poll.cur)
             pending(n, w) == IF T[n] = None THEN Sending(answer, w) ELSE [T[n] EXCEPT !.frame = answer]
  <2>1. PICK w \in Waitings : ack' = [n \in Addresses |-> IF n \in Asked THEN pending(n, w[n]) ELSE T[n]]
    BY <1>2 DEF Acks
  <2>2. air[Gateway] # None /\ poll.type = "poll" /\ Gateway \in Devices
    BY <1>0, <1>4, WireFacts DEF Asked, Polled, Done
  <2>3. poll \in Frames /\ Around(poll)
    BY <2>2 DEF Shapes, Shape, Around
  <2>4. answer \in Frames /\ answer.id = poll.id /\ answer.cur = poll.cur /\ answer.type = "ack"
    <3>1. poll.node \in Devices /\ poll.id \in Ids /\ poll.cur \in BOOLEAN
      BY <2>3 DEF Frames
    <3> QED BY <3>1 DEF Frame, Frames
  <2>5. Made(answer)
    <3>1. From(answer, poll)
      BY <2>2, <2>3, <2>4 DEF From, Asks
    <3> QED BY <2>3, <3>1 DEF Made
  <2> HIDE DEF T, answer
  <2>6. ASSUME NEW n \in Addresses, NEW v PROVE Shape(pending(n, v)) /\ Made(pending(n, v).frame)
    <3> DEFINE new == pending(n, v)
    <3>1. new = IF T[n] = None THEN Sending(answer, v) ELSE [T[n] EXCEPT !.frame = answer]
      OBVIOUS
    <3> HIDE DEF new
    <3>2. new = [left |-> new.left, frame |-> new.frame, hit |-> new.hit] /\ new.frame = answer
      <4>1. CASE T[n] = None
        BY <3>1, <4>1 DEF Sending
      <4>2. CASE T[n] # None
        <5>1. T[n] = [left |-> T[n].left, frame |-> T[n].frame, hit |-> T[n].hit]
          BY <1>1, <4>2 DEF Shape
        <5> QED BY <3>1, <4>2, <5>1
      <4> QED BY <4>1, <4>2
    <3>3. Shape(new) /\ Made(new.frame)
      BY <2>4, <2>5, <3>2 DEF Shape
    <3> QED BY <3>3 DEF new
  <2> HIDE DEF pending
  <2>7. \A n \in Addresses : ack'[n] = IF n \in Asked THEN pending(n, w[n]) ELSE T[n]
    BY <2>1
  <2>8. ack' = [n \in Addresses |-> ack'[n]]
    BY <2>1
  <2>9. ASSUME NEW n \in Addresses PROVE Shape(ack'[n]) /\ (ack'[n] # None => Made(ack'[n].frame))
    <3>1. CASE n \in Asked
      BY <2>6, <2>7, <3>1
    <3>2. CASE n \notin Asked
      BY <1>1, <2>7, <3>2
    <3> QED BY <3>1, <3>2
  <2> QED BY <2>8, <2>9
<1> QED BY <1>3, <1>4

(* ... of the frames on the line ...                                       *)
LEMMA MsAirMade ==
  ASSUME Shapes, Millisecond
  PROVE  /\ air' = [d \in Devices |-> air'[d]]
         /\ \A d \in Devices : Shape(air'[d]) /\ (air'[d] # None => Made(air'[d].frame))
<1>0. None.left = 0
  BY DEF None
<1>1. air' = [d \in Devices |-> AirAfter(d)]
  BY DEF Millisecond
<1>2. ASSUME NEW d \in Devices PROVE Shape(AirAfter(d)) /\ (AirAfter(d) # None => Made(AirAfter(d).frame))
  <2>1. CASE air[d].left > 1
    <3>1. AirAfter(d) = [air[d] EXCEPT !.left = @ - 1, !.hit = @ \/ Clash] /\ air[d] # None
      BY <1>0, <2>1 DEF AirAfter
    <3>2. air[d] = [left |-> air[d].left, frame |-> air[d].frame, hit |-> air[d].hit] /\ air[d].frame \in Frames
      BY <3>1 DEF Shapes, Shape
    <3>3. Shape(AirAfter(d)) /\ AirAfter(d).frame = air[d].frame
      BY <3>1, <3>2 DEF Shape
    <3>4. Around(air[d].frame)
      BY <3>1 DEF Around
    <3> QED BY <3>3, <3>4, AroundFrames
  <2>2. CASE ~(air[d].left > 1) /\ air[d] = None /\ d \in Addresses /\ Answers(d)
    <3>1. AirAfter(d) = Sending(ack[d].frame, ShortTx) /\ ack[d] # None
      BY <1>0, <2>2 DEF AirAfter, Answers
    <3>2. ack[d].frame \in Frames
      BY <2>2, <3>1 DEF Shapes, Shape
    <3>3. Shape(AirAfter(d)) /\ AirAfter(d).frame = ack[d].frame
      BY <3>1, <3>2 DEF Shape, Sending
    <3>4. Around(ack[d].frame)
      BY <2>2, <3>1 DEF Around
    <3> QED BY <3>3, <3>4, AroundFrames
  <2>3. CASE ~(air[d].left > 1) /\ ~(air[d] = None /\ d \in Addresses /\ Answers(d))
    <3>1. AirAfter(d) = None
      BY <2>3 DEF AirAfter
    <3> QED BY <3>1 DEF Shape
  <2> QED BY <2>1, <2>2, <2>3
<1> QED BY <1>1, <1>2

(* ... and of what the gateway has received.                               *)
LEMMA MsRxMade ==
  ASSUME Shapes, Millisecond
  PROVE  rx' \in Seq(Frames) /\ \A i \in 1..Len(rx') : Made(rx'[i])
<1>1. rx \in Seq(Frames) /\ \A i \in 1..Len(rx) : Made(rx[i])
  <2>1. \A i \in 1..Len(rx) : Around(rx[i])
    BY DEF Around
  <2> QED BY <2>1, AroundFrames DEF Shapes
<1>2. rx' = rx \/ \E f \in Frames : rx' = Append(rx, f) /\ Made(f)
  <2>1. rx' \in Arrivals
    BY DEF Millisecond
  <2>2. CASE rx' = rx \/ rx' = Append(rx, Bad)
    BY <2>2, OtherFrames DEF Made
  <2> DEFINE from == Done \ {Gateway}
             d == CHOOSE e \in from : TRUE
  <2>3. CASE from # {} /\ rx' = Append(rx, air[d].frame)
    <3>1. d \in Devices /\ air[d].left = 1
      BY <2>3 DEF Done
    <3>2. air[d] # None
      BY <3>1 DEF None
    <3>3. Around(air[d].frame)
      BY <3>1, <3>2 DEF Around
    <3> QED BY <2>3, <3>3, AroundFrames
  <2> QED BY <2>1, <2>2, <2>3 DEF Arrivals
<1>3. CASE rx' = rx
  BY <1>1, <1>3
<1>4. ASSUME NEW f \in Frames, rx' = Append(rx, f), Made(f) PROVE rx' \in Seq(Frames) /\ \A i \in 1..Len(rx') : Made(rx'[i])
  <2>1. rx' \in Seq(Frames) /\ Len(rx') = Len(rx) + 1 /\ Len(rx) \in Nat
        /\ \A i \in 1..Len(rx') : rx'[i] = IF i = Len(rx) + 1 THEN f ELSE rx[i]
    BY <1>1, <1>4
  <2>2. \A i \in 1..Len(rx') : i = Len(rx) + 1 \/ i \in 1..Len(rx)
    BY <2>1
  <2> QED BY <1>1, <1>4, <2>1, <2>2
<1> QED BY <1>2, <1>3, <1>4

(* What is there stays, or is read.                                        *)
LEMMA StillMade ==
  ASSUME Shapes
  PROVE  /\ \A d \in Devices : Shape(air[d]) /\ (air[d] # None => Made(air[d].frame))
         /\ \A n \in Addresses : Shape(ack[n]) /\ (ack[n] # None => Made(ack[n].frame))
         /\ \A i \in 1..Len(rx) : Made(rx[i])
<1>1. \A d \in Devices : air[d] # None => Around(air[d].frame)
  BY DEF Around
<1>2. \A n \in Addresses : ack[n] # None => Around(ack[n].frame)
  BY DEF Around
<1>3. \A i \in 1..Len(rx) : Around(rx[i])
  BY DEF Around
<1> QED BY <1>1, <1>2, <1>3, AroundFrames DEF Shapes

(* What is read leaves the rest as it was.                                 *)
LEMMA RxRead ==
  ASSUME Shapes, rx' = rx \/ (rx # <<>> /\ rx' = Tail(rx))
  PROVE  rx' \in Seq(Frames) /\ \A i \in 1..Len(rx') : Made(rx'[i])
<1>1. rx \in Seq(Frames) /\ \A i \in 1..Len(rx) : Made(rx[i])
  BY StillMade DEF Shapes
<1>2. CASE rx' = rx
  BY <1>1, <1>2
<1>3. CASE rx # <<>> /\ rx' = Tail(rx)
  <2>1. /\ Tail(rx) \in Seq(Frames) /\ Len(Tail(rx)) = Len(rx) - 1 /\ Len(rx) \in Nat
        /\ \A i \in 1..Len(Tail(rx)) : Tail(rx)[i] = rx[i + 1]
    BY <1>1, <1>3
  <2>2. \A i \in 1..Len(Tail(rx)) : i + 1 \in 1..Len(rx)
    BY <2>1
  <2> QED BY <1>1, <1>3, <2>1, <2>2
<1> QED BY <1>2, <1>3


(* The parts together.                                                     *)
LEMMA PartsMade ==
  ASSUME air' = [d \in Devices |-> air'[d]], ack' = [n \in Addresses |-> ack'[n]], rx' \in Seq(Frames),
         \A d \in Devices : Shape(air'[d]) /\ (air'[d] # None => Made(air'[d].frame)),
         \A n \in Addresses : Shape(ack'[n]) /\ (ack'[n] # None => Made(ack'[n].frame)),
         \A i \in 1..Len(rx') : Made(rx'[i])
  PROVE  Shapes' /\ \A f : Around(f)' => Made(f)
<1>1. Shapes'
  BY DEF Shapes, Shape
<1>2. ASSUME NEW f, Around(f)' PROVE Made(f)
  BY <1>2 DEF Around
<1> QED BY <1>1, <1>2

(* The steps that put at most one transmission on the line.                *)
LEMMA SentMade ==
  ASSUME Shapes, ack' = ack, rx' = rx \/ (rx # <<>> /\ rx' = Tail(rx)),
         air' = air \/ \E t : \E d \in Devices : /\ air' = [air EXCEPT ![d] = t]
                                                   /\ Shape(t) /\ (t # None => Made(t.frame))
  PROVE  Shapes' /\ \A f : Around(f)' => Made(f)
<1>1. rx' \in Seq(Frames) /\ \A i \in 1..Len(rx') : Made(rx'[i])
  BY RxRead
<1>2. /\ ack' = [n \in Addresses |-> ack'[n]]
      /\ \A n \in Addresses : Shape(ack'[n]) /\ (ack'[n] # None => Made(ack'[n].frame))
  BY StillMade DEF Shapes
<1>3. /\ air' = [d \in Devices |-> air'[d]]
      /\ \A d \in Devices : Shape(air'[d]) /\ (air'[d] # None => Made(air'[d].frame))
  <2>0. /\ air = [d \in Devices |-> air[d]]
        /\ \A d \in Devices : Shape(air[d]) /\ (air[d] # None => Made(air[d].frame))
    BY StillMade DEF Shapes
  <2>1. CASE air' = air
    BY <2>0, <2>1
  <2>2. ASSUME NEW d \in Devices, NEW t, air' = [air EXCEPT ![d] = t], Shape(t), t # None => Made(t.frame)
        PROVE  /\ air' = [k \in Devices |-> air'[k]]
               /\ \A k \in Devices : Shape(air'[k]) /\ (air'[k] # None => Made(air'[k].frame))
    <3>1. air' = [k \in Devices |-> IF k = d THEN t ELSE air[k]]
      BY <2>0, <2>2
    <3> QED BY <2>0, <2>2, <3>1
  <2> QED BY <2>1, <2>2
<1> QED BY <1>1, <1>2, <1>3, PartsMade

(* A frame on its way out.                                                 *)
LEMMA SendingShape ==
  ASSUME NEW f \in Frames, NEW time
  PROVE  Shape(Sending(f, time)) /\ Sending(f, time).frame = f
BY DEF Shape, Sending

(* Every frame is made of one that was there, except the poll of a new     *)
(* request.                                                                *)
LEMMA FramesMade ==
  ASSUME Shapes, MasterInv, [Next]_vars, ~SendNext
  PROVE  Shapes' /\ \A f : Around(f)' => Made(f)
<1>0. \A r \in NoFrameLeaves : r = rx \/ (rx # <<>> /\ r = Tail(rx))
  BY DEF NoFrameLeaves
<1>1. CASE Millisecond
  BY <1>1, MsAirMade, MsAckMade, MsRxMade, PartsMade
<1>2. CASE SendRetry
  <2> DEFINE f == Frame("poll", awaiting, curId, TRUE)
  <2>1. ack' = ack /\ retryPending /\ Transmit(f, air) /\ (rx' = rx \/ (rx # <<>> /\ rx' = Tail(rx)))
    BY <1>0, <1>2 DEF SendRetry, NoFrame, fieldVars
  <2>2. f \in Frames /\ Again(f)
    <3>1. awaiting \in Addresses /\ curId \in Ids
      BY <2>1 DEF MasterInv, MasterTypes, OneRequest
    <3>2. f \in Frames
      BY <3>1, PollFrame
    <3> QED BY <2>1, <3>2 DEF Again, Asks, Frame
  <2>3. Made(f)
    BY <2>2 DEF Made
  <2> HIDE DEF f
  <2>4. Shape(Sending(f, ShortTx)) /\ Made(Sending(f, ShortTx).frame)
    BY <2>2, <2>3, SendingShape
  <2>5. air' = air \/ (Gateway \in Devices /\ air' = [air EXCEPT ![Gateway] = Sending(f, ShortTx)])
    BY <2>1, WireFacts DEF Transmit
  <2> QED BY <2>1, <2>4, <2>5, SentMade
<1>3. CASE NoWork \/ CrcError \/ AckAccepted \/ AckIgnored \/ StillWaiting \/ Retry \/ GiveUp \/ BackOff
  <2>1. air' = air /\ ack' = ack
    BY <1>3 DEF NoWork, CrcError, AckAccepted, AckIgnored, StillWaiting, Retry, GiveUp, BackOff, fieldVars
  <2>2. rx' = rx \/ (rx # <<>> /\ rx' = Tail(rx))
    BY <1>0, <1>3 DEF NoWork, CrcError, AckAccepted, AckIgnored, StillWaiting, Retry, GiveUp, BackOff, NoFrame, Readable
  <2> QED BY <2>1, <2>2, SentMade
<1>4. ASSUME NEW d \in Devices, ClusterSend(d) PROVE Shapes' /\ \A f : Around(f)' => Made(f)
  <2> DEFINE f == Frame("cluster", d, 0, FALSE)
  <2>1. ack' = ack /\ rx' = rx /\ (air' = air \/ air' = [air EXCEPT ![d] = Sending(f, LongTx)])
    BY <1>4 DEF ClusterSend, fieldVars
  <2>2. f \in Frames /\ Made(f)
    BY OtherFrames DEF Made
  <2> HIDE DEF f
  <2>3. Shape(Sending(f, LongTx)) /\ Made(Sending(f, LongTx).frame)
    BY <2>2, SendingShape
  <2> QED BY <2>1, <2>3, SentMade
<1>5. ASSUME NEW d \in Devices, Noise(d) PROVE Shapes' /\ \A f : Around(f)' => Made(f)
  <2> DEFINE t == [air[d] EXCEPT !.hit = TRUE]
  <2>1. ack' = ack /\ rx' = rx /\ air' = [air EXCEPT ![d] = t] /\ air[d] # None
    BY <1>5 DEF Noise, fieldVars
  <2>2. /\ air[d] = [left |-> air[d].left, frame |-> air[d].frame, hit |-> air[d].hit]
        /\ air[d].frame \in Frames /\ Made(air[d].frame)
    BY <2>1, StillMade DEF Shape
  <2>3. t = [left |-> air[d].left, frame |-> air[d].frame, hit |-> TRUE]
    <3>1. PICK h \in BOOLEAN : h = TRUE
      OBVIOUS
    <3>2. t = [air[d] EXCEPT !.hit = h]
      BY <3>1
    <3> HIDE DEF t
    <3>3. t = [left |-> air[d].left, frame |-> air[d].frame, hit |-> h]
      BY <2>2, <3>2
    <3> QED BY <3>1, <3>3
  <2>4. Shape(t) /\ t.frame = air[d].frame
    BY <2>2, <2>3 DEF Shape
  <2> HIDE DEF t
  <2> QED BY <2>1, <2>2, <2>4, SentMade
<1>6. CASE UNCHANGED vars \/ Stall \/ \E n \in Addresses : SwitchOff(n)
  <2>1. air' = air /\ ack' = ack /\ rx' = rx
    BY <1>6 DEF SwitchOff, Stall, vars, fieldVars
  <2> QED BY <2>1, SentMade
<1> QED BY <1>1, <1>2, <1>3, <1>4, <1>5, <1>6 DEF Next, Loop, Disturb

(* A new request: its poll, and what is left of the earlier ones.          *)
Fresh(f) == f.id = idCounter /\ f.cur /\ Asks(f)
Old(f) == \E g \in Frames : Around(g) /\ f.id = g.id /\ (Asks(f) <=> Asks(g))

(* What is left keeps its id.                                              *)
LEMMA StaleFrame ==
  ASSUME NEW g \in Frames
  PROVE  /\ [g EXCEPT !.cur = FALSE] \in Frames
         /\ [g EXCEPT !.cur = FALSE].id = g.id /\ [g EXCEPT !.cur = FALSE].type = g.type
<1>1. PICK h \in BOOLEAN : h = FALSE
  OBVIOUS
<1>2. [g EXCEPT !.cur = h] \in Frames /\ [g EXCEPT !.cur = h].id = g.id /\ [g EXCEPT !.cur = h].type = g.type
  BY DEF Frames
<1> QED BY <1>1, <1>2

(* So does a transmission of an earlier request.                           *)
LEMMA StaleShape ==
  ASSUME NEW t, Shape(t)
  PROVE  Shape(Stale(t)) /\ (Stale(t) # None => t # None /\ Stale(t).frame = [t.frame EXCEPT !.cur = FALSE])
<1>1. CASE t = None
  BY <1>1 DEF Stale, Shape
<1>2. CASE t # None
  <2> DEFINE g == [t.frame EXCEPT !.cur = FALSE]
  <2>1. t = [left |-> t.left, frame |-> t.frame, hit |-> t.hit] /\ g \in Frames
    BY <1>2, StaleFrame DEF Shape
  <2>2. Stale(t) = [t EXCEPT !.frame = g]
    BY <1>2 DEF Stale
  <2> HIDE DEF g
  <2>3. Shape(Stale(t)) /\ Stale(t).frame = g
    BY <2>1, <2>2 DEF Shape
  <2> QED BY <1>2, <2>3 DEF g
<1> QED BY <1>1, <1>2

(* Such a frame is one of those that were there.                           *)
LEMMA StaleOld ==
  ASSUME Shapes, NEW g, Around(g)
  PROVE  [g EXCEPT !.cur = FALSE] \in Frames /\ Old([g EXCEPT !.cur = FALSE])
<1>1. g \in Frames
  BY AroundFrames
<1> QED BY <1>1, StaleFrame DEF Old, Asks

(* A new request adds one frame, its poll.                                 *)
LEMMA NextMade ==
  ASSUME Shapes, MasterInv, SendNext
  PROVE  Shapes' /\ \A f : Around(f)' => Fresh(f) \/ Old(f)
<1> DEFINE p == Frame("poll", currentNode + 1, idCounter, TRUE)
           sky == [d \in Devices |-> Stale(air[d])]
<1>1. p \in Frames /\ Fresh(p)
  <2>1. currentNode + 1 \in Addresses /\ idCounter \in Ids
    BY RoundOfAddresses DEF MasterInv, MasterTypes
  <2>2. p \in Frames
    BY <2>1, PollFrame
  <2> QED BY <2>2 DEF Fresh, Asks, Frame
<1>2. Transmit(p, sky) /\ ack' = [n \in Addresses |-> Stale(ack[n])]
  BY DEF SendNext
<1> HIDE DEF p
<1>3. \A d \in Devices : Shape(sky[d]) /\ (sky[d] # None => Old(sky[d].frame))
  <2> SUFFICES ASSUME NEW d \in Devices PROVE Shape(Stale(air[d])) /\ (Stale(air[d]) # None => Old(Stale(air[d]).frame))
    OBVIOUS
  <2>1. Shape(air[d]) /\ (air[d] # None => Around(air[d].frame))
    BY DEF Shapes, Around
  <2> QED BY <2>1, StaleShape, StaleOld
<1>4. /\ ack' = [n \in Addresses |-> ack'[n]]
      /\ \A n \in Addresses : Shape(ack'[n]) /\ (ack'[n] # None => Old(ack'[n].frame))
  <2>1. ASSUME NEW n \in Addresses PROVE Shape(Stale(ack[n])) /\ (Stale(ack[n]) # None => Old(Stale(ack[n]).frame))
    <3>1. Shape(ack[n]) /\ (ack[n] # None => Around(ack[n].frame))
      BY DEF Shapes, Around
    <3> QED BY <3>1, StaleShape, StaleOld
  <2> QED BY <1>2, <2>1
<1>5. /\ air' = [d \in Devices |-> air'[d]]
      /\ \A d \in Devices : Shape(air'[d]) /\ (air'[d] # None => Fresh(air'[d].frame) \/ Old(air'[d].frame))
  <2>1. sky = [d \in Devices |-> sky[d]]
    OBVIOUS
  <2> HIDE DEF sky
  <2>2. Shape(Sending(p, ShortTx)) /\ Fresh(Sending(p, ShortTx).frame)
    BY <1>1, SendingShape
  <2>3. air' = sky \/ air' = [sky EXCEPT ![Gateway] = Sending(p, ShortTx)]
    BY <1>2 DEF Transmit
  <2>4. \A d \in Devices : air'[d] = sky[d] \/ air'[d] = Sending(p, ShortTx)
    BY <2>1, <2>3
  <2>5. air' = [d \in Devices |-> air'[d]]
    BY <2>1, <2>3
  <2> QED BY <1>3, <2>2, <2>4, <2>5
<1>6. rx' \in Seq(Frames) /\ \A i \in 1..Len(rx') : Old(rx'[i])
  <2>1. PICK r \in NoFrameLeaves : rx' = [i \in DOMAIN r |-> [r[i] EXCEPT !.cur = FALSE]]
    BY DEF SendNext
  <2>2. r \in Seq(Frames) /\ \A i \in 1..Len(r) : Around(r[i])
    <3>1. rx \in Seq(Frames) /\ \A i \in 1..Len(rx) : Around(rx[i])
      BY DEF Shapes, Around
    <3>2. CASE r = rx
      BY <3>1, <3>2
    <3>3. CASE rx # <<>> /\ r = Tail(rx)
      <4>1. /\ Tail(rx) \in Seq(Frames) /\ Len(Tail(rx)) = Len(rx) - 1 /\ Len(rx) \in Nat
            /\ \A i \in 1..Len(Tail(rx)) : Tail(rx)[i] = rx[i + 1]
        BY <3>1, <3>3
      <4>2. \A i \in 1..Len(Tail(rx)) : i + 1 \in 1..Len(rx)
        BY <4>1
      <4> QED BY <3>1, <3>3, <4>1, <4>2
    <3> QED BY <2>1, <3>2, <3>3 DEF NoFrameLeaves
  <2>3. Len(r) \in Nat /\ DOMAIN r = 1..Len(r)
    BY <2>2
  <2>4. \A i \in 1..Len(r) : [r[i] EXCEPT !.cur = FALSE] \in Frames /\ Old([r[i] EXCEPT !.cur = FALSE])
    BY <2>2, StaleOld
  <2> DEFINE q(i) == [r[i] EXCEPT !.cur = FALSE]
  <2>5. rx' = [i \in 1..Len(r) |-> q(i)] /\ \A i \in 1..Len(r) : q(i) \in Frames /\ Old(q(i))
    BY <2>1, <2>3, <2>4
  <2> HIDE DEF q
  <2>6. rx' \in Seq(Frames) /\ Len(rx') = Len(r) /\ \A i \in 1..Len(r) : rx'[i] = q(i)
    BY <2>3, <2>5
  <2> QED BY <2>5, <2>6
<1>7. Shapes'
  BY <1>4, <1>5, <1>6 DEF Shapes, Shape
<1>8. ASSUME NEW f, Around(f)' PROVE Fresh(f) \/ Old(f)
  BY <1>4, <1>5, <1>6, <1>8 DEF Around
<1> QED BY <1>7, <1>8

-----------------------------------------------------------------------------
(* A frame that is not of the request in progress has another id.          *)
AnswerInv ==
  /\ Shapes /\ online = [n \in Addresses |-> online[n]]
  /\ \A f \in Frames : Around(f) /\ Asks(f) => f.id # 0 /\ (f.cur \/ f.id # curId)

(* At the start nothing is on the line.                                    *)
LEMMA NothingAround == Init => Shapes /\ \A f : ~Around(f)
<1> SUFFICES ASSUME Init PROVE Shapes /\ \A f : ~Around(f)
  OBVIOUS
<1>1. /\ air = [d \in Devices |-> None] /\ ack = [n \in Addresses |-> None] /\ rx = <<>>
  BY DEF Init
<1>2. Shapes
  BY <1>1 DEF Shapes, Shape
<1> QED BY <1>1, <1>2 DEF Around

(* Every step keeps it if a new request takes an id that is not in use.    *)
LEMMA AnswerStep ==
  ASSUME AnswerInv, MasterInv, [Next]_vars, SendNext => Unused(idCounter)
  PROVE  AnswerInv'
<1>0. online' = [n \in Addresses |-> online'[n]]
  <2>1. online' = online \/ \E b : online' = [online EXCEPT ![awaiting] = b]
    BY DEF Next, Loop, Stall, Disturb, Millisecond, ClusterSend, Noise, SwitchOff, NoWork, CrcError, AckAccepted,
           AckIgnored, StillWaiting, Retry, GiveUp, BackOff, SendRetry, SendNext, vars, masterVars
  <2>2. online = [n \in Addresses |-> online[n]]
    BY DEF AnswerInv
  <2> QED BY <2>1, <2>2
<1>1. CASE SendNext
  <2>1. curId' = idCounter /\ idCounter # 0
    BY <1>1 DEF SendNext, MasterInv, MasterTypes
  <2>2. Shapes' /\ \A f : Around(f)' => Fresh(f) \/ Old(f)
    BY <1>1, NextMade DEF AnswerInv
  <2>3. ASSUME NEW f \in Frames, Around(f)', Asks(f) PROVE f.id # 0 /\ (f.cur \/ f.id # curId')
    <3>1. CASE Fresh(f)
      BY <2>1, <3>1 DEF Fresh
    <3>2. CASE Old(f)
      BY <1>1, <2>1, <2>3, <3>2 DEF Old, Unused, AnswerInv
    <3> QED BY <2>2, <2>3, <3>1, <3>2
  <2> QED BY <1>0, <2>2, <2>3 DEF AnswerInv, Asks
<1>2. CASE ~SendNext
  <2>1. curId' \in {curId, 0}
    BY <1>2 DEF Next, Loop, Stall, Disturb, Millisecond, ClusterSend, Noise, SwitchOff, NoWork, CrcError, AckAccepted,
                AckIgnored, StillWaiting, Retry, GiveUp, BackOff, SendRetry, vars, masterVars
  <2>2. Shapes' /\ \A f : Around(f)' => Made(f)
    BY <1>2, FramesMade DEF AnswerInv
  <2>3. ASSUME NEW f \in Frames, Around(f)', Asks(f) PROVE f.id # 0 /\ (f.cur \/ f.id # curId')
    <3>1. CASE Again(f)
      BY <2>1, <3>1 DEF Again, MasterInv, MasterTypes, OneRequest
    <3>2. ASSUME NEW g \in Frames, From(f, g) PROVE f.id # 0 /\ (f.cur \/ f.id # curId')
      BY <2>1, <2>3, <3>2 DEF From, AnswerInv
    <3> QED BY <2>2, <2>3, <3>1, <3>2 DEF Made
  <2> QED BY <1>0, <2>2, <2>3 DEF AnswerInv, Asks
<1> QED BY <1>1, <1>2

(* Only rs485_master_on_ack ends a request with its node online.           *)
LEMMA AcceptedAnswers ==
  ASSUME AnswerInv, MasterInv, Next, waiting, ~waiting', online'[awaiting], ~retryPending'
  PROVE  Head(rx).cur /\ Head(rx).node = awaiting
<1>1. ~GiveUp
  <2> SUFFICES ASSUME GiveUp PROVE FALSE
    OBVIOUS
  <2>1. online' = [online EXCEPT ![awaiting] = FALSE]
    BY DEF GiveUp
  <2>2. awaiting \in Addresses /\ online = [n \in Addresses |-> online[n]]
    BY DEF AnswerInv, MasterInv, MasterTypes, OneRequest
  <2> QED BY <2>1, <2>2
<1>2. AckAccepted
  BY <1>1 DEF Next, Loop, Stall, Disturb, Millisecond, ClusterSend, Noise, SwitchOff, NoWork, CrcError,
         AckIgnored, StillWaiting, Retry, BackOff, SendRetry, SendNext, StartRequest, vars, masterVars
<1>3. rx # <<>> /\ Head(rx).type = "ack" /\ Head(rx).node = awaiting /\ Head(rx).id = curId
  BY <1>2 DEF AckAccepted, Readable, Accepts
<1>4. rx \in Seq(Frames) /\ 1 \in 1..Len(rx) /\ Head(rx) = rx[1]
  BY <1>3 DEF AnswerInv, Shapes
<1>5. Head(rx) \in Frames /\ Around(Head(rx))
  BY <1>4 DEF Around
<1> QED BY <1>3, <1>5 DEF AnswerInv, Asks

(* One step of the property, whatever frames are around.                   *)
LEMMA AnswerAction ==
  AnswerInv /\ MasterInv /\ [Next]_vars =>
    [(waiting /\ ~waiting' /\ online'[awaiting] /\ ~retryPending') =>
       Head(rx).cur /\ Head(rx).node = awaiting]_vars
BY AcceptedAnswers

(* It holds at the start.                                                  *)
LEMMA AnswerInit == Init => AnswerInv
<1> SUFFICES ASSUME Init PROVE AnswerInv
  OBVIOUS
<1>1. online = [n \in Addresses |-> online[n]]
  BY DEF Init
<1> QED BY <1>1, NothingAround DEF AnswerInv

(* rs485_master_on_ack: whatever is late, lost, garbled or sent again, an  *)
(* answer that is accepted was given to the request in progress, as long   *)
(* as no frame outlives the round of the ids: when an id is used for a new *)
(* request, no frame of its last use is left.                              *)
THEOREM IdsTellAnswers == Spec /\ IdsOutliveFrames => AckAnswersRequest
<1>1. AnswerInv /\ MasterInv /\ [Next]_vars /\ [SendNext => Unused(idCounter)]_vars => AnswerInv'
  <2> SUFFICES ASSUME AnswerInv, MasterInv, [Next]_vars, [SendNext => Unused(idCounter)]_vars PROVE AnswerInv'
    OBVIOUS
  <2>1. SendNext => turn # turn'
    BY DEF SendNext, EndTick
  <2>2. UNCHANGED vars => turn' = turn
    BY DEF vars
  <2> QED BY <2>1, <2>2, AnswerStep
<1> QED BY <1>1, AnswerInit, AnswerAction, MasterInvariant, PTL DEF Spec, AckAnswersRequest, IdsOutliveFrames

(* Ids that were given so far.                                             *)
GivenInv == Shapes /\ curId < idCounter /\ \A f \in Frames : Around(f) => f.id < idCounter

(* Until the counter wraps every frame carries an id that was given.       *)
LEMMA GivenStep ==
  ASSUME GivenInv, MasterInv, [Next]_vars, idCounter' >= idCounter
  PROVE  GivenInv'
<1>0. idCounter \in 1..(IdMod - 1) /\ curId \in Nat /\ IdMod \in Nat /\ IdMod > 2
  BY Rs485Assumption DEF MasterInv, MasterTypes, Ids
<1>1. CASE SendNext
  <2>1. curId' = idCounter /\ idCounter' = NextId(idCounter)
    BY <1>1 DEF SendNext
  <2>2. idCounter' = idCounter + 1
    BY <1>0, <2>1 DEF NextId
  <2>3. Shapes' /\ \A f : Around(f)' => Fresh(f) \/ Old(f)
    BY <1>1, NextMade DEF GivenInv
  <2>4. ASSUME NEW f \in Frames, Around(f)' PROVE f.id < idCounter'
    <3>0. f.id \in Nat
      BY <1>0 DEF Frames, Ids
    <3>1. CASE Fresh(f)
      BY <1>0, <2>2, <3>1 DEF Fresh
    <3>2. CASE Old(f)
      BY <1>0, <2>2, <3>0, <3>2 DEF Old, GivenInv
    <3> QED BY <2>3, <2>4, <3>1, <3>2
  <2> QED BY <1>0, <2>1, <2>2, <2>3, <2>4 DEF GivenInv
<1>2. CASE ~SendNext
  <2>1. curId' \in {curId, 0} /\ idCounter' = idCounter
    BY <1>2 DEF Next, Loop, Stall, Disturb, Millisecond, ClusterSend, Noise, SwitchOff, NoWork, CrcError, AckAccepted,
                AckIgnored, StillWaiting, Retry, GiveUp, BackOff, SendRetry, vars, masterVars
  <2>2. Shapes' /\ \A f : Around(f)' => Made(f)
    BY <1>2, FramesMade DEF GivenInv
  <2>3. ASSUME NEW f \in Frames, Around(f)' PROVE f.id < idCounter
    <3>1. CASE Again(f)
      BY <3>1 DEF Again, GivenInv
    <3>2. ASSUME NEW g \in Frames, From(f, g) PROVE f.id < idCounter
      BY <3>2 DEF From, GivenInv
    <3>3. CASE f.id = 0
      BY <1>0, <3>3
    <3> QED BY <2>2, <2>3, <3>1, <3>2, <3>3 DEF Made
  <2> QED BY <1>0, <2>1, <2>2, <2>3 DEF GivenInv
<1> QED BY <1>1, <1>2

(* rs485_master.c: in any installation, with any delays and disturbances,  *)
(* only the answer to the request in progress is accepted until the ids    *)
(* wrap for the first time.                                                *)
THEOREM AnswersUntilWrap == Spec /\ [][idCounter' >= idCounter]_vars => AckAnswersRequest
<1>1. Init => GivenInv
  BY NothingAround DEF Init, GivenInv
<1>2. GivenInv /\ MasterInv /\ [Next]_vars /\ [idCounter' >= idCounter]_vars => GivenInv'
  <2> SUFFICES ASSUME GivenInv, MasterInv, [Next]_vars, [idCounter' >= idCounter]_vars PROVE GivenInv'
    OBVIOUS
  <2>1. idCounter' >= idCounter
    BY Rs485Assumption DEF vars, masterVars, MasterInv, MasterTypes, Ids
  <2> QED BY <2>1, GivenStep
<1>3. GivenInv /\ MasterInv => (SendNext => Unused(idCounter))
  <2> SUFFICES ASSUME GivenInv, MasterInv, NEW f \in Frames, Around(f) PROVE f.id # idCounter
    BY DEF Unused
  <2>1. f.id < idCounter /\ idCounter \in Nat
    BY Rs485Assumption DEF GivenInv, MasterInv, MasterTypes, Ids
  <2> QED BY <2>1
<1>4. GivenInv /\ MasterInv => [SendNext => Unused(idCounter)]_vars
  BY <1>3
<1>5. Spec /\ [][idCounter' >= idCounter]_vars => IdsOutliveFrames
  BY <1>1, <1>2, <1>4, MasterInvariant, PTL DEF Spec, IdsOutliveFrames
<1> QED BY <1>5, IdsTellAnswers, PTL
=============================================================================
