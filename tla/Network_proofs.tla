--------------------------- MODULE Network_proofs ---------------------------
(***************************************************************************)
(* Proofs about the network selection, for every profile, every list of    *)
(* links and any number of upsets, retries and requests.                   *)
(*                                                                         *)
(* Neither invariant is inductive: both speak of a moment at which the     *)
(* queue of events or the tasks are idle.  RouteInv says what a snapshot   *)
(* still held by a task will do to the route; LinkInv says what the events *)
(* still queued will leave published, and that a node whose radio is kept  *)
(* for ESP-NOW starts it before anything else can be marked.               *)
(***************************************************************************)
EXTENDS Network, SequenceTheorems, TLAPS

(* The elements of a sequence; the operations by name.                     *)
Els(s) == {s[i] : i \in DOMAIN s}
Names(s) == {op[1] : op \in Els(s)}

(* What the queue and the lists hold.                                      *)
Signals == {"STA_START", "DISCONNECTED", "GOT_IP", "LOST_IP", "AP_START", "AP_STOP",
            "ETH_UP", "ETH_DOWN"}
Operations ==
  ({"notify", "apply"} \X SUBSET Links) \cup ({"mark", "drive"} \X {"ap", "sta", "trans"})
    \cup ({"retry"} \X Nat)
    \cup ({"connect", "judge", "shut", "shutnow", "initwifi", "reconnect"} \X {""})

Statuses == {"idle", "connecting", "connected", "retrying", "fallback", "error"}

NetTypes ==
  /\ todo \in [Tasks -> Seq(Operations)]
  /\ evq \in Seq(Signals)
  /\ radio \in [ap : BOOLEAN, sta : {"off", "idle", "joining", "ip"}]
  /\ eth \in BOOLEAN /\ link \subseteq Links
  /\ st \in [state : Statuses, retry : Nat]

-----------------------------------------------------------------------------
(* The elements of the sequences the operators build.                      *)
LEMMA ElsFacts ==
  ASSUME NEW S
  PROVE  /\ Els(<<>>) = {}
         /\ \A x : Els(<<x>>) = {x}
         /\ \A x, y : Els(<<x, y>>) = {x, y}
         /\ \A p, q \in Seq(S) : p \o q \in Seq(S) /\ Els(p \o q) = Els(p) \cup Els(q)
         /\ \A p \in Seq(S) : p # <<>> => Els(p) = {Head(p)} \cup Els(Tail(p)) /\ Head(p) \in S /\ Tail(p) \in Seq(S)
         /\ \A p \in Seq(S), x \in S : Els(Append(p, x)) = Els(p) \cup {x}
<1>1. Els(<<>>) = {}
  BY DEF Els
<1>2. ASSUME NEW x PROVE Els(<<x>>) = {x}
  BY DEF Els
<1>3. ASSUME NEW x, NEW y PROVE Els(<<x, y>>) = {x, y}
  <2>1. DOMAIN <<x, y>> = {1, 2}
    OBVIOUS
  <2> QED BY <2>1 DEF Els
<1>4. ASSUME NEW p \in Seq(S), NEW q \in Seq(S) PROVE p \o q \in Seq(S) /\ Els(p \o q) = Els(p) \cup Els(q)
  <2>1. /\ p \o q \in Seq(S) /\ DOMAIN (p \o q) = 1..(Len(p) + Len(q))
        /\ \A i \in 1..Len(p) : (p \o q)[i] = p[i]
        /\ \A i \in 1..Len(q) : (p \o q)[Len(p) + i] = q[i]
    BY SMT
  <2>2. \A i \in DOMAIN (p \o q) : (p \o q)[i] \in Els(p) \cup Els(q)
    <3> TAKE i \in DOMAIN (p \o q)
    <3>1. CASE i <= Len(p)
      BY <2>1, <3>1 DEF Els
    <3>2. CASE i > Len(p)
      <4>1. i - Len(p) \in 1..Len(q) /\ (p \o q)[i] = q[i - Len(p)]
        BY <2>1, <3>2
      <4> QED BY <4>1 DEF Els
    <3> QED BY <2>1, <3>1, <3>2
  <2>3. \A i \in DOMAIN p : p[i] \in Els(p \o q)
    BY <2>1 DEF Els
  <2>4. \A i \in DOMAIN q : q[i] \in Els(p \o q)
    <3> TAKE i \in DOMAIN q
    <3>1. Len(p) + i \in DOMAIN (p \o q) /\ (p \o q)[Len(p) + i] = q[i]
      BY <2>1
    <3> QED BY <3>1 DEF Els
  <2> QED BY <2>1, <2>2, <2>3, <2>4 DEF Els
<1>5. ASSUME NEW p \in Seq(S), p # <<>>
      PROVE  Els(p) = {Head(p)} \cup Els(Tail(p)) /\ Head(p) \in S /\ Tail(p) \in Seq(S)
  <2>1. /\ Head(p) \in S /\ Tail(p) \in Seq(S) /\ Head(p) = p[1] /\ 1 \in DOMAIN p
        /\ DOMAIN Tail(p) = 1..(Len(p) - 1) /\ \A i \in 1..(Len(p) - 1) : Tail(p)[i] = p[i + 1]
    BY <1>5
  <2>2. \A i \in DOMAIN p : i = 1 \/ (i - 1 \in DOMAIN Tail(p) /\ Tail(p)[i - 1] = p[i])
    BY <2>1
  <2>3. \A i \in DOMAIN Tail(p) : i + 1 \in DOMAIN p /\ p[i + 1] = Tail(p)[i]
    BY <2>1
  <2>4. \A x \in Els(p) : x = Head(p) \/ x \in Els(Tail(p))
    <3> TAKE x \in Els(p)
    <3>1. PICK i \in DOMAIN p : x = p[i]
      BY DEF Els
    <3>2. CASE i - 1 \in DOMAIN Tail(p) /\ Tail(p)[i - 1] = p[i]
      BY <3>1, <3>2 DEF Els
    <3> QED BY <2>1, <2>2, <3>1, <3>2
  <2>5. Head(p) \in Els(p)
    BY <2>1 DEF Els
  <2>6. \A x \in Els(Tail(p)) : x \in Els(p)
    BY <2>3 DEF Els
  <2> QED BY <2>1, <2>4, <2>5, <2>6
<1>6. ASSUME NEW p \in Seq(S), NEW x \in S PROVE Els(Append(p, x)) = Els(p) \cup {x}
  <2>1. /\ DOMAIN Append(p, x) = 1..(Len(p) + 1) /\ Append(p, x)[Len(p) + 1] = x
        /\ \A i \in 1..Len(p) : Append(p, x)[i] = p[i]
    OBVIOUS
  <2> QED BY <2>1 DEF Els
<1> QED BY <1>1, <1>2, <1>3, <1>4, <1>5, <1>6

(* What a task is left with, and what the others keep.                     *)
LEMMA ThenFacts ==
  ASSUME NetTypes, NEW t \in Tasks, todo[t] # <<>>, NEW ops \in Seq(Operations), Then(t, ops)
  PROVE  /\ todo' \in [Tasks -> Seq(Operations)]
         /\ \A u \in Tasks \ {t} : todo'[u] = todo[u]
         /\ Names(todo'[t]) = Names(ops) \cup Names(Tail(todo[t]))
         /\ Names(todo[t]) = {Head(todo[t])[1]} \cup Names(Tail(todo[t]))
<1>1. todo[t] \in Seq(Operations)
  BY DEF NetTypes
<1>2. Els(todo[t]) = {Head(todo[t])} \cup Els(Tail(todo[t])) /\ Tail(todo[t]) \in Seq(Operations)
  BY <1>1, ElsFacts
<1>3. /\ ops \o Tail(todo[t]) \in Seq(Operations)
      /\ Els(ops \o Tail(todo[t])) = Els(ops) \cup Els(Tail(todo[t]))
  <2>1. \A p, q \in Seq(Operations) : p \o q \in Seq(Operations) /\ Els(p \o q) = Els(p) \cup Els(q)
    BY ElsFacts
  <2> QED BY ONLY <1>2, <2>1, ops \in Seq(Operations)
<1>4. todo' = [todo EXCEPT ![t] = ops \o Tail(todo[t])]
  BY DEF Then
<1>5. todo'[t] = ops \o Tail(todo[t]) /\ todo' \in [Tasks -> Seq(Operations)]
      /\ \A u \in Tasks \ {t} : todo'[u] = todo[u]
  BY <1>3, <1>4 DEF NetTypes
<1> QED BY <1>2, <1>3, <1>5 DEF Names

(* An idle task that is given a list has that list, and the others keep    *)
(* theirs.                                                                 *)
LEMMA DoesFacts ==
  ASSUME NetTypes, NEW t \in Tasks, Idle(t), NEW ops \in Seq(Operations), Does(t, ops)
  PROVE  /\ todo' \in [Tasks -> Seq(Operations)]
         /\ \A u \in Tasks \ {t} : todo'[u] = todo[u]
         /\ todo'[t] = ops /\ Names(todo[t]) = {}
<1>1. Names(todo[t]) = {}
  BY ElsFacts DEF Idle, Names
<1> QED BY <1>1 DEF NetTypes, Does

(* The operations that are queued, by name.                                *)
LEMMA OpsFacts ==
  /\ <<>> \in Seq(Operations) /\ Names(<<>>) = {}
  /\ Fallback \in Seq(Operations) /\ Names(Fallback) = {"mark", "drive"}
  /\ \A m \in {"sta", "trans"} : StartSta(m) \in Seq(Operations) /\ Names(StartSta(m)) = {"mark", "drive"}
  /\ FromFlash \in Seq(Operations) /\ Names(FromFlash) = {"mark", "drive"}
  /\ \A op \in Operations : << op >> \in Seq(Operations) /\ Names(<< op >>) = {op[1]}
  /\ \A op, oq \in Operations : <<op, oq>> \in Seq(Operations) /\ Names(<<op, oq>>) = {op[1], oq[1]}
<1>1. \A op \in Operations : << op >> \in Seq(Operations) /\ Names(<< op >>) = {op[1]}
  BY ElsFacts DEF Names
<1>2. \A m \in {"ap", "sta", "trans"} : <<"mark", m>> \in Operations /\ <<"drive", m>> \in Operations
  BY DEF Operations
<1>3. \A op, oq \in Operations : <<op, oq>> \in Seq(Operations) /\ Names(<<op, oq>>) = {op[1], oq[1]}
  BY ElsFacts DEF Names
<1>4. Fallback \in Seq(Operations) /\ Names(Fallback) = {"mark", "drive"}
  BY <1>2, <1>3 DEF Fallback
<1>5. \A m \in {"sta", "trans"} : StartSta(m) \in Seq(Operations) /\ Names(StartSta(m)) = {"mark", "drive"}
  BY <1>2, <1>3 DEF StartSta
<1>6. <<>> \in Seq(Operations) /\ Names(<<>>) = {}
  BY ElsFacts DEF Names
<1> QED BY <1>1, <1>3, <1>4, <1>5, <1>6 DEF FromFlash

(* The argument of an operation is of the kind its name asks for.          *)
LEMMA ArgFacts ==
  ASSUME NetTypes, NEW t \in Tasks, NEW name, Now(t, name)
  PROVE  /\ todo[t] # <<>> /\ Head(todo[t])[1] = name
         /\ name \in {"mark", "drive"} => Arg(t) \in {"ap", "sta", "trans"}
         /\ name \in {"notify", "apply"} => Arg(t) \subseteq Links
         /\ name = "retry" => Arg(t) \in Nat
<1>1. todo[t] # <<>> /\ Head(todo[t])[1] = name
  BY DEF Now
<1>2. Head(todo[t]) \in Operations
  BY <1>1, ElsFacts DEF NetTypes
<1> QED BY <1>1, <1>2 DEF Operations, Arg

(* What stopping the radio posts.                                          *)
LEMMA StoppedFacts ==
  ASSUME NetTypes
  PROVE  /\ Stopped \in Seq(Signals) /\ Els(Stopped) \subseteq {"DISCONNECTED", "AP_STOP"}
         /\ radio.sta = "ip" => "DISCONNECTED" \in Els(Stopped)
         /\ radio.ap => "AP_STOP" \in Els(Stopped)
<1>1. <<>> \in Seq(Signals) /\ Els(<<>>) = {} /\ \A x \in Signals : <<x>> \in Seq(Signals) /\ Els(<<x>>) = {x}
  BY ElsFacts
<1>2. "DISCONNECTED" \in Signals /\ "AP_STOP" \in Signals
  BY DEF Signals
<1>3. PICK p \in Seq(Signals) : p = Left /\ Els(p) = (IF radio.sta \in {"joining", "ip"} THEN {"DISCONNECTED"} ELSE {})
  BY <1>1, <1>2 DEF Left
<1>4. PICK q \in Seq(Signals) : q = (IF radio.ap THEN <<"AP_STOP">> ELSE <<>>) /\ Els(q) = (IF radio.ap THEN {"AP_STOP"} ELSE {})
  BY <1>1, <1>2
<1>5. p \o q \in Seq(Signals) /\ Els(p \o q) = Els(p) \cup Els(q)
  BY ElsFacts
<1>6. Stopped = p \o q
  BY <1>3, <1>4 DEF Stopped
<1> QED BY <1>3, <1>4, <1>5, <1>6

(* The queue of events grows by what a step posts.                         *)
LEMMA QueueGrows ==
  ASSUME NetTypes, NEW s \in Seq(Signals)
  PROVE  /\ evq \o s \in Seq(Signals)
         /\ evq \o <<>> = evq
         /\ \A e \in Signals : Append(evq, e) = evq \o <<e>> /\ <<e>> \in Seq(Signals) /\ Append(evq, e) \in Seq(Signals)
<1>0. evq \in Seq(Signals)
  BY DEF NetTypes
<1>1. evq \o s \in Seq(Signals)
  BY <1>0, ConcatProperties
<1>2. evq \o <<>> = evq
  BY <1>0, ConcatEmptySeq
<1>3. ASSUME NEW e \in Signals
      PROVE  Append(evq, e) = evq \o <<e>> /\ <<e>> \in Seq(Signals) /\ Append(evq, e) \in Seq(Signals)
  <2>1. <<e>> \in Seq(Signals) /\ Append(evq, e) \in Seq(Signals)
    BY <1>0
  <2>2. Append(evq, e) = evq \o <<e>>
    BY <1>0, AppendIsConcat
  <2> QED BY <2>1, <2>2
<1> QED BY <1>1, <1>2, <1>3

(* What a step of a task posts.                                            *)
Posts ==
  \E s \in Seq(Signals) :
    /\ evq' = evq \o s
    /\ Els(s) \cap {"ETH_UP", "ETH_DOWN", "GOT_IP"} = {}
    /\ "AP_START" \in Els(s) => radio'.ap
    /\ radio.ap => radio'.ap \/ "AP_STOP" \in Els(s)
    /\ radio.sta = "ip" => radio'.sta = "ip" \/ "DISCONNECTED" \in Els(s)

(* A step that takes no link down need not post anything.                  *)
LEMMA PostsNothing ==
  ASSUME NetTypes, evq' = evq,
         radio.ap => radio'.ap, radio.sta = "ip" => radio'.sta = "ip"
  PROVE  Posts
<1>1. <<>> \in Seq(Signals) /\ Els(<<>>) = {} /\ evq \o <<>> = evq
  BY ElsFacts, QueueGrows
<1> QED BY <1>1 DEF Posts

(* A call to connect leaves a station that is off or has its address alone. *)
LEMMA JoinsFacts ==
  ASSUME NetTypes, NEW sta, NEW old, Joins(sta, old)
  PROVE  sta \in {radio.sta, "joining"} /\ (radio.sta \in {"off", "ip"} => sta = radio.sta)
<1> QED BY DEF Joins

(* What starting the access point or the station posts.                    *)
LEMMA DrivePosts ==
  ASSUME NetTypes, NEW t \in Tasks, Drive(t) \/ DriveFails(t)
  PROVE  /\ Posts /\ evq' \in Seq(Signals)
         /\ radio' \in [ap : BOOLEAN, sta : {"off", "idle", "joining", "ip"}]
<1>0. Arg(t) \in {"ap", "sta", "trans"}
  BY ArgFacts DEF Drive, DriveFails
<1>1. PICK p \in Seq(Signals) : /\ p = Stopped /\ Els(p) \subseteq {"DISCONNECTED", "AP_STOP"}
                                /\ radio.sta = "ip" => "DISCONNECTED" \in Els(p)
                                /\ radio.ap => "AP_STOP" \in Els(p)
  BY StoppedFacts
<1>2. /\ <<"AP_START", "STA_START">> \in Seq(Signals) /\ Els(<<"AP_START", "STA_START">>) = {"AP_START", "STA_START"}
      /\ <<"STA_START">> \in Seq(Signals) /\ Els(<<"STA_START">>) = {"STA_START"}
      /\ <<"AP_START">> \in Seq(Signals) /\ Els(<<"AP_START">>) = {"AP_START"}
      /\ <<>> \in Seq(Signals) /\ Els(<<>>) = {}
  <2>1. {"AP_START", "STA_START"} \subseteq Signals
    BY DEF Signals
  <2> QED BY <2>1, ElsFacts
<1>3. evq \in Seq(Signals) /\ radio \in [ap : BOOLEAN, sta : {"off", "idle", "joining", "ip"}]
  BY DEF NetTypes
<1>4. \A q \in Seq(Signals) : /\ p \o q \in Seq(Signals) /\ Els(p \o q) = Els(p) \cup Els(q)
                              /\ (evq \o p) \o q = evq \o (p \o q)
                              /\ evq \o q \in Seq(Signals) /\ evq \o (p \o q) \in Seq(Signals)
  BY <1>3, ElsFacts, ConcatAssociative
<1>5. CASE Drive(t) /\ Arg(t) = "ap"
  <2>1. radio' = [ap |-> TRUE, sta |-> "idle"] /\ evq' = evq \o (p \o <<"AP_START", "STA_START">>)
    BY <1>1, <1>2, <1>4, <1>5 DEF Drive
  <2>2. Els(p \o <<"AP_START", "STA_START">>) = Els(p) \cup {"AP_START", "STA_START"}
        /\ p \o <<"AP_START", "STA_START">> \in Seq(Signals)
        /\ evq \o (p \o <<"AP_START", "STA_START">>) \in Seq(Signals)
    BY <1>2, <1>4
  <2> QED BY <1>1, <2>1, <2>2 DEF Posts
<1>6. CASE Drive(t) /\ Arg(t) = "sta"
  <2>1. radio' = [ap |-> FALSE, sta |-> "idle"] /\ evq' = evq \o (p \o <<"STA_START">>)
    BY <1>1, <1>2, <1>4, <1>6 DEF Drive
  <2>2. Els(p \o <<"STA_START">>) = Els(p) \cup {"STA_START"} /\ p \o <<"STA_START">> \in Seq(Signals)
        /\ evq \o (p \o <<"STA_START">>) \in Seq(Signals)
    BY <1>2, <1>4
  <2> QED BY <1>1, <2>1, <2>2 DEF Posts
<1>7. CASE Drive(t) /\ Arg(t) = "trans"
  <2>1. PICK sta \in {radio.sta, "joining"} :
           /\ radio' = [ap |-> TRUE, sta |-> sta] /\ (radio.sta \in {"off", "ip"} => sta = radio.sta)
           /\ evq' = evq \o (IF radio.ap THEN <<>> ELSE <<"AP_START">>)
    <3> DEFINE old == (excuse \ {"unseen"}) \cup Crossing(t)
    <3> HIDE DEF old
    <3>1. PICK sta \in {radio.sta, "joining"} : radio' = [ap |-> TRUE, sta |-> sta] /\ Joins(sta, old)
      BY <1>7 DEF Drive, old
    <3>2. evq' = evq \o (IF radio.ap THEN <<>> ELSE <<"AP_START">>)
      BY <1>7 DEF Drive
    <3> QED BY <3>1, <3>2, JoinsFacts
  <2>2. PICK q \in Seq(Signals) : q = (IF radio.ap THEN <<>> ELSE <<"AP_START">>) /\ Els(q) \subseteq {"AP_START"}
    BY <1>2
  <2> QED BY <1>3, <1>4, <2>1, <2>2 DEF Posts
<1>8. CASE DriveFails(t) /\ Arg(t) = "trans"
  BY <1>3, <1>8, PostsNothing DEF DriveFails
<1>9. CASE DriveFails(t) /\ Arg(t) # "trans"
  <2>1. radio' = [ap |-> FALSE, sta |-> "off"] /\ evq' = evq \o p
    BY <1>1, <1>9 DEF DriveFails
  <2> QED BY <1>1, <1>4, <2>1 DEF Posts
<1> QED BY <1>0, <1>5, <1>6, <1>7, <1>8, <1>9

(* Every operation of a task keeps the types.                              *)
LEMMA TaskTypes ==
  ASSUME NetTypes, NEW t \in Tasks, Step(t)
  PROVE  NetTypes'
<1> USE OpsFacts
<1>1. CASE Notify(t) \/ ApplyRead(t)
  <2>1. todo[t] # <<>> /\ Then(t, <<>>)
    BY <1>1, ArgFacts DEF Notify, ApplyRead
  <2>2. todo' \in [Tasks -> Seq(Operations)]
    BY <2>1, ThenFacts
  <2> QED BY <1>1, <2>2 DEF NetTypes, Notify, ApplyRead, wifi, driver
<1>2. CASE Mark(t)
  <2>1. todo[t] # <<>> /\ Arg(t) \in {"ap", "sta", "trans"}
    BY <1>2, ArgFacts DEF Mark
  <2>2. PICK up \in SUBSET Links :
           /\ up = link \ (IF Arg(t) = "ap" THEN {"STA"} ELSE {"STA", "AP"}) /\ link' = up
           /\ Then(t, IF News(link, up) THEN << <<"notify", up>> >> ELSE <<>>)
    BY <1>2 DEF Mark, NetTypes
  <2>3. << <<"notify", up>> >> \in Seq(Operations)
    BY DEF Operations
  <2>4. todo' \in [Tasks -> Seq(Operations)]
    BY <2>1, <2>2, <2>3, ThenFacts
  <2>5. st' \in [state : Statuses, retry : Nat]
    BY <1>2 DEF Mark, Statuses
  <2> QED BY <1>2, <2>2, <2>4, <2>5 DEF NetTypes, Mark, driver
<1>3. CASE Drive(t) \/ DriveFails(t)
  <2>1. todo[t] # <<>>
    BY <1>3, ArgFacts DEF Drive, DriveFails
  <2>2. PICK ops \in {<<>>, Fallback} : Then(t, ops)
    BY <1>3 DEF Drive, DriveFails
  <2>3. todo' \in [Tasks -> Seq(Operations)]
    BY <2>1, <2>2, ThenFacts
  <2>4. st' \in [state : Statuses, retry : Nat]
    BY <1>3 DEF NetTypes, Drive, DriveFails, Statuses
  <2>5. evq' \in Seq(Signals) /\ radio' \in [ap : BOOLEAN, sta : {"off", "idle", "joining", "ip"}]
    BY <1>3, DrivePosts
  <2> QED BY <1>3, <2>3, <2>4, <2>5 DEF NetTypes, Drive, DriveFails, ready
<1>4. CASE Connect(t)
  <2>1. todo[t] # <<>> /\ Then(t, <<>>)
    BY <1>4, ArgFacts DEF Connect
  <2>2. todo' \in [Tasks -> Seq(Operations)]
    BY <2>1, ThenFacts
  <2>3. radio' \in [ap : BOOLEAN, sta : {"off", "idle", "joining", "ip"}]
    BY <1>4 DEF NetTypes, Connect
  <2> QED BY <1>4, <2>2, <2>3 DEF NetTypes, Connect, wifi, ready
<1>5. CASE Judge(t)
  <2>1. todo[t] # <<>> /\ st.retry + 1 \in Nat
    BY <1>5, ArgFacts DEF Judge, NetTypes
  <2>2. << <<"retry", st.retry + 1>> >> \in Seq(Operations)
    BY <2>1 DEF Operations
  <2>3. PICK ops \in {<<>>, Fallback, << <<"retry", st.retry + 1>> >>} : Then(t, ops)
    BY <1>5 DEF Judge
  <2>4. todo' \in [Tasks -> Seq(Operations)]
    BY <2>1, <2>2, <2>3, ThenFacts
  <2> QED BY <1>5, <2>4 DEF NetTypes, Judge, wifi, driver, ready
<1>6. CASE Retry(t)
  <2>1. todo[t] # <<>> /\ Then(t, << <<"connect", "">> >>) /\ Arg(t) \in Nat
    BY <1>6, ArgFacts DEF Retry
  <2>2. << <<"connect", "">> >> \in Seq(Operations)
    BY DEF Operations
  <2>3. todo' \in [Tasks -> Seq(Operations)]
    BY <2>1, <2>2, ThenFacts
  <2>4. st' \in [state : Statuses, retry : Nat]
    BY <1>6, <2>1 DEF Retry, Statuses
  <2> QED BY <1>6, <2>3, <2>4 DEF NetTypes, Retry, driver, ready
<1>7. CASE Shut(t)
  <2>1. todo[t] # <<>>
    BY <1>7, ArgFacts DEF Shut
  <2>2. << <<"shutnow", "">> >> \in Seq(Operations)
    BY DEF Operations
  <2>3. PICK ops \in {<<>>, << <<"shutnow", "">> >>} : Then(t, ops)
    BY <1>7 DEF Shut
  <2>4. todo' \in [Tasks -> Seq(Operations)]
    BY <2>1, <2>2, <2>3, ThenFacts
  <2> QED BY <1>7, <2>4 DEF NetTypes, Shut, wifi, driver, ready
<1>8. CASE ShutNow(t)
  <2>1. todo[t] # <<>> /\ Then(t, <<>>)
    BY <1>8, ArgFacts DEF ShutNow
  <2>2. todo' \in [Tasks -> Seq(Operations)]
    BY <2>1, ThenFacts
  <2>3. radio' \in [ap : BOOLEAN, sta : {"off", "idle", "joining", "ip"}]
    BY <1>8 DEF NetTypes, ShutNow
  <2>4. evq' \in Seq(Signals)
    BY <1>8 DEF NetTypes, ShutNow, Signals
  <2> QED BY <1>8, <2>2, <2>3, <2>4 DEF NetTypes, ShutNow, ready
<1>9. CASE InitWifi(t)
  <2>1. todo[t] # <<>>
    BY <1>9, ArgFacts DEF InitWifi
  <2>2. PICK ops \in {<<>>, FromFlash} : Then(t, ops)
    BY <1>9 DEF InitWifi
  <2>3. todo' \in [Tasks -> Seq(Operations)]
    BY <2>1, <2>2, ThenFacts
  <2>4. radio' \in [ap : BOOLEAN, sta : {"off", "idle", "joining", "ip"}]
    <3>1. radio' = radio \/ radio' = [ap |-> TRUE, sta |-> "idle"] \/ radio' = [ap |-> FALSE, sta |-> "idle"]
      BY <1>9 DEF InitWifi, ready
    <3>2. \A b \in BOOLEAN : [ap |-> b, sta |-> "idle"] \in [ap : BOOLEAN, sta : {"off", "idle", "joining", "ip"}]
      OBVIOUS
    <3>3. radio \in [ap : BOOLEAN, sta : {"off", "idle", "joining", "ip"}]
      BY DEF NetTypes
    <3> QED BY ONLY <3>1, <3>2, <3>3
  <2>5. evq' \in Seq(Signals)
    <3>1. evq' = evq \/ evq' = evq \o <<"STA_START", "AP_START">> \/ evq' = Append(evq, "STA_START")
      BY <1>9 DEF InitWifi, ready
    <3>2. evq \in Seq(Signals) /\ "STA_START" \in Signals /\ "AP_START" \in Signals
      BY DEF NetTypes, Signals
    <3>3. <<"STA_START", "AP_START">> \in Seq(Signals)
      BY <3>2
    <3> QED BY <3>1, <3>2, <3>3, QueueGrows
  <2>6. link' \subseteq Links
    BY <1>9 DEF NetTypes, InitWifi, Publish, ready, Links
  <2> QED BY <1>9, <2>3, <2>4, <2>5, <2>6 DEF NetTypes, InitWifi
<1>10. CASE Reconnect(t)
  <2>1. todo[t] # <<>> /\ Then(t, FromFlash)
    BY <1>10, ArgFacts DEF Reconnect
  <2>2. todo' \in [Tasks -> Seq(Operations)]
    BY <2>1, ThenFacts
  <2> QED BY <1>10, <2>2 DEF NetTypes, Reconnect, wifi, driver, ready
<1> QED BY <1>1, <1>2, <1>3, <1>4, <1>5, <1>6, <1>7, <1>8, <1>9, <1>10 DEF Step

(* The event at the head of the queue.                                     *)
LEMMA EventFacts ==
  ASSUME NetTypes, NEW e, Event(e)
  PROVE  /\ evq # <<>> /\ Head(evq) = e /\ evq' = Tail(evq) /\ evq' \in Seq(Signals)
         /\ Idle("event") /\ UNCHANGED <<prof, inited, target, radio, eth>>
<1>1. evq # <<>> /\ Head(evq) = e /\ evq' = Tail(evq) /\ Idle("event") /\ UNCHANGED <<prof, inited, target, radio, eth>>
  BY DEF Event, driver
<1> QED BY <1>1, ElsFacts DEF NetTypes

(* Handling an event keeps the types.                                      *)
LEMMA HandleTypes ==
  ASSUME NetTypes, Handle
  PROVE  /\ NetTypes'
         /\ Idle("event") /\ UNCHANGED <<prof, inited, target, radio, eth>>
         /\ todo' = todo \/ \E ops \in {<<>>, << <<"connect", "">> >>, << <<"judge", "">> >>} : Does("event", ops)
<1>1. evq' \in Seq(Signals) /\ Idle("event") /\ UNCHANGED <<prof, inited, target, radio, eth>>
  BY EventFacts DEF Handle, OnStaStart, OnDisconnected, OnGotIp, OnLostIp, OnAp, OnEthernet
<1>2. todo' = todo \/ \E ops \in {<<>>, << <<"connect", "">> >>, << <<"judge", "">> >>} : Does("event", ops)
  BY DEF Handle, OnStaStart, OnDisconnected, OnGotIp, OnLostIp, OnAp, OnEthernet
<1>3. link' \subseteq Links
  BY DEF NetTypes, Handle, OnStaStart, OnDisconnected, OnGotIp, OnLostIp, OnAp, OnEthernet, Publish, ready, Links
<1>4. st' \in [state : Statuses, retry : Nat]
  <2>1. st' = st \/ st' = [state |-> "connected", retry |-> 0]
    BY DEF Handle, OnStaStart, OnDisconnected, OnGotIp, OnLostIp, OnAp, OnEthernet
  <2> QED BY <2>1 DEF NetTypes, Statuses
<1>5. todo' \in [Tasks -> Seq(Operations)]
  <2>1. <<"connect", "">> \in Operations /\ <<"judge", "">> \in Operations /\ "event" \in Tasks
    BY DEF Operations, Tasks
  <2>2. \A ops \in {<<>>, << <<"connect", "">> >>, << <<"judge", "">> >>} : ops \in Seq(Operations)
    BY <2>1, OpsFacts
  <2>3. CASE todo' = todo
    BY <2>3 DEF NetTypes
  <2>4. ASSUME NEW ops \in {<<>>, << <<"connect", "">> >>, << <<"judge", "">> >>}, Does("event", ops)
        PROVE  todo' \in [Tasks -> Seq(Operations)]
    BY <1>1, <2>1, <2>2, <2>4, DoesFacts
  <2> QED BY <1>2, <2>3, <2>4
<1> QED BY <1>1, <1>2, <1>3, <1>4, <1>5 DEF NetTypes

(* What the web server, the timer and the auxiliary task start.            *)
Starts == {<<>>} \cup {StartSta("trans"), << <<"shut", "">> >>, << <<"apply", link>> >>, << <<"initwifi", "">> >>,
                       << <<"initwifi", "">>, <<"reconnect", "">> >>, << <<"initwifi", "">> >> \o Fallback}

(* What is started is a list of operations.                                *)
LEMMA StartsFacts ==
  ASSUME NetTypes
  PROVE  \A ops \in Starts : /\ ops \in Seq(Operations) /\ "shutnow" \notin Names(ops)
<1>1. /\ <<"shut", "">> \in Operations /\ <<"initwifi", "">> \in Operations /\ <<"reconnect", "">> \in Operations
      /\ <<"apply", link>> \in Operations
  BY DEF Operations, NetTypes
<1>2. /\ << <<"shut", "">> >> \in Seq(Operations) /\ Names(<< <<"shut", "">> >>) = {"shut"}
      /\ << <<"apply", link>> >> \in Seq(Operations) /\ Names(<< <<"apply", link>> >>) = {"apply"}
      /\ << <<"initwifi", "">> >> \in Seq(Operations) /\ Names(<< <<"initwifi", "">> >>) = {"initwifi"}
  BY <1>1, OpsFacts
<1>3. /\ << <<"initwifi", "">>, <<"reconnect", "">> >> \in Seq(Operations)
      /\ Names(<< <<"initwifi", "">>, <<"reconnect", "">> >>) = {"initwifi", "reconnect"}
  BY <1>1, OpsFacts
<1>4. /\ << <<"initwifi", "">> >> \o Fallback \in Seq(Operations)
      /\ Names(<< <<"initwifi", "">> >> \o Fallback) = {"initwifi", "mark", "drive"}
  <2>1. \A p, q \in Seq(Operations) : p \o q \in Seq(Operations) /\ Els(p \o q) = Els(p) \cup Els(q)
    BY ElsFacts
  <2>2. PICK p \in Seq(Operations) : p = << <<"initwifi", "">> >> /\ Names(p) = {"initwifi"}
    BY <1>2
  <2>3. PICK q \in Seq(Operations) : q = Fallback /\ Names(q) = {"mark", "drive"}
    BY OpsFacts
  <2>4. p \o q \in Seq(Operations) /\ Names(p \o q) = Names(p) \cup Names(q)
    BY <2>1 DEF Names
  <2> QED BY <2>2, <2>3, <2>4
<1>5. /\ <<>> \in Seq(Operations) /\ Names(<<>>) = {}
      /\ StartSta("trans") \in Seq(Operations) /\ Names(StartSta("trans")) = {"mark", "drive"}
  BY OpsFacts
<1> DEFINE Good(ops) == ops \in Seq(Operations) /\ "shutnow" \notin Names(ops)
<1>6. Good(<<>>) /\ Good(StartSta("trans"))
  BY <1>5
<1>7. Good(<< <<"shut", "">> >>) /\ Good(<< <<"apply", link>> >>) /\ Good(<< <<"initwifi", "">> >>)
  BY <1>2
<1>8. Good(<< <<"initwifi", "">>, <<"reconnect", "">> >>) /\ Good(<< <<"initwifi", "">> >> \o Fallback)
  BY <1>3, <1>4
<1> HIDE DEF Good
<1>9. \A ops \in Starts : Good(ops)
  BY <1>6, <1>7, <1>8, Zenon DEF Starts
<1> QED BY <1>9 DEF Good

(* The steps of the tasks that are not about an event, and what they leave *)
(* alone.                                                                  *)
Begins == Save \/ Confirm \/ Recover \/ GraceOver \/ StartPoll \/ PolicyPoll

(* Starting a list of operations keeps the types.                          *)
LEMMA BeginsTypes ==
  ASSUME NetTypes, Begins
  PROVE  /\ NetTypes'
         /\ UNCHANGED <<prof, target, radio, eth, evq, link, route, late>>
         /\ todo' = todo \/ \E t \in Tasks, ops \in Starts : Idle(t) /\ Does(t, ops)
<1>1. UNCHANGED <<prof, target, radio, eth, evq, link, route, late, st>>
  BY DEF Begins, Save, Confirm, Recover, GraceOver, StartPoll, PolicyPoll, Request, driver, ready, wifi
<1>2. todo' = todo \/ \E t \in Tasks, ops \in Starts : Idle(t) /\ Does(t, ops)
  BY DEF Begins, Save, Confirm, Recover, GraceOver, StartPoll, PolicyPoll, Request, Starts, Tasks
<1>3. todo' \in [Tasks -> Seq(Operations)]
  BY <1>2, DoesFacts, StartsFacts DEF NetTypes
<1> QED BY <1>1, <1>2, <1>3 DEF NetTypes

(* The driver.                                                             *)
Driver == JoinEnds \/ Drop \/ LoseIp \/ Cable

(* A step of the driver keeps the types.                                   *)
LEMMA DriverTypes ==
  ASSUME NetTypes, Driver
  PROVE  /\ NetTypes'
         /\ UNCHANGED <<prof, inited, target, todo, link, pend, started, route, late>>
<1>1. UNCHANGED <<prof, inited, target, st, todo, link, pend, started, route, late>>
  BY DEF Driver, JoinEnds, Drop, LoseIp, Cable, OnlyDriver, wifi, ready
<1>2. evq' \in Seq(Signals)
  <2>1. \E e \in Signals : evq' = Append(evq, e)
    BY DEF Driver, JoinEnds, Drop, LoseIp, Cable, Post, Signals
  <2> QED BY <2>1 DEF NetTypes
<1>3. radio' \in [ap : BOOLEAN, sta : {"off", "idle", "joining", "ip"}] /\ eth' \in BOOLEAN
  BY DEF NetTypes, Driver, JoinEnds, Drop, LoseIp, Cable
<1> QED BY <1>1, <1>2, <1>3 DEF NetTypes

(* What the auxiliary task finds to do after a start.                      *)
LEMMA BootTypes ==
  ASSUME NEW p
  PROVE  /\ [t \in Tasks |-> IF t = "aux" THEN AtBoot(p) ELSE <<>>] \in [Tasks -> Seq(Operations)]
         /\ Names(AtBoot(p)) \subseteq {"initwifi"} /\ Names(<<>>) = {}
<1>1. <<"initwifi", "">> \in Operations
  BY DEF Operations
<1>2. AtBoot(p) \in Seq(Operations) /\ Names(AtBoot(p)) \subseteq {"initwifi"}
  BY <1>1, OpsFacts DEF AtBoot
<1> QED BY <1>2, OpsFacts

(* Every step keeps the types.                                             *)
LEMMA NetTypesStep == NetTypes /\ [Next]_vars => NetTypes'
<1> SUFFICES ASSUME NetTypes, [Next]_vars PROVE NetTypes'
  OBVIOUS
<1>1. CASE PowerCut
  <2>1. todo' \in [Tasks -> Seq(Operations)]
    BY <1>1, BootTypes DEF PowerCut
  <2>2. evq' \in Seq(Signals)
    <3>1. <<>> \in Seq(Signals) /\ <<"ETH_UP">> \in Seq(Signals)
      BY DEF Signals
    <3> QED BY <1>1, <3>1 DEF PowerCut
  <2>3. eth' \in BOOLEAN /\ link' \subseteq Links /\ st' \in [state : Statuses, retry : Nat]
    BY <1>1 DEF PowerCut, Plugged, Statuses
  <2>4. radio' \in [ap : BOOLEAN, sta : {"off", "idle", "joining", "ip"}]
    BY <1>1 DEF PowerCut
  <2> QED BY <2>1, <2>2, <2>3, <2>4 DEF NetTypes
<1>2. CASE UNCHANGED vars
  BY <1>2 DEF vars, NetTypes, wifi, driver, ready
<1> QED BY <1>1, <1>2, TaskTypes, HandleTypes, BeginsTypes, DriverTypes DEF Next, Begins, Driver

(* The types hold at the start.                                            *)
LEMMA NetTypesInit == Init => NetTypes
<1> SUFFICES ASSUME Init PROVE NetTypes
  OBVIOUS
<1>1. todo \in [Tasks -> Seq(Operations)]
  BY BootTypes DEF Init
<1>2. evq \in Seq(Signals)
  <2>1. <<>> \in Seq(Signals) /\ <<"ETH_UP">> \in Seq(Signals)
    BY DEF Signals
  <2> QED BY <2>1 DEF Init
<1>3. eth \in BOOLEAN /\ link \subseteq Links /\ st \in [state : Statuses, retry : Nat]
  BY DEF Init, Plugged, Statuses
<1>4. radio \in [ap : BOOLEAN, sta : {"off", "idle", "joining", "ip"}]
  BY DEF Init
<1> QED BY <1>1, <1>2, <1>3, <1>4 DEF NetTypes

-----------------------------------------------------------------------------
(***************************************************************************)
(* The route.  A task that has taken a snapshot of the links will tell it  *)
(* or apply it; when none has, and the last one told was the current one,  *)
(* the route is the best for the links published.                          *)
(***************************************************************************)
Tells == {"notify", "apply"}
NoneTaken == \A t \in Tasks : Names(todo[t]) \cap Tells = {}
RouteInv == started /\ ~late /\ NoneTaken => route = Best(link)

(* ESP-NOW is always allowed, so there is always a route to apply.         *)
LEMMA AppliedIsBest == \A up : Applied(up) = Best(up)
<1>1. Enabled("ESPNOW")
  BY DEF Enabled
<1>2. \A up : Best(up) # "none"
  BY <1>1 DEF Best
<1> QED BY <1>2 DEF Applied

(* An operation that is not the telling of a snapshot takes none away: if  *)
(* none is held afterwards, none was held before.                          *)
LEMMA ThenTakes ==
  ASSUME NetTypes, NEW t \in Tasks, NEW name, Now(t, name), name \notin Tells,
         NEW ops \in Seq(Operations), Then(t, ops), NoneTaken'
  PROVE  NoneTaken
<1>1. todo[t] # <<>> /\ Head(todo[t])[1] = name
  BY DEF Now
<1>2. /\ \A u \in Tasks \ {t} : todo'[u] = todo[u]
      /\ Names(todo'[t]) = Names(ops) \cup Names(Tail(todo[t]))
      /\ Names(todo[t]) = {name} \cup Names(Tail(todo[t]))
  BY <1>1, ThenFacts
<1>3. Names(todo[t]) \cap Tells = {}
  BY <1>2 DEF NoneTaken
<1> QED BY <1>2, <1>3 DEF NoneTaken

(* The same of an idle task that is given a list.                          *)
LEMMA DoesTakes ==
  ASSUME NetTypes, NEW t \in Tasks, Idle(t), NEW ops \in Seq(Operations), Does(t, ops), NoneTaken'
  PROVE  NoneTaken
<1>1. Names(todo[t]) = {} /\ \A u \in Tasks \ {t} : todo'[u] = todo[u]
  BY DoesFacts
<1> QED BY <1>1 DEF NoneTaken

(* A step that changes neither the route nor the links keeps RouteInv.     *)
LEMMA RouteKept ==
  ASSUME RouteInv, UNCHANGED <<prof, started, late, route, link>>, NoneTaken' => NoneTaken
  PROVE  RouteInv'
<1>1. Best(link)' = Best(link)
  BY DEF Best, Enabled
<1> QED BY <1>1 DEF RouteInv

(* A task that publishes the links and applies the route itself keeps      *)
(* RouteInv.                                                               *)
LEMMA RoutePublished ==
  ASSUME RouteInv, prof' = prof, NEW up, Publish(up), NoneTaken' => NoneTaken
  PROVE  RouteInv'
<1>1. CASE link = up
  BY <1>1, RouteKept DEF Publish, News
<1>2. CASE link # up
  <2>1. link' = up /\ started' = started /\ (started => route' = Applied(up))
    BY <1>2 DEF Publish, News, Told
  <2>2. Best(link)' = Best(up)
    BY <2>1 DEF Best, Enabled
  <2> QED BY <2>1, <2>2, AppliedIsBest DEF RouteInv
<1> QED BY <1>1, <1>2

(* Telling or applying a snapshot: late records whether it is still        *)
(* current.                                                                *)
LEMMA RouteTold ==
  ASSUME NEW t \in Tasks, Notify(t) \/ ApplyRead(t)
  PROVE  RouteInv'
<1>1. prof' = prof /\ link' = link /\ late' = (Arg(t) # link) /\ (started' => route' = Applied(Arg(t)))
  BY DEF Notify, ApplyRead, Told
<1>2. Best(link)' = Best(link)
  BY <1>1 DEF Best, Enabled
<1> QED BY <1>1, <1>2, AppliedIsBest DEF RouteInv

(* Every operation of a task keeps RouteInv.                               *)
LEMMA RouteTask ==
  ASSUME NetTypes, RouteInv, NEW t \in Tasks, Step(t)
  PROVE  RouteInv'
<1> USE OpsFacts
<1>1. CASE Notify(t) \/ ApplyRead(t)
  BY <1>1, RouteTold
<1>2. CASE Mark(t)
  <2>1. PICK up \in SUBSET Links :
           /\ up = link \ (IF Arg(t) = "ap" THEN {"STA"} ELSE {"STA", "AP"}) /\ link' = up
           /\ Then(t, IF News(link, up) THEN << <<"notify", up>> >> ELSE <<>>)
    BY <1>2 DEF Mark, NetTypes
  <2>2. UNCHANGED <<prof, started, late, route>> /\ Now(t, "mark")
    BY <1>2 DEF Mark
  <2>3. CASE News(link, up)
    <3>1. PICK ops \in Seq(Operations) : ops = << <<"notify", up>> >> /\ Names(ops) = {"notify"}
      <4>1. <<"notify", up>> \in Operations
        BY DEF Operations
      <4> QED BY <4>1
    <3>2. Then(t, ops) /\ todo[t] # <<>>
      BY <2>1, <2>2, <2>3, <3>1 DEF Now
    <3>3. Names(todo'[t]) = Names(ops) \cup Names(Tail(todo[t]))
      BY ONLY NetTypes, t \in Tasks, ops \in Seq(Operations), <3>2, ThenFacts
    <3>4. "notify" \in Names(todo'[t])
      BY <3>1, <3>3
    <3> QED BY <3>4 DEF RouteInv, NoneTaken, Tells
  <2>4. CASE ~News(link, up)
    <3>1. Then(t, <<>>) /\ link' = link
      BY <2>1, <2>4 DEF News
    <3>2. NoneTaken' => NoneTaken
      BY <2>2, <3>1, ThenTakes DEF Tells
    <3> QED BY <2>2, <3>1, <3>2, RouteKept
  <2> QED BY <2>3, <2>4
<1>3. CASE Drive(t) \/ DriveFails(t)
  <2>1. PICK ops \in {<<>>, Fallback} : Then(t, ops)
    BY <1>3 DEF Drive, DriveFails
  <2>2. Now(t, "drive") /\ UNCHANGED <<prof, started, late, route, link>>
    BY <1>3 DEF Drive, DriveFails, ready
  <2>3. NoneTaken' => NoneTaken
    BY <2>1, <2>2, ThenTakes DEF Tells
  <2> QED BY <2>2, <2>3, RouteKept
<1>4. CASE Connect(t)
  <2>1. Now(t, "connect") /\ Then(t, <<>>) /\ UNCHANGED <<prof, started, late, route, link>>
    BY <1>4 DEF Connect, ready
  <2>2. NoneTaken' => NoneTaken
    BY <2>1, ThenTakes DEF Tells
  <2> QED BY <2>1, <2>2, RouteKept
<1>5. CASE Judge(t)
  <2>1. << <<"retry", st.retry + 1>> >> \in Seq(Operations)
    <3>1. st.retry + 1 \in Nat
      BY DEF NetTypes
    <3> QED BY <3>1 DEF Operations
  <2>2. PICK ops \in {<<>>, Fallback, << <<"retry", st.retry + 1>> >>} : Then(t, ops)
    BY <1>5 DEF Judge
  <2>3. Now(t, "judge") /\ UNCHANGED <<prof, started, late, route, link>>
    BY <1>5 DEF Judge, ready
  <2>4. NoneTaken' => NoneTaken
    BY <2>1, <2>2, <2>3, ThenTakes DEF Tells
  <2> QED BY <2>3, <2>4, RouteKept
<1>6. CASE Retry(t)
  <2>1. Now(t, "retry") /\ Then(t, << <<"connect", "">> >>) /\ UNCHANGED <<prof, started, late, route, link>>
    BY <1>6 DEF Retry, ready
  <2>2. << <<"connect", "">> >> \in Seq(Operations)
    BY DEF Operations
  <2>3. NoneTaken' => NoneTaken
    BY <2>1, <2>2, ThenTakes DEF Tells
  <2> QED BY <2>1, <2>3, RouteKept
<1>7. CASE Shut(t)
  <2>1. << <<"shutnow", "">> >> \in Seq(Operations)
    BY DEF Operations
  <2>2. PICK ops \in {<<>>, << <<"shutnow", "">> >>} : Then(t, ops)
    BY <1>7 DEF Shut
  <2>3. Now(t, "shut") /\ UNCHANGED <<prof, started, late, route, link>>
    BY <1>7 DEF Shut, ready
  <2>4. NoneTaken' => NoneTaken
    BY <2>1, <2>2, <2>3, ThenTakes DEF Tells
  <2> QED BY <2>3, <2>4, RouteKept
<1>8. CASE ShutNow(t)
  <2>1. Now(t, "shutnow") /\ Then(t, <<>>) /\ UNCHANGED <<prof, started, late, route, link>>
    BY <1>8 DEF ShutNow, ready
  <2>2. NoneTaken' => NoneTaken
    BY <2>1, ThenTakes DEF Tells
  <2> QED BY <2>1, <2>2, RouteKept
<1>9. CASE InitWifi(t)
  <2>1. PICK ops \in {<<>>, FromFlash} : Then(t, ops)
    BY <1>9 DEF InitWifi
  <2>2. Now(t, "initwifi") /\ prof' = prof
        /\ (UNCHANGED <<started, late, route, link>> \/ Publish(link \cup {"STA"}))
    BY <1>9 DEF InitWifi, ready
  <2>3. NoneTaken' => NoneTaken
    BY <2>1, <2>2, ThenTakes DEF Tells
  <2> QED BY <2>2, <2>3, RouteKept, RoutePublished
<1>10. CASE Reconnect(t)
  <2>1. Now(t, "reconnect") /\ Then(t, FromFlash) /\ UNCHANGED <<prof, started, late, route, link>>
    BY <1>10 DEF Reconnect, ready
  <2>2. NoneTaken' => NoneTaken
    BY <2>1, ThenTakes DEF Tells
  <2> QED BY <2>1, <2>2, RouteKept
<1> QED BY <1>1, <1>2, <1>3, <1>4, <1>5, <1>6, <1>7, <1>8, <1>9, <1>10 DEF Step

(* Every step keeps RouteInv.                                              *)
LEMMA RouteStep == NetTypes /\ RouteInv /\ [Next]_vars => RouteInv'
<1> SUFFICES ASSUME NetTypes, RouteInv, [Next]_vars PROVE RouteInv'
  OBVIOUS
<1>1. CASE Handle
  <2>1. NoneTaken' => NoneTaken
    <3>1. <<"connect", "">> \in Operations /\ <<"judge", "">> \in Operations /\ "event" \in Tasks
      BY DEF Operations, Tasks
    <3>2. \A ops \in {<<>>, << <<"connect", "">> >>, << <<"judge", "">> >>} : ops \in Seq(Operations)
      BY <3>1, OpsFacts
    <3>3. CASE todo' = todo
      BY <3>3 DEF NoneTaken
    <3> QED BY <1>1, <3>1, <3>2, <3>3, HandleTypes, DoesTakes
  <2>2. UNCHANGED <<started, late, route, link>> \/ \E up : Publish(up)
    BY <1>1 DEF Handle, OnStaStart, OnDisconnected, OnGotIp, OnLostIp, OnAp, OnEthernet, ready
  <2>3. prof' = prof
    BY <1>1, HandleTypes
  <2> QED BY <2>1, <2>2, <2>3, RouteKept, RoutePublished
<1>2. CASE Begins /\ ~(StartPoll /\ ~started)
  <2>1. UNCHANGED <<prof, link, route, late>>
    BY <1>2, BeginsTypes
  <2>2. started' = started
    BY <1>2 DEF Begins, Save, Confirm, Recover, GraceOver, StartPoll, PolicyPoll, Request, ready, RouteInv
  <2>3. NoneTaken' => NoneTaken
    <3>1. CASE todo' = todo
      BY <3>1 DEF NoneTaken
    <3> QED BY <1>2, <3>1, BeginsTypes, StartsFacts, DoesTakes
  <2> QED BY <2>1, <2>2, <2>3, RouteKept
<1>3. CASE StartPoll /\ ~started
  <2>1. Idle("aux") /\ Does("aux", << <<"apply", link>> >>) /\ "aux" \in Tasks
    BY <1>3 DEF StartPoll, Tasks
  <2>2. <<"apply", link>> \in Operations
    BY DEF Operations, NetTypes
  <2>3. << <<"apply", link>> >> \in Seq(Operations) /\ Names(<< <<"apply", link>> >>) = {"apply"}
    BY <2>2, OpsFacts
  <2>4. todo'["aux"] = << <<"apply", link>> >>
    BY <2>1, <2>3, DoesFacts
  <2>5. ~NoneTaken'
    BY <2>1, <2>3, <2>4 DEF NoneTaken, Tells
  <2> QED BY <2>5 DEF RouteInv
<1>4. CASE Driver
  <2>1. UNCHANGED <<prof, started, late, route, link, todo>>
    BY <1>4, DriverTypes
  <2> QED BY <2>1, RouteKept DEF NoneTaken
<1>5. CASE PowerCut
  BY <1>5 DEF PowerCut, RouteInv
<1>6. CASE UNCHANGED vars
  BY <1>6, RouteKept DEF vars, ready, NoneTaken
<1> QED BY <1>1, <1>2, <1>3, <1>4, <1>5, <1>6, RouteTask DEF Next, Begins, Driver

(* Every reachable state is well typed.                                    *)
LEMMA NetTyped == Spec => []NetTypes
<1>1. NetTypes /\ [Next]_vars => NetTypes'
  BY NetTypesStep
<1> QED BY <1>1, NetTypesInit, PTL DEF Spec

(* network_ready.c and cluster_transport.c: once everything is dealt with  *)
(* the route of the cluster is the one the published links ask for, unless *)
(* it was last set from a snapshot that was out of date: for every profile,*)
(* any number of retries, requests and driver events.                      *)
THEOREM RouteIsFresh == Spec => []RouteFresh
<1>1. Init => RouteInv
  BY DEF Init, RouteInv
<1>2. NetTypes /\ RouteInv /\ [Next]_vars => RouteInv'
  BY RouteStep
<1>3. RouteInv => RouteFresh
  <2>1. Quiet => NoneTaken
    BY ElsFacts DEF Quiet, Idle, NoneTaken, Names
  <2> QED BY <2>1, AppliedIsBest DEF RouteInv, RouteFresh
<1> QED BY <1>1, <1>2, <1>3, NetTyped, PTL DEF Spec

-----------------------------------------------------------------------------
(***************************************************************************)
(* The links.  What the queue of the event loop will leave published is    *)
(* up: link x is published and no event takes it down, or an event brings  *)
(* it up and none after that takes it down.                                *)
(***************************************************************************)
Up(q, x, up, on, offs) ==
  \/ x \in up /\ Els(q) \cap offs = {}
  \/ \E i \in DOMAIN q : q[i] = on /\ \A k \in DOMAIN q : k > i => q[k] \notin offs

StaOffs == {"DISCONNECTED", "LOST_IP"}
Ready == prof.radio = "now" /\ target = "none"

PublishedUp ==
  /\ Up(evq, "AP", link, "AP_START", {"AP_STOP"}) => radio.ap
  /\ Up(evq, "ETH", link, "ETH_UP", {"ETH_DOWN"}) => eth
  /\ Up(evq, "STA", link, "GOT_IP", StaOffs) => radio.sta = "ip" \/ Ready
  /\ Up(evq, "STA", {}, "GOT_IP", StaOffs) => radio.sta = "ip"

(* The end of a transition is only pending after a transition.             *)
ShutAfterMark == \A t \in Tasks : "shutnow" \in Names(todo[t]) => target # "none"

(* A node whose radio is kept for ESP-NOW starts it before anything else.  *)
NowPrimary(p) == p.radio = "now" => p.primary = "WIFI"
Cold ==
  "WIFI" \notin inited /\ prof.radio = "now" =>
    /\ target = "none" /\ ~started /\ ~grace
    /\ Els(evq) \cap {"STA_START", "DISCONNECTED", "GOT_IP"} = {}
    /\ \A t \in Tasks : todo[t] = IF t = "aux" THEN << <<"initwifi", "">> >> ELSE <<>>

LinkInv ==
  /\ PublishedUp /\ ShutAfterMark /\ NowPrimary(prof) /\ Cold
  /\ "WIFI" \notin inited => ~radio.ap /\ radio.sta = "off"

(* What Up says of the queue and of the links published.                   *)
LEMMA UpFacts ==
  ASSUME NEW q \in Seq(Signals), NEW x, NEW up, NEW on, NEW offs
  PROVE  /\ Up(q, x, up, on, offs) => x \in up \/ on \in Els(q)
         /\ x \in up => Up(<<>>, x, up, on, offs)
         /\ \A down : (x \in down => x \in up) => (Up(q, x, down, on, offs) => Up(q, x, up, on, offs))
<1>1. Up(q, x, up, on, offs) => x \in up \/ on \in Els(q)
  BY DEF Up, Els
<1>2. x \in up => Up(<<>>, x, up, on, offs)
  BY ElsFacts DEF Up
<1>3. \A down : (x \in down => x \in up) => (Up(q, x, down, on, offs) => Up(q, x, up, on, offs))
  BY DEF Up
<1> QED BY <1>1, <1>2, <1>3

(* Events that do not bring the link up leave it as it was, or down.       *)
LEMMA UpGrows ==
  ASSUME NEW q \in Seq(Signals), NEW s \in Seq(Signals), NEW x, NEW up, NEW on, NEW offs,
         on \notin Els(s), Up(q \o s, x, up, on, offs)
  PROVE  Up(q, x, up, on, offs) /\ Els(s) \cap offs = {}
<1>1. q \o s \in Seq(Signals) /\ Els(q \o s) = Els(q) \cup Els(s)
  BY ElsFacts
<1>2. /\ DOMAIN (q \o s) = 1..(Len(q) + Len(s)) /\ DOMAIN q = 1..Len(q) /\ DOMAIN s = 1..Len(s)
      /\ Len(q) \in Nat /\ Len(s) \in Nat
      /\ \A i \in 1..Len(q) : (q \o s)[i] = q[i]
      /\ \A i \in 1..Len(s) : (q \o s)[Len(q) + i] = s[i]
  BY SMT
<1>3. CASE x \in up /\ Els(q \o s) \cap offs = {}
  BY <1>1, <1>3 DEF Up
<1>4. ASSUME NEW i \in DOMAIN (q \o s), (q \o s)[i] = on,
             \A k \in DOMAIN (q \o s) : k > i => (q \o s)[k] \notin offs
      PROVE  Up(q, x, up, on, offs) /\ Els(s) \cap offs = {}
  <2>1. i \in DOMAIN q
    <3> SUFFICES ASSUME i \notin DOMAIN q PROVE FALSE
      OBVIOUS
    <3>1. i - Len(q) \in DOMAIN s /\ s[i - Len(q)] = on
      BY <1>2, <1>4
    <3> QED BY <3>1 DEF Els
  <2>2. q[i] = on /\ \A k \in DOMAIN q : k > i => q[k] \notin offs
    BY <1>2, <1>4, <2>1
  <2>3. \A k \in DOMAIN s : s[k] \notin offs
    <3> TAKE k \in DOMAIN s
    <3>1. Len(q) + k \in DOMAIN (q \o s) /\ Len(q) + k > i /\ (q \o s)[Len(q) + k] = s[k]
      BY <1>2, <2>1
    <3> QED BY <1>4, <3>1
  <2>4. Up(q, x, up, on, offs)
    BY <2>1, <2>2 DEF Up
  <2>5. Els(s) \cap offs = {}
    BY <2>3 DEF Els
  <2> QED BY <2>4, <2>5
<1> QED BY <1>3, <1>4 DEF Up

(* The first event is handled.                                             *)
LEMMA UpHandled ==
  ASSUME NEW q \in Seq(Signals), q # <<>>, NEW x, NEW up, NEW now, NEW on, NEW offs,
         x \in now => Head(q) = on \/ (x \in up /\ Head(q) \notin offs),
         Up(Tail(q), x, now, on, offs)
  PROVE  Up(q, x, up, on, offs)
<1>1. Els(q) = {Head(q)} \cup Els(Tail(q))
  BY ElsFacts
<1>2. /\ DOMAIN q = 1..Len(q) /\ Len(q) \in Nat /\ 1 \in DOMAIN q /\ Head(q) = q[1]
      /\ DOMAIN Tail(q) = 1..(Len(q) - 1)
      /\ \A i \in 1..(Len(q) - 1) : Tail(q)[i] = q[i + 1]
  OBVIOUS
<1>3. \A k \in DOMAIN q : k > 1 => k - 1 \in DOMAIN Tail(q) /\ Tail(q)[k - 1] = q[k]
  BY <1>2
<1>4. CASE x \in now /\ Els(Tail(q)) \cap offs = {}
  <2>1. \A k \in DOMAIN q : k > 1 => q[k] \notin offs
    BY <1>3, <1>4 DEF Els
  <2>2. CASE Head(q) = on
    BY <1>2, <2>1, <2>2 DEF Up
  <2>3. CASE x \in up /\ Head(q) \notin offs
    BY <1>1, <1>4, <2>3 DEF Up
  <2> QED BY <1>4, <2>2, <2>3
<1>5. ASSUME NEW i \in DOMAIN Tail(q), Tail(q)[i] = on,
             \A k \in DOMAIN Tail(q) : k > i => Tail(q)[k] \notin offs
      PROVE  Up(q, x, up, on, offs)
  <2>1. i + 1 \in DOMAIN q /\ q[i + 1] = on /\ i \in Nat
    BY <1>2, <1>5
  <2>2. \A k \in DOMAIN q : k > i + 1 => q[k] \notin offs
    <3> SUFFICES ASSUME NEW k \in DOMAIN q, k > i + 1 PROVE q[k] \notin offs
      OBVIOUS
    <3>1. k > 1 /\ k - 1 > i
      BY <1>2, <2>1
    <3>2. k - 1 \in DOMAIN Tail(q) /\ Tail(q)[k - 1] = q[k]
      BY <1>3, <3>1
    <3> QED BY <1>5, <3>1, <3>2
  <2> QED BY <2>1, <2>2 DEF Up
<1> QED BY <1>4, <1>5 DEF Up

(* A step that posts s.                                                    *)
LEMMA LinksPosted ==
  ASSUME NetTypes, PublishedUp, NEW s \in Seq(Signals), evq' = evq \o s,
         "AP" \in link' => "AP" \in link, "ETH" \in link' => "ETH" \in link,
         "STA" \in link' => Ready' \/ ("STA" \in link /\ ~Ready),
         "AP_START" \in Els(s) => radio'.ap, radio.ap => radio'.ap \/ "AP_STOP" \in Els(s),
         "ETH_UP" \in Els(s) => eth', eth => eth' \/ "ETH_DOWN" \in Els(s),
         "GOT_IP" \in Els(s) => radio'.sta = "ip",
         radio.sta = "ip" => radio'.sta = "ip" \/ Els(s) \cap StaOffs # {}
  PROVE  PublishedUp'
<1>0. evq \in Seq(Signals)
  BY DEF NetTypes
<1>1. Up(evq', "AP", link', "AP_START", {"AP_STOP"}) => radio'.ap
  BY <1>0, UpGrows, UpFacts DEF PublishedUp
<1>2. Up(evq', "ETH", link', "ETH_UP", {"ETH_DOWN"}) => eth'
  BY <1>0, UpGrows, UpFacts DEF PublishedUp
<1>3. Up(evq', "STA", {}, "GOT_IP", StaOffs) => radio'.sta = "ip"
  BY <1>0, UpGrows, UpFacts DEF PublishedUp, StaOffs
<1>4. Up(evq', "STA", link', "GOT_IP", StaOffs) => radio'.sta = "ip" \/ Ready'
  <2> SUFFICES ASSUME Up(evq', "STA", link', "GOT_IP", StaOffs), ~Ready', radio'.sta # "ip"
               PROVE  FALSE
    OBVIOUS
  <2>1. "GOT_IP" \notin Els(s)
    OBVIOUS
  <2>2. Up(evq, "STA", link', "GOT_IP", StaOffs) /\ Els(s) \cap StaOffs = {}
    BY <1>0, <2>1, UpGrows
  <2>3. radio.sta # "ip"
    BY <2>2 DEF StaOffs
  <2>4. CASE "STA" \in link'
    <3>1. Up(evq, "STA", link, "GOT_IP", StaOffs) /\ ~Ready
      BY <1>0, <2>2, <2>4, UpFacts
    <3> QED BY <2>3, <3>1 DEF PublishedUp
  <2>5. CASE "STA" \notin link'
    <3>1. Up(evq, "STA", {}, "GOT_IP", StaOffs)
      BY <1>0, <2>2, <2>5, UpFacts
    <3> QED BY <2>3, <3>1 DEF PublishedUp
  <2> QED BY <2>4, <2>5
<1> QED BY <1>1, <1>2, <1>3, <1>4 DEF PublishedUp

(* The event loop handles e.                                               *)
LEMMA LinksHandled ==
  ASSUME NetTypes, PublishedUp, NEW e, Event(e),
         "AP" \in link' => e = "AP_START" \/ ("AP" \in link /\ e # "AP_STOP"),
         "ETH" \in link' => e = "ETH_UP" \/ ("ETH" \in link /\ e # "ETH_DOWN"),
         "STA" \in link' => e = "GOT_IP" \/ ("STA" \in link /\ e \notin StaOffs)
  PROVE  PublishedUp'
<1>0. evq \in Seq(Signals) /\ evq # <<>> /\ Head(evq) = e /\ evq' = Tail(evq)
      /\ UNCHANGED <<prof, target, radio, eth>>
  BY EventFacts DEF NetTypes
<1>1. Up(evq', "AP", link', "AP_START", {"AP_STOP"}) => Up(evq, "AP", link, "AP_START", {"AP_STOP"})
  BY <1>0, UpHandled
<1>2. Up(evq', "ETH", link', "ETH_UP", {"ETH_DOWN"}) => Up(evq, "ETH", link, "ETH_UP", {"ETH_DOWN"})
  BY <1>0, UpHandled
<1>3. Up(evq', "STA", link', "GOT_IP", StaOffs) => Up(evq, "STA", link, "GOT_IP", StaOffs)
  BY <1>0, UpHandled
<1>4. Up(evq', "STA", {}, "GOT_IP", StaOffs) => Up(evq, "STA", {}, "GOT_IP", StaOffs)
  BY <1>0, UpHandled
<1> QED BY <1>0, <1>1, <1>2, <1>3, <1>4 DEF PublishedUp, Ready, StaOffs

(* An operation posts the events of the links it takes down; it publishes  *)
(* none, and changes the target only by marking or at the end of a         *)
(* transition.                                                             *)
LEMMA TaskPosts ==
  ASSUME NetTypes, NEW t \in Tasks, Step(t), ~InitWifi(t)
  PROVE  /\ Posts /\ eth' = eth /\ prof' = prof /\ inited' = inited /\ link' \subseteq link
         /\ target' = target \/ (Mark(t) /\ "STA" \notin link') \/ ShutNow(t)
<1>1. CASE Notify(t) \/ ApplyRead(t) \/ Judge(t) \/ Retry(t) \/ Shut(t) \/ Reconnect(t)
  <2>1. UNCHANGED <<evq, radio, eth, prof, inited, link, target>>
    BY <1>1 DEF Notify, ApplyRead, Judge, Retry, Shut, Reconnect, wifi, driver, ready
  <2> QED BY <2>1, PostsNothing
<1>2. CASE Mark(t)
  <2>1. UNCHANGED <<evq, radio, eth, prof, inited>> /\ link' \subseteq link /\ "STA" \notin link'
    BY <1>2 DEF Mark, driver
  <2> QED BY <1>2, <2>1, PostsNothing
<1>3. CASE Drive(t) \/ DriveFails(t)
  <2>1. UNCHANGED <<eth, prof, inited, link, target>>
    BY <1>3 DEF Drive, DriveFails, ready
  <2> QED BY <1>3, <2>1, DrivePosts
<1>4. CASE Connect(t)
  <2>1. UNCHANGED <<evq, eth, prof, inited, link, target>>
    BY <1>4 DEF Connect, wifi, ready
  <2>2. radio'.ap = radio.ap /\ (radio.sta = "ip" => radio'.sta = "ip")
    BY <1>4, JoinsFacts DEF NetTypes, Connect
  <2> QED BY <2>1, <2>2, PostsNothing
<1>5. CASE ShutNow(t)
  <2>1. UNCHANGED <<eth, prof, inited, link>> /\ radio' = [radio EXCEPT !.ap = FALSE]
        /\ evq' = IF radio.ap THEN Append(evq, "AP_STOP") ELSE evq
    BY <1>5 DEF ShutNow, ready
  <2>2. radio'.sta = radio.sta
    BY <2>1 DEF NetTypes
  <2>3. CASE ~radio.ap
    BY <1>5, <2>1, <2>2, <2>3, PostsNothing
  <2>4. CASE radio.ap
    <3>1. PICK s \in Seq(Signals) : s = <<"AP_STOP">> /\ Els(s) = {"AP_STOP"}
      <4>1. <<"AP_STOP">> \in Seq(Signals)
        BY DEF Signals
      <4>2. Els(<<"AP_STOP">>) = {"AP_STOP"}
        BY ElsFacts
      <4> QED BY <4>1, <4>2
    <3>2. evq' = evq \o s
      BY <2>1, <2>4, <3>1, QueueGrows DEF Signals
    <3> QED BY <1>5, <2>1, <2>2, <3>1, <3>2 DEF Posts
  <2> QED BY <2>3, <2>4
<1> QED BY <1>1, <1>2, <1>3, <1>4, <1>5 DEF Step

(* The first task step of a cold node is that it starts the radio.         *)
LEMMA ColdStarts ==
  ASSUME LinkInv, NEW t \in Tasks, Step(t), "WIFI" \notin inited, prof.radio = "now"
  PROVE  InitWifi(t)
<1>1. todo[t] = IF t = "aux" THEN << <<"initwifi", "">> >> ELSE <<>>
  BY DEF LinkInv, Cold
<1>2. \A name : Now(t, name) => name = "initwifi"
  <2> SUFFICES ASSUME NEW name, Now(t, name) PROVE name = "initwifi"
    OBVIOUS
  <2>1. todo[t] # <<>> /\ Head(todo[t])[1] = name
    BY DEF Now
  <2>2. todo[t] = << <<"initwifi", "">> >>
    BY <1>1, <2>1
  <2>3. \A op : Head(<<op>>) = op
    OBVIOUS
  <2>4. Head(todo[t]) = <<"initwifi", "">>
    BY ONLY <2>2, <2>3
  <2>5. <<"initwifi", "">>[1] = "initwifi"
    OBVIOUS
  <2> QED BY ONLY <2>1, <2>4, <2>5
<1> QED BY <1>2 DEF Step, Notify, ApplyRead, Mark, Drive, DriveFails, Connect, Judge, Retry, Shut, ShutNow, Reconnect

(* A step that neither plans the end of a transition nor drops the target  *)
(* keeps ShutAfterMark.                                                    *)
LEMMA ShutKept ==
  ASSUME NetTypes, ShutAfterMark, NEW t \in Tasks, todo[t] # <<>>,
         NEW ops \in Seq(Operations), Then(t, ops),
         "shutnow" \in Names(ops) => target' # "none", target # "none" => target' # "none"
  PROVE  ShutAfterMark'
<1>1. /\ \A u \in Tasks \ {t} : todo'[u] = todo[u]
      /\ Names(todo'[t]) = Names(ops) \cup Names(Tail(todo[t]))
      /\ Names(todo[t]) = {Head(todo[t])[1]} \cup Names(Tail(todo[t]))
  BY ThenFacts
<1>2. "shutnow" \in Names(todo'[t]) => target' # "none"
  BY <1>1 DEF ShutAfterMark
<1> QED BY <1>1, <1>2 DEF ShutAfterMark

(* Every operation of a task keeps ShutAfterMark.                          *)
LEMMA ShutTask ==
  ASSUME NetTypes, ShutAfterMark, NEW t \in Tasks, Step(t)
  PROVE  ShutAfterMark'
<1>1. todo[t] # <<>>
  BY DEF Step, Now, Notify, ApplyRead, Mark, Drive, DriveFails, Connect, Judge, Retry, Shut, ShutNow, InitWifi, Reconnect
<1>2. target # "none" => target' # "none"
  <2>1. CASE Mark(t)
    BY <2>1, ArgFacts DEF Mark
  <2>2. CASE ~Mark(t)
    BY <2>2 DEF Step, Notify, ApplyRead, Drive, DriveFails, Connect, Judge, Retry, Shut, ShutNow, InitWifi, Reconnect, wifi
  <2> QED BY <2>1, <2>2
<1>3. PICK ops \in Seq(Operations) : Then(t, ops) /\ ("shutnow" \in Names(ops) => Shut(t) /\ target = "trans")
  <2> DEFINE Fine(o) == o \in Seq(Operations) /\ "shutnow" \notin Names(o)
  <2>1. Fine(<<>>) /\ Fine(Fallback) /\ Fine(FromFlash)
    BY OpsFacts
  <2>2. \A up \in SUBSET Links : Fine(<< <<"notify", up>> >>)
    <3>1. \A up \in SUBSET Links : <<"notify", up>> \in Operations
      BY DEF Operations
    <3>2. \A op \in Operations : << op >> \in Seq(Operations) /\ Names(<< op >>) = {op[1]}
      BY OpsFacts
    <3> SUFFICES ASSUME NEW up \in SUBSET Links PROVE Fine(<< <<"notify", up>> >>)
      OBVIOUS
    <3>3. << <<"notify", up>> >> \in Seq(Operations) /\ Names(<< <<"notify", up>> >>) = {"notify"}
      BY <3>1, <3>2
    <3> QED BY <3>3
  <2>3. Fine(<< <<"retry", st.retry + 1>> >>) /\ Fine(<< <<"connect", "">> >>)
    <3>1. st.retry + 1 \in Nat
      BY DEF NetTypes
    <3>2. <<"retry", st.retry + 1>> \in Operations /\ <<"connect", "">> \in Operations
      BY <3>1 DEF Operations
    <3>3. /\ << <<"retry", st.retry + 1>> >> \in Seq(Operations) /\ Names(<< <<"retry", st.retry + 1>> >>) = {"retry"}
          /\ << <<"connect", "">> >> \in Seq(Operations) /\ Names(<< <<"connect", "">> >>) = {"connect"}
      BY <3>2, OpsFacts
    <3> QED BY <3>3
  <2>4. << <<"shutnow", "">> >> \in Seq(Operations)
    <3>1. <<"shutnow", "">> \in Operations
      BY DEF Operations
    <3> QED BY <3>1, OpsFacts
  <2> HIDE DEF Fine
  <2>5. CASE Mark(t)
    <3>1. PICK up \in SUBSET Links : Then(t, IF News(link, up) THEN << <<"notify", up>> >> ELSE <<>>)
      BY <2>5 DEF Mark, NetTypes
    <3>2. \E o : Fine(o) /\ Then(t, o)
      BY <2>1, <2>2, <3>1
    <3> QED BY <3>2 DEF Fine
  <2>6. CASE Shut(t)
    <3>1. CASE target = "trans"
      BY <2>4, <2>6, <3>1 DEF Shut
    <3>2. CASE target # "trans"
      <4>1. Then(t, <<>>)
        BY <2>6, <3>2 DEF Shut
      <4> QED BY <2>1, <4>1 DEF Fine
    <3> QED BY <3>1, <3>2
  <2>7. CASE ~Mark(t) /\ ~Shut(t)
    <3>1. \E o : Fine(o) /\ Then(t, o)
      BY <2>1, <2>3, <2>7 DEF Step, Notify, ApplyRead, Drive, DriveFails, Connect, Judge, Retry, ShutNow, InitWifi, Reconnect
    <3> QED BY <3>1 DEF Fine
  <2> QED BY <2>5, <2>6, <2>7
<1>4. Shut(t) => target' = target
  BY DEF Shut, wifi
<1> QED BY <1>1, <1>2, <1>3, <1>4, ShutKept

(* wifi_manager_init keeps LinkInv: it is the first thing a cold node      *)
(* does.                                                                   *)
LEMMA LinkInitWifi ==
  ASSUME NetTypes, LinkInv, NEW t \in Tasks, InitWifi(t)
  PROVE  PublishedUp' /\ "WIFI" \in inited' /\ prof' = prof
<1>1. "WIFI" \in inited' /\ UNCHANGED <<prof, target, eth>>
  BY DEF InitWifi
<1>2. CASE "WIFI" \in inited
  <2>1. UNCHANGED <<evq, link, radio>>
    BY <1>2 DEF InitWifi, ready
  <2> QED BY <1>1, <2>1 DEF LinkInv, PublishedUp, Ready
<1>3. CASE "WIFI" \notin inited /\ prof.radio = "now"
  <2>1. link' = link \cup {"STA"} /\ radio' = [ap |-> TRUE, sta |-> "idle"]
        /\ evq' = evq \o <<"STA_START", "AP_START">>
    BY <1>3 DEF InitWifi, Publish
  <2>2. PICK s \in Seq(Signals) : s = <<"STA_START", "AP_START">> /\ Els(s) = {"STA_START", "AP_START"}
    <3>1. <<"STA_START", "AP_START">> \in Seq(Signals)
      BY DEF Signals
    <3>2. Els(<<"STA_START", "AP_START">>) = {"STA_START", "AP_START"}
      BY ElsFacts
    <3> QED BY <3>1, <3>2
  <2>3. Ready'
    BY <1>1, <1>3 DEF LinkInv, Cold, Ready
  <2>4. radio.sta # "ip" /\ radio'.ap /\ evq' = evq \o s /\ PublishedUp
    BY <1>3, <2>1, <2>2 DEF LinkInv
  <2> QED BY <1>1, <2>1, <2>2, <2>3, <2>4, LinksPosted
<1>4. CASE "WIFI" \notin inited /\ prof.radio # "now"
  <2>1. link' = link /\ radio' = [ap |-> FALSE, sta |-> "idle"] /\ evq' = Append(evq, "STA_START")
    BY <1>4 DEF InitWifi, ready
  <2>2. PICK s \in Seq(Signals) : s = <<"STA_START">> /\ Els(s) = {"STA_START"}
    <3>1. <<"STA_START">> \in Seq(Signals)
      BY DEF Signals
    <3>2. Els(<<"STA_START">>) = {"STA_START"}
      BY ElsFacts
    <3> QED BY <3>1, <3>2
  <2>3. evq' = evq \o s
    BY <2>1, <2>2, QueueGrows DEF Signals
  <2>4. radio.sta # "ip" /\ ~radio.ap /\ PublishedUp /\ ~Ready
    BY <1>4 DEF LinkInv, Ready
  <2> QED BY <1>1, <2>1, <2>2, <2>3, <2>4, LinksPosted
<1> QED BY <1>1, <1>2, <1>3, <1>4

(* Every operation of a task keeps LinkInv.                                *)
LEMMA LinkTask ==
  ASSUME NetTypes, LinkInv, NEW t \in Tasks, Step(t)
  PROVE  LinkInv'
<1>1. ShutAfterMark'
  BY ShutTask DEF LinkInv
<1>2. CASE InitWifi(t)
  BY <1>1, <1>2, LinkInitWifi DEF LinkInv, Cold, NowPrimary
<1>3. CASE ~InitWifi(t)
  <2>1. /\ Posts /\ eth' = eth /\ prof' = prof /\ inited' = inited /\ link' \subseteq link
        /\ target' = target \/ (Mark(t) /\ "STA" \notin link') \/ ShutNow(t)
    BY <1>3, TaskPosts
  <2>2. PICK s \in Seq(Signals) :
          /\ evq' = evq \o s
          /\ Els(s) \cap {"ETH_UP", "ETH_DOWN", "GOT_IP"} = {}
          /\ "AP_START" \in Els(s) => radio'.ap
          /\ radio.ap => radio'.ap \/ "AP_STOP" \in Els(s)
          /\ radio.sta = "ip" => radio'.sta = "ip" \/ "DISCONNECTED" \in Els(s)
    BY <2>1 DEF Posts
  <2>3. "STA" \in link' => Ready' \/ ("STA" \in link /\ ~Ready)
    <3>1. CASE ShutNow(t)
      <4>1. "shutnow" \in Names(todo[t])
        <5>1. todo[t] # <<>> /\ Head(todo[t])[1] = "shutnow" /\ todo[t] \in Seq(Operations)
          BY <3>1 DEF ShutNow, Now, NetTypes
        <5>2. Head(todo[t]) \in Els(todo[t])
          BY <5>1, ElsFacts
        <5> QED BY <5>1, <5>2 DEF Names
      <4> QED BY <2>1, <4>1 DEF LinkInv, ShutAfterMark, Ready
    <3>2. CASE target' = target
      BY <2>1, <3>2 DEF Ready
    <3> QED BY <2>1, <3>1, <3>2
  <2>4. PublishedUp'
    BY <2>1, <2>2, <2>3, LinksPosted DEF LinkInv, StaOffs
  <2>5. NowPrimary(prof)' /\ Cold'
    BY <1>3, <2>1, ColdStarts DEF LinkInv, NowPrimary, Cold
  <2>6. "WIFI" \notin inited' => ~radio'.ap /\ radio'.sta = "off"
    <3> SUFFICES ASSUME "WIFI" \notin inited PROVE ~radio'.ap /\ radio'.sta = "off"
      BY <2>1
    <3>1. radio \in [ap : BOOLEAN, sta : {"off", "idle", "joining", "ip"}] /\ ~radio.ap /\ radio.sta = "off"
      BY DEF LinkInv, NetTypes
    <3>2. CASE Drive(t) \/ DriveFails(t)
      <4>1. radio' = radio \/ radio' = [ap |-> FALSE, sta |-> "off"]
        BY <3>2 DEF Drive, DriveFails
      <4> QED BY <3>1, <4>1
    <3>3. CASE Connect(t) \/ ShutNow(t)
      BY <3>1, <3>3, JoinsFacts DEF Connect, ShutNow
    <3>4. CASE Notify(t) \/ ApplyRead(t) \/ Mark(t) \/ Judge(t) \/ Retry(t) \/ Shut(t) \/ Reconnect(t)
      <4>1. radio' = radio
        BY <3>4 DEF Notify, ApplyRead, Mark, Judge, Retry, Shut, Reconnect, driver
      <4> QED BY <3>1, <4>1
    <3> QED BY <1>3, <3>2, <3>3, <3>4 DEF Step
  <2> QED BY <1>1, <2>4, <2>5, <2>6 DEF LinkInv
<1> QED BY <1>2, <1>3

(* Handling an event keeps LinkInv.                                        *)
LEMMA LinkHandle ==
  ASSUME NetTypes, LinkInv, Handle
  PROVE  LinkInv'
<1>1. Idle("event") /\ UNCHANGED <<prof, inited, target, radio, eth>>
  BY HandleTypes
<1>2. PublishedUp'
  <2>0. PublishedUp
    BY DEF LinkInv
  <2>1. CASE OnStaStart
    <3>1. Event("STA_START") /\ link' = link
      BY <2>1 DEF OnStaStart, ready
    <3> QED BY <2>0, <3>1, LinksHandled DEF StaOffs
  <2>2. CASE OnDisconnected
    <3>1. Event("DISCONNECTED") /\ link' = link \ {"STA"}
      BY <2>2 DEF OnDisconnected, Publish
    <3> QED BY <2>0, <3>1, LinksHandled
  <2>3. CASE OnGotIp
    <3>1. Event("GOT_IP") /\ link' = link \cup {"STA"}
      BY <2>3 DEF OnGotIp, Publish
    <3> QED BY <2>0, <3>1, LinksHandled
  <2>4. CASE OnLostIp
    <3>1. Event("LOST_IP") /\ link' = link \ {"STA"}
      BY <2>4 DEF OnLostIp, Publish
    <3> QED BY <2>0, <3>1, LinksHandled
  <2>5. CASE OnAp
    <3>1. \/ Event("AP_START") /\ link' = link \cup {"AP"}
          \/ Event("AP_STOP") /\ link' = link \ {"AP"}
      BY <2>5 DEF OnAp, Publish
    <3> QED BY <2>0, <3>1, LinksHandled DEF StaOffs
  <2>6. CASE OnEthernet
    <3>1. \/ Event("ETH_UP") /\ link' = link \cup {"ETH"}
          \/ Event("ETH_DOWN") /\ link' = link \ {"ETH"}
      BY <2>6 DEF OnEthernet, Publish
    <3> QED BY <2>0, <3>1, LinksHandled DEF StaOffs
  <2> QED BY <2>1, <2>2, <2>3, <2>4, <2>5, <2>6 DEF Handle
<1>3. ShutAfterMark'
  <2>1. CASE todo' = todo
    BY <1>1, <2>1 DEF LinkInv, ShutAfterMark
  <2>2. ASSUME NEW ops \in {<<>>, << <<"connect", "">> >>, << <<"judge", "">> >>}, Does("event", ops)
        PROVE  ShutAfterMark'
    <3>1. <<"connect", "">> \in Operations /\ <<"judge", "">> \in Operations /\ "event" \in Tasks
      BY DEF Operations, Tasks
    <3>2. ops \in Seq(Operations) /\ "shutnow" \notin Names(ops)
      <4> DEFINE Fine(o) == o \in Seq(Operations) /\ "shutnow" \notin Names(o)
      <4>1. Fine(<<>>)
        BY OpsFacts
      <4>2. Fine(<< <<"connect", "">> >>)
        <5>1. << <<"connect", "">> >> \in Seq(Operations) /\ Names(<< <<"connect", "">> >>) = {"connect"}
          BY <3>1, OpsFacts
        <5> QED BY <5>1
      <4>3. Fine(<< <<"judge", "">> >>)
        <5>1. << <<"judge", "">> >> \in Seq(Operations) /\ Names(<< <<"judge", "">> >>) = {"judge"}
          BY <3>1, OpsFacts
        <5> QED BY <5>1
      <4> HIDE DEF Fine
      <4>4. Fine(ops)
        BY <4>1, <4>2, <4>3, Zenon
      <4> QED BY <4>4 DEF Fine
    <3>3. todo'["event"] = ops /\ \A u \in Tasks \ {"event"} : todo'[u] = todo[u]
      BY <1>1, <2>2, <3>1, <3>2, DoesFacts
    <3> QED BY <1>1, <3>2, <3>3 DEF LinkInv, ShutAfterMark
  <2> QED BY <2>1, <2>2, HandleTypes
<1>4. Cold'
  <2> SUFFICES ASSUME "WIFI" \notin inited, prof.radio = "now"
               PROVE  /\ target' = "none" /\ ~started' /\ ~grace'
                      /\ Els(evq') \cap {"STA_START", "DISCONNECTED", "GOT_IP"} = {}
                      /\ todo' = todo
    BY <1>1 DEF Cold, LinkInv
  <2>1. /\ target = "none" /\ ~started /\ ~grace
        /\ Els(evq) \cap {"STA_START", "DISCONNECTED", "GOT_IP"} = {}
    BY DEF Cold, LinkInv
  <2>2. ASSUME NEW e, Event(e) PROVE e \in Els(evq) /\ Els(evq') \subseteq Els(evq)
    <3>1. evq # <<>> /\ Head(evq) = e /\ evq' = Tail(evq) /\ evq \in Seq(Signals)
      BY <2>2, EventFacts DEF NetTypes
    <3> QED BY <3>1, ElsFacts
  <2>3. OnLostIp \/ OnAp \/ OnEthernet
    BY <2>1, <2>2 DEF Handle, OnStaStart, OnDisconnected, OnGotIp
  <2>4. Els(evq') \subseteq Els(evq)
    BY <2>2, <2>3 DEF OnLostIp, OnAp, OnEthernet
  <2>5. started' = started /\ todo' = todo
    BY <2>3 DEF OnLostIp, OnAp, OnEthernet, Publish, Told
  <2>6. ~grace'
    BY <2>1, <2>3, Zenon DEF OnLostIp, OnAp, OnEthernet
  <2> QED BY <1>1, <2>1, <2>4, <2>5, <2>6
<1> QED BY <1>1, <1>2, <1>3, <1>4 DEF LinkInv, NowPrimary

(* Starting a list of operations keeps LinkInv.                            *)
LEMMA LinkBegins ==
  ASSUME NetTypes, LinkInv, Begins
  PROVE  LinkInv'
<1>1. /\ UNCHANGED <<prof, target, radio, eth, evq, link, route, late>>
      /\ todo' = todo \/ \E t \in Tasks, ops \in Starts : Idle(t) /\ Does(t, ops)
  BY BeginsTypes
<1>2. "WIFI" \in inited' <=> "WIFI" \in inited
  BY DEF Begins, Save, Confirm, Recover, GraceOver, StartPoll, PolicyPoll, Request, InitEthernet
<1>3. ~("WIFI" \notin inited /\ prof.radio = "now")
  <2> SUFFICES ASSUME "WIFI" \notin inited, prof.radio = "now" PROVE FALSE
    OBVIOUS
  <2>1. ~started /\ ~grace /\ todo["aux"] = << <<"initwifi", "">> >>
    BY DEF LinkInv, Cold, Tasks
  <2>2. << <<"initwifi", "">> >> # <<>>
    OBVIOUS
  <2> QED BY <2>1, <2>2 DEF Begins, Save, Confirm, Recover, GraceOver, StartPoll, PolicyPoll, Request, Idle
<1>4. PublishedUp'
  BY <1>1 DEF LinkInv, PublishedUp, Ready
<1>5. ShutAfterMark'
  <2>1. CASE todo' = todo
    BY <1>1, <2>1 DEF LinkInv, ShutAfterMark
  <2>2. ASSUME NEW t \in Tasks, NEW ops \in Starts, Idle(t), Does(t, ops)
        PROVE  ShutAfterMark'
    <3>1. ops \in Seq(Operations) /\ "shutnow" \notin Names(ops)
      BY StartsFacts
    <3>2. todo'[t] = ops /\ \A u \in Tasks \ {t} : todo'[u] = todo[u]
      BY <2>2, <3>1, DoesFacts
    <3> QED BY <1>1, <3>1, <3>2 DEF LinkInv, ShutAfterMark
  <2> QED BY <1>1, <2>1, <2>2
<1> QED BY <1>1, <1>2, <1>3, <1>4, <1>5 DEF LinkInv, NowPrimary, Cold

(* A step of the driver keeps LinkInv: it posts the event that tells of    *)
(* it.                                                                     *)
LEMMA LinkDriver ==
  ASSUME NetTypes, LinkInv, Driver
  PROVE  LinkInv'
<1>1. UNCHANGED <<prof, inited, target, todo, link, started, grace>>
  BY DEF Driver, JoinEnds, Drop, LoseIp, Cable, OnlyDriver, wifi, ready
<1>2. PICK e \in Signals :
        /\ evq' = Append(evq, e) /\ e \notin {"AP_START", "AP_STOP", "STA_START"}
        /\ radio'.ap = radio.ap
        /\ e = "ETH_UP" => eth'
        /\ eth => eth' \/ e = "ETH_DOWN"
        /\ e = "GOT_IP" => radio'.sta = "ip"
        /\ radio.sta = "ip" => radio'.sta = "ip" \/ e \in StaOffs
        /\ e \in {"DISCONNECTED", "GOT_IP"} => radio.sta \in {"joining", "ip"}
        /\ radio.sta = "off" => radio'.sta = "off"
  <2>1. CASE JoinEnds
    BY <2>1 DEF JoinEnds, Post, Signals, NetTypes
  <2>2. CASE Drop
    BY <2>2 DEF Drop, Post, Signals, NetTypes, StaOffs
  <2>3. CASE LoseIp
    BY <2>3 DEF LoseIp, Post, Signals, NetTypes, StaOffs
  <2>4. CASE Cable
    BY <2>4 DEF Cable, Post, Signals, NetTypes
  <2> QED BY <2>1, <2>2, <2>3, <2>4 DEF Driver
<1>3. PICK s \in Seq(Signals) : s = <<e>> /\ Els(s) = {e} /\ evq' = evq \o s
  <2>1. <<e>> \in Seq(Signals) /\ Els(<<e>>) = {e}
    BY ElsFacts
  <2> QED BY <1>2, <2>1, QueueGrows
<1>4. PublishedUp'
  <2>1. Ready' <=> Ready
    BY <1>1 DEF Ready
  <2> QED BY <1>1, <1>2, <1>3, <2>1, LinksPosted DEF LinkInv
<1>5. Cold'
  <2> SUFFICES ASSUME "WIFI" \notin inited, prof.radio = "now"
               PROVE  Els(evq') \cap {"STA_START", "DISCONNECTED", "GOT_IP"} = {}
    BY <1>1 DEF Cold, LinkInv
  <2>1. Els(evq) \cap {"STA_START", "DISCONNECTED", "GOT_IP"} = {} /\ radio.sta = "off"
    BY DEF LinkInv, Cold
  <2>2. Els(evq') = Els(evq) \cup {e}
    BY <1>2, ElsFacts DEF NetTypes
  <2> QED BY <1>2, <2>1, <2>2
<1> QED BY <1>1, <1>2, <1>4, <1>5 DEF LinkInv, NowPrimary, ShutAfterMark

(* A start, of a node or of the model.                                     *)
LEMMA BootLinks ==
  ASSUME NEW q \in {<<>>, <<"ETH_UP">>}
  PROVE  /\ q \in Seq(Signals) /\ Els(q) \subseteq {"ETH_UP"} /\ (q = <<>> => Els(q) = {})
<1>1. <<>> \in Seq(Signals) /\ <<"ETH_UP">> \in Seq(Signals)
  BY DEF Signals
<1>2. Els(<<>>) = {} /\ Els(<<"ETH_UP">>) = {"ETH_UP"}
  BY ElsFacts
<1> QED BY <1>1, <1>2

(* A power cut keeps LinkInv.                                              *)
LEMMA LinkPowerCut ==
  ASSUME LinkInv, PowerCut
  PROVE  LinkInv'
<1>1. /\ prof' = prof /\ link' = {} /\ radio' = [ap |-> FALSE, sta |-> "off"] /\ target' = "none"
      /\ ~started' /\ ~grace'
      /\ todo' = [t \in Tasks |-> IF t = "aux" THEN AtBoot(prof) ELSE <<>>]
      /\ evq' = IF eth' THEN <<"ETH_UP">> ELSE <<>>
  BY DEF PowerCut
<1>2. PICK q \in {<<>>, <<"ETH_UP">>} : q = evq' /\ (~eth' => q = <<>>)
  BY <1>1
<1>3. q \in Seq(Signals) /\ Els(q) \subseteq {"ETH_UP"} /\ (q = <<>> => Els(q) = {})
  BY BootLinks
<1>4. PublishedUp'
  <2>1. \A x, on, offs : Up(q, x, {}, on, offs) => on = "ETH_UP" /\ eth'
    BY <1>2, <1>3, UpFacts
  <2> QED BY <1>1, <1>2, <2>1 DEF PublishedUp
<1>5. ShutAfterMark'
  BY <1>1, BootTypes DEF ShutAfterMark
<1>6. Cold'
  <2>1. prof.radio = "now" => AtBoot(prof) = << <<"initwifi", "">> >>
    BY DEF LinkInv, NowPrimary, AtBoot
  <2> QED BY <1>1, <1>2, <1>3, <2>1 DEF Cold
<1> QED BY <1>1, <1>4, <1>5, <1>6 DEF LinkInv, NowPrimary

(* LinkInv holds at the start.                                             *)
LEMMA LinkInit ==
  ASSUME Init, \A p \in Profiles : NowPrimary(p)
  PROVE  LinkInv
<1>1. /\ prof \in Profiles /\ link = {} /\ radio = [ap |-> FALSE, sta |-> "off"] /\ target = "none"
      /\ ~started /\ ~grace
      /\ todo = [t \in Tasks |-> IF t = "aux" THEN AtBoot(prof) ELSE <<>>]
      /\ evq = IF eth THEN <<"ETH_UP">> ELSE <<>>
  BY DEF Init
<1>2. PICK q \in {<<>>, <<"ETH_UP">>} : q = evq /\ (~eth => q = <<>>)
  BY <1>1
<1>3. q \in Seq(Signals) /\ Els(q) \subseteq {"ETH_UP"} /\ (q = <<>> => Els(q) = {})
  BY BootLinks
<1>4. PublishedUp
  <2>1. \A x, on, offs : Up(q, x, {}, on, offs) => on = "ETH_UP" /\ eth
    BY <1>2, <1>3, UpFacts
  <2> QED BY <1>1, <1>2, <2>1 DEF PublishedUp
<1>5. ShutAfterMark
  BY <1>1, BootTypes DEF ShutAfterMark
<1>6. Cold
  <2>1. prof.radio = "now" => AtBoot(prof) = << <<"initwifi", "">> >>
    BY <1>1 DEF NowPrimary, AtBoot
  <2> QED BY <1>1, <1>2, <1>3, <2>1 DEF Cold
<1> QED BY <1>1, <1>4, <1>5, <1>6 DEF LinkInv

(* Every step keeps LinkInv.                                               *)
LEMMA LinkStep == NetTypes /\ LinkInv /\ [Next]_vars => LinkInv'
<1> SUFFICES ASSUME NetTypes, LinkInv, [Next]_vars PROVE LinkInv'
  OBVIOUS
<1>1. CASE UNCHANGED vars
  BY <1>1 DEF vars, wifi, driver, ready, LinkInv, PublishedUp, Ready, ShutAfterMark, Cold, NowPrimary
<1> QED BY <1>1, LinkTask, LinkHandle, LinkBegins, LinkDriver, LinkPowerCut DEF Next, Begins, Driver

(* network_ready.c, wifi_manager.c: once the events are dealt with, a link *)
(* that is published as up is up.  For every profile but those that keep   *)
(* the radio for ESP-NOW while WiFi is only their fallback: there the      *)
(* credentials may be saved before the radio is started, which then        *)
(* publishes the station over a target it no longer has.                   *)
THEOREM LinksAreReal ==
  ASSUME \A p \in Profiles : NowPrimary(p)
  PROVE  Spec => []LinksReal
<1>1. Init => LinkInv
  BY LinkInit
<1>2. NetTypes /\ LinkInv /\ [Next]_vars => LinkInv'
  BY LinkStep
<1>3. LinkInv => LinksReal
  <2> SUFFICES ASSUME LinkInv, evq = <<>>
               PROVE  /\ "STA" \in link => radio.sta = "ip" \/ (prof.radio = "now" /\ target = "none")
                      /\ "AP" \in link => radio.ap
                      /\ "ETH" \in link => eth
    BY DEF LinksReal, Quiet
  <2>1. <<>> \in Seq(Signals)
    OBVIOUS
  <2> QED BY <2>1, UpFacts DEF LinkInv, PublishedUp, Ready
<1> QED BY <1>1, <1>2, <1>3, NetTyped, PTL DEF Spec
=============================================================================
