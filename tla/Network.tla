------------------------------ MODULE Network ------------------------------
(***************************************************************************)
(* The network of one node: wifi_manager.c (station, soft AP and the       *)
(* fallback between them), ethernet_manager.c, network_ready.c (which link *)
(* is up, and who is told), the route of cluster_transport.c and the polls *)
(* of core_boot.c that start what depends on a link.                       *)
(*                                                                         *)
(* Four tasks run this code and share its variables without a lock: the    *)
(* event loop, the HTTP server, the timer task and the auxiliary task.     *)
(* What a task still has to do is a sequence of small operations, and a    *)
(* task may be preempted between any two of them; a handler that makes one *)
(* shared change is one step.  The driver and the air are the environment; *)
(* the driver posts its events in order.  Addresses are left out: a link   *)
(* is up or down.                                                          *)
(***************************************************************************)
EXTENDS Naturals, Sequences, FiniteSets

CONSTANTS
    Profiles,   \* network profiles: [primary, fallback, radio]
    MaxRetry,   \* WIFI_STA_MAX_RETRIES
    MaxEvents,  \* bound on driver events waiting
    MaxUpsets   \* by profile, bound on requests, failing calls, lost addresses and restarts

ASSUME NetworkAssumption == MaxRetry \in Nat \ {0} /\ MaxEvents \in Nat \ {0}

Tasks == {"event", "http", "timer", "aux"}
Links == {"AP", "STA", "ETH"}

VARIABLES
    prof,       \* device_network_profile_t, as normalised
    creds,      \* credentials in flash
    inited,     \* managers that were initialised
    target,     \* wifi_target_mode
    st,         \* wifi_status: state and retry_count
    grace,      \* wifi_ap_grace_timer is armed
    radio,      \* driver: soft AP on, and what the station does
    eth,        \* the cable gives an address
    evq,        \* the event loop's queue
    todo,       \* what each task still has to do
    link,       \* link_state of network_ready.c
    pend,       \* pending_cluster_link, "NONE" when nothing is pending
    started,    \* http_started and transport_started
    route,      \* active_type of cluster_transport.c
    late,       \* history: the last snapshot told was no longer the current one
    excuse,     \* history: two tasks reconfigured the radio at once, it refused the AP, or
                \* a call to connect failed and nobody looked
    upsets      \* how many of these there have been

wifi == <<target, st, grace>>
driver == <<radio, eth>>
ready == <<link, pend, started, route, late>>
vars == <<prof, creds, inited, wifi, driver, evq, todo, ready, excuse, upsets>>

Upset == upsets < MaxUpsets[prof] /\ upsets' = upsets + 1

-----------------------------------------------------------------------------
(* Which link is active, and which transport the cluster uses.             *)

Active(up) ==
    IF "ETH" \in up THEN "ETH" ELSE IF "STA" \in up THEN "STA" ELSE IF "AP" \in up THEN "AP" ELSE "NONE"

\* device_profile_transport_enabled; what it does not know it allows.
Enabled(x) == x \in {"WIFI", "ETHERNET", "RS485"} => x \in {prof.primary, prof.fallback}

Best(up) ==
    CASE prof.primary = "ETHERNET" /\ "ETH" \in up -> "eth-udp"
      [] prof.primary = "RS485" /\ Enabled("RS485") -> "rs485"
      [] prof.primary = "WIFI" /\ up \cap {"STA", "AP"} # {} -> "wifi-udp"
      [] OTHER ->
         CASE "ETH" \in up /\ Enabled("ETHERNET") -> "eth-udp"
           [] "ETH" \notin up /\ up \cap {"STA", "AP"} # {} /\ prof.radio = "now" -> "now"
           [] "ETH" \notin up /\ up \cap {"STA", "AP"} # {} /\ prof.radio # "now" /\ Enabled("WIFI") -> "wifi-udp"
           [] OTHER -> IF Enabled("ESPNOW") THEN "now" ELSE IF Enabled("RS485") THEN "rs485" ELSE "none"

\* What applying a snapshot leaves as the route, and which route stands in.
StandIn == IF Enabled("RS485") THEN "rs485" ELSE route
Applied(up) == IF Best(up) # "none" THEN Best(up) ELSE StandIn

\* Mutant: the loss of the last link is not told.
NewsOfUp(old, new) == old # new /\ new # {}

\* Whether the callbacks are called: any difference between two snapshots.
News(old, new) == old # new

-----------------------------------------------------------------------------
(* The operations of a task.                                               *)

Now(t, name) == todo[t] # <<>> /\ Head(todo[t])[1] = name
Arg(t) == Head(todo[t])[2]
Then(t, ops) == todo' = [todo EXCEPT ![t] = ops \o Tail(@)]

Fallback == << <<"mark", "ap">>, <<"drive", "ap">> >>
StartSta(mode) == << <<"mark", mode>>, <<"drive", mode>> >>

\* With credentials in flash the station, without them the fallback.
FromFlash == IF creds THEN StartSta("sta") ELSE Fallback

\* The station is part of what the manager is after.
StaWanted == target \in {"sta", "trans"}

Reconfigures(op) == op[1] \in {"mark", "drive", "shutnow"}
Crossing(t) ==
    IF \E u \in Tasks \ {t} : \E i \in DOMAIN todo[u] : Reconfigures(todo[u][i]) THEN {"overlap"} ELSE {}

\* The callbacks, told of snapshot up: something to start, and the cluster's route.
Told(up) ==
    /\ pend' = IF up = {} THEN pend ELSE Active(up)
    /\ route' = IF started THEN Applied(up) ELSE route
    /\ UNCHANGED started

\* A link is published; the callbacks are told if the snapshot has changed.
Publish(up) ==
    /\ link' = up
    /\ IF News(link, up) THEN Told(up) /\ late' = FALSE ELSE UNCHANGED <<pend, started, route, late>>

Notify(t) ==
    /\ Now(t, "notify")
    /\ Told(Arg(t))
    /\ late' = (Arg(t) # link)
    /\ Then(t, <<>>)
    /\ UNCHANGED <<prof, creds, inited, wifi, driver, evq, link, excuse, upsets>>

\* cluster_transport_start applies the snapshot it has read.
ApplyRead(t) ==
    /\ Now(t, "apply")
    /\ route' = Applied(Arg(t))
    /\ late' = (Arg(t) # link)
    /\ Then(t, <<>>)
    /\ UNCHANGED <<prof, creds, inited, wifi, driver, evq, link, pend, started, excuse, upsets>>

\* The target mode and the status that goes with it, and the links that go down.
Mark(t) ==
    /\ Now(t, "mark")
    /\ target' = Arg(t)
    /\ st' = [state |-> IF Arg(t) = "ap" THEN "fallback" ELSE "connecting", retry |-> 0]
    /\ LET up == link \ (IF Arg(t) = "ap" THEN {"STA"} ELSE {"STA", "AP"})
       IN  link' = up /\ Then(t, IF News(link, up) THEN << <<"notify", up>> >> ELSE <<>>)
    /\ excuse' = excuse \cup Crossing(t)
    /\ UNCHANGED <<prof, creds, inited, grace, driver, evq, pend, started, route, late, upsets>>

Left == IF radio.sta \in {"joining", "ip"} THEN <<"DISCONNECTED">> ELSE <<>>
Stopped == Left \o (IF radio.ap THEN <<"AP_STOP">> ELSE <<>>)

\* esp_wifi_connect: an idle station begins to join, which lasts until it has an
\* address.  A call that fails changes nothing, and its result is not looked at.
Joins(sta, old) ==
    \/ sta = (IF radio.sta = "idle" THEN "joining" ELSE radio.sta) /\ excuse' = old /\ UNCHANGED upsets
    \/ radio.sta = "idle" /\ Upset /\ sta = "idle" /\ excuse' = old \cup {"unseen"}

\* The calls of the driver: leave, stop, set the mode, start.  In the transition
\* the AP is kept and the station only asked to connect.
Drive(t) ==
    /\ Now(t, "drive")
    /\ "WIFI" \in inited
    /\ LET old == (excuse \ {"unseen"}) \cup Crossing(t)
       IN  CASE Arg(t) = "ap" ->
                   /\ radio' = [ap |-> TRUE, sta |-> "idle"]
                   /\ evq' = evq \o Stopped \o <<"AP_START", "STA_START">>
                   /\ excuse' = old /\ UNCHANGED upsets
             [] Arg(t) = "sta" ->
                   /\ radio' = [ap |-> FALSE, sta |-> "idle"]
                   /\ evq' = evq \o Stopped \o <<"STA_START">>
                   /\ excuse' = old /\ UNCHANGED upsets
             [] Arg(t) = "trans" ->
                   /\ \E sta \in {radio.sta, "joining"} : radio' = [ap |-> TRUE, sta |-> sta] /\ Joins(sta, old)
                   /\ evq' = evq \o (IF radio.ap THEN <<>> ELSE <<"AP_START">>)
    /\ Then(t, <<>>)
    /\ UNCHANGED <<prof, creds, inited, target, st, grace, eth, ready>>

\* A call fails, as it does before the manager is initialised: the station gives
\* way to the fallback, which has no other.
DriveFails(t) ==
    /\ Now(t, "drive")
    /\ IF "WIFI" \in inited THEN Upset ELSE UNCHANGED upsets
    /\ IF Arg(t) = "trans" THEN UNCHANGED <<radio, evq>>
       ELSE radio' = [ap |-> FALSE, sta |-> "off"] /\ evq' = evq \o Stopped
    /\ st' = [st EXCEPT !.state = "error"]
    /\ Then(t, IF Arg(t) = "ap" THEN <<>> ELSE Fallback)
    /\ excuse' = excuse \cup Crossing(t) \cup (IF Arg(t) = "ap" /\ "WIFI" \in inited THEN {"refused"} ELSE {})
    /\ UNCHANGED <<prof, creds, inited, target, grace, eth, ready>>

Connect(t) ==
    /\ Now(t, "connect")
    /\ \E sta \in {radio.sta, "joining"} : radio' = [radio EXCEPT !.sta = sta] /\ Joins(sta, excuse)
    /\ Then(t, <<>>)
    /\ UNCHANGED <<prof, creds, inited, wifi, eth, evq, ready>>

\* Mutant: the count of retries is not carried on.
JudgeForever(t) ==
    /\ Now(t, "judge")
    /\ Then(t, IF ~StaWanted THEN <<>> ELSE << <<"retry", st.retry>> >>)
    /\ UNCHANGED <<prof, creds, inited, wifi, driver, evq, ready, excuse, upsets>>

\* After a disconnection: another try, or the fallback when the tries are used up.
Judge(t) ==
    /\ Now(t, "judge")
    /\ Then(t, IF ~StaWanted THEN <<>>
               ELSE IF st.retry < MaxRetry THEN << <<"retry", st.retry + 1>> >> ELSE Fallback)
    /\ UNCHANGED <<prof, creds, inited, wifi, driver, evq, ready, excuse, upsets>>

Retry(t) ==
    /\ Now(t, "retry")
    /\ st' = [state |-> "retrying", retry |-> Arg(t)]
    /\ Then(t, << <<"connect", "">> >>)
    /\ UNCHANGED <<prof, creds, inited, target, grace, driver, evq, ready, excuse, upsets>>

\* The end of the transition: the target is looked at, then the AP is dropped.
Shut(t) ==
    /\ Now(t, "shut")
    /\ Then(t, IF target = "trans" THEN << <<"shutnow", "">> >> ELSE <<>>)
    /\ UNCHANGED <<prof, creds, inited, wifi, driver, evq, ready, excuse, upsets>>

ShutNow(t) ==
    /\ Now(t, "shutnow")
    /\ target' = "sta"
    /\ radio' = [radio EXCEPT !.ap = FALSE]
    /\ evq' = IF radio.ap THEN Append(evq, "AP_STOP") ELSE evq
    /\ excuse' = excuse \cup Crossing(t)
    /\ Then(t, <<>>)
    /\ UNCHANGED <<prof, creds, inited, st, grace, eth, ready, upsets>>

\* wifi_manager_init: once, and by the kind of radio the profile asks for.
InitWifi(t) ==
    /\ Now(t, "initwifi")
    /\ inited' = inited \cup {"WIFI"}
    /\ IF "WIFI" \in inited
       THEN Then(t, <<>>) /\ UNCHANGED <<radio, evq, ready>>
       ELSE IF prof.radio = "now"
       THEN /\ radio' = [ap |-> TRUE, sta |-> "idle"]
            /\ evq' = evq \o <<"STA_START", "AP_START">>
            /\ Publish(link \cup {"STA"})
            /\ Then(t, <<>>)
       ELSE /\ radio' = [ap |-> FALSE, sta |-> "idle"]
            /\ evq' = Append(evq, "STA_START")
            /\ Then(t, FromFlash)
            /\ UNCHANGED ready
    /\ UNCHANGED <<prof, creds, target, st, grace, eth, excuse, upsets>>

\* wifi_manager_try_reconnect, once the manager is initialised.
Reconnect(t) ==
    /\ Now(t, "reconnect")
    /\ Then(t, FromFlash)
    /\ UNCHANGED <<prof, creds, inited, wifi, driver, evq, ready, excuse, upsets>>

\* One operation of task t.
Step(t) ==
    \/ Notify(t) \/ ApplyRead(t) \/ Mark(t) \/ Drive(t) \/ DriveFails(t)
    \/ Connect(t) \/ Judge(t) \/ Retry(t) \/ Shut(t) \/ ShutNow(t)
    \/ InitWifi(t) \/ Reconnect(t)

-----------------------------------------------------------------------------
(* What the tasks wait for.                                                *)

Idle(t) == todo[t] = <<>>
Does(t, ops) == todo' = [todo EXCEPT ![t] = ops]

\* The event loop takes the next event, e.
Event(e) ==
    /\ Idle("event")
    /\ evq # <<>> /\ Head(evq) = e
    /\ evq' = Tail(evq)
    /\ UNCHANGED <<prof, creds, inited, target, driver, excuse, upsets>>

OnStaStart ==
    /\ Event("STA_START")
    /\ Does("event", IF StaWanted THEN << <<"connect", "">> >> ELSE <<>>)
    /\ UNCHANGED <<st, grace, ready>>

\* Mutant: a disconnection is ignored unless the station is wanted.
OnDisconnectedIfWanted ==
    /\ Event("DISCONNECTED")
    /\ Does("event", IF StaWanted THEN << <<"judge", "">> >> ELSE <<>>)
    /\ IF StaWanted THEN Publish(link \ {"STA"}) ELSE UNCHANGED ready
    /\ UNCHANGED <<st, grace>>

\* The link goes down first, whatever the target; then the retry is decided.
OnDisconnected ==
    /\ Event("DISCONNECTED")
    /\ Publish(link \ {"STA"})
    /\ Does("event", << <<"judge", "">> >>)
    /\ UNCHANGED <<st, grace>>

\* An address: the status and the link, and the timer that ends the transition.
OnGotIp ==
    /\ Event("GOT_IP")
    /\ st' = [state |-> "connected", retry |-> 0]
    /\ Publish(link \cup {"STA"})
    /\ grace' = (grace \/ target = "trans")
    /\ UNCHANGED todo

OnLostIp ==
    /\ Event("LOST_IP")
    /\ Publish(link \ {"STA"})
    /\ grace' = (grace /\ target # "trans")
    /\ UNCHANGED <<st, todo>>

OnAp ==
    /\ \/ Event("AP_START") /\ Publish(link \cup {"AP"})
       \/ Event("AP_STOP") /\ Publish(link \ {"AP"})
    /\ UNCHANGED <<st, grace, todo>>

OnEthernet ==
    /\ \/ Event("ETH_UP") /\ Publish(link \cup {"ETH"})
       \/ Event("ETH_DOWN") /\ Publish(link \ {"ETH"})
    /\ UNCHANGED <<st, grace, todo>>

Handle == OnStaStart \/ OnDisconnected \/ OnGotIp \/ OnLostIp \/ OnAp \/ OnEthernet

\* Physically there is a way to reach the node's web server.
Reachable == radio.ap \/ radio.sta = "ip" \/ eth

Request ==
    /\ Idle("http")
    /\ started
    /\ Reachable
    /\ UNCHANGED <<prof, inited, target, st, driver, evq, ready, excuse>>

\* New credentials: written first; then the station is tried with the AP kept.
Save ==
    /\ Request /\ Upset
    /\ Enabled("WIFI")
    /\ creds' = TRUE
    /\ Does("http", StartSta("trans"))
    /\ UNCHANGED grace

\* The user has reached the node through the station: the AP may go.
Confirm ==
    /\ Request
    /\ target = "trans"
    /\ grace' = FALSE
    /\ Does("http", << <<"shut", "">> >>)
    /\ UNCHANGED <<creds, upsets>>

\* The recovery page: try the station again, or go to the fallback AP.
Recover ==
    /\ Request /\ Upset
    /\ Enabled("WIFI")
    /\ \/ Does("http", << <<"initwifi", "">>, <<"reconnect", "">> >>)
       \/ Does("http", << <<"initwifi", "">> >> \o Fallback)
    /\ UNCHANGED <<creds, grace>>

GraceOver ==
    /\ grace
    /\ Idle("timer")
    /\ grace' = FALSE
    /\ Does("timer", << <<"shut", "">> >>)
    /\ UNCHANGED <<prof, creds, inited, target, st, driver, evq, ready, excuse, upsets>>

\* The auxiliary task starts the web server and the cluster at the first link.
StartPoll ==
    /\ Idle("aux")
    /\ pend # "NONE"
    /\ pend' = "NONE"
    /\ started' = TRUE
    /\ Does("aux", IF started THEN <<>> ELSE << <<"apply", link>> >>)
    /\ UNCHANGED <<prof, creds, inited, wifi, driver, evq, link, route, late, excuse, upsets>>

PrimaryUp == CASE prof.primary = "WIFI" -> link \cap {"STA", "AP"} # {}
               [] prof.primary = "ETHERNET" -> "ETH" \in link
               [] OTHER -> TRUE

InitEthernet == inited' = inited \cup {"ETHERNET"}

\* ... and the fallback transport when the primary has been down long enough.
PolicyPoll ==
    /\ Idle("aux")
    /\ ~PrimaryUp
    /\ prof.fallback \in {"WIFI", "ETHERNET"} \ inited
    /\ IF prof.fallback = "WIFI"
       THEN Does("aux", << <<"initwifi", "">> >>) /\ UNCHANGED inited
       ELSE InitEthernet /\ UNCHANGED todo
    /\ UNCHANGED <<prof, creds, wifi, driver, evq, ready, excuse, upsets>>

-----------------------------------------------------------------------------
(* The driver, the air and the cable.                                      *)

Room == Len(evq) < MaxEvents
Post(e) == evq' = Append(evq, e)
OnlyDriver == UNCHANGED <<prof, creds, inited, wifi, todo, ready, excuse>>

\* An attempt to join ends with an address or with a disconnection; or never: an
\* association without an answer of the DHCP server has no time-out.
JoinEnds ==
    /\ radio.sta = "joining"
    /\ \/ radio' = [radio EXCEPT !.sta = "ip"] /\ Post("GOT_IP")
       \/ radio' = [radio EXCEPT !.sta = "idle"] /\ Post("DISCONNECTED")
    /\ OnlyDriver /\ UNCHANGED upsets
    /\ UNCHANGED eth

Drop ==
    /\ Room
    /\ radio.sta = "ip"
    /\ radio' = [radio EXCEPT !.sta = "idle"]
    /\ Post("DISCONNECTED")
    /\ OnlyDriver /\ UNCHANGED upsets
    /\ UNCHANGED eth

\* The address is lost, some time after the association or while it lives on.
LoseIp ==
    /\ Room /\ Upset
    /\ radio' = [radio EXCEPT !.sta = IF @ = "ip" THEN "joining" ELSE @]
    /\ Post("LOST_IP")
    /\ OnlyDriver
    /\ UNCHANGED eth

Cable ==
    /\ Room /\ Upset
    /\ "ETHERNET" \in inited
    /\ eth' = ~eth
    /\ Post(IF eth THEN "ETH_DOWN" ELSE "ETH_UP")
    /\ OnlyDriver
    /\ UNCHANGED radio

\* What a start finds: the managers the profile starts at once, and a cable that
\* may already be plugged.
Plugged == IF prof.primary = "ETHERNET" THEN BOOLEAN ELSE {FALSE}
AtBoot(p) == IF p.primary = "WIFI" THEN << <<"initwifi", "">> >> ELSE <<>>

PowerCut ==
    /\ Upset
    /\ inited' = {prof.primary} \cap {"ETHERNET"}
    /\ target' = "none" /\ st' = [state |-> "idle", retry |-> 0] /\ grace' = FALSE
    /\ radio' = [ap |-> FALSE, sta |-> "off"]
    /\ eth' \in Plugged
    /\ evq' = IF eth' THEN <<"ETH_UP">> ELSE <<>>
    /\ todo' = [t \in Tasks |-> IF t = "aux" THEN AtBoot(prof) ELSE <<>>]
    /\ link' = {} /\ pend' = "NONE" /\ started' = FALSE /\ route' = "none" /\ late' = FALSE
    /\ excuse' = {}
    /\ UNCHANGED <<prof, creds>>

Init ==
    /\ prof \in Profiles
    /\ creds \in BOOLEAN
    /\ inited = {prof.primary} \cap {"ETHERNET"}
    /\ target = "none" /\ st = [state |-> "idle", retry |-> 0] /\ grace = FALSE
    /\ radio = [ap |-> FALSE, sta |-> "off"]
    /\ eth \in Plugged
    /\ evq = IF eth THEN <<"ETH_UP">> ELSE <<>>
    /\ todo = [t \in Tasks |-> IF t = "aux" THEN AtBoot(prof) ELSE <<>>]
    /\ link = {} /\ pend = "NONE" /\ started = FALSE /\ route = "none" /\ late = FALSE
    /\ excuse = {}
    /\ upsets = 0

Next ==
    \/ \E t \in Tasks : Step(t)
    \/ Handle \/ Save \/ Confirm \/ Recover \/ GraceOver \/ StartPoll \/ PolicyPoll
    \/ JoinEnds \/ Drop \/ LoseIp \/ Cable \/ PowerCut

\* A task that has something to do goes on; the auxiliary task comes round.
\* Nothing is assumed of users, cables or the air, nor that a join ends.
Fairness ==
    /\ \A t \in Tasks : WF_vars(Step(t))
    /\ WF_vars(Handle) /\ WF_vars(StartPoll) /\ WF_vars(PolicyPoll)

Spec == Init /\ [][Next]_vars /\ Fairness

-----------------------------------------------------------------------------
(* What the node promises.                                                 *)

Quiet == evq = <<>> /\ \A t \in Tasks : Idle(t)

\* A link that is published as up is up, once the events are dealt with: no
\* order of events, reconfigurations and requests leaves one published that
\* the radio or the cable has lost.
LinksReal ==
    Quiet => /\ "STA" \in link => radio.sta = "ip" \/ (prof.radio = "now" /\ target = "none")
             /\ "AP" \in link => radio.ap
             /\ "ETH" \in link => eth

\* Once everything is dealt with the cluster's route is the one that the links
\* published ask for, whatever the order of events, requests and the cluster's
\* own start, unless a task was preempted between taking a snapshot and using it
\* and the route was last set from one that was no longer true.
RouteFresh == Quiet /\ started /\ ~late => route = Applied(link)

\* The same without the exception.
RouteAlways == Quiet /\ started => route = Applied(link)

\* The station never joins for ever: each association has its address or ends.
JoinsEnd == []<>(radio.sta # "joining")

\* However the station fails, the node can be reached again: by an address or by
\* its own AP, as long as no join lasts for ever.  Two tasks reconfiguring the
\* radio at once, a driver that refuses the fallback and a failed call to
\* connect, until the next change of mode, are the only exceptions.
EntryReturns == JoinsEnd => []<>(Reachable \/ excuse # {})

\* The same without the exception for two tasks at once, without the one for a
\* failed call, and where a join may last for ever.
EntryAlways == JoinsEnd => []<>(Reachable \/ excuse \cap {"refused", "unseen"} # {})
EntryWhenUnseen == JoinsEnd => []<>(Reachable \/ excuse \cap {"refused", "overlap"} # {})
EntryWhenJoining == []<>(Reachable \/ excuse # {})

\* The status is that of the station: connected only with an address.
StatusTrue == Quiet /\ st.state = "connected" => radio.sta = "ip"

\* A node whose profile has RS-485 as its fallback uses it when every link is down.
FailsOver ==
    Quiet /\ started /\ link = {} /\ prof.fallback = "RS485" => route = "rs485"
=============================================================================
