----------------------------- MODULE NetPolicy -----------------------------
(***************************************************************************)
(* The network policy of one node and what is kept of it: device_profile.c *)
(* (normalisation, the blobs of four versions, templates), the claim and   *)
(* the factory reset of endap_onboarding.c, and the requests that change   *)
(* them.  The web server and the task that receives cluster frames both    *)
(* change the policy, without a lock: a change in memory, the copy into a  *)
(* blob and the write are separate steps, and power may be cut between     *)
(* any two of them.                                                        *)
(*                                                                         *)
(* A policy is what is enabled (on), the radio's mode, whether onboarding  *)
(* is pending, and the primary and the fallback transport.  Delays, pins   *)
(* and labels are left out.                                                *)
(***************************************************************************)
EXTENDS Naturals, Sequences, FiniteSets

CONSTANTS
    Supported,  \* transports the build supports
    Offered,    \* the policies a transport swap may ask for: [on, mode, prim, fall]
    Old,        \* blobs found at the first start
    MaxOps,     \* bound on requests and power cuts
    MaxFail     \* bound on failed writes

Transports == {"WIFI", "ETHERNET", "RS485"}
Modes == {"infra", "now"}
Profiles == {"GATEWAY", "FIELD", "RELAY", "SENSOR"}
Tasks == {"http", "rx"}

Choices == Transports \cup {"NONE", "ESPNOW", "MESH"}
Policy == [on : SUBSET Transports, mode : Modes, pend : BOOLEAN, prim : Choices, fall : Choices]

NoBlob == [ver |-> 0]
Blobs == {NoBlob} \cup [ver : 1..4, policy : Policy]

ConstantsOK ==
    /\ Supported \subseteq Transports
    /\ Offered \subseteq [on : SUBSET Transports, mode : Modes, prim : Choices, fall : Choices]
    /\ Old \subseteq Blobs

VARIABLES
    ram,    \* network_profile
    node,   \* current_node_profile
    blob,   \* flash: the network blob
    key,    \* flash: node_profile, "none" when absent
    onb,    \* flash: profile of the onboarding record, "none" when absent
    active, \* memory: the onboarding state is ACTIVE
    todo,   \* what each task still has to do
    stale,  \* history: a write failed, or put down a copy older than memory
    lost,   \* history: the write of the profile or the erasure of the record failed, unnoticed
    crossed,\* history: both tasks were at it at once
    ops, fails

vars == <<ram, node, blob, key, onb, active, todo, stale, lost, crossed, ops, fails>>

-----------------------------------------------------------------------------
(* The policy.                                                             *)

First(order, s) ==
    IF \E i \in DOMAIN order : order[i] \in s
    THEN order[CHOOSE i \in DOMAIN order : order[i] \in s /\ \A j \in 1..(i - 1) : order[j] \notin s]
    ELSE "NONE"

\* RS-485 only while it is enabled; what is not an IP or serial transport always.
Allowed(t, p) == t \in Transports => t \in Supported /\ (t = "RS485" => t \in p.on)

\* RS-485 follows the two choices, and stays as it is when it is neither.
Serial(p, prim, fall) ==
    Supported \cap {"RS485"} \cap ({prim, fall} \cup p.on)

Normal(p) ==
    IF p.pend
    THEN [p EXCEPT !.prim = First(<<"WIFI", "ETHERNET">>, Supported), !.fall = "NONE", !.on = Supported \cap {"WIFI"}]
    ELSE LET prim == IF Allowed(p.prim, p) THEN p.prim
                     ELSE First(<<"ETHERNET", "WIFI", "RS485">>, Supported \cap (p.on \cup {"ETHERNET", "WIFI"}))
             fall == IF Allowed(p.fall, p) /\ p.fall # prim THEN p.fall ELSE "NONE"
             ip == IF prim \in {"WIFI", "ETHERNET"} THEN {prim, fall} \cap {"WIFI", "ETHERNET"} ELSE {}
         IN  [p EXCEPT !.prim = prim, !.fall = fall, !.on = ip \cup Serial(p, prim, fall)]

\* The choice by hand: Ethernet before WiFi before RS-485.
Manual(on, mode) ==
    LET order == <<"ETHERNET", "WIFI", "RS485">>
        prim == First(order, on)
    IN  [on |-> on, mode |-> mode, pend |-> FALSE, prim |-> prim, fall |-> First(order, on \ {prim})]

Default == [on |-> Supported \cap {"WIFI"}, mode |-> "infra", pend |-> TRUE,
            prim |-> First(<<"WIFI", "ETHERNET">>, Supported), fall |-> "NONE"]

\* Version 1 knew two switches and no choice.
Legacy(on) ==
    [Default EXCEPT !.on = on, !.pend = FALSE,
                    !.prim = First(<<"ETHERNET", "WIFI">>, on),
                    !.fall = IF {"ETHERNET", "WIFI"} \subseteq on THEN "WIFI" ELSE "NONE"]

\* Mutant: a blob of the present version is read like one of version 2.
LoadedAsOld(b) ==
    IF b.ver = 0 THEN Default ELSE [b.policy EXCEPT !.on = (@ \cap Supported) \ {"RS485"}, !.mode = "infra"]

\* What a start makes of a blob; version 2 had neither RS-485 nor a mode.
Loaded(b) ==
    CASE b.ver \in {3, 4} -> [b.policy EXCEPT !.on = @ \cap Supported]
      [] b.ver = 2 -> [b.policy EXCEPT !.on = (@ \cap Supported) \ {"RS485"}, !.mode = "infra"]
      [] b.ver = 1 -> Legacy((b.policy.on \cap Supported) \ {"RS485"})
      [] b.ver = 0 -> Default

\* The networks of the four templates.
Rs == Supported \cap {"RS485"}
GatewayNet == [on |-> {"WIFI"} \cup Rs, mode |-> "infra", pend |-> FALSE, prim |-> "WIFI",
               fall |-> First(<<"RS485">>, Rs)]
SensorNet == [GatewayNet EXCEPT !.pend = TRUE]
RelayNet == [on |-> {"WIFI"} \cup Rs, mode |-> "infra", pend |-> TRUE,
             prim |-> First(<<"RS485", "WIFI">>, {"WIFI"} \cup Rs), fall |-> "NONE"]
FieldNet == [RelayNet EXCEPT !.fall = IF Rs # {} THEN "WIFI" ELSE "NONE"]

Template(profile) ==
    CASE profile = "GATEWAY" -> GatewayNet [] profile = "SENSOR" -> SensorNet
      [] profile = "RELAY" -> RelayNet [] profile = "FIELD" -> FieldNet

-----------------------------------------------------------------------------
(* The steps of a task.                                                    *)

Now(t, name) == todo[t] # <<>> /\ Head(todo[t])[1] = name
Arg(t) == Head(todo[t])[2]
Then(t, steps) == todo' = [todo EXCEPT ![t] = steps \o Tail(@)]
Fail == fails < MaxFail /\ fails' = fails + 1

\* device_profile_set_network_enabled; a transport that is not supported ends it.
Enable(t) ==
    /\ Now(t, "enable")
    /\ LET a == Arg(t)
       IN  IF a.on \subseteq Supported
           THEN ram' = Normal(Manual(a.on, a.mode)) /\ Then(t, << <<"copy", "">> >>)
           ELSE UNCHANGED ram /\ Then(t, <<>>)
    /\ UNCHANGED <<node, blob, key, onb, active, stale, lost, crossed, ops, fails>>

\* device_profile_set_transport_policy.
Choose(t) ==
    /\ Now(t, "choose")
    /\ LET a == Arg(t)
       IN  ram' = Normal([ram EXCEPT !.pend = a.pend, !.prim = a.prim, !.fall = a.fall])
    /\ Then(t, << <<"copy", "">> >>)
    /\ UNCHANGED <<node, blob, key, onb, active, stale, lost, crossed, ops, fails>>

\* device_profile_persist_network_config: the blob is put together, then written.
Copy(t) ==
    /\ Now(t, "copy")
    /\ Then(t, << <<"write", [ver |-> 4, policy |-> ram]>> >>)
    /\ UNCHANGED <<ram, node, blob, key, onb, active, stale, lost, crossed, ops, fails>>

Write(t) ==
    /\ Now(t, "write")
    /\ \/ blob' = Arg(t) /\ stale' = (Arg(t).policy # ram) /\ UNCHANGED fails
       \/ Fail /\ stale' = TRUE /\ UNCHANGED blob
    /\ Then(t, <<>>)
    /\ UNCHANGED <<ram, node, key, onb, active, lost, crossed, ops>>

\* device_profile_set_current: nobody looks at the result of the write.
SetNode(t) ==
    /\ Now(t, "node")
    /\ node' = Arg(t)
    /\ \/ key' = Arg(t) /\ UNCHANGED <<lost, fails>>
       \/ Fail /\ lost' = TRUE /\ UNCHANGED key
    /\ Then(t, <<>>)
    /\ UNCHANGED <<ram, blob, onb, active, stale, crossed, ops>>

\* The onboarding record is written last by a claim and erased first by a reset;
\* memory changes whether or not flash does.
Record(t) ==
    /\ Now(t, "record")
    /\ active' = (Arg(t) # "none")
    /\ \/ onb' = Arg(t) /\ UNCHANGED <<lost, fails>>
       \/ Fail /\ lost' = (lost \/ Arg(t) = "none") /\ UNCHANGED onb
    /\ Then(t, <<>>)
    /\ UNCHANGED <<ram, node, blob, key, stale, crossed, ops>>

Erase(t) ==
    /\ Now(t, "erase")
    /\ \/ blob' = NoBlob /\ key' = "none" /\ stale' = (ram # Normal(Default)) /\ UNCHANGED fails
       \/ Fail /\ stale' = TRUE /\ UNCHANGED <<blob, key>>
    /\ Then(t, <<>>)
    /\ UNCHANGED <<ram, node, onb, active, lost, crossed, ops>>

Step(t) == Enable(t) \/ Choose(t) \/ Copy(t) \/ Write(t) \/ SetNode(t) \/ Record(t) \/ Erase(t)

-----------------------------------------------------------------------------
(* The requests.                                                           *)

Begin(t, steps) ==
    /\ ops < MaxOps /\ ops' = ops + 1
    /\ todo[t] = <<>>
    /\ todo' = [todo EXCEPT ![t] = steps]
    /\ crossed' = (crossed \/ \E u \in Tasks : todo[u] # <<>>)
    /\ UNCHANGED <<ram, node, blob, key, onb, active, stale, lost, fails>>

\* device_profile_apply_template.
ApplyTemplate(profile) ==
    LET p == Template(profile)
    IN  << <<"enable", [on |-> p.on, mode |-> p.mode]>>,
           <<"choose", [pend |-> p.pend, prim |-> p.prim, fall |-> p.fall]>>,
           <<"node", profile>> >>

NetworkConfig == \E on \in SUBSET Transports, mode \in Modes :
    Begin("http", << <<"enable", [on |-> on, mode |-> mode]>> >>)

\* A swap asked for by the gateway that owns the node: only when it is active.
TransportSet ==
    /\ active
    /\ \E q \in Offered :
          Begin("rx", << <<"enable", [on |-> q.on, mode |-> q.mode]>>,
                         <<"choose", [pend |-> FALSE, prim |-> q.prim, fall |-> q.fall]>> >>)

\* Mutant: the record is written before the profile.
ClaimRecordFirst(t, profile) == Begin(t, << <<"record", profile>> >> \o ApplyTemplate(profile))

\* Claimed by its own page or by a frame of a gateway.
Claim(t, profile) == Begin(t, ApplyTemplate(profile) \o << <<"record", profile>> >>)

OnboardingReset == Begin("http", << <<"record", "none">> >>)

FactoryReset ==
    Begin("http", << <<"record", "none">>, <<"node", "FIELD">> >> \o ApplyTemplate("FIELD") \o << <<"erase", "">> >>)

\* What a start reads; a gateway without a record is active and gets one.
Booted(b, k, o) ==
    /\ ram' = Normal(Loaded(b))
    /\ node' = IF k = "none" THEN "FIELD" ELSE k
    /\ active' = (o # "none" \/ k = "GATEWAY")
    /\ \/ onb' = (IF o = "none" /\ k = "GATEWAY" THEN "GATEWAY" ELSE o) /\ UNCHANGED fails
       \/ o = "none" /\ k = "GATEWAY" /\ Fail /\ UNCHANGED onb

PowerCut ==
    /\ ops < MaxOps /\ ops' = ops + 1
    /\ Booted(blob, key, onb)
    /\ todo' = [t \in Tasks |-> <<>>]
    /\ stale' = FALSE
    /\ UNCHANGED <<blob, key, lost, crossed>>

Init ==
    /\ blob \in Old
    /\ ram = Normal(Loaded(blob))
    /\ node = "FIELD" /\ key = "none" /\ onb = "none" /\ active = FALSE
    /\ todo = [t \in Tasks |-> <<>>]
    /\ stale = FALSE /\ lost = FALSE /\ crossed = FALSE
    /\ ops = 0 /\ fails = 0

Next ==
    \/ \E t \in Tasks : Step(t) \/ \E profile \in Profiles : Claim(t, profile)
    \/ NetworkConfig \/ TransportSet \/ OnboardingReset \/ FactoryReset \/ PowerCut

Spec == Init /\ [][Next]_vars

-----------------------------------------------------------------------------
(* What the configuration promises.                                        *)

Quiet == \A t \in Tasks : todo[t] = <<>>

\* Once the requests are done, a restart brings back the policy in force: what
\* is enabled, the mode, the choice and the state of onboarding survive the blob,
\* its versions and a second normalisation, unless the last write failed or was
\* of a copy that the other task had overtaken.
PolicyKept == Quiet /\ ~stale => Normal(Loaded(blob)) = ram

\* The same without the exception for two tasks at once.
PolicyKeptAlways == Quiet /\ fails = 0 => Normal(Loaded(blob)) = ram

\* A node with an onboarding record has its profile in flash, wherever power was
\* cut in a claim or a reset: the record is written last and erased first.
ClaimedHasProfile == onb # "none" /\ ~lost /\ ~crossed => key # "none"

\* A start without the profile key forces onboarding.
OnboardingForced == [][PowerCut /\ key = "none" => ram'.pend]_vars

\* The fallback of a policy that is in force is enabled.
FallbackUsable == ram.fall \in Transports => ram.fall \in ram.on
=============================================================================
