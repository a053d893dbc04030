------------------------------ MODULE Adoption ------------------------------
(* How a gateway adopts field nodes: the remote claim                      *)
(* (cluster_transport_send_remote_claim and its answer), the onboarding    *)
(* state each node keeps in flash (endap_onboarding), and the gateway's    *)
(* node registry with its own copy in flash (node_registry).               *)
(*                                                                         *)
(* The gateway runs one HTTP task, which carries out one request at a      *)
(* time; its receiver task takes answers and heartbeats meanwhile.  A      *)
(* registry call changes the table under the lock, writes the blob after   *)
(* leaving it and puts the old entry back when the write fails.            *)
EXTENDS Naturals, FiniteSets

CONSTANTS
  Fields,       \* ids of the field nodes, never 0
  Profiles,     \* profiles a node can be given
  SlotCount,    \* NODE_REGISTRY_MAX_NODES
  Setups,       \* what a behaviour contains, see below
  MaxRequests,  \* bound: HTTP requests on the gateway
  MaxFails,     \* bound: writes to flash that fail
  MaxCuts       \* bound: power cuts and resets of nodes

(* setup.replace: the operator uses /api/nodes/replace;                    *)
(* setup.fails: writes to flash may fail;                                  *)
(* setup.preempt: the receiver may be held up between its check of an      *)
(* answer and its use for as long as a whole request takes.                *)
Setup == [replace : BOOLEAN, fails : BOOLEAN, preempt : BOOLEAN]

ASSUME AdoptionAssumption ==
  /\ 0 \notin Fields /\ "" \notin Profiles
  /\ SlotCount \in Nat /\ Setups \subseteq Setup
  /\ MaxRequests \in Nat /\ MaxFails \in Nat /\ MaxCuts \in Nat

NoNode == 0
NoProfile == ""
Slots == 1 .. SlotCount

(* node_registry_state_t                                                   *)
DISCOVERED == 0
ADOPTED == 1
CONFIGURED == 2
ACTIVE == 3

RegEntry == [id : Fields \cup {NoNode}, st : 0 .. 3,
             profile : Profiles \cup {NoProfile}]
Blank == [id |-> NoNode, st |-> DISCOVERED, profile |-> NoProfile]

(* endap_onboarding_config_t; "none" is a key that is not in flash.        *)
Config == [state : {"PENDING", "ACTIVE"}, profile : Profiles \cup {NoProfile},
           adopted : BOOLEAN]
Virgin == [state |-> "PENDING", profile |-> NoProfile, adopted |-> FALSE]

Request == [type : {"REQ"}, id : Fields, profile : Profiles]
Response == [type : {"RESP"}, id : Fields, ok : BOOLEAN]
NoResponse == [type |-> "RESP", id |-> NoNode, ok |-> FALSE]

VARIABLES
  entries,   \* the registry's table
  nvs,       \* the blob in the gateway's flash: the entries worth keeping
  http,      \* the request in progress
  pending,   \* pending_claim_target_node_id
  sem,       \* remote_claim_sem
  answer,    \* remote_claim_response
  held,      \* answer the receiver has checked and not used yet
  config,    \* config[f]: g_onboarding_cfg of node f
  flash,     \* flash[f]: what node f loads at its next start
  net,       \* claim frames under way
  submitted, \* nodes that ever answered a claim with success
  setup, requests, fails, cuts

regVars == <<entries, nvs>>
rpcVars == <<pending, sem, answer, held>>
nodeVars == <<config, flash, submitted>>
bounds == <<setup, requests, fails, cuts>>
vars == <<regVars, http, rpcVars, nodeVars, net, bounds>>

(* pc: waiting for an answer, about to call the registry, about to save.   *)
Idle == [pc |-> "idle", op |-> "none", id |-> NoNode, new |-> NoNode,
         profile |-> NoProfile, claim |-> FALSE, old |-> Blank, blob |-> {}]

Init ==
  /\ entries = [s \in Slots |-> Blank] /\ nvs = {}
  /\ http = Idle
  /\ pending = NoNode /\ sem = FALSE
  /\ answer = NoResponse /\ held = NoResponse
  /\ config = [f \in Fields |-> Virgin] /\ flash = [f \in Fields |-> Virgin]
  /\ submitted = {} /\ net = {}
  /\ setup \in Setups /\ requests = 0 /\ fails = 0 /\ cuts = 0

-----------------------------------------------------------------------------
(* The registry's table.                                                   *)

Holding(table, f) == {s \in Slots : table[s].id = f}
Free(table) == Holding(table, NoNode)
Lowest(S) == CHOOSE s \in S : \A t \in S : s <= t

(* node_registry_get_state                                                 *)
StateOf(f) == IF Holding(entries, f) = {} THEN DISCOVERED
              ELSE entries[Lowest(Holding(entries, f))].st

(* node_registry_should_persist, node_registry_build_blob_locked           *)
Blob(table) ==
  {table[s] : s \in {t \in Slots : /\ table[t].id # NoNode
                                   /\ \/ table[t].st # DISCOVERED
                                      \/ table[t].profile # NoProfile}}

(* Mutant: a place is taken without looking for the node first.            *)
WithEntryForced(table, f) ==
  IF Free(table) = {} THEN [table EXCEPT ![1] = [Blank EXCEPT !.id = f]]
  ELSE [table EXCEPT ![Lowest(Free(table))] = [Blank EXCEPT !.id = f]]

(* The table with an entry for f; unchanged if there is one or no room.    *)
WithEntry(table, f) ==
  IF Holding(table, f) # {} \/ Free(table) = {} THEN table
  ELSE [table EXCEPT ![Lowest(Free(table))] = [Blank EXCEPT !.id = f]]

(* Mutant: the failed write leaves the change in the table.                *)
RestoredNot(table, f, old) == table

(* node_registry_restore_entry                                             *)
Restored(table, f, old) ==
  IF Holding(table, f) = {} THEN table
  ELSE [table EXCEPT ![Lowest(Holding(table, f))] = old]

(* node_registry_process and node_registry_note_transport: a node that is  *)
(* heard gets an entry.                                                    *)
Discover(f) ==
  /\ WithEntry(entries, f) # entries
  /\ entries' = WithEntry(entries, f)
  /\ UNCHANGED <<nvs, http, rpcVars, nodeVars, net, bounds>>

-----------------------------------------------------------------------------
(* The registry's operations, called by the HTTP task.                     *)

(* What adopt, configure, activate and revoke make of an entry.            *)
Changed(op, e, profile) ==
  CASE op = "adopt" -> [e EXCEPT !.st = IF e.st < ADOPTED THEN ADOPTED ELSE @]
    [] op = "configure" ->
         [e EXCEPT !.profile = profile,
                   !.st = IF e.st >= ACTIVE THEN ACTIVE ELSE CONFIGURED]
    [] op = "activate" -> [e EXCEPT !.st = ACTIVE]
    [] op = "revoke" -> [e EXCEPT !.st = DISCOVERED, !.profile = NoProfile]

(* Tables node_registry_<op> may work on: an unknown node is first copied  *)
(* from the cluster's snapshot, if it is there (not by revoke).            *)
Seeded(op, f) ==
  IF op = "revoke" THEN {entries} ELSE {entries, WithEntry(entries, f)}

Allowed(op, table, f) ==
  /\ Holding(table, f) # {}
  /\ op = "activate" => table[Lowest(Holding(table, f))].st >= ADOPTED

(* The table after node_registry_replace moved old to new.                 *)
Moved(table, old, new) ==
  LET o == Lowest(Holding(table, old))
      n == IF Holding(table, new) # {} THEN Lowest(Holding(table, new))
           ELSE Lowest(Free(table))
  IN  [table EXCEPT ![n] = [table[o] EXCEPT !.id = new],
                    ![o] = [table[o] EXCEPT !.id = NoNode]]

(* The call returned: a claim goes on with the next call whatever the      *)
(* result (onboarding_claim_handler), any other request is answered.       *)
Returned ==
  IF ~http.claim \/ http.op = "activate" THEN Idle
  ELSE [http EXCEPT !.pc = "call", !.old = Blank, !.blob = {},
          !.op = IF http.op = "adopt" THEN "configure" ELSE "activate"]

Saving(table, old) ==
  [http EXCEPT !.pc = "save", !.old = old, !.blob = Blob(table)]

(* The locked part of adopt, configure, activate and revoke.               *)
CallChange ==
  /\ http.pc = "call" /\ http.op # "replace"
  /\ \E table \in Seeded(http.op, http.id) :
       IF ~Allowed(http.op, table, http.id)
       THEN entries' = table /\ http' = Returned
       ELSE LET s == Lowest(Holding(table, http.id))
                new == Changed(http.op, table[s], http.profile)
            IN  /\ entries' = [table EXCEPT ![s] = new]
                /\ http' = Saving([table EXCEPT ![s] = new], table[s])
  /\ UNCHANGED <<nvs, rpcVars, nodeVars, net, bounds>>

(* node_registry_configure refuses the profile or the template it is given *)
(* (a claim passes the node's name as template).                           *)
CallRefused ==
  /\ http.pc = "call" /\ http.op = "configure"
  /\ http' = Returned
  /\ UNCHANGED <<regVars, rpcVars, nodeVars, net, bounds>>

(* The locked part of node_registry_replace.                               *)
CallReplace ==
  /\ http.pc = "call" /\ http.op = "replace"
  /\ IF \/ Holding(entries, http.id) = {}
        \/ Holding(entries, http.new) = {} /\ Free(entries) = {}
     THEN UNCHANGED entries /\ http' = Returned
     ELSE LET table == Moved(entries, http.id, http.new)
          IN  /\ entries' = table
              /\ http' = Saving(table,
                                entries[Lowest(Holding(entries, http.id))])
  /\ UNCHANGED <<nvs, rpcVars, nodeVars, net, bounds>>

SaveOk ==
  /\ http.pc = "save"
  /\ nvs' = http.blob /\ http' = Returned
  /\ UNCHANGED <<entries, rpcVars, nodeVars, net, bounds>>

(* node_registry_save_blob fails; the caller puts the old entry back.      *)
SaveFails ==
  /\ http.pc = "save" /\ setup.fails /\ fails < MaxFails
  /\ fails' = fails + 1
  /\ entries' = Restored(entries, http.id, http.old) /\ http' = Returned
  /\ UNCHANGED <<nvs, rpcVars, nodeVars, net, setup, requests, cuts>>

(* The other node handlers.  node_adopt, node_configure and node_activate  *)
(* refuse a node that is not ACTIVE (MUST_USE_REMOTE_CLAIM);               *)
(* nodes_template_apply configures any node.                               *)
Operator(op, f, profile) ==
  /\ http = Idle /\ requests < MaxRequests
  /\ op \in {"adopt", "activate"} => StateOf(f) = ACTIVE
  /\ requests' = requests + 1
  /\ http' = [Idle EXCEPT !.pc = "call", !.op = op, !.id = f,
                          !.profile = profile]
  /\ UNCHANGED <<regVars, rpcVars, nodeVars, net, setup, fails, cuts>>

(* nodes_replace_handler                                                   *)
Replace(old, new) ==
  /\ http = Idle /\ requests < MaxRequests
  /\ setup.replace /\ old # new
  /\ requests' = requests + 1
  /\ http' = [Idle EXCEPT !.pc = "call", !.op = "replace", !.id = old,
                          !.new = new]
  /\ UNCHANGED <<regVars, rpcVars, nodeVars, net, setup, fails, cuts>>

-----------------------------------------------------------------------------
(* The remote claim.                                                       *)

(* onboarding_claim_handler -> cluster_transport_send_remote_claim: clear  *)
(* the semaphore and the answer, broadcast the request, wait.              *)
Claim(f, profile) ==
  /\ http = Idle /\ requests < MaxRequests
  /\ held # NoResponse => setup.preempt
  /\ requests' = requests + 1
  /\ pending' = f /\ sem' = FALSE /\ answer' = NoResponse
  /\ net' = net \cup {[type |-> "REQ", id |-> f, profile |-> profile]}
  /\ http' = [Idle EXCEPT !.pc = "wait", !.id = f, !.profile = profile,
                          !.claim = TRUE]
  /\ UNCHANGED <<regVars, held, nodeVars, setup, fails, cuts>>

(* The semaphore was given: on success the registry is brought up to date. *)
ClaimAnswered ==
  /\ http.pc = "wait" /\ sem
  /\ sem' = FALSE /\ pending' = NoNode
  /\ http' = IF answer.ok THEN [http EXCEPT !.pc = "call", !.op = "adopt"]
             ELSE Idle
  /\ UNCHANGED <<regVars, answer, held, nodeVars, net, bounds>>

(* Mutant: the wait has no limit.                                          *)
WaitsForever == FALSE

(* xSemaphoreTake gives up after 3500 ms.                                  *)
WaitOver == ~sem

ClaimTimeout ==
  /\ http.pc = "wait" /\ WaitOver
  /\ pending' = NoNode /\ http' = Idle
  /\ UNCHANGED <<regVars, sem, answer, held, nodeVars, net, bounds>>

(* Mutant: any answer is taken for the one awaited.                        *)
MatchesAny(msg) == pending # NoNode

Matches(msg) == msg.id = pending

(* cluster_transport_handle_claim_frame, an answer: the check, and then    *)
(* the copy and the semaphore.                                             *)
AnswerChecked(msg) ==
  /\ msg.type = "RESP" /\ held = NoResponse /\ Matches(msg)
  /\ held' = msg /\ net' = net \ {msg}
  /\ UNCHANGED <<regVars, http, pending, sem, answer, nodeVars, bounds>>

AnswerUsed ==
  /\ held # NoResponse
  /\ answer' = held /\ sem' = TRUE /\ held' = NoResponse
  /\ UNCHANGED <<regVars, http, pending, nodeVars, net, bounds>>

Lose(msg) ==
  /\ net' = net \ {msg}
  /\ UNCHANGED <<regVars, http, rpcVars, nodeVars, bounds>>

-----------------------------------------------------------------------------
(* The field nodes.                                                        *)

Claimed(profile, gateway) ==
  [state |-> "ACTIVE", profile |-> profile, adopted |-> gateway]

Answer(f, ok) == [type |-> "RESP", id |-> f, ok |-> ok]

(* cluster_transport_handle_claim_frame, a request, on the node it names:  *)
(* endap_onboarding_claim and the answer.  A claim with the profile,       *)
(* gateway and name the node already has is not written again.             *)
NodeClaimed(msg) ==
  /\ msg.type = "REQ"
  /\ net' = (net \ {msg}) \cup {Answer(msg.id, TRUE)}
  /\ submitted' = submitted \cup {msg.id}
  /\ LET new == Claimed(msg.profile, TRUE)
     IN  /\ config' = [config EXCEPT ![msg.id] = new]
         /\ \/ flash' = [flash EXCEPT ![msg.id] = new]
            \/ config[msg.id] = new /\ flash' = flash
  /\ UNCHANGED <<regVars, http, rpcVars, bounds>>

(* The profile is not valid or its template cannot be applied.             *)
NodeRefuses(msg) ==
  /\ msg.type = "REQ"
  /\ net' = (net \ {msg}) \cup {Answer(msg.id, FALSE)}
  /\ UNCHANGED <<regVars, http, rpcVars, nodeVars, bounds>>

(* save_config_to_nvs fails: the configuration in memory has changed.      *)
NodeClaimFails(msg) ==
  /\ msg.type = "REQ" /\ setup.fails /\ fails < MaxFails
  /\ fails' = fails + 1
  /\ net' = (net \ {msg}) \cup {Answer(msg.id, FALSE)}
  /\ config' = [config EXCEPT ![msg.id] = Claimed(msg.profile, TRUE)]
  /\ UNCHANGED <<regVars, http, rpcVars, flash, submitted, setup, requests,
                 cuts>>

(* endap_onboarding_reset: the profile stays, the rest is forgotten.       *)
NodeReset(f) ==
  /\ config[f].state = "ACTIVE" /\ cuts < MaxCuts /\ cuts' = cuts + 1
  /\ config' = [config EXCEPT ![f].state = "PENDING", ![f].adopted = FALSE]
  /\ flash' = [flash EXCEPT ![f] = Virgin]
  /\ UNCHANGED <<regVars, http, rpcVars, submitted, net, setup, requests,
                 fails>>

-----------------------------------------------------------------------------
(* Power cuts.                                                             *)

(* endap_onboarding_init                                                   *)
NodeRestart(f) ==
  /\ cuts < MaxCuts /\ cuts' = cuts + 1
  /\ config' = [config EXCEPT ![f] = flash[f]]
  /\ UNCHANGED <<regVars, http, rpcVars, flash, submitted, net, setup,
                 requests, fails>>

(* node_registry_init: the entries of the blob, one per slot.              *)
Loaded ==
  {table \in [Slots -> nvs \cup {Blank}] :
     /\ \A e \in nvs : \E s \in Slots : table[s] = e
     /\ \A s, t \in Slots : table[s] = table[t] /\ s # t => table[s] = Blank}

GatewayRestart ==
  /\ cuts < MaxCuts /\ cuts' = cuts + 1
  /\ entries' \in Loaded
  /\ http' = Idle
  /\ pending' = NoNode /\ sem' = FALSE
  /\ answer' = NoResponse /\ held' = NoResponse
  /\ UNCHANGED <<nvs, nodeVars, net, setup, requests, fails>>

Next ==
  \/ \E f \in Fields :
       \/ Discover(f) \/ NodeReset(f) \/ NodeRestart(f)
       \/ Operator("adopt", f, NoProfile) \/ Operator("activate", f, NoProfile)
       \/ Operator("revoke", f, NoProfile)
       \/ \E p \in Profiles : Claim(f, p) \/ Operator("configure", f, p)
       \/ \E g \in Fields : Replace(f, g)
  \/ \E msg \in net :
       \/ AnswerChecked(msg) \/ Lose(msg)
       \/ NodeClaimed(msg) \/ NodeRefuses(msg) \/ NodeClaimFails(msg)
  \/ CallChange \/ CallRefused \/ CallReplace \/ SaveOk \/ SaveFails
  \/ ClaimAnswered \/ ClaimTimeout \/ AnswerUsed
  \/ GatewayRestart

(* The HTTP task goes on while it has something to do; the wait for an     *)
(* answer ends.  No frame is promised to arrive.                           *)
Fairness == WF_vars(CallChange \/ CallRefused \/ CallReplace \/ SaveOk
                    \/ ClaimAnswered \/ ClaimTimeout)

Spec == Init /\ [][Next]_vars
FairSpec == Spec /\ Fairness

-----------------------------------------------------------------------------
(* Everything has the type of its C declaration, and a CONFIGURED node has *)
(* a profile: revoke takes both back.                                      *)
TypeOK ==
  /\ entries \in [Slots -> RegEntry]
  /\ \A s \in Slots :
       entries[s].st = CONFIGURED => entries[s].profile # NoProfile
  /\ nvs \subseteq RegEntry
  /\ http.pc \in {"idle", "wait", "call", "save"}
  /\ http.op \in {"none", "adopt", "configure", "activate", "revoke", "replace"}
  /\ http.id \in Fields \cup {NoNode} /\ http.new \in Fields \cup {NoNode}
  /\ http.profile \in Profiles \cup {NoProfile} /\ http.claim \in BOOLEAN
  /\ http.old \in RegEntry /\ http.blob \subseteq RegEntry
  /\ pending \in Fields \cup {NoNode} /\ sem \in BOOLEAN
  /\ answer \in Response \cup {NoResponse}
  /\ held \in Response \cup {NoResponse}
  /\ config \in [Fields -> Config] /\ flash \in [Fields -> Config]
  /\ net \subseteq (Request \cup Response)
  /\ submitted \subseteq Fields
  /\ setup \in Setup
  /\ requests \in 0 .. MaxRequests /\ fails \in 0 .. MaxFails
  /\ cuts \in 0 .. MaxCuts

(* No sequence of heartbeats, operator requests, failed writes and         *)
(* restarts gives a node two entries: find_locked would go on with the     *)
(* older one and export would show both.                                   *)
OneEntryPerNode ==
  \A s, t \in Slots :
    entries[s].id = entries[t].id /\ entries[s].id # NoNode => s = t

(* Between requests the blob in flash is what the table would be saved as: *)
(* a change that was confirmed survives a power cut, and one that was      *)
(* refused is gone from the table.  (A replacement whose write fails is    *)
(* the exception, see FailedReplaceUndone.)                                *)
RegistryDurable ==
  http = Idle /\ ~(setup.replace /\ setup.fails) => nvs = Blob(entries)

(* The same with replacements: node_registry_replace restores the entry    *)
(* by an id the table no longer holds.                                     *)
FailedReplaceUndone == http = Idle => nvs = Blob(entries)

ActiveIn(table) == {table[s].id : s \in {t \in Slots : table[t].st = ACTIVE}}

(* docs/adr/005-remote-claim.md: the registry holds a node as ACTIVE only  *)
(* if that node answered a claim of this gateway with success, whatever    *)
(* answers were lost, late or meant for an earlier request.                *)
ActiveProved ==
  ~setup.replace /\ ~setup.preempt =>
    ActiveIn(entries) \ {NoNode} \subseteq submitted

(* The rule as it is written, for every way to change the registry.        *)
ActiveOnlyByClaim == ActiveIn(entries) \ {NoNode} \subseteq submitted

(* docs/adr/003-onboarding-persistence.md: a node that answers a claim     *)
(* with success has the adoption in its flash.                             *)
ClaimAckDurable ==
  [][\A f \in Fields :
       Answer(f, TRUE) \in net' \ net =>
         flash'[f].state = "ACTIVE" /\ flash'[f].adopted]_vars

(* Every request on the gateway ends, also when the node is gone or the    *)
(* answer is lost.                                                         *)
RequestsEnd == http # Idle ~> http = Idle
=============================================================================
