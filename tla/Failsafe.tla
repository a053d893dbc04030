------------------------------ MODULE Failsafe ------------------------------
(***************************************************************************)
(* The fail-safe policies over resets (failsafe.c): what each output does  *)
(* when the node boots, loses its gateway, faults or is tested, how the    *)
(* policies are kept in NVS, and when an output is latched until it is     *)
(* rearmed.  Operations are atomic here; OutputPath models how they        *)
(* interleave with the control loop.                                       *)
(***************************************************************************)
EXTENDS Integers

CONSTANTS
  Output,      \* outputs of the device profile
  Policies,    \* the policies that are ever saved, a subset of Policy
  OldModes,    \* policies of a version 1 blob that may be found at start
  Causes,      \* why the device may reset, a subset of AllCauses
  SaveMayFail  \* whether an NVS write may fail

Action == {"off", "on", "hold", "snapshot", "safe"}
Value  == {0, 1}
Policy == [enabled : BOOLEAN, boot : Action, comm : Action, fault : Action,
           safe : Value, manual : BOOLEAN]

(* Version 1 of the blob: startup and comm_loss modes 0..3, a safe value   *)
(* and the manual rearm flag.                                              *)
PolicyV1 == [startup : 0..3, comm : 0..3, safe : Value, manual : BOOLEAN]

(* A reset by power, by esp_restart on request, by the software watchdog,  *)
(* by esp_system_abort, or by the hardware task watchdog.                  *)
AllCauses == {"power", "request", "watchdog", "abort", "task_wdt"}

Reason == {"none", "boot", "comm_loss", "node_offline", "runtime_fault",
           "watchdog", "manual_test"}

ASSUME FailsafeAssumption ==
  /\ Policies \subseteq Policy /\ OldModes \subseteq PolicyV1
  /\ Causes \subseteq AllCauses /\ SaveMayFail \in BOOLEAN

(* What NVS holds: nothing usable (no blob, or one whose magic, version,   *)
(* length or CRC is wrong), a version 1 blob or a version 2 blob.          *)
NoBlob == [version |-> 0]

VARIABLES
  up,       \* the firmware runs
  cause,    \* cause of the last reset
  nvs,      \* the blob under FAILSAFE_KEY
  policy, active, reason, applied,   \* entries[]
  value,    \* state of the output
  snap,     \* value of the output in the last snapshot
  acked,    \* history: policy last acknowledged to the operator
  failed,   \* history: a save failed and none succeeded since
  before,   \* history: policies and `failed' when the device went down
  latchVal  \* history: the value fail-safe gave when it last set active

entryVars == <<policy, active, reason, applied>>
histVars  == <<acked, failed, before, latchVal>>
vars == <<up, cause, nvs, entryVars, value, snap, histVars>>

(* failsafe_default_entry.                                                 *)
DefaultPolicy ==
  [enabled |-> TRUE, boot |-> "off", comm |-> "off", fault |-> "off",
   safe |-> 0, manual |-> FALSE]

Init ==
  /\ up = FALSE
  /\ cause = "power"
  /\ nvs \in {NoBlob} \cup
       [version : {1}, policies : [Output -> OldModes]]
  /\ policy = [o \in Output |-> DefaultPolicy]
  /\ active = [o \in Output |-> FALSE]
  /\ reason = [o \in Output |-> "none"]
  /\ applied = [o \in Output |-> 0]
  /\ value = [o \in Output |-> 0]
  /\ snap = [o \in Output |-> 0]
  /\ acked = [o \in Output |-> {}]
  /\ failed = FALSE
  /\ before = [synced |-> FALSE, policy |-> policy]
  /\ latchVal = [o \in Output |-> 0]

-----------------------------------------------------------------------------
(* failsafe_apply_action.                                                  *)
Apply(action, current, snapshot, safe) ==
  CASE action = "on"       -> 1
    [] action = "hold"     -> current
    [] action = "snapshot" -> snapshot
    [] action = "safe"     -> safe
    [] OTHER               -> 0

(* failsafe_action_for_reason.                                             *)
ActionFor(p, r) ==
  CASE r = "boot" -> p.boot
    [] r \in {"comm_loss", "node_offline"} -> p.comm
    [] r \in {"runtime_fault", "watchdog", "manual_test"} -> p.fault
    [] OTHER -> "hold"

(* failsafe_detect_boot_reason.  esp_restart resets with ESP_RST_SW, an    *)
(* abort with ESP_RST_PANIC.                                               *)
BootReason ==
  CASE cause = "task_wdt" -> "watchdog"
    [] cause = "abort"    -> "runtime_fault"
    [] OTHER              -> "boot"

(* Mutant: the mode for a safe value is passed on as it is.                *)
ModeToActionRaw(m) == CASE m = 0 -> "hold" [] m = 1 -> "off"
                        [] m = 2 -> "on"   [] m = 3 -> "mode3"

(* failsafe_v1_mode_to_action and failsafe_apply_loaded_policy_v1.         *)
ModeToAction(m) == CASE m = 0 -> "hold" [] m = 1 -> "off"
                     [] m = 2 -> "on"   [] m = 3 -> "safe"

FromV1(p) ==
  [enabled |-> TRUE, boot |-> ModeToAction(p.startup),
   comm |-> ModeToAction(p.comm), fault |-> "off",
   safe |-> p.safe, manual |-> p.manual]

(* failsafe_load: the policies the entries get.                            *)
Loaded ==
  CASE nvs.version = 2 -> nvs.policies
    [] nvs.version = 1 -> [o \in Output |-> FromV1(nvs.policies[o])]
    [] OTHER           -> [o \in Output |-> DefaultPolicy]

(* Mutant: the recovery mode is not part of the blob.                      *)
SaveDropsRecovery(p, ok) ==
  /\ ok \/ SaveMayFail
  /\ nvs' = IF ok
            THEN [version |-> 2,
                  policies |-> [o \in Output |-> [p[o] EXCEPT !.manual = FALSE]]]
            ELSE nvs
  /\ failed' = ~ ok

(* failsafe_save of the policies p; ok is its answer.                      *)
Save(p, ok) ==
  /\ ok \/ SaveMayFail
  /\ nvs' = IF ok THEN [version |-> 2, policies |-> p] ELSE nvs
  /\ failed' = ~ ok

(* failsafe_init, then failsafe_startup_value for each output, which       *)
(* io_driver_init drives and stores as the state.                          *)
Boot ==
  /\ ~ up
  /\ policy' = Loaded
  /\ IF nvs = NoBlob THEN \E ok \in BOOLEAN : Save(policy', ok)
                     ELSE UNCHANGED <<nvs, failed>>
  /\ value' = [o \in Output |->
       IF policy'[o].enabled
       THEN Apply(ActionFor(policy'[o], BootReason), snap[o], snap[o],
                  policy'[o].safe)
       ELSE snap[o]]
  /\ applied' = value'
  /\ active' = [o \in Output |-> policy'[o].enabled /\ policy'[o].manual]
  /\ reason' = [o \in Output |->
       IF policy'[o].enabled THEN BootReason ELSE "none"]
  /\ latchVal' = value'
  /\ up' = TRUE
  /\ UNCHANGED <<cause, snap, acked, before>>

(* The device goes down; only NVS and the snapshot survive.                *)
Reset(c) ==
  /\ up
  /\ up' = FALSE
  /\ cause' = c
  /\ before' = [synced |-> ~ failed, policy |-> policy]
  /\ active' = [o \in Output |-> FALSE]
  /\ reason' = [o \in Output |-> "none"]
  /\ UNCHANGED <<nvs, policy, applied, value, snap, acked, failed, latchVal>>

-----------------------------------------------------------------------------
(* failsafe_set_output_policy, from failsafe_save_handler: a policy equal  *)
(* to the one in force is acknowledged without a save.                     *)
SetSame(o) ==
  /\ up
  /\ acked' = [acked EXCEPT ![o] = {policy[o]}]
  /\ UNCHANGED <<up, cause, nvs, entryVars, value, snap, failed, before,
                 latchVal>>

(* Mutant: the answer of failsafe_save is ignored.                         *)
SetSilently(o, p, ok) ==
  /\ up
  /\ p # policy[o]
  /\ policy' = [policy EXCEPT ![o] = p]
  /\ active' = IF p.enabled THEN active ELSE [active EXCEPT ![o] = FALSE]
  /\ reason' = IF p.enabled THEN reason ELSE [reason EXCEPT ![o] = "none"]
  /\ ok \/ SaveMayFail
  /\ nvs' = IF ok THEN [version |-> 2, policies |-> policy'] ELSE nvs
  /\ acked' = [acked EXCEPT ![o] = {p}]
  /\ UNCHANGED <<up, cause, applied, value, snap, failed, before, latchVal>>

SetPolicy(o, p, ok) ==
  /\ up
  /\ p # policy[o]
  /\ policy' = [policy EXCEPT ![o] = p]
  /\ active' = IF p.enabled THEN active ELSE [active EXCEPT ![o] = FALSE]
  /\ reason' = IF p.enabled THEN reason ELSE [reason EXCEPT ![o] = "none"]
  /\ Save(policy', ok)
  /\ acked' = IF ok THEN [acked EXCEPT ![o] = {p}] ELSE acked
  /\ UNCHANGED <<up, cause, applied, value, snap, before, latchVal>>

(* failsafe_guard_command refuses these outputs.                           *)
Latched(o) == policy[o].enabled /\ active[o] /\ policy[o].manual

(* A command that the guard lets through reaches the state.                *)
Command(o, v) ==
  /\ up
  /\ ~ Latched(o)
  /\ applied' = [applied EXCEPT ![o] = v]
  /\ value' = [value EXCEPT ![o] = v]
  /\ UNCHANGED <<up, cause, nvs, policy, active, reason, snap, histVars>>

(* failsafe_apply_for_reason and the state_set_int of its callers; the     *)
(* current value stands for the snapshot.                                  *)
SafeFor(o, r) ==
  Apply(ActionFor(policy[o], r), value[o], value[o], policy[o].safe)

(* Mutant: a new reason makes up the latch from the old one.               *)
EntryToggles(o, r) ==
  /\ applied' = [applied EXCEPT ![o] = SafeFor(o, r)]
  /\ value' = [value EXCEPT ![o] = SafeFor(o, r)]
  /\ reason' = [reason EXCEPT ![o] = r]
  /\ active' = [active EXCEPT ![o] = policy[o].manual /\ ~ @]
  /\ latchVal' = [latchVal EXCEPT ![o] = SafeFor(o, r)]

Entry(o, r) ==
  /\ applied' = [applied EXCEPT ![o] = SafeFor(o, r)]
  /\ value' = [value EXCEPT ![o] = SafeFor(o, r)]
  /\ reason' = [reason EXCEPT ![o] = r]
  /\ active' = [active EXCEPT ![o] = policy[o].manual]
  /\ latchVal' = [latchVal EXCEPT ![o] = SafeFor(o, r)]

(* failsafe_trigger_manual_test; a disabled policy answers 404.            *)
Test(o) ==
  /\ up
  /\ policy[o].enabled
  /\ Entry(o, "manual_test")
  /\ UNCHANGED <<up, cause, nvs, policy, snap, acked, failed, before>>

(* failsafe_apply_for_reason_all when a registered gateway is suspect or   *)
(* offline.                                                                *)
GatewayLost(r) ==
  LET hit == {o \in Output : policy[o].enabled}
      upd(f, g(_)) == [o \in Output |-> IF o \in hit THEN g(o) ELSE f[o]]
      safe(o) == SafeFor(o, r)
      manual(o) == policy[o].manual
  IN  /\ up
      /\ r \in {"comm_loss", "node_offline"}
      /\ value' = upd(value, safe)
      /\ applied' = upd(applied, safe)
      /\ latchVal' = upd(latchVal, safe)
      /\ active' = upd(active, manual)
      /\ reason' = [o \in Output |-> IF o \in hit THEN r ELSE reason[o]]
      /\ UNCHANGED <<up, cause, nvs, policy, snap, acked, failed, before>>

(* failsafe_clear_manual_reset.                                            *)
Rearm(o) ==
  /\ up
  /\ active' = [active EXCEPT ![o] = FALSE]
  /\ reason' = [reason EXCEPT ![o] = "none"]
  /\ UNCHANGED <<up, cause, nvs, policy, applied, value, snap, histVars>>

(* The snapshot service saves the state.                                   *)
Snapshot ==
  /\ up
  /\ snap' = value
  /\ UNCHANGED <<up, cause, nvs, entryVars, value, histVars>>

Next ==
  \/ Boot \/ Snapshot
  \/ \E c \in Causes : Reset(c)
  \/ \E r \in {"comm_loss", "node_offline"} : GatewayLost(r)
  \/ \E o \in Output :
       \/ SetSame(o) \/ Test(o) \/ Rearm(o)
       \/ \E v \in Value : Command(o, v)
       \/ \E p \in Policies, ok \in BOOLEAN : SetPolicy(o, p, ok)

Spec == Init /\ [][Next]_vars

-----------------------------------------------------------------------------
(* Type invariant.                                                         *)
TypeOK ==
  /\ up \in BOOLEAN /\ cause \in AllCauses
  /\ nvs = NoBlob \/ nvs.version \in {1, 2}
  /\ nvs.version = 1 => nvs.policies \in [Output -> PolicyV1]
  /\ nvs.version = 2 => nvs.policies \in [Output -> Policy]
  /\ policy \in [Output -> Policy]
  /\ active \in [Output -> BOOLEAN]
  /\ reason \in [Output -> Reason]
  /\ applied \in [Output -> Value]
  /\ value \in [Output -> Value]
  /\ snap \in [Output -> Value]
  /\ acked \in [Output -> SUBSET Policy]
  /\ failed \in BOOLEAN
  /\ before \in [synced : BOOLEAN, policy : [Output -> Policy]]
  /\ latchVal \in [Output -> Value]

(* The policies in force are the ones NVS would load, unless the last save *)
(* failed and said so (failsafe_set_output_policy answers 500).            *)
PersistedOrReported == up /\ ~ failed => policy = Loaded

(* A policy acknowledged with {"ok":true} is the one the next boot loads.  *)
AckSurvives ==
  up => \A o \in Output : \A p \in acked[o] : Loaded[o] = p

(* A reset changes no policy that was saved, a version 1 blob included,    *)
(* however often the device resets before a save rewrites it.              *)
ResetKeepsPolicies ==
  [][~ up /\ up' /\ before.synced => policy' = before.policy]_vars

(* A latched output has the value fail-safe gave it when it was latched,   *)
(* whatever commands and policy changes came since.                        *)
LatchedIsSafe == up => \A o \in Output : Latched(o) => value[o] = latchVal[o]

(* An output whose policy stays MANUAL and enabled is released by a rearm  *)
(* alone: no command, test or loss of the gateway unlatches it.            *)
OnlyRearmReleases ==
  [][\A o \in Output :
       Latched(o) /\ ~ Latched(o)' =>
         \/ ~ up' \/ policy'[o] # policy[o]
         \/ reason'[o] = "none" /\ value'[o] = value[o]]_vars

(* A device restarted because its control loop failed applies the action   *)
(* for runtime faults.                                                     *)
LoopFailureIsFault ==
  up /\ cause \in {"watchdog", "abort"} =>
    \A o \in Output : reason[o] # "boot"
=============================================================================
