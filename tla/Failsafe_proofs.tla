-------------------------- MODULE Failsafe_proofs --------------------------
(***************************************************************************)
(* The fail-safe policies for every set of outputs, policies, version 1    *)
(* blobs and causes of a reset; and, below, the watchdog, which watches    *)
(* the tasks that run the fail-safe.                                       *)
(***************************************************************************)
EXTENDS Failsafe, Watchdog, TLAPS

(* What failsafe_load yields depends on NVS alone.                         *)
LEMMA LoadedStable == UNCHANGED nvs => Loaded' = Loaded
  BY DEF Loaded

(* A save that succeeds is what the next boot loads.                       *)
LEMMA SaveLoads ==
  ASSUME NEW p, NEW ok \in BOOLEAN, Save(p, ok), ~ failed'
  PROVE  Loaded' = p
<1>1. nvs' = [version |-> 2, policies |-> p]
  BY DEF Save
<1> QED
  BY <1>1 DEF Loaded

(* PersistedOrReported is inductive: a step changes the policies in force  *)
(* only by loading them or by saving them (failsafe_init,                  *)
(* failsafe_set_output_policy).                                            *)
LEMMA PersistedStep == PersistedOrReported /\ [Next]_vars => PersistedOrReported'
<1> SUFFICES ASSUME PersistedOrReported, [Next]_vars, up', ~ failed'
             PROVE  policy' = Loaded'
  BY DEF PersistedOrReported
<1>1. CASE Boot
  <2>1. CASE nvs = NoBlob
    <3>1. PICK ok \in BOOLEAN : Save(policy', ok)
      BY <1>1, <2>1 DEF Boot
    <3> QED
      BY <3>1, SaveLoads
  <2>2. CASE nvs # NoBlob
    <3>1. policy' = Loaded /\ UNCHANGED nvs
      BY <1>1, <2>2 DEF Boot
    <3> QED
      BY <3>1, LoadedStable
  <2> QED
    BY <2>1, <2>2
<1>2. ASSUME NEW o \in Output, NEW p \in Policies, NEW ok \in BOOLEAN,
             SetPolicy(o, p, ok)
      PROVE  policy' = Loaded'
  <2>1. Save(policy', ok)
    BY <1>2 DEF SetPolicy
  <2> QED
    BY <2>1, SaveLoads
<1>3. CASE UNCHANGED <<up, nvs, policy, failed>>
  BY <1>3, LoadedStable DEF PersistedOrReported
<1>4. ASSUME NEW c \in Causes, Reset(c) PROVE FALSE
  BY <1>4 DEF Reset
<1>5. CASE Snapshot
  BY <1>5, <1>3 DEF Snapshot, entryVars, histVars
<1>6. ASSUME NEW r \in {"comm_loss", "node_offline"}, GatewayLost(r)
      PROVE  policy' = Loaded'
  BY <1>6, <1>3 DEF GatewayLost
<1>7. ASSUME NEW o \in Output, SetSame(o) \/ Test(o) \/ Rearm(o)
      PROVE  policy' = Loaded'
  BY <1>7, <1>3 DEF SetSame, Test, Rearm, entryVars, histVars
<1>8. ASSUME NEW o \in Output, NEW v \in Value, Command(o, v)
      PROVE  policy' = Loaded'
  BY <1>8, <1>3 DEF Command, histVars
<1>9. CASE UNCHANGED vars
  BY <1>9, <1>3 DEF vars, entryVars, histVars
<1> QED
  BY <1>1, <1>2, <1>4, <1>5, <1>6, <1>7, <1>8, <1>9 DEF Next

(* The policies in force are the ones NVS would load, unless the last      *)
(* save failed and said so (failsafe_save, failsafe_load).                 *)
THEOREM PersistedPolicies == Spec => []PersistedOrReported
<1>1. Init => PersistedOrReported
  BY DEF Init, PersistedOrReported
<1> QED
  BY <1>1, PersistedStep, PTL DEF Spec

(* What the device had saved when it went down is what NVS still loads.    *)
DownAsSaved == ~ up /\ before.synced => before.policy = Loaded

(* Only a reset brings the device down, and while it is down nothing but   *)
(* failsafe_init moves.                                                    *)
LEMMA DownStep ==
  PersistedOrReported /\ DownAsSaved /\ [Next]_vars => DownAsSaved'
<1> SUFFICES ASSUME PersistedOrReported, DownAsSaved, [Next]_vars,
                    ~ up', before'.synced
             PROVE  before'.policy = Loaded'
  BY DEF DownAsSaved
<1>1. ASSUME NEW c \in Causes, Reset(c)
      PROVE  before'.policy = Loaded'
  <2>1. up /\ ~ failed /\ before'.policy = policy /\ UNCHANGED nvs
    BY <1>1 DEF Reset
  <2> QED
    BY <2>1, LoadedStable DEF PersistedOrReported
<1>2. CASE UNCHANGED vars
  <2>1. ~ up /\ before.synced /\ before' = before /\ UNCHANGED nvs
    BY <1>2 DEF vars, entryVars, histVars
  <2> QED
    BY <2>1, LoadedStable DEF DownAsSaved
<1>3. CASE Boot
  BY <1>3 DEF Boot
<1>4. CASE Snapshot
  BY <1>4 DEF Snapshot
<1>5. ASSUME NEW r \in {"comm_loss", "node_offline"}, GatewayLost(r)
      PROVE  FALSE
  BY <1>5 DEF GatewayLost
<1>6. ASSUME NEW o \in Output, SetSame(o) \/ Test(o) \/ Rearm(o)
      PROVE  FALSE
  BY <1>6 DEF SetSame, Test, Rearm
<1>7. ASSUME NEW o \in Output, NEW v \in Value, Command(o, v)
      PROVE  FALSE
  BY <1>7 DEF Command
<1>8. ASSUME NEW o \in Output, NEW p \in Policies, NEW ok \in BOOLEAN,
             SetPolicy(o, p, ok)
      PROVE  FALSE
  BY <1>8 DEF SetPolicy
<1> QED
  BY <1>1, <1>2, <1>3, <1>4, <1>5, <1>6, <1>7, <1>8 DEF Next

(* Only failsafe_init starts the device, with the policies NVS loads.      *)
LEMMA StartLoads ==
  ASSUME [Next]_vars, ~ up, up'
  PROVE  policy' = Loaded
<1>1. CASE Boot
  BY <1>1 DEF Boot
<1>2. CASE UNCHANGED vars
  BY <1>2 DEF vars
<1>3. ASSUME NEW o \in Output
      PROVE  /\ ~ (SetSame(o) \/ Test(o) \/ Rearm(o))
             /\ \A v \in Value : ~ Command(o, v)
             /\ \A p \in Policies, ok \in BOOLEAN : ~ SetPolicy(o, p, ok)
  BY DEF SetSame, Test, Rearm, Command, SetPolicy
<1>4. /\ ~ Snapshot
      /\ \A c \in Causes : ~ Reset(c)
      /\ \A r \in {"comm_loss", "node_offline"} : ~ GatewayLost(r)
  BY DEF Snapshot, Reset, GatewayLost
<1> QED
  BY <1>1, <1>2, <1>3, <1>4 DEF Next

(* A reset changes no policy whose save was acknowledged, whatever the     *)
(* version of the blob and its cause (failsafe_load, failsafe_save).       *)
THEOREM PoliciesOutliveReset == Spec => ResetKeepsPolicies
<1>1. Init => PersistedOrReported /\ DownAsSaved
  BY DEF Init, PersistedOrReported, DownAsSaved
<1>2. DownAsSaved /\ [Next]_vars =>
        [~ up /\ up' /\ before.synced => policy' = before.policy]_vars
  BY StartLoads DEF DownAsSaved
<1> QED
  BY <1>1, <1>2, PersistedStep, DownStep, PTL DEF Spec, ResetKeepsPolicies

(* A step that unlatches an output with an unchanged policy, in a running  *)
(* device, is failsafe_clear_manual_reset: the reason is cleared and the   *)
(* output keeps its value.                                                 *)
LEMMA ReleaseStep ==
  ASSUME active \in [Output -> BOOLEAN], reason \in [Output -> Reason],
         value \in [Output -> Value], policy \in [Output -> Policy],
         [Next]_vars, NEW o \in Output,
         Latched(o), ~ Latched(o)', up', policy'[o] = policy[o]
  PROVE  reason'[o] = "none" /\ value'[o] = value[o]
<1>1. active[o] /\ ~ active'[o] /\ policy[o].enabled /\ policy[o].manual
  BY DEF Latched
<1>2. CASE Boot
  <2>1. active'[o] = (policy'[o].enabled /\ policy'[o].manual)
    BY <1>2 DEF Boot
  <2> QED
    BY <1>1, <2>1
<1>3. ASSUME NEW q \in Output, NEW p \in Policies, NEW ok \in BOOLEAN,
             SetPolicy(q, p, ok)
      PROVE  FALSE
  <2>1. CASE q = o
    BY <1>3, <1>1, <2>1 DEF SetPolicy
  <2>2. CASE q # o
    BY <1>3, <1>1, <2>2 DEF SetPolicy
  <2> QED
    BY <2>1, <2>2
<1>4. ASSUME NEW q \in Output, Test(q) PROVE FALSE
  <2>1. active' = [active EXCEPT ![q] = policy[q].manual]
    BY <1>4 DEF Test, Entry
  <2> QED
    BY <1>1, <2>1
<1>5. ASSUME NEW r \in {"comm_loss", "node_offline"}, GatewayLost(r)
      PROVE  FALSE
  <2>1. active'[o] = IF policy[o].enabled THEN policy[o].manual ELSE active[o]
    BY <1>5 DEF GatewayLost
  <2> QED
    BY <1>1, <2>1
<1>6. ASSUME NEW q \in Output, Rearm(q)
      PROVE  reason'[o] = "none" /\ value'[o] = value[o]
  <2>1. q = o
    BY <1>1, <1>6 DEF Rearm
  <2> QED
    BY <1>6, <2>1 DEF Rearm
<1>7. CASE UNCHANGED active
  BY <1>1, <1>7
<1>8. ASSUME NEW c \in Causes, Reset(c) PROVE FALSE
  BY <1>8 DEF Reset
<1>9. ASSUME NEW q \in Output, NEW v \in Value, Command(q, v) PROVE UNCHANGED active
  BY <1>9 DEF Command
<1>10. ASSUME NEW q \in Output, SetSame(q) PROVE UNCHANGED active
  BY <1>10 DEF SetSame, entryVars
<1>11. Snapshot \/ UNCHANGED vars => UNCHANGED active
  BY DEF Snapshot, vars, entryVars
<1> QED
  BY <1>2, <1>3, <1>4, <1>5, <1>6, <1>7, <1>8, <1>9, <1>10, <1>11 DEF Next

-----------------------------------------------------------------------------
(* failsafe_apply_action yields a level for every action.                  *)
LEMMA ApplyType ==
  ASSUME NEW a, NEW c \in Value, NEW s \in Value, NEW f \in Value
  PROVE  Apply(a, c, s, f) \in Value
  BY DEF Apply, Value

(* failsafe_load always yields well-formed policies, whichever version of  *)
(* the blob it finds.                                                      *)
LEMMA LoadedType == TypeOK => Loaded \in [Output -> Policy]
<1> SUFFICES ASSUME TypeOK PROVE Loaded \in [Output -> Policy]
  OBVIOUS
<1>1. ASSUME NEW m \in 0..3 PROVE ModeToAction(m) \in Action
  BY DEF ModeToAction, Action
<1>2. ASSUME NEW p \in PolicyV1 PROVE FromV1(p) \in Policy
  <2>1. /\ p.startup \in 0..3 /\ p.comm \in 0..3
        /\ p.safe \in Value /\ p.manual \in BOOLEAN
    BY DEF PolicyV1
  <2>2. ModeToAction(p.startup) \in Action /\ ModeToAction(p.comm) \in Action
    BY <1>1, <2>1
  <2>3. "off" \in Action
    BY DEF Action
  <2> QED
    BY <2>1, <2>2, <2>3 DEF FromV1, Policy
<1>3. DefaultPolicy \in Policy
  BY DEF DefaultPolicy, Policy, Action, Value
<1>4. CASE nvs.version = 2
  BY <1>4 DEF TypeOK, Loaded
<1>5. CASE nvs.version = 1
  <2>1. nvs.policies \in [Output -> PolicyV1]
    BY <1>5 DEF TypeOK
  <2> QED
    BY <1>2, <1>5, <2>1 DEF Loaded
<1>6. CASE nvs.version \notin {1, 2}
  BY <1>3, <1>6 DEF Loaded
<1> QED
  BY <1>4, <1>5, <1>6

(* The type of NVS and of the flag after a save of well-formed policies.   *)
NvsOK ==
  /\ nvs = NoBlob \/ nvs.version \in {1, 2}
  /\ nvs.version = 1 => nvs.policies \in [Output -> PolicyV1]
  /\ nvs.version = 2 => nvs.policies \in [Output -> Policy]
  /\ failed \in BOOLEAN

LEMMA SaveType ==
  ASSUME NEW p \in [Output -> Policy], NEW ok \in BOOLEAN, NvsOK, Save(p, ok)
  PROVE  NvsOK'
<1>0. failed' \in BOOLEAN
  BY DEF Save
<1>1. CASE ok
  <2>1. nvs' = [version |-> 2, policies |-> p]
    BY <1>1 DEF Save
  <2>2. nvs'.version = 2 /\ nvs'.policies \in [Output -> Policy]
    BY <2>1
  <2> QED
    BY <1>0, <2>2 DEF NvsOK
<1>2. CASE ~ ok
  <2>1. nvs' = nvs
    BY <1>2 DEF Save
  <2> QED
    BY <1>0, <2>1 DEF NvsOK
<1> QED
  BY <1>1, <1>2

(* TypeOK as the parts an action changes together.                         *)
EntryOK ==
  /\ policy \in [Output -> Policy]
  /\ active \in [Output -> BOOLEAN]
  /\ reason \in [Output -> Reason]
  /\ applied \in [Output -> Value]
  /\ value \in [Output -> Value]
  /\ latchVal \in [Output -> Value]
RestOK ==
  /\ up \in BOOLEAN /\ cause \in AllCauses
  /\ snap \in [Output -> Value]
  /\ acked \in [Output -> SUBSET Policy]
  /\ before \in [synced : BOOLEAN, policy : [Output -> Policy]]

LEMMA TypeParts ==
  /\ TypeOK <=> NvsOK /\ EntryOK /\ RestOK
  /\ TypeOK' <=> NvsOK' /\ EntryOK' /\ RestOK'
  BY DEF TypeOK, NvsOK, EntryOK, RestOK

LEMMA SafeForType ==
  ASSUME EntryOK, NEW o \in Output, NEW r PROVE SafeFor(o, r) \in Value
<1>1. value[o] \in Value /\ policy[o].safe \in Value
  BY DEF EntryOK, Policy
<1> QED
  BY <1>1, ApplyType DEF SafeFor

LEMMA BootType == TypeOK /\ Boot => TypeOK'
<1> SUFFICES ASSUME TypeOK, Boot PROVE TypeOK'
  OBVIOUS
<1> USE TypeParts
<1>1. policy' \in [Output -> Policy]
  BY LoadedType DEF Boot
<1>2. NvsOK'
  <2>1. CASE nvs = NoBlob
    BY <1>1, <2>1, SaveType DEF Boot
  <2>2. CASE nvs # NoBlob
    BY <2>2 DEF Boot, NvsOK
  <2> QED
    BY <2>1, <2>2
<1>3. BootReason \in Reason
  BY DEF BootReason, Reason
<1>4. value' \in [Output -> Value]
  <2>1. ASSUME NEW o \in Output
        PROVE  snap[o] \in Value /\ policy'[o].safe \in Value
    BY <1>1 DEF RestOK, Policy
  <2>2. ASSUME NEW o \in Output
        PROVE  Apply(ActionFor(policy'[o], BootReason), snap[o], snap[o],
                     policy'[o].safe) \in Value
    BY <2>1, ApplyType
  <2> QED
    BY <2>1, <2>2 DEF Boot
<1>5. active' \in [Output -> BOOLEAN]
  BY <1>1 DEF Boot, Policy
<1>6. reason' \in [Output -> Reason]
  BY <1>3 DEF Boot, Reason
<1>7. EntryOK'
  BY <1>1, <1>4, <1>5, <1>6 DEF Boot, EntryOK
<1>8. RestOK'
  BY DEF Boot, RestOK
<1> QED
  BY <1>2, <1>7, <1>8

LEMMA SetPolicyType ==
  ASSUME TypeOK, NEW o \in Output, NEW p \in Policies, NEW ok \in BOOLEAN,
         SetPolicy(o, p, ok)
  PROVE  TypeOK'
<1> USE TypeParts
<1>1. p \in Policy
  BY FailsafeAssumption
<1>2. policy' \in [Output -> Policy]
  BY <1>1 DEF SetPolicy, EntryOK
<1>3. NvsOK'
  BY <1>2, SaveType DEF SetPolicy
<1>4. EntryOK'
  BY <1>2 DEF SetPolicy, EntryOK, Reason
<1>5. RestOK'
  BY <1>1 DEF SetPolicy, RestOK
<1> QED
  BY <1>3, <1>4, <1>5

LEMMA EventType ==
  ASSUME TypeOK,
         \/ \E r \in {"comm_loss", "node_offline"} : GatewayLost(r)
         \/ \E o \in Output : Test(o) \/ Rearm(o)
         \/ \E o \in Output, v \in Value : Command(o, v)
  PROVE  TypeOK'
<1> USE TypeParts
<1>1. ASSUME NEW r \in {"comm_loss", "node_offline"}, GatewayLost(r)
      PROVE  EntryOK'
  <2>1. \A o \in Output : SafeFor(o, r) \in Value /\ policy[o].manual \in BOOLEAN
    BY SafeForType DEF EntryOK, Policy
  <2> QED
    BY <1>1, <2>1 DEF GatewayLost, EntryOK, Reason
<1>2. ASSUME NEW o \in Output, Test(o) PROVE EntryOK'
  <2>1. SafeFor(o, "manual_test") \in Value /\ policy[o].manual \in BOOLEAN
    BY SafeForType DEF EntryOK, Policy
  <2> QED
    BY <1>2, <2>1 DEF Test, Entry, EntryOK, Reason
<1>3. ASSUME NEW o \in Output, Rearm(o) PROVE EntryOK'
  BY <1>3 DEF Rearm, EntryOK, Reason, histVars
<1>4. ASSUME NEW o \in Output, NEW v \in Value, Command(o, v) PROVE EntryOK'
  BY <1>4 DEF Command, EntryOK, histVars
<1>5. NvsOK' /\ RestOK'
  BY DEF GatewayLost, Test, Rearm, Command, NvsOK, RestOK, histVars
<1> QED
  BY <1>1, <1>2, <1>3, <1>4, <1>5

LEMMA TypeStep == TypeOK /\ [Next]_vars => TypeOK'
<1> SUFFICES ASSUME TypeOK, [Next]_vars PROVE TypeOK'
  OBVIOUS
<1> USE TypeParts
<1>1. ASSUME NEW c \in Causes, Reset(c) PROVE TypeOK'
  <2>1. c \in AllCauses
    BY FailsafeAssumption
  <2>2. NvsOK' /\ EntryOK'
    BY <1>1 DEF Reset, NvsOK, EntryOK, Reason
  <2>3. (~ failed) \in BOOLEAN /\ policy \in [Output -> Policy]
    BY DEF NvsOK, EntryOK
  <2>4. RestOK'
    BY <1>1, <2>1, <2>3 DEF Reset, RestOK
  <2> QED
    BY <2>2, <2>4
<1>2. ASSUME NEW o \in Output, SetSame(o) PROVE TypeOK'
  <2>1. policy[o] \in Policy
    BY DEF EntryOK
  <2> QED
    BY <1>2, <2>1 DEF SetSame, NvsOK, EntryOK, RestOK, entryVars
<1>3. CASE Snapshot
  BY <1>3 DEF Snapshot, NvsOK, EntryOK, RestOK, entryVars, histVars
<1>4. CASE UNCHANGED vars
  BY <1>4 DEF vars, NvsOK, EntryOK, RestOK, entryVars, histVars
<1> QED
  BY <1>1, <1>2, <1>3, <1>4, BootType, SetPolicyType, EventType DEF Next

(* Type correctness of the fail-safe, for every set of outputs, policies,  *)
(* old blobs and reset causes (failsafe.c).                                *)
THEOREM TypeCorrect == Spec => []TypeOK
<1>1. Init => TypeOK
  <2> SUFFICES ASSUME Init PROVE TypeOK
    OBVIOUS
  <2>1. DefaultPolicy \in Policy
    BY DEF DefaultPolicy, Policy, Action, Value
  <2>2. NvsOK
    <3>0. failed \in BOOLEAN
      BY DEF Init
    <3>1. CASE nvs = NoBlob
      <4>1. nvs.version = 0
        BY <3>1 DEF NoBlob
      <4> QED
        BY <3>0, <3>1, <4>1 DEF NvsOK
    <3>2. CASE nvs \in [version : {1}, policies : [Output -> OldModes]]
      <4>1. nvs.version = 1 /\ nvs.policies \in [Output -> PolicyV1]
        BY <3>2, FailsafeAssumption
      <4> QED
        BY <3>0, <4>1 DEF NvsOK
    <3> QED
      BY <3>1, <3>2 DEF Init
  <2>3. EntryOK
    BY <2>1 DEF Init, EntryOK, Reason, Value
  <2>4. RestOK
    BY <2>1 DEF Init, RestOK, AllCauses, Value
  <2> QED
    BY <2>2, <2>3, <2>4, TypeParts
<1> QED
  BY <1>1, TypeStep, PTL DEF Spec

(* An output whose policy stays manual and enabled is unlatched by a rearm *)
(* alone (failsafe_clear_manual_reset), for every set of policies.         *)
THEOREM RearmAlone == Spec => OnlyRearmReleases
<1>1. TypeOK /\ [Next]_vars =>
        [\A o \in Output :
           Latched(o) /\ ~ Latched(o)' =>
             \/ ~ up' \/ policy'[o] # policy[o]
             \/ reason'[o] = "none" /\ value'[o] = value[o]]_vars
  BY ReleaseStep DEF TypeOK
<1> QED
  BY <1>1, TypeCorrect, PTL DEF Spec, OnlyRearmReleases

-----------------------------------------------------------------------------
(* The watchdog, for every table, timeout and width of the tick counter.   *)
(* RestartJustified is not inductive: it needs that the wrapped            *)
(* subtraction never makes an entry look older than it is, and the same of *)
(* a tick that was read and waits for the lock.                            *)

(* The wrapped difference of two ticks.                                    *)
Diff(a, b) == (a - b) % TickMod

(* An entry looks as old as it is, or is older than the counter can tell;  *)
(* a tick that waits for the lock is as old as it looks.                   *)
AgesAgree ==
  \A i \in Ids :
    /\ wdActive[i] => age[i] = TickMod \/ Diff(now, last[i]) = age[i]
    /\ feeder[i] # "idle" => Diff(now, sample[i]) = held[i]

WdInv == WdTypeOK /\ AgesAgree /\ RestartJustified

(* What WatchdogAssumption says of the sizes.                              *)
LEMMA WdSizes ==
  /\ TickMod \in Nat \ {0} /\ FeedDelay \in Nat /\ FeedDelay < TickMod
  /\ CheckGap \in Nat /\ 0 \in Ids /\ MaxWd \in Nat
  /\ \A i \in Ids : i \in Nat /\ Timeout[i] \in Nat /\ Timeout[i] < TickMod
<1>1. MaxWd \in Nat \ {0} /\ MaxMisses \in Nat \ {0} /\ CheckGap \in Nat \ {0} /\ FeedDelay \in Nat
      /\ TickMod \in Nat /\ 0 \in Ids /\ \A i \in Ids : i \in Nat /\ Timeout[i] \in Nat \ {0}
  BY WatchdogAssumption DEF Ids
<1> DEFINE slack == (MaxMisses + 1) * CheckGap
<1>2. slack \in Nat
  BY <1>1
<1>3. \A i \in Ids : Timeout[i] + FeedDelay + slack < TickMod
  BY WatchdogAssumption
<1> HIDE DEF slack
<1> QED BY <1>1, <1>2, <1>3

(* The difference of two ticks without the modulus.                        *)
LEMMA DiffCases ==
  ASSUME NEW a \in 0..(TickMod - 1), NEW b \in 0..(TickMod - 1)
  PROVE  Diff(a, b) = IF a >= b THEN a - b ELSE a - b + TickMod
BY WdSizes, SMTT(30) DEF Diff

(* The successor of a tick.                                                *)
LEMMA TickCases ==
  ASSUME NEW a \in 0..(TickMod - 1)
  PROVE  /\ (a + 1) % TickMod \in 0..(TickMod - 1)
         /\ (a + 1) % TickMod = IF a = TickMod - 1 THEN 0 ELSE a + 1
BY WdSizes, SMTT(30)

(* A tick makes every difference one larger, until it wraps.               *)
LEMMA DiffGrows ==
  ASSUME NEW a \in 0..(TickMod - 1), NEW b \in 0..(TickMod - 1)
  PROVE  /\ Diff(a, b) \in 0..(TickMod - 1)
         /\ Diff(a, b) < TickMod - 1 => Diff((a + 1) % TickMod, b) = Diff(a, b) + 1
<1> DEFINE c == (a + 1) % TickMod
<1>1. c \in 0..(TickMod - 1) /\ c = IF a = TickMod - 1 THEN 0 ELSE a + 1
  BY TickCases
<1>2. Diff(a, b) = IF a >= b THEN a - b ELSE a - b + TickMod
  BY DiffCases
<1>3. Diff(c, b) = IF c >= b THEN c - b ELSE c - b + TickMod
  BY <1>1, DiffCases
<1> HIDE DEF c
<1>4. /\ Diff(a, b) \in 0..(TickMod - 1)
      /\ Diff(a, b) < TickMod - 1 => Diff(c, b) = Diff(a, b) + 1
  BY <1>1, <1>2, <1>3, WdSizes
<1> QED BY <1>4 DEF c

(* An entry that has expired really is older than its timeout.             *)
LEMMA ExpiredIsOld ==
  ASSUME WdTypeOK, AgesAgree, NEW i \in Ids, wdActive[i], Expired(i)
  PROVE  age[i] > Timeout[i]
<1>1. age[i] = TickMod \/ Diff(now, last[i]) = age[i]
  BY DEF AgesAgree
<1>2. Diff(now, last[i]) > Timeout[i]
  BY DEF Expired, Elapsed, Diff
<1> QED BY <1>1, <1>2, WdSizes

(* The walk of the check stays inside the table.                           *)
LEMMA WalkTyped ==
  ASSUME WdTypeOK, NextEntry
  PROVE  wd' \in {"idle", "check"} /\ entry' \in Ids /\ sinceCheck' \in 0..CheckGap
<1>1. entry \in 0..(MaxWd - 1) /\ sinceCheck \in 0..CheckGap /\ MaxWd \in Nat /\ CheckGap \in Nat
      /\ 0 \in Ids /\ Ids = 0..(MaxWd - 1)
  BY WdSizes DEF WdTypeOK, Ids
<1>2. CASE entry < MaxWd - 1
  <2>1. wd' = "check" /\ entry' = entry + 1 /\ sinceCheck' = sinceCheck
    BY <1>2 DEF NextEntry
  <2>2. entry + 1 \in Ids
    BY <1>1, <1>2
  <2> QED BY <1>1, <2>1, <2>2
<1>3. CASE ~(entry < MaxWd - 1)
  <2>1. wd' = "idle" /\ entry' = 0 /\ sinceCheck' = 0
    BY <1>3 DEF NextEntry
  <2> QED BY <1>1, <2>1
<1> QED BY <1>2, <1>3

LEMMA WdBase == WdInit => WdInv
<1> SUFFICES ASSUME WdInit PROVE WdInv
  OBVIOUS
<1>1. WdTypeOK
  BY WdSizes DEF WdInit, WdTypeOK
<1>2. AgesAgree
  BY DEF WdInit, AgesAgree
<1>3. RestartJustified
  BY DEF WdInit, RestartJustified
<1> QED BY <1>1, <1>2, <1>3 DEF WdInv

(* Every step keeps the types.                                             *)
LEMMA WdTypeStep == WdTypeOK /\ [WdNext]_wdVars => WdTypeOK'
<1> SUFFICES ASSUME WdTypeOK, [WdNext]_wdVars PROVE WdTypeOK'
  OBVIOUS
<1> USE WdSizes
<1>1. CASE CheckBegin
  BY <1>1 DEF CheckBegin, WdTypeOK, tableVars, feedVars
<1>2. CASE CheckFresh
  BY <1>2, WalkTyped DEF CheckFresh, WdTypeOK, feedVars
<1>3. CASE CheckExpired
  <2>1. miss' \in [Ids -> 0..255]
    BY <1>3 DEF CheckExpired, WdTypeOK
  <2>2. wd' \in {"idle", "check", "confirm"} /\ entry' \in Ids /\ sinceCheck' \in 0..CheckGap
    BY <1>3, WalkTyped DEF CheckExpired, WdTypeOK
  <2> QED BY <1>3, <2>1, <2>2 DEF CheckExpired, WdTypeOK, feedVars
<1>4. CASE Restart
  BY <1>4 DEF Restart, WdTypeOK, tableVars, feedVars
<1>5. CASE FedMeanwhile
  BY <1>5, WalkTyped DEF FedMeanwhile, WdTypeOK, tableVars, feedVars
<1>6. CASE Tick
  <2>1. now' \in 0..(TickMod - 1)
    BY <1>6, TickCases DEF Tick, WdTypeOK
  <2>2. age' \in [Ids -> 0..TickMod]
    BY <1>6 DEF Tick, WdTypeOK, Older
  <2>3. held' \in [Ids -> 0..FeedDelay]
    BY <1>6 DEF Tick, WdTypeOK
  <2>4. sinceCheck' \in 0..CheckGap
    BY <1>6 DEF Tick, WdTypeOK
  <2> QED BY <1>6, <2>1, <2>2, <2>3, <2>4 DEF Tick, WdTypeOK, tableVars, checkVars
<1>7. ASSUME NEW i \in Ids, RegisterBegin(i) \/ FeedBegin(i) PROVE WdTypeOK'
  BY <1>7 DEF RegisterBegin, FeedBegin, Sample, WdTypeOK, tableVars, checkVars
<1>8. ASSUME NEW i \in Ids, RegisterEnd(i) PROVE WdTypeOK'
  BY <1>8 DEF RegisterEnd, WdTypeOK, checkVars
<1>9. ASSUME NEW i \in Ids, FeedEnd(i) PROVE WdTypeOK'
  BY <1>9 DEF FeedEnd, WdTypeOK, checkVars
<1>10. ASSUME NEW i \in Ids, Hang(i) PROVE WdTypeOK'
  BY <1>10 DEF Hang, WdTypeOK, tableVars, feedVars, checkVars
<1>11. CASE UNCHANGED wdVars
  BY <1>11 DEF wdVars, WdTypeOK
<1> QED BY <1>1, <1>2, <1>3, <1>4, <1>5, <1>6, <1>7, <1>8, <1>9, <1>10, <1>11
        DEF WdNext, CheckStep, FeederStep

(* Every step keeps looks and ages together.                               *)
LEMMA AgesStep == WdTypeOK /\ AgesAgree /\ [WdNext]_wdVars => AgesAgree'
<1> SUFFICES ASSUME WdTypeOK, AgesAgree, [WdNext]_wdVars PROVE AgesAgree'
  OBVIOUS
<1>1. CASE CheckStep \/ UNCHANGED wdVars
  BY <1>1 DEF CheckStep, CheckBegin, CheckFresh, CheckExpired, Restart, FedMeanwhile,
              wdVars, tableVars, feedVars, AgesAgree
<1>2. CASE Tick
  <2> SUFFICES ASSUME NEW i \in Ids
               PROVE  /\ wdActive'[i] => age'[i] = TickMod \/ Diff(now', last'[i]) = age'[i]
                      /\ feeder'[i] # "idle" => Diff(now', sample'[i]) = held'[i]
    BY DEF AgesAgree
  <2>1. /\ now \in 0..(TickMod - 1) /\ last[i] \in 0..(TickMod - 1) /\ sample[i] \in 0..(TickMod - 1)
        /\ age[i] \in 0..TickMod /\ held[i] \in 0..FeedDelay
    BY DEF WdTypeOK
  <2>2. /\ now' = (now + 1) % TickMod /\ last' = last /\ sample' = sample
        /\ wdActive' = wdActive /\ feeder' = feeder
    BY <1>2 DEF Tick, tableVars
  <2>3. wdActive[i] => age'[i] = TickMod \/ Diff(now', last'[i]) = age'[i]
    <3> HAVE wdActive[i]
    <3>1. age'[i] = IF age[i] < TickMod THEN age[i] + 1 ELSE age[i]
      BY <1>2 DEF Tick, Older
    <3>2. age[i] = TickMod \/ Diff(now, last[i]) = age[i]
      BY DEF AgesAgree
    <3>3. /\ Diff(now, last[i]) \in 0..(TickMod - 1)
          /\ Diff(now, last[i]) < TickMod - 1 => Diff(now', last[i]) = Diff(now, last[i]) + 1
      BY <2>1, <2>2, DiffGrows
    <3>4. age'[i] = TickMod \/ Diff(now', last[i]) = age'[i]
      BY <2>1, <3>1, <3>2, <3>3, WdSizes
    <3> QED BY <2>2, <3>4
  <2>4. feeder[i] # "idle" => Diff(now', sample'[i]) = held'[i]
    <3> HAVE feeder[i] # "idle"
    <3>1. held'[i] = held[i] + 1 /\ held[i] < FeedDelay
      BY <1>2 DEF Tick
    <3>2. Diff(now, sample[i]) = held[i]
      BY DEF AgesAgree
    <3>3. Diff(now, sample[i]) < TickMod - 1 => Diff(now', sample[i]) = Diff(now, sample[i]) + 1
      BY <2>1, <2>2, DiffGrows
    <3>4. Diff(now', sample[i]) = held'[i]
      BY <2>1, <3>1, <3>2, <3>3, WdSizes
    <3> QED BY <2>2, <3>4
  <2> QED BY <2>2, <2>3, <2>4
<1>3. ASSUME NEW i \in Ids, RegisterBegin(i) \/ FeedBegin(i) PROVE AgesAgree'
  <2>1. now \in 0..(TickMod - 1) /\ sample \in [Ids -> 0..(TickMod - 1)]
        /\ held \in [Ids -> 0..FeedDelay] /\ feeder \in [Ids -> {"idle", "register", "feed"}]
    BY DEF WdTypeOK
  <2>2. Diff(now, now) = 0
    BY <2>1, DiffCases, WdSizes
  <2> QED BY <1>3, <2>1, <2>2 DEF RegisterBegin, FeedBegin, Sample, tableVars, AgesAgree
<1>4. ASSUME NEW i \in Ids, FeederStep(i) PROVE AgesAgree'
  <2>1. wdActive \in [Ids -> BOOLEAN] /\ last \in [Ids -> 0..(TickMod - 1)] /\ age \in [Ids -> 0..TickMod]
        /\ feeder \in [Ids -> {"idle", "register", "feed"}] /\ sample \in [Ids -> 0..(TickMod - 1)]
        /\ held \in [Ids -> 0..FeedDelay]
    BY DEF WdTypeOK
  <2>2. Diff(now, sample[i]) = held[i]
    BY <1>4 DEF FeederStep, RegisterEnd, FeedEnd, AgesAgree
  <2>3. CASE RegisterEnd(i)
    BY <2>1, <2>2, <2>3 DEF RegisterEnd, AgesAgree
  <2>4. CASE FeedEnd(i)
    BY <2>1, <2>2, <2>4 DEF FeedEnd, AgesAgree
  <2> QED BY <1>4, <2>3, <2>4 DEF FeederStep
<1>5. ASSUME NEW i \in Ids, Hang(i) PROVE AgesAgree'
  BY <1>5 DEF Hang, tableVars, feedVars, AgesAgree
<1> QED BY <1>1, <1>2, <1>3, <1>4, <1>5 DEF WdNext

(* Every step keeps RestartJustified: only Restart names an entry, and     *)
(* nothing moves afterwards.                                               *)
LEMMA RestartStep == WdInv /\ [WdNext]_wdVars => RestartJustified'
<1> SUFFICES ASSUME WdInv, [WdNext]_wdVars PROVE RestartJustified'
  OBVIOUS
<1>1. CASE Restart
  <2>1. entry \in Ids /\ wdActive[entry] /\ Expired(entry) /\ miss[entry] >= MaxMisses
    BY <1>1 DEF Restart, StillExpired, WdInv, WdTypeOK
  <2>2. age[entry] > Timeout[entry]
    BY <2>1, ExpiredIsOld DEF WdInv
  <2> QED BY <1>1, <2>1, <2>2 DEF Restart, RestartJustified, tableVars
<1>2. CASE UNCHANGED wdVars
  BY <1>2 DEF wdVars, WdInv, RestartJustified
<1>3. CASE WdNext /\ ~Restart
  <2>1. restarted' = None
    BY <1>3 DEF WdNext, CheckStep, FeederStep, CheckBegin, CheckFresh, CheckExpired, FedMeanwhile, Tick,
                RegisterBegin, FeedBegin, Sample, RegisterEnd, FeedEnd, Hang, checkVars, Running
  <2> QED BY <2>1 DEF RestartJustified
<1> QED BY <1>1, <1>2, <1>3

(* watchdog_check never restarts the system for a task that fed within its *)
(* timeout, whatever the wraps of the tick and the feeds that race it.     *)
THEOREM NoFalseRestart == WdSpec => []RestartJustified
<1>1. WdInv /\ [WdNext]_wdVars => WdInv'
  BY WdTypeStep, AgesStep, RestartStep DEF WdInv
<1>2. WdInv => RestartJustified
  BY DEF WdInv
<1> QED BY WdBase, <1>1, <1>2, PTL DEF WdSpec
=============================================================================
