----------------------------- MODULE OutputPath -----------------------------
(***************************************************************************)
(* The path of an output value from the code that decides it to the pin    *)
(* that carries it.  The 1 ms control loop runs on core 1: it pops one     *)
(* queued command (scheduler_run_io), lets the automation and the ladder   *)
(* write outputs, and drives the pins (io_driver_update).  On core 0 the   *)
(* HTTP server guards and queues manual commands, tests and rearms the     *)
(* fail-safe; the cluster receiver applies remote commands; the auxiliary  *)
(* task applies the fail-safe when the gateway is lost.                    *)
(*                                                                         *)
(* Nothing but the command queue is locked.  `pending_mask |= bit' and     *)
(* `pending_mask &= ~bit' are each a load and a store, and every task may  *)
(* be interleaved between them; so may a guard and the write it guards.    *)
(* The queue itself is the bounded FIFO that RingQueue implements.         *)
(***************************************************************************)
EXTENDS Integers, Sequences

CONSTANTS
  N,          \* number of entries of output_table; entry i is output i
  Manual,     \* outputs whose recovery_mode is FAILSAFE_RECOVERY_MANUAL
  Hold,       \* outputs whose actions are FAILSAFE_ACTION_HOLD_LAST; the
              \* others have FAILSAFE_ACTION_FORCE_OFF
  QueueLen,   \* commands the queue can hold (IO_CMD_QUEUE_SIZE - 1)
  Setups      \* installations: sets of writers that are in use together

AllServices == {"manual", "test", "rearm", "remote", "failover", "owner",
                "automation", "ladder"}

(* Writers of the output state that do not run on the control loop.        *)
DirectWriters == {"test", "remote", "failover", "owner"}

ASSUME OutputAssumption ==
  /\ N \in Nat \ {0}
  /\ QueueLen \in Nat \ {0}
  /\ Manual \subseteq 1..N
  /\ Hold \subseteq 1..N
  /\ Setups \subseteq SUBSET AllServices

Outputs == 1..N
Value   == {0, 1}
Tasks   == {"ctl", "http", "rx", "aux"}
NoValue == -1
Command == [id : Outputs, val : Value]
Points  == {"idle", "run", "push", "entry", "set", "load", "store",
            "scan", "scanstore", "drive", "level", "clear"}

VARIABLES
  services,     \* the writers of this installation; never changes
  value,        \* int_values[]
  gpio,         \* level of the pin, seen through active_low
  pending,      \* pending_mask
  localMask,    \* local_mask: ownership io_driver_update saw last
  owned,        \* outputs cluster_io_is_local says are ours
  active,       \* entry->active
  lastApplied,  \* entry->last_applied_value
  cmds,         \* the io_command queue
  phase,        \* phase of the scheduler the control loop is in
  pc, id, val, reg,  \* per task: control point, output, value, loaded mask
  mask          \* `mask' of io_driver_update

(* History: the value an output is to keep because it was latched with no  *)
(* other value under way to it, else NoValue.                              *)
VARIABLE held

taskVars == <<pc, id, val, reg>>
fsVars   == <<active, lastApplied>>
outVars == <<services, value, gpio, pending, localMask, owned, active,
             lastApplied, cmds, phase, pc, id, val, reg, mask, held>>

-----------------------------------------------------------------------------
(* failsafe_apply_action for the two actions of this module.               *)
SafeValue(o) == IF o \in Hold THEN value[o] ELSE 0

(* failsafe_guard_command refuses exactly these outputs.                   *)
Latched(o) == active[o] /\ o \in Manual

(* Boot: failsafe_startup_value latches the outputs with manual recovery,  *)
(* and io_driver_init drives the start-up value before the loop starts.    *)
(* Then ladder_engine_run_self_test switches the first output on and off   *)
(* through state_set_int: it ends at 0 and pending, latched or not.        *)
OutInit ==
  /\ services \in Setups
  /\ gpio \in [Outputs -> Value]
  /\ \A o \in Outputs \ Hold : gpio[o] = 0
  /\ value = [gpio EXCEPT ![1] = 0]
  /\ pending = {1}
  /\ localMask = Outputs
  /\ owned = Outputs
  /\ active = [o \in Outputs |-> o \in Manual]
  /\ lastApplied = gpio
  /\ held = [o \in Outputs |-> IF o \in Manual THEN value[o] ELSE NoValue]
  /\ cmds = <<>>
  /\ phase = "io"
  /\ pc = [t \in Tasks |-> IF t = "ctl" THEN "run" ELSE "idle"]
  /\ id = [t \in Tasks |-> 1]
  /\ val = [t \in Tasks |-> 0]
  /\ reg = [t \in Tasks |-> {}]
  /\ mask = {}

-----------------------------------------------------------------------------
(* state_set_int(id, val), run by task t from control point "set".  An     *)
(* unchanged value has no side effect; a changed one goes on to the hook   *)
(* state_output_changed, which loads pending_mask and then stores it.      *)

(* Where t goes when its operation returns: the auxiliary task to the next *)
(* entry of failsafe_apply_for_reason_all, the control loop back to its    *)
(* phase (the IO phase has a budget of one command), the others are done.  *)
(* The locals of a finished call are reset.                                *)
Return(t) ==
  /\ IF t = "aux" /\ id[t] < N
     THEN /\ pc' = [pc EXCEPT ![t] = "entry"]
          /\ id' = [id EXCEPT ![t] = @ + 1]
          /\ UNCHANGED phase
     ELSE /\ pc' = [pc EXCEPT ![t] = IF t = "ctl" THEN "run" ELSE "idle"]
          /\ id' = [id EXCEPT ![t] = 1]
          /\ phase' = IF t = "ctl" /\ phase = "io" THEN "automation" ELSE phase
  /\ val' = [val EXCEPT ![t] = 0]
  /\ reg' = [reg EXCEPT ![t] = {}]

SetUnchanged(t) ==
  /\ pc[t] = "set"
  /\ value[id[t]] = val[t]
  /\ Return(t)
  /\ UNCHANGED <<value, gpio, pending, localMask, owned, fsVars, cmds, mask>>

SetChanged(t) ==
  /\ pc[t] = "set"
  /\ value[id[t]] # val[t]
  /\ value' = [value EXCEPT ![id[t]] = val[t]]
  /\ pc' = [pc EXCEPT ![t] = "load"]
  /\ UNCHANGED <<gpio, pending, localMask, owned, fsVars, cmds, phase, id,
                 val, reg, mask>>

HookLoad(t) ==
  /\ pc[t] = "load"
  /\ reg' = [reg EXCEPT ![t] = pending]
  /\ pc' = [pc EXCEPT ![t] = "store"]
  /\ UNCHANGED <<value, gpio, pending, localMask, owned, fsVars, cmds, phase,
                 id, val, mask>>

(* Mutant: the hook marks the output only when nothing else is pending.    *)
HookStoreOnce(t) ==
  /\ pc[t] = "store"
  /\ pending' = IF reg[t] = {} THEN {id[t]} ELSE reg[t]
  /\ Return(t)
  /\ UNCHANGED <<value, gpio, localMask, owned, fsVars, cmds, mask>>

HookStore(t) ==
  /\ pc[t] = "store"
  /\ pending' = reg[t] \cup {id[t]}
  /\ Return(t)
  /\ UNCHANGED <<value, gpio, localMask, owned, fsVars, cmds, mask>>

StateSetInt(t) ==
  SetUnchanged(t) \/ SetChanged(t) \/ HookLoad(t) \/ HookStore(t)

(* Task t calls state_set_int(o, v).                                       *)
Call(t, o, v) ==
  /\ pc' = [pc EXCEPT ![t] = "set"]
  /\ id' = [id EXCEPT ![t] = o]
  /\ val' = [val EXCEPT ![t] = v]

(* Mutant: the guard forgets to look at the latch.                         *)
GuardOpen(o, v) == lastApplied' = [lastApplied EXCEPT ![o] = v]

(* failsafe_guard_command(o, v): refused for a latched output, otherwise   *)
(* the requested value is recorded as the last one applied.                *)
Guard(o, v) ==
  /\ ~ Latched(o)
  /\ lastApplied' = [lastApplied EXCEPT ![o] = v]

-----------------------------------------------------------------------------
(* Core 0.                                                                 *)

(* io_set_handler: the guard, then io_command_push.  A refused command     *)
(* (409) changes nothing.                                                  *)
ManualGuard(o, v) ==
  /\ "manual" \in services
  /\ pc["http"] = "idle"
  /\ Guard(o, v)
  /\ pc' = [pc EXCEPT !["http"] = "push"]
  /\ id' = [id EXCEPT !["http"] = o]
  /\ val' = [val EXCEPT !["http"] = v]
  /\ UNCHANGED <<value, gpio, pending, localMask, owned, active, cmds, phase,
                 reg, mask>>

(* io_command_push; a full queue answers BUSY (503).                       *)
ManualPush ==
  /\ pc["http"] = "push"
  /\ Return("http")
  /\ cmds' = IF Len(cmds) < QueueLen
             THEN Append(cmds, [id |-> id["http"], val |-> val["http"]])
             ELSE cmds
  /\ UNCHANGED <<value, gpio, pending, localMask, owned, fsVars, mask>>

(* Every write of o that a task other than t has under way, or that waits  *)
(* in the queue, carries the value v.                                      *)
OnlyCarry(t, o, v) ==
  /\ \A u \in Tasks \ {t} :
       pc[u] \in {"set", "push"} /\ id[u] = o => val[u] = v
  /\ \A k \in 1..Len(cmds) : cmds[k].id = o => cmds[k].val = v

(* failsafe_apply_for_reason(o, _): the action picks the value, the entry  *)
(* is latched if its recovery is manual; then state_set_int.               *)
FailsafeApply(t, o) ==
  /\ active' = [active EXCEPT ![o] = o \in Manual]
  /\ held' = [held EXCEPT ![o] =
               IF o \in Manual /\ OnlyCarry(t, o, SafeValue(o))
               THEN SafeValue(o) ELSE NoValue]
  /\ lastApplied' = [lastApplied EXCEPT ![o] = SafeValue(o)]
  /\ Call(t, o, SafeValue(o))
  /\ UNCHANGED <<value, gpio, pending, localMask, owned, cmds, phase, reg,
                 mask>>

FailsafeTest(o) ==
  /\ "test" \in services
  /\ pc["http"] = "idle"
  /\ FailsafeApply("http", o)

(* cluster_failover_event_handler -> failsafe_apply_for_reason_all: entry  *)
(* by entry, in table order.                                               *)
GatewayLost ==
  /\ "failover" \in services
  /\ pc["aux"] = "idle"
  /\ pc' = [pc EXCEPT !["aux"] = "entry"]
  /\ id' = [id EXCEPT !["aux"] = 1]
  /\ UNCHANGED <<value, gpio, pending, localMask, owned, fsVars, cmds, phase,
                 val, reg, mask>>

FailsafeEntry ==
  /\ pc["aux"] = "entry"
  /\ FailsafeApply("aux", id["aux"])

FailsafeRearm(o) ==
  /\ "rearm" \in services
  /\ pc["http"] = "idle"
  /\ active' = [active EXCEPT ![o] = FALSE]
  /\ held' = [held EXCEPT ![o] = NoValue]
  /\ UNCHANGED <<value, gpio, pending, localMask, owned, lastApplied, cmds,
                 phase, taskVars, mask>>

(* automation_handle_output_command: guard, then state_set_int from the    *)
(* receiver task.                                                          *)
RemoteCommand(o, v) ==
  /\ "remote" \in services
  /\ pc["rx"] = "idle"
  /\ Guard(o, v)
  /\ Call("rx", o, v)
  /\ UNCHANGED <<value, gpio, pending, localMask, owned, active, cmds, phase,
                 reg, mask>>

(* An update of cluster_io moves the output to or from this node.  What    *)
(* other nodes can bring about of this is in module Cluster.               *)
OwnerChange(o) ==
  /\ "owner" \in services
  /\ owned' = IF o \in owned THEN owned \ {o} ELSE owned \cup {o}
  /\ UNCHANGED <<value, gpio, pending, localMask, fsVars, cmds, phase,
                 taskVars, mask>>

-----------------------------------------------------------------------------
(* Core 1, the control loop.                                               *)

(* scheduler_run_io: one command of the queue.                             *)
CtlPop ==
  /\ pc["ctl"] = "run" /\ phase = "io"
  /\ cmds # <<>>
  /\ cmds' = Tail(cmds)
  /\ Call("ctl", Head(cmds).id, Head(cmds).val)
  /\ UNCHANGED <<value, gpio, pending, localMask, owned, fsVars, phase, reg,
                 mask>>

CtlNoCommand ==
  /\ pc["ctl"] = "run" /\ phase = "io"
  /\ cmds = <<>>
  /\ phase' = "automation"
  /\ UNCHANGED <<value, gpio, pending, localMask, owned, fsVars, cmds,
                 taskVars, mask>>

(* automation_dispatch_output for a local output, from the timers of       *)
(* automation_engine_tick_1ms or from an event: guard, then the write.     *)
CtlAutomation(o, v) ==
  /\ "automation" \in services
  /\ pc["ctl"] = "run" /\ phase \in {"automation", "events"}
  /\ o \in owned
  /\ Guard(o, v)
  /\ Call("ctl", o, v)
  /\ UNCHANGED <<value, gpio, pending, localMask, owned, active, cmds, phase,
                 reg, mask>>

(* ladder_engine_run: a coil writes the state with no guard.               *)
CtlLadder(o, v) ==
  /\ "ladder" \in services
  /\ pc["ctl"] = "run" /\ phase = "automation"
  /\ Call("ctl", o, v)
  /\ UNCHANGED <<value, gpio, pending, localMask, owned, fsVars, cmds, phase,
                 reg, mask>>

(* The phase ends; io_driver_update starts by copying pending_mask.        *)
CtlApply ==
  /\ pc["ctl"] = "run" /\ phase = "automation"
  /\ phase' = "apply"
  /\ mask' = pending
  /\ pc' = [pc EXCEPT !["ctl"] = "scan"]
  /\ id' = [id EXCEPT !["ctl"] = 1]
  /\ UNCHANGED <<value, gpio, pending, localMask, owned, fsVars, cmds, val,
                 reg>>

(* First loop of io_driver_update: outputs whose ownership moved are       *)
(* recorded and marked pending (a load and a store again).                 *)
Moved(o) == (o \in owned) # (o \in localMask)

NextOutput(point, done) ==
  IF id["ctl"] < N
  THEN /\ pc' = [pc EXCEPT !["ctl"] = point]
       /\ id' = [id EXCEPT !["ctl"] = @ + 1]
  ELSE /\ pc' = [pc EXCEPT !["ctl"] = done]
       /\ id' = [id EXCEPT !["ctl"] = 1]

CtlScanSame ==
  /\ pc["ctl"] = "scan"
  /\ ~ Moved(id["ctl"])
  /\ NextOutput("scan", "drive")
  /\ UNCHANGED <<value, gpio, pending, localMask, owned, fsVars, cmds, phase,
                 val, reg, mask>>

CtlScanMoved ==
  /\ pc["ctl"] = "scan"
  /\ Moved(id["ctl"])
  /\ localMask' = IF id["ctl"] \in owned THEN localMask \cup {id["ctl"]}
                                         ELSE localMask \ {id["ctl"]}
  /\ reg' = [reg EXCEPT !["ctl"] = pending]
  /\ pc' = [pc EXCEPT !["ctl"] = "scanstore"]
  /\ UNCHANGED <<value, gpio, pending, owned, fsVars, cmds, phase, id, val,
                 mask>>

CtlScanStore ==
  /\ pc["ctl"] = "scanstore"
  /\ pending' = reg["ctl"] \cup {id["ctl"]}
  /\ mask' = mask \cup {id["ctl"]}
  /\ reg' = [reg EXCEPT !["ctl"] = {}]
  /\ NextOutput("scan", "drive")
  /\ UNCHANGED <<value, gpio, localMask, owned, fsVars, cmds, phase, val>>

(* Second loop: read the state (a remote output is driven off), set the    *)
(* pin, clear the pending bit.  After the last output the loop is in the   *)
(* events phase.                                                           *)
DriveNext ==
  /\ NextOutput("drive", "run")
  /\ phase' = IF id["ctl"] = N THEN "events" ELSE phase
  /\ mask' = mask \ {id["ctl"]}
  /\ val' = [val EXCEPT !["ctl"] = 0]
  /\ reg' = [reg EXCEPT !["ctl"] = {}]
  /\ UNCHANGED <<value, gpio, localMask, owned, fsVars, cmds>>

CtlDriveSkip ==
  /\ pc["ctl"] = "drive"
  /\ id["ctl"] \notin mask
  /\ DriveNext
  /\ UNCHANGED pending

CtlDriveRead ==
  /\ pc["ctl"] = "drive"
  /\ id["ctl"] \in mask
  /\ val' = [val EXCEPT !["ctl"] =
               IF id["ctl"] \in owned THEN value[id["ctl"]] ELSE 0]
  /\ pc' = [pc EXCEPT !["ctl"] = "level"]
  /\ UNCHANGED <<value, gpio, pending, localMask, owned, fsVars, cmds, phase,
                 id, reg, mask>>

CtlSetLevel ==
  /\ pc["ctl"] = "level"
  /\ gpio' = [gpio EXCEPT ![id["ctl"]] = val["ctl"]]
  /\ reg' = [reg EXCEPT !["ctl"] = pending]
  /\ pc' = [pc EXCEPT !["ctl"] = "clear"]
  /\ UNCHANGED <<value, pending, localMask, owned, fsVars, cmds, phase, id,
                 val, mask>>

(* Mutant: a bit is cleared only if no other bit was set meanwhile.        *)
CtlClearIfAlone ==
  /\ pc["ctl"] = "clear"
  /\ pending' = IF reg["ctl"] = mask THEN reg["ctl"] \ {id["ctl"]} ELSE reg["ctl"]
  /\ DriveNext

CtlClear ==
  /\ pc["ctl"] = "clear"
  /\ pending' = reg["ctl"] \ {id["ctl"]}
  /\ DriveNext

(* The events phase ends and the next cycle begins.                        *)
CtlCycle ==
  /\ pc["ctl"] = "run" /\ phase = "events"
  /\ phase' = "io"
  /\ UNCHANGED <<value, gpio, pending, localMask, owned, fsVars, cmds,
                 taskVars, mask>>

-----------------------------------------------------------------------------
(* The steps the control loop takes by itself, every millisecond.          *)
CtlStep ==
  \/ CtlPop \/ CtlNoCommand \/ StateSetInt("ctl")
  \/ CtlApply \/ CtlScanSame \/ CtlScanMoved \/ CtlScanStore
  \/ CtlDriveSkip \/ CtlDriveRead \/ CtlSetLevel \/ CtlClear \/ CtlCycle

(* The steps that leave every latch as it is.                              *)
Plain ==
  \/ CtlStep
  \/ \E o \in Outputs, v \in Value :
       CtlAutomation(o, v) \/ CtlLadder(o, v) \/ ManualGuard(o, v)
         \/ RemoteCommand(o, v)
  \/ \E o \in Outputs : OwnerChange(o)
  \/ ManualPush \/ GatewayLost
  \/ \E t \in Tasks \ {"ctl"} : StateSetInt(t)

Step ==
  \/ Plain /\ UNCHANGED held
  \/ \E o \in Outputs : FailsafeTest(o) \/ FailsafeRearm(o)
  \/ FailsafeEntry

Fixed == UNCHANGED services
OutNext  == Step /\ Fixed

(* The control loop is the highest-priority task of its core and a timer   *)
(* releases it every millisecond, so it keeps taking steps; the rules and  *)
(* the rungs are finitely many, so the phases that run them end.  A rule   *)
(* may or may not write in a given cycle, so no fairness is asked of it,   *)
(* nor of what arrives from the network.                                   *)
Fairness ==
  /\ WF_outVars(CtlStep /\ UNCHANGED held /\ Fixed)
  /\ SF_outVars(CtlApply /\ UNCHANGED held /\ Fixed)
  /\ SF_outVars(CtlCycle /\ UNCHANGED held /\ Fixed)

OutSpec == OutInit /\ [][OutNext]_outVars /\ Fairness

-----------------------------------------------------------------------------
(* Type invariant.                                                         *)
OutTypeOK ==
  /\ services \in SUBSET AllServices
  /\ value \in [Outputs -> Value]
  /\ gpio \in [Outputs -> Value]
  /\ pending \in SUBSET Outputs
  /\ localMask \in SUBSET Outputs
  /\ owned \in SUBSET Outputs
  /\ active \in [Outputs -> BOOLEAN]
  /\ lastApplied \in [Outputs -> Value]
  /\ cmds \in Seq(Command) /\ Len(cmds) <= QueueLen
  /\ phase \in {"io", "automation", "apply", "events"}
  /\ pc \in [Tasks -> Points]
  /\ id \in [Tasks -> Outputs]
  /\ val \in [Tasks -> Value]
  /\ reg \in [Tasks -> SUBSET Outputs]
  /\ mask \in SUBSET Outputs
  /\ held \in [Outputs -> Value \cup {NoValue}]

(* The level io_driver_update is to give the pin of output o.              *)
Driven(o) == IF o \in owned THEN value[o] ELSE 0

(* No task is inside an operation and nothing waits to be applied.         *)
Quiescent ==
  /\ \A t \in Tasks \ {"ctl"} : pc[t] = "idle"
  /\ pc["ctl"] = "run"
  /\ pending = {}
  /\ localMask = owned

(* Whenever the system is quiescent, every pin carries the value of the    *)
(* state: no write of an output is lost between state_set_int and          *)
(* gpio_set_level (io_driver.c, state_output_changed, io_driver_update).   *)
OutputsConverge == Quiescent => \A o \in Outputs : gpio[o] = Driven(o)

(* It is so wherever only the control loop writes outputs, the contract of *)
(* state.h: services go through the queue.                                 *)
LoopWritesConverge ==
  services \cap DirectWriters = {} => OutputsConverge

(* Some task is in the middle of a fail-safe write of output o.            *)
FailsafeInFlight(o) ==
  \E t \in {"http", "aux"} : pc[t] = "set" /\ id[t] = o

(* An output that fail-safe latched keeps the value fail-safe gave it      *)
(* until it is rearmed, whoever commands it (failsafe_guard_command).      *)
LatchedHoldsSafeValue ==
  \A o \in Outputs :
    Latched(o) /\ ~ FailsafeInFlight(o) => value[o] = lastApplied[o]

(* An output that was latched, at boot or by a trip of the fail-safe, with *)
(* no other value under way to it, keeps the value it was latched with     *)
(* until it is rearmed, whatever commands, remote writes, rules and        *)
(* further trips come (failsafe_guard_command).  A ladder program writes   *)
(* with no guard; a value that passed its guard before the latch is the    *)
(* history's exception.                                                    *)
LatchKept ==
  "ladder" \notin services =>
    \A o \in Outputs :
      Latched(o) /\ held[o] # NoValue /\ ~ FailsafeInFlight(o)
        => value[o] = held[o]

(* A bit set in pending_mask is always served: io_driver_update reaches it *)
(* however the other bits come and go.                                     *)
PendingServed == \A o \in Outputs : o \in pending ~> o \notin pending

(* Where only the control loop writes, the command at the head of the      *)
(* queue is eventually written: the state takes its value.                 *)
CommandApplied ==
  \A o \in Outputs, v \in Value :
    (services \cap DirectWriters = {} /\ cmds # <<>>
       /\ Head(cmds) = [id |-> o, val |-> v]) ~> value[o] = v

=============================================================================
