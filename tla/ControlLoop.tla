----------------------------- MODULE ControlLoop -----------------------------
(***************************************************************************)
(* The timing of the 1 ms control loop (control_loop.c) and of the phase   *)
(* monitor it feeds.  A hardware timer reloads every Period and notifies   *)
(* the loop task; the task takes the notifications, corrects the time at   *)
(* which it expects to start, runs the five phases, measures them and      *)
(* checks its deadline.                                                    *)
(*                                                                         *)
(* Two clocks exist: esp_timer (now) and the raw count of the loop timer   *)
(* (raw), which starts again from 0 at each alarm.  The loop is the        *)
(* highest-priority task of its core, but its code runs from flash: a      *)
(* flash write stalls it for tens of periods wherever it is, so time       *)
(* passes at every control point, a pending notification or not.  A stall  *)
(* of the tail of a cycle (metrics, watchdog_feed) is time in "wait", one  *)
(* between two phases belongs to the second.                               *)
(***************************************************************************)
EXTENDS Integers, Sequences

CONSTANTS
  Period,      \* LOOP_PERIOD_US
  Glitch,      \* jitter beyond which a cycle is skipped (1000000 us)
  BootIgnore,  \* BOOT_IGNORE_CYCLES
  Threshold,   \* DEADLINE_FAULT_THRESHOLD
  Every,       \* cycles between two updates of the metrics (5000)
  Deadline,    \* phase_deadline, per phase name
  Horizon      \* bound: ticks of time explored

Phases == {"io", "io_apply", "fieldbus", "automation", "events"}

ASSUME LoopAssumption ==
  /\ Period \in Nat \ {0} /\ Glitch \in Nat /\ Horizon \in Nat
  /\ BootIgnore \in Nat /\ Threshold \in Nat /\ Every \in Nat \ {0}
  /\ Deadline \in [Phases -> Nat]

(* phase_table: the phases in the order they run.                          *)
PhaseTable == <<"io", "fieldbus", "automation", "io_apply", "events">>

(* The phases by index in phase_max_table and in phase_deadline.           *)
MonitorTable == <<"io", "io_apply", "fieldbus", "automation", "events">>

PhaseCount == 5

VARIABLES
  now, raw,     \* esp_timer_get_time(), gptimer_get_raw_count()
  alarms,       \* alarms of the timer so far
  notif,        \* notification value of the task
  at,           \* control point of control_loop_run
  expected,     \* expected_cycle_time
  start,        \* start of the current or last cycle
  ph, before,   \* index of the phase that runs, t_before
  cycles,       \* cycle_counter
  missed, consecutive, overrun,  \* deadline_miss, its streak, overrun_count
  samples, execMax,              \* jitter_samples, exec_max
  exported,     \* what kernel_metrics_update was last given
  flagged       \* names whose overrun_counter is not zero

(* History: releases the loop has taken, when the streak of late cycles    *)
(* began, when the phase began, the phases that really overran, the misses *)
(* at the previous export, and the time that the loop, since it last       *)
(* waited with nothing pending, spent where exec does not measure it, up   *)
(* to a whole period.                                                      *)
VARIABLES taken, lateSince, phaseBegan, overran, prevMissed, unseen

timeVars  == <<now, raw, alarms>>
statVars  == <<cycles, missed, consecutive, overrun, samples, execMax, exported>>
phaseVars == <<ph, before, flagged, phaseBegan, overran>>
histVars  == <<lateSince, prevMissed>>
vars == <<timeVars, notif, at, expected, start, statVars, phaseVars, histVars,
          taken, unseen>>

Init ==
  /\ now = 0 /\ raw = 0 /\ alarms = 0
  /\ notif = 0
  /\ at = "wait"
  /\ expected = 0 /\ start = 0
  /\ ph = 1 /\ before = 0
  /\ cycles = 0
  /\ missed = 0 /\ consecutive = 0 /\ overrun = 0
  /\ samples = 0 /\ execMax = 0
  /\ exported = [exec |-> 0, miss |-> 0, over |-> 0]
  /\ flagged = {}
  /\ taken = 0 /\ lateSince = 0 /\ phaseBegan = 0 /\ overran = {}
  /\ prevMissed = 0 /\ unseen = 0

-----------------------------------------------------------------------------
(* The control points between the wake-up and the read of `start'.         *)
Waking == {"drain", "read"}

(* One tick of time; timer_callback notifies the task at each reload.      *)
Time ==
  /\ now < Horizon
  /\ at # "fault"
  /\ now' = now + 1
  /\ IF raw + 1 = Period
     THEN raw' = 0 /\ alarms' = alarms + 1 /\ notif' = notif + 1
     ELSE raw' = raw + 1 /\ UNCHANGED <<alarms, notif>>
  /\ unseen' = IF unseen = Period \/ at \in {"phase", "end"} THEN unseen
               ELSE IF at = "wait" /\ notif = 0 THEN 0
               ELSE unseen + 1
  /\ UNCHANGED <<at, expected, start, statVars, phaseVars, histVars, taken>>

(* The blocking ulTaskNotifyTake: pdTRUE clears the whole count.           *)
Take ==
  /\ at = "wait"
  /\ notif > 0
  /\ notif' = 0
  /\ at' = "drain"
  /\ taken' = taken + 1
  /\ UNCHANGED <<timeVars, expected, start, statVars, phaseVars, histVars,
                 unseen>>

(* The takes that do not block: each one that finds something counts.      *)
Drain ==
  /\ at = "drain"
  /\ notif > 0
  /\ notif' = 0
  /\ overrun' = overrun + 1
  /\ UNCHANGED <<timeVars, at, expected, start, cycles, missed, consecutive,
                 samples, execMax, exported, phaseVars, histVars, taken,
                 unseen>>

(* The take that finds nothing: the loop goes on to read the clock.        *)
Drained ==
  /\ at = "drain"
  /\ notif = 0
  /\ at' = "read"
  /\ UNCHANGED <<timeVars, notif, expected, start, statVars, phaseVars,
                 histVars, taken, unseen>>

(* expected_cycle_time as the cycle finds it, and the jitter it measures.  *)
Expected == IF expected = 0 THEN now ELSE expected
Jitter   == IF now >= Expected THEN now - Expected ELSE Expected - now

(* Mutant: the correction forgets the period that has begun.               *)
CorrectedShort ==
  IF now > Expected
  THEN Expected + ((now - Expected) \div Period) * Period
  ELSE Expected + Period

(* Drift correction.                                                       *)
Corrected ==
  IF now > Expected
  THEN Expected + ((now - Expected) \div Period + 1) * Period
  ELSE Expected + Period

(* Protection against a glitch: the cycle is skipped and not even the      *)
(* watchdog is fed.                                                        *)
Skip ==
  /\ at = "read"
  /\ Jitter > Glitch
  /\ start' = now
  /\ expected' = now + Period
  /\ at' = "wait"
  /\ UNCHANGED <<timeVars, notif, statVars, phaseVars, histVars, taken,
                 unseen>>

(* From the read of `start' to the first phase.                            *)
Start ==
  /\ at = "read"
  /\ Jitter <= Glitch
  /\ start' = now
  /\ cycles' = cycles + 1
  /\ samples' = IF cycles + 1 > BootIgnore /\ Jitter < Period
                THEN samples + 1 ELSE samples
  /\ expected' = Corrected
  /\ at' = "phase"
  /\ ph' = 1 /\ before' = raw /\ phaseBegan' = now
  /\ UNCHANGED <<timeVars, notif, missed, consecutive, overrun, execMax,
                 exported, flagged, overran, histVars, taken, unseen>>

(* safe_time_diff: 0 when the count was reloaded below t_before.           *)
SafeTimeDiff(a, b) == IF b >= a THEN b - a ELSE 0

(* A phase ends: phase_monitor_check, and the next phase begins.           *)
PhaseEnd ==
  /\ at = "phase"
  /\ flagged' = IF SafeTimeDiff(before, raw) > Deadline[MonitorTable[ph]]
                THEN flagged \cup {MonitorTable[ph]} ELSE flagged
  /\ overran' = IF now - phaseBegan > Deadline[PhaseTable[ph]]
                THEN overran \cup {PhaseTable[ph]} ELSE overran
  /\ IF ph < PhaseCount
     THEN ph' = ph + 1 /\ UNCHANGED at
     ELSE at' = "end" /\ UNCHANGED ph
  /\ before' = raw /\ phaseBegan' = now
  /\ UNCHANGED <<timeVars, notif, expected, start, statVars, histVars, taken,
                 unseen>>

(* exec, and exec_max with it.                                             *)
Exec == now - start
NewMax == IF Exec > execMax THEN Exec ELSE execMax

(* The metrics are exported every so many cycles, if jitter was sampled,   *)
(* and their maxima start again; m is the count of misses.                 *)
Export(m) ==
  IF samples > 0 /\ cycles % Every = 0
  THEN /\ exported' = [exec |-> NewMax, miss |-> m, over |-> overrun]
       /\ execMax' = 0 /\ samples' = 0
       /\ prevMissed' = exported.miss
  ELSE /\ execMax' = NewMax
       /\ UNCHANGED <<exported, samples, prevMissed>>

(* Mutant: a cycle one tick over its period still counts as in time.       *)
EndInTimeLax ==
  /\ at = "end"
  /\ Exec <= Period + 1
  /\ consecutive' = 0
  /\ lateSince' = now
  /\ Export(missed)
  /\ at' = "wait"
  /\ UNCHANGED <<timeVars, notif, expected, start, cycles, missed, overrun,
                 phaseVars, taken, unseen>>

(* Mutant: misses add up over the whole uptime.                            *)
EndInTimeCumulative ==
  /\ at = "end"
  /\ Exec <= Period
  /\ lateSince' = now
  /\ Export(missed)
  /\ at' = "wait"
  /\ UNCHANGED <<timeVars, notif, expected, start, cycles, missed,
                 consecutive, overrun, phaseVars, taken, unseen>>

(* The end of a cycle that met its deadline: metrics, watchdog_feed.       *)
EndInTime ==
  /\ at = "end"
  /\ Exec <= Period
  /\ consecutive' = 0
  /\ lateSince' = now
  /\ Export(missed)
  /\ at' = "wait"
  /\ UNCHANGED <<timeVars, notif, expected, start, cycles, missed, overrun,
                 phaseVars, taken, unseen>>

(* The end of a late cycle; sustained misses abort the system.             *)
EndLate ==
  /\ at = "end"
  /\ Exec > Period
  /\ missed' = missed + 1
  /\ consecutive' = consecutive + 1
  /\ IF consecutive + 1 > Threshold
     THEN at' = "fault" /\ UNCHANGED <<exported, samples, execMax, prevMissed>>
     ELSE at' = "wait" /\ Export(missed + 1)
  /\ UNCHANGED <<timeVars, notif, expected, start, cycles, overrun,
                 phaseVars, lateSince, taken, unseen>>

Next ==
  \/ Time \/ Take \/ Drain \/ Drained \/ Skip \/ Start \/ PhaseEnd
  \/ EndInTime \/ EndLate

Spec == Init /\ [][Next]_vars

-----------------------------------------------------------------------------
(* Type invariant.                                                         *)
TypeOK ==
  /\ now \in Nat /\ raw \in 0..(Period - 1) /\ alarms \in Nat
  /\ notif \in Nat /\ taken \in Nat
  /\ at \in {"wait", "phase", "end", "fault"} \cup Waking
  /\ expected \in Nat /\ start \in Nat
  /\ ph \in 1..PhaseCount /\ before \in 0..(Period - 1)
  /\ cycles \in Nat /\ missed \in Nat /\ consecutive \in Nat
  /\ overrun \in Nat /\ samples \in Nat /\ execMax \in Nat
  /\ exported \in [exec : Nat, miss : Nat, over : Nat]
  /\ flagged \subseteq Phases /\ overran \subseteq Phases
  /\ lateSince \in Nat /\ phaseBegan \in Nat /\ prevMissed \in Nat
  /\ unseen \in 0..Period

(* Drift correction works: from the start of a cycle on, the next start is *)
(* expected later than this one and less than three periods later,         *)
(* whatever stalls, overruns and skipped cycles came before (less than two *)
(* as long as no stall delays a start past the next release).              *)
ExpectedTracks ==
  at \in {"phase", "end"} => start < expected /\ expected < start + 3 * Period

(* A release the loop neither took nor counted as an overrun was lost      *)
(* because the deadline monitor noticed a late cycle, or because the loop  *)
(* was held up for a whole period outside what the monitor measures, from  *)
(* the read of `end' to the next read of `start': otherwise the loop runs  *)
(* once per millisecond, and latencies never add up to a lost release      *)
(* while the loop still comes to wait with nothing pending.                *)
LostOnlyIfMissed ==
  alarms - taken - notif > overrun => missed > 0 \/ unseen = Period

(* The deadline monitor notices every lost release.                        *)
LossIsMissed == alarms - taken - notif > overrun => missed > 0

(* The abort "deadline fault" comes only after the loop has been late for  *)
(* more than the threshold's number of periods, with no cycle in time.     *)
FaultIsSustained ==
  at = "fault" => now - lateSince > (Threshold + 1) * Period

(* The exported maximum shows a late cycle exactly when the exported count *)
(* of misses grew since the previous export.                               *)
ExportShowsMiss ==
  exported.miss > prevMissed <=> exported.exec > Period

(* An overrun counter of the phase monitor bears the name of a phase that  *)
(* exceeded its own deadline.                                              *)
PhaseAttributed == flagged \subseteq overran

(* A phase whose slot bears its own name and which exceeded its deadline   *)
(* is counted by the phase monitor.                                        *)
OverrunNoticed == overran \cap {"io", "events"} \subseteq flagged

(* A release that was lost is counted in overrun_count.                    *)
LostIsCounted == alarms - taken - notif <= overrun
=============================================================================
