--------------------------------- MODULE Pve ---------------------------------
(***************************************************************************)
(* Process variables: pve.c with its callers.  The control loop samples an *)
(* analog input on core 1; the telemetry task reads a sensor on core 0,    *)
(* which takes a while; the HTTP task edits scales and alarm limits and    *)
(* switches the sensor.  Nothing is locked: an update stores the value,    *)
(* judges it, stores the alarm and logs it, each a step of its own, and an *)
(* edit stores the scale, the limits, and updates.                         *)
(*                                                                         *)
(* Names, units and decimals are left out, and so are the events of the    *)
(* bus; the four limits are stored and read at once.                       *)
(***************************************************************************)
EXTENDS Integers, Sequences

CONSTANTS
    Raws,           \* what the converter and the sensor may read
    Default,        \* [scale, alarm] of a variable in pve_init_variables
    Scales, Alarms, \* what a request may ask for
    TestVals,       \* what the self-test leaves as value and in the history
    Cap,            \* ALARM_HISTORY_MAX
    MaxOps,         \* bound on requests and restarts
    MaxFail         \* bound on failed writes

Ain == "ain"
Sensor == "sensor"
Vars == <<Ain, Sensor>>
VarSet == {Ain, Sensor}
Tasks == {"loop", "telemetry", "http"}
NoBlob == [scale |-> "none"]

ScaleSet == [imin : Int, imax : Int, smin : Int, smax : Int]
AlarmSet == [on : BOOLEAN, high : Int, low : Int, hyst : Int]

\* Every variable starts with its alarm disabled.
ConstantsOK ==
    /\ Raws \subseteq Int /\ TestVals \in Int
    /\ Default \in [scale : ScaleSet, alarm : AlarmSet] /\ ~Default.alarm.on
    /\ Scales \subseteq ScaleSet /\ Alarms \subseteq AlarmSet
    /\ Cap \in Nat \ {0}

VARIABLES
    conf,       \* config and alarm of each variable
    run,        \* runtime of each variable: raw, val, st
    nvs,        \* the blob of each variable
    on, onSaved,\* the sensor is enabled, in memory and in flash
    ring, head, count,
    raced,      \* history: variables whose last update began inside another one
    log,        \* history: the last Cap changes of an alarm, as they were stored
    crossed,    \* history: a store of the log met another one under way
    pc,         \* where each task is
    ops, fails

vars == <<conf, run, nvs, on, onSaved, ring, head, count, raced, log, crossed, pc, ops, fails>>

Idle == [at |-> "idle"]
Cleared == [raw |-> 0, val |-> 0, st |-> "OK"]
Last(s, n) == IF Len(s) <= n THEN s ELSE SubSeq(s, Len(s) - n + 1, Len(s))

-----------------------------------------------------------------------------
(* Scaling and alarm of one sample.                                        *)

Trunc(a, b) ==
    LET abs(x) == IF x < 0 THEN -x ELSE x
    IN  IF (a < 0) = (b < 0) THEN abs(a) \div abs(b) ELSE -(abs(a) \div abs(b))

\* Saturated at both ends, rounded to the nearest in between; the input range
\* may be inverted.
Scale(raw, c) ==
    LET before == IF c.imin < c.imax THEN raw <= c.imin ELSE raw >= c.imin
        after == IF c.imin < c.imax THEN raw >= c.imax ELSE raw <= c.imax
        n == (raw - c.imin) * (c.smax - c.smin)
        d == c.imax - c.imin
    IN  IF d = 0 \/ before THEN c.smin
        ELSE IF after THEN c.smax
        ELSE c.smin + Trunc(IF (n < 0) # (d < 0) THEN n - Trunc(d, 2) ELSE n + Trunc(d, 2), d)

\* Mutant: an alarm is left for OK without a look at the other limit.
JudgeToOk(st, val, a) ==
    CASE ~a.on -> "OK"
      [] a.on /\ st = "HIGH" -> IF val > a.high - a.hyst THEN "HIGH" ELSE "OK"
      [] a.on /\ st = "LOW" -> IF val < a.low + a.hyst THEN "LOW" ELSE "OK"
      [] a.on /\ st = "OK" -> IF val >= a.high THEN "HIGH" ELSE IF val <= a.low THEN "LOW" ELSE "OK"

\* The alarm after a sample, with hysteresis.
Judge(st, val, a) ==
    CASE ~a.on -> "OK"
      [] a.on /\ st = "HIGH" -> IF val > a.high - a.hyst THEN "HIGH" ELSE IF val <= a.low THEN "LOW" ELSE "OK"
      [] a.on /\ st = "LOW" -> IF val < a.low + a.hyst THEN "LOW" ELSE IF val >= a.high THEN "HIGH" ELSE "OK"
      [] a.on /\ st = "OK" -> IF val >= a.high THEN "HIGH" ELSE IF val <= a.low THEN "LOW" ELSE "OK"

\* A task is inside pve_update of v, before the log.
Updating(t, v) == pc[t].at \in {"judge", "commit"} /\ pc[t].v = v

Overlaps(t, v) == IF \E u \in Tasks \ {t} : Updating(u, v) THEN raced \cup {v} ELSE raced \ {v}

\* pve_clear_variable.
Clear(t, v) ==
    /\ run' = [run EXCEPT ![v] = Cleared]
    /\ raced' = Overlaps(t, v)

\* pve_update of v by task t, which goes on at next.
Update(t, v, raw, next) ==
    /\ run' = [run EXCEPT ![v].raw = raw, ![v].val = Scale(raw, conf[v].scale)]
    /\ raced' = Overlaps(t, v)
    /\ pc' = [pc EXCEPT ![t] = [at |-> "judge", v |-> v, next |-> next]]

UpdateJudge(t) ==
    /\ pc[t].at = "judge"
    /\ LET v == pc[t].v
           st == Judge(run[v].st, run[v].val, conf[v].alarm)
       IN  pc' = [pc EXCEPT ![t] = IF st = run[v].st THEN @.next
                                   ELSE [at |-> "commit", v |-> v, st |-> st, next |-> @.next]]
    /\ UNCHANGED <<conf, run, raced, nvs, on, onSaved, ring, head, count, log, crossed, ops, fails>>

\* A change is stored, and logged before the update ends.
UpdateCommit(t) ==
    /\ pc[t].at = "commit"
    /\ run' = [run EXCEPT ![pc[t].v].st = pc[t].st]
    /\ pc' = [pc EXCEPT ![t] = [at |-> "store", ev |-> <<@.v, @.st>>, next |-> @.next]]
    /\ UNCHANGED <<conf, raced, nvs, on, onSaved, ring, head, count, log, crossed, ops, fails>>

-----------------------------------------------------------------------------
(* The history of alarms: a ring, written in two steps.                    *)

LogStore(t) ==
    /\ pc[t].at = "store"
    /\ ring' = [ring EXCEPT ![head] = pc[t].ev]
    /\ log' = Last(Append(log, pc[t].ev), Cap)
    /\ crossed' = (crossed \/ \E u \in Tasks \ {t} : pc[u].at = "advance")
    /\ pc' = [pc EXCEPT ![t] = [at |-> "advance", next |-> pc[t].next]]
    /\ UNCHANGED <<conf, run, raced, nvs, on, onSaved, head, count, ops, fails>>

LogAdvance(t) ==
    /\ pc[t].at = "advance"
    /\ head' = (head + 1) % Cap
    /\ count' = IF count < Cap THEN count + 1 ELSE count
    /\ pc' = [pc EXCEPT ![t] = pc[t].next]
    /\ UNCHANGED <<conf, run, raced, nvs, on, onSaved, ring, log, crossed, ops, fails>>

\* pve_get_alarm_history, oldest first.
Exported == [i \in 1..count |-> ring[(head - count + Cap + i - 1) % Cap]]

-----------------------------------------------------------------------------
(* The samplers.                                                           *)

\* The loop's scan of an analog input.
ScanAnalog(raw) ==
    /\ pc["loop"] = Idle
    /\ Update("loop", Ain, raw, Idle)
    /\ UNCHANGED <<conf, nvs, on, onSaved, ring, head, count, log, crossed, ops, fails>>

\* The telemetry task begins to read a sensor that is enabled and clears one
\* that is not.
Poll ==
    /\ pc["telemetry"] = Idle
    /\ IF on THEN pc' = [pc EXCEPT !["telemetry"] = [at |-> "read"]] /\ UNCHANGED <<run, raced>>
       ELSE Clear("telemetry", Sensor) /\ UNCHANGED pc
    /\ UNCHANGED <<conf, nvs, on, onSaved, ring, head, count, log, crossed, ops, fails>>

\* The reading, or the simulated one where the sensor does not answer.
Reading(raw) ==
    /\ pc["telemetry"].at = "read"
    /\ Update("telemetry", Sensor, raw, Idle)
    /\ UNCHANGED <<conf, nvs, on, onSaved, ring, head, count, log, crossed, ops, fails>>

-----------------------------------------------------------------------------
(* Requests.                                                               *)

\* pve_save_config_handler: the scale is stored before the limits are looked at.
Edit(v, s, a) ==
    /\ pc["http"] = Idle /\ ops < MaxOps
    /\ ops' = ops + 1
    /\ IF s.imin = s.imax THEN UNCHANGED <<conf, pc>>
       ELSE /\ conf' = [conf EXCEPT ![v].scale = s]
            /\ pc' = [pc EXCEPT !["http"] = [at |-> "limits", v |-> v, alarm |-> a]]
    /\ UNCHANGED <<run, raced, nvs, on, onSaved, ring, head, count, log, crossed, fails>>

Accepts(a) == a.hyst >= 0 /\ (a.on => a.high > a.low)

EditLimits ==
    /\ pc["http"].at = "limits"
    /\ LET p == pc["http"]
       IN  IF Accepts(p.alarm)
           THEN /\ conf' = [conf EXCEPT ![p.v].alarm = p.alarm]
                /\ pc' = [pc EXCEPT !["http"] = [at |-> "update", v |-> p.v]]
           ELSE UNCHANGED conf /\ pc' = [pc EXCEPT !["http"] = Idle]
    /\ UNCHANGED <<run, raced, nvs, on, onSaved, ring, head, count, log, crossed, ops, fails>>

EditUpdate ==
    /\ pc["http"].at = "update"
    /\ LET v == pc["http"].v IN Update("http", v, run[v].raw, [at |-> "save", k |-> 1])
    /\ UNCHANGED <<conf, nvs, on, onSaved, ring, head, count, log, crossed, ops, fails>>

\* pve_save_config: a blob for each variable; a failure is only logged, and the
\* answer is ok.
SaveBlob ==
    /\ pc["http"].at = "save"
    /\ LET k == pc["http"].k
       IN  /\ \/ nvs' = [nvs EXCEPT ![Vars[k]] = conf[Vars[k]]] /\ UNCHANGED fails
              \/ fails < MaxFail /\ fails' = fails + 1 /\ UNCHANGED nvs
           /\ pc' = [pc EXCEPT !["http"] = IF k = Len(Vars) THEN Idle ELSE [@ EXCEPT !.k = k + 1]]
    /\ UNCHANGED <<conf, run, raced, on, onSaved, ring, head, count, log, crossed, ops>>

SetSensors(b) == on' = b /\ onSaved' = b

\* sensors_config_post_handler; a failed write changes nothing.
Switch(b) ==
    /\ pc["http"] = Idle /\ ops < MaxOps
    /\ ops' = ops + 1
    /\ \/ /\ SetSensors(b)
          /\ IF b THEN UNCHANGED <<run, raced>> ELSE Clear("http", Sensor)
          /\ UNCHANGED fails
       \/ fails < MaxFail /\ fails' = fails + 1 /\ UNCHANGED <<on, onSaved, run, raced>>
    /\ UNCHANGED <<conf, nvs, ring, head, count, log, crossed, pc>>

-----------------------------------------------------------------------------
(* Start.                                                                  *)

\* One variable without a valid blob resets all of them.
Loaded(b) == IF \E v \in VarSet : b[v] = NoBlob THEN [v \in VarSet |-> Default] ELSE b

\* The self-test of every start works on the variables themselves: its backup
\* is taken after it has reset them, and is what it puts back and saves.
Tested(c) == [v \in VarSet |-> Default]

LoadSensors == on' = onSaved

\* Power is cut and the node starts again; the writes of the self-test succeed.
Restart ==
    /\ ops < MaxOps
    /\ ops' = ops + 1
    /\ conf' = Tested(Loaded(nvs))
    /\ nvs' = conf'
    /\ run' = [v \in VarSet |-> IF v = Ain THEN [Cleared EXCEPT !.val = TestVals] ELSE Cleared]
    /\ LoadSensors
    /\ log' = Last(<<(<<Ain, "OK">>), (<<Ain, "HIGH">>)>>, Cap)
    /\ count' = Len(log')
    /\ head' = count' % Cap
    /\ ring' = [i \in 0..Cap - 1 |-> IF i < count' THEN log'[i + 1] ELSE <<Ain, "OK">>]
    /\ crossed' = FALSE /\ raced' = {}
    /\ pc' = [t \in Tasks |-> Idle]
    /\ UNCHANGED <<onSaved, fails>>

Init ==
    /\ conf = [v \in VarSet |-> Default]
    /\ nvs = conf
    /\ run = [v \in VarSet |-> Cleared]
    /\ on = FALSE /\ onSaved = FALSE
    /\ ring = [i \in 0..Cap - 1 |-> <<Ain, "OK">>]
    /\ head = 0 /\ count = 0 /\ log = <<>> /\ crossed = FALSE /\ raced = {}
    /\ pc = [t \in Tasks |-> Idle]
    /\ ops = 0 /\ fails = 0

Next ==
    \/ \E t \in Tasks : UpdateJudge(t) \/ UpdateCommit(t) \/ LogStore(t) \/ LogAdvance(t)
    \/ \E raw \in Raws : ScanAnalog(raw) \/ Reading(raw)
    \/ Poll \/ EditLimits \/ EditUpdate \/ SaveBlob \/ Restart
    \/ \E v \in VarSet, s \in Scales, a \in Alarms : Edit(v, s, a)
    \/ \E b \in BOOLEAN : Switch(b)

Spec == Init /\ [][Next]_vars

-----------------------------------------------------------------------------
(* What the process variables promise.                                     *)

\* A value at or beyond a limit shows its alarm once no update or edit is
\* under way, whichever task took the sample and whatever was edited meanwhile,
\* unless two updates of the variable overlapped.  The hysteresis must be
\* positive and no wider than the band between the limits (see Steady).
AlarmShows ==
    \A v \in VarSet \ raced :
        LET a == conf[v].alarm
        IN  /\ a.on /\ 0 < a.hyst /\ a.hyst <= a.high - a.low
            /\ \A t \in Tasks : ~Updating(t, v)
            /\ pc["http"].at \notin {"limits", "update"}
            /\ v = Sensor => on /\ run[v] # Cleared
            => /\ run[v].val >= a.high => run[v].st = "HIGH"
               /\ run[v].val <= a.low => run[v].st = "LOW"

\* The history is the last changes, in the order they were stored, unless two
\* tasks stored in it at once.
HistoryIsTail == (\A t \in Tasks : pc[t].at # "advance") /\ ~crossed => Exported = log

\* Not met: two tasks store in the history at once and one change is lost.
HistoryAlways == (\A t \in Tasks : pc[t].at # "advance") => Exported = log

\* Not met: the alarm of a value at rest stays (a hysteresis of 0 is accepted,
\* and the alarm of a value at its limit then changes with every sample).
Steady ==
    [][\A t \in Tasks : UpdateCommit(t) => pc[t].st # "OK" \/ run[pc[t].v].val \notin
          {conf[pc[t].v].alarm.high, conf[pc[t].v].alarm.low} \/ ~conf[pc[t].v].alarm.on]_vars

\* Not met: a restart brings back what is in flash.
ConfigKept == [][Restart => conf' = Loaded(nvs)]_vars
=============================================================================
