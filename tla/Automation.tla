----------------------------- MODULE Automation -----------------------------
(***************************************************************************)
(* The rule engine (automation_engine.c).  The control loop scans inputs,  *)
(* runs the rule timers and handles at most one event of the bus in each   *)
(* cycle; the HTTP task adds and removes rules in the same tables, without *)
(* a lock, and runs the event handler itself for a rule it has just added. *)
(* In an installation whose rules are edited a task makes one read or one  *)
(* write of a rule per step; where only the control loop touches the       *)
(* tables, it visits one rule per step.  Outputs are local and inputs have *)
(* no PVE scaling.  The input and output the ladder self-test of the boot  *)
(* writes are not among the channels.                                      *)
(***************************************************************************)
EXTENDS Integers, Sequences, SequencesExt

CONSTANTS
  Input,       \* channels of io_driver_scan_inputs
  Output,      \* local outputs of the device profile
  InVal,       \* values of an input, with 0
  Sites,       \* installations: the rules NVS holds and what happens there
  MaxNodes,    \* AUTOMATION_ENGINE_MAX_NODES (16)
  QueueLen,    \* EVENT_BUS_MAX_EVENTS - 1 (63)
  TickMod      \* automation_tick_ms wraps at this (2^32)

Mode == {"follow", "pulse", "on_delay", "off_delay", "toggle", "force_on",
         "force_off"}
Op   == {"gt", "ge", "eq", "ne", "le", "lt"}
Chan == Input \cup Output

(* automation_node_t and automation_interlock_t.  A duration has 16 bits,  *)
(* the tick 32: no duration is longer than half the range of the tick.     *)
Rule == [input : Input, op : Op, threshold : Int, mode : Mode,
         duration : 0..TickMod \div 2, output : Output, onTrue : {0, 1}, onFalse : {0, 1}]
Cond == [chan : Chan, op : Op, target : Int]
Ilk  == [enabled : BOOLEAN, any : BOOLEAN, conds : Seq(Cond)]
NoIlk == [enabled |-> FALSE, any |-> FALSE, conds |-> <<>>]

Entry == [rule : Rule, ilk : Ilk]

ASSUME AutomationAssumption ==
  /\ IsFiniteSet(Input) /\ Input \cap Output = {} /\ InVal \subseteq Int /\ 0 \in InVal
  /\ {MaxNodes, QueueLen, TickMod} \subseteq Nat \ {0}
  /\ MaxNodes <= TickMod \div 2
  /\ \A s \in Sites :
       /\ s.load \in Seq(Entry)       \* the rules NVS holds at start
       /\ s.requests \subseteq Entry  \* what POST /api/automation/add may ask
       /\ s.wired \subseteq Input     \* inputs that may change
       /\ s.restored \subseteq Output \* outputs that a start may switch on
       /\ s.blocked \subseteq Output  \* outputs fail-safe refuses to command
       /\ s.deletes \in BOOLEAN      \* rules are removed and cleared
       /\ s.manual \in BOOLEAN       \* outputs are commanded by hand
       /\ s.fails \in BOOLEAN        \* an NVS write may fail

(* A task between two of its steps: where it is, the rule it visits, the   *)
(* event it handles and what it has still to do with the rule.             *)
At == {"scan", "begin", "tick", "event", "trigger", "guard", "ilk", "idle",
       "rules", "ilks", "runs"}
NoEvent == [src |-> CHOOSE c \in Chan : TRUE, data |-> 0]
Rest(at) == [at |-> at, i |-> 1, ev |-> NoEvent, todo |-> <<>>]

VARIABLES
  site,   \* the installation; it never changes
  table,  \* nodes, interlocks and runtime_nodes up to node_count
  tick,   \* automation_tick_ms
  state,  \* int_values of the channels
  queue,  \* the event bus
  ctl,    \* the control loop
  http,   \* the HTTP task
  req,    \* the request it serves
  nvs,    \* the persisted rules and interlocks
  missed, \* history: the bus has dropped an event
  stirred, \* history: the channels that have changed since the start
  failed  \* history: the last save failed

vars == <<site, table, tick, state, queue, ctl, http, req, nvs, missed, stirred, failed>>

-----------------------------------------------------------------------------
(* automation_eval_rule and automation_eval_condition.                     *)
Compare(op, a, b) ==
  CASE op = "gt" -> a > b  [] op = "ge" -> a >= b [] op = "eq" -> a = b
    [] op = "ne" -> a # b  [] op = "le" -> a <= b [] op = "lt" -> a < b

Holds(rule, v) == Compare(rule.op, v, rule.threshold)

(* automation_eval_interlock in the state st.                              *)
Permits(ilk, st) ==
  LET met == {k \in DOMAIN ilk.conds :
                Compare(ilk.conds[k].op, st[ilk.conds[k].chan],
                        ilk.conds[k].target)}
  IN  \/ ~ ilk.enabled
      \/ ilk.conds = <<>>
      \/ met = DOMAIN ilk.conds
      \/ ilk.any /\ met # {}

Timed(mode) == mode \in {"pulse", "on_delay", "off_delay"}
IsForce(mode) == mode \in {"force_on", "force_off"}

(* automation_rule_is_valid, for what Rule does not say already.           *)
Valid(rule) == Timed(rule.mode) => rule.duration > 0

(* automation_rule_conflicts.                                              *)
Conflicts(r, s) ==
  /\ r.output = s.output
  /\ r # s
  /\ IsForce(r.mode) /\ IsForce(s.mode) => r.mode = s.mode

(* A rule with its interlock and its cleared automation_runtime_t.         *)
(* latched_true is written and never read, and left out.                   *)
Fresh(e) == [rule |-> e.rule, ilk |-> e.ilk, cond |-> FALSE, timer |-> FALSE,
             pulse |-> FALSE, deadline |-> 0]
Config(t) == [j \in DOMAIN t |-> [rule |-> t[j].rule, ilk |-> t[j].ilk]]

(* automation_load: all of the blob, or nothing.  A blob of version 1 to 3 *)
(* holds rules without interlocks and is saved again as version 4.         *)
Load(blob) ==
  IF /\ Len(blob) <= MaxNodes
     /\ \A j \in DOMAIN blob : Valid(blob[j].rule)
     /\ \A j, k \in DOMAIN blob : ~ Conflicts(blob[j].rule, blob[k].rule)
  THEN [j \in DOMAIN blob |-> Fresh(blob[j])]
  ELSE <<>>

(* What a start leaves in the channels, without an event for any of them:  *)
(* failsafe_startup_value of an output, the level of an input.             *)
Starts ==
  {st \in [Chan -> InVal \cup {0, 1}] :
     \A c \in Chan : st[c] \in IF c \in site.wired THEN InVal
                             ELSE IF c \in site.restored THEN {0, 1} ELSE {0}}

Init ==
  /\ site \in Sites
  /\ nvs = site.load
  /\ table = Load(nvs)
  /\ tick = 0
  /\ state \in Starts
  /\ queue = <<>>
  /\ ctl = Rest("scan")
  /\ http = Rest("idle")
  /\ req = <<>>
  /\ missed = FALSE
  /\ stirred = {}
  /\ failed = FALSE

(* automation_persist of the table t.                                      *)
Persist(t) ==
  \E ok \in BOOLEAN :
    /\ ok \/ site.fails
    /\ nvs' = IF ok THEN Config(t) ELSE nvs
    /\ failed' = ~ ok

(* state_set_int for some channels: an event for each one that changes,    *)
(* dropped when the bus is full.                                           *)
Set(new) ==
  LET changed == SetToSeq({c \in DOMAIN new : new[c] # state[c]})
      events  == [k \in DOMAIN changed |->
                    [src |-> changed[k], data |-> new[changed[k]]]]
      all == queue \o events
  IN  /\ state' = [c \in Chan |-> IF c \in DOMAIN new THEN new[c] ELSE state[c]]
      /\ queue' = SubSeq(all, 1, Min({Len(all), QueueLen}))
      /\ missed' = (missed \/ Len(all) > QueueLen)
      /\ stirred' = stirred \cup {c \in DOMAIN new : new[c] # state[c]}

Keep == UNCHANGED <<state, queue, missed, stirred>>

(* automation_dispatch_output of a local output, behind the fail-safe.     *)
Dispatch(o, v) == IF o \in site.blocked THEN Keep ELSE Set([c \in {o} |-> v])

Apply(rule, cond) ==
  Dispatch(rule.output, IF cond THEN rule.onTrue ELSE rule.onFalse)

Put(i, r) == table' = [table EXCEPT ![i] = r]

(* automation_deadline_after.                                              *)
Deadline(rule) == (tick + rule.duration) % TickMod

-----------------------------------------------------------------------------
(* What a task does with one rule, as a sequence of acts:                  *)
(*   "true", "false"           the condition is written                    *)
(*   "start", "due", "stop"    timer_active, deadline_ms, timer_active = 0 *)
(*   "pulse", "end"            pulse_active = 1, pulse_active = 0          *)
(*   "on", "off", "toggle", "force_on", "force_off"   an output command    *)
(*   "low", "high", "rise", "expired"   the interlock and the mode are     *)
(*                             read and say what follows                   *)
Decisions == {"low", "high", "rise", "expired"}

Does(acts, a) == \E k \in DOMAIN acts : acts[k] = a

(* The acts of one step on the rule at i: one, or all of a visit, which    *)
(* writes no field twice.                                                  *)
Do(i, acts) ==
  LET r == table[i]
      rule == r.rule
      does(a) == Does(acts, a)
      value == IF does("toggle") THEN IF state[rule.output] = 0 THEN 1 ELSE 0
               ELSE IF does("force_on") THEN 1 ELSE 0
  IN  /\ Put(i, [r EXCEPT
                   !.cond = does("true") \/ (@ /\ ~ does("false")),
                   !.timer = does("start") \/ (@ /\ ~ does("stop")),
                   !.pulse = does("pulse") \/ (@ /\ ~ does("end")),
                   !.deadline = IF does("due") THEN Deadline(rule) ELSE @])
      /\ IF does("on") THEN Apply(rule, TRUE)
         ELSE IF does("off") THEN Apply(rule, FALSE)
         ELSE IF does("toggle") \/ does("force_on") \/ does("force_off")
              THEN Dispatch(rule.output, value)
         ELSE Keep

(* The interlock refuses a rule whose condition is true.                   *)
Refused(r, choice) == choice # "low" /\ ~ Permits(r.ilk, state)

(* Mutant: a pulse is marked as active once its timer is armed.            *)
PulseLast == <<"on", "start", "due", "pulse">>

(* A pulse begins.                                                         *)
Pulse == <<"on", "pulse", "start", "due">>

(* The trigger half of automation_event_handler once the condition is      *)
(* written.  The timer of an ON_DELAY rule starts anew with every event    *)
(* that meets the condition.                                               *)
Triggered(r, choice) ==
  LET mode == r.rule.mode
      met == choice # "low"
      rising == choice = "rise"
  IN  IF Refused(r, choice) THEN <<>>
      ELSE CASE mode = "follow" -> <<IF met THEN "on" ELSE "off", "stop", "end">>
             [] mode = "pulse" /\ rising -> Pulse
             [] mode = "on_delay" /\ met -> <<"start", "due", "off">>
             [] mode = "on_delay" /\ ~ met -> <<"stop", "off">>
             [] mode = "off_delay" /\ met -> <<"stop", "on">>
             [] mode = "off_delay" /\ ~ met -> <<"start", "due">>
             [] mode \in {"toggle", "force_on", "force_off"} /\ rising -> <<mode>>
             [] OTHER -> <<>>

(* automation_engine_tick_1ms once the timer that was due is stopped.      *)
Expired(r) ==
  CASE r.rule.mode = "pulse" /\ r.pulse -> <<"end", "off">>
    [] r.rule.mode = "on_delay" /\ r.cond -> <<"on">>
    [] r.rule.mode = "off_delay" /\ ~ r.cond -> <<"off">>
    [] OTHER -> <<>>

Chosen(r, choice) == IF choice = "expired" THEN Expired(r) ELSE Triggered(r, choice)

(* Mutant: only the first condition of an interlock is watched.            *)
TripsFirst(r, ev) ==
  /\ r.ilk.enabled
  /\ r.ilk.conds # <<>> /\ r.ilk.conds[1].chan = ev.src
  /\ state[r.rule.output] # 0
  /\ ~ Permits(r.ilk, state)

(* The guard half watches the interlocks that name the source of the       *)
(* event: an output that is on and no longer permitted is switched off.    *)
Trips(r, ev) ==
  /\ r.ilk.enabled
  /\ \E k \in DOMAIN r.ilk.conds : r.ilk.conds[k].chan = ev.src
  /\ state[r.rule.output] # 0
  /\ ~ Permits(r.ilk, state)

(* automation_time_reached: the signed difference of two tick counts.      *)
Reached(deadline) == (tick - deadline) % TickMod < TickMod \div 2

(* What the task t finds to do with the rule r it comes to.                *)
Found(t, r) ==
  CASE t.at = "tick" /\ r.timer /\ Reached(r.deadline) -> <<"stop", "expired">>
    [] t.at = "trigger" /\ r.rule.input = t.ev.src ->
         IF Holds(r.rule, t.ev.data)
         THEN <<"true", IF r.cond THEN "high" ELSE "rise">>
         ELSE <<"false", "low">>
    [] t.at = "guard" /\ Trips(r, t.ev) -> <<"stop", "end", "off">>
    [] OTHER -> <<>>

(* The HTTP task works on the rules as well as the control loop.           *)
Shared == site.requests # {} \/ site.deletes

(* The acts of the next step of t, and those that it leaves for later.     *)
(* nodes, interlocks and runtime_nodes are zero beyond node_count, and     *)
(* nothing comes of a visit there.                                         *)
Now(t) ==
  LET r == table[t.i]
      found == Found(t, r)
  IN  IF t.todo # <<>> THEN <<Head(t.todo)>>
      ELSE IF Shared \/ found = <<>> THEN <<>>
      ELSE IF Last(found) \in Decisions THEN found \o Chosen(r, Last(found))
      ELSE found

Later(t) ==
  LET here == t.i \in DOMAIN table
  IN  IF t.todo = <<>> THEN IF Shared /\ here THEN Found(t, table[t.i]) ELSE <<>>
      ELSE IF Head(t.todo) \in Decisions
           THEN IF here THEN Chosen(table[t.i], Head(t.todo)) ELSE <<>>
      ELSE Tail(t.todo)

Visit(t) ==
  IF t.i \in DOMAIN table THEN Do(t.i, Now(t)) ELSE Keep /\ UNCHANGED table

(* A loop over the rules has come to its end.                              *)
Over(t) == t.todo = <<>> /\ t.i > Len(table)

After(t) ==
  [t EXCEPT !.todo = Later(t), !.i = IF Later(t) = <<>> THEN @ + 1 ELSE @]

(* automation_event_handler takes a step for the task t: its loops over    *)
(* the triggers and the guards, the end of the handler.                    *)
Handle(t, done) ==
  IF ~ Over(t) THEN After(t)
  ELSE IF t.at = "trigger" THEN [t EXCEPT !.at = "guard", !.i = 1]
  ELSE Rest(done)

-----------------------------------------------------------------------------
(* The phases of control_loop_run.  scheduler_run_io: any inputs change,   *)
(* and at most one command is taken from the command queue.                *)
Commands ==
  {<<>>} \cup (IF site.manual
                  THEN UNION {[{o} -> {0, 1}] : o \in Output \ site.blocked}
                  ELSE {})

Scan(in, cmd) ==
  /\ ctl.at = "scan"
  /\ Set([c \in DOMAIN in \cup DOMAIN cmd |-> IF c \in DOMAIN in THEN in[c] ELSE cmd[c]])
  /\ ctl' = Rest("begin")
  /\ UNCHANGED <<table, tick, http, req, nvs, failed>>

(* automation_engine_tick_1ms.                                             *)
TickBegin ==
  /\ ctl.at = "begin"
  /\ tick' = (tick + 1) % TickMod
  /\ ctl' = Rest("tick")
  /\ UNCHANGED <<table, state, queue, http, req, nvs, missed, stirred, failed>>

TickRule ==
  /\ ctl.at = "tick"
  /\ ~ Over(ctl)
  /\ Visit(ctl)
  /\ ctl' = After(ctl)
  /\ UNCHANGED <<tick, http, req, nvs, failed>>

TickEnd ==
  /\ ctl.at = "tick"
  /\ Over(ctl)
  /\ ctl' = Rest("event")
  /\ UNCHANGED <<table, tick, state, queue, http, req, nvs, missed, stirred, failed>>

(* event_bus_dispatch_budgeted(1).                                         *)
TakeEvent ==
  /\ ctl.at = "event"
  /\ IF queue = <<>>
     THEN ctl' = Rest("scan") /\ UNCHANGED queue
     ELSE /\ ctl' = [Rest("trigger") EXCEPT !.ev = Head(queue)]
          /\ queue' = Tail(queue)
  /\ UNCHANGED <<table, tick, state, http, req, nvs, missed, stirred, failed>>

CtlHandle ==
  /\ ctl.at \in {"trigger", "guard"}
  /\ Visit(ctl)
  /\ ctl' = Handle(ctl, "scan")
  /\ UNCHANGED <<tick, http, req, nvs, failed>>

-----------------------------------------------------------------------------
(* The HTTP task.  automation_add_handler: a rule that conflicts, or finds *)
(* no room, is refused; one that is there already leads straight to the    *)
(* interlock.                                                              *)
Has(rule) == \E j \in DOMAIN table : table[j].rule = rule

AddDuplicate(q) ==
  /\ http.at = "idle"
  /\ Has(q.rule)
  /\ http' = Rest("ilk")
  /\ req' = <<q>>
  /\ UNCHANGED <<table, tick, state, queue, ctl, nvs, missed, stirred, failed>>

(* automation_engine_add_rule: the rule is stored and saved without its    *)
(* interlock, and evaluated with the value its input has now.              *)
AddRule(q) ==
  /\ http.at = "idle"
  /\ Valid(q.rule)
  /\ ~ Has(q.rule)
  /\ \A j \in DOMAIN table : ~ Conflicts(table[j].rule, q.rule)
  /\ Len(table) < MaxNodes
  /\ table' = Append(table, Fresh([q EXCEPT !.ilk = NoIlk]))
  /\ Persist(table')
  /\ http' = [Rest("trigger") EXCEPT
                !.ev = [src |-> q.rule.input, data |-> state[q.rule.input]]]
  /\ req' = <<q>>
  /\ UNCHANGED <<tick, state, queue, ctl, missed, stirred>>

HttpHandle ==
  /\ http.at \in {"trigger", "guard"}
  /\ Visit(http)
  /\ http' = Handle(http, "ilk")
  /\ UNCHANGED <<tick, ctl, req, nvs, failed>>

(* Mutant: the interlock is not saved.                                     *)
SetInterlockUnsaved ==
  /\ http.at = "ilk"
  /\ table' = [table EXCEPT ![Len(table)].ilk = Head(req).ilk]
  /\ http' = Rest("idle") /\ req' = <<>>
  /\ UNCHANGED <<nvs, failed, tick, state, queue, ctl, missed, stirred>>

(* automation_engine_set_interlock_at for the last rule.                   *)
SetInterlock ==
  /\ http.at = "ilk"
  /\ IF Head(req).ilk.enabled /\ table # <<>>
     THEN /\ table' = [table EXCEPT ![Len(table)].ilk = Head(req).ilk]
          /\ Persist(table')
     ELSE UNCHANGED <<table, nvs, failed>>
  /\ http' = Rest("idle") /\ req' = <<>>
  /\ UNCHANGED <<tick, state, queue, ctl, missed, stirred>>

(* automation_engine_remove_node_at: from the rule at i on, each place of  *)
(* nodes, of interlocks and of runtime_nodes takes over the next one; then *)
(* the last place is cleared and the table is saved.                       *)
RemoveRule(i) ==
  /\ site.deletes
  /\ http.at = "idle"
  /\ http' = [Rest("rules") EXCEPT !.i = i]
  /\ UNCHANGED <<table, tick, state, queue, ctl, req, nvs, missed, stirred, failed>>

Shift ==
  LET i == http.i
      next == table[i + 1]
  IN  /\ http.at \in {"rules", "ilks", "runs"}
      /\ i < Len(table)
      /\ \/ /\ http.at = "rules"
            /\ Put(i, [table[i] EXCEPT !.rule = next.rule])
            /\ http' = [http EXCEPT !.at = "ilks"]
         \/ /\ http.at = "ilks"
            /\ Put(i, [table[i] EXCEPT !.ilk = next.ilk])
            /\ http' = [http EXCEPT !.at = "runs"]
         \/ /\ http.at = "runs"
            /\ Put(i, [next EXCEPT !.rule = table[i].rule, !.ilk = table[i].ilk])
            /\ http' = [http EXCEPT !.at = "rules", !.i = @ + 1]
      /\ UNCHANGED <<tick, state, queue, ctl, req, nvs, missed, stirred, failed>>

RemoveLast ==
  /\ http.at = "rules"
  /\ http.i = Len(table)
  /\ table' = Front(table)
  /\ Persist(table')
  /\ http' = Rest("idle")
  /\ UNCHANGED <<tick, state, queue, ctl, req, missed, stirred>>

(* automation_engine_clear.                                                *)
Clear ==
  /\ site.deletes
  /\ http.at = "idle"
  /\ table # <<>>
  /\ table' = <<>>
  /\ Persist(table')
  /\ UNCHANGED <<tick, state, queue, ctl, http, req, missed, stirred>>

(* The device resets: automation_engine_init loads what NVS holds.         *)
Reset ==
  /\ table' = Load(nvs)
  /\ tick' = 0
  /\ state' \in Starts
  /\ queue' = <<>>
  /\ ctl' = Rest("scan") /\ http' = Rest("idle") /\ req' = <<>>
  /\ missed' = FALSE /\ stirred' = {}
  /\ UNCHANGED <<nvs, failed>>

Step ==
  \/ \E in \in [site.wired -> InVal], cmd \in Commands : Scan(in, cmd)
  \/ TickBegin \/ TickRule \/ TickEnd \/ TakeEvent \/ CtlHandle
  \/ \E q \in site.requests : AddDuplicate(q) \/ AddRule(q)
  \/ HttpHandle \/ SetInterlock
  \/ \E i \in DOMAIN table : RemoveRule(i)
  \/ Shift \/ RemoveLast \/ Clear \/ Reset

Next == Step /\ UNCHANGED site

Spec == Init /\ [][Next]_vars

-----------------------------------------------------------------------------
(* Type invariant.                                                         *)
TypeOK ==
  /\ Len(table) <= MaxNodes
  /\ \A j \in DOMAIN table :
       /\ table[j].rule \in Rule /\ table[j].ilk \in Ilk
       /\ {table[j].cond, table[j].timer, table[j].pulse} \subseteq BOOLEAN
       /\ table[j].deadline \in 0..TickMod - 1
  /\ tick \in 0..TickMod - 1
  /\ state \in [Chan -> Int]
  /\ Len(queue) <= QueueLen
  /\ ctl.at \in At \ {"ilk", "idle"}
  /\ ctl.at \notin {"rules", "ilks", "runs"}
  /\ http.at \notin {"scan", "begin", "tick", "event"}
  /\ http.at \in {"trigger", "guard", "ilk"} <=> req # <<>>
  /\ missed \in BOOLEAN /\ failed \in BOOLEAN /\ stirred \subseteq Chan

(* Nothing waits: the bus is empty and no task is inside the handler.      *)
Quiet == queue = <<>> /\ ~ missed /\ ctl.at = "scan" /\ http.at = "idle"

(* No task is in the middle of a rule.                                     *)
Between == ctl.todo = <<>> /\ http.todo = <<>>

(* An active pulse has an armed timer, due at most its duration ahead,     *)
(* over wraps of the tick and while the handler that a new rule runs on    *)
(* the HTTP task and the one of the control loop write the same            *)
(* runtime_nodes: a pulse always ends, unless rules are removed.           *)
PulseEnds ==
  Between /\ ~ site.deletes =>
    \A j \in DOMAIN table :
      table[j].pulse =>
        /\ table[j].timer
        /\ (table[j].deadline - tick) % TickMod \in 0..table[j].rule.duration

(* The same where rules are removed; the code does not keep it.            *)
PulseEndsAlways ==
  Between /\ http.at = "idle" => \A j \in DOMAIN table : table[j].pulse => table[j].timer

(* The timer of an ON_DELAY rule is armed only while its condition holds,  *)
(* so that the delay never counts time in which the condition was false.   *)
OnDelayArmed ==
  \A j \in DOMAIN table :
    table[j].rule.mode = "on_delay" /\ table[j].timer => table[j].cond

(* The rule engine switches an output on only for a rule whose interlock   *)
(* permits it (automation_event_handler, "checar permissao de Interlock"). *)
InterlockAsked ==
  [][\A o \in Output :
       state[o] = 0 /\ state'[o] # 0 /\ o \in stirred' =>
         \E j \in DOMAIN table :
           table[j].rule.output = o /\ Permits(table[j].ilk, state)]_vars

(* The output of a rule or a channel of its interlock has changed since    *)
(* the start, so that the handler has had something to react to.           *)
Stirred(r) ==
  r.rule.output \in stirred \/ \E k \in DOMAIN r.ilk.conds : r.ilk.conds[k].chan \in stirred

(* Once its events are handled, an output that is on is permitted by every *)
(* rule that drives it: the continuous guard of the interlocks.  What a    *)
(* start switches on against an interlock stays on until a channel of it   *)
(* changes.                                                                *)
InterlockHolds ==
  Quiet => \A j \in DOMAIN table :
             /\ state[table[j].rule.output] # 0
             /\ table[j].rule.onFalse = 0
             /\ table[j].rule.output \notin site.blocked
             /\ Stirred(table[j])
             => Permits(table[j].ilk, state)

(* The same from the start on; the code does not keep it.                  *)
InterlockHoldsAlways ==
  Quiet => \A j \in DOMAIN table :
             /\ state[table[j].rule.output] # 0
             /\ table[j].rule.onFalse = 0
             /\ table[j].rule.output \notin site.blocked
             => Permits(table[j].ilk, state)

(* Once its events are handled, the output of a FOLLOW rule without an     *)
(* interlock is what the rule makes of its input, from the first change of *)
(* the input on: the level it has at the start has no event.               *)
FollowsInput ==
  Quiet => \A j \in DOMAIN table :
    LET rule == table[j].rule
    IN  /\ rule.mode = "follow" /\ ~ table[j].ilk.enabled
        /\ rule.input \in stirred
        /\ rule.output \notin site.blocked
        => state[rule.output] =
             (IF Holds(rule, state[rule.input]) THEN rule.onTrue ELSE rule.onFalse)

(* No rule twice; an installation that nobody edits or commands by hand.   *)
Distinct(t) == \A j, k \in DOMAIN t : t[j].rule = t[k].rule => j = k
Unedited(s) == s.requests = {} /\ ~ s.deletes /\ ~ s.manual /\ Distinct(s.load)

(* It is so wherever nobody edits: a queue that drops no event hands every *)
(* change of an input to automation_event_handler in order.                *)
FollowsUnedited == Unedited(site) => FollowsInput

(* A reset between requests brings back the same rules with the same       *)
(* interlocks, unless the last save failed.                                *)
RulesSurviveReset ==
  http.at = "idle" /\ ~ failed => Config(Load(nvs)) = Config(table)

(* A request changes the interlock of the rule it names and of no other.   *)
OthersKeepInterlock ==
  [][http.at = "ilk" /\ table' # <<>> /\ Len(table') = Len(table) =>
       \A j \in DOMAIN table :
         table[j].rule # Head(req).rule => table'[j].ilk = table[j].ilk]_vars
=============================================================================
