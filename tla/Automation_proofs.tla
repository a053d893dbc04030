-------------------------- MODULE Automation_proofs --------------------------
(***************************************************************************)
(* Proofs about the rule engine, for every set of inputs, outputs and      *)
(* installations, every size of the table and every width of the tick.     *)
(*                                                                         *)
(* ResetKeepsRules needs that the table is one automation_load accepts at  *)
(* every moment, not only when it is saved.  The others are about          *)
(* installations in which only the control loop touches the rules.         *)
(* PulsesEnd needs to know how far the timers have been visited            *)
(* (PulseInv).  InterlocksHold needs that an output that is forbidden has  *)
(* an event on its way to the guard (GuardInv), OutputsFollow the same of  *)
(* the newest value of an input (FollowInv).                               *)
(***************************************************************************)
EXTENDS Automation, SequenceTheorems, FiniteSetTheorems, TLAPS

(* A rule of the table with its runtime; a table that automation_load      *)
(* would accept.                                                           *)
Slot == [rule : Rule, ilk : Ilk, cond : BOOLEAN, timer : BOOLEAN, pulse : BOOLEAN,
         deadline : 0..(TickMod - 1)]
Good(t) ==
  /\ Len(t) <= MaxNodes
  /\ \A j \in DOMAIN t : Valid(t[j].rule)
  /\ \A j, k \in DOMAIN t : ~ Conflicts(t[j].rule, t[k].rule)

(* A task between two steps; the HTTP task while it removes a rule.        *)
Task(t) == DOMAIN t = {"at", "i", "ev", "todo"} /\ t.i \in Nat \ {0}
Removing == http.at \in {"rules", "ilks", "runs"}

(* The types, as far as the proofs need them: the state and the queue play *)
(* no part.                                                                *)
AutoTypes ==
  /\ site \in Sites
  /\ table \in Seq(Slot) /\ Good(table)
  /\ nvs \in Seq(Entry)
  /\ tick \in 0..(TickMod - 1)
  /\ Task(ctl) /\ Task(http)
  /\ http.at \in {"trigger", "guard", "ilk"} => \E q \in Entry : req = <<q>>

(* What AutomationAssumption says of the sizes and the installations.      *)
LEMMA AutoSizes ==
  /\ MaxNodes \in Nat \ {0} /\ TickMod \in Nat \ {0} /\ MaxNodes <= TickMod \div 2
  /\ TickMod \div 2 \in Nat /\ 2 * (TickMod \div 2) <= TickMod /\ TickMod <= 2 * (TickMod \div 2) + 1
  /\ \A s \in Sites : s.load \in Seq(Entry) /\ s.requests \subseteq Entry
<1>1. MaxNodes \in Nat \ {0} /\ TickMod \in Nat \ {0} /\ MaxNodes <= TickMod \div 2
  BY AutomationAssumption
<1>2. TickMod \div 2 \in Nat /\ 2 * (TickMod \div 2) <= TickMod /\ TickMod <= 2 * (TickMod \div 2) + 1
  BY <1>1
<1>3. \A s \in Sites : s.load \in Seq(Entry) /\ s.requests \subseteq Entry
  BY AutomationAssumption
<1> QED BY <1>1, <1>2, <1>3

-----------------------------------------------------------------------------
(* An interlock that is replaced.                                          *)
LEMMA IlkSet ==
  ASSUME NEW x \in Slot, NEW k \in Ilk
  PROVE  \E y \in Slot :
           /\ y = [x EXCEPT !.ilk = k]
           /\ y.rule = x.rule /\ y.ilk = k /\ y.cond = x.cond
           /\ y.timer = x.timer /\ y.pulse = x.pulse /\ y.deadline = x.deadline
<1>1. [x EXCEPT !.ilk = k] \in Slot
  BY DEF Slot
<1> DEFINE y == [x EXCEPT !.ilk = k]
<1>2. /\ y.rule = x.rule /\ y.ilk = k /\ y.cond = x.cond
      /\ y.timer = x.timer /\ y.pulse = x.pulse /\ y.deadline = x.deadline
  BY DEF Slot
<1> HIDE DEF y
<1>3. y \in Slot /\ y = [x EXCEPT !.ilk = k]
  BY <1>1 DEF y
<1> QED BY <1>2, <1>3

(* Loading anything gives a good table whose timers are off.               *)
LEMMA LoadGood ==
  ASSUME NEW b \in Seq(Entry)
  PROVE  /\ Load(b) \in Seq(Slot) /\ Good(Load(b))
         /\ \A j \in DOMAIN Load(b) : ~ Load(b)[j].pulse /\ ~ Load(b)[j].timer
<1>1. CASE Load(b) = <<>>
  <2>1. <<>> \in Seq(Slot) /\ DOMAIN <<>> = {} /\ Len(<<>>) = 0
    OBVIOUS
  <2> QED BY <1>1, <2>1, AutoSizes DEF Good
<1>2. CASE Load(b) # <<>>
  <2>1. /\ Len(b) <= MaxNodes
        /\ \A j \in DOMAIN b : Valid(b[j].rule)
        /\ \A j, k \in DOMAIN b : ~ Conflicts(b[j].rule, b[k].rule)
        /\ Load(b) = [j \in DOMAIN b |-> Fresh(b[j])]
    BY <1>2 DEF Load
  <2>2. \A j \in DOMAIN b : b[j] \in Entry
    OBVIOUS
  <2>3. \A e \in Entry : Fresh(e) \in Slot /\ Fresh(e).rule = e.rule /\ ~ Fresh(e).pulse /\ ~ Fresh(e).timer
    BY AutoSizes DEF Fresh, Slot, Entry
  <2>4. DOMAIN b = 1..Len(b) /\ Len(b) \in Nat
    OBVIOUS
  <2>5. Load(b) \in [1..Len(b) -> Slot] /\ \A j \in DOMAIN b : Load(b)[j] = Fresh(b[j])
    BY <2>1, <2>2, <2>3, <2>4
  <2>6. Load(b) \in Seq(Slot) /\ Len(Load(b)) = Len(b) /\ DOMAIN Load(b) = DOMAIN b
    BY <2>4, <2>5
  <2> QED BY <2>1, <2>2, <2>3, <2>5, <2>6 DEF Good
<1> QED BY <1>1, <1>2

(* What automation_persist writes of a table.                              *)
LEMMA ConfigFacts ==
  ASSUME NEW t \in Seq(Slot)
  PROVE  /\ Config(t) \in Seq(Entry) /\ Len(Config(t)) = Len(t) /\ DOMAIN Config(t) = DOMAIN t
         /\ \A j \in DOMAIN t : Config(t)[j] = [rule |-> t[j].rule, ilk |-> t[j].ilk]
<1>1. DOMAIN t = 1..Len(t) /\ Len(t) \in Nat /\ \A j \in DOMAIN t : t[j] \in Slot
  OBVIOUS
<1>2. \A x \in Slot : [rule |-> x.rule, ilk |-> x.ilk] \in Entry
  BY DEF Slot, Entry
<1>3. Config(t) \in [1..Len(t) -> Entry] /\ \A j \in DOMAIN t : Config(t)[j] = [rule |-> t[j].rule, ilk |-> t[j].ilk]
  BY <1>1, <1>2 DEF Config
<1> QED BY <1>1, <1>3

(* A good table that was saved is loaded as it was.                        *)
LEMMA SavedLoads ==
  ASSUME NEW t \in Seq(Slot), Good(t)
  PROVE  Config(Load(Config(t))) = Config(t)
<1> DEFINE b == Config(t)
<1>1. b \in Seq(Entry) /\ Len(b) = Len(t) /\ DOMAIN b = DOMAIN t
      /\ \A j \in DOMAIN t : b[j] = [rule |-> t[j].rule, ilk |-> t[j].ilk]
  BY ConfigFacts
<1>2. \A j \in DOMAIN t : b[j].rule = t[j].rule /\ b[j].ilk = t[j].ilk
  BY <1>1
<1>3. Load(b) = [j \in DOMAIN b |-> Fresh(b[j])]
  BY <1>1, <1>2 DEF Load, Good
<1> HIDE DEF b
<1>4. DOMAIN Load(b) = DOMAIN t /\ \A j \in DOMAIN t : Load(b)[j].rule = t[j].rule /\ Load(b)[j].ilk = t[j].ilk
  BY <1>1, <1>2, <1>3 DEF Fresh
<1>5. Config(Load(b)) = Config(t)
  BY <1>4 DEF Config
<1> QED BY <1>5 DEF b

-----------------------------------------------------------------------------
(* What the acts of a step make of the runtime of a rule.                  *)
Written(x, acts, y) ==
  /\ y.rule = x.rule /\ y.ilk = x.ilk
  /\ y.cond = (Does(acts, "true") \/ (x.cond /\ ~ Does(acts, "false")))
  /\ y.timer = (Does(acts, "start") \/ (x.timer /\ ~ Does(acts, "stop")))
  /\ y.pulse = (Does(acts, "pulse") \/ (x.pulse /\ ~ Does(acts, "end")))
  /\ y.deadline = IF Does(acts, "due") THEN Deadline(x.rule) ELSE x.deadline

(* One step writes the runtime of one rule.                                *)
LEMMA DoWrites ==
  ASSUME AutoTypes, NEW i \in DOMAIN table, NEW acts, Do(i, acts)
  PROVE  \E y \in Slot : Put(i, y) /\ Written(table[i], acts, y)
<1>1. table[i] \in Slot /\ tick \in 0..(TickMod - 1)
  BY DEF AutoTypes
<1>2. PICK x \in Slot : x = table[i]
  BY <1>1
<1>3. x.rule.duration \in Nat /\ x.deadline \in 0..(TickMod - 1) /\ x.cond \in BOOLEAN
      /\ x.timer \in BOOLEAN /\ x.pulse \in BOOLEAN
  BY AutoSizes DEF Slot, Rule
<1>4. Deadline(x.rule) \in 0..(TickMod - 1)
  BY <1>1, <1>3, AutoSizes DEF Deadline
<1>5. PICK c \in BOOLEAN : c = (Does(acts, "true") \/ (x.cond /\ ~ Does(acts, "false")))
  BY Zenon
<1>6. PICK t \in BOOLEAN : t = (Does(acts, "start") \/ (x.timer /\ ~ Does(acts, "stop")))
  BY Zenon
<1>7. PICK p \in BOOLEAN : p = (Does(acts, "pulse") \/ (x.pulse /\ ~ Does(acts, "end")))
  BY Zenon
<1>8. PICK d \in 0..(TickMod - 1) : d = IF Does(acts, "due") THEN Deadline(x.rule) ELSE x.deadline
  <2>1. CASE Does(acts, "due")
    BY <1>4, <2>1
  <2>2. CASE ~ Does(acts, "due")
    BY <1>3, <2>2
  <2> QED BY <2>1, <2>2
<1>9. Put(i, [x EXCEPT !.cond = c, !.timer = t, !.pulse = p, !.deadline = d])
  <2>1. Put(i, [table[i] EXCEPT
                  !.cond = Does(acts, "true") \/ (table[i].cond /\ ~ Does(acts, "false")),
                  !.timer = Does(acts, "start") \/ (table[i].timer /\ ~ Does(acts, "stop")),
                  !.pulse = Does(acts, "pulse") \/ (table[i].pulse /\ ~ Does(acts, "end")),
                  !.deadline = IF Does(acts, "due") THEN Deadline(table[i].rule) ELSE table[i].deadline])
    BY Zenon DEF Do
  <2> QED BY <1>2, <1>5, <1>6, <1>7, <1>8, <2>1, Zenon
<1> DEFINE y == [x EXCEPT !.cond = c, !.timer = t, !.pulse = p, !.deadline = d]
<1>10. y \in Slot
  BY DEF Slot
<1>11. /\ y.rule = x.rule /\ y.ilk = x.ilk /\ y.cond = c
       /\ y.timer = t /\ y.pulse = p /\ y.deadline = d
  BY DEF Slot
<1>12. Put(i, y)
  BY <1>9
<1> HIDE DEF y
<1>13. Written(table[i], acts, y)
  BY <1>2, <1>5, <1>6, <1>7, <1>8, <1>11, Zenon DEF Written
<1> QED BY <1>10, <1>12, <1>13, Zenon

(* The runtime of one rule of the table is written, or nothing.            *)
Touched ==
  \/ table' = table
  \/ \E i \in DOMAIN table, r \in Slot :
       Put(i, r) /\ r.rule = table[i].rule /\ r.ilk = table[i].ilk

(* One step of a task in one of its loops.                                 *)
LEMMA VisitTouches ==
  ASSUME AutoTypes, NEW t, Visit(t)
  PROVE  Touched
<1>1. CASE t.i \in DOMAIN table
  <2>1. Do(t.i, Now(t))
    BY <1>1 DEF Visit
  <2>2. PICK y \in Slot : Put(t.i, y) /\ Written(table[t.i], Now(t), y)
    BY <1>1, <2>1, DoWrites
  <2> QED BY <1>1, <2>2 DEF Touched, Written
<1>2. CASE t.i \notin DOMAIN table
  BY <1>2 DEF Visit, Touched
<1> QED BY <1>1, <1>2

-----------------------------------------------------------------------------
(* A rule that is replaced by one of the table leaves the table good; one  *)
(* that is written is still the rule that is saved.                        *)
LEMMA PutTable ==
  ASSUME AutoTypes, NEW i \in DOMAIN table, NEW r \in Slot, Put(i, r),
         \E k \in DOMAIN table : r.rule = table[k].rule
  PROVE  /\ table' \in Seq(Slot) /\ Good(table') /\ DOMAIN table' = DOMAIN table /\ table'[i] = r
         /\ \A j \in DOMAIN table \ {i} : table'[j] = table[j]
         /\ r.rule = table[i].rule /\ r.ilk = table[i].ilk => Config(table') = Config(table)
<1>1. table \in Seq(Slot) /\ Good(table) /\ DOMAIN table = 1..Len(table) /\ Len(table) \in Nat
  BY DEF AutoTypes
<1>2. table' = [table EXCEPT ![i] = r]
  BY DEF Put
<1>3. table' \in Seq(Slot) /\ Len(table') = Len(table) /\ DOMAIN table' = DOMAIN table /\ table'[i] = r
      /\ \A j \in DOMAIN table \ {i} : table'[j] = table[j]
  BY <1>1, <1>2
<1>4. \A j \in DOMAIN table : \E k \in DOMAIN table : table'[j].rule = table[k].rule
  BY <1>3
<1>5. Good(table')
  BY <1>1, <1>3, <1>4 DEF Good
<1>6. r.rule = table[i].rule /\ r.ilk = table[i].ilk => Config(table') = Config(table)
  <2> HAVE r.rule = table[i].rule /\ r.ilk = table[i].ilk
  <2>1. \A j \in DOMAIN table : table'[j].rule = table[j].rule /\ table'[j].ilk = table[j].ilk
    BY <1>3
  <2> QED BY <1>3, <2>1 DEF Config
<1> QED BY <1>3, <1>5, <1>6

(* What NVS holds loads as the rules of the table, unless the last save    *)
(* failed or a rule is being removed; unlike RulesSurviveReset also while  *)
(* another request is served.                                              *)
SavedInv == ~ failed /\ ~ Removing => Config(Load(nvs)) = Config(table)

(* automation_persist of a good table keeps SavedInv, whether it succeeds  *)
(* or fails.                                                               *)
LEMMA PersistSaves ==
  ASSUME AutoTypes, table' \in Seq(Slot), Good(table'), Persist(table')
  PROVE  nvs' \in Seq(Entry) /\ SavedInv'
<1>1. PICK ok \in BOOLEAN : nvs' = (IF ok THEN Config(table') ELSE nvs) /\ failed' = ~ ok
  BY DEF Persist
<1>2. CASE ok
  <2>1. nvs' = Config(table')
    BY <1>1, <1>2
  <2> QED BY <2>1, ConfigFacts, SavedLoads DEF SavedInv
<1>3. CASE ~ ok
  BY <1>1, <1>3 DEF SavedInv, AutoTypes
<1> QED BY <1>2, <1>3

(* Conflicts does not depend on the order of the two rules.                *)
LEMMA ConflictsSymmetric ==
  ASSUME NEW r, NEW s
  PROVE  Conflicts(r, s) <=> Conflicts(s, r)
BY DEF Conflicts

(* A rule more.                                                            *)
LEMMA Added ==
  ASSUME AutoTypes, NEW q \in Entry, AddRule(q)
  PROVE  /\ table' \in Seq(Slot) /\ Good(table') /\ DOMAIN table' = 1..(Len(table) + 1)
         /\ \A j \in DOMAIN table : table'[j] = table[j]
         /\ ~ table'[Len(table) + 1].pulse /\ ~ table'[Len(table) + 1].timer
<1>1. table \in Seq(Slot) /\ Good(table) /\ DOMAIN table = 1..Len(table) /\ Len(table) \in Nat
  BY DEF AutoTypes
<1>2. PICK y \in Slot : y = Fresh([q EXCEPT !.ilk = NoIlk]) /\ y.rule = q.rule /\ ~ y.pulse /\ ~ y.timer
  <2>1. NoIlk \in Ilk
    BY DEF NoIlk, Ilk
  <2>2. [q EXCEPT !.ilk = NoIlk] \in Entry /\ [q EXCEPT !.ilk = NoIlk].rule = q.rule
    BY <2>1 DEF Entry
  <2>3. \A e \in Entry : Fresh(e) \in Slot /\ Fresh(e).rule = e.rule /\ ~ Fresh(e).pulse /\ ~ Fresh(e).timer
    BY AutoSizes DEF Fresh, Slot, Entry
  <2> QED BY <2>2, <2>3
<1>3. table' = Append(table, y) /\ Len(table) < MaxNodes /\ Valid(q.rule)
      /\ \A j \in DOMAIN table : ~ Conflicts(table[j].rule, q.rule)
  BY <1>2 DEF AddRule
<1>4. table' \in Seq(Slot) /\ Len(table') = Len(table) + 1 /\ DOMAIN table' = 1..(Len(table) + 1)
      /\ \A j \in DOMAIN table : table'[j] = table[j]
  BY <1>1, <1>3
<1>5. table'[Len(table) + 1] = y
  BY <1>1, <1>3
<1>6. \A j \in DOMAIN table' : j \in DOMAIN table \/ j = Len(table) + 1
  BY <1>1, <1>4
<1>7. ~ Conflicts(y.rule, y.rule)
  BY DEF Conflicts
<1>8. Good(table')
  <2>1. Len(table') <= MaxNodes
    BY <1>1, <1>3, <1>4, AutoSizes
  <2>2. \A j \in DOMAIN table' : Valid(table'[j].rule)
    BY <1>1, <1>2, <1>3, <1>4, <1>5, <1>6 DEF Good
  <2>3. ASSUME NEW j \in DOMAIN table', NEW k \in DOMAIN table'
        PROVE  ~ Conflicts(table'[j].rule, table'[k].rule)
    BY <1>1, <1>2, <1>3, <1>4, <1>5, <1>6, <1>7, ConflictsSymmetric DEF Good
  <2> QED BY <2>1, <2>2, <2>3 DEF Good
<1> QED BY <1>2, <1>4, <1>5, <1>8

(* A rule takes the place of the one before, and the last place is         *)
(* cleared.                                                                *)
LEMMA ShiftTable ==
  ASSUME AutoTypes, Shift
  PROVE  table' \in Seq(Slot) /\ Good(table') /\ Removing' /\ Task(http')
<1>1. /\ table \in Seq(Slot) /\ DOMAIN table = 1..Len(table) /\ Len(table) \in Nat
      /\ \A j \in DOMAIN table : table[j] \in Slot
  BY DEF AutoTypes
<1>2. http.i \in Nat \ {0} /\ DOMAIN http = {"at", "i", "ev", "todo"} /\ http.i < Len(table)
  BY DEF AutoTypes, Task, Shift
<1>3. PICK i \in DOMAIN table, n \in DOMAIN table : i = http.i /\ n = i + 1
  BY <1>1, <1>2
<1>4. PICK x \in Slot, y \in Slot : x = table[i] /\ y = table[n]
  BY <1>1
<1>5. \A z \in Slot : z.rule \in Rule /\ z.ilk \in Ilk
  BY DEF Slot
<1>6. \/ /\ Put(i, [x EXCEPT !.rule = y.rule])
         /\ http' = [http EXCEPT !.at = "ilks"]
      \/ /\ Put(i, [x EXCEPT !.ilk = y.ilk])
         /\ http' = [http EXCEPT !.at = "runs"]
      \/ /\ Put(i, [y EXCEPT !.rule = x.rule, !.ilk = x.ilk])
         /\ http' = [http EXCEPT !.at = "rules", !.i = http.i + 1]
  BY <1>3, <1>4 DEF Shift
<1>7. Removing' /\ Task(http')
  <2>1. CASE http' = [http EXCEPT !.at = "ilks"]
    BY <1>2, <2>1 DEF Removing, Task
  <2>2. CASE http' = [http EXCEPT !.at = "runs"]
    BY <1>2, <2>2 DEF Removing, Task
  <2>3. CASE http' = [http EXCEPT !.at = "rules", !.i = http.i + 1]
    BY <1>2, <2>3 DEF Removing, Task
  <2> QED BY <1>6, <2>1, <2>2, <2>3
<1>8. PICK z \in Slot : Put(i, z) /\ (z.rule = x.rule \/ z.rule = y.rule)
  <2>1. CASE Put(i, [x EXCEPT !.rule = y.rule])
    <3>1. [x EXCEPT !.rule = y.rule] \in Slot /\ [x EXCEPT !.rule = y.rule].rule = y.rule
      BY <1>5 DEF Slot
    <3> QED BY <2>1, <3>1
  <2>2. CASE Put(i, [x EXCEPT !.ilk = y.ilk])
    <3>1. [x EXCEPT !.ilk = y.ilk] \in Slot /\ [x EXCEPT !.ilk = y.ilk].rule = x.rule
      BY <1>5 DEF Slot
    <3> QED BY <2>2, <3>1
  <2>3. CASE Put(i, [y EXCEPT !.rule = x.rule, !.ilk = x.ilk])
    <3>1. [y EXCEPT !.rule = x.rule, !.ilk = x.ilk] \in Slot
          /\ [y EXCEPT !.rule = x.rule, !.ilk = x.ilk].rule = x.rule
      BY <1>5 DEF Slot
    <3> QED BY <2>3, <3>1
  <2> QED BY <1>6, <2>1, <2>2, <2>3
<1>9. \E k \in DOMAIN table : z.rule = table[k].rule
  BY <1>4, <1>8
<1>10. table' \in Seq(Slot) /\ Good(table')
  BY <1>8, <1>9, PutTable
<1> QED BY <1>7, <1>10

LEMMA RemovedTable ==
  ASSUME AutoTypes, RemoveLast
  PROVE  table' \in Seq(Slot) /\ Good(table')
<1>1. table \in Seq(Slot) /\ Good(table) /\ DOMAIN table = 1..Len(table) /\ Len(table) \in Nat
  BY DEF AutoTypes
<1>2. http.i \in Nat \ {0} /\ http.i = Len(table)
  BY DEF AutoTypes, Task, RemoveLast
<1>3. PICK n \in Nat : n = Len(table) - 1
  <2>1. Len(table) - 1 \in Nat
    BY <1>2
  <2> QED BY <2>1, Zenon
<1>s. table' = SubSeq(table, 1, n)
  BY <1>3 DEF RemoveLast, Front
<1>4. /\ table' \in Seq(Slot) /\ Len(table') = n /\ DOMAIN table' = 1..n
      /\ \A j \in 1..n : table'[j] = table[j]
  BY <1>1, <1>3, <1>s
<1>5. \A j \in DOMAIN table' : j \in DOMAIN table /\ table'[j] = table[j]
  BY <1>1, <1>3, <1>4
<1>6. n <= MaxNodes
  BY <1>1, <1>3, AutoSizes DEF Good
<1> QED BY <1>1, <1>4, <1>5, <1>6 DEF Good

(* The interlock of the last rule.                                         *)
LEMMA InterlockTable ==
  ASSUME AutoTypes, http.at = "ilk", table # <<>>, table' = [table EXCEPT ![Len(table)].ilk = Head(req).ilk]
  PROVE  /\ table' \in Seq(Slot) /\ Good(table') /\ DOMAIN table' = DOMAIN table
         /\ \A j \in DOMAIN table :
              /\ table'[j].rule = table[j].rule /\ table'[j].pulse = table[j].pulse
              /\ table'[j].timer = table[j].timer /\ table'[j].deadline = table[j].deadline
              /\ table'[j].cond = table[j].cond
<1>1. /\ table \in Seq(Slot) /\ Good(table) /\ DOMAIN table = 1..Len(table) /\ Len(table) \in Nat \ {0}
      /\ \A j \in DOMAIN table : table[j] \in Slot
  BY DEF AutoTypes
<1>2. PICK q \in Entry : req = <<q>>
  BY DEF AutoTypes
<1>3. Head(req).ilk = q.ilk /\ q.ilk \in Ilk
  BY <1>2 DEF Entry
<1>4. PICK n \in DOMAIN table : n = Len(table)
  BY <1>1
<1>5. table[n] \in Slot
  BY <1>1
<1>6. PICK y \in Slot : /\ y = [table[n] EXCEPT !.ilk = q.ilk]
                        /\ y.rule = table[n].rule /\ y.cond = table[n].cond /\ y.timer = table[n].timer
                        /\ y.pulse = table[n].pulse /\ y.deadline = table[n].deadline
  BY <1>3, <1>5, IlkSet, Zenon
<1>7. table' = [table EXCEPT ![n] = y]
  BY <1>3, <1>4, <1>6
<1>8. Put(n, y)
  BY <1>7 DEF Put
<1>9. /\ table' \in Seq(Slot) /\ Good(table') /\ DOMAIN table' = DOMAIN table /\ table'[n] = y
      /\ \A j \in DOMAIN table \ {n} : table'[j] = table[j]
  BY <1>6, <1>8, PutTable
<1> QED BY <1>6, <1>9

-----------------------------------------------------------------------------
(* A task that begins a phase.                                             *)
LEMMA RestFacts ==
  ASSUME NEW at
  PROVE  /\ Task(Rest(at)) /\ Rest(at).at = at /\ Rest(at).i = 1 /\ Rest(at).todo = <<>>
         /\ \A ev : Task([Rest(at) EXCEPT !.ev = ev]) /\ [Rest(at) EXCEPT !.ev = ev].at = at
         /\ \A i \in Nat \ {0} : Task([Rest(at) EXCEPT !.i = i]) /\ [Rest(at) EXCEPT !.i = i].at = at
BY DEF Task, Rest

(* A task after a step of a loop over the rules.                           *)
LEMMA AfterFacts ==
  ASSUME NEW t, Task(t)
  PROVE  Task(After(t)) /\ After(t).at = t.at /\ After(t).ev = t.ev
<1>1. PICK n \in Nat \ {0} : n = IF Later(t) = <<>> THEN t.i + 1 ELSE t.i
  BY DEF Task
<1>2. After(t) = [t EXCEPT !.todo = Later(t), !.i = n]
  BY <1>1 DEF After
<1> QED BY <1>1, <1>2 DEF Task

(* A task after a step of the event handler.                               *)
LEMMA HandleFacts ==
  ASSUME NEW t, Task(t), t.at \in {"trigger", "guard"}, NEW done
  PROVE  Task(Handle(t, done)) /\ Handle(t, done).at \in {"trigger", "guard", done}
<1>1. CASE ~ Over(t)
  BY <1>1, AfterFacts DEF Handle
<1>2. CASE Over(t) /\ t.at = "trigger"
  <2>1. Handle(t, done) = [t EXCEPT !.at = "guard", !.i = 1]
    BY <1>2 DEF Handle
  <2> QED BY <2>1 DEF Task
<1>3. CASE Over(t) /\ t.at # "trigger"
  <2>1. Handle(t, done) = Rest(done)
    BY <1>3 DEF Handle
  <2> QED BY <2>1, RestFacts
<1> QED BY <1>1, <1>2, <1>3

(* The rules of the table and what is saved of them.                       *)
Rules ==
  /\ table \in Seq(Slot) /\ Good(table)
  /\ nvs \in Seq(Entry)
  /\ SavedInv

(* A step that leaves the table and NVS alone, or writes one runtime.      *)
LEMMA RulesTouched ==
  ASSUME AutoTypes, SavedInv, Touched, nvs' = nvs, failed' = failed, Removing => Removing'
  PROVE  Rules'
<1>1. table' \in Seq(Slot) /\ Good(table') /\ Config(table') = Config(table)
  <2>1. CASE table' = table
    BY <2>1 DEF AutoTypes
  <2>2. ASSUME NEW i \in DOMAIN table, NEW r \in Slot, Put(i, r),
               r.rule = table[i].rule, r.ilk = table[i].ilk
        PROVE  table' \in Seq(Slot) /\ Good(table') /\ Config(table') = Config(table)
    BY <2>2, PutTable
  <2> QED BY <2>1, <2>2 DEF Touched
<1>2. SavedInv'
  BY <1>1 DEF SavedInv
<1> QED BY <1>1, <1>2 DEF Rules, AutoTypes

LEMMA RulesUnchanged ==
  ASSUME AutoTypes, SavedInv, table' = table, nvs' = nvs, failed' = failed, Removing => Removing'
  PROVE  Rules'
BY RulesTouched DEF Touched

(* automation_engine_set_interlock_at.                                     *)
LEMMA RulesInterlock ==
  ASSUME AutoTypes, SavedInv, SetInterlock
  PROVE  Rules'
<1>1. CASE Head(req).ilk.enabled /\ table # <<>>
  <2>1. table' = [table EXCEPT ![Len(table)].ilk = Head(req).ilk] /\ Persist(table') /\ http.at = "ilk"
    BY <1>1 DEF SetInterlock
  <2>2. table' \in Seq(Slot) /\ Good(table')
    BY <1>1, <2>1, InterlockTable
  <2> QED BY <2>1, <2>2, PersistSaves DEF Rules
<1>2. CASE ~ (Head(req).ilk.enabled /\ table # <<>>)
  <2>1. ~ Removing
    BY DEF SetInterlock, Removing
  <2> QED BY <1>2, <2>1, RulesUnchanged DEF SetInterlock
<1> QED BY <1>1, <1>2

(* The first inductive invariant, and what a step leaves behind.           *)
AutoInv == AutoTypes /\ SavedInv
Keeps ==
  /\ Rules' /\ tick' \in 0..(TickMod - 1) /\ Task(ctl') /\ Task(http')
  /\ http'.at \in {"trigger", "guard", "ilk"} => \E q \in Entry : req' = <<q>>

(* Every action keeps what AutoInv says.                                   *)
LEMMA AutoKeeps ==
  ASSUME AutoInv, Step
  PROVE  Keeps
<1> USE DEF AutoInv
<1>a. /\ tick \in 0..(TickMod - 1) /\ Task(ctl) /\ Task(http)
      /\ http.at \in {"trigger", "guard", "ilk"} => \E q \in Entry : req = <<q>>
      /\ http' = http => (Removing => Removing')
  BY DEF AutoTypes, Removing
<1>b. \A q \in site.requests : q \in Entry
  BY AutoSizes DEF AutoTypes
<1>r. \A at : Rest(at).at = at /\ Task(Rest(at))
  BY RestFacts
<1>1. ASSUME NEW in, NEW cmd, Scan(in, cmd) PROVE Keeps
  BY <1>1, <1>a, <1>r, RulesUnchanged DEF Scan, Keeps
<1>2. CASE TickBegin
  <2>1. (tick + 1) % TickMod \in 0..(TickMod - 1)
    BY <1>a, AutoSizes
  <2> QED BY <1>2, <1>a, <1>r, <2>1, RulesUnchanged DEF TickBegin, Keeps
<1>3. CASE TickRule
  <2>1. ctl' = After(ctl) /\ Visit(ctl) /\ UNCHANGED <<tick, http, req, nvs, failed>>
    BY <1>3 DEF TickRule
  <2>2. Task(ctl')
    BY <1>a, <2>1, AfterFacts
  <2>3. Rules'
    BY <1>a, <2>1, VisitTouches, RulesTouched
  <2> QED BY <1>a, <2>1, <2>2, <2>3 DEF Keeps
<1>4. CASE TickEnd
  BY <1>4, <1>a, <1>r, RulesUnchanged DEF TickEnd, Keeps
<1>5. CASE TakeEvent
  <2>1. Task(ctl')
    <3>1. \/ ctl' = Rest("scan")
          \/ ctl' = [Rest("trigger") EXCEPT !.ev = Head(queue)]
      BY <1>5 DEF TakeEvent
    <3>2. \A ev : Task([Rest("trigger") EXCEPT !.ev = ev])
      BY RestFacts
    <3> QED BY <1>r, <3>1, <3>2, Zenon
  <2> QED BY <1>5, <1>a, <2>1, RulesUnchanged DEF TakeEvent, Keeps
<1>6. CASE CtlHandle
  <2>1. ctl.at \in {"trigger", "guard"} /\ Visit(ctl) /\ ctl' = Handle(ctl, "scan")
        /\ UNCHANGED <<tick, http, req, nvs, failed>>
    BY <1>6 DEF CtlHandle
  <2>2. Task(ctl')
    BY <1>a, <2>1, HandleFacts
  <2>3. Rules'
    BY <1>a, <2>1, VisitTouches, RulesTouched
  <2> QED BY <1>a, <2>1, <2>2, <2>3 DEF Keeps
<1>7. ASSUME NEW q \in site.requests, AddDuplicate(q) PROVE Keeps
  <2>1. ~ Removing
    BY <1>7 DEF AddDuplicate, Removing
  <2> QED BY <1>7, <1>a, <1>b, <1>r, <2>1, RulesUnchanged DEF AddDuplicate, Keeps
<1>8. ASSUME NEW q \in site.requests, AddRule(q) PROVE Keeps
  <2>1. q \in Entry
    BY <1>b
  <2>2. table' \in Seq(Slot) /\ Good(table')
    BY <1>8, <2>1, Added
  <2>3. Rules'
    BY <1>8, <2>2, PersistSaves DEF AddRule, Rules
  <2>4. Task(http') /\ req' = <<q>> /\ UNCHANGED <<tick, ctl>>
    BY <1>8, RestFacts DEF AddRule
  <2> QED BY <1>a, <2>1, <2>3, <2>4 DEF Keeps
<1>9. CASE HttpHandle
  <2>1. http.at \in {"trigger", "guard"} /\ Visit(http) /\ http' = Handle(http, "ilk")
        /\ UNCHANGED <<tick, ctl, req, nvs, failed>>
    BY <1>9 DEF HttpHandle
  <2>2. Task(http')
    BY <1>a, <2>1, HandleFacts
  <2>3. ~ Removing
    BY <2>1 DEF Removing
  <2>4. Rules'
    BY <1>a, <2>1, <2>3, VisitTouches, RulesTouched
  <2> QED BY <1>a, <2>1, <2>2, <2>4 DEF Keeps
<1>10. CASE SetInterlock
  BY <1>10, <1>a, <1>r, RulesInterlock DEF SetInterlock, Keeps
<1>11. ASSUME NEW i \in DOMAIN table, RemoveRule(i) PROVE Keeps
  <2>1. i \in Nat \ {0}
    BY DEF AutoTypes
  <2>2. http' = [Rest("rules") EXCEPT !.i = i] /\ UNCHANGED <<table, tick, ctl, nvs, failed>>
    BY <1>11 DEF RemoveRule
  <2>3. Task(http') /\ http'.at = "rules"
    BY <2>1, <2>2, RestFacts
  <2>4. Rules'
    BY <2>2, <2>3, RulesUnchanged DEF Removing
  <2> QED BY <1>a, <2>2, <2>3, <2>4 DEF Keeps
<1>12. CASE Shift
  <2>1. table' \in Seq(Slot) /\ Good(table') /\ Removing' /\ Task(http')
    BY <1>12, ShiftTable
  <2>2. UNCHANGED <<tick, ctl, nvs>>
    BY <1>12 DEF Shift
  <2>3. Rules'
    BY <2>1, <2>2 DEF Rules, SavedInv, AutoTypes
  <2> QED BY <1>a, <2>1, <2>2, <2>3 DEF Keeps, Removing
<1>13. CASE RemoveLast
  <2>1. Rules'
    BY <1>13, RemovedTable, PersistSaves DEF RemoveLast, Rules
  <2> QED BY <1>13, <1>a, <1>r, <2>1 DEF RemoveLast, Keeps
<1>14. CASE Clear
  <2>1. <<>> \in Seq(Slot) /\ DOMAIN <<>> = {} /\ Len(<<>>) = 0
    OBVIOUS
  <2>2. table' \in Seq(Slot) /\ Good(table')
    BY <1>14, <2>1, AutoSizes DEF Clear, Good
  <2>3. Rules'
    BY <1>14, <2>2, PersistSaves DEF Clear, Rules
  <2> QED BY <1>14, <1>a, <2>3 DEF Clear, Keeps
<1>15. CASE Reset
  <2>1. nvs \in Seq(Entry) /\ table' = Load(nvs) /\ nvs' = nvs
    BY <1>15 DEF AutoTypes, Reset
  <2>2. Rules'
    BY <2>1, LoadGood DEF Rules, SavedInv
  <2> QED BY <1>15, <1>r, <2>2, AutoSizes DEF Reset, Keeps
<1> QED BY <1>1, <1>2, <1>3, <1>4, <1>5, <1>6, <1>7, <1>8, <1>9, <1>10, <1>11, <1>12, <1>13,
           <1>14, <1>15 DEF Step

(* Every step keeps AutoInv.                                               *)
LEMMA AutoStep == AutoInv /\ [Next]_vars => AutoInv'
<1> SUFFICES ASSUME AutoInv, [Next]_vars PROVE AutoInv'
  OBVIOUS
<1>1. CASE UNCHANGED vars
  BY <1>1 DEF vars, AutoTypes, AutoInv, SavedInv, Removing
<1>2. CASE Next
  <2>1. Keeps /\ site' \in Sites
    BY <1>2, AutoKeeps DEF Next, AutoInv, AutoTypes
  <2> QED BY <2>1 DEF Keeps, Rules, AutoInv, AutoTypes
<1> QED BY <1>1, <1>2

(* AutoInv holds at the start.                                             *)
LEMMA AutoInit == Init => AutoInv
<1> SUFFICES ASSUME Init PROVE AutoInv
  OBVIOUS
<1>1. site \in Sites /\ nvs = site.load /\ table = Load(nvs) /\ tick = 0 /\ ctl = Rest("scan") /\ http = Rest("idle")
  BY DEF Init
<1>2. nvs \in Seq(Entry)
  BY <1>1, AutoSizes
<1>3. table \in Seq(Slot) /\ Good(table)
  BY <1>1, <1>2, LoadGood
<1>4. SavedInv
  BY <1>1 DEF SavedInv
<1> QED BY <1>1, <1>2, <1>3, <1>4, RestFacts, AutoSizes DEF AutoInv, AutoTypes

(* automation_persist and automation_load: a reset between requests brings *)
(* back the same rules with the same interlocks, whatever was added,       *)
(* changed or removed place by place before, unless the last save failed;  *)
(* every table that is saved can be loaded.                                *)
THEOREM ResetKeepsRules == Spec => []RulesSurviveReset
<1>1. AutoInv => RulesSurviveReset
  BY DEF AutoInv, SavedInv, RulesSurviveReset, Removing
<1> QED BY AutoInit, AutoStep, <1>1, PTL DEF Spec

(***************************************************************************)
(* From here on nobody edits the rules: only the control loop touches them *)
(* and makes all of a visit in one step.                                   *)
(***************************************************************************)
(* The words for acts, and the acts of a list.                             *)
Word == {"true", "false", "start", "due", "stop", "pulse", "end", "on", "off", "toggle",
         "force_on", "force_off", "low", "high", "rise", "expired"}
Acts(L) == {L[k] : k \in DOMAIN L}

LEMMA ActsTuple ==
  /\ Acts(<<>>) = {}
  /\ \A p \in Word : Acts(<<p>>) = {p} /\ <<p>> \in Seq(Word)
  /\ \A p, q \in Word : Acts(<<p, q>>) = {p, q} /\ <<p, q>> \in Seq(Word)
  /\ \A p, q, r \in Word : Acts(<<p, q, r>>) = {p, q, r} /\ <<p, q, r>> \in Seq(Word)
  /\ \A p, q, r, s \in Word : Acts(<<p, q, r, s>>) = {p, q, r, s} /\ <<p, q, r, s>> \in Seq(Word)
<1>1. Acts(<<>>) = {}
  BY DEF Acts
<1>2. ASSUME NEW p \in Word PROVE Acts(<<p>>) = {p} /\ <<p>> \in Seq(Word)
  BY DEF Acts
<1>3. ASSUME NEW p \in Word, NEW q \in Word PROVE Acts(<<p, q>>) = {p, q} /\ <<p, q>> \in Seq(Word)
  BY DEF Acts
<1>4. ASSUME NEW p \in Word, NEW q \in Word, NEW r \in Word
      PROVE  Acts(<<p, q, r>>) = {p, q, r} /\ <<p, q, r>> \in Seq(Word)
  BY DEF Acts
<1>5. ASSUME NEW p \in Word, NEW q \in Word, NEW r \in Word, NEW s \in Word
      PROVE  Acts(<<p, q, r, s>>) = {p, q, r, s} /\ <<p, q, r, s>> \in Seq(Word)
  BY DEF Acts
<1> QED BY <1>1, <1>2, <1>3, <1>4, <1>5, Zenon

(* The acts of two lists, one behind the other.                            *)
LEMMA ActsJoin ==
  ASSUME NEW p \in Word, NEW q \in Word, NEW s \in Seq(Word)
  PROVE  Acts(<<p, q>> \o s) = {p, q} \cup Acts(s)
<1> DEFINE w == <<p, q>>
           all == w \o s
<1>1. w \in Seq(Word) /\ Len(w) = 2 /\ w[1] = p /\ w[2] = q
  OBVIOUS
<1> HIDE DEF w
<1>2. PICK n \in Nat : n = Len(s) /\ DOMAIN s = 1..n
  OBVIOUS
<1>3. /\ all \in Seq(Word) /\ Len(all) = 2 + n
      /\ \A k \in 1..(2 + n) : all[k] = IF k <= 2 THEN w[k] ELSE s[k - 2]
  <2>1. /\ all \in Seq(Word) /\ Len(all) = Len(w) + Len(s)
        /\ \A k \in 1..(Len(w) + Len(s)) : all[k] = IF k <= Len(w) THEN w[k] ELSE s[k - Len(w)]
    BY <1>1, ConcatProperties
  <2> QED BY <1>1, <1>2, <2>1
<1> HIDE DEF all
<1>4. DOMAIN all = 1..(2 + n)
  BY <1>3
<1>5. ASSUME NEW a \in Acts(all) PROVE a \in {p, q} \cup Acts(s)
  <2>1. PICK k \in 1..(2 + n) : all[k] = a
    BY <1>4, <1>5 DEF Acts
  <2>2. CASE k <= 2
    <3>1. k = 1 \/ k = 2
      BY <1>2, <2>2
    <3> QED BY <1>1, <1>3, <2>1, <2>2, <3>1
  <2>3. CASE ~ (k <= 2)
    <3>1. k - 2 \in 1..n
      BY <1>2, <2>3
    <3> QED BY <1>2, <1>3, <2>1, <2>3, <3>1 DEF Acts
  <2> QED BY <2>2, <2>3
<1>6. ASSUME NEW a \in Acts(s) PROVE a \in Acts(all)
  <2>1. PICK k \in 1..n : s[k] = a
    BY <1>2, <1>6 DEF Acts
  <2>2. k + 2 \in 1..(2 + n) /\ ~ (k + 2 <= 2) /\ (k + 2) - 2 = k
    BY <1>2
  <2>3. all[k + 2] = a
    BY <1>3, <2>1, <2>2
  <2> QED BY <1>4, <2>2, <2>3 DEF Acts
<1>7. p \in Acts(all) /\ q \in Acts(all)
  <2>1. 1 \in 1..(2 + n) /\ 2 \in 1..(2 + n)
    BY <1>2
  <2>2. all[1] = p /\ all[2] = q
    BY <1>1, <1>3, <2>1
  <2> QED BY <1>4, <2>1, <2>2 DEF Acts
<1>8. Acts(all) = {p, q} \cup Acts(s)
  BY <1>5, <1>6, <1>7
<1> QED BY <1>8 DEF all, w

(* What a rule lets happen: the acts A besides the condition it writes.    *)
Reacts(x, c, A) ==
  LET mode == x.rule.mode
  IN  \/ A = {} /\ (Refused(x, c) \/ mode \notin {"follow", "on_delay"})
      \/ /\ ~ Refused(x, c)
         /\ \/ mode = "follow" /\ c = "low" /\ A = {"off", "stop", "end"}
            \/ mode = "follow" /\ c # "low" /\ A = {"on", "stop", "end"}
            \/ mode = "pulse" /\ c = "rise" /\ A = {"on", "pulse", "start", "due"}
            \/ mode = "on_delay" /\ c # "low" /\ A = {"start", "due", "off"}
            \/ mode = "on_delay" /\ c = "low" /\ A = {"stop", "off"}
            \/ mode = "off_delay" /\ c # "low" /\ A = {"stop", "on"}
            \/ mode = "off_delay" /\ c = "low" /\ A = {"start", "due"}
            \/ mode \in {"toggle", "force_on", "force_off"} /\ c = "rise" /\ A = {mode}

(* The list is Triggered.                                                  *)
LEMMA TriggeredActs ==
  ASSUME NEW x \in Slot, NEW c \in {"low", "high", "rise"}
  PROVE  Triggered(x, c) \in Seq(Word) /\ Reacts(x, c, Acts(Triggered(x, c)))
<1> DEFINE mode == x.rule.mode
           L == Triggered(x, c)
           Goal == L \in Seq(Word) /\ Reacts(x, c, Acts(L))
<1>1. mode \in Mode
  BY DEF Slot, Rule
<1>2. \/ L = <<>> /\ (Refused(x, c) \/ mode \notin {"follow", "on_delay"})
      \/ /\ ~ Refused(x, c)
         /\ \/ mode = "follow" /\ c = "low" /\ L = <<"off", "stop", "end">>
            \/ mode = "follow" /\ c # "low" /\ L = <<"on", "stop", "end">>
            \/ mode = "pulse" /\ c = "rise" /\ L = <<"on", "pulse", "start", "due">>
            \/ mode = "on_delay" /\ c # "low" /\ L = <<"start", "due", "off">>
            \/ mode = "on_delay" /\ c = "low" /\ L = <<"stop", "off">>
            \/ mode = "off_delay" /\ c # "low" /\ L = <<"stop", "on">>
            \/ mode = "off_delay" /\ c = "low" /\ L = <<"start", "due">>
            \/ mode \in {"toggle", "force_on", "force_off"} /\ c = "rise" /\ L = <<mode>>
  BY <1>1 DEF Triggered, Pulse, Mode
<1> SUFFICES Goal
  OBVIOUS
<1> HIDE DEF L
<1>3. CASE L = <<>> /\ (Refused(x, c) \/ mode \notin {"follow", "on_delay"})
  <2>1. Acts(L) = {} /\ L \in Seq(Word)
    BY <1>3, ActsTuple
  <2>2. Reacts(x, c, {})
    BY <1>3 DEF Reacts
  <2> QED BY <2>1, <2>2
<1>4. CASE ~ Refused(x, c) /\ mode = "follow" /\ c = "low" /\ L = <<"off", "stop", "end">>
  <2>1. "off" \in Word /\ "stop" \in Word /\ "end" \in Word
    BY DEF Word
  <2>2. Acts(L) = {"off", "stop", "end"} /\ L \in Seq(Word)
    BY <1>4, <2>1, ActsTuple
  <2>3. Reacts(x, c, {"off", "stop", "end"})
    BY <1>4 DEF Reacts
  <2> QED BY <2>2, <2>3
<1>5. CASE ~ Refused(x, c) /\ mode = "follow" /\ c # "low" /\ L = <<"on", "stop", "end">>
  <2>1. "on" \in Word /\ "stop" \in Word /\ "end" \in Word
    BY DEF Word
  <2>2. Acts(L) = {"on", "stop", "end"} /\ L \in Seq(Word)
    BY <1>5, <2>1, ActsTuple
  <2>3. Reacts(x, c, {"on", "stop", "end"})
    BY <1>5 DEF Reacts
  <2> QED BY <2>2, <2>3
<1>6. CASE ~ Refused(x, c) /\ mode = "pulse" /\ c = "rise" /\ L = <<"on", "pulse", "start", "due">>
  <2>1. "on" \in Word /\ "pulse" \in Word /\ "start" \in Word /\ "due" \in Word
    BY DEF Word
  <2>2. Acts(L) = {"on", "pulse", "start", "due"} /\ L \in Seq(Word)
    BY <1>6, <2>1, ActsTuple
  <2>3. Reacts(x, c, {"on", "pulse", "start", "due"})
    BY <1>6 DEF Reacts
  <2> QED BY <2>2, <2>3
<1>7. CASE ~ Refused(x, c) /\ mode = "on_delay" /\ c # "low" /\ L = <<"start", "due", "off">>
  <2>1. "start" \in Word /\ "due" \in Word /\ "off" \in Word
    BY DEF Word
  <2>2. Acts(L) = {"start", "due", "off"} /\ L \in Seq(Word)
    BY <1>7, <2>1, ActsTuple
  <2>3. Reacts(x, c, {"start", "due", "off"})
    BY <1>7 DEF Reacts
  <2> QED BY <2>2, <2>3
<1>8. CASE ~ Refused(x, c) /\ mode = "on_delay" /\ c = "low" /\ L = <<"stop", "off">>
  <2>1. "stop" \in Word /\ "off" \in Word
    BY DEF Word
  <2>2. Acts(L) = {"stop", "off"} /\ L \in Seq(Word)
    BY <1>8, <2>1, ActsTuple
  <2>3. Reacts(x, c, {"stop", "off"})
    BY <1>8 DEF Reacts
  <2> QED BY <2>2, <2>3
<1>9. CASE ~ Refused(x, c) /\ mode = "off_delay" /\ c # "low" /\ L = <<"stop", "on">>
  <2>1. "stop" \in Word /\ "on" \in Word
    BY DEF Word
  <2>2. Acts(L) = {"stop", "on"} /\ L \in Seq(Word)
    BY <1>9, <2>1, ActsTuple
  <2>3. Reacts(x, c, {"stop", "on"})
    BY <1>9 DEF Reacts
  <2> QED BY <2>2, <2>3
<1>10. CASE ~ Refused(x, c) /\ mode = "off_delay" /\ c = "low" /\ L = <<"start", "due">>
  <2>1. "start" \in Word /\ "due" \in Word
    BY DEF Word
  <2>2. Acts(L) = {"start", "due"} /\ L \in Seq(Word)
    BY <1>10, <2>1, ActsTuple
  <2>3. Reacts(x, c, {"start", "due"})
    BY <1>10 DEF Reacts
  <2> QED BY <2>2, <2>3
<1>11. CASE ~ Refused(x, c) /\ mode \in {"toggle", "force_on", "force_off"} /\ c = "rise" /\ L = <<mode>>
  <2>1. mode \in Word
    BY <1>11 DEF Word
  <2>2. Acts(L) = {mode} /\ L \in Seq(Word)
    BY <1>11, <2>1, ActsTuple
  <2>3. Reacts(x, c, {mode})
    BY <1>11 DEF Reacts
  <2> QED BY <2>2, <2>3
<1> QED BY <1>2, <1>3, <1>4, <1>5, <1>6, <1>7, <1>8, <1>9, <1>10, <1>11

(* The end of a timer.                                                     *)
Ends(x, A) ==
  LET mode == x.rule.mode
  IN  \/ A = {} /\ ~ (mode = "pulse" /\ x.pulse)
      \/ mode = "pulse" /\ A = {"end", "off"}
      \/ mode = "on_delay" /\ A = {"on"}
      \/ mode = "off_delay" /\ A = {"off"}

LEMMA ExpiredActs ==
  ASSUME NEW x
  PROVE  Expired(x) \in Seq(Word) /\ Ends(x, Acts(Expired(x)))
<1> DEFINE mode == x.rule.mode
           L == Expired(x)
           Goal == L \in Seq(Word) /\ Ends(x, Acts(L))
<1>1. \/ L = <<>> /\ ~ (mode = "pulse" /\ x.pulse)
      \/ mode = "pulse" /\ L = <<"end", "off">>
      \/ mode = "on_delay" /\ L = <<"on">>
      \/ mode = "off_delay" /\ L = <<"off">>
  BY DEF Expired
<1> SUFFICES Goal
  OBVIOUS
<1> HIDE DEF L
<1>2. CASE L = <<>> /\ ~ (mode = "pulse" /\ x.pulse)
  <2>1. Acts(L) = {} /\ L \in Seq(Word)
    BY <1>2, ActsTuple
  <2>2. Ends(x, {})
    BY <1>2 DEF Ends
  <2> QED BY <2>1, <2>2
<1>3. CASE mode = "pulse" /\ L = <<"end", "off">>
  <2>1. "end" \in Word /\ "off" \in Word
    BY DEF Word
  <2>2. Acts(L) = {"end", "off"} /\ L \in Seq(Word)
    BY <1>3, <2>1, ActsTuple
  <2>3. Ends(x, {"end", "off"})
    BY <1>3 DEF Ends
  <2> QED BY <2>2, <2>3
<1>4. CASE mode = "on_delay" /\ L = <<"on">>
  <2>1. "on" \in Word
    BY DEF Word
  <2>2. Acts(L) = {"on"} /\ L \in Seq(Word)
    BY <1>4, <2>1, ActsTuple
  <2>3. Ends(x, {"on"})
    BY <1>4 DEF Ends
  <2> QED BY <2>2, <2>3
<1>5. CASE mode = "off_delay" /\ L = <<"off">>
  <2>1. "off" \in Word
    BY DEF Word
  <2>2. Acts(L) = {"off"} /\ L \in Seq(Word)
    BY <1>5, <2>1, ActsTuple
  <2>3. Ends(x, {"off"})
    BY <1>5 DEF Ends
  <2> QED BY <2>2, <2>3
<1> QED BY <1>1, <1>2, <1>3, <1>4, <1>5

(* A list does what is among its acts.                                     *)
LEMMA DoesActs ==
  ASSUME NEW L, NEW a
  PROVE  Does(L, a) <=> a \in Acts(L)
BY DEF Does, Acts

(* A rule x of the table becomes y by the acts A, and its output is        *)
(* commanded.                                                              *)
Becomes(x, A, y) ==
  /\ y.rule = x.rule /\ y.ilk = x.ilk
  /\ y.cond <=> "true" \in A \/ (x.cond /\ "false" \notin A)
  /\ y.timer <=> "start" \in A \/ (x.timer /\ "stop" \notin A)
  /\ y.pulse <=> "pulse" \in A \/ (x.pulse /\ "end" \notin A)
  /\ y.deadline = IF "due" \in A THEN Deadline(x.rule) ELSE x.deadline

Commanded(rule, A) ==
  /\ "on" \in A => Apply(rule, TRUE)
  /\ "on" \notin A /\ "off" \in A => Apply(rule, FALSE)
  /\ A \cap {"on", "off"} = {} /\ "toggle" \in A =>
       Dispatch(rule.output, IF state[rule.output] = 0 THEN 1 ELSE 0)
  /\ A \cap {"on", "off", "toggle"} = {} /\ "force_on" \in A => Dispatch(rule.output, 1)
  /\ A \cap {"on", "off", "toggle", "force_on"} = {} /\ "force_off" \in A => Dispatch(rule.output, 0)
  /\ A \cap {"on", "off", "toggle", "force_on", "force_off"} = {} => Keep

LEMMA DoActs ==
  ASSUME AutoTypes, NEW i \in DOMAIN table, NEW L, Do(i, L)
  PROVE  /\ \E y \in Slot : Put(i, y) /\ Becomes(table[i], Acts(L), y)
         /\ Commanded(table[i].rule, Acts(L))
<1> DEFINE A == Acts(L)
<1>1. \A a : Does(L, a) <=> a \in A
  BY DoesActs
<1>2. PICK y \in Slot : Put(i, y) /\ Written(table[i], L, y)
  BY DoWrites
<1>3. Becomes(table[i], A, y)
  <2>1. y.cond <=> "true" \in A \/ (table[i].cond /\ "false" \notin A)
    BY <1>1, <1>2, Zenon DEF Written
  <2>2. y.timer <=> "start" \in A \/ (table[i].timer /\ "stop" \notin A)
    BY <1>1, <1>2, Zenon DEF Written
  <2>3. y.pulse <=> "pulse" \in A \/ (table[i].pulse /\ "end" \notin A)
    BY <1>1, <1>2, Zenon DEF Written
  <2>4. y.deadline = IF "due" \in A THEN Deadline(table[i].rule) ELSE table[i].deadline
    BY <1>1, <1>2, Zenon DEF Written
  <2>5. y.rule = table[i].rule /\ y.ilk = table[i].ilk
    BY <1>2 DEF Written
  <2> QED BY <2>1, <2>2, <2>3, <2>4, <2>5, Zenon DEF Becomes
<1>4. LET rule == table[i].rule
          value == IF Does(L, "toggle") THEN IF state[rule.output] = 0 THEN 1 ELSE 0
                   ELSE IF Does(L, "force_on") THEN 1 ELSE 0
      IN  IF Does(L, "on") THEN Apply(rule, TRUE)
          ELSE IF Does(L, "off") THEN Apply(rule, FALSE)
          ELSE IF Does(L, "toggle") \/ Does(L, "force_on") \/ Does(L, "force_off")
               THEN Dispatch(rule.output, value)
          ELSE Keep
  BY Zenon DEF Do
<1>5. Commanded(table[i].rule, A)
  <2> HIDE DEF A
  <2> QED BY <1>1, <1>4 DEF Commanded
<1> QED BY <1>2, <1>3, <1>5

-----------------------------------------------------------------------------
(* One visit of the control loop.                                          *)
LEMMA WholeVisit ==
  ASSUME AutoTypes, ~ Shared, NEW t, t.todo = <<>>, t.at \in {"tick", "trigger", "guard"},
         NEW i \in DOMAIN table, i = t.i, Visit(t)
  PROVE  \/ /\ Do(i, <<>>)
            /\ t.at = "tick" => ~ (table[i].timer /\ Reached(table[i].deadline))
            /\ t.at = "trigger" => table[i].rule.input # t.ev.src
            /\ t.at = "guard" => ~ Trips(table[i], t.ev)
         \/ t.at = "tick" /\ Do(i, <<"stop", "expired">> \o Expired(table[i]))
         \/ /\ t.at = "trigger" /\ table[i].rule.input = t.ev.src
            /\ \E v \in {"true", "false"}, c \in {"low", "high", "rise"} :
                 /\ (c = "low" <=> ~ Holds(table[i].rule, t.ev.data)) /\ (c = "low" <=> v = "false")
                 /\ Do(i, <<v, c>> \o Triggered(table[i], c))
         \/ t.at = "guard" /\ Trips(table[i], t.ev) /\ Do(i, <<"stop", "end", "off">>)
<1> DEFINE x == table[i]
           found == Found(t, x)
<1>1. Do(i, Now(t))
  BY DEF Visit
<1>2. Now(t) = IF found = <<>> THEN <<>>
               ELSE IF Last(found) \in Decisions THEN found \o Chosen(x, Last(found)) ELSE found
  BY DEF Now
<1> HIDE DEF x
<1>3. CASE t.at = "tick" /\ x.timer /\ Reached(x.deadline)
  <2>1. found = <<"stop", "expired">>
    BY <1>3 DEF Found
  <2>2. found # <<>> /\ Last(found) = "expired" /\ "expired" \in Decisions
    BY <2>1 DEF Last, Decisions
  <2>3. Now(t) = <<"stop", "expired">> \o Expired(x)
    BY <1>2, <2>1, <2>2 DEF Chosen
  <2> QED BY <1>1, <1>3, <2>3 DEF x
<1>4. CASE t.at = "trigger" /\ x.rule.input = t.ev.src
  <2>1. PICK v \in {"true", "false"}, c \in {"low", "high", "rise"} :
          (c = "low" <=> ~ Holds(x.rule, t.ev.data)) /\ (c = "low" <=> v = "false") /\ found = <<v, c>>
    <3>1. CASE Holds(x.rule, t.ev.data) /\ x.cond
      <4>1. found = <<"true", "high">>
        BY <1>4, <3>1 DEF Found
      <4> QED BY <3>1, <4>1
    <3>2. CASE Holds(x.rule, t.ev.data) /\ ~ x.cond
      <4>1. found = <<"true", "rise">>
        BY <1>4, <3>2 DEF Found
      <4> QED BY <3>2, <4>1
    <3>3. CASE ~ Holds(x.rule, t.ev.data)
      <4>1. found = <<"false", "low">>
        BY <1>4, <3>3 DEF Found
      <4> QED BY <3>3, <4>1
    <3> QED BY <3>1, <3>2, <3>3
  <2>2. found # <<>> /\ Last(found) = c /\ c \in Decisions /\ c # "expired"
    BY <2>1 DEF Last, Decisions
  <2>3. Now(t) = <<v, c>> \o Triggered(x, c)
    BY <1>2, <2>1, <2>2 DEF Chosen
  <2> QED BY <1>1, <1>4, <2>1, <2>3 DEF x
<1>5. CASE t.at = "guard" /\ Trips(x, t.ev)
  <2>1. found = <<"stop", "end", "off">>
    BY <1>5 DEF Found
  <2>2. found # <<>> /\ Last(found) = "off" /\ "off" \notin Decisions
    BY <2>1 DEF Last, Decisions
  <2>3. Now(t) = <<"stop", "end", "off">>
    BY <1>2, <2>1, <2>2
  <2> QED BY <1>1, <1>5, <2>3 DEF x
<1>6. CASE /\ t.at = "tick" => ~ (x.timer /\ Reached(x.deadline))
           /\ t.at = "trigger" => x.rule.input # t.ev.src
           /\ t.at = "guard" => ~ Trips(x, t.ev)
  <2>1. found = <<>>
    BY <1>6 DEF Found
  <2>2. Now(t) = <<>>
    BY <1>2, <2>1
  <2> QED BY <1>1, <1>6, <2>2 DEF x
<1> QED BY <1>3, <1>4, <1>5, <1>6

(* The end of a visit and of a loop.                                       *)
LEMMA WholeAfter ==
  ASSUME AutoTypes, ~ Shared, NEW t, Task(t), t.todo = <<>>
  PROVE  /\ Over(t) <=> t.i \notin DOMAIN table
         /\ t.i \in Nat \ {0}
         /\ After(t).at = t.at /\ After(t).i = t.i + 1 /\ After(t).ev = t.ev /\ After(t).todo = <<>>
         /\ \A done : Over(t) => /\ Handle(t, done).todo = <<>>
                                 /\ t.at = "trigger" => /\ Handle(t, done).at = "guard"
                                                        /\ Handle(t, done).i = 1
                                                        /\ Handle(t, done).ev = t.ev
                                 /\ t.at # "trigger" => Handle(t, done) = Rest(done)
<1>1. DOMAIN table = 1..Len(table) /\ Len(table) \in Nat /\ t.i \in Nat \ {0} /\ DOMAIN t = {"at", "i", "ev", "todo"}
  BY DEF AutoTypes, Task
<1>2. Over(t) <=> t.i \notin DOMAIN table
  BY <1>1 DEF Over
<1>3. Later(t) = <<>>
  BY DEF Later
<1>4. After(t) = [t EXCEPT !.todo = <<>>, !.i = t.i + 1]
  BY <1>3 DEF After
<1>5. After(t).at = t.at /\ After(t).i = t.i + 1 /\ After(t).ev = t.ev /\ After(t).todo = <<>>
  BY <1>1, <1>4
<1>6. ASSUME NEW done, Over(t), t.at = "trigger"
      PROVE  /\ Handle(t, done).todo = <<>> /\ Handle(t, done).at = "guard"
             /\ Handle(t, done).i = 1 /\ Handle(t, done).ev = t.ev
  <2>1. Handle(t, done) = [t EXCEPT !.at = "guard", !.i = 1]
    BY <1>6 DEF Handle
  <2> QED BY <1>1, <2>1
<1>7. ASSUME NEW done, Over(t), t.at # "trigger"
      PROVE  Handle(t, done) = Rest(done) /\ Handle(t, done).todo = <<>>
  BY <1>7, RestFacts DEF Handle
<1> QED BY <1>1, <1>2, <1>5, <1>6, <1>7

-----------------------------------------------------------------------------
(* The rules and the tasks where nobody edits.                             *)
Solo ==
  /\ ctl.todo = <<>> /\ http.at = "idle"
  /\ \A j \in DOMAIN table : table[j].pulse => table[j].rule.mode = "pulse"
  /\ OnDelayArmed
SoloInv == ~ Shared => Solo

(* What a visit may make of the rule x: the pulse and the timer are as     *)
(* they were, or armed from now.                                           *)
Touch(x, r) ==
  /\ r.rule = x.rule /\ r.ilk = x.ilk
  /\ r.pulse =>
       /\ r.rule.mode = "pulse"
       /\ \/ x.pulse /\ (r.timer <=> x.timer) /\ r.deadline = x.deadline
          \/ r.timer /\ r.deadline = Deadline(r.rule)
  /\ r.rule.mode = "on_delay" /\ r.timer => r.cond

(* One rule of the table is touched, or none.                              *)
SoloTouched ==
  \/ table' = table
  \/ \E i \in DOMAIN table, r \in Slot : Put(i, r) /\ Touch(table[i], r)

(* The acts of the trigger half.                                           *)
LEMMA ReactTouches ==
  ASSUME NEW x \in Slot, NEW y \in Slot, NEW v \in {"true", "false"}, NEW c \in {"low", "high", "rise"},
         c = "low" <=> v = "false", NEW A, Reacts(x, c, A), Becomes(x, {v, c} \cup A, y),
         x.pulse => x.rule.mode = "pulse", x.rule.mode = "on_delay" /\ x.timer => x.cond
  PROVE  Touch(x, y)
<1> DEFINE mode == x.rule.mode
           B == {v, c} \cup A
<1>0. /\ y.rule = x.rule /\ y.ilk = x.ilk
      /\ y.cond <=> "true" \in B \/ (x.cond /\ "false" \notin B)
      /\ y.timer <=> "start" \in B \/ (x.timer /\ "stop" \notin B)
      /\ y.pulse <=> "pulse" \in B \/ (x.pulse /\ "end" \notin B)
      /\ y.deadline = IF "due" \in B THEN Deadline(x.rule) ELSE x.deadline
  BY DEF Becomes
<1>1. CASE A = {} /\ (Refused(x, c) \/ mode \notin {"follow", "on_delay"})
  <2>1. Refused(x, c) => v = "true"
    BY DEF Refused
  <2> QED BY <1>0, <1>1, <2>1 DEF Touch
<1>2. CASE mode = "follow" /\ A \in {{"off", "stop", "end"}, {"on", "stop", "end"}}
  BY <1>0, <1>2 DEF Touch
<1>3. CASE mode = "pulse" /\ A = {"on", "pulse", "start", "due"}
  BY <1>0, <1>3 DEF Touch
<1>4. CASE mode = "on_delay" /\ c # "low" /\ A = {"start", "due", "off"}
  <2>1. v = "true"
    BY <1>4
  <2> QED BY <1>0, <1>4, <2>1 DEF Touch
<1>5. CASE mode = "on_delay" /\ A = {"stop", "off"}
  BY <1>0, <1>5 DEF Touch
<1>6. CASE mode = "off_delay" /\ A \in {{"stop", "on"}, {"start", "due"}}
  BY <1>0, <1>6 DEF Touch
<1>7. CASE mode \in {"toggle", "force_on", "force_off"} /\ A = {mode}
  BY <1>0, <1>7 DEF Touch
<1> QED BY <1>1, <1>2, <1>3, <1>4, <1>5, <1>6, <1>7 DEF Reacts

(* A visit of the event handler.                                           *)
LEMMA HandlerTouches ==
  ASSUME AutoTypes, ~ Shared, Solo, NEW t, Task(t), t.todo = <<>>, t.at \in {"trigger", "guard"}, Visit(t)
  PROVE  SoloTouched
<1>1. CASE t.i \notin DOMAIN table
  BY <1>1 DEF Visit, SoloTouched
<1>2. CASE t.i \in DOMAIN table
  <2>1. PICK i \in DOMAIN table : i = t.i
    BY <1>2
  <2>2. PICK x \in Slot : x = table[i]
    BY DEF AutoTypes
  <2>3. (x.pulse => x.rule.mode = "pulse") /\ (x.rule.mode = "on_delay" /\ x.timer => x.cond)
    BY <2>2 DEF Solo, OnDelayArmed
  <2>4. ASSUME NEW y \in Slot, Put(i, y), Touch(x, y) PROVE SoloTouched
    BY <2>2, <2>4 DEF SoloTouched
  <2>5. CASE Do(i, <<>>)
    <3>0. Acts(<<>>) = {}
      BY ActsTuple
    <3>1. PICK y \in Slot : Put(i, y) /\ Becomes(x, {}, y)
      BY <2>2, <2>5, <3>0, DoActs
    <3>2. Touch(x, y)
      BY <2>3, <3>1 DEF Becomes, Touch
    <3> QED BY <2>4, <3>1, <3>2
  <2>6. CASE Do(i, <<"stop", "end", "off">>)
    <3>1. Acts(<<"stop", "end", "off">>) = {"stop", "end", "off"}
      <4>1. "stop" \in Word /\ "end" \in Word /\ "off" \in Word
        BY DEF Word
      <4> QED BY <4>1, ActsTuple
    <3>2. PICK y \in Slot : Put(i, y) /\ Becomes(x, {"stop", "end", "off"}, y)
      BY <2>2, <2>6, <3>1, DoActs
    <3>3. Touch(x, y)
      BY <3>2 DEF Becomes, Touch
    <3> QED BY <2>4, <3>2, <3>3
  <2>7. ASSUME NEW v \in {"true", "false"}, NEW c \in {"low", "high", "rise"}, c = "low" <=> v = "false",
               Do(i, <<v, c>> \o Triggered(x, c))
        PROVE  SoloTouched
    <3>1. Triggered(x, c) \in Seq(Word) /\ Reacts(x, c, Acts(Triggered(x, c)))
      BY TriggeredActs
    <3>2. v \in Word /\ c \in Word
      BY DEF Word
    <3>3. Acts(<<v, c>> \o Triggered(x, c)) = {v, c} \cup Acts(Triggered(x, c))
      BY <3>1, <3>2, ActsJoin
    <3>4. PICK y \in Slot : Put(i, y) /\ Becomes(x, {v, c} \cup Acts(Triggered(x, c)), y)
      BY <2>2, <2>7, <3>3, DoActs
    <3>5. Touch(x, y)
      BY <2>3, <2>7, <3>1, <3>4, ReactTouches
    <3> QED BY <2>4, <3>4, <3>5
  <2> QED BY <2>1, <2>2, <2>5, <2>6, <2>7, WholeVisit
<1> QED BY <1>1, <1>2

(* A visit of the timers: one that is due leaves neither timer nor pulse.  *)
LEMMA TimerVisit ==
  ASSUME AutoTypes, ~ Shared, Solo, TickRule
  PROVE  /\ ctl.i \in DOMAIN table
         /\ \E y \in Slot :
              /\ Put(ctl.i, y) /\ Touch(table[ctl.i], y)
              /\ \/ ~ y.timer /\ ~ y.pulse
                 \/ /\ ~ (table[ctl.i].timer /\ Reached(table[ctl.i].deadline))
                    /\ (y.pulse <=> table[ctl.i].pulse) /\ (y.timer <=> table[ctl.i].timer)
                    /\ y.deadline = table[ctl.i].deadline
<1>1. ctl.at = "tick" /\ ~ Over(ctl) /\ Visit(ctl) /\ ctl.todo = <<>> /\ Task(ctl)
  BY DEF TickRule, Solo, AutoTypes
<1>2. PICK i \in DOMAIN table : i = ctl.i
  BY <1>1, WholeAfter
<1>3. PICK x \in Slot : x = table[i]
  BY DEF AutoTypes
<1>4. (x.pulse => x.rule.mode = "pulse") /\ (x.rule.mode = "on_delay" /\ x.timer => x.cond)
  BY <1>3 DEF Solo, OnDelayArmed
<1>5. \/ Do(i, <<>>) /\ ~ (x.timer /\ Reached(x.deadline))
      \/ Do(i, <<"stop", "expired">> \o Expired(x))
  BY <1>1, <1>2, <1>3, WholeVisit
<1>6. CASE Do(i, <<>>) /\ ~ (x.timer /\ Reached(x.deadline))
  <2>0. Acts(<<>>) = {}
    BY ActsTuple
  <2>1. PICK y \in Slot : Put(i, y) /\ Becomes(x, {}, y)
    BY <1>3, <1>6, <2>0, DoActs
  <2>2. Touch(x, y) /\ (y.pulse <=> x.pulse) /\ (y.timer <=> x.timer) /\ y.deadline = x.deadline
    BY <1>4, <2>1 DEF Becomes, Touch
  <2> QED BY <1>2, <1>3, <1>6, <2>1, <2>2
<1>7. CASE Do(i, <<"stop", "expired">> \o Expired(x))
  <2>1. Expired(x) \in Seq(Word) /\ Ends(x, Acts(Expired(x)))
    BY ExpiredActs
  <2>2. "stop" \in Word /\ "expired" \in Word
    BY DEF Word
  <2>3. Acts(<<"stop", "expired">> \o Expired(x)) = {"stop", "expired"} \cup Acts(Expired(x))
    BY <2>1, <2>2, ActsJoin
  <2>4. PICK A : A = Acts(Expired(x))
    OBVIOUS
  <2>5. PICK y \in Slot : Put(i, y) /\ Becomes(x, {"stop", "expired"} \cup A, y)
    BY <1>3, <1>7, <2>3, <2>4, DoActs
  <2>6. "start" \notin A /\ "pulse" \notin A /\ (x.pulse => "end" \in A)
    BY <1>4, <2>1, <2>4 DEF Ends
  <2>7. ~ y.timer /\ ~ y.pulse /\ y.rule = x.rule /\ y.ilk = x.ilk
    BY <2>5, <2>6 DEF Becomes
  <2>8. Touch(x, y)
    BY <2>7 DEF Touch
  <2> QED BY <1>2, <1>3, <2>5, <2>7, <2>8
<1> QED BY <1>5, <1>6, <1>7

LEMMA TimerTouches ==
  ASSUME AutoTypes, ~ Shared, Solo, TickRule
  PROVE  SoloTouched
BY TimerVisit DEF SoloTouched

(* The steps there are where nobody edits.                                 *)
LEMMA SoloSteps ==
  ASSUME ~ Shared, Solo, Step
  PROVE  \/ \E in \in [site.wired -> InVal], cmd \in Commands : Scan(in, cmd)
         \/ TickBegin \/ TickRule \/ TickEnd \/ TakeEvent \/ CtlHandle \/ Reset
<1>1. site.requests = {} /\ ~ site.deletes /\ http.at = "idle"
  BY DEF Shared, Solo
<1>2. ~ HttpHandle /\ ~ SetInterlock /\ ~ Shift /\ ~ RemoveLast /\ ~ Clear
  BY <1>1 DEF HttpHandle, SetInterlock, Shift, RemoveLast, Clear
<1>3. \A i \in DOMAIN table : ~ RemoveRule(i)
  BY <1>1 DEF RemoveRule
<1> QED BY <1>1, <1>2, <1>3 DEF Step

(* The rules of the table stay.                                            *)
SameRules ==
  /\ DOMAIN table' = DOMAIN table
  /\ \A j \in DOMAIN table : table'[j].rule = table[j].rule /\ table'[j].ilk = table[j].ilk

(* A touched table.                                                        *)
LEMMA TouchedTable ==
  ASSUME AutoTypes, NEW i \in DOMAIN table, NEW r \in Slot, Put(i, r), Touch(table[i], r)
  PROVE  /\ DOMAIN table' = DOMAIN table /\ table'[i] = r
         /\ \A j \in DOMAIN table \ {i} : table'[j] = table[j]
         /\ SameRules
<1>1. r.rule = table[i].rule /\ r.ilk = table[i].ilk
  BY DEF Touch
<1>2. DOMAIN table' = DOMAIN table /\ table'[i] = r /\ \A j \in DOMAIN table \ {i} : table'[j] = table[j]
  BY <1>1, PutTable
<1> QED BY <1>1, <1>2 DEF SameRules

LEMMA TouchedSame ==
  ASSUME AutoTypes, SoloTouched
  PROVE  SameRules
<1>1. CASE table' = table
  BY <1>1 DEF SameRules
<1> QED BY <1>1, TouchedTable DEF SoloTouched

(* Every step keeps Solo.                                                  *)
LEMMA SoloTouch ==
  ASSUME AutoTypes, Solo, SoloTouched, ctl'.todo = <<>>, http' = http
  PROVE  Solo'
<1>1. CASE table' = table
  BY <1>1 DEF Solo, OnDelayArmed
<1>2. ASSUME NEW i \in DOMAIN table, NEW r \in Slot, Put(i, r), Touch(table[i], r) PROVE Solo'
  <2>1. DOMAIN table' = DOMAIN table /\ table'[i] = r /\ \A j \in DOMAIN table \ {i} : table'[j] = table[j]
    BY <1>2, TouchedTable
  <2>2. (r.pulse => r.rule.mode = "pulse") /\ (r.rule.mode = "on_delay" /\ r.timer => r.cond)
    BY <1>2 DEF Touch
  <2>3. \A j \in DOMAIN table' : table'[j].pulse => table'[j].rule.mode = "pulse"
    BY <2>1, <2>2 DEF Solo
  <2>4. OnDelayArmed'
    BY <2>1, <2>2 DEF Solo, OnDelayArmed
  <2> QED BY <2>3, <2>4 DEF Solo
<1> QED BY <1>1, <1>2 DEF SoloTouched

LEMMA SoloStep == AutoInv /\ SoloInv /\ [Next]_vars => SoloInv'
<1>s. [Next]_vars => site' = site
  BY DEF Next, vars
<1> SUFFICES ASSUME AutoTypes, Solo, [Next]_vars, ~ Shared PROVE Solo'
  BY <1>s DEF SoloInv, AutoInv, Shared
<1>t. table' = table => SoloTouched
  BY DEF SoloTouched
<1>r. \A at : Rest(at).todo = <<>> /\ Rest(at).at = at
  BY RestFacts
<1>0. Task(ctl) /\ ctl.todo = <<>>
  BY DEF AutoTypes, Solo
<1>1. CASE UNCHANGED vars
  BY <1>1, <1>t, SoloTouch DEF vars, Solo
<1>2. ASSUME NEW in, NEW cmd, Scan(in, cmd) PROVE Solo'
  BY <1>2, <1>t, <1>r, SoloTouch DEF Scan
<1>3. CASE TickBegin \/ TickEnd
  BY <1>3, <1>t, <1>r, SoloTouch DEF TickBegin, TickEnd
<1>4. CASE TickRule
  <2>1. ctl' = After(ctl) /\ http' = http
    BY <1>4 DEF TickRule
  <2>2. ctl'.todo = <<>>
    BY <1>0, <2>1, WholeAfter
  <2> QED BY <1>4, <2>1, <2>2, TimerTouches, SoloTouch
<1>5. CASE TakeEvent
  <2>1. ctl'.todo = <<>>
    <3>1. \/ ctl' = Rest("scan")
          \/ ctl' = [Rest("trigger") EXCEPT !.ev = Head(queue)]
      BY <1>5 DEF TakeEvent
    <3>2. [Rest("trigger") EXCEPT !.ev = Head(queue)].todo = <<>>
      BY DEF Rest
    <3> QED BY <1>r, <3>1, <3>2
  <2> QED BY <1>5, <1>t, <2>1, SoloTouch DEF TakeEvent
<1>6. CASE CtlHandle
  <2>1. ctl.at \in {"trigger", "guard"} /\ Visit(ctl) /\ ctl' = Handle(ctl, "scan") /\ http' = http
    BY <1>6 DEF CtlHandle
  <2>2. ctl'.todo = <<>>
    <3>1. CASE Over(ctl)
      BY <1>0, <2>1, <3>1, WholeAfter
    <3>2. CASE ~ Over(ctl)
      BY <1>0, <2>1, <3>2, WholeAfter DEF Handle
    <3> QED BY <3>1, <3>2
  <2>3. SoloTouched
    BY <1>0, <2>1, HandlerTouches
  <2> QED BY <2>1, <2>2, <2>3, SoloTouch
<1>7. CASE Reset
  <2>1. nvs \in Seq(Entry) /\ table' = Load(nvs) /\ ctl' = Rest("scan") /\ http' = Rest("idle")
    BY <1>7 DEF Reset, AutoTypes
  <2>2. \A j \in DOMAIN table' : ~ table'[j].pulse /\ ~ table'[j].timer
    BY <2>1, LoadGood
  <2> QED BY <1>r, <2>1, <2>2 DEF Solo, OnDelayArmed
<1> QED BY <1>1, <1>2, <1>3, <1>4, <1>5, <1>6, <1>7, SoloSteps DEF Next

LEMMA SoloInit == Init => SoloInv
<1> SUFFICES ASSUME Init PROVE Solo
  BY DEF SoloInv
<1>1. nvs \in Seq(Entry) /\ table = Load(nvs) /\ ctl = Rest("scan") /\ http = Rest("idle")
  BY AutoSizes DEF Init
<1>2. \A j \in DOMAIN table : ~ table[j].pulse /\ ~ table[j].timer
  BY <1>1, LoadGood
<1> QED BY <1>1, <1>2, RestFacts DEF Solo, OnDelayArmed

(* automation_event_handler: where nobody edits the rules, the timer of an *)
(* ON_DELAY rule is armed only while its condition holds, also over        *)
(* interlocks that refuse it and over resets.  Where rules are edited two  *)
(* tasks write the condition and the timer apart, and it is not so.        *)
THEOREM DelayIsArmed == Spec => [](~ Shared => OnDelayArmed)
<1>1. SoloInv => (~ Shared => OnDelayArmed)
  BY DEF SoloInv, Solo
<1> QED BY AutoInit, AutoStep, SoloInit, SoloStep, <1>1, PTL DEF Spec

(***************************************************************************)
(* Pulses.  The deadline d of a pulse is k ticks ahead of now, up to a     *)
(* wrap.  A rule that the tick still has to visit may be due now; one that *)
(* has been visited has a tick more.                                       *)
(***************************************************************************)
Ahead(d, now, k) == d = now + k \/ d = now + k - TickMod \/ d = now + k + TickMod

PulseOK(x, now, soonest) ==
  x.pulse =>
    /\ x.timer
    /\ \E k \in Int : soonest <= k /\ k <= x.rule.duration /\ Ahead(x.deadline, now, k)

Soonest(t, j) == IF t.at = "tick" /\ j >= t.i THEN 0 ELSE 1

PulseInv == \A j \in DOMAIN table : PulseOK(table[j], tick, Soonest(ctl, j))

(* A bound that is lower still holds.                                      *)
LEMMA PulseLater ==
  ASSUME NEW x, NEW now, NEW a \in Int, NEW b \in Int, b <= a, PulseOK(x, now, a)
  PROVE  PulseOK(x, now, b)
<1> SUFFICES ASSUME x.pulse
             PROVE  x.timer /\ \E k \in Int : b <= k /\ k <= x.rule.duration /\ Ahead(x.deadline, now, k)
  BY DEF PulseOK
<1>1. PICK k \in Int : a <= k /\ k <= x.rule.duration /\ Ahead(x.deadline, now, k)
  BY DEF PulseOK
<1>2. b <= k
  BY <1>1
<1> QED BY <1>1, <1>2 DEF PulseOK

(* A deadline that is set now.                                             *)
LEMMA ArmedAhead ==
  ASSUME NEW now \in 0..(TickMod - 1), NEW d \in 0..(TickMod \div 2)
  PROVE  Ahead((now + d) % TickMod, now, d)
<1>1. d \in Int /\ 0 <= d /\ d <= TickMod
  BY AutoSizes
<1>2. CASE now + d < TickMod
  <2>1. (now + d) % TickMod = now + d
    BY <1>1, <1>2, AutoSizes
  <2> QED BY <2>1 DEF Ahead
<1>3. CASE now + d >= TickMod
  <2>1. now + d - TickMod \in 0..(TickMod - 1)
    BY <1>1, <1>3, AutoSizes
  <2>2. (now + d) % TickMod = now + d - TickMod
    BY <2>1, <1>1, <1>3, AutoSizes
  <2> QED BY <2>2 DEF Ahead
<1> QED BY <1>1, <1>2, <1>3, AutoSizes

(* automation_time_reached is exact for the deadlines there are: one that  *)
(* is due now is reached.                                                  *)
LEMMA ReachedExact ==
  ASSUME NEW now \in 0..(TickMod - 1), NEW d \in 0..(TickMod - 1), NEW k \in Int, Ahead(d, now, k),
         0 <= k, ~ ((now - d) % TickMod < TickMod \div 2)
  PROVE  1 <= k
<1>0. TickMod \in Nat \ {0} /\ TickMod \div 2 \in Nat /\ 0 < TickMod \div 2
  BY AutoSizes
<1> SUFFICES ASSUME k = 0 PROVE FALSE
  OBVIOUS
<1>1. now - d = 0
  BY <1>0 DEF Ahead
<1>2. 0 % TickMod = 0
  BY <1>0, SMTT(30)
<1> QED BY <1>0, <1>1, <1>2

(* The difference of a deadline and now.                                   *)
LEMMA AheadBounds ==
  ASSUME NEW now \in 0..(TickMod - 1), NEW d \in 0..(TickMod - 1), NEW k \in Nat, Ahead(d, now, k),
         NEW dur \in 0..(TickMod \div 2), k <= dur
  PROVE  (d - now) % TickMod \in 0..dur
<1>0. TickMod \in Nat \ {0} /\ TickMod \div 2 \in Nat /\ 2 * (TickMod \div 2) <= TickMod
  BY AutoSizes
<1>1. k < TickMod
  BY <1>0
<1>2. d - now = k \/ d - now = k - TickMod \/ d - now = k + TickMod
  BY <1>0, <1>1 DEF Ahead
<1>3. k % TickMod = k /\ (k - TickMod) % TickMod = k /\ (k + TickMod) % TickMod = k
  BY <1>0, <1>1, SMTT(30)
<1> QED BY <1>0, <1>1, <1>2, <1>3

(* The tick moves: every deadline comes one tick nearer.                   *)
LEMMA TickNearer ==
  ASSUME NEW x \in Slot, NEW now \in 0..(TickMod - 1), PulseOK(x, now, 1)
  PROVE  PulseOK(x, (now + 1) % TickMod, 0)
<1> SUFFICES ASSUME x.pulse
             PROVE  /\ x.timer
                    /\ \E k \in Int : /\ 0 <= k /\ k <= x.rule.duration
                                      /\ Ahead(x.deadline, (now + 1) % TickMod, k)
  BY DEF PulseOK
<1>1. PICK k \in Int : 1 <= k /\ k <= x.rule.duration /\ Ahead(x.deadline, now, k)
  BY DEF PulseOK
<1>2. x.rule.duration \in 0..(TickMod \div 2) /\ x.deadline \in 0..(TickMod - 1)
  BY DEF Slot, Rule
<1>3. TickMod \in Nat \ {0} /\ TickMod \div 2 \in Nat /\ 2 * (TickMod \div 2) <= TickMod
  BY AutoSizes
<1>4. 0 <= k - 1 /\ k - 1 <= x.rule.duration /\ k - 1 \in Int
  BY <1>1, <1>2, <1>3
<1>5. CASE now < TickMod - 1
  <2>1. (now + 1) % TickMod = now + 1
    BY <1>3, <1>5
  <2>2. Ahead(x.deadline, now + 1, k - 1)
    BY <1>1, <1>2, <1>3 DEF Ahead
  <2> QED BY <1>4, <2>1, <2>2 DEF PulseOK
<1>6. CASE now = TickMod - 1
  <2>1. (now + 1) % TickMod = 0
    BY <1>3, <1>6
  <2>2. - TickMod <= k /\ k <= TickMod
    BY <1>1, <1>2, <1>3
  <2>3. Ahead(x.deadline, 0, k - 1)
    BY <1>1, <1>2, <1>3, <1>6, <2>2 DEF Ahead
  <2> QED BY <1>4, <2>1, <2>3 DEF PulseOK
<1> QED BY <1>3, <1>5, <1>6

(* What the table gives: places, and rules that are typed.                 *)
LEMMA Places ==
  ASSUME AutoTypes
  PROVE  /\ DOMAIN table = 1..Len(table) /\ Len(table) \in Nat /\ Len(table) <= MaxNodes
         /\ \A j \in DOMAIN table : /\ j \in Nat \ {0} /\ table[j] \in Slot
                                    /\ table[j].rule \in Rule /\ Valid(table[j].rule)
<1>1. table \in Seq(Slot) /\ Good(table)
  BY DEF AutoTypes
<1>2. DOMAIN table = 1..Len(table) /\ Len(table) \in Nat /\ \A j \in DOMAIN table : table[j] \in Slot
  BY <1>1
<1>3. \A x \in Slot : x.rule \in Rule
  BY DEF Slot
<1> QED BY <1>1, <1>2, <1>3, AutoSizes DEF Good

(* A visit keeps the pulses, as it arms them for at least one tick.        *)
LEMMA PulseTouched ==
  ASSUME AutoTypes, PulseInv, SoloTouched, tick' = tick,
         \A j \in DOMAIN table : Soonest(ctl', j) <= Soonest(ctl, j)
  PROVE  PulseInv'
<1>0. /\ tick \in 0..(TickMod - 1)
      /\ \A j \in DOMAIN table : Soonest(ctl', j) \in Int /\ Soonest(ctl, j) \in Int /\ Soonest(ctl', j) <= 1
  BY DEF Soonest, AutoTypes
<1>1. \A j \in DOMAIN table : PulseOK(table[j], tick, Soonest(ctl', j))
  <2> TAKE j \in DOMAIN table
  <2>1. PulseOK(table[j], tick, Soonest(ctl, j))
    BY DEF PulseInv
  <2> QED BY <1>0, <2>1, PulseLater
<1>2. CASE table' = table
  BY <1>1, <1>2 DEF PulseInv
<1>3. ASSUME NEW i \in DOMAIN table, NEW r \in Slot, Put(i, r), Touch(table[i], r)
      PROVE  PulseInv'
  <2>1. r.rule = table[i].rule /\ (r.pulse => r.rule.mode = "pulse")
    BY <1>3 DEF Touch
  <2>2. DOMAIN table' = DOMAIN table /\ table'[i] = r /\ \A j \in DOMAIN table \ {i} : table'[j] = table[j]
    BY <1>3, TouchedTable
  <2>3. PulseOK(r, tick, Soonest(ctl', i))
    <3> SUFFICES ASSUME r.pulse PROVE PulseOK(r, tick, Soonest(ctl', i))
      BY DEF PulseOK
    <3>1. CASE table[i].pulse /\ (r.timer <=> table[i].timer) /\ r.deadline = table[i].deadline
      BY <1>1, <2>1, <3>1 DEF PulseOK
    <3>2. CASE r.timer /\ r.deadline = Deadline(r.rule)
      <4>1. r.rule.duration \in 0..(TickMod \div 2) /\ r.rule.mode = "pulse" /\ Valid(r.rule)
        BY <2>1, Places DEF Rule
      <4>2. r.rule.duration \in Int /\ 1 <= r.rule.duration
        BY <4>1, AutoSizes DEF Valid, Timed
      <4>3. Ahead(r.deadline, tick, r.rule.duration)
        BY <1>0, <3>2, <4>1, ArmedAhead DEF Deadline
      <4>4. Soonest(ctl', i) <= r.rule.duration
        BY <1>0, <4>2
      <4>5. r.rule.duration <= r.rule.duration
        BY <4>2
      <4> QED BY <3>2, <4>2, <4>3, <4>4, <4>5 DEF PulseOK
    <3> QED BY <1>3, <3>1, <3>2 DEF Touch
  <2> QED BY <1>1, <2>2, <2>3 DEF PulseInv
<1> QED BY <1>2, <1>3 DEF SoloTouched

(* The tick visits a rule: a pulse that is due ends, one that is not is at *)
(* least a tick ahead.                                                     *)
LEMMA PulseVisited ==
  ASSUME AutoTypes, ~ Shared, Solo, PulseInv, TickRule
  PROVE  PulseInv'
<1>0. /\ ctl.at = "tick" /\ ctl.i \in DOMAIN table /\ ctl.i \in Nat /\ tick' = tick /\ tick \in 0..(TickMod - 1)
      /\ ctl'.at = "tick" /\ ctl'.i = ctl.i + 1
  <2>1. ctl.at = "tick" /\ ctl' = After(ctl) /\ tick' = tick /\ Task(ctl) /\ ctl.todo = <<>>
        /\ tick \in 0..(TickMod - 1)
    BY DEF AutoTypes, TickRule, Solo
  <2>2. ctl.i \in DOMAIN table
    BY TimerVisit
  <2> QED BY <2>1, <2>2, WholeAfter
<1>1. PICK i \in DOMAIN table : i = ctl.i
  BY <1>0
<1>2. ASSUME NEW j \in DOMAIN table, j # i PROVE Soonest(ctl', j) = Soonest(ctl, j)
  <2>1. j \in Nat /\ (j >= ctl.i + 1 <=> j >= ctl.i)
    BY <1>0, <1>1, <1>2, Places
  <2> QED BY <1>0, <2>1 DEF Soonest
<1>3. Soonest(ctl, i) = 0 /\ Soonest(ctl', i) = 1
  <2>1. i \in Nat /\ i >= ctl.i /\ ~ (i >= ctl.i + 1)
    BY <1>0, <1>1
  <2> QED BY <1>0, <2>1 DEF Soonest
<1>4. PICK y \in Slot :
        /\ Put(i, y) /\ Touch(table[i], y)
        /\ \/ ~ y.timer /\ ~ y.pulse
           \/ /\ ~ (table[i].timer /\ Reached(table[i].deadline))
              /\ (y.pulse <=> table[i].pulse) /\ (y.timer <=> table[i].timer)
              /\ y.deadline = table[i].deadline
  BY <1>1, TimerVisit
<1>5. /\ DOMAIN table' = DOMAIN table /\ table'[i] = y /\ y.rule = table[i].rule
      /\ \A j \in DOMAIN table \ {i} : table'[j] = table[j]
  BY <1>4, TouchedTable DEF Touch
<1>6. PulseOK(y, tick, 1)
  <2> SUFFICES ASSUME y.pulse PROVE PulseOK(y, tick, 1)
    BY DEF PulseOK
  <2>1. table[i].pulse /\ (y.timer <=> table[i].timer) /\ y.deadline = table[i].deadline
        /\ ~ (table[i].timer /\ Reached(table[i].deadline))
    BY <1>4
  <2>2. table[i].timer /\ \E k \in Int : /\ 0 <= k /\ k <= table[i].rule.duration
                                         /\ Ahead(table[i].deadline, tick, k)
    BY <1>3, <2>1 DEF PulseInv, PulseOK
  <2>3. PICK k \in Int : 0 <= k /\ k <= table[i].rule.duration /\ Ahead(table[i].deadline, tick, k)
    BY <2>2
  <2>4. table[i].deadline \in 0..(TickMod - 1)
    BY Places DEF Slot
  <2>5. ~ ((tick - table[i].deadline) % TickMod < TickMod \div 2)
    BY <2>1, <2>2 DEF Reached
  <2>6. 1 <= k
    BY <1>0, <2>3, <2>4, <2>5, ReachedExact
  <2> QED BY <1>5, <2>1, <2>2, <2>3, <2>6 DEF PulseOK
<1>7. \A j \in DOMAIN table \ {i} : PulseOK(table[j], tick, Soonest(ctl', j))
  BY <1>2 DEF PulseInv
<1> QED BY <1>0, <1>3, <1>5, <1>6, <1>7 DEF PulseInv

(* A new tick: every rule is still to be visited.                          *)
LEMMA PulseTick ==
  ASSUME AutoTypes, PulseInv, TickBegin
  PROVE  PulseInv'
<1>1. ctl.at = "begin" /\ ctl'.at = "tick" /\ ctl'.i = 1 /\ tick' = (tick + 1) % TickMod /\ table' = table
      /\ tick \in 0..(TickMod - 1)
  BY RestFacts DEF TickBegin, AutoTypes
<1>2. ASSUME NEW j \in DOMAIN table
      PROVE  PulseOK(table[j], (tick + 1) % TickMod, Soonest(ctl', j))
  <2>1. j \in Nat \ {0} /\ table[j] \in Slot
    BY Places
  <2>2. Soonest(ctl, j) = 1 /\ Soonest(ctl', j) = 0
    BY <1>1, <2>1 DEF Soonest
  <2>3. PulseOK(table[j], tick, 1)
    BY <2>2 DEF PulseInv
  <2> QED BY <1>1, <2>1, <2>2, <2>3, TickNearer
<1> QED BY <1>1, <1>2 DEF PulseInv

(* Every step keeps the pulses.                                            *)
PulseAll == ~ Shared => PulseInv

LEMMA PulseStep == AutoInv /\ SoloInv /\ PulseAll /\ [Next]_vars => PulseAll'
<1>s. [Next]_vars => site' = site
  BY DEF Next, vars
<1> SUFFICES ASSUME AutoTypes, Solo, PulseInv, [Next]_vars, ~ Shared PROVE PulseInv'
  BY <1>s DEF SoloInv, PulseAll, AutoInv, Shared
<1>c. \A j \in DOMAIN table : Soonest(ctl, j) <= Soonest(ctl, j)
  BY DEF Soonest
<1>d. ctl.at # "tick" /\ ctl'.at # "tick" => \A j \in DOMAIN table : Soonest(ctl', j) <= Soonest(ctl, j)
  BY DEF Soonest
<1>r. \A at : Rest(at).at = at
  BY RestFacts
<1>t. table' = table => SoloTouched
  BY DEF SoloTouched
<1>0. Task(ctl) /\ ctl.todo = <<>>
  BY DEF AutoTypes, Solo
<1>1. CASE UNCHANGED vars
  BY <1>1 DEF vars, PulseInv
<1>2. ASSUME NEW in, NEW cmd, Scan(in, cmd) PROVE PulseInv'
  BY <1>2, <1>d, <1>r, <1>t, PulseTouched DEF Scan
<1>3. CASE TickEnd
  <2>1. ctl.at = "tick" /\ Over(ctl) /\ ctl'.at = "event" /\ table' = table /\ tick' = tick
    BY <1>3, <1>r DEF TickEnd
  <2>2. ctl.i \notin DOMAIN table /\ ctl.i \in Nat \ {0}
    BY <1>0, <2>1, WholeAfter
  <2>3. ASSUME NEW j \in DOMAIN table PROVE Soonest(ctl', j) <= Soonest(ctl, j)
    <3>1. ~ (j >= ctl.i)
      BY <2>2, Places
    <3> QED BY <2>1, <3>1 DEF Soonest
  <2> QED BY <1>t, <2>1, <2>3, PulseTouched
<1>4. CASE TakeEvent
  <2>1. ctl.at = "event" /\ table' = table /\ tick' = tick
    BY <1>4 DEF TakeEvent
  <2>2. ctl'.at # "tick"
    <3>1. \/ ctl' = Rest("scan")
          \/ ctl' = [Rest("trigger") EXCEPT !.ev = Head(queue)]
      BY <1>4 DEF TakeEvent
    <3>2. [Rest("trigger") EXCEPT !.ev = Head(queue)].at = "trigger"
      BY RestFacts
    <3> QED BY <1>r, <3>1, <3>2
  <2> QED BY <1>d, <1>t, <2>1, <2>2, PulseTouched
<1>5. CASE CtlHandle
  <2>1. ctl.at \in {"trigger", "guard"} /\ Visit(ctl) /\ ctl' = Handle(ctl, "scan") /\ tick' = tick
    BY <1>5 DEF CtlHandle
  <2>2. ctl'.at \in {"trigger", "guard", "scan"}
    BY <1>0, <2>1, HandleFacts
  <2>3. SoloTouched
    BY <1>0, <2>1, HandlerTouches
  <2> QED BY <1>d, <2>1, <2>2, <2>3, PulseTouched
<1>6. CASE Reset
  <2>1. nvs \in Seq(Entry) /\ table' = Load(nvs)
    BY <1>6 DEF Reset, AutoTypes
  <2>2. \A j \in DOMAIN table' : ~ table'[j].pulse
    BY <2>1, LoadGood
  <2> QED BY <2>2 DEF PulseInv, PulseOK
<1> QED BY <1>1, <1>2, <1>3, <1>4, <1>5, <1>6, SoloSteps, PulseTick, PulseVisited DEF Next

(* automation_engine_tick_1ms: where nobody edits the rules, an active     *)
(* pulse has an armed timer that is due at most its duration ahead, over   *)
(* wraps of the tick: automation_time_reached misses none, and the pulse   *)
(* ends.                                                                   *)
THEOREM PulsesEnd == Spec => [](~ Shared => PulseEnds)
<1>1. Init => PulseAll
  <2> SUFFICES ASSUME Init PROVE PulseInv
    BY DEF PulseAll
  <2>1. nvs \in Seq(Entry) /\ table = Load(nvs)
    BY AutoSizes DEF Init
  <2>2. \A j \in DOMAIN table : ~ table[j].pulse
    BY <2>1, LoadGood
  <2> QED BY <2>2 DEF PulseInv, PulseOK
<1>2. AutoInv /\ PulseAll => (~ Shared => PulseEnds)
  <2> SUFFICES ASSUME AutoTypes, PulseInv, NEW j \in DOMAIN table, table[j].pulse
               PROVE  /\ table[j].timer
                      /\ (table[j].deadline - tick) % TickMod \in 0..table[j].rule.duration
    BY DEF PulseEnds, AutoInv, PulseAll
  <2>1. table[j].timer /\ \E k \in Int : /\ Soonest(ctl, j) <= k /\ k <= table[j].rule.duration
                                         /\ Ahead(table[j].deadline, tick, k)
    BY DEF PulseInv, PulseOK
  <2>2. PICK k \in Int : /\ Soonest(ctl, j) <= k /\ k <= table[j].rule.duration
                         /\ Ahead(table[j].deadline, tick, k)
    BY <2>1
  <2>3. /\ table[j].deadline \in 0..(TickMod - 1) /\ table[j].rule.duration \in 0..(TickMod \div 2)
        /\ tick \in 0..(TickMod - 1)
    BY Places DEF Slot, Rule, AutoTypes
  <2>4. k \in Nat
    BY <2>2 DEF Soonest
  <2>5. (table[j].deadline - tick) % TickMod \in 0..table[j].rule.duration
    BY <2>2, <2>3, <2>4, AheadBounds
  <2> QED BY <2>1, <2>5
<1> QED BY AutoInit, AutoStep, SoloInit, SoloStep, PulseStep, <1>1, <1>2, PTL DEF Spec


-----------------------------------------------------------------------------
(* An event of the bus.                                                    *)
Ev == [src : Chan, data : Int]

(* SetToSeq lists every member of a finite set once.                       *)
LEMMA SetToSeqFacts ==
  ASSUME NEW S, IsFiniteSet(S)
  PROVE  /\ Cardinality(S) \in Nat
         /\ SetToSeq(S) \in [1..Cardinality(S) -> S]
         /\ \A c \in S : \E k \in 1..Cardinality(S) : SetToSeq(S)[k] = c
         /\ \A k, m \in 1..Cardinality(S) : SetToSeq(S)[k] = SetToSeq(S)[m] => k = m
<1> DEFINE n == Cardinality(S)
<1>1. n \in Nat /\ ExistsBijection(1..n, S)
  BY FS_CardinalityType
<1>2. \E f \in [1..n -> S] : IsInjective(f)
  BY <1>1 DEF ExistsBijection, Bijection, Injection, IsInjective
<1>3. SetToSeq(S) \in [1..n -> S] /\ IsInjective(SetToSeq(S))
  BY <1>2 DEF SetToSeq
<1> DEFINE f == SetToSeq(S)
<1>4. f \in Injection(1..n, S)
  BY <1>3 DEF Injection, IsInjective
<1>5. IsFiniteSet(1..n) /\ Cardinality(1..n) = n
  BY <1>1, FS_Interval
<1>6. f \in Surjection(1..n, S)
  BY <1>4, <1>5, FS_Injection
<1>7. \A c \in S : \E k \in 1..n : f[k] = c
  BY <1>6 DEF Surjection
<1>8. \A k, m \in 1..n : f[k] = f[m] => k = m
  <2>1. DOMAIN f = 1..n
    BY <1>3
  <2> QED BY <1>3, <2>1, Zenon DEF IsInjective
<1> QED BY <1>1, <1>3, <1>7, <1>8

(* The smaller of two numbers.                                             *)
LEMMA MinOfTwo ==
  ASSUME NEW a \in Int, NEW b \in Int
  PROVE  Min({a, b}) = IF a <= b THEN a ELSE b
<1> DEFINE s == IF a <= b THEN a ELSE b
<1>1. s \in {a, b} /\ \A y \in {a, b} : s <= y
  OBVIOUS
<1>2. Min({a, b}) \in {a, b} /\ \A y \in {a, b} : Min({a, b}) <= y
  BY <1>1 DEF Min
<1> QED BY <1>1, <1>2

(* The values and the bus.                                                 *)
BusTypes ==
  /\ state \in [Chan -> Int] /\ \A o \in Output : state[o] \in {0, 1}
  /\ queue \in Seq(Ev) /\ missed \in BOOLEAN

(* The newest event of the channel c in the queue q carries the value v.   *)
Newest(q, c, v) ==
  \E k \in DOMAIN q : /\ q[k].src = c /\ q[k].data = v
                      /\ \A m \in DOMAIN q : m > k => q[m].src # c

(* A step that writes channels: unless an event is dropped, the queue      *)
(* grows by one event for each channel that changes and by no other.       *)
Grows ==
  /\ BusTypes'
  /\ stirred' = stirred \cup {c \in Chan : state'[c] # state[c]}
  /\ ~ missed' =>
       /\ ~ missed
       /\ Len(queue) <= Len(queue')
       /\ \A k \in DOMAIN queue : queue'[k] = queue[k]
       /\ \A c \in Chan : state'[c] # state[c] => Newest(queue', c, state'[c])
       /\ \A c \in Chan : state'[c] = state[c] =>
            \A m \in DOMAIN queue' : m > Len(queue) => queue'[m].src # c

(* Nothing written is a special case.                                      *)
LEMMA KeepGrows ==
  ASSUME BusTypes, Keep
  PROVE  Grows
<1>1. state' = state /\ queue' = queue /\ missed' = missed /\ stirred' = stirred /\ queue \in Seq(Ev)
  BY DEF Keep, BusTypes
<1>2. Len(queue) \in Nat /\ DOMAIN queue = 1..Len(queue)
  BY <1>1
<1>3. stirred' = stirred \cup {c \in Chan : state'[c] # state[c]}
  BY <1>1
<1> QED BY <1>1, <1>2, <1>3 DEF Grows, BusTypes

(* state_set_int.                                                          *)
LEMMA SetGrows ==
  ASSUME BusTypes, NEW new, DOMAIN new \subseteq Chan, IsFiniteSet(DOMAIN new),
         \A c \in DOMAIN new : new[c] \in Int /\ (c \in Output => new[c] \in {0, 1}), Set(new)
  PROVE  /\ Grows
         /\ \A c \in Chan : state'[c] = IF c \in DOMAIN new THEN new[c] ELSE state[c]
<1> DEFINE S == {c \in DOMAIN new : new[c] # state[c]}
           f == SetToSeq(S)
           n == Cardinality(S)
           events == [k \in DOMAIN f |-> [src |-> f[k], data |-> new[f[k]]]]
           all == queue \o events
<1>1. IsFiniteSet(S)
  BY FS_Subset
<1>2. /\ n \in Nat /\ f \in [1..n -> S]
      /\ \A c \in S : \E k \in 1..n : f[k] = c
      /\ \A k, m \in 1..n : f[k] = f[m] => k = m
  BY <1>1, SetToSeqFacts
<1>3. /\ state' = [c \in Chan |-> IF c \in DOMAIN new THEN new[c] ELSE state[c]]
      /\ queue' = SubSeq(all, 1, Min({Len(all), QueueLen}))
      /\ missed' = (missed \/ Len(all) > QueueLen)
      /\ stirred' = stirred \cup S
  BY DEF Set
<1> HIDE DEF f, n
<1>4. /\ \A c \in Chan : state'[c] = IF c \in DOMAIN new THEN new[c] ELSE state[c]
      /\ state' \in [Chan -> Int]
      /\ state \in [Chan -> Int] /\ queue \in Seq(Ev) /\ missed \in BOOLEAN
  BY <1>3 DEF BusTypes
<1>5. \A c \in Chan : state'[c] # state[c] <=> c \in S
  BY <1>4
<1>6. DOMAIN f = 1..n /\ \A k \in 1..n : f[k] \in S /\ f[k] \in DOMAIN new /\ f[k] \in Chan /\ new[f[k]] \in Int
  BY <1>2
<1>7. events \in Seq(Ev) /\ Len(events) = n /\ \A k \in 1..n : events[k].src = f[k] /\ events[k].data = new[f[k]]
  <2>1. events \in [1..n -> Ev] /\ \A k \in 1..n : events[k].src = f[k] /\ events[k].data = new[f[k]]
    BY <1>6 DEF Ev
  <2> QED BY <1>2, <2>1
<1> HIDE DEF events, S
<1>8. PICK L \in Nat : L = Len(queue)
  BY <1>4
<1>9. /\ all \in Seq(Ev) /\ Len(all) = L + n
      /\ \A k \in 1..(L + n) : all[k] = IF k <= L THEN queue[k] ELSE events[k - L]
  <2>1. /\ all \in Seq(Ev) /\ Len(all) = Len(queue) + Len(events)
        /\ \A k \in 1..(Len(queue) + Len(events)) :
             all[k] = IF k <= Len(queue) THEN queue[k] ELSE events[k - Len(queue)]
    BY <1>4, <1>7, ConcatProperties
  <2> QED BY <1>7, <1>8, <2>1
<1> HIDE DEF all
<1>10. QueueLen \in Nat
  BY AutomationAssumption
<1>11. Min({Len(all), QueueLen}) = IF Len(all) <= QueueLen THEN Len(all) ELSE QueueLen
  BY <1>2, <1>8, <1>9, <1>10, MinOfTwo
<1>12. queue' \in Seq(Ev)
  <2>1. PICK m \in Nat : m = Min({Len(all), QueueLen}) /\ m <= Len(all)
    BY <1>2, <1>8, <1>9, <1>10, <1>11
  <2>2. SubSeq(all, 1, m) \in Seq(Ev)
    <3>1. \A i \in 1..m : all[i] \in Ev
      BY <1>9, <2>1
    <3>2. 1 \in Int /\ m \in Int
      BY <2>1
    <3> QED BY <3>1, <3>2, SubSeqProperties, Zenon
  <2> QED BY <1>3, <2>1, <2>2
<1>13. ASSUME ~ missed'
       PROVE  /\ ~ missed
              /\ Len(queue) <= Len(queue')
              /\ \A k \in DOMAIN queue : queue'[k] = queue[k]
              /\ \A c \in Chan : state'[c] # state[c] => Newest(queue', c, state'[c])
              /\ \A c \in Chan : state'[c] = state[c] =>
                   \A m \in DOMAIN queue' : m > Len(queue) => queue'[m].src # c
  <2>1. ~ missed /\ Len(all) <= QueueLen
    <3>1. ~ (missed \/ Len(all) > QueueLen)
      BY <1>3, <1>13, Zenon
    <3>2. Len(all) \in Nat
      BY <1>9
    <3> QED BY <1>10, <3>1, <3>2
  <2>2. queue' = SubSeq(all, 1, Len(all))
    BY <1>3, <1>11, <2>1
  <2>3. queue' = all /\ DOMAIN queue' = 1..(L + n)
    BY <1>9, <2>2
  <2>4. \A k \in DOMAIN queue : queue'[k] = queue[k]
    <3>1. DOMAIN queue = 1..L
      BY <1>4, <1>8
    <3> QED BY <1>2, <1>9, <2>3, <3>1
  <2>5. ASSUME NEW m \in DOMAIN queue', m > L
        PROVE  m - L \in 1..n /\ queue'[m].src = f[m - L] /\ queue'[m].data = new[f[m - L]]
    <3>1. m - L \in 1..n /\ ~ (m <= L) /\ m \in 1..(L + n)
      BY <1>2, <2>3, <2>5
    <3>2. queue'[m] = events[m - L]
      BY <1>9, <2>3, <3>1
    <3> QED BY <1>7, <3>1, <3>2
  <2>6. ASSUME NEW c \in Chan, state'[c] # state[c] PROVE Newest(queue', c, state'[c])
    <3>1. PICK k \in 1..n : f[k] = c
      BY <1>2, <1>5, <2>6
    <3>2. k + L \in DOMAIN queue' /\ k + L > L /\ (k + L) - L = k
      BY <1>2, <2>3
    <3>3. queue'[k + L].src = c /\ queue'[k + L].data = new[c]
      BY <2>5, <3>1, <3>2
    <3>4. new[c] = state'[c]
      BY <1>4, <1>6, <3>1
    <3>5. ASSUME NEW m \in DOMAIN queue', m > k + L PROVE queue'[m].src # c
      <4>1. m > L /\ m - L # k
        BY <1>2, <2>3, <3>5
      <4>2. m - L \in 1..n /\ queue'[m].src = f[m - L]
        BY <2>5, <4>1
      <4> QED BY <1>2, <3>1, <4>1, <4>2
    <3> QED BY <3>2, <3>3, <3>4, <3>5 DEF Newest
  <2>7. ASSUME NEW c \in Chan, state'[c] = state[c], NEW m \in DOMAIN queue', m > L
        PROVE  queue'[m].src # c
    BY <1>5, <1>6, <2>5, <2>7
  <2>8. L <= Len(queue')
    BY <1>2, <1>9, <2>3
  <2> QED BY <1>8, <2>1, <2>4, <2>6, <2>7, <2>8
<1>14. missed' \in BOOLEAN
  BY <1>3, <1>4
<1>15. \A o \in Output : state'[o] \in {0, 1}
  <2>1. \A o \in Output : o \in Chan /\ state[o] \in {0, 1}
    BY DEF Chan, BusTypes
  <2> QED BY <1>4, <2>1
<1>16. stirred' = stirred \cup {c \in Chan : state'[c] # state[c]}
  <2>1. S \subseteq Chan
    BY DEF S
  <2>2. S = {c \in Chan : state'[c] # state[c]}
    BY <1>5, <2>1
  <2> QED BY <1>3, <2>2
<1> QED BY <1>4, <1>12, <1>13, <1>14, <1>15, <1>16 DEF Grows, BusTypes


-----------------------------------------------------------------------------
(* A step writes at most the output of the rule x, and switches it on only *)
(* for a condition that its interlock permits, with the value it has when  *)
(* its condition is false, or at the end of an ON_DELAY.                   *)
Drives(x) ==
  LET o == x.rule.output
  IN  /\ Grows
      /\ \A c \in Chan \ {o} : state'[c] = state[c]
      /\ o \in site.blocked => state'[o] = state[o]
      /\ state[o] = 0 /\ state'[o] # 0 =>
           \/ x.rule.mode # "force_off" /\ Permits(x.ilk, state)
           \/ ~ IsForce(x.rule.mode) /\ x.rule.onFalse # 0
           \/ x.rule.mode = "on_delay"

(* What a rule writes lies in its type.                                    *)
LEMMA RuleFacts ==
  ASSUME NEW x \in Slot
  PROVE  /\ x.rule \in Rule /\ x.ilk \in Ilk /\ x.rule.op \in Op /\ x.rule.mode \in Mode
         /\ x.rule.input \in Input /\ x.rule.output \in Output
         /\ x.rule.input \in Chan /\ x.rule.output \in Chan
         /\ x.rule.onTrue \in {0, 1} /\ x.rule.onFalse \in {0, 1}
BY DEF Slot, Rule, Chan

(* A visit that writes nothing.                                            *)
LEMMA KeepDrives ==
  ASSUME BusTypes, Keep, NEW x \in Slot
  PROVE  Drives(x) /\ state' = state
<1>1. Grows /\ state' = state
  BY KeepGrows DEF Keep
<1> QED BY <1>1 DEF Drives

(* automation_dispatch_output.                                             *)
LEMMA DispatchGrows ==
  ASSUME BusTypes, NEW o \in Output, NEW v \in {0, 1}, Dispatch(o, v)
  PROVE  /\ Grows
         /\ \A c \in Chan \ {o} : state'[c] = state[c]
         /\ o \in site.blocked => state'[o] = state[o]
         /\ o \notin site.blocked => state'[o] = v
<1>0. o \in Chan
  BY DEF Chan
<1>1. CASE o \in site.blocked
  <2>1. Keep
    BY <1>1 DEF Dispatch
  <2>2. Grows /\ state' = state
    BY <2>1, KeepGrows DEF Keep
  <2> QED BY <1>1, <2>2
<1>2. CASE o \notin site.blocked
  <2> DEFINE new == [c \in {o} |-> v]
  <2>1. Set(new)
    BY <1>2 DEF Dispatch
  <2>2. /\ DOMAIN new = {o} /\ DOMAIN new \subseteq Chan /\ new[o] = v
        /\ \A c \in DOMAIN new : new[c] \in Int /\ (c \in Output => new[c] \in {0, 1})
    BY <1>0
  <2> HIDE DEF new
  <2>3. IsFiniteSet(DOMAIN new)
    BY <2>2, FS_Singleton
  <2>4. /\ Grows
        /\ \A c \in Chan : state'[c] = IF c \in DOMAIN new THEN new[c] ELSE state[c]
    BY <2>1, <2>2, <2>3, SetGrows
  <2> QED BY <1>0, <1>2, <2>2, <2>4
<1> QED BY <1>1, <1>2

(* A rule that applies one of its values.                                  *)
LEMMA ApplyDrives ==
  ASSUME BusTypes, NEW x \in Slot, NEW c \in BOOLEAN, Apply(x.rule, c),
         c => \/ x.rule.mode # "force_off" /\ Permits(x.ilk, state)
              \/ x.rule.mode = "on_delay",
         ~ IsForce(x.rule.mode)
  PROVE  /\ Drives(x)
         /\ x.rule.output \notin site.blocked =>
              state'[x.rule.output] = IF c THEN x.rule.onTrue ELSE x.rule.onFalse
<1> DEFINE o == x.rule.output
           v == IF c THEN x.rule.onTrue ELSE x.rule.onFalse
<1>1. o \in Output /\ v \in {0, 1}
  BY RuleFacts
<1>2. Dispatch(o, v)
  BY DEF Apply
<1>3. /\ Grows
      /\ \A d \in Chan \ {o} : state'[d] = state[d]
      /\ o \in site.blocked => state'[o] = state[o]
      /\ o \notin site.blocked => state'[o] = v
  BY <1>1, <1>2, DispatchGrows
<1>4. \/ ~ c
      \/ x.rule.mode # "force_off" /\ Permits(x.ilk, state)
      \/ x.rule.mode = "on_delay"
  OBVIOUS
<1>5. state[o] = 0 /\ state'[o] # 0 /\ ~ c => x.rule.onFalse # 0
  BY <1>3
<1> QED BY <1>3, <1>4, <1>5 DEF Drives

(* A rule that commands its output for a condition that is permitted.      *)
LEMMA DispatchDrives ==
  ASSUME BusTypes, NEW x \in Slot, NEW v \in {0, 1}, Dispatch(x.rule.output, v),
         v = 0 \/ (x.rule.mode # "force_off" /\ Permits(x.ilk, state))
  PROVE  Drives(x)
<1>1. x.rule.output \in Output
  BY RuleFacts
<1>2. /\ Grows
      /\ \A d \in Chan \ {x.rule.output} : state'[d] = state[d]
      /\ x.rule.output \in site.blocked => state'[x.rule.output] = state[x.rule.output]
      /\ x.rule.output \notin site.blocked => state'[x.rule.output] = v
  BY <1>1, DispatchGrows
<1> QED BY <1>2 DEF Drives

(* What the acts of the trigger half command.                              *)
LEMMA ReactDrives ==
  ASSUME BusTypes, NEW x \in Slot, NEW v \in {"true", "false"}, NEW c \in {"low", "high", "rise"},
         NEW A, Reacts(x, c, A), Commanded(x.rule, {v, c} \cup A)
  PROVE  /\ Drives(x)
         /\ x.rule.mode = "follow" /\ ~ x.ilk.enabled /\ x.rule.output \notin site.blocked
            => state'[x.rule.output] = IF c # "low" THEN x.rule.onTrue ELSE x.rule.onFalse
<1> DEFINE mode == x.rule.mode
           B == {v, c} \cup A
           Goal == /\ Drives(x)
                   /\ mode = "follow" /\ ~ x.ilk.enabled /\ x.rule.output \notin site.blocked
                      => state'[x.rule.output] = IF c # "low" THEN x.rule.onTrue ELSE x.rule.onFalse
<1>1. ~ x.ilk.enabled => Permits(x.ilk, state)
  BY DEF Permits
<1>2. Refused(x, c) <=> c # "low" /\ ~ Permits(x.ilk, state)
  BY DEF Refused
<1>3. B \cap {"on", "off", "toggle", "force_on", "force_off"}
        = A \cap {"on", "off", "toggle", "force_on", "force_off"}
  OBVIOUS
<1>c. Commanded(x.rule, B)
  OBVIOUS
<1> SUFFICES Goal
  OBVIOUS
<1> HIDE DEF B
<1>4. CASE A = {} /\ (Refused(x, c) \/ mode \notin {"follow", "on_delay"})
  <2>1. Keep
    BY <1>3, <1>4, <1>c DEF Commanded
  <2>2. Drives(x) /\ ~ (mode = "follow" /\ ~ x.ilk.enabled)
    BY <1>1, <1>2, <1>4, <2>1, KeepDrives
  <2> QED BY <2>2
<1>5. CASE ~ Refused(x, c) /\ mode = "follow" /\ c = "low" /\ A = {"off", "stop", "end"}
  <2>1. Apply(x.rule, FALSE)
    BY <1>3, <1>5, <1>c DEF Commanded
  <2> QED BY <1>5, <2>1, ApplyDrives DEF IsForce
<1>6. CASE ~ Refused(x, c) /\ mode = "follow" /\ c # "low" /\ A = {"on", "stop", "end"}
  <2>1. Apply(x.rule, TRUE)
    BY <1>3, <1>6, <1>c DEF Commanded
  <2> QED BY <1>2, <1>6, <2>1, ApplyDrives DEF IsForce
<1>7. CASE /\ ~ Refused(x, c) /\ c # "low" /\ mode \in {"pulse", "off_delay"}
           /\ A \in {{"on", "pulse", "start", "due"}, {"stop", "on"}}
  <2>1. Apply(x.rule, TRUE)
    BY <1>3, <1>7, <1>c DEF Commanded
  <2> QED BY <1>2, <1>7, <2>1, ApplyDrives DEF IsForce
<1>8. CASE mode = "on_delay" /\ A \in {{"start", "due", "off"}, {"stop", "off"}}
  <2>0. "on" \notin B /\ "off" \in B
    BY <1>8 DEF B
  <2>1. Apply(x.rule, FALSE)
    BY <2>0, <1>c, Zenon DEF Commanded
  <2> QED BY <1>8, <2>1, ApplyDrives DEF IsForce
<1>9. CASE mode = "off_delay" /\ A = {"start", "due"}
  <2>1. Keep
    BY <1>3, <1>9, <1>c DEF Commanded
  <2> QED BY <1>9, <2>1, KeepDrives
<1>10. CASE ~ Refused(x, c) /\ c # "low" /\ mode = "toggle" /\ A = {"toggle"}
  <2>1. Dispatch(x.rule.output, IF state[x.rule.output] = 0 THEN 1 ELSE 0)
    BY <1>3, <1>10, <1>c DEF Commanded
  <2>2. PICK w \in {0, 1} : w = IF state[x.rule.output] = 0 THEN 1 ELSE 0
    OBVIOUS
  <2>3. Drives(x)
    BY <1>2, <1>10, <2>1, <2>2, DispatchDrives
  <2> QED BY <1>10, <2>3
<1>11. CASE ~ Refused(x, c) /\ c # "low" /\ mode = "force_on" /\ A = {"force_on"}
  <2>1. Dispatch(x.rule.output, 1)
    BY <1>3, <1>11, <1>c DEF Commanded
  <2>2. Drives(x)
    BY <1>2, <1>11, <2>1, DispatchDrives
  <2> QED BY <1>11, <2>2
<1>12. CASE mode = "force_off" /\ A = {"force_off"}
  <2>1. Dispatch(x.rule.output, 0)
    BY <1>3, <1>12, <1>c DEF Commanded
  <2>2. PICK w \in {0, 1} : w = 0
    OBVIOUS
  <2>3. Drives(x)
    BY <2>1, <2>2, DispatchDrives
  <2> QED BY <1>12, <2>3
<1> QED BY <1>4, <1>5, <1>6, <1>7, <1>8, <1>9, <1>10, <1>11, <1>12 DEF Reacts

(* The end of a timer.                                                     *)
LEMMA EndDrives ==
  ASSUME BusTypes, NEW x \in Slot, NEW A, Ends(x, A), Commanded(x.rule, {"stop", "expired"} \cup A)
  PROVE  Drives(x) /\ (x.rule.mode = "follow" => state' = state)
<1> DEFINE B == {"stop", "expired"} \cup A
<1>0. Commanded(x.rule, B)
  OBVIOUS
<1>a. \/ B \cap {"on", "off", "toggle", "force_on", "force_off"} = {}
      \/ x.rule.mode \in {"pulse", "off_delay"} /\ "on" \notin B /\ "off" \in B
      \/ x.rule.mode = "on_delay" /\ "on" \in B
  BY DEF Ends
<1> HIDE DEF B
<1>1. \/ x.rule.mode \in {"pulse", "off_delay"} /\ Apply(x.rule, FALSE)
      \/ x.rule.mode = "on_delay" /\ Apply(x.rule, TRUE)
      \/ Keep
  BY <1>0, <1>a, Zenon DEF Commanded
<1>2. CASE x.rule.mode \in {"pulse", "off_delay"} /\ Apply(x.rule, FALSE)
  BY <1>2, ApplyDrives DEF IsForce
<1>3. CASE x.rule.mode = "on_delay" /\ Apply(x.rule, TRUE)
  BY <1>3, ApplyDrives DEF IsForce
<1>4. CASE Keep
  BY <1>4, KeepDrives
<1> QED BY <1>1, <1>2, <1>3, <1>4

(* The guard half acts on outputs that are on.                             *)
LEMMA TripDrives ==
  ASSUME BusTypes, NEW x \in Slot, NEW ev, Trips(x, ev), Commanded(x.rule, {"stop", "end", "off"})
  PROVE  /\ Drives(x)
         /\ x.rule.output \notin site.blocked => state'[x.rule.output] = x.rule.onFalse
<1>1. Dispatch(x.rule.output, x.rule.onFalse)
  BY DEF Commanded, Apply
<1>2. state[x.rule.output] # 0
  BY DEF Trips
<1>3. x.rule.output \in Output /\ x.rule.onFalse \in {0, 1}
  BY RuleFacts
<1>4. /\ Grows
      /\ \A d \in Chan \ {x.rule.output} : state'[d] = state[d]
      /\ x.rule.output \in site.blocked => state'[x.rule.output] = state[x.rule.output]
      /\ x.rule.output \notin site.blocked => state'[x.rule.output] = x.rule.onFalse
  BY <1>1, <1>3, DispatchGrows
<1> QED BY <1>2, <1>4 DEF Drives

(* A visit of the control loop: what it does to the output of a rule.      *)
LEMMA VisitDrives ==
  ASSUME AutoTypes, BusTypes, ~ Shared, ctl.todo = <<>>, ctl.at \in {"tick", "trigger", "guard"},
         NEW i \in DOMAIN table, i = ctl.i, Visit(ctl), NEW x \in Slot, x = table[i]
  PROVE  /\ Drives(x)
         /\ ctl.at = "guard" /\ Trips(x, ctl.ev) /\ x.rule.output \notin site.blocked =>
              state'[x.rule.output] = x.rule.onFalse
         /\ x.rule.mode = "follow" /\ ~ x.ilk.enabled /\ x.rule.output \notin site.blocked =>
              \/ state' = state /\ ~ (ctl.at = "trigger" /\ ctl.ev.src = x.rule.input)
              \/ /\ ctl.at = "trigger" /\ ctl.ev.src = x.rule.input
                 /\ state'[x.rule.output] =
                      IF Holds(x.rule, ctl.ev.data) THEN x.rule.onTrue ELSE x.rule.onFalse
<1> DEFINE Plainly == \/ state' = state /\ ~ (ctl.at = "trigger" /\ ctl.ev.src = x.rule.input)
                      \/ /\ ctl.at = "trigger" /\ ctl.ev.src = x.rule.input
                         /\ state'[x.rule.output] =
                              IF Holds(x.rule, ctl.ev.data) THEN x.rule.onTrue ELSE x.rule.onFalse
           Free == x.rule.mode = "follow" /\ ~ x.ilk.enabled /\ x.rule.output \notin site.blocked
<1>1. \/ /\ Do(i, <<>>)
         /\ ctl.at = "trigger" => x.rule.input # ctl.ev.src
         /\ ctl.at = "guard" => ~ Trips(x, ctl.ev)
      \/ ctl.at = "tick" /\ Do(i, <<"stop", "expired">> \o Expired(x))
      \/ /\ ctl.at = "trigger" /\ x.rule.input = ctl.ev.src
         /\ \E v \in {"true", "false"}, c \in {"low", "high", "rise"} :
              (c = "low" <=> ~ Holds(x.rule, ctl.ev.data)) /\ Do(i, <<v, c>> \o Triggered(x, c))
      \/ ctl.at = "guard" /\ Trips(x, ctl.ev) /\ Do(i, <<"stop", "end", "off">>)
  BY WholeVisit
<1>2. CASE Do(i, <<>>) /\ (ctl.at = "trigger" => x.rule.input # ctl.ev.src) /\ (ctl.at = "guard" => ~ Trips(x, ctl.ev))
  <2>1. Acts(<<>>) = {}
    BY ActsTuple
  <2>2. Commanded(x.rule, {})
    BY <1>2, <2>1, DoActs
  <2>3. Keep
    BY <2>2 DEF Commanded
  <2> QED BY <1>2, <2>3, KeepDrives
<1>3. CASE ctl.at = "tick" /\ Do(i, <<"stop", "expired">> \o Expired(x))
  <2>1. Expired(x) \in Seq(Word) /\ Ends(x, Acts(Expired(x)))
    BY ExpiredActs
  <2>2. "stop" \in Word /\ "expired" \in Word
    BY DEF Word
  <2>3. Acts(<<"stop", "expired">> \o Expired(x)) = {"stop", "expired"} \cup Acts(Expired(x))
    BY <2>1, <2>2, ActsJoin
  <2>4. Commanded(x.rule, {"stop", "expired"} \cup Acts(Expired(x)))
    BY <1>3, <2>3, DoActs
  <2>5. Drives(x) /\ (x.rule.mode = "follow" => state' = state)
    BY <2>1, <2>4, EndDrives
  <2> QED BY <1>3, <2>5
<1>4. ASSUME ctl.at = "trigger", x.rule.input = ctl.ev.src,
             NEW v \in {"true", "false"}, NEW c \in {"low", "high", "rise"},
             c = "low" <=> ~ Holds(x.rule, ctl.ev.data), Do(i, <<v, c>> \o Triggered(x, c))
      PROVE  Drives(x) /\ (Free => Plainly)
  <2>1. Triggered(x, c) \in Seq(Word) /\ Reacts(x, c, Acts(Triggered(x, c)))
    BY TriggeredActs
  <2>2. v \in Word /\ c \in Word
    BY DEF Word
  <2>3. Acts(<<v, c>> \o Triggered(x, c)) = {v, c} \cup Acts(Triggered(x, c))
    BY <2>1, <2>2, ActsJoin
  <2>4. Commanded(x.rule, {v, c} \cup Acts(Triggered(x, c)))
    BY <1>4, <2>3, DoActs
  <2>5. /\ Drives(x)
        /\ Free => state'[x.rule.output] = IF c # "low" THEN x.rule.onTrue ELSE x.rule.onFalse
    BY <2>1, <2>4, ReactDrives
  <2> QED BY <1>4, <2>5
<1>5. CASE ctl.at = "guard" /\ Trips(x, ctl.ev) /\ Do(i, <<"stop", "end", "off">>)
  <2>1. "stop" \in Word /\ "end" \in Word /\ "off" \in Word
    BY DEF Word
  <2>2. Acts(<<"stop", "end", "off">>) = {"stop", "end", "off"}
    BY <2>1, ActsTuple
  <2>3. Commanded(x.rule, {"stop", "end", "off"})
    BY <1>5, <2>2, DoActs
  <2>4. Drives(x) /\ (x.rule.output \notin site.blocked => state'[x.rule.output] = x.rule.onFalse)
    BY <1>5, <2>3, TripDrives
  <2>5. x.ilk.enabled
    BY <1>5 DEF Trips
  <2> QED BY <1>5, <2>4, <2>5
<1> QED BY <1>1, <1>2, <1>3, <1>4, <1>5

(* scheduler_run_io without commands writes inputs only.                   *)
LEMMA ScanGrows ==
  ASSUME AutoTypes, BusTypes, ~ site.manual,
         NEW in \in [site.wired -> InVal], NEW cmd \in Commands, Scan(in, cmd)
  PROVE  Grows /\ \A o \in Output : state'[o] = state[o]
<1>1. cmd = <<>>
  BY DEF Commands
<1>2. site.wired \subseteq Input /\ IsFiniteSet(Input) /\ InVal \subseteq Int /\ Input \cap Output = {}
  BY AutomationAssumption DEF AutoTypes
<1> DEFINE new == [c \in DOMAIN in \cup DOMAIN cmd |-> IF c \in DOMAIN in THEN in[c] ELSE cmd[c]]
<1>3. Set(new)
  BY DEF Scan
<1>4. DOMAIN new = site.wired /\ \A c \in site.wired : new[c] = in[c]
  <2>1. DOMAIN cmd = {}
    BY <1>1
  <2> QED BY <2>1
<1> HIDE DEF new
<1>5. IsFiniteSet(DOMAIN new) /\ DOMAIN new \subseteq Chan /\ \A c \in DOMAIN new : new[c] \in Int /\ c \notin Output
  BY <1>2, <1>4, FS_Subset DEF Chan
<1>6. Grows /\ \A c \in Chan : state'[c] = IF c \in DOMAIN new THEN new[c] ELSE state[c]
  BY <1>3, <1>5, SetGrows
<1>7. \A o \in Output : o \in Chan /\ o \notin DOMAIN new
  BY <1>2, <1>4 DEF Chan
<1> QED BY <1>6, <1>7

(* The channels as a start leaves them.                                    *)
LEMMA StartTypes ==
  ASSUME site \in Sites, NEW st \in Starts
  PROVE  st \in [Chan -> Int] /\ \A o \in Output : st[o] \in {0, 1}
<1>1. site.wired \subseteq Input /\ InVal \subseteq Int /\ Input \cap Output = {}
  BY AutomationAssumption
<1>2. st \in [Chan -> InVal \cup {0, 1}]
  BY DEF Starts
<1>3. \A o \in Output : o \in Chan /\ o \notin site.wired
  BY <1>1 DEF Chan
<1>4. \A c \in Chan : st[c] \in IF c \in site.wired THEN InVal ELSE IF c \in site.restored THEN {0, 1} ELSE {0}
  BY DEF Starts
<1>5. \A o \in Output : st[o] \in {0, 1}
  BY <1>3, <1>4
<1>6. st \in [Chan -> Int]
  <2>1. InVal \cup {0, 1} \subseteq Int
    BY <1>1
  <2> QED BY <1>2, <2>1, Zenon
<1> QED BY <1>5, <1>6

-----------------------------------------------------------------------------
(* The entries an installation holds where nobody edits.                   *)
Installed(s) == {s.load[k] : k \in DOMAIN s.load}

(* An interlock that automation_event_handler can enforce on an output.    *)
Watched(s, e) ==
  /\ e.ilk.enabled /\ e.ilk.conds # <<>>
  /\ e.rule.onFalse = 0 /\ e.rule.output \notin s.blocked

(* An installation whose interlocks hold: rules are not edited, outputs    *)
(* are not commanded by hand, and the rules of a watched output are not    *)
(* ON_DELAY and share its interlock, unless they only switch off.          *)
Guarded(s) ==
  /\ s.requests = {} /\ ~ s.deletes /\ ~ s.manual
  /\ \A e, f \in Installed(s) :
       Watched(s, e) /\ f.rule.output = e.rule.output =>
         /\ f.rule.mode # "on_delay"
         /\ f.ilk = e.ilk \/ f.rule.mode = "force_off"

(* Where rules come from.                                                  *)
Sources(t) ==
  \A j \in DOMAIN t : [rule |-> t[j].rule, ilk |-> t[j].ilk] \in Installed(site)
Origin == Sources(table) /\ Sources(nvs)

(* The output of the rule at j is on and not permitted though it or its    *)
(* interlock has changed; an event that will make the guard look at it is  *)
(* in the bus, or in the hands of the control loop.                        *)
Forbidden(j) ==
  /\ state[table[j].rule.output] # 0
  /\ table[j].rule.onFalse = 0 /\ table[j].rule.output \notin site.blocked
  /\ Stirred(table[j])
  /\ ~ Permits(table[j].ilk, state)
Names(ilk, c) == \E k \in DOMAIN ilk.conds : ilk.conds[k].chan = c
Queued(j) == \E k \in DOMAIN queue : Names(table[j].ilk, queue[k].src)
Handled(j) ==
  /\ Names(table[j].ilk, ctl.ev.src)
  /\ \/ ctl.at = "trigger"
     \/ ctl.at = "guard" /\ ctl.i <= j
GuardInv == ~ missed => \A j \in DOMAIN table : Forbidden(j) => Queued(j) \/ Handled(j)

(* Rules that stay have the sources they had.                              *)
LEMMA SourcesSame ==
  ASSUME Sources(table), SameRules, site' = site
  PROVE  Sources(table)'
BY DEF Sources, SameRules, Installed

(* An interlock permits the same in two states that agree on its channels. *)
LEMMA PermitsSame ==
  ASSUME NEW ilk \in Ilk, NEW s, NEW t, \A c \in Chan : Names(ilk, c) => s[c] = t[c]
  PROVE  Permits(ilk, s) <=> Permits(ilk, t)
<1>1. \A k \in DOMAIN ilk.conds : s[ilk.conds[k].chan] = t[ilk.conds[k].chan]
  <2>1. \A k \in DOMAIN ilk.conds : ilk.conds[k].chan \in Chan
    <3>1. ilk.conds \in Seq(Cond)
      BY DEF Ilk
    <3>2. \A k \in DOMAIN ilk.conds : ilk.conds[k] \in Cond
      BY <3>1
    <3> QED BY <3>2 DEF Cond
  <2> QED BY <2>1 DEF Names
<1>2. {k \in DOMAIN ilk.conds : Compare(ilk.conds[k].op, s[ilk.conds[k].chan], ilk.conds[k].target)}
      = {k \in DOMAIN ilk.conds : Compare(ilk.conds[k].op, t[ilk.conds[k].chan], ilk.conds[k].target)}
  BY <1>1
<1> QED BY <1>2 DEF Permits

(* An output that is forbidden after a step was forbidden before, or one   *)
(* of the channels of its interlock has changed and is in the bus.         *)
LEMMA ForbiddenBefore ==
  ASSUME AutoTypes, BusTypes, Grows, ~ missed', SameRules, site' = site,
         NEW j \in DOMAIN table, Forbidden(j)',
         state[table[j].rule.output] # 0 \/ Permits(table[j].ilk, state)
  PROVE  Queued(j)' \/ Forbidden(j)
<1> DEFINE o == table[j].rule.output
<1>1. table[j] \in Slot
  BY DEF AutoTypes
<1>2. table[j].ilk \in Ilk /\ o \in Output /\ o \in Chan
  BY <1>1, RuleFacts
<1>3. CASE \E c \in Chan : Names(table[j].ilk, c) /\ state'[c] # state[c]
  <2>1. PICK c \in Chan : Names(table[j].ilk, c) /\ state'[c] # state[c]
    BY <1>3
  <2>2. Newest(queue', c, state'[c])
    BY <2>1 DEF Grows
  <2>3. PICK k \in DOMAIN queue' : queue'[k].src = c
    BY <2>2 DEF Newest
  <2> QED BY <2>1, <2>3 DEF Queued, SameRules
<1>4. CASE \A c \in Chan : Names(table[j].ilk, c) => state'[c] = state[c]
  <2>1. Permits(table[j].ilk, state') <=> Permits(table[j].ilk, state)
    BY <1>2, <1>4, PermitsSame
  <2>2. /\ state'[o] # 0 /\ table[j].rule.onFalse = 0 /\ o \notin site.blocked
        /\ ~ Permits(table[j].ilk, state')
    BY DEF Forbidden, SameRules
  <2>3. state[o] # 0
    BY <2>1, <2>2
  <2>4. state'[o] = state[o]
    BY <1>2, <2>2, <2>3 DEF Grows, BusTypes
  <2>5. \A c \in stirred' : c \in stirred \/ state'[c] # state[c]
    BY DEF Grows
  <2>6. Stirred(table[j])
    <3>1. \/ o \in stirred'
          \/ \E k \in DOMAIN table[j].ilk.conds : table[j].ilk.conds[k].chan \in stirred'
      <4>1. Stirred(table[j])'
        BY DEF Forbidden
      <4> QED BY <4>1 DEF Stirred, SameRules
    <3>2. CASE o \in stirred'
      BY <2>4, <2>5, <3>2 DEF Stirred
    <3>3. ASSUME NEW k \in DOMAIN table[j].ilk.conds, table[j].ilk.conds[k].chan \in stirred'
          PROVE  Stirred(table[j])
      <4>1. table[j].ilk.conds[k].chan \in Chan
        <5>1. table[j].ilk.conds \in Seq(Cond)
          BY <1>2 DEF Ilk
        <5>2. table[j].ilk.conds[k] \in Cond
          BY <5>1
        <5> QED BY <5>2 DEF Cond
      <4>2. Names(table[j].ilk, table[j].ilk.conds[k].chan)
        BY DEF Names
      <4> QED BY <1>4, <2>5, <3>3, <4>1, <4>2 DEF Stirred
    <3> QED BY <3>1, <3>2, <3>3
  <2> QED BY <2>1, <2>2, <2>3, <2>6 DEF Forbidden
<1> QED BY <1>3, <1>4

(* Events stay in the bus.                                                 *)
LEMMA QueuedStays ==
  ASSUME BusTypes, Grows, ~ missed', SameRules, NEW j \in DOMAIN table, Queued(j)
  PROVE  Queued(j)'
<1>1. PICK k \in DOMAIN queue : Names(table[j].ilk, queue[k].src)
  BY DEF Queued
<1>2. queue \in Seq(Ev) /\ queue' \in Seq(Ev) /\ Len(queue) <= Len(queue') /\ queue'[k] = queue[k]
  BY DEF Grows, BusTypes
<1>3. k \in DOMAIN queue'
  BY <1>2
<1> QED BY <1>1, <1>2, <1>3 DEF Queued, SameRules

(* A step that writes channels keeps GuardInv, if it switches on only what *)
(* is permitted and does not take an event away from a rule it must trip.  *)
LEMMA GuardGrows ==
  ASSUME AutoTypes, BusTypes, GuardInv, Grows, SameRules, site' = site,
         \A j \in DOMAIN table : Forbidden(j)' =>
            state[table[j].rule.output] # 0 \/ Permits(table[j].ilk, state),
         \A j \in DOMAIN table : Forbidden(j) /\ Forbidden(j)' /\ Handled(j) => Handled(j)'
  PROVE  GuardInv'
<1> SUFFICES ASSUME ~ missed', NEW j \in DOMAIN table', Forbidden(j)'
             PROVE  (Queued(j) \/ Handled(j))'
  BY DEF GuardInv
<1>1. j \in DOMAIN table /\ ~ missed
  BY DEF SameRules, Grows
<1>2. Queued(j)' \/ Forbidden(j)
  BY <1>1, ForbiddenBefore
<1>3. Forbidden(j) => Queued(j) \/ Handled(j)
  BY <1>1 DEF GuardInv
<1> QED BY <1>1, <1>2, <1>3, QueuedStays

(* A rule that drives its output switches on only what is permitted.       *)
LEMMA DrivesPermitted ==
  ASSUME AutoTypes, Guarded(site), Origin, SameRules, site' = site, NEW i \in DOMAIN table, Drives(table[i]),
         NEW j \in DOMAIN table, Forbidden(j)'
  PROVE  state[table[j].rule.output] # 0 \/ Permits(table[j].ilk, state)
<1>1. table[i] \in Slot /\ table[j] \in Slot /\ Good(table)
  BY DEF AutoTypes
<1> DEFINE e == [rule |-> table[j].rule, ilk |-> table[j].ilk]
           f == [rule |-> table[i].rule, ilk |-> table[i].ilk]
           o == table[j].rule.output
<1>2. e \in Installed(site) /\ f \in Installed(site)
  BY DEF Origin, Sources
<1>3. /\ state'[o] # 0 /\ table[j].rule.onFalse = 0 /\ o \notin site.blocked
      /\ ~ Permits(table[j].ilk, state')
  BY DEF Forbidden, SameRules
<1>4. table[j].ilk.enabled /\ table[j].ilk.conds # <<>>
  BY <1>3 DEF Permits
<1>5. Watched(site, e)
  BY <1>3, <1>4 DEF Watched
<1>6. SUFFICES ASSUME state[o] = 0 PROVE Permits(table[j].ilk, state)
  OBVIOUS
<1>7. o \in Chan
  BY <1>1, RuleFacts
<1>8. table[i].rule.output = o
  BY <1>3, <1>6, <1>7 DEF Drives
<1>9. /\ table[i].rule.mode # "on_delay"
      /\ table[i].ilk = table[j].ilk \/ table[i].rule.mode = "force_off"
  BY <1>2, <1>5, <1>8 DEF Guarded
<1>10. \/ table[i].rule.mode # "force_off" /\ Permits(table[i].ilk, state)
       \/ ~ IsForce(table[i].rule.mode) /\ table[i].rule.onFalse # 0
  BY <1>3, <1>6, <1>8, <1>9 DEF Drives
<1>11. ~ (~ IsForce(table[i].rule.mode) /\ table[i].rule.onFalse # 0)
  <2>1. ~ Conflicts(table[i].rule, table[j].rule)
    BY <1>1 DEF Good
  <2> QED BY <1>3, <1>8, <2>1 DEF Conflicts
<1> QED BY <1>9, <1>10, <1>11

-----------------------------------------------------------------------------
(* The visits of the control loop: a rule that the guard must trip is      *)
(* tripped when it is reached.                                             *)
LEMMA CtlGuards ==
  ASSUME AutoTypes, BusTypes, ~ Shared, Solo, Guarded(site), Origin, GuardInv, CtlHandle, site' = site
  PROVE  GuardInv' /\ BusTypes' /\ SameRules
<1>1. /\ ctl.at \in {"trigger", "guard"} /\ Visit(ctl) /\ ctl' = Handle(ctl, "scan")
      /\ Task(ctl) /\ ctl.todo = <<>> /\ ctl.i \in Nat \ {0}
  BY DEF CtlHandle, AutoTypes, Task, Solo
<1>2. SameRules
  BY <1>1, HandlerTouches, TouchedSame
<1>3. DOMAIN table = 1..Len(table) /\ Len(table) \in Nat /\ \A j \in DOMAIN table : j \in Nat
  BY Places
<1>4. CASE ctl.i \notin DOMAIN table
  <2>1. Keep /\ Over(ctl)
    BY <1>1, <1>4, WholeAfter DEF Visit
  <2>2. Grows /\ state' = state
    BY <2>1, KeepGrows DEF Keep
  <2>3. ASSUME NEW j \in DOMAIN table, Handled(j) PROVE Handled(j)'
    <3>1. ~ (ctl.i <= j) /\ 1 <= j
      BY <1>1, <1>3, <1>4
    <3>2. ctl.at = "trigger"
      BY <2>3, <3>1 DEF Handled
    <3>3. ctl'.at = "guard" /\ ctl'.i = 1 /\ ctl'.ev = ctl.ev
      BY <1>1, <2>1, <3>2, WholeAfter
    <3> QED BY <1>2, <2>3, <3>1, <3>3 DEF Handled, SameRules
  <2>4. \A j \in DOMAIN table : Forbidden(j)' => state[table[j].rule.output] # 0
    BY <1>2, <2>2 DEF Forbidden, SameRules
  <2> QED BY <1>2, <2>2, <2>3, <2>4, GuardGrows DEF Grows
<1>5. CASE ctl.i \in DOMAIN table
  <2>1. PICK i \in DOMAIN table : i = ctl.i
    BY <1>5
  <2>2. ctl'.at = ctl.at /\ ctl'.i = i + 1 /\ ctl'.ev = ctl.ev
    <3>1. ~ Over(ctl)
      BY <1>1, <1>5, WholeAfter
    <3>2. ctl' = After(ctl)
      BY <1>1, <3>1 DEF Handle
    <3> QED BY <1>1, <2>1, <3>2, WholeAfter
  <2>3. /\ Drives(table[i])
        /\ ctl.at = "guard" /\ Trips(table[i], ctl.ev) /\ table[i].rule.output \notin site.blocked =>
             state'[table[i].rule.output] = table[i].rule.onFalse
    <3>1. PICK x \in Slot : x = table[i]
      BY DEF AutoTypes
    <3> QED BY <1>1, <2>1, <3>1, VisitDrives
  <2>4. ASSUME NEW j \in DOMAIN table, Forbidden(j), Forbidden(j)', Handled(j) PROVE Handled(j)'
    <3>1. CASE ctl.at = "trigger"
      BY <1>2, <2>2, <2>4, <3>1 DEF Handled, SameRules
    <3>2. CASE ctl.at = "guard" /\ ctl.i # j
      <4>1. ctl.i <= j /\ i \in Nat /\ j \in Nat
        BY <1>3, <2>4, <3>2 DEF Handled
      <4>2. i + 1 <= j
        BY <2>1, <3>2, <4>1
      <4> QED BY <1>2, <2>2, <2>4, <3>2, <4>2 DEF Handled, SameRules
    <3>3. CASE ctl.at = "guard" /\ ctl.i = j
      <4>1. table[i].ilk.enabled
        BY <2>1, <2>4, <3>3 DEF Forbidden, Permits
      <4>2. Trips(table[i], ctl.ev)
        BY <2>1, <2>4, <3>3, <4>1 DEF Trips, Forbidden, Handled, Names
      <4>3. state'[table[j].rule.output] = 0
        BY <2>1, <2>3, <2>4, <3>3, <4>2 DEF Forbidden
      <4> QED BY <1>2, <2>4, <4>3 DEF Forbidden, SameRules
    <3> QED BY <1>1, <3>1, <3>2, <3>3
  <2>5. \A j \in DOMAIN table : Forbidden(j)' =>
          state[table[j].rule.output] # 0 \/ Permits(table[j].ilk, state)
    BY <1>2, <2>3, DrivesPermitted
  <2>6. Grows
    BY <2>3 DEF Drives
  <2> QED BY <1>2, <2>4, <2>5, <2>6, GuardGrows DEF Grows
<1> QED BY <1>4, <1>5

(* The visits of the timers.                                               *)
LEMMA TimersGuard ==
  ASSUME AutoTypes, BusTypes, ~ Shared, Solo, Guarded(site), Origin, GuardInv, TickRule, site' = site
  PROVE  GuardInv' /\ BusTypes' /\ SameRules
<1>1. ctl.at = "tick" /\ Visit(ctl) /\ ctl.todo = <<>>
  BY DEF TickRule, Solo
<1>2. SameRules
  BY TimerTouches, TouchedSame
<1>3. PICK i \in DOMAIN table : i = ctl.i
  BY TimerVisit
<1>4. PICK x \in Slot : x = table[i]
  BY DEF AutoTypes
<1>5. Drives(table[i])
  BY <1>1, <1>3, <1>4, VisitDrives
<1>6. \A j \in DOMAIN table : Forbidden(j)' =>
        state[table[j].rule.output] # 0 \/ Permits(table[j].ilk, state)
  BY <1>2, <1>5, DrivesPermitted
<1>7. \A j \in DOMAIN table : ~ Handled(j)
  BY <1>1 DEF Handled
<1>8. Grows
  BY <1>5 DEF Drives
<1> QED BY <1>2, <1>6, <1>7, <1>8, GuardGrows DEF Grows

(* The control loop with the oldest event in its hands.                    *)
LEMMA TakenEvent ==
  LET t == [Rest("trigger") EXCEPT !.ev = Head(queue)]
  IN  t.at = "trigger" /\ t.i = 1 /\ t.ev = queue[1]
BY DEF Rest

(* event_bus_dispatch_budgeted hands the oldest event to the handler.      *)
LEMMA TakeGuards ==
  ASSUME AutoTypes, BusTypes, GuardInv, TakeEvent, site' = site
  PROVE  GuardInv' /\ BusTypes'
<1>1. /\ ctl.at = "event" /\ table' = table /\ state' = state /\ missed' = missed /\ stirred' = stirred
      /\ queue \in Seq(Ev)
  BY DEF TakeEvent, BusTypes
<1>2. \A j \in DOMAIN table : (Forbidden(j)' <=> Forbidden(j)) /\ ~ Handled(j)
  BY <1>1 DEF Forbidden, Handled, Stirred
<1>3. CASE queue = <<>>
  <2>1. queue' = queue
    BY <1>3 DEF TakeEvent
  <2>2. \A j \in DOMAIN table : Forbidden(j) /\ ~ missed => Queued(j)
    BY <1>2 DEF GuardInv
  <2> QED BY <1>1, <1>2, <2>1, <2>2 DEF GuardInv, Queued, BusTypes
<1>4. CASE queue # <<>>
  <2>1. ctl'.at = "trigger" /\ ctl'.ev = queue[1] /\ queue' = Tail(queue)
    BY <1>4, TakenEvent DEF TakeEvent
  <2>2. /\ queue' \in Seq(Ev) /\ Len(queue') = Len(queue) - 1
        /\ \A k \in 1..(Len(queue) - 1) : queue'[k] = queue[k + 1]
    BY <1>1, <1>4, <2>1
  <2>3. ASSUME ~ missed', NEW j \in DOMAIN table', Forbidden(j)'
        PROVE  (Queued(j) \/ Handled(j))'
    <3>1. Queued(j)
      BY <1>1, <1>2, <2>3 DEF GuardInv
    <3>2. PICK k \in DOMAIN queue : Names(table[j].ilk, queue[k].src)
      BY <3>1 DEF Queued
    <3>3. CASE k = 1
      BY <1>1, <2>1, <3>2, <3>3 DEF Handled
    <3>4. CASE k # 1
      <4>1. k - 1 \in DOMAIN queue' /\ k - 1 \in 1..(Len(queue) - 1) /\ (k - 1) + 1 = k
        BY <1>1, <2>2, <3>4
      <4>2. queue'[k - 1] = queue[k]
        BY <2>2, <4>1
      <4> QED BY <1>1, <3>2, <4>1, <4>2 DEF Queued
    <3> QED BY <3>3, <3>4
  <2> QED BY <1>1, <2>2, <2>3 DEF GuardInv, BusTypes
<1> QED BY <1>3, <1>4

(* A step that leaves the rules and the bus alone, outside the handler.    *)
LEMMA GuardStays ==
  ASSUME GuardInv, BusTypes, table' = table, state' = state, queue' = queue, missed' = missed,
         stirred' = stirred, site' = site,
         ctl' = ctl \/ ctl.at \notin {"trigger", "guard"}
  PROVE  GuardInv' /\ BusTypes'
<1>1. \A j \in DOMAIN table : (Forbidden(j)' <=> Forbidden(j)) /\ (Queued(j)' <=> Queued(j)) /\ (Handled(j) => Handled(j)')
  BY DEF Forbidden, Queued, Handled, Stirred
<1> QED BY <1>1 DEF GuardInv, BusTypes

(* A table that was loaded has the sources of what it was loaded from.     *)
LEMMA LoadSources ==
  ASSUME NEW b \in Seq(Entry), Sources(b)
  PROVE  Sources(Load(b))
<1>1. CASE Load(b) = <<>>
  BY <1>1 DEF Sources
<1>2. CASE Load(b) # <<>>
  <2>1. Load(b) = [j \in DOMAIN b |-> Fresh(b[j])]
    BY <1>2 DEF Load
  <2>2. DOMAIN Load(b) = DOMAIN b /\ \A j \in DOMAIN b : Load(b)[j].rule = b[j].rule /\ Load(b)[j].ilk = b[j].ilk
    BY <2>1 DEF Fresh
  <2> QED BY <2>2 DEF Sources
<1> QED BY <1>1, <1>2

(* The invariant behind InterlocksHold.  A device that starts has not      *)
(* stirred any channel.                                                    *)
GuardAll == Guarded(site) => BusTypes /\ Origin /\ GuardInv

(* It holds at the start.                                                  *)
LEMMA GuardInit == Init => GuardAll
<1> SUFFICES ASSUME Init PROVE GuardAll
  OBVIOUS
<1>1. site \in Sites /\ nvs = site.load /\ nvs \in Seq(Entry) /\ table = Load(nvs)
  BY AutoSizes DEF Init
<1>2. Sources(nvs)
  <2>1. \A j \in DOMAIN nvs : nvs[j] \in Entry /\ nvs[j] \in Installed(site)
    BY <1>1 DEF Installed
  <2>2. \A e \in Entry : [rule |-> e.rule, ilk |-> e.ilk] = e
    BY DEF Entry
  <2> QED BY <2>1, <2>2 DEF Sources
<1>3. Sources(table)
  BY <1>1, <1>2, LoadSources
<1>4. GuardInv
  BY DEF Init, GuardInv, Forbidden, Stirred
<1>5. BusTypes
  <2>1. state \in [Chan -> Int] /\ \A o \in Output : state[o] \in {0, 1}
    BY <1>1, StartTypes DEF Init
  <2>2. queue = <<>> /\ missed = FALSE
    BY DEF Init
  <2>3. <<>> \in Seq(Ev)
    OBVIOUS
  <2> QED BY <2>1, <2>2, <2>3 DEF BusTypes
<1> QED BY <1>2, <1>3, <1>4, <1>5 DEF GuardAll, Origin

(* Every step keeps it.                                                    *)
LEMMA GuardStep == AutoInv /\ SoloInv /\ GuardAll /\ [Next]_vars => GuardAll'
<1>s. [Next]_vars => site' = site
  BY DEF Next, vars
<1>u. Guarded(site) => ~ Shared
  BY DEF Guarded, Shared
<1> SUFFICES ASSUME AutoTypes, Solo, ~ Shared, GuardAll, [Next]_vars, Guarded(site)
             PROVE  (BusTypes /\ Origin /\ GuardInv)'
  BY <1>s, <1>u DEF GuardAll, AutoInv, SoloInv
<1>0. BusTypes /\ Origin /\ GuardInv /\ site' = site /\ ~ site.manual
  BY DEF GuardAll, Guarded, Next, vars
<1>a. \A at : Rest(at).at = at
  BY RestFacts
<1>b. ASSUME SameRules, nvs' = nvs PROVE Origin'
  <2>1. Sources(table)'
    BY <1>0, <1>b, SourcesSame DEF Origin
  <2>2. Sources(nvs)'
    BY <1>0, <1>b DEF Origin, Sources
  <2> QED BY <2>1, <2>2 DEF Origin
<1>c. table' = table => SameRules
  BY DEF SameRules
<1>1. CASE UNCHANGED vars
  BY <1>0, <1>1, <1>b, <1>c, GuardStays DEF vars
<1>2. ASSUME NEW in \in [site.wired -> InVal], NEW cmd \in Commands, Scan(in, cmd)
      PROVE  (BusTypes /\ Origin /\ GuardInv)'
  <2>1. Grows /\ \A o \in Output : state'[o] = state[o]
    BY <1>0, <1>2, ScanGrows
  <2>2. table' = table /\ ctl.at = "scan" /\ nvs' = nvs
    BY <1>2 DEF Scan
  <2>3. \A j \in DOMAIN table : table[j].rule.output \in Output
    BY RuleFacts DEF AutoTypes
  <2>4. \A j \in DOMAIN table : Forbidden(j)' => state[table[j].rule.output] # 0
    BY <2>1, <2>2, <2>3 DEF Forbidden
  <2>5. \A j \in DOMAIN table : ~ Handled(j)
    BY <2>2 DEF Handled
  <2> QED BY <1>0, <1>b, <1>c, <2>1, <2>2, <2>4, <2>5, GuardGrows DEF Grows
<1>3. CASE TickBegin \/ TickEnd
  BY <1>0, <1>3, <1>b, <1>c, GuardStays DEF TickBegin, TickEnd
<1>4. CASE TakeEvent
  BY <1>0, <1>4, <1>b, <1>c, TakeGuards DEF TakeEvent
<1>5. CASE CtlHandle
  BY <1>0, <1>5, <1>b, CtlGuards DEF CtlHandle
<1>6. CASE TickRule
  BY <1>0, <1>6, <1>b, TimersGuard DEF TickRule
<1>7. CASE Reset
  <2>1. /\ nvs \in Seq(Entry) /\ table' = Load(nvs) /\ nvs' = nvs /\ stirred' = {}
        /\ state' \in Starts /\ queue' = <<>> /\ missed' = FALSE /\ site \in Sites
    BY <1>7 DEF Reset, AutoTypes
  <2>2. Sources(table')
    BY <1>0, <2>1, LoadSources DEF Origin
  <2>3. GuardInv'
    BY <2>1 DEF GuardInv, Forbidden, Stirred
  <2>4. BusTypes'
    <3>1. state' \in [Chan -> Int] /\ \A o \in Output : state'[o] \in {0, 1}
      BY <2>1, StartTypes
    <3>2. queue' \in Seq(Ev)
      BY <2>1
    <3> QED BY <2>1, <3>1, <3>2 DEF BusTypes
  <2> QED BY <1>0, <2>1, <2>2, <2>3, <2>4 DEF Origin, Sources
<1> QED BY <1>1, <1>2, <1>3, <1>4, <1>5, <1>6, <1>7, SoloSteps DEF Next

(* automation_event_handler, the continuous guard: in a guarded            *)
(* installation, once the events are handled an output that is on is       *)
(* permitted by every rule that drives it, whatever inputs change,         *)
(* whatever a start leaves in the channels and over resets, unless the bus *)
(* dropped an event or nothing has changed since the start.                *)
THEOREM InterlocksHold == Spec => [](Guarded(site) => InterlockHolds)
<1>1. GuardAll => (Guarded(site) => InterlockHolds)
  <2> SUFFICES ASSUME GuardAll, Guarded(site), Quiet, NEW j \in DOMAIN table, Forbidden(j) PROVE FALSE
    BY DEF InterlockHolds, Forbidden
  <2>1. ~ missed /\ queue = <<>> /\ ctl.at = "scan"
    BY DEF Quiet
  <2>2. Queued(j) \/ Handled(j)
    BY <2>1 DEF GuardAll, GuardInv
  <2> QED BY <2>1, <2>2 DEF Queued, Handled
<1> QED BY AutoInit, AutoStep, SoloInit, SoloStep, GuardInit, GuardStep, <1>1, PTL DEF Spec

-----------------------------------------------------------------------------
(* The rules FollowsInput is about, and what they make of a value.         *)
Plain(j) ==
  LET rule == table[j].rule
  IN  /\ rule.mode = "follow" /\ ~ table[j].ilk.enabled
      /\ rule.input \in stirred
      /\ rule.output \notin site.blocked
Value(rule, v) == IF Holds(rule, v) THEN rule.onTrue ELSE rule.onFalse

(* The output has the value of the input, or the newest event of the input *)
(* is in the bus, or it is on its way to the rule.                         *)
Settles(j) ==
  LET rule == table[j].rule
      c == rule.input
      here == ctl.at = "trigger" /\ ctl.ev.src = c
  IN  \/ Newest(queue, c, state[c])
      \/ /\ \A k \in DOMAIN queue : queue[k].src # c
         /\ here => ctl.ev.data = state[c]
         /\ \/ here /\ ctl.i <= j
            \/ state[rule.output] = Value(rule, state[c])
FollowInv == ~ missed => \A j \in DOMAIN table : Plain(j) => Settles(j)

(* The bus after a step that writes channels, for one channel.             *)
LEMMA NewestStays ==
  ASSUME BusTypes, Grows, ~ missed', NEW c \in Chan, state'[c] = state[c]
  PROVE  /\ Newest(queue, c, state[c]) => Newest(queue', c, state'[c])
         /\ (\A k \in DOMAIN queue : queue[k].src # c) => \A k \in DOMAIN queue' : queue'[k].src # c
<1>1. /\ queue \in Seq(Ev) /\ queue' \in Seq(Ev) /\ Len(queue) <= Len(queue')
      /\ \A k \in DOMAIN queue : queue'[k] = queue[k]
      /\ \A m \in DOMAIN queue' : m > Len(queue) => queue'[m].src # c
  BY DEF Grows, BusTypes
<1>2. DOMAIN queue = 1..Len(queue) /\ DOMAIN queue' = 1..Len(queue') /\ Len(queue) \in Nat /\ Len(queue') \in Nat
  BY <1>1
<1>3. \A m \in DOMAIN queue' : m \in DOMAIN queue \/ m > Len(queue)
  BY <1>2
<1>4. \A m \in DOMAIN queue : m \in DOMAIN queue'
  BY <1>1, <1>2
<1>5. ASSUME Newest(queue, c, state[c]) PROVE Newest(queue', c, state'[c])
  <2>1. PICK k \in DOMAIN queue : /\ queue[k].src = c /\ queue[k].data = state[c]
                                  /\ \A m \in DOMAIN queue : m > k => queue[m].src # c
    BY <1>5 DEF Newest
  <2>2. k \in DOMAIN queue' /\ queue'[k] = queue[k]
    BY <1>1, <1>4
  <2>3. \A m \in DOMAIN queue' : m > k => queue'[m].src # c
    BY <1>1, <1>3, <2>1
  <2> QED BY <2>1, <2>2, <2>3 DEF Newest
<1> QED BY <1>1, <1>3, <1>5

(* A step that writes channels keeps FollowInv, if it leaves a settled     *)
(* output as it is or gives it the value of its input.                     *)
LEMMA FollowGrows ==
  ASSUME AutoTypes, BusTypes, FollowInv, Grows, SameRules, site' = site,
         \A j \in DOMAIN table :
           LET rule == table[j].rule
               c == rule.input
           IN  Plain(j) /\ ~ missed' /\ state'[c] = state[c] =>
                 /\ ctl'.at = "trigger" => ctl.at = "trigger" /\ ctl'.ev = ctl.ev
                 /\ \/ state'[rule.output] = state[rule.output]
                    \/ ctl.at = "trigger" /\ ctl.ev.src = c
                       /\ state'[rule.output] = Value(rule, ctl.ev.data)
                 /\ ctl.at = "trigger" /\ ctl.ev.src = c /\ ctl.i <= j =>
                      \/ ctl'.at = "trigger" /\ ctl'.i <= j
                      \/ state'[rule.output] = Value(rule, ctl.ev.data)
  PROVE  FollowInv'
<1> SUFFICES ASSUME ~ missed', NEW j \in DOMAIN table', Plain(j)' PROVE Settles(j)'
  BY DEF FollowInv
<1> DEFINE c == table[j].rule.input
           o == table[j].rule.output
<1>1. j \in DOMAIN table /\ ~ missed /\ table'[j].rule = table[j].rule
  BY DEF SameRules, Grows
<1>2. state'[c] = state[c] => Plain(j) /\ Settles(j)
  <2>1. Plain(j) \/ state'[c] # state[c]
    BY <1>1 DEF SameRules, Grows, Plain
  <2> QED BY <1>1, <2>1 DEF FollowInv
<1>3. c \in Chan
  BY <1>1, RuleFacts DEF AutoTypes
<1>4. CASE state'[c] # state[c]
  <2>1. Newest(queue', c, state'[c])
    BY <1>3, <1>4 DEF Grows
  <2> QED BY <1>1, <2>1 DEF Settles
<1>5. CASE state'[c] = state[c] /\ Newest(queue, c, state[c])
  <2>1. Newest(queue', c, state'[c])
    BY <1>3, <1>5, NewestStays
  <2> QED BY <1>1, <2>1 DEF Settles
<1>6. CASE state'[c] = state[c] /\ ~ Newest(queue, c, state[c])
  <2> DEFINE here == ctl.at = "trigger" /\ ctl.ev.src = c
  <2>1. /\ \A k \in DOMAIN queue : queue[k].src # c
        /\ here => ctl.ev.data = state[c]
        /\ \/ here /\ ctl.i <= j
           \/ state[o] = Value(table[j].rule, state[c])
    BY <1>2, <1>6 DEF Settles
  <2>2. \A k \in DOMAIN queue' : queue'[k].src # c
    BY <1>3, <1>6, <2>1, NewestStays
  <2>3. /\ ctl'.at = "trigger" => ctl.at = "trigger" /\ ctl'.ev = ctl.ev
        /\ \/ state'[o] = state[o]
           \/ here /\ state'[o] = Value(table[j].rule, ctl.ev.data)
        /\ here /\ ctl.i <= j =>
             \/ ctl'.at = "trigger" /\ ctl'.i <= j
             \/ state'[o] = Value(table[j].rule, ctl.ev.data)
    BY <1>1, <1>2, <1>6
  <2>4. \/ here /\ ctl'.at = "trigger" /\ ctl'.ev = ctl.ev /\ ctl'.i <= j
        \/ state'[o] = Value(table[j].rule, state'[c])
    BY <1>6, <2>1, <2>3
  <2> QED BY <1>1, <1>6, <2>1, <2>2, <2>3, <2>4 DEF Settles
<1> QED BY <1>4, <1>5, <1>6

(* A rule drives the output of a plain rule only if it is that rule.       *)
LEMMA PlainAlone ==
  ASSUME AutoTypes, Distinct(table), NEW i \in DOMAIN table, Drives(table[i]),
         NEW j \in DOMAIN table, Plain(j), i # j
  PROVE  state'[table[j].rule.output] = state[table[j].rule.output]
<1>1. table[i] \in Slot /\ table[j] \in Slot /\ Good(table)
  BY DEF AutoTypes
<1>2. table[j].rule.output \in Chan
  BY <1>1, RuleFacts
<1>3. ~ Conflicts(table[i].rule, table[j].rule)
  BY <1>1 DEF Good
<1>4. table[i].rule # table[j].rule
  BY DEF Distinct
<1>5. ~ IsForce(table[j].rule.mode)
  BY DEF Plain, IsForce
<1>6. table[i].rule.output # table[j].rule.output
  BY <1>3, <1>4, <1>5 DEF Conflicts
<1> QED BY <1>2, <1>6 DEF Drives

(* The visits of the control loop.                                         *)
LEMMA CtlFollows ==
  ASSUME AutoTypes, BusTypes, ~ Shared, Solo, Distinct(table), FollowInv, CtlHandle, site' = site
  PROVE  FollowInv' /\ BusTypes' /\ SameRules
<1>1. /\ ctl.at \in {"trigger", "guard"} /\ Visit(ctl) /\ ctl' = Handle(ctl, "scan")
      /\ Task(ctl) /\ ctl.todo = <<>> /\ ctl.i \in Nat \ {0}
  BY DEF CtlHandle, AutoTypes, Task, Solo
<1>2. SameRules
  BY <1>1, HandlerTouches, TouchedSame
<1>3. DOMAIN table = 1..Len(table) /\ Len(table) \in Nat /\ \A j \in DOMAIN table : j \in Nat
  BY Places
<1>4. CASE ctl.i \notin DOMAIN table
  <2>1. Keep /\ Over(ctl)
    BY <1>1, <1>4, WholeAfter DEF Visit
  <2>2. Grows /\ state' = state
    BY <2>1, KeepGrows DEF Keep
  <2>3. \A j \in DOMAIN table : ~ (ctl.i <= j)
    BY <1>1, <1>3, <1>4
  <2>4. ctl'.at # "trigger"
    BY <1>1, <2>1, WholeAfter, RestFacts
  <2> QED BY <1>2, <2>2, <2>3, <2>4, FollowGrows DEF Grows
<1>5. CASE ctl.i \in DOMAIN table
  <2>1. PICK i \in DOMAIN table : i = ctl.i
    BY <1>5
  <2>2. ctl'.at = ctl.at /\ ctl'.i = i + 1 /\ ctl'.ev = ctl.ev
    <3>1. ~ Over(ctl)
      BY <1>1, <1>5, WholeAfter
    <3>2. ctl' = After(ctl)
      BY <1>1, <3>1 DEF Handle
    <3> QED BY <1>1, <2>1, <3>2, WholeAfter
  <2>3. /\ Drives(table[i])
        /\ Plain(i) => \/ state' = state /\ ~ (ctl.at = "trigger" /\ ctl.ev.src = table[i].rule.input)
                       \/ /\ ctl.at = "trigger" /\ ctl.ev.src = table[i].rule.input
                          /\ state'[table[i].rule.output] = Value(table[i].rule, ctl.ev.data)
    <3>1. PICK x \in Slot : x = table[i]
      BY DEF AutoTypes
    <3> QED BY <1>1, <2>1, <3>1, VisitDrives DEF Plain, Value
  <2>4. ASSUME NEW j \in DOMAIN table, Plain(j)
        PROVE  LET rule == table[j].rule
                   c == rule.input
               IN  /\ ctl'.at = "trigger" => ctl.at = "trigger" /\ ctl'.ev = ctl.ev
                   /\ \/ state'[rule.output] = state[rule.output]
                      \/ ctl.at = "trigger" /\ ctl.ev.src = c
                         /\ state'[rule.output] = Value(rule, ctl.ev.data)
                   /\ ctl.at = "trigger" /\ ctl.ev.src = c /\ ctl.i <= j =>
                        \/ ctl'.at = "trigger" /\ ctl'.i <= j
                        \/ state'[rule.output] = Value(rule, ctl.ev.data)
    <3>1. CASE i = j
      BY <2>2, <2>3, <2>4, <3>1
    <3>2. CASE i # j
      <4>1. state'[table[j].rule.output] = state[table[j].rule.output]
        BY <2>3, <2>4, <3>2, PlainAlone
      <4>2. ctl.i <= j => i + 1 <= j
        BY <1>3, <2>1, <3>2
      <4> QED BY <2>2, <4>1, <4>2
    <3> QED BY <3>1, <3>2
  <2>5. Grows
    BY <2>3 DEF Drives
  <2> QED BY <1>2, <2>4, <2>5, FollowGrows DEF Grows
<1> QED BY <1>4, <1>5

(* event_bus_dispatch_budgeted: the newest event of an input stays, or is  *)
(* on its way to every rule.                                               *)
LEMMA TakeFollows ==
  ASSUME AutoTypes, BusTypes, FollowInv, TakeEvent, site' = site
  PROVE  FollowInv' /\ BusTypes'
<1>1. /\ ctl.at = "event" /\ table' = table /\ state' = state /\ missed' = missed /\ stirred' = stirred
      /\ queue \in Seq(Ev)
  BY DEF TakeEvent, BusTypes
<1>2. \A j \in DOMAIN table : Plain(j)' <=> Plain(j)
  BY <1>1 DEF Plain
<1>3. CASE queue = <<>>
  <2>1. queue' = queue /\ ctl'.at = "scan"
    BY <1>3, RestFacts DEF TakeEvent
  <2>2. ASSUME NEW j \in DOMAIN table, Settles(j) PROVE Settles(j)'
    BY <1>1, <2>1, <2>2 DEF Settles
  <2> QED BY <1>1, <1>2, <2>1, <2>2 DEF FollowInv, BusTypes
<1>4. CASE queue # <<>>
  <2>1. ctl'.at = "trigger" /\ ctl'.i = 1 /\ ctl'.ev = queue[1] /\ queue' = Tail(queue)
    BY <1>4, TakenEvent DEF TakeEvent
  <2>2. /\ queue' \in Seq(Ev) /\ Len(queue') = Len(queue) - 1 /\ Len(queue) \in Nat \ {0}
        /\ \A k \in 1..(Len(queue) - 1) : queue'[k] = queue[k + 1]
    BY <1>1, <1>4, <2>1
  <2>3. DOMAIN queue = 1..Len(queue) /\ DOMAIN queue' = 1..(Len(queue) - 1)
    BY <1>1, <2>2
  <2>4. \A k \in DOMAIN queue' : k + 1 \in DOMAIN queue /\ queue'[k] = queue[k + 1] /\ k \in Nat \ {0}
    BY <2>2, <2>3
  <2>5. ASSUME ~ missed', NEW j \in DOMAIN table', Plain(j)'
        PROVE  Settles(j)'
    <3>1. Settles(j) /\ j \in DOMAIN table /\ j \in Nat \ {0}
      BY <1>1, <1>2, <2>5, Places DEF FollowInv
    <3> DEFINE c == table[j].rule.input
    <3>2. CASE Newest(queue, c, state[c])
      <4>1. PICK k \in DOMAIN queue : /\ queue[k].src = c /\ queue[k].data = state[c]
                                      /\ \A m \in DOMAIN queue : m > k => queue[m].src # c
        BY <3>2 DEF Newest
      <4>2. CASE k = 1
        <5>1. \A m \in DOMAIN queue' : queue'[m].src # c
          <6>1. \A m \in DOMAIN queue' : m + 1 > 1
            BY <2>4
          <6> QED BY <2>4, <4>1, <4>2, <6>1
        <5>2. ctl'.ev.src = c /\ ctl'.ev.data = state[c] /\ 1 <= j
          BY <2>1, <3>1, <4>1, <4>2
        <5> QED BY <1>1, <2>1, <5>1, <5>2 DEF Settles
      <4>3. CASE k # 1
        <5>1. k - 1 \in DOMAIN queue' /\ (k - 1) + 1 = k
          BY <2>2, <2>3, <4>3
        <5>2. queue'[k - 1] = queue[k]
          BY <2>4, <5>1
        <5>3. ASSUME NEW m \in DOMAIN queue', m > k - 1 PROVE queue'[m].src # c
          <6>1. m + 1 > k /\ m + 1 \in DOMAIN queue
            BY <2>3, <2>4, <5>3
          <6> QED BY <2>4, <4>1, <6>1
        <5>4. Newest(queue', c, state'[c])
          BY <1>1, <4>1, <5>1, <5>2, <5>3 DEF Newest
        <5> QED BY <1>1, <5>4 DEF Settles
      <4> QED BY <4>2, <4>3
    <3>3. CASE ~ Newest(queue, c, state[c])
      <4>1. /\ \A k \in DOMAIN queue : queue[k].src # c
            /\ state[table[j].rule.output] = Value(table[j].rule, state[c])
        BY <1>1, <3>1, <3>3 DEF Settles
      <4>2. 1 \in DOMAIN queue
        BY <2>2, <2>3
      <4>3. ctl'.ev.src # c
        BY <2>1, <4>1, <4>2
      <4>4. \A k \in DOMAIN queue' : queue'[k].src # c
        BY <2>4, <4>1
      <4> QED BY <1>1, <4>1, <4>3, <4>4 DEF Settles
    <3> QED BY <3>2, <3>3
  <2> QED BY <1>1, <2>2, <2>5 DEF FollowInv, BusTypes
<1> QED BY <1>3, <1>4

(* A step that leaves the rules and the bus alone, outside the handler.    *)
LEMMA FollowStays ==
  ASSUME FollowInv, BusTypes, table' = table, state' = state, queue' = queue, missed' = missed,
         stirred' = stirred, site' = site,
         ctl' = ctl \/ (ctl.at # "trigger" /\ ctl'.at # "trigger")
  PROVE  FollowInv' /\ BusTypes'
<1>1. \A j \in DOMAIN table : Plain(j)' <=> Plain(j)
  BY DEF Plain
<1>2. ASSUME NEW j \in DOMAIN table, Settles(j) PROVE Settles(j)'
  BY <1>2 DEF Settles
<1> QED BY <1>1, <1>2 DEF FollowInv, BusTypes

(* A table that was loaded holds no rule twice if what it was loaded from  *)
(* does not.                                                               *)
LEMMA LoadDistinct ==
  ASSUME NEW b \in Seq(Entry), Distinct(b)
  PROVE  Distinct(Load(b))
<1>1. CASE Load(b) = <<>>
  BY <1>1 DEF Distinct
<1>2. CASE Load(b) # <<>>
  <2>1. Load(b) = [j \in DOMAIN b |-> Fresh(b[j])]
    BY <1>2 DEF Load
  <2>2. DOMAIN Load(b) = DOMAIN b /\ \A j \in DOMAIN b : Load(b)[j].rule = b[j].rule
    BY <2>1 DEF Fresh
  <2> QED BY <2>2 DEF Distinct
<1> QED BY <1>1, <1>2

(* The invariant behind OutputsFollow.  A device that starts has not       *)
(* stirred any input.                                                      *)
FollowAll ==
  Unedited(site) => BusTypes /\ nvs = site.load /\ Distinct(table) /\ FollowInv

(* It holds at the start.                                                  *)
LEMMA FollowInit == Init => FollowAll
<1> SUFFICES ASSUME Init, Unedited(site) PROVE FollowAll
  BY DEF FollowAll
<1>1. /\ site \in Sites /\ nvs = site.load /\ nvs \in Seq(Entry) /\ table = Load(nvs)
      /\ state \in Starts /\ queue = <<>> /\ missed = FALSE /\ stirred = {}
  BY AutoSizes DEF Init
<1>2. Distinct(table)
  BY <1>1, LoadDistinct DEF Unedited
<1>3. BusTypes
  <2>1. state \in [Chan -> Int] /\ \A o \in Output : state[o] \in {0, 1}
    BY <1>1, StartTypes
  <2>2. <<>> \in Seq(Ev)
    OBVIOUS
  <2> QED BY <1>1, <2>1, <2>2 DEF BusTypes
<1>4. FollowInv
  BY <1>1 DEF FollowInv, Plain
<1> QED BY <1>1, <1>2, <1>3, <1>4 DEF FollowAll

(* Every step keeps it.                                                    *)
LEMMA FollowStep == AutoInv /\ SoloInv /\ FollowAll /\ [Next]_vars => FollowAll'
<1>s. [Next]_vars => site' = site
  BY DEF Next, vars
<1>u. Unedited(site) => ~ Shared
  BY DEF Unedited, Shared
<1> DEFINE Goal == (BusTypes /\ nvs = site.load /\ Distinct(table) /\ FollowInv)'
<1> SUFFICES ASSUME AutoTypes, Solo, ~ Shared, FollowAll, [Next]_vars, Unedited(site) PROVE Goal
  BY <1>s, <1>u DEF FollowAll, AutoInv, SoloInv
<1>0. /\ BusTypes /\ nvs = site.load /\ Distinct(table) /\ FollowInv
      /\ site' = site /\ ~ site.manual /\ Distinct(site.load)
  BY DEF FollowAll, Unedited, Next, vars
<1>a. SameRules => Distinct(table)'
  BY <1>0 DEF SameRules, Distinct
<1>c. table' = table => SameRules
  BY DEF SameRules
<1>r. \A at : Rest(at).at = at
  BY RestFacts
<1>1. CASE UNCHANGED vars
  BY <1>0, <1>1, <1>a, <1>c, FollowStays DEF vars
<1>2. ASSUME NEW in \in [site.wired -> InVal], NEW cmd \in Commands, Scan(in, cmd)
      PROVE  Goal
  <2>1. Grows /\ \A o \in Output : state'[o] = state[o]
    BY <1>0, <1>2, ScanGrows
  <2>2. table' = table /\ ctl.at = "scan" /\ ctl'.at = "begin" /\ nvs' = nvs
    BY <1>2, <1>r DEF Scan
  <2>3. \A j \in DOMAIN table : table[j].rule.output \in Output
    BY RuleFacts DEF AutoTypes
  <2>4. FollowInv'
    BY <1>0, <1>c, <2>1, <2>2, <2>3, FollowGrows
  <2> QED BY <1>0, <1>a, <1>c, <2>1, <2>2, <2>4 DEF Grows
<1>3. CASE TickBegin \/ TickEnd
  BY <1>0, <1>3, <1>a, <1>c, <1>r, FollowStays DEF TickBegin, TickEnd
<1>4. CASE TakeEvent
  BY <1>0, <1>4, <1>a, <1>c, TakeFollows DEF TakeEvent
<1>5. CASE CtlHandle
  BY <1>0, <1>5, <1>a, CtlFollows DEF CtlHandle
<1>6. CASE TickRule
  <2>1. SameRules
    BY <1>6, TimerTouches, TouchedSame
  <2>2. ctl.at = "tick" /\ Visit(ctl) /\ ctl.todo = <<>> /\ Task(ctl) /\ ctl' = After(ctl) /\ nvs' = nvs
    BY <1>6 DEF TickRule, AutoTypes, Solo
  <2>3. ctl'.at = "tick"
    BY <2>2, WholeAfter
  <2>4. PICK i \in DOMAIN table : i = ctl.i
    BY <1>6, TimerVisit
  <2>5. PICK x \in Slot : x = table[i]
    BY DEF AutoTypes
  <2>6. Drives(table[i]) /\ (Plain(i) => state' = state)
    BY <1>0, <2>2, <2>4, <2>5, VisitDrives DEF Plain
  <2>7. \A j \in DOMAIN table : Plain(j) => state'[table[j].rule.output] = state[table[j].rule.output]
    BY <1>0, <2>6, PlainAlone
  <2>8. Grows
    BY <2>6 DEF Drives
  <2>9. FollowInv'
    BY <1>0, <2>1, <2>2, <2>3, <2>7, <2>8, FollowGrows
  <2> QED BY <1>0, <1>a, <2>1, <2>2, <2>8, <2>9 DEF Grows
<1>7. CASE Reset
  <2>1. /\ nvs \in Seq(Entry) /\ table' = Load(nvs) /\ nvs' = nvs /\ stirred' = {} /\ site \in Sites
        /\ state' \in Starts /\ queue' = <<>> /\ missed' = FALSE
    BY <1>7 DEF Reset, AutoTypes
  <2>2. Distinct(table')
    BY <1>0, <2>1, LoadDistinct
  <2>3. BusTypes'
    <3>1. state' \in [Chan -> Int] /\ \A o \in Output : state'[o] \in {0, 1}
      BY <2>1, StartTypes
    <3>2. queue' \in Seq(Ev)
      BY <2>1
    <3> QED BY <2>1, <3>1, <3>2 DEF BusTypes
  <2>4. FollowInv'
    BY <2>1 DEF FollowInv, Plain
  <2> QED BY <1>0, <2>1, <2>2, <2>3, <2>4
<1> QED BY <1>1, <1>2, <1>3, <1>4, <1>5, <1>6, <1>7, SoloSteps DEF Next

(* Where nobody edits, once the events are handled the output of a FOLLOW  *)
(* rule without an interlock is what the rule makes of its input, from the *)
(* first change of the input on: automation_event_handler sees every       *)
(* change of an input in order, unless the bus dropped an event.           *)
THEOREM OutputsFollow == Spec => []FollowsUnedited
<1>1. FollowAll => FollowsUnedited
  <2> SUFFICES ASSUME FollowAll, Unedited(site), Quiet, NEW j \in DOMAIN table, Plain(j)
               PROVE  state[table[j].rule.output] = Value(table[j].rule, state[table[j].rule.input])
    BY DEF FollowsUnedited, FollowsInput, Plain, Value
  <2>1. ~ missed /\ queue = <<>> /\ ctl.at = "scan"
    BY DEF Quiet
  <2>2. Settles(j)
    BY <2>1 DEF FollowAll, FollowInv
  <2> QED BY <2>1, <2>2 DEF Settles, Newest
<1> QED BY AutoInit, AutoStep, SoloInit, SoloStep, FollowInit, FollowStep, <1>1, PTL DEF Spec
=============================================================================
