------------------------- MODULE ControlLoop_proofs -------------------------
(***************************************************************************)
(* Proofs about the timing of the control loop, for every period, glitch   *)
(* limit, threshold and export interval, and, below, about the outputs the *)
(* loop drives.                                                            *)
(***************************************************************************)
EXTENDS ControlLoop, OutputPath, SequenceTheorems, TLAPS

(* Rounding a lateness up to whole periods: the next multiple is past it   *)
(* and at most one period past it.                                         *)
LEMMA NextMultiple ==
  ASSUME NEW x \in Nat, NEW p \in Nat \ {0}
  PROVE  /\ (x \div p + 1) * p \in Nat
         /\ x < (x \div p + 1) * p
         /\ (x \div p + 1) * p <= x + p
<1> DEFINE q == x \div p
           r == x % p
<1>1. q \in Nat /\ r \in 0..(p - 1) /\ x = p * q + r
  OBVIOUS
<1>2. (q + 1) * p = p * q + p
  BY <1>1
<1> HIDE DEF q, r
<1>3. p * q \in Nat
  BY <1>1
<1> QED
  BY <1>1, <1>2, <1>3 DEF q

(* The corrected time is at least the present plus one tick and no more    *)
(* than one period past the later of the present and the expected time.    *)
LEMMA CorrectedBounds ==
  ASSUME TypeOK
  PROVE  /\ Corrected \in Nat
         /\ now < Corrected
         /\ \/ Corrected <= now + Period
            \/ expected # 0 /\ Corrected = expected + Period
<1> USE LoopAssumption
<1>1. now \in Nat /\ Expected \in Nat /\ Period \in Nat \ {0}
  BY DEF TypeOK, Expected
<1>2. CASE now > Expected
  <2> DEFINE x == now - Expected
  <2>1. x \in Nat
    BY <1>1, <1>2
  <2>2. Corrected = Expected + (x \div Period + 1) * Period
    BY <1>2 DEF Corrected
  <2> HIDE DEF x
  <2>3. /\ (x \div Period + 1) * Period \in Nat
        /\ x < (x \div Period + 1) * Period
        /\ (x \div Period + 1) * Period <= x + Period
    BY <1>1, <2>1, NextMultiple
  <2> DEFINE m == (x \div Period + 1) * Period
  <2>4. m \in Nat /\ x < m /\ m <= x + Period /\ Corrected = Expected + m
    BY <2>2, <2>3
  <2> HIDE DEF m
  <2> QED
    BY <1>1, <2>1, <2>4 DEF x
<1>3. CASE ~ (now > Expected)
  <2>1. Corrected = Expected + Period
    BY <1>3 DEF Corrected
  <2> QED
    BY <1>1, <1>3, <2>1 DEF Expected
<1> QED
  BY <1>2, <1>3

(* Type correctness of the control loop.                                   *)
THEOREM TypeCorrect == Spec => []TypeOK
<1> USE LoopAssumption
<1>1. Init => TypeOK
  BY DEF Init, TypeOK, PhaseCount, Phases
<1>2. TypeOK /\ [Next]_vars => TypeOK'
  <2> SUFFICES ASSUME TypeOK, [Next]_vars PROVE TypeOK'
    OBVIOUS
  <2>1. CASE Time
    BY <2>1 DEF TypeOK, Time, statVars, phaseVars, histVars, PhaseCount
  <2>2. CASE Take
    BY <2>2 DEF TypeOK, Take, timeVars, statVars, phaseVars, histVars, PhaseCount, Waking
  <2>3. CASE Drain
    BY <2>3 DEF TypeOK, Drain, timeVars, phaseVars, histVars, PhaseCount
  <2>9. CASE Drained
    BY <2>9 DEF TypeOK, Drained, timeVars, statVars, phaseVars, histVars, PhaseCount, Waking
  <2>4. CASE Skip
    BY <2>4 DEF TypeOK, Skip, timeVars, statVars, phaseVars, histVars, PhaseCount
  <2>5. CASE Start
    <3>1. Corrected \in Nat
      BY CorrectedBounds
    <3> QED
      BY <2>5, <3>1 DEF TypeOK, Start, timeVars, histVars, PhaseCount
  <2>6. CASE PhaseEnd
    <3>1. ph \in 1..5 /\ MonitorTable[ph] \in Phases /\ PhaseTable[ph] \in Phases
      BY DEF TypeOK, PhaseCount, MonitorTable, PhaseTable, Phases
    <3> QED
      BY <2>6, <3>1 DEF TypeOK, PhaseEnd, timeVars, statVars, histVars, PhaseCount
  <2>7. CASE EndInTime \/ EndLate
    <3>1. now \in Nat /\ start \in Nat /\ execMax \in Nat /\ Exec \in Int
      BY DEF TypeOK, Exec
    <3>2. NewMax \in Nat
      BY <3>1 DEF NewMax
    <3>3. CASE EndInTime
      BY <3>2, <3>3 DEF TypeOK, EndInTime, Export, timeVars, phaseVars, PhaseCount
    <3>4. CASE EndLate
      BY <3>2, <3>4 DEF TypeOK, EndLate, Export, timeVars, phaseVars, PhaseCount
    <3> QED
      BY <2>7, <3>3, <3>4
  <2>8. CASE UNCHANGED vars
    BY <2>8 DEF TypeOK, vars, timeVars, statVars, phaseVars, histVars
  <2> QED
    BY <2>1, <2>2, <2>3, <2>4, <2>5, <2>6, <2>7, <2>8, <2>9 DEF Next
<1> QED
  BY <1>1, <1>2, PTL DEF Spec

-----------------------------------------------------------------------------
(* The inductive invariant.  The alarm that released the current or last   *)
(* cycle is number alarms - notif: all later ones are pending.  A start    *)
(* delayed past the next alarm is followed by a second one for the same    *)
(* instant, which is why the window is three periods wide.                 *)
Released == (alarms - notif) * Period

ClockInv == now = alarms * Period + raw /\ notif <= alarms

StartInv ==
  /\ start <= now
  /\ at \in {"phase", "end"} => Released <= start

ExpectedInv ==
  /\ at \in Waking => expected < Released + 2 * Period
  /\ at \notin Waking => \/ expected < Released + 3 * Period
                         \/ expected <= start + Period
  /\ at \in {"phase", "end"} => start < expected

LoopInv == TypeOK /\ ClockInv /\ StartInv /\ ExpectedInv

(* The clocks agree and the expected time stays within its window.         *)
LEMMA LoopInvariant == Spec => []LoopInv
<1> USE LoopAssumption
<1>1. Init => LoopInv
  BY DEF Init, LoopInv, TypeOK, ClockInv, StartInv, ExpectedInv, Released,
         PhaseCount, Phases, Waking
<1>2. LoopInv /\ TypeOK' /\ [Next]_vars => LoopInv'
  <2> SUFFICES ASSUME LoopInv, TypeOK', [Next]_vars
               PROVE  ClockInv' /\ StartInv' /\ ExpectedInv'
    BY DEF LoopInv
  <2>t. TypeOK /\ ClockInv /\ StartInv /\ ExpectedInv
    BY DEF LoopInv
  <2> DEFINE A == alarms * Period
             R == notif * Period
  <2>p. /\ Period \in Nat \ {0} /\ alarms \in Nat /\ notif \in Nat /\ raw \in 0..(Period - 1)
        /\ now \in Nat /\ start \in Nat /\ expected \in Nat
    BY <2>t DEF TypeOK
  <2>a. A \in Nat /\ R \in Nat /\ Released = A - R
    BY <2>p DEF Released
  <2>b. (notif > 0 => Period <= R) /\ (notif = 0 => R = 0)
    BY <2>p
  <2>c. /\ (alarms + 1) * Period = A + Period
        /\ ((alarms + 1) - (notif + 1)) * Period = A - R
        /\ (alarms - 0) * Period = A
    BY <2>p
  <2>d. now = A + raw
    BY <2>t DEF ClockInv
  <2>1. CASE Time
    <3>1. CASE raw + 1 = Period
      <4>1. /\ alarms' = alarms + 1 /\ notif' = notif + 1 /\ raw' = 0
            /\ now' = now + 1 /\ at' = at /\ start' = start /\ expected' = expected
        BY <2>1, <3>1 DEF Time
      <4>2. alarms' * Period = A + Period /\ Released' = Released
        BY <4>1, <2>c, <2>a DEF Released
      <4>4. ClockInv'
        BY <4>1, <4>2, <2>d, <2>p, <2>a, <3>1, <2>t DEF ClockInv
      <4> HIDE DEF A, R
      <4>5. StartInv' /\ ExpectedInv'
        BY <4>1, <4>2, <2>p, <2>t DEF StartInv, ExpectedInv
      <4> QED
        BY <4>4, <4>5
    <3>2. CASE raw + 1 # Period
      <4>1. /\ alarms' = alarms /\ notif' = notif /\ raw' = raw + 1
            /\ now' = now + 1 /\ at' = at /\ start' = start /\ expected' = expected
        BY <2>1, <3>2 DEF Time
      <4> QED
        BY <4>1, <2>p, <2>t DEF ClockInv, StartInv, ExpectedInv, Released
    <3> QED
      BY <3>1, <3>2
  <2>2. CASE Take
    <3>1. /\ alarms' = alarms /\ notif' = 0 /\ raw' = raw /\ now' = now
          /\ at = "wait" /\ at' = "drain" /\ start' = start /\ expected' = expected
          /\ notif > 0
      BY <2>2 DEF Take, timeVars
    <3>2. ClockInv'
      BY <3>1, <2>t, <2>p DEF ClockInv
    <3>3. /\ expected < A - R + 3 * Period \/ expected <= start + Period
          /\ start <= now /\ Period <= R
      BY <3>1, <2>t, <2>a, <2>b DEF StartInv, ExpectedInv, Waking
    <3>5. Released' = A
      BY <3>1, <2>c DEF Released
    <3> HIDE DEF A, R
    <3>4. expected < A + 2 * Period
      BY <3>3, <2>p, <2>a, <2>d
    <3> QED
      BY <3>1, <3>2, <3>3, <3>4, <3>5 DEF StartInv, ExpectedInv, Waking
  <2>3. CASE Drain
    <3>1. /\ alarms' = alarms /\ notif' = 0 /\ raw' = raw /\ now' = now
          /\ at = "drain" /\ at' = "drain" /\ start' = start /\ expected' = expected
      BY <2>3 DEF Drain, timeVars
    <3>2. Released' = A /\ expected < A - R + 2 * Period
      BY <3>1, <2>a, <2>c, <2>t DEF Released, ExpectedInv, Waking
    <3>3. ClockInv'
      BY <3>1, <2>t, <2>p DEF ClockInv
    <3> HIDE DEF A, R
    <3>4. expected < A + 2 * Period
      BY <3>2, <2>p, <2>a
    <3> QED
      BY <3>1, <3>2, <3>3, <3>4, <2>t DEF StartInv, ExpectedInv, Waking
  <2>9. CASE Drained
    <3>1. /\ UNCHANGED <<alarms, notif, raw, now, start, expected>>
          /\ at = "drain" /\ at' = "read"
      BY <2>9 DEF Drained, timeVars
    <3> QED
      BY <3>1, <2>t DEF ClockInv, StartInv, ExpectedInv, Released, Waking
  <2>4. CASE Skip
    <3>1. /\ alarms' = alarms /\ notif' = notif /\ raw' = raw /\ now' = now
          /\ at' = "wait" /\ start' = now /\ expected' = now + Period
      BY <2>4 DEF Skip, timeVars
    <3> QED
      BY <3>1, <2>t, <2>p DEF ClockInv, StartInv, ExpectedInv, Waking
  <2>5. CASE Start
    <3>1. /\ alarms' = alarms /\ notif' = notif /\ raw' = raw /\ now' = now
          /\ at = "read" /\ at' = "phase" /\ start' = now /\ expected' = Corrected
      BY <2>5 DEF Start, timeVars
    <3>2. ClockInv'
      BY <3>1, <2>t, <2>p DEF ClockInv
    <3>3. Released' = A - R
      BY <3>1, <2>a DEF Released
    <3>4. expected < A - R + 2 * Period
      BY <3>1, <2>t, <2>a DEF ExpectedInv, Waking
    <3>5. /\ Corrected \in Nat /\ now < Corrected
          /\ \/ Corrected <= now + Period
             \/ Corrected = expected + Period
      BY <2>t, CorrectedBounds
    <3> HIDE DEF A, R
    <3>6. /\ Corrected < A - R + 3 * Period \/ Corrected <= now + Period
          /\ A - R <= now
      BY <3>4, <3>5, <2>d, <2>p, <2>a
    <3> QED
      BY <3>1, <3>2, <3>3, <3>5, <3>6, <2>p DEF StartInv, ExpectedInv, Waking
  <2>6. CASE PhaseEnd
    <3>1. /\ UNCHANGED <<alarms, notif, raw, now, start, expected>>
          /\ at = "phase" /\ at' \in {"phase", "end"}
      BY <2>6 DEF PhaseEnd, timeVars
    <3> QED
      BY <3>1, <2>t DEF ClockInv, StartInv, ExpectedInv, Released, Waking
  <2>7. CASE EndInTime \/ EndLate
    <3>1. /\ UNCHANGED <<alarms, notif, raw, now, start, expected>>
          /\ at = "end" /\ at' \in {"wait", "fault"}
      BY <2>7 DEF EndInTime, EndLate, timeVars
    <3> QED
      BY <3>1, <2>t DEF ClockInv, StartInv, ExpectedInv, Released, Waking
  <2>8. CASE UNCHANGED vars
    BY <2>8, <2>t DEF vars, timeVars, ClockInv, StartInv, ExpectedInv, Released
  <2> QED
    BY <2>1, <2>2, <2>3, <2>4, <2>5, <2>6, <2>7, <2>8, <2>9 DEF Next
<1> QED
  BY <1>1, <1>2, TypeCorrect, PTL DEF Spec

(* Drift correction: whatever stalls, overruns and skipped cycles came     *)
(* before, a running cycle expects the next start after its own start and  *)
(* less than three periods after it (control_loop_run).                    *)
THEOREM DriftBounded == Spec => []ExpectedTracks
<1>1. LoopInv => ExpectedTracks
  <2> SUFFICES ASSUME LoopInv, at \in {"phase", "end"}
               PROVE  start < expected /\ expected < start + 3 * Period
    BY DEF ExpectedTracks
  <2>1. /\ Released <= start /\ start < expected
        /\ expected < Released + 3 * Period \/ expected <= start + Period
    BY DEF LoopInv, StartInv, ExpectedInv, Waking
  <2>2. Released \in Int /\ start \in Nat /\ expected \in Nat /\ Period \in Nat \ {0}
    BY LoopAssumption DEF LoopInv, TypeOK, Released
  <2> QED
    BY <2>1, <2>2
<1> QED
  BY <1>1, LoopInvariant, PTL

-----------------------------------------------------------------------------
(* The time since the alarm that released the cycle, counted as one period *)
(* for each pending release, is no more than what exec measures and what   *)
(* it does not: a take finds at most one release unless a whole period     *)
(* went unseen or a cycle was late.                                        *)
Backlog == raw + notif * Period

LostInv ==
  missed = 0 /\ unseen < Period =>
    /\ alarms - taken - notif <= overrun
    /\ at = "wait" => Backlog <= Period + unseen
    /\ at \in Waking => Backlog <= unseen
    /\ at \in {"phase", "end"} => Backlog <= unseen + (now - start)

(* A release is lost without being counted only after a late cycle or a    *)
(* stall of a period between two measured windows (ulTaskNotifyTake with   *)
(* pdTRUE in control_loop_run).                                            *)
THEOREM LostNeedsMiss == Spec => []LostOnlyIfMissed
<1> USE LoopAssumption
<1>1. Init => LostInv
  BY DEF Init, LostInv, Backlog, Waking
<1>2. LoopInv /\ LostInv /\ [Next]_vars => LostInv'
  <2> SUFFICES ASSUME LoopInv, LostInv, [Next]_vars, missed' = 0, unseen' < Period
               PROVE  /\ alarms' - taken' - notif' <= overrun'
                      /\ at' = "wait" => Backlog' <= Period + unseen'
                      /\ at' \in Waking => Backlog' <= unseen'
                      /\ at' \in {"phase", "end"} => Backlog' <= unseen' + (now' - start')
    BY DEF LostInv
  <2>t. /\ Period \in Nat \ {0} /\ alarms \in Nat /\ notif \in Nat /\ raw \in 0..(Period - 1)
        /\ now \in Nat /\ start \in Nat /\ taken \in Nat /\ overrun \in Nat /\ missed \in Nat
        /\ unseen \in 0..Period
    BY DEF LoopInv, TypeOK
  <2> DEFINE R == notif * Period
  <2>r. /\ R \in Nat /\ Backlog = raw + R /\ (notif + 1) * Period = R + Period
        /\ notif = 0 => R = 0
        /\ notif >= 1 => Period <= R
        /\ notif >= 2 => 2 * Period <= R
    BY <2>t DEF Backlog
  <2>1. CASE Time
    <3>1. /\ UNCHANGED <<at, missed, start, taken, overrun>> /\ now' = now + 1
          /\ unseen < Period /\ missed = 0
      BY <2>1, <2>t DEF Time, statVars
    <3>2. Backlog' = Backlog + 1
      <4>1. CASE raw + 1 = Period
        <5>1. raw' = 0 /\ notif' = notif + 1
          BY <2>1, <4>1 DEF Time
        <5>2. Backlog' = 0 + (R + Period)
          BY <5>1, <2>r DEF Backlog
        <5> HIDE DEF R
        <5> QED
          BY <5>2, <2>r, <2>t, <4>1
      <4>2. CASE raw + 1 # Period
        <5>1. Backlog' = raw + 1 + R
          BY <2>1, <4>2 DEF Time, Backlog
        <5> HIDE DEF R
        <5> QED
          BY <5>1, <2>r, <2>t
      <4> QED
        BY <4>1, <4>2
    <3>3. /\ at \in {"phase", "end"} => unseen' = unseen
          /\ at \in Waking => unseen' = unseen + 1
          /\ at = "wait" /\ notif # 0 => unseen' = unseen + 1
          /\ at = "wait" /\ notif = 0 => unseen' = 0
      BY <2>1, <3>1, <2>t DEF Time, Waking
    <3> HIDE DEF R
    <3>4. at = "wait" /\ notif = 0 => Backlog' <= Period
      BY <3>2, <2>r, <2>t
    <3>5. alarms' - taken' - notif' <= overrun'
      <4>1. alarms - taken - notif <= overrun
        BY <3>1 DEF LostInv
      <4>2. \/ alarms' = alarms + 1 /\ notif' = notif + 1
            \/ alarms' = alarms /\ notif' = notif
        BY <2>1 DEF Time
      <4> QED
        BY <4>1, <4>2, <3>1, <2>t
    <3>6. Backlog \in Nat
      BY <2>r, <2>t
    <3> QED
      BY <3>1, <3>2, <3>3, <3>4, <3>5, <3>6, <2>t DEF LostInv, Waking
  <2>2. CASE Take
    <3>1. /\ at = "wait" /\ at' = "drain" /\ notif' = 0 /\ taken' = taken + 1
          /\ UNCHANGED <<alarms, raw, now, missed, unseen, overrun>> /\ notif > 0
      BY <2>2 DEF Take, statVars, timeVars
    <3>2. /\ alarms - taken - notif <= overrun
          /\ raw + R <= Period + unseen
      BY <3>1, <2>r DEF LostInv
    <3>3. Backlog' = raw
      BY <3>1, <2>t DEF Backlog
    <3> HIDE DEF R
    <3>4. notif = 1 /\ raw <= unseen
      BY <3>1, <3>2, <2>r, <2>t
    <3> QED
      BY <3>1, <3>2, <3>3, <3>4, <2>t DEF Waking
  <2>3. CASE Drain
    <3>1. at = "drain" /\ notif > 0 /\ UNCHANGED <<missed, unseen>>
      BY <2>3 DEF Drain
    <3>2. raw + R <= unseen
      BY <3>1, <2>r DEF LostInv, Waking
    <3> HIDE DEF R
    <3>3. FALSE
      BY <3>1, <3>2, <2>r, <2>t
    <3> QED
      BY <3>3
  <2>10. CASE Drained
    BY <2>10, <2>t DEF Drained, LostInv, statVars, timeVars, Backlog, Waking
  <2>4. CASE Skip
    <3>1. /\ at = "read" /\ at' = "wait"
          /\ UNCHANGED <<alarms, raw, notif, taken, missed, unseen, overrun>>
      BY <2>4 DEF Skip, statVars, timeVars
    <3>2. Backlog' = Backlog /\ Backlog <= unseen
      BY <3>1 DEF LostInv, Backlog, Waking
    <3>3. Backlog \in Nat
      BY <2>r, <2>t
    <3> HIDE DEF R
    <3> QED
      BY <3>1, <3>2, <3>3, <2>t DEF LostInv, Waking
  <2>5. CASE Start
    <3>1. /\ at = "read" /\ at' = "phase" /\ now' = now /\ start' = now
          /\ UNCHANGED <<alarms, raw, notif, taken, missed, unseen, overrun>>
      BY <2>5 DEF Start, timeVars
    <3>2. Backlog' = Backlog /\ Backlog <= unseen
      BY <3>1 DEF LostInv, Backlog, Waking
    <3>3. Backlog \in Nat
      BY <2>r, <2>t
    <3> HIDE DEF R
    <3> QED
      BY <3>1, <3>2, <3>3, <2>t DEF LostInv, Waking
  <2>6. CASE PhaseEnd
    <3>1. /\ at = "phase" /\ at' \in {"phase", "end"}
          /\ UNCHANGED <<alarms, raw, notif, taken, missed, unseen, overrun, now, start>>
      BY <2>6 DEF PhaseEnd, statVars, timeVars
    <3> QED
      BY <3>1 DEF LostInv, Backlog, Waking
  <2>7. CASE EndInTime
    <3>1. /\ at = "end" /\ at' = "wait" /\ now - start <= Period
          /\ UNCHANGED <<alarms, raw, notif, taken, missed, unseen, overrun>>
      BY <2>7 DEF EndInTime, Exec, timeVars
    <3>2. Backlog' = Backlog /\ Backlog <= unseen + (now - start)
      BY <3>1 DEF LostInv, Backlog
    <3>3. Backlog \in Nat
      BY <2>r, <2>t
    <3> HIDE DEF R
    <3> QED
      BY <3>1, <3>2, <3>3, <2>t DEF LostInv, Waking
  <2>8. CASE EndLate
    BY <2>8, <2>t DEF EndLate
  <2>9. CASE UNCHANGED vars
    BY <2>9, <2>t DEF vars, timeVars, statVars, LostInv, Backlog, Waking
  <2> QED
    BY <2>1, <2>2, <2>3, <2>4, <2>5, <2>6, <2>7, <2>8, <2>9, <2>10 DEF Next
<1>3. LoopInv /\ LostInv => LostOnlyIfMissed
  BY DEF LoopInv, TypeOK, LostInv, LostOnlyIfMissed
<1> QED
  BY <1>1, <1>2, <1>3, LoopInvariant, PTL DEF Spec

-----------------------------------------------------------------------------
(* Each late cycle of a streak took at least Period + 1, one after the     *)
(* other since lateSince.                                                  *)
Late == consecutive * (Period + 1)

FaultInv ==
  /\ at # "fault" => consecutive <= Threshold
  /\ at = "fault" => consecutive = Threshold + 1
  /\ at \in {"phase", "end"} => lateSince + Late <= start /\ start <= now
  /\ at \notin {"phase", "end"} => lateSince + Late <= now

(* The deadline fault is raised only after more than Threshold + 1 periods *)
(* without a cycle that met its deadline (deadline monitor of              *)
(* control_loop_run).                                                      *)
THEOREM FaultNeedsStreak == Spec => []FaultIsSustained
<1> USE LoopAssumption
<1>1. Init => FaultInv
  BY DEF Init, FaultInv, Late
<1>2. TypeOK /\ FaultInv /\ [Next]_vars => FaultInv'
  <2> SUFFICES ASSUME TypeOK, FaultInv, [Next]_vars PROVE FaultInv'
    OBVIOUS
  <2>t. /\ Period \in Nat \ {0} /\ now \in Nat /\ start \in Nat /\ lateSince \in Nat
        /\ consecutive \in Nat /\ Threshold \in Nat /\ Late \in Nat
    BY DEF TypeOK, Late
  <2>1. CASE Time \/ Take \/ Drain \/ Drained \/ Skip \/ Start \/ PhaseEnd
    <3>1. UNCHANGED <<consecutive, lateSince>>
      BY <2>1 DEF Time, Take, Drain, Drained, Skip, Start, PhaseEnd, statVars, histVars
    <3>2. Late' = Late
      BY <3>1 DEF Late
    <3>3. CASE Time
      BY <3>1, <3>2, <3>3, <2>t DEF FaultInv, Time
    <3>4. CASE Take \/ Drain \/ Drained \/ Skip \/ Start \/ PhaseEnd
      BY <3>1, <3>2, <3>4, <2>t
         DEF FaultInv, Take, Drain, Drained, Skip, Start, PhaseEnd, timeVars
    <3> QED
      BY <2>1, <3>3, <3>4
  <2>2. CASE EndInTime
    <3>1. Late' = 0
      BY <2>2, <2>t DEF EndInTime, Late
    <3> QED
      BY <2>2, <3>1, <2>t DEF EndInTime, FaultInv, timeVars
  <2>3. CASE EndLate
    <3>1. Late' = Late + Period + 1
      BY <2>3, <2>t DEF EndLate, Late
    <3>2. now - start >= Period + 1 /\ lateSince + Late <= start
      BY <2>3, <2>t DEF EndLate, Exec, FaultInv
    <3>3. /\ now' = now /\ lateSince' = lateSince /\ consecutive' = consecutive + 1
          /\ at' = IF consecutive + 1 > Threshold THEN "fault" ELSE "wait"
          /\ at = "end"
      BY <2>3 DEF EndLate, timeVars
    <3>4. lateSince' + Late' <= now'
      BY <3>1, <3>2, <3>3, <2>t
    <3> QED
      BY <3>3, <3>4, <2>t DEF FaultInv
  <2>4. CASE UNCHANGED vars
    BY <2>4, <2>t DEF vars, timeVars, statVars, histVars, FaultInv, Late
  <2> QED
    BY <2>1, <2>2, <2>3, <2>4 DEF Next
<1>3. TypeOK /\ FaultInv => FaultIsSustained
  <2> SUFFICES ASSUME TypeOK, FaultInv, at = "fault"
               PROVE  now - lateSince > (Threshold + 1) * Period
    BY DEF FaultIsSustained
  <2>1. /\ now \in Nat /\ lateSince \in Nat /\ Threshold \in Nat /\ Period \in Nat
        /\ consecutive = Threshold + 1 /\ lateSince + Late <= now
    BY DEF TypeOK, FaultInv
  <2>2. Late = (Threshold + 1) * Period + Threshold + 1
    BY <2>1 DEF Late
  <2>3. (Threshold + 1) * Period \in Nat
    BY <2>1
  <2> QED
    BY <2>1, <2>2, <2>3
<1> QED
  BY <1>1, <1>2, <1>3, TypeCorrect, PTL DEF Spec

-----------------------------------------------------------------------------
(* Since the last export, a miss was counted exactly if the maximum shows  *)
(* a late cycle; the abort is the exception, which counts and exports no   *)
(* more.                                                                   *)
MissInv ==
  /\ exported.miss <= missed
  /\ at # "fault" => (missed > exported.miss <=> execMax > Period)
  /\ ExportShowsMiss

(* Each exported maximum shows a late cycle exactly when the exported      *)
(* count of misses grew (control_loop_run, kernel_metrics_update): no miss *)
(* falls between two exports, also where a window without samples is       *)
(* carried over.                                                           *)
THEOREM ExportsAgree == Spec => []ExportShowsMiss
<1> USE LoopAssumption
<1>1. Init => MissInv
  BY DEF Init, MissInv, ExportShowsMiss
<1>2. TypeOK /\ MissInv /\ [Next]_vars => MissInv'
  <2> SUFFICES ASSUME TypeOK, MissInv, [Next]_vars PROVE MissInv'
    OBVIOUS
  <2>t. /\ Period \in Nat /\ now \in Nat /\ start \in Nat /\ missed \in Nat
        /\ execMax \in Nat /\ prevMissed \in Nat
        /\ exported.miss \in Nat /\ exported.exec \in Nat
    BY DEF TypeOK
  <2>1. CASE Time \/ Take \/ Drain \/ Drained \/ Skip \/ Start \/ PhaseEnd
    <3>1. /\ UNCHANGED <<missed, execMax, exported, prevMissed>>
          /\ at # "fault" \/ at' = "fault"
      BY <2>1 DEF Time, Take, Drain, Drained, Skip, Start, PhaseEnd, statVars, histVars
    <3> QED
      BY <3>1 DEF MissInv, ExportShowsMiss
  <2>2. CASE EndInTime
    <3>1. at = "end" /\ missed' = missed /\ NewMax \in Int
          /\ (NewMax > Period <=> execMax > Period)
      BY <2>2, <2>t DEF EndInTime, NewMax, Exec
    <3>2. \/ /\ exported'.miss = missed /\ exported'.exec = NewMax
             /\ execMax' = 0 /\ prevMissed' = exported.miss
          \/ execMax' = NewMax /\ UNCHANGED <<exported, prevMissed>>
      BY <2>2 DEF EndInTime, Export
    <3> QED
      BY <3>1, <3>2, <2>t DEF MissInv, ExportShowsMiss
  <2>3. CASE EndLate
    <3>1. at = "end" /\ missed' = missed + 1 /\ NewMax \in Int /\ NewMax > Period
      BY <2>3, <2>t DEF EndLate, NewMax, Exec
    <3>2. \/ /\ exported'.miss = missed + 1 /\ exported'.exec = NewMax
             /\ execMax' = 0 /\ prevMissed' = exported.miss
          \/ execMax' = NewMax /\ UNCHANGED <<exported, prevMissed>>
          \/ at' = "fault" /\ UNCHANGED <<exported, prevMissed>>
      BY <2>3 DEF EndLate, Export
    <3> QED
      BY <3>1, <3>2, <2>t DEF MissInv, ExportShowsMiss
  <2>4. CASE UNCHANGED vars
    BY <2>4 DEF vars, statVars, histVars, MissInv, ExportShowsMiss
  <2> QED
    BY <2>1, <2>2, <2>3, <2>4 DEF Next
<1>3. MissInv => ExportShowsMiss
  BY DEF MissInv
<1> QED
  BY <1>1, <1>2, <1>3, TypeCorrect, PTL DEF Spec

-----------------------------------------------------------------------------
(* The output path, for every number of outputs, every policy and every    *)
(* queue length.                                                           *)
(*                                                                         *)
(* LoopOnlyConverges: if only the control loop writes the output state (no *)
(* service of DirectWriters is in use), no write is lost.  This is the     *)
(* contract of state.h, services go through the queue, and the proof shows *)
(* what it buys.                                                           *)
(*                                                                         *)
(* LatchHolds: an output latched while no other value was under way to it  *)
(* keeps the value it was latched with until it is rearmed, as long as no  *)
(* ladder program bypasses the guard.                                      *)

(* Advancing the index of io_driver_update keeps it in the table.          *)
LEMMA NextOutputType ==
  ASSUME OutTypeOK, NEW p \in Points, NEW q \in Points, NextOutput(p, q)
  PROVE  pc' \in [Tasks -> Points] /\ id' \in [Tasks -> Outputs]
BY OutputAssumption DEF OutTypeOK, NextOutput, Outputs, Tasks

(* Every reachable state of the output path is well typed.                 *)
THEOREM OutputTypeCorrect == OutSpec => []OutTypeOK
<1> USE OutputAssumption
<1>1. OutInit => OutTypeOK
  <2> SUFFICES ASSUME OutInit PROVE OutTypeOK
    OBVIOUS
  <2> USE DEF OutInit, Value, Outputs
  <2>1. value \in [Outputs -> Value] /\ gpio \in [Outputs -> Value] /\ 1 \in Outputs
    OBVIOUS
  <2>2. held \in [Outputs -> Value \cup {NoValue}]
    BY <2>1
  <2> QED
    BY <2>1, <2>2 DEF OutTypeOK, AllServices, Tasks, Command, Points
<1>2. OutTypeOK /\ [OutNext]_outVars => OutTypeOK'
  <2> SUFFICES ASSUME OutTypeOK, [OutNext]_outVars PROVE OutTypeOK'
    OBVIOUS
  <2>0. [OutNext]_outVars => services' = services
    BY DEF OutNext, Fixed, outVars
  <2>h. held' \in [Outputs -> Value \cup {NoValue}]
    <3>1. CASE UNCHANGED held BY <3>1 DEF OutTypeOK
    <3>2. ASSUME NEW t, NEW o \in Outputs, FailsafeApply(t, o)
          PROVE  held' \in [Outputs -> Value \cup {NoValue}]
      BY <3>2 DEF FailsafeApply, SafeValue, OutTypeOK, Value
    <3>3. ASSUME NEW o \in Outputs, FailsafeRearm(o)
          PROVE  held' \in [Outputs -> Value \cup {NoValue}]
      BY <3>3 DEF FailsafeRearm, OutTypeOK
    <3>4. id["aux"] \in Outputs
      BY DEF OutTypeOK, Tasks
    <3> QED
      BY <3>1, <3>2, <3>3, <3>4 DEF OutNext, Step, outVars, FailsafeTest, FailsafeEntry
  <2> USE <2>0, <2>h DEF OutTypeOK, Value, Tasks, Points, taskVars, fsVars
  <2>1. ASSUME NEW t \in Tasks, StateSetInt(t) PROVE OutTypeOK'
    <3>1. CASE SetUnchanged(t) BY <3>1 DEF SetUnchanged, Return, Outputs
    <3>2. CASE SetChanged(t) BY <3>2 DEF SetChanged
    <3>3. CASE HookLoad(t) BY <3>3 DEF HookLoad
    <3>4. CASE HookStore(t)
      <4>1. id[t] \in Outputs /\ pending' \in SUBSET Outputs
        BY <2>1, <3>4 DEF HookStore
      <4> QED BY <2>1, <3>4, <4>1 DEF HookStore, Return, Outputs
    <3> QED BY <2>1, <3>1, <3>2, <3>3, <3>4 DEF StateSetInt
  <2>2. CASE CtlPop
    <3>1. Head(cmds) \in Command /\ Tail(cmds) \in Seq(Command)
            /\ Len(Tail(cmds)) = Len(cmds) - 1 /\ Len(cmds) \in Nat
      BY <2>2, HeadTailProperties DEF CtlPop
    <3> QED BY <2>2, <3>1 DEF CtlPop, Call, Command
  <2>3. CASE CtlNoCommand BY <2>3 DEF CtlNoCommand
  <2>4. CASE CtlApply BY <2>4 DEF CtlApply, Outputs
  <2>5. CASE CtlScanSame BY <2>5, NextOutputType DEF CtlScanSame
  <2>6. CASE CtlScanMoved BY <2>6 DEF CtlScanMoved
  <2>7. CASE CtlScanStore BY <2>7, NextOutputType DEF CtlScanStore
  <2>8. CASE CtlDriveSkip BY <2>8, NextOutputType DEF CtlDriveSkip, DriveNext
  <2>9. CASE CtlDriveRead BY <2>9 DEF CtlDriveRead
  <2>10. CASE CtlSetLevel BY <2>10 DEF CtlSetLevel
  <2>11. CASE CtlClear BY <2>11, NextOutputType DEF CtlClear, DriveNext
  <2>12. CASE CtlCycle BY <2>12 DEF CtlCycle
  <2>13. ASSUME NEW o \in Outputs, NEW v \in Value,
                CtlAutomation(o, v) \/ CtlLadder(o, v) \/ ManualGuard(o, v)
                  \/ RemoteCommand(o, v)
         PROVE OutTypeOK'
    BY <2>13 DEF CtlAutomation, CtlLadder, ManualGuard, RemoteCommand, Call,
                 Guard
  <2>14. ASSUME NEW o \in Outputs,
                FailsafeTest(o) \/ FailsafeRearm(o) \/ OwnerChange(o)
         PROVE OutTypeOK'
    <3>1. CASE FailsafeTest(o)
      BY <3>1 DEF FailsafeTest, FailsafeApply, Call, SafeValue
    <3>2. CASE FailsafeRearm(o) BY <3>2 DEF FailsafeRearm
    <3>3. CASE OwnerChange(o) BY <3>3 DEF OwnerChange
    <3> QED BY <2>14, <3>1, <3>2, <3>3
  <2>15. CASE ManualPush
    <3>1. CASE Len(cmds) < QueueLen
      <4>1. [id |-> id["http"], val |-> val["http"]] \in Command
        BY DEF Command
      <4>2. cmds' \in Seq(Command) /\ Len(cmds') = Len(cmds) + 1
              /\ Len(cmds) \in Nat
        BY <2>15, <3>1, <4>1 DEF ManualPush
      <4> QED BY <2>15, <3>1, <4>2 DEF ManualPush, Return, Outputs
    <3>2. CASE ~ (Len(cmds) < QueueLen)
      BY <2>15, <3>2 DEF ManualPush, Return, Outputs
    <3> QED BY <3>1, <3>2
  <2>16. CASE GatewayLost BY <2>16 DEF GatewayLost, Outputs
  <2>17. CASE FailsafeEntry
    BY <2>17 DEF FailsafeEntry, FailsafeApply, Call, SafeValue
  <2>18. CASE UNCHANGED outVars BY <2>18 DEF outVars
  <2> QED
    BY <2>1, <2>2, <2>3, <2>4, <2>5, <2>6, <2>7, <2>8, <2>9, <2>10, <2>11,
       <2>12, <2>13, <2>14, <2>15, <2>16, <2>17, <2>18 DEF OutNext, Step, Plain, CtlStep
<1> QED BY <1>1, <1>2, PTL DEF OutSpec

-----------------------------------------------------------------------------
(* Inductive invariant of the loop-only system.  A pin that differs from   *)
(* the state is marked pending, or is about to be by the control loop; the *)
(* mask the control loop has loaded is still the current one; and between  *)
(* the read of the state and the clearing of the bit the state stands.     *)
LoopOnly ==
  /\ pc["aux"] = "idle" /\ pc["rx"] = "idle" /\ pc["http"] \in {"idle", "push"}
  /\ owned = Outputs /\ localMask = Outputs
  /\ pc["ctl"] # "scanstore"

Marked ==
  \A o \in Outputs :
    \/ gpio[o] = value[o]
    \/ o \in pending
    \/ pc["ctl"] \in {"load", "store"} /\ id["ctl"] = o

LoopFresh ==
  /\ pc["ctl"] \in {"store", "clear"} => reg["ctl"] = pending
  /\ pc["ctl"] = "level" => val["ctl"] = value[id["ctl"]]
  /\ pc["ctl"] = "clear" => gpio[id["ctl"]] = value[id["ctl"]]

LoopOnlyInv ==
  services \cap DirectWriters = {} => LoopOnly /\ Marked /\ LoopFresh

(* If only the control loop writes outputs, every write reaches the pin:   *)
(* no interleaving with the queue loses a pending bit.                     *)
THEOREM LoopOnlyConverges == OutSpec => []LoopWritesConverge
<1> USE OutputAssumption
<1>1. OutInit => LoopOnlyInv
  BY DEF OutInit, LoopOnlyInv, LoopOnly, Marked, LoopFresh, Tasks
<1>2. OutTypeOK /\ LoopOnlyInv /\ [OutNext]_outVars => LoopOnlyInv'
  <2>0. [OutNext]_outVars => services' = services
    BY DEF OutNext, Fixed, outVars
  <2> SUFFICES ASSUME OutTypeOK, LoopOnly, Marked, LoopFresh, [OutNext]_outVars,
                      services \cap DirectWriters = {}
               PROVE  LoopOnly' /\ Marked' /\ LoopFresh'
    BY <2>0 DEF LoopOnlyInv
  <2>a. "test" \notin services /\ "remote" \notin services
          /\ "failover" \notin services /\ "owner" \notin services
    BY DEF DirectWriters
  <2> USE DEF LoopOnly, Marked, LoopFresh, OutTypeOK, Tasks, taskVars, fsVars
  <2>1. ASSUME NEW t \in Tasks, StateSetInt(t)
        PROVE  LoopOnly' /\ Marked' /\ LoopFresh'
    <3>0. t = "ctl"
      BY <2>1 DEF StateSetInt, SetUnchanged, SetChanged, HookLoad, HookStore
    <3>1. CASE SetUnchanged(t) BY <3>0, <3>1 DEF SetUnchanged, Return
    <3>2. CASE SetChanged(t) BY <3>0, <3>2 DEF SetChanged
    <3>3. CASE HookLoad(t) BY <3>0, <3>3 DEF HookLoad
    <3>4. CASE HookStore(t) BY <3>0, <3>4 DEF HookStore, Return
    <3> QED BY <2>1, <3>1, <3>2, <3>3, <3>4 DEF StateSetInt
  <2>2. CASE CtlPop BY <2>2 DEF CtlPop, Call
  <2>3. CASE CtlNoCommand BY <2>3 DEF CtlNoCommand
  <2>4. CASE CtlApply BY <2>4 DEF CtlApply
  <2>5. CASE CtlScanSame BY <2>5 DEF CtlScanSame, NextOutput
  <2>6. CASE CtlScanMoved BY <2>6 DEF CtlScanMoved, Moved
  <2>7. CASE CtlScanStore BY <2>7 DEF CtlScanStore
  <2>8. CASE CtlDriveSkip BY <2>8 DEF CtlDriveSkip, DriveNext, NextOutput
  <2>9. CASE CtlDriveRead BY <2>9 DEF CtlDriveRead
  <2>10. CASE CtlSetLevel BY <2>10 DEF CtlSetLevel
  <2>11. CASE CtlClear BY <2>11 DEF CtlClear, DriveNext, NextOutput
  <2>12. CASE CtlCycle BY <2>12 DEF CtlCycle
  <2>13. ASSUME NEW o \in Outputs, NEW v \in Value,
                CtlAutomation(o, v) \/ CtlLadder(o, v) \/ ManualGuard(o, v)
                  \/ RemoteCommand(o, v)
         PROVE  LoopOnly' /\ Marked' /\ LoopFresh'
    BY <2>a, <2>13 DEF CtlAutomation, CtlLadder, ManualGuard, RemoteCommand,
                       Call
  <2>14. ASSUME NEW o \in Outputs,
                FailsafeTest(o) \/ FailsafeRearm(o) \/ OwnerChange(o)
         PROVE  LoopOnly' /\ Marked' /\ LoopFresh'
    BY <2>a, <2>14 DEF FailsafeTest, FailsafeRearm, OwnerChange
  <2>15. CASE ManualPush BY <2>15 DEF ManualPush, Return
  <2>16. CASE GatewayLost BY <2>a, <2>16 DEF GatewayLost
  <2>17. CASE FailsafeEntry BY <2>17 DEF FailsafeEntry
  <2>18. CASE UNCHANGED outVars BY <2>18 DEF outVars
  <2> QED
    BY <2>1, <2>2, <2>3, <2>4, <2>5, <2>6, <2>7, <2>8, <2>9, <2>10, <2>11,
       <2>12, <2>13, <2>14, <2>15, <2>16, <2>17, <2>18 DEF OutNext, Step, Plain, CtlStep
<1>3. LoopOnlyInv => LoopWritesConverge
  BY DEF LoopOnlyInv, LoopOnly, Marked, LoopWritesConverge, OutputsConverge, Quiescent,
         Driven
<1> QED BY <1>1, <1>2, <1>3, OutputTypeCorrect, PTL DEF OutSpec

-----------------------------------------------------------------------------
(* Inductive invariant behind the latch: every value under way to an       *)
(* output that was latched undisturbed is the one it holds, and it has     *)
(* that value unless a fail-safe write of it is still to come.             *)
Carries(o, v) ==
  /\ \A t \in Tasks : pc[t] \in {"set", "push"} /\ id[t] = o => val[t] = v
  /\ \A k \in 1..Len(cmds) : cmds[k].id = o => cmds[k].val = v

LatchInv ==
  \A o \in Outputs :
    Latched(o) /\ held[o] # NoValue =>
      /\ Carries(o, held[o])
      /\ value[o] = held[o] \/ FailsafeInFlight(o)

(* An output latched while no other value was under way to it keeps the    *)
(* value it was latched with until it is rearmed, whatever manual, remote  *)
(* and automation commands and further trips come.                         *)
THEOREM LatchHolds == OutSpec => []LatchKept
<1> USE OutputAssumption
<1> DEFINE Guarded == "ladder" \notin services
<1>1. OutInit => (Guarded => LatchInv)
  BY DEF OutInit, LatchInv, Latched, Carries, Tasks
<1>2. OutTypeOK /\ OutTypeOK' /\ (Guarded => LatchInv) /\ [OutNext]_outVars => (Guarded => LatchInv)'
  <2>0. [OutNext]_outVars => services' = services
    BY DEF OutNext, Fixed, outVars
  <2> SUFFICES ASSUME OutTypeOK, OutTypeOK', LatchInv, [OutNext]_outVars, Guarded
               PROVE  LatchInv'
    BY <2>0
  <2> SUFFICES ASSUME NEW o \in Outputs, Latched(o)', held'[o] # NoValue
               PROVE  /\ Carries(o, held[o])'
                      /\ value'[o] = held'[o] \/ FailsafeInFlight(o)'
    BY DEF LatchInv
  <2>i. Latched(o) /\ held[o] # NoValue =>
          Carries(o, held[o]) /\ (value[o] = held[o] \/ FailsafeInFlight(o))
    BY DEF LatchInv
  <2> USE DEF OutTypeOK, Tasks, taskVars, fsVars
  <2>1. CASE Plain /\ UNCHANGED held
    <3>0. UNCHANGED <<active, held>> /\ Latched(o) /\ held[o] # NoValue
      <4>1. UNCHANGED active
        BY <2>1 DEF Plain, CtlStep, StateSetInt, SetUnchanged, SetChanged, HookLoad,
           HookStore, CtlPop, CtlNoCommand, CtlApply, CtlScanSame, CtlScanMoved,
           CtlScanStore, CtlDriveSkip, DriveNext, CtlDriveRead, CtlSetLevel, CtlClear,
           CtlCycle, CtlAutomation, CtlLadder, ManualGuard, RemoteCommand, OwnerChange,
           ManualPush, GatewayLost
      <4> QED
        BY <2>1, <4>1 DEF Latched
    <3>1. Carries(o, held[o]) /\ (value[o] = held[o] \/ FailsafeInFlight(o))
      BY <3>0, <2>i
    <3> DEFINE w == held[o]
               Goal == /\ \A t \in Tasks : pc'[t] \in {"set", "push"} /\ id'[t] = o
                                              => val'[t] = w
                       /\ \A k \in 1..Len(cmds') : cmds'[k].id = o => cmds'[k].val = w
                       /\ \/ value'[o] = w
                          \/ \E t \in {"http", "aux"} : pc'[t] = "set" /\ id'[t] = o
    <3>2. /\ \A t \in Tasks : pc[t] \in {"set", "push"} /\ id[t] = o => val[t] = w
          /\ \A k \in 1..Len(cmds) : cmds[k].id = o => cmds[k].val = w
          /\ \/ value[o] = w
             \/ \E t \in {"http", "aux"} : pc[t] = "set" /\ id[t] = o
      BY <3>1 DEF Carries, FailsafeInFlight
    <3>g. SUFFICES Goal
      BY <3>0 DEF Carries, FailsafeInFlight
    <3> HIDE DEF w
    <3> USE <3>2
    <3>3. ASSUME NEW t \in Tasks, StateSetInt(t) PROVE Goal
      <4>1. CASE SetUnchanged(t) BY <4>1, <3>3 DEF SetUnchanged, Return
      <4>2. CASE SetChanged(t) BY <4>2, <3>3 DEF SetChanged
      <4>3. CASE HookLoad(t) BY <4>3 DEF HookLoad
      <4>4. CASE HookStore(t) BY <4>4 DEF HookStore, Return
      <4> QED BY <3>3, <4>1, <4>2, <4>3, <4>4 DEF StateSetInt
    <3>4. CASE CtlPop
      <4>1. /\ Head(cmds) = cmds[1] /\ Len(cmds) \in Nat \ {0}
            /\ Len(Tail(cmds)) = Len(cmds) - 1
            /\ \A k \in 1..Len(Tail(cmds)) : Tail(cmds)[k] = cmds[k + 1]
        BY <3>4, HeadTailProperties, EmptySeq DEF CtlPop
      <4>2. Head(cmds).id = o => Head(cmds).val = w
        BY <4>1
      <4>3. \A k \in 1..Len(cmds') : cmds'[k].id = o => cmds'[k].val = w
        BY <3>4, <4>1 DEF CtlPop
      <4> QED BY <3>4, <4>2, <4>3 DEF CtlPop, Call
    <3>5. CASE CtlNoCommand BY <3>5 DEF CtlNoCommand
    <3>6. CASE CtlApply BY <3>6 DEF CtlApply
    <3>7. CASE CtlScanSame BY <3>7 DEF CtlScanSame, NextOutput
    <3>8. CASE CtlScanMoved BY <3>8 DEF CtlScanMoved
    <3>9. CASE CtlScanStore BY <3>9 DEF CtlScanStore, NextOutput
    <3>10. CASE CtlDriveSkip BY <3>10 DEF CtlDriveSkip, DriveNext, NextOutput
    <3>11. CASE CtlDriveRead BY <3>11 DEF CtlDriveRead
    <3>12. CASE CtlSetLevel BY <3>12 DEF CtlSetLevel
    <3>13. CASE CtlClear BY <3>13 DEF CtlClear, DriveNext, NextOutput
    <3>14. CASE CtlCycle BY <3>14 DEF CtlCycle
    <3>15. ASSUME NEW p \in Outputs, NEW v \in Value,
                  CtlAutomation(p, v) \/ CtlLadder(p, v) \/ ManualGuard(p, v)
                    \/ RemoteCommand(p, v)
           PROVE  Goal
      <4>1. CASE CtlAutomation(p, v) BY <4>1, <3>0 DEF CtlAutomation, Call, Guard
      <4>2. CASE CtlLadder(p, v) BY <4>2 DEF CtlLadder
      <4>3. CASE ManualGuard(p, v) BY <4>3, <3>0 DEF ManualGuard, Guard
      <4>4. CASE RemoteCommand(p, v) BY <4>4, <3>0 DEF RemoteCommand, Call, Guard
      <4> QED BY <3>15, <4>1, <4>2, <4>3, <4>4
    <3>16. ASSUME NEW p \in Outputs, OwnerChange(p) PROVE Goal
      BY <3>16 DEF OwnerChange
    <3>17. CASE ManualPush
      <4>1. \A k \in 1..Len(cmds') : cmds'[k].id = o => cmds'[k].val = w
        BY <3>17 DEF ManualPush
      <4> QED BY <3>17, <4>1 DEF ManualPush, Return
    <3>18. CASE GatewayLost BY <3>18 DEF GatewayLost
    <3> QED
      BY <2>1, <3>3, <3>4, <3>5, <3>6, <3>7, <3>8, <3>9, <3>10, <3>11, <3>12,
         <3>13, <3>14, <3>15, <3>16, <3>17, <3>18 DEF Plain, CtlStep
  <2>2. ASSUME NEW t \in {"http", "aux"}, NEW p \in Outputs, FailsafeApply(t, p),
               pc[t] \in {"idle", "entry"}
        PROVE  /\ Carries(o, held[o])'
               /\ value'[o] = held'[o] \/ FailsafeInFlight(o)'
    <3>1. CASE p = o
      <4>1. /\ o \in Manual /\ OnlyCarry(t, o, SafeValue(o)) /\ held'[o] = SafeValue(o)
        BY <2>2, <3>1 DEF FailsafeApply, Latched
      <4>2. /\ pc' = [pc EXCEPT ![t] = "set"] /\ id' = [id EXCEPT ![t] = o]
            /\ val' = [val EXCEPT ![t] = SafeValue(o)] /\ cmds' = cmds
        BY <2>2, <3>1 DEF FailsafeApply, Call
      <4> QED
        BY <4>1, <4>2, <2>2 DEF OnlyCarry, Carries, FailsafeInFlight
    <3>2. CASE p # o
      <4>1. /\ held'[o] = held[o] /\ active'[o] = active[o] /\ UNCHANGED <<value, cmds>>
            /\ pc' = [pc EXCEPT ![t] = "set"] /\ id' = [id EXCEPT ![t] = p]
            /\ \A u \in Tasks : u # t => val'[u] = val[u]
        BY <2>2, <3>2 DEF FailsafeApply, Call
      <4>2. Carries(o, held[o]) /\ (value[o] = held[o] \/ FailsafeInFlight(o))
        BY <4>1, <2>i DEF Latched
      <4> QED
        BY <4>1, <4>2, <2>2, <3>2 DEF Carries, FailsafeInFlight
    <3> QED
      BY <3>1, <3>2
  <2>3. ASSUME NEW p \in Outputs, FailsafeTest(p)
        PROVE  /\ Carries(o, held[o])'
               /\ value'[o] = held'[o] \/ FailsafeInFlight(o)'
    BY <2>2, <2>3 DEF FailsafeTest
  <2>4. CASE FailsafeEntry
    BY <2>2, <2>4 DEF FailsafeEntry
  <2>5. ASSUME NEW p \in Outputs, FailsafeRearm(p)
        PROVE  /\ Carries(o, held[o])'
               /\ value'[o] = held'[o] \/ FailsafeInFlight(o)'
    <3>1. p # o /\ held'[o] = held[o] /\ active'[o] = active[o]
          /\ UNCHANGED <<value, cmds, pc, id, val>>
      BY <2>5 DEF FailsafeRearm, Latched
    <3>2. Carries(o, held[o]) /\ (value[o] = held[o] \/ FailsafeInFlight(o))
      BY <3>1, <2>i DEF Latched
    <3> QED
      BY <3>1, <3>2 DEF Carries, FailsafeInFlight
  <2>6. CASE UNCHANGED outVars
    BY <2>6, <2>i DEF outVars, Carries, FailsafeInFlight, Latched
  <2> QED
    BY <2>1, <2>3, <2>4, <2>5, <2>6 DEF OutNext, Step
<1>3. (Guarded => LatchInv) => LatchKept
  BY DEF LatchInv, LatchKept
<1> QED BY <1>1, <1>2, <1>3, OutputTypeCorrect, PTL DEF OutSpec
=============================================================================
