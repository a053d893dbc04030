------------------------------- MODULE Ladder -------------------------------
(***************************************************************************)
(* The ladder engine (ladder_engine.c) and the handler that deploys        *)
(* programs.  The control loop scans the program in memory; the task of    *)
(* the web server replaces it under the loop, without a lock: it empties   *)
(* memory, erases flash, fills memory and writes flash, four steps.  A     *)
(* scan that is under way when memory is emptied ends with the instruction *)
(* it is in, which may find its timer gone, or make a new one that stays.  *)
(*                                                                         *)
(* A program is a sequence of instructions <<op, tag, n>>; n is a preset.  *)
(* Arithmetic is <<op, tag, b, literal, dest>>, where b is the number      *)
(* itself or the tag of the second operand.  The bytes are left out.       *)
(***************************************************************************)
EXTENDS Integers, Sequences, FiniteSets, SequencesExt

CONSTANTS
    Tags,       \* entries of the state table a program may name
    Inputs,     \* those that are set from outside
    Programs,   \* programs that may be deployed
    Test,       \* the program of the self-test at the start
    MaxStack,   \* MAX_STACK
    MaxTimers,  \* MAX_TIMERS, and MAX_COUNTERS
    MaxInt,     \* INT32_MAX
    MaxCount,   \* bound on what a counter counts
    MaxTime,    \* bound on the clock
    MaxOps,     \* bound on deployments and starts
    MaxFail     \* bound on refused calls of the flash

VARIABLES
    prog,       \* s_bytecode, <<>> without a program
    flash,      \* the blob "bytecode"
    val,        \* the state table
    tim, cnt,   \* s_timers and s_counters by tag
    now,        \* the clock
    http, new,  \* where the deployment is, and its program
    since,      \* history: since when every scan found the rung of a TON on, of a TOF off
    asked,      \* history: the program of the last completed request
    ops, fails

vars == <<prog, flash, val, tim, cnt, now, http, new, since, asked, ops, fails>>

Contacts == {"LD", "LDN", "AND", "ANDN", "OR", "ORN", "EQU", "GRT", "LES"}
Branches == {"START", "NEXT", "END"}
Operations == {"ADD", "SUB", "MUL", "DIV"}
Ops == Contacts \cup Branches \cup Operations \cup {"ST", "SET", "RST", "TON", "TOF", "CTU", "CTD"}

\* Programs use the instructions there are, on entries there are.
ConstantsOK ==
    /\ MaxStack \in Nat /\ MaxStack >= 2
    /\ \A p \in Programs \cup {Test} :
          /\ Len(p) \in Nat /\ DOMAIN p = 1..Len(p)
          /\ \A i \in DOMAIN p : p[i][1] \in Ops /\ p[i][2] \in Tags /\ (p[i][1] = "TON" => p[i][3] \in Int)

Never == -1
Left == -2      \* since of a timer that a cut scan left running
Off == [t \in Tags |-> [on |-> FALSE, last |-> FALSE, start |-> 0]]
Zero == [t \in Tags |-> [last |-> FALSE, n |-> 0]]
NotSince == [t \in Tags |-> Never]

-----------------------------------------------------------------------------
(* One instruction, on a machine m = [acc, stk, val, tim, cnt, since].     *)

Bit(b) == IF b THEN 1 ELSE 0

\* Contacts and comparisons: the accumulator after op on value v.
Contact(op, acc, v) ==
    CASE op = "LD" -> v > 0
      [] op = "LDN" -> ~(v > 0)
      [] op = "AND" -> acc /\ v > 0
      [] op = "ANDN" -> acc /\ ~(v > 0)
      [] op = "OR" -> acc \/ v > 0
      [] op = "ORN" -> acc \/ ~(v > 0)
      [] op = "EQU" -> acc /\ v = 0
      [] op = "GRT" -> acc /\ v > 0
      [] op = "LES" -> acc /\ v < 0

\* Mutant: the second branch of a block goes on from the end of the first.
BranchLeaky(m, op) ==
    LET top == m.stk[Len(m.stk)]
    IN  CASE op = "START" -> [m EXCEPT !.stk = Append(@, [in |-> m.acc, out |-> FALSE])]
          [] op = "NEXT" /\ m.stk # <<>> -> [m EXCEPT !.stk[Len(m.stk)].out = @ \/ m.acc]
          [] op = "END" /\ m.stk # <<>> -> [m EXCEPT !.acc = @ \/ top.out, !.stk = Front(@)]

\* Blocks of parallel branches; an unmatched or too deep one is passed over.
Branch(m, op) ==
    LET top == m.stk[Len(m.stk)]
    IN  CASE op = "START" /\ Len(m.stk) < MaxStack -> [m EXCEPT !.stk = Append(@, [in |-> m.acc, out |-> FALSE])]
          [] op = "NEXT" /\ m.stk # <<>> -> [m EXCEPT !.stk[Len(m.stk)].out = @ \/ m.acc, !.acc = top.in]
          [] op = "END" /\ m.stk # <<>> -> [m EXCEPT !.acc = @ \/ top.out, !.stk = Front(@)]
          [] OTHER -> m

Coil(m, op, t) ==
    CASE op = "ST" -> [m EXCEPT !.val[t] = Bit(m.acc)]
      [] op = "SET" /\ m.acc -> [m EXCEPT !.val[t] = 1]
      [] op = "RST" /\ m.acc -> [m EXCEPT !.val[t] = 0, !.tim[t] = Off[t], !.cnt[t] = Zero[t], !.since[t] = Never]
      [] OTHER -> m

\* History of the rung of a timer, apart from what the engine keeps.
Since(m, t, holds) == IF ~holds THEN Never ELSE IF m.since[t] = Never THEN now ELSE m.since[t]

\* Mutant: the timer is not stopped when its rung goes off.
TonUnstopped(m, t, n) ==
    LET start == IF m.tim[t].on THEN m.tim[t].start ELSE now
        done == m.acc /\ now - start >= n
    IN  [m EXCEPT !.tim[t] = IF m.acc THEN [@ EXCEPT !.on = TRUE, !.start = start] ELSE @,
                  !.val[t] = Bit(done), !.acc = done, !.since[t] = Since(m, t, m.acc)]

Ton(m, t, n) ==
    LET start == IF m.tim[t].on THEN m.tim[t].start ELSE now
        done == m.acc /\ now - start >= n
    IN  [m EXCEPT !.tim[t] = IF m.acc THEN [@ EXCEPT !.on = TRUE, !.start = start] ELSE [@ EXCEPT !.on = FALSE],
                  !.val[t] = Bit(done), !.acc = done, !.since[t] = Since(m, t, m.acc)]

\* The timer remembers what it passed on, not what it was given.
Tof(m, t, n) ==
    LET begins == ~m.acc /\ m.tim[t].last
        start == IF begins THEN now ELSE m.tim[t].start
        runs == ~m.acc /\ (begins \/ m.tim[t].on)
        out == m.acc \/ (runs /\ now - start < n)
    IN  [m EXCEPT !.tim[t] = [on |-> runs /\ out, last |-> out, start |-> start],
                  !.val[t] = Bit(out), !.acc = out, !.since[t] = Since(m, t, ~m.acc)]

Edge(m, t) == m.acc /\ ~m.cnt[t].last

Ctu(m, t, n) ==
    LET c == m.cnt[t].n + Bit(Edge(m, t))
    IN  [m EXCEPT !.cnt[t] = [last |-> m.acc, n |-> c], !.val[t] = Bit(c >= n), !.acc = (c >= n)]

\* A counter at zero is filled again before it counts.
Ctd(m, t, n) ==
    LET from == IF m.cnt[t].n = 0 THEN n ELSE m.cnt[t].n
        c == IF Edge(m, t) /\ from > 0 THEN from - 1 ELSE from
    IN  [m EXCEPT !.cnt[t] = [last |-> m.acc, n |-> c], !.val[t] = Bit(c = 0), !.acc = (c = 0)]

Saturated(x) == IF x > MaxInt THEN MaxInt ELSE IF x < -MaxInt - 1 THEN -MaxInt - 1 ELSE x
Abs(x) == IF x < 0 THEN -x ELSE x

\* Division rounds towards zero; by zero it gives zero.
Quotient(a, b) ==
    IF b = 0 THEN 0
    ELSE IF (a < 0) = (b < 0) THEN Abs(a) \div Abs(b) ELSE -(Abs(a) \div Abs(b))

\* With power: the result of tag a and b goes to dest.
Arithmetic(m, op, a, b, literal, dest) ==
    LET x == m.val[a]
        y == IF literal THEN b ELSE m.val[b]
        r == CASE op = "ADD" -> x + y [] op = "SUB" -> x - y [] op = "MUL" -> x * y [] op = "DIV" -> Quotient(x, y)
    IN  IF m.acc THEN [m EXCEPT !.val[dest] = Saturated(r)] ELSE m

Exec(m, i) ==
    LET op == i[1]
        t == i[2]
    IN  CASE op \in Contacts -> [m EXCEPT !.acc = Contact(op, m.acc, m.val[t])]
          [] op \in Branches -> Branch(m, op)
          [] op \in {"ST", "SET", "RST"} -> Coil(m, op, t)
          [] op = "TON" -> Ton(m, t, i[3])
          [] op = "TOF" -> Tof(m, t, i[3])
          [] op = "CTU" -> Ctu(m, t, i[3])
          [] op = "CTD" -> Ctd(m, t, i[3])
          [] op \in Operations -> Arithmetic(m, op, t, i[3], i[4], i[5])

\* ladder_engine_run: the machine after each instruction of program p.
Run(p) ==
    LET first == [acc |-> FALSE, stk |-> <<>>, val |-> val, tim |-> tim, cnt |-> cnt, since |-> since]
        after[k \in 0..Len(p)] == IF k = 0 THEN first ELSE Exec(after[k - 1], p[k])
    IN  after

-----------------------------------------------------------------------------
(* The control loop and its surroundings.                                  *)

Scan ==
    /\ prog # <<>>
    /\ LET m == Run(prog)[Len(prog)]
       IN  /\ \A t \in Tags : m.cnt[t].n <= MaxCount
           /\ val' = m.val /\ tim' = m.tim /\ cnt' = m.cnt /\ since' = m.since
    /\ UNCHANGED <<prog, flash, now, http, new, asked, ops, fails>>

SetInput(t) ==
    /\ val' = [val EXCEPT ![t] = 1 - @]
    /\ UNCHANGED <<prog, flash, tim, cnt, now, http, new, since, asked, ops, fails>>

Tick ==
    /\ now < MaxTime
    /\ now' = now + 1
    /\ UNCHANGED <<prog, flash, val, tim, cnt, http, new, since, asked, ops, fails>>

-----------------------------------------------------------------------------
(* Deployment.                                                             *)

Used(p, kinds) == {p[i][2] : i \in {j \in DOMAIN p : p[j][1] \in kinds}}

\* The checks of ladder_engine_load_program.
Valid(p) ==
    /\ Cardinality(Used(p, {"TON", "TOF"})) <= MaxTimers
    /\ Cardinality(Used(p, {"CTU", "CTD"})) <= MaxTimers

Fail == fails < MaxFail /\ fails' = fails + 1

Cleared(m) == [m EXCEPT !.tim = Off, !.cnt = Zero, !.since = NotSince]

\* Memory is emptied while instruction i runs on machine m.  It makes a new timer
\* or counter, which is emptied as well or stays; or a TON finds its start or
\* its preset overwritten with zero, and fires.
Torn(m, i) ==
    LET t == i[2]
        fresh == Exec(Cleared(m), i)
    IN  {Cleared(fresh), [fresh EXCEPT !.since = [NotSince EXCEPT ![t] = IF fresh.tim[t].on THEN Left ELSE Never]]}
        \cup {x \in {[Cleared(m) EXCEPT !.val[t] = 1]} : i[1] = "TON" /\ m.acc}

\* What a scan of p leaves that memory is emptied under.
Cut(p) ==
    {Cleared(Run(p)[k]) : k \in 0..Len(p)} \cup UNION {Torn(Run(p)[k - 1], p[k]) : k \in 1..Len(p)}

\* A request: a valid program, or none.  Memory is emptied, under a scan or not.
Begin(p) ==
    /\ http = "idle"
    /\ ops < MaxOps /\ ops' = ops + 1
    /\ Valid(p)
    /\ \E m \in Cut(prog) : val' = m.val /\ tim' = m.tim /\ cnt' = m.cnt /\ since' = m.since
    /\ prog' = <<>>
    /\ http' = "erase" /\ new' = p
    /\ UNCHANGED <<flash, now, asked, fails>>

Erase ==
    /\ http = "erase"
    /\ \/ flash' = <<>> /\ UNCHANGED fails
       \/ Fail /\ UNCHANGED flash
    /\ IF new = <<>> THEN http' = "idle" /\ asked' = new ELSE http' = "install" /\ UNCHANGED asked
    /\ UNCHANGED <<prog, val, tim, cnt, now, new, since, ops>>

Install ==
    /\ http = "install"
    /\ prog' = new
    /\ http' = "write"
    /\ UNCHANGED <<flash, val, tim, cnt, now, new, since, asked, ops, fails>>

\* The answer is the same when the write fails.
Write ==
    /\ http = "write"
    /\ \/ flash' = new /\ UNCHANGED fails
       \/ Fail /\ UNCHANGED flash
    /\ asked' = new
    /\ http' = "idle"
    /\ UNCHANGED <<prog, val, tim, cnt, now, new, since, ops>>

\* The self-test deploys its own program and puts the old one back in memory,
\* or clears everything when there was none.
Tested(f) == IF f = <<>> THEN <<>> ELSE Test

Restart ==
    /\ ops < MaxOps /\ ops' = ops + 1
    /\ prog' = flash
    /\ \/ flash' = Tested(flash) /\ UNCHANGED fails
       \/ Fail /\ flash' \in {flash, <<>>}
    /\ val' = [t \in Tags |-> 0]
    /\ tim' = Off /\ cnt' = Zero /\ since' = NotSince
    /\ http' = "idle" /\ new' = <<>>
    /\ asked' = IF http = "idle" THEN asked ELSE prog'
    /\ UNCHANGED now

Init ==
    /\ prog = <<>> /\ flash = <<>>
    /\ val = [t \in Tags |-> 0]
    /\ tim = Off /\ cnt = Zero
    /\ now = 0
    /\ http = "idle" /\ new = <<>>
    /\ since = NotSince /\ asked = <<>>
    /\ ops = 0 /\ fails = 0

Next ==
    \/ Scan \/ Tick \/ Erase \/ Install \/ Write \/ Restart
    \/ \E t \in Inputs : SetInput(t)
    \/ \E p \in Programs \cup {<<>>} : Begin(p)

Spec == Init /\ [][Next]_vars

-----------------------------------------------------------------------------
(* What the engine promises.                                               *)

\* The entry an instruction writes, if it writes any.
Writes(i) == IF i[1] \in Operations THEN i[5] ELSE i[2]

\* Only a TON and its resets write the entry of the TON.
OwnTimers(p) ==
    \A i, j \in DOMAIN p : p[i][1] = "TON" /\ i # j /\ Writes(p[j]) = p[i][2] => p[j][1] \in Contacts \cup Branches \cup {"RST"}

\* A TON passes power only after its rung was on in every scan for the preset
\* time: an interruption, a reset of the timer, a deployment in between or a
\* restart starts the time again.  The exception is the one timer that a scan
\* cut by a deployment left running, until it is stopped (ladder_engine_clear).
TonWaits ==
    [][Scan => \A i \in DOMAIN prog :
          LET t == prog[i][2]
          IN  prog[i][1] = "TON" /\ val'[t] = 1 /\ since'[t] # Left =>
                 since'[t] # Never /\ now - since'[t] >= prog[i][3]]_vars

\* The same without the exception, and for the scan that is cut as well.
TonWaitsAlways ==
    [][\A i \in DOMAIN prog :
          LET t == prog[i][2]
              on == IF Scan THEN since'[t] ELSE since[t]
          IN  prog[i][1] = "TON" /\ val[t] = 0 /\ val'[t] = 1 => on >= 0 /\ now - on >= prog[i][3]]_vars

I(op, t) == <<op, t, 0>>

\* What the Studio compiles for p (a | b (c | d)).
Nested(p, a, b, c, d, y) ==
    <<I("LD", p), I("START", p), I("AND", a), I("NEXT", p), I("AND", b), I("START", p), I("AND", c),
      I("NEXT", p), I("AND", d), I("END", p), I("END", p), I("ST", y)>>

\* A block inside a branch of a block gives what series and parallel contacts
\* mean: each branch starts from the power at the head of its own block.
BlocksMean ==
    [][Scan /\ Len(prog) = 12 =>
          LET at(k) == prog[k][2]
              on(k) == val[at(k)] > 0
          IN  prog = Nested(at(1), at(3), at(5), at(7), at(9), at(12)) =>
                 (val'[at(12)] = 1) = (on(1) /\ (on(3) \/ (on(5) /\ (on(7) \/ on(9)))))]_vars

\* The program the node was given is the one it runs, over every start.
ProgramKept == http = "idle" /\ fails = 0 => prog = asked

\* A TOF passes power no longer than its preset after its rung went off.
TofEnds ==
    [][Scan => \A i \in DOMAIN prog :
          LET t == prog[i][2]
          IN  prog[i][1] = "TOF" /\ val'[t] = 1 /\ since'[t] \notin {Never, Left} => now - since'[t] < prog[i][3]]_vars

\* Whenever power is cut in a deployment, the old or the new program starts.
DeployAtomic == http # "idle" /\ fails = 0 => flash \in {asked, new}
=============================================================================
