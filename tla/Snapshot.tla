------------------------------ MODULE Snapshot ------------------------------
(***************************************************************************)
(* The state table and what survives a restart: state.c, snapshot.c, the   *)
(* debounced inputs of io_driver.c and the start of core_boot.c.  Any task *)
(* may change a value; the auxiliary task saves the table once nothing has *)
(* changed for the debounce time.  It reads the values one after the other *)
(* while they go on changing, writes them, and then forgets that anything  *)
(* had changed.                                                            *)
(*                                                                         *)
(* A start restores the values, lets the startup policy decide about the   *)
(* outputs and the pins about the inputs, and then runs the self-test of   *)
(* the ladder engine on the first input and the first output.              *)
(*                                                                         *)
(* The dirty flags decide only whether a zero is written out; an absent    *)
(* value is restored as zero, so they are left out.                        *)
(***************************************************************************)
EXTENDS Naturals, Sequences, FiniteSets

CONSTANTS
    Order,      \* the entries of the state table, in the order of their ids
    Inputs,     \* digital inputs
    Outputs,
    Startup,    \* startup policy of each output: "restore", "on" or "off"
    X0, Y0,     \* ENDAP_INPUT_ID(0) and ENDAP_OUTPUT_ID(0)
    Samples,    \* debounce_samples of an input
    Debounce,   \* SNAPSHOT_DEBOUNCE_MS, in ticks
    MaxSets,    \* bound on changes
    MaxStarts,  \* bound on restarts
    MaxFail     \* bound on failed writes, commits and reads

Ids == {Order[i] : i \in DOMAIN Order}
Zero == [id \in Ids |-> 0]

\* The table holds the inputs and the two that are tested; every output has a policy.
ConstantsOK ==
    /\ Order \in Seq(Ids) /\ Order # <<>>
    /\ Inputs \subseteq Ids /\ X0 \in Ids /\ Y0 \in Ids
    /\ Startup \in [Outputs -> {"restore", "on", "off"}]

VARIABLES
    val,        \* int_values
    pend,       \* snapshot_dirty
    quiet,      \* ticks since last_change, up to Debounce
    aux, k,     \* where snapshot_save is, and how many values it has read
    buf, flash, \* the buffer, and the blob "state_v1"
    pin, inp,   \* levels of the inputs, and what the driver keeps of each
    missed,     \* history: the values that changed after the save had read them
    lost,       \* history: the last save failed to commit, and nobody looked
    sets, starts, fails

vars == <<val, pend, quiet, aux, k, buf, flash, pin, inp, missed, lost, sets, starts, fails>>
auxVars == <<aux, k, buf, flash>>
io == <<pin, inp>>
counts == <<sets, starts, fails>>

-----------------------------------------------------------------------------
(* Changes.                                                                *)

\* state_set_int: a value that is there already changes nothing.
Put(id, v) ==
    IF val[id] = v THEN UNCHANGED <<val, pend, quiet, missed>>
    ELSE /\ val' = [val EXCEPT ![id] = v]
         /\ pend' = TRUE
         /\ quiet' = 0
         /\ missed' = IF aux # "idle" /\ \E i \in 1..k : Order[i] = id THEN missed \cup {id} ELSE missed

\* A command, a rule or a ladder program sets a value.
Set(id, v) ==
    /\ sets < MaxSets /\ sets' = sets + 1
    /\ val[id] # v
    /\ Put(id, v)
    /\ UNCHANGED <<auxVars, io, lost, starts, fails>>

Flip(i) ==
    /\ sets < MaxSets /\ sets' = sets + 1
    /\ pin' = [pin EXCEPT ![i] = 1 - @]
    /\ UNCHANGED <<val, pend, quiet, missed, lost, auxVars, inp, starts, fails>>

\* A scan of one input: a level that lasts is made known, once.
Scan(i) ==
    LET same == pin[i] = inp[i].last
        n == IF ~same THEN 1 ELSE IF inp[i].count < Samples THEN inp[i].count + 1 ELSE inp[i].count
        known == n >= Samples /\ inp[i].stable # pin[i]
    IN  /\ inp' = [inp EXCEPT ![i] = [last |-> pin[i], count |-> n, stable |-> IF known THEN pin[i] ELSE @.stable]]
        /\ IF known THEN Put(i, pin[i]) ELSE UNCHANGED <<val, pend, quiet, missed>>
        /\ UNCHANGED <<auxVars, pin, lost, counts>>

Tick ==
    /\ quiet < Debounce
    /\ quiet' = quiet + 1
    /\ UNCHANGED <<val, pend, missed, lost, auxVars, io, counts>>

-----------------------------------------------------------------------------
(* The auxiliary task.                                                     *)

\* Mutant: a save that failed is not tried again.
PollOnce ==
    /\ aux = "idle"
    /\ pend /\ quiet = Debounce /\ fails = 0
    /\ aux' = "export" /\ k' = 0 /\ missed' = {} /\ lost' = FALSE
    /\ UNCHANGED <<val, pend, quiet, buf, flash, io, counts>>

\* snapshot_process: the debounce time is over.
Poll ==
    /\ aux = "idle"
    /\ pend /\ quiet = Debounce
    /\ aux' = "export" /\ k' = 0 /\ missed' = {} /\ lost' = FALSE
    /\ UNCHANGED <<val, pend, quiet, buf, flash, io, counts>>

\* snapshot_export, value by value.
Export ==
    /\ aux = "export"
    /\ buf' = [buf EXCEPT ![Order[k + 1]] = val[Order[k + 1]]]
    /\ k' = k + 1
    /\ aux' = IF k + 1 = Len(Order) THEN "write" ELSE "export"
    /\ UNCHANGED <<val, pend, quiet, flash, missed, lost, io, counts>>

\* Mutant: the result of the write is not looked at.
WriteUnchecked ==
    /\ aux = "write"
    /\ \/ flash' = buf /\ UNCHANGED fails
       \/ fails < MaxFail /\ fails' = fails + 1 /\ UNCHANGED flash
    /\ aux' = "clear"
    /\ UNCHANGED <<val, pend, quiet, k, buf, missed, lost, io, sets, starts>>

\* snapshot_backend_write: after a failed open or write everything stays
\* pending; the result of the commit is not looked at.
Write ==
    /\ aux = "write"
    /\ \/ flash' = buf /\ aux' = "clear" /\ UNCHANGED <<fails, lost>>
       \/ fails < MaxFail /\ fails' = fails + 1 /\ aux' = "idle" /\ UNCHANGED <<flash, lost>>
       \/ fails < MaxFail /\ fails' = fails + 1 /\ aux' = "clear" /\ lost' = TRUE /\ UNCHANGED flash
    /\ UNCHANGED <<val, pend, quiet, k, buf, missed, io, sets, starts>>

\* Whatever changed since the values were read is forgotten as well.
Clear ==
    /\ aux = "clear"
    /\ pend' = FALSE
    /\ aux' = "idle"
    /\ UNCHANGED <<val, quiet, k, buf, flash, missed, lost, io, counts>>

Save == Poll \/ Export \/ Write \/ Clear

-----------------------------------------------------------------------------
(* The start.                                                              *)

\* failsafe_startup_value for the restored value r.
StartValue(o, r) == CASE Startup[o] = "on" -> 1 [] Startup[o] = "off" -> 0 [] Startup[o] = "restore" -> r

\* io_driver_init imports the values in silence.
Imported(v) ==
    [id \in Ids |-> IF id \in Outputs THEN StartValue(id, v[id]) ELSE IF id \in Inputs THEN pin[id] ELSE v[id]]

\* ladder_engine_run_self_test sets both to one and back to zero.
Tested(v) == [v EXCEPT ![X0] = 0, ![Y0] = 0]

\* Power comes back; when the blob cannot be read, nothing is restored.
Restart ==
    /\ starts < MaxStarts /\ starts' = starts + 1
    /\ \/ val' = Tested(Imported(flash)) /\ UNCHANGED fails
       \/ fails < MaxFail /\ fails' = fails + 1 /\ val' = Tested(Imported(Zero))
    /\ pend' = TRUE /\ quiet' = 0
    /\ inp' = [i \in Inputs |-> [last |-> pin[i], count |-> Samples, stable |-> pin[i]]]
    /\ aux' = "idle" /\ k' = 0 /\ buf' = Zero /\ missed' = {} /\ lost' = FALSE
    /\ UNCHANGED <<flash, pin, sets>>

Init ==
    /\ pin \in [Inputs -> 0..1]
    /\ flash = Zero
    /\ val = Tested(Imported(flash))
    /\ pend = TRUE /\ quiet = 0
    /\ inp = [i \in Inputs |-> [last |-> pin[i], count |-> Samples, stable |-> pin[i]]]
    /\ aux = "idle" /\ k = 0 /\ buf = Zero /\ missed = {} /\ lost = FALSE
    /\ sets = 0 /\ starts = 0 /\ fails = 0

Next ==
    \/ Tick \/ Poll \/ Export \/ Write \/ Clear \/ Restart
    \/ \E id \in Ids \ Inputs, v \in 0..1 : Set(id, v)
    \/ \E i \in Inputs : Flip(i) \/ Scan(i)

\* Time passes and the auxiliary task goes on.
Fairness == WF_vars(Tick) /\ WF_vars(Save)

Spec == Init /\ [][Next]_vars /\ Fairness

-----------------------------------------------------------------------------
(* What the snapshot promises.                                             *)

\* While nothing is pending, flash holds each value of the table: a power cut
\* then loses nothing, whatever changed during earlier saves and whichever of
\* them failed.  The exceptions are a value that changed after this save read
\* it, that value alone, and a commit that failed (snapshot_save).
CleanIsSaved == aux = "idle" /\ ~pend /\ ~lost => \A id \in Ids \ missed : flash[id] = val[id]

\* The same without the exceptions.
CleanIsSavedAlways == aux = "idle" /\ ~pend => flash = val

\* A value that flash does not hold is saved in the end, with the same two
\* exceptions, once changes leave the debounce time and a write succeeds: a
\* failed write is tried again, and so is a change that came during the save.
SavedInTheEnd ==
    \A id \in Ids :
        flash[id] # val[id] ~> flash[id] = val[id] \/ id \in missed \/ lost

\* Outputs start as their startup policy says, where the blob can be read.
StartupKept == [][Restart /\ UNCHANGED fails => \A o \in Outputs : val'[o] = StartValue(o, flash[o])]_vars

\* The driver and the state table agree on an input.
InputsSeen == \A i \in Inputs : val[i] = inp[i].stable
=============================================================================
