------------------------------ MODULE IoBinding ------------------------------
(***************************************************************************)
(* The binding of logical channels to pins: the tables of io_binding.c,    *)
(* their two blobs in flash, the start that rebuilds the tables from them, *)
(* and the copy the I/O driver takes at the start.  Requests come from the *)
(* one task of the HTTP server, so an edit is one step; power may be cut   *)
(* between any two steps of the start, and any write may fail.             *)
(*                                                                         *)
(* A table is kept as a function from channel to address: the code refuses *)
(* a second entry for a channel, and has as many places as channels.  The  *)
(* MCP backend is left out: no caller passes it.  Names and roles are left *)
(* out too.                                                                *)
(***************************************************************************)
EXTENDS Naturals, FiniteSets

CONSTANTS
    InIds, OutIds,          \* logical input and output channels
    DefaultIds,             \* channels active after a reset; they cannot be removed
    ProfilePin,             \* channel -> its pin in the profile, or NC
    AdcPins,                \* pins read through the converter: inputs only
    InPins, OutPins,        \* pins listed as options for inputs and for outputs
    BusPins,                \* pins reserved while RS-485 is enabled
    OutOnlyPin, InOnlyPin,  \* GPIO33 is never a digital input, GPIO26 never an output
    NC,                     \* GPIO_NUM_NC
    OldFlash,               \* what flash may hold when this version first starts
    MaxFail                 \* bound on failed writes

Ids == InIds \cup OutIds
Pins == InPins \cup OutPins
AnalogIds == {i \in InIds : ProfilePin[i] \in AdcPins}

Gpio(p) == [be |-> "gpio", pin |-> p]
Adc(p) == [be |-> "adc", pin |-> p]
Unbound == [be |-> "none", pin |-> NC]
Addresses == {Unbound, Gpio(NC)} \cup {Gpio(p) : p \in Pins} \cup {Adc(p) : p \in AdcPins}

\* A blob: version 4 holds the whole entry, 2 the pin, 1 the channels alone.
Blobs == [ver : {0, 1, 2, 4}, tab : [Ids -> Addresses]]

\* The default inputs and outputs of the profile share no pin.
ConstantsOK ==
    /\ InIds \cap OutIds = {} /\ DefaultIds \subseteq Ids
    /\ \A i \in InIds \cap DefaultIds, o \in OutIds \cap DefaultIds :
          ProfilePin[i] # NC => ProfilePin[i] # ProfilePin[o]
    /\ \A f \in OldFlash : /\ f = [s \in {"in", "out", "net"} |-> f[s]]
                           /\ f["in"] \in Blobs /\ f["out"] \in Blobs

VARIABLES
    phase,      \* where io_binding_init is, "up" when the node runs
    bound,      \* input_entries and output_entries
    driver,     \* the tables the I/O driver copied at the last start
    restart,    \* gpio_restart_required
    rs485,      \* RS-485 enabled in the network profile, in memory
    saved,      \* blobs in flash: "in", "out" and the RS-485 flag "net"
    quiet,      \* history: no edit since the last start
    fails       \* writes that have failed so far

vars == <<phase, bound, driver, restart, rs485, saved, quiet, fails>>

SideOf(s) == IF s = "in" THEN InIds ELSE OutIds
Side(i) == IF i \in InIds THEN "in" ELSE "out"
Part(b, s) == [i \in Ids |-> IF i \in SideOf(s) THEN b[i] ELSE Unbound]
NoBlob == [ver |-> 0, tab |-> [i \in Ids |-> Unbound]]

\* Another channel of the set s already has address a.
InUse(b, s, a, i) == \E j \in s \ {i} : b[j] = a

\* The pins of the bus are reserved as the network profile stands right now.
Reserved == IF rs485 THEN BusPins ELSE {}

\* Is the address one the side may have.
Allowed(s, a) ==
    \/ /\ a.be = "gpio"
       /\ a.pin \in (IF s = "in" THEN InPins ELSE OutPins) \ Reserved
    \/ /\ a.be = "adc"
       /\ s = "in" /\ a.pin \in AdcPins

\* Mutant: only the channels of the same side are looked at.
ValidOnSide(i, a) ==
    /\ Allowed(Side(i), a)
    /\ ~InUse(bound, SideOf(Side(i)), a, i)

ValidAddress(i, a) ==
    /\ Allowed(Side(i), a)
    /\ ~InUse(bound, InIds, a, i)
    /\ ~InUse(bound, OutIds, a, i)

-----------------------------------------------------------------------------
(* Writing.  The result of a write is logged and otherwise ignored.        *)

\* Write side s of the table b.
Persist(s, b) ==
    \/ /\ saved' = [saved EXCEPT ![s] = [ver |-> 4, tab |-> Part(b, s)]]
       /\ UNCHANGED fails
    \/ /\ fails < MaxFail
       /\ fails' = fails + 1
       /\ UNCHANGED saved

NoWrite == UNCHANGED <<saved, fails>>

-----------------------------------------------------------------------------
(* Requests.  The HTTP handlers pass a pin, never a backend.               *)

\* The table changes, then it is written; the reply is the same if that fails.
Edited(b, s) ==
    /\ bound' = b
    /\ Persist(s, b)
    /\ quiet' = FALSE
    /\ UNCHANGED <<phase, driver, rs485>>

AddEntry(i, p) ==
    /\ phase = "up"
    /\ bound[i] = Unbound
    /\ ValidAddress(i, Gpio(p))
    /\ restart' = TRUE
    /\ Edited([bound EXCEPT ![i] = Gpio(p)], Side(i))

AddInput(i, p) == i \in InIds /\ AddEntry(i, p)
AddOutput(i, p) == i \in OutIds /\ AddEntry(i, p)

\* Mutant: the flag looks at the pin alone, not at how it is read.
SetPinOnly(i, p) ==
    LET a == Gpio(IF p = NC THEN bound[i].pin ELSE p)
    IN  /\ phase = "up"
        /\ bound[i] # Unbound
        /\ ValidAddress(i, a)
        /\ restart' = (restart \/ a.pin # bound[i].pin)
        /\ Edited([bound EXCEPT ![i] = a], Side(i))

\* Without a pin the channel keeps the one it has, as a digital channel.
SetEntry(i, p) ==
    LET a == Gpio(IF p = NC THEN bound[i].pin ELSE p)
    IN  /\ phase = "up"
        /\ bound[i] # Unbound
        /\ ValidAddress(i, a)
        /\ restart' = (restart \/ a # bound[i])
        /\ Edited([bound EXCEPT ![i] = a], Side(i))

SetInput(i, p) == i \in InIds /\ SetEntry(i, p)
SetOutput(i, p) == i \in OutIds /\ SetEntry(i, p)

ResetInput(i) == SetInput(i, ProfilePin[i])
ResetOutput(i) == SetOutput(i, ProfilePin[i])

RemoveEntry(i) ==
    /\ phase = "up"
    /\ i \notin DefaultIds
    /\ bound[i] # Unbound
    /\ restart' = TRUE
    /\ Edited([bound EXCEPT ![i] = Unbound], Side(i))

RemoveInput(i) == i \in InIds /\ RemoveEntry(i)
RemoveOutput(i) == i \in OutIds /\ RemoveEntry(i)

\* The profile in memory changes first, and stays changed if the write fails.
SetRs485(on) ==
    /\ phase = "up"
    /\ rs485' = on
    /\ \/ saved' = [saved EXCEPT !["net"] = on] /\ fails' = fails
       \/ fails < MaxFail /\ fails' = fails + 1 /\ saved' = saved
    /\ quiet' = FALSE
    /\ UNCHANGED <<phase, bound, driver, restart>>

AddRequest == \E i \in Ids, p \in Pins : AddInput(i, p) \/ AddOutput(i, p)
ConfigRequest == \E i \in Ids, p \in Pins \cup {NC} : SetInput(i, p) \/ SetOutput(i, p)
ResetRequest == \E i \in Ids : ResetInput(i) \/ ResetOutput(i)
RemoveRequest == \E i \in Ids : RemoveInput(i) \/ RemoveOutput(i)
ProfileRequest == \E on \in BOOLEAN : SetRs485(on)

Request == AddRequest \/ ConfigRequest \/ ResetRequest \/ RemoveRequest \/ ProfileRequest

-----------------------------------------------------------------------------
(* The start: io_binding_init, one step per function it calls.             *)

Defaults ==
    [i \in Ids |-> IF i \notin DefaultIds THEN Unbound
                   ELSE IF i \in AnalogIds THEN Adc(ProfilePin[i]) ELSE Gpio(ProfilePin[i])]

\* Bind the analog inputs that are not bound and whose pin no digital input has.
WithAnalog(b) ==
    [i \in Ids |-> IF /\ i \in AnalogIds /\ b[i] = Unbound
                      /\ ~InUse(b, InIds, Gpio(ProfilePin[i]), i)
                   THEN Adc(ProfilePin[i]) ELSE b[i]]

\* The analog inputs are added, and written if there was one to add.
Analog(b) ==
    /\ bound' = WithAnalog(b)
    /\ IF WithAnalog(b) = b THEN NoWrite ELSE Persist("in", WithAnalog(b))

BootDefaults ==
    /\ phase = "off"
    /\ phase' = "load_in"
    /\ rs485' = saved["net"]
    /\ restart' = FALSE
    /\ Analog(Defaults)
    /\ UNCHANGED <<driver, quiet>>

\* Two entries of side s on one pin; entries without a pin do not count.
Duplicate(s, t, i) == t[i].pin # NC /\ InUse(t, SideOf(s), t[i], i)

\* A blob of the current layout is taken whole or not at all.
Loadable(s, t) ==
    \A i \in SideOf(s) : t[i] # Unbound =>
        /\ t[i] = Gpio(NC) \/ Allowed(s, t[i])
        /\ ~Duplicate(s, t, i)

\* An entry of version 2 is taken as a digital channel on its pin.
OldEntryOk(s, a) == (s = "in" /\ a.pin = NC) \/ Allowed(s, Gpio(a.pin))

\* What loading side s may leave: the table, and whether it is written back.
Loads(s) ==
    LET t == saved[s].tab
        held == {i \in SideOf(s) : t[i] # Unbound}
        good == {i \in held : OldEntryOk(s, t[i])}
        Put(K, at(_)) == [i \in Ids |-> IF i \notin SideOf(s) THEN bound[i]
                                        ELSE IF i \in K THEN Gpio(at(i)) ELSE Unbound]
        pinIn(i) == t[i].pin
        pinOf(i) == ProfilePin[i]
    IN  CASE saved[s].ver = 0 -> {<<bound, FALSE>>}
          [] saved[s].ver = 4 ->
                {<<IF Loadable(s, t) THEN [i \in Ids |-> IF i \in SideOf(s) THEN t[i] ELSE bound[i]]
                                     ELSE bound, FALSE>>}
          [] saved[s].ver = 1 -> {<<Put(held, pinOf), TRUE>>}
          [] saved[s].ver = 2 ->   \* it stops at the first bad entry, in the old table's order
                IF good = held THEN {<<Put(held, pinIn), TRUE>>}
                               ELSE {<<Put(K, pinIn), FALSE>> : K \in SUBSET good}

Load(s, from, to) ==
    /\ phase = from
    /\ phase' = to
    /\ \E l \in Loads(s) :
          /\ bound' = l[1]
          /\ IF l[2] THEN Persist(s, l[1]) ELSE NoWrite
    /\ UNCHANGED <<driver, restart, rs485, quiet>>

BootLoadIn == Load("in", "load_in", "analog")

BootAnalog ==
    /\ phase = "analog"
    /\ phase' = "load_out"
    /\ Analog(bound)
    /\ UNCHANGED <<driver, restart, rs485, quiet>>

BootLoadOut == Load("out", "load_out", "resolve")

\* Channels of side s on a digital pin that the other side uses as well.
Clashing(b, s, other) == {i \in SideOf(s) : b[i].be = "gpio" /\ InUse(b, SideOf(other), b[i], i)}
SentHome(b, S) == [i \in Ids |-> IF i \in S THEN Gpio(ProfilePin[i]) ELSE b[i]]

\* Both sides are written if anything moved, the inputs first.
BootResolve ==
    LET outs == Clashing(bound, "out", "in")
        b1 == SentHome(bound, outs)
        ins == Clashing(b1, "in", "out")
        b2 == SentHome(b1, ins)
    IN  /\ phase = "resolve"
        /\ bound' = b2
        /\ \/ outs \cup ins = {} /\ phase' = "migrate" /\ NoWrite
           \/ outs \cup ins # {} /\ phase' = "resolve_out" /\ Persist("in", b2)
        /\ UNCHANGED <<driver, restart, rs485, quiet>>

\* Mutant: channels without a pin are not written.
BootResolveOutPinned ==
    /\ phase = "resolve_out"
    /\ phase' = "migrate"
    /\ Persist("out", [i \in Ids |-> IF bound[i] = Gpio(NC) THEN Unbound ELSE bound[i]])
    /\ UNCHANGED <<bound, driver, restart, rs485, quiet>>

BootResolveOut ==
    /\ phase = "resolve_out"
    /\ phase' = "migrate"
    /\ Persist("out", bound)
    /\ UNCHANGED <<bound, driver, restart, rs485, quiet>>

\* io_binding_validate_and_migrate_nvs keeps the tables.
Sane(b) ==
    /\ \A i \in DefaultIds : b[i] = Gpio(ProfilePin[i])
    /\ \A i \in InIds : b[i] # Gpio(OutOnlyPin)
    /\ \A i \in InIds : b[i].be = "gpio" /\ b[i].pin # NC => ~InUse(b, OutIds, b[i], i)
    /\ \A i \in OutIds : b[i] # Gpio(InOnlyPin)

\* The tables are kept, or replaced by the defaults and written.
BootMigrate ==
    /\ phase = "migrate"
    /\ \/ /\ Sane(bound)
          /\ phase' = "copy"
          /\ bound' = bound
          /\ NoWrite
       \/ /\ ~Sane(bound)
          /\ phase' = "migrate_out"
          /\ bound' = WithAnalog(Defaults)
          /\ Persist("in", WithAnalog(Defaults))
    /\ UNCHANGED <<driver, restart, rs485, quiet>>

BootMigrateOut ==
    /\ phase = "migrate_out"
    /\ phase' = "copy"
    /\ Persist("out", bound)
    /\ UNCHANGED <<bound, driver, restart, rs485, quiet>>

\* io_driver_init takes its copy, and the node runs.
BootCopy ==
    /\ phase = "copy"
    /\ phase' = "up"
    /\ driver' = bound
    /\ quiet' = TRUE
    /\ UNCHANGED <<bound, restart, rs485, saved, fails>>

Boot == \/ BootDefaults \/ BootLoadIn \/ BootAnalog \/ BootLoadOut \/ BootResolve
        \/ BootResolveOut \/ BootMigrate \/ BootMigrateOut \/ BootCopy

PowerCut ==
    /\ phase # "off"
    /\ phase' = "off"
    /\ bound' = [i \in Ids |-> Unbound]
    /\ restart' = FALSE
    /\ rs485' = FALSE
    /\ UNCHANGED <<driver, saved, quiet, fails>>

Init ==
    /\ phase = "off"
    /\ bound = [i \in Ids |-> Unbound]
    /\ driver = bound
    /\ restart = FALSE
    /\ rs485 = FALSE
    /\ saved \in OldFlash
    /\ quiet = FALSE
    /\ fails = 0

Next == Request \/ Boot \/ PowerCut

Spec == Init /\ [][Next]_vars

-----------------------------------------------------------------------------
(* What the bindings promise.                                              *)

TypeOK ==
    /\ phase \in {"off", "load_in", "analog", "load_out", "resolve", "resolve_out",
                  "migrate", "migrate_out", "copy", "up"}
    /\ bound \in [Ids -> Addresses]
    /\ driver \in [Ids -> Addresses]
    /\ restart \in BOOLEAN /\ rs485 \in BOOLEAN /\ quiet \in BOOLEAN
    /\ saved["in"] \in Blobs /\ saved["out"] \in Blobs /\ saved["net"] \in BOOLEAN
    /\ fails \in 0..MaxFail

\* No pin is read as a digital input while an output drives it, in the tables
\* and in the driver, whatever was edited, whichever write failed and wherever
\* the start was cut: the address checks of the edits, the revert after the
\* load and the last validation.
NoCrossPin ==
    phase = "up" =>
        \A b \in {bound, driver}, i \in InIds, o \in OutIds :
            b[i].be = "gpio" /\ b[i].pin # NC => b[i] # b[o]

\* While the driver works on other bindings than the tables show, the node
\* says that a restart is pending.
RestartFlagged == phase = "up" /\ driver # bound => restart

\* No two outputs share a pin.
Apart(b) == \A o, q \in OutIds : o # q /\ b[o] = b[q] => b[o].pin = NC

\* A start leaves what the next one finds: with no edit in between and no
\* failed write, the driver gets the same bindings again, also when power was
\* cut any number of times in the middle of the start.  Outputs that a revert
\* put on one pin (see OutputsApart) are the exception: their blob is refused.
BootStable == [][BootCopy /\ quiet /\ fails = 0 /\ Apart(driver) => driver' = driver]_vars

\* Documentation: a native pin "continua sujeito aos bloqueios de Wi-Fi, RS485,
\* W5500 e conflitos com outros bindings".  No start gives one pin to two outputs.
OutputsApart == phase = "up" => Apart(driver)
=============================================================================
