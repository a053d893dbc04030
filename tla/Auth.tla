-------------------------------- MODULE Auth --------------------------------
(***************************************************************************)
(* Accounts, the session and the audit ring: auth.c and the handlers that  *)
(* call it, all in the one task of the HTTP server.  The configuration is  *)
(* edited in memory, written whole, and put back when the write fails.     *)
(*                                                                         *)
(* auth_login and auth_validate_session accept every request as the code   *)
(* stands, so they change nothing here; the one session is the session     *)
(* that creating the first administrator opens.  A role is kept as         *)
(* "administrator or not"; passwords and tokens are left out.              *)
(***************************************************************************)
EXTENDS Naturals, FiniteSets

CONSTANTS
    Users,      \* normalised user names
    Admin,      \* the name a migrated account gets
    Slots,      \* 1..AUTH_MAX_ACCOUNTS
    Cap,        \* AUTH_AUDIT_MAX_ENTRIES
    MaxLog,     \* bound on the events of one uptime
    MaxFail     \* bound on failed writes and reads

\* What the code assumes of its sizes.
ConstantsOK == Admin \in Users /\ Slots # {} /\ Slots \subseteq Nat /\ 1 \in Slots /\ Cap \in Nat \ {0}

None == [user |-> Admin, on |-> FALSE, admin |-> FALSE, used |-> FALSE]
Account == [user : Users, on : BOOLEAN, admin : BOOLEAN, used : {TRUE}]
NoAccounts == [s \in Slots |-> None]

\* A blob of version 2 and the configuration in memory; version 1 had no accounts.
Seed == [ver |-> 2, conf |-> FALSE, acc |-> NoAccounts]
Legacy(c) == [ver |-> 1, conf |-> c, acc |-> NoAccounts]
NoBlob == [ver |-> 0, conf |-> FALSE, acc |-> NoAccounts]

VARIABLES
    up,         \* auth_initialized
    ram,        \* auth_config
    flash,      \* the blob under the key "config"
    session,    \* account of the active session, 0 when there is none
    ring, pos,  \* auth_audit_ring, of event numbers, and auth_audit_index
    logged,     \* history: events logged since the start
    made,       \* history: an administrator was acknowledged
    unread,     \* history: a start could not read the accounts and seeded the node as new
    fails       \* writes and reads that have failed so far

vars == <<up, ram, flash, session, ring, pos, logged, made, unread, fails>>

InUse(c, s) == c.acc[s].used
AnyAccount(c) == \E s \in Slots : InUse(c, s)
EnabledAdmin(c, s) == InUse(c, s) /\ c.acc[s].on /\ c.acc[s].admin
OtherAdmins(c, s) == {t \in Slots \ {s} : EnabledAdmin(c, t)}
Find(c, u) == {s \in Slots : InUse(c, s) /\ c.acc[s].user = u}
Free(c) == {s \in Slots : ~InUse(c, s) /\ \A t \in Slots : t < s => InUse(c, t)}

\* n events are entered one after the other; the index wraps at the capacity.
Log(n) ==
    /\ logged + n <= MaxLog
    /\ logged' = logged + n
    /\ ring' = [k \in 0..(Cap - 1) |->
                   LET new == {j \in 1..n : (pos + j - 1) % Cap = k}
                   IN  IF new = {} THEN ring[k] ELSE logged + CHOOSE j \in new : \A i \in new : i <= j]
    /\ pos' = (pos + n) % Cap

NoLog == UNCHANGED <<ring, pos, logged>>

\* The new configuration c is written whole, or memory keeps the old one.
Saves(c) == flash' = c /\ ram' = c /\ UNCHANGED fails
SaveFails ==
    /\ fails < MaxFail
    /\ fails' = fails + 1
    /\ UNCHANGED <<flash, ram>>

-----------------------------------------------------------------------------
(* The start.                                                              *)

\* What loading blob f leaves in memory, and whether it is written back.
Migrated(f) ==
    IF f.conf
    THEN [Seed EXCEPT !.conf = TRUE, !.acc[1] = [user |-> Admin, on |-> TRUE, admin |-> TRUE, used |-> TRUE]]
    ELSE Seed

Sanitized(f) == IF f.conf = AnyAccount(f) THEN f ELSE Seed

Loaded(f) == CASE f.ver = 0 -> Seed [] f.ver = 1 -> Migrated(f) [] f.ver = 2 -> Sanitized(f)

\* Events of the start: an open bootstrap is logged, unless it was loaded as such.
BootEvents(f) == IF Loaded(f) = Seed /\ f # Seed /\ (f.ver = 2 => ~f.conf) THEN 1 ELSE 0

\* Memory and the audit after a start that read blob f.
Starts(f) ==
    /\ ram' = Loaded(f)
    /\ logged' = BootEvents(f)
    /\ ring' = [k \in 0..(Cap - 1) |-> IF k < BootEvents(f) THEN 1 ELSE 0]
    /\ pos' = BootEvents(f) % Cap

\* What the start loads it also writes, and it goes on when that fails.  A blob
\* that cannot be read is taken for one that is not there: the open first start
\* is written over the accounts.
Boot ==
    /\ ~up
    /\ up' = TRUE
    /\ session' = 0
    /\ UNCHANGED made
    /\ \/ /\ Starts(flash)
          /\ \/ flash' = Loaded(flash) /\ UNCHANGED fails
             \/ Loaded(flash) # flash /\ fails < MaxFail /\ fails' = fails + 1 /\ UNCHANGED flash
          /\ UNCHANGED unread
       \/ /\ flash.ver # 0 /\ fails < MaxFail /\ fails' = fails + 1
          /\ Starts(NoBlob)
          /\ flash' \in {Seed, flash}
          /\ unread' = TRUE

PowerCut ==
    /\ up
    /\ up' = FALSE
    /\ ram' = Seed
    /\ session' = 0
    /\ ring' = [k \in 0..(Cap - 1) |-> 0]
    /\ pos' = 0
    /\ logged' = 0
    /\ UNCHANGED <<flash, made, unread, fails>>

-----------------------------------------------------------------------------
(* Requests.                                                               *)

BootstrapOpen == ~ram.conf /\ ~AnyAccount(ram)

FirstAdmin(u) ==
    [Seed EXCEPT !.conf = TRUE, !.acc[1] = [user |-> u, on |-> TRUE, admin |-> TRUE, used |-> TRUE]]

\* Mutant: the account is acknowledged whether or not it was written.
BootstrapUnchecked(u) ==
    /\ up
    /\ BootstrapOpen
    /\ \/ Saves(FirstAdmin(u))
       \/ fails < MaxFail /\ fails' = fails + 1 /\ ram' = FirstAdmin(u) /\ UNCHANGED flash
    /\ session' = 1 /\ made' = TRUE /\ unread' = FALSE /\ Log(2)
    /\ UNCHANGED up

\* The first administrator, with a session; two events, or one for the failure.
BootstrapCreate(u) ==
    /\ up
    /\ BootstrapOpen
    /\ \/ Saves(FirstAdmin(u)) /\ session' = 1 /\ made' = TRUE /\ unread' = FALSE /\ Log(2)
       \/ SaveFails /\ Log(1) /\ UNCHANGED <<session, made, unread>>
    /\ UNCHANGED up

\* A request with the token of the session; the account must be an enabled admin.
BySession == up /\ session # 0 /\ EnabledAdmin(ram, session)

\* A wrong or a weak password is logged; a new one is written like any change.
ChangePassword ==
    /\ up /\ session # 0
    /\ InUse(ram, session) /\ ram.acc[session].on
    /\ \/ UNCHANGED <<flash, ram, fails>>
       \/ Saves([ram EXCEPT !.conf = TRUE])
       \/ SaveFails
    /\ Log(1)
    /\ UNCHANGED <<up, session, made, unread>>

\* Mutant: the caller's own account may be changed as well.
MayEditAny(s, lower) ==
    ~(lower /\ ram.acc[s].admin /\ OtherAdmins(ram, s) = {})

\* Not the caller's own account, and never the last administrator.
MayEdit(s, lower) ==
    /\ s # session
    /\ ~(lower /\ ram.acc[s].admin /\ OtherAdmins(ram, s) = {})

\* An existing account.  With a weak password the edit stays in memory, unwritten.
UpdateAccount(u, on, admin, pw) ==
    \E s \in Find(ram, u) :
        LET c == [ram EXCEPT !.acc[s].on = on, !.acc[s].admin = admin]
            left == IF pw = "strong" /\ session = s THEN 0 ELSE session
        IN  /\ MayEdit(s, ~on \/ ~admin)
            /\ \/ pw = "weak" /\ ram' = c /\ NoLog /\ UNCHANGED <<flash, fails, session>>
               \/ pw # "weak" /\ Saves(c) /\ Log(1) /\ session' = left
               \/ pw # "weak" /\ SaveFails /\ Log(1) /\ session' = left

CreateAccount(u, on, admin, pw) ==
    /\ Find(ram, u) = {}
    /\ pw = "strong"
    /\ \E s \in Free(ram) :
          \/ Saves([ram EXCEPT !.acc[s] = [user |-> u, on |-> on, admin |-> admin, used |-> TRUE]]) /\ Log(1)
          \/ SaveFails /\ Log(1)
    /\ UNCHANGED session

SaveAccount(u, on, admin, pw) ==
    /\ BySession
    /\ UpdateAccount(u, on, admin, pw) \/ CreateAccount(u, on, admin, pw)
    /\ UNCHANGED <<up, made, unread>>

DeleteAccount(u) ==
    /\ BySession
    /\ \E s \in Find(ram, u) :
          /\ MayEdit(s, TRUE)
          /\ session' = IF session = s THEN 0 ELSE session
          /\ \/ Saves([ram EXCEPT !.acc[s] = None])
             \/ SaveFails
    /\ Log(1)
    /\ UNCHANGED <<up, made, unread>>

\* Logging out, with the session's token or with one that is none.
Logout ==
    /\ up
    /\ session' \in {0, session}
    /\ Log(1)
    /\ UNCHANGED <<up, ram, flash, made, unread, fails>>

\* A session is dropped when its time is over.
Expire ==
    /\ session # 0
    /\ session' = 0
    /\ UNCHANGED <<up, ram, flash, ring, pos, logged, made, unread, fails>>

\* Every other handler that changes something logs one event.
OtherEvent == up /\ Log(1) /\ UNCHANGED <<up, ram, flash, session, made, unread, fails>>

Init ==
    /\ up = FALSE
    /\ ram = Seed
    /\ flash \in {NoBlob, Seed, Legacy(FALSE), Legacy(TRUE),
                  [Seed EXCEPT !.acc[1] = [user |-> Admin, on |-> TRUE, admin |-> TRUE, used |-> TRUE]]}
    /\ session = 0
    /\ ring = [k \in 0..(Cap - 1) |-> 0]
    /\ pos = 0
    /\ logged = 0
    /\ made = flash.conf
    /\ unread = FALSE
    /\ fails = 0

Next ==
    \/ Boot \/ PowerCut \/ ChangePassword \/ Logout \/ Expire \/ OtherEvent
    \/ \E u \in Users : BootstrapCreate(u) \/ DeleteAccount(u)
    \/ \E u \in Users, on, admin \in BOOLEAN, pw \in {"none", "weak", "strong"} : SaveAccount(u, on, admin, pw)

Spec == Init /\ [][Next]_vars

-----------------------------------------------------------------------------
(* What the accounts and the audit promise.                                *)

\* Mutant: always from the first place.
ExportFromZero ==
    LET count == Cardinality({k \in 0..(Cap - 1) : ring[k] # 0})
    IN  [i \in 1..count |-> ring[i - 1]]

\* auth_export_audit: oldest first, from the index once the ring is full.
Export ==
    LET count == Cardinality({k \in 0..(Cap - 1) : ring[k] # 0})
        start == IF count = Cap THEN pos ELSE 0
    IN  [i \in 1..count |-> ring[(start + i - 1) % Cap]]

\* Once an administrator was acknowledged, memory and flash hold an enabled
\* one: no edit, failed write, deletion, migration or restart leaves the node
\* without.  The exception is a start that could not read the accounts and took
\* the node for new; it lasts until the next first administrator (auth_init).
AdminRemains ==
    made /\ ~unread =>
        /\ flash.conf /\ (flash.ver = 2 => \E s \in Slots : EnabledAdmin(flash, s))
        /\ up => ram.conf /\ \E s \in Slots : EnabledAdmin(ram, s)

\* The same without the exception: once an administrator was acknowledged the
\* node is never open again.
AdminAlways == made /\ up => ~BootstrapOpen

\* The open session belongs to an enabled administrator of the accounts in
\* memory, and to the same account in flash: edits made through it, deleted
\* accounts, reused places and writes that fail never leave it dangling.
SessionIsAdmin ==
    session # 0 => EnabledAdmin(ram, session) /\ flash.acc[session] = ram.acc[session]

\* A name has one account, in memory and in flash.
NamesUnique ==
    \A c \in {ram, flash}, s, t \in Slots :
        InUse(c, s) /\ InUse(c, t) /\ c.acc[s].user = c.acc[t].user => s = t

\* The audit shows the last events, all that fit, in the order they happened.
AuditIsTail ==
    LET n == IF logged < Cap THEN logged ELSE Cap
    IN  Export = [i \in 1..n |-> logged - n + i]
=============================================================================
