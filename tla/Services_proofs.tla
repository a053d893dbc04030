--------------------------- MODULE Services_proofs ---------------------------
(***************************************************************************)
(* Proofs about the services, for every value of their constants.          *)
(*                                                                         *)
(* The ring buffer implements the bounded FIFO: TypeOK is the only         *)
(* invariant needed; the refinement mapping Contents is defined from the   *)
(* two indices, and each step is shown to map to a step of the FIFO slot   *)
(* by slot.  The other services follow, each with an inductive invariant   *)
(* of its own under a prefix of its own: accounts and their audit (Aud),   *)
(* snapshot, policy, onboarding, bindings, process values and their        *)
(* history (Hist), the installation map (Map) and the ladder engine (Lad). *)
(***************************************************************************)
EXTENDS Services, SequenceTheorems, FiniteSetTheorems, TLAPS

(* Succ wraps exactly at the last slot.                                    *)
LEMMA SuccCases ==
  ASSUME NEW i \in Slots
  PROVE  /\ Succ(i) \in Slots
         /\ Succ(i) = IF i = Size - 1 THEN 0 ELSE i + 1
BY RingAssumption, SMTT(30) DEF Succ, Slots

(* Every reachable state of the ring is well typed.                        *)
THEOREM TypeCorrect == Spec => []TypeOK
<1>1. Init => TypeOK
  <2>1. 0 \in Slots
    BY RingAssumption DEF Slots
  <2> QED BY <2>1 DEF Init, TypeOK
<1>2. TypeOK /\ [Next]_vars => TypeOK'
  <2> SUFFICES ASSUME TypeOK, [Next]_vars PROVE TypeOK'
    OBVIOUS
  <2>1. CASE Pop
    BY <2>1, SuccCases DEF Pop, TypeOK
  <2>2. ASSUME NEW x \in Item, Push(x) PROVE TypeOK'
    BY <2>2, SuccCases DEF Push, TypeOK
  <2>3. CASE UNCHANGED vars
    BY <2>3 DEF vars, TypeOK
  <2> QED BY <2>1, <2>2, <2>3 DEF Next
<1> QED BY <1>1, <1>2, PTL DEF Spec

(* What the mapping yields is a sequence of Count items.                   *)
LEMMA ContentsType ==
  ASSUME TypeOK
  PROVE  /\ Count \in 0..(Size - 1)
         /\ \A k \in 1..Count : SlotOf(k) \in Slots
         /\ Contents \in Seq(Item)
         /\ Len(Contents) = Count
<1>1. Count \in 0..(Size - 1)
  BY RingAssumption DEF TypeOK, Slots, Count
<1>2. \A k \in 1..Count : SlotOf(k) \in Slots
  BY RingAssumption, <1>1 DEF TypeOK, Slots, Count, SlotOf
<1>3. Contents \in [1..Count -> Item]
  BY <1>2 DEF Contents, TypeOK
<1> QED BY <1>1, <1>2, <1>3

(* A push of the ring is a push of the FIFO.                               *)
LEMMA PushRefines ==
  ASSUME TypeOK, NEW x \in Item, Push(x)
  PROVE  Fifo!Push(x)
<1> USE RingAssumption
<1>0. head \in Slots /\ tail \in Slots /\ Size \in Nat /\ tail' = tail
  BY DEF Push, TypeOK
<1>1. CASE Succ(head) # tail
  <2>0. head' = Succ(head) /\ queue' = [queue EXCEPT ![head] = x]
    BY <1>1 DEF Push
  <2>1. Count < Size - 1 /\ Count' = Count + 1 /\ SlotOf(Count + 1) = head
    BY <1>0, <1>1, <2>0, SuccCases DEF Slots, Count, SlotOf
  <2>2. \A k \in 1..Count : SlotOf(k) \in Slots /\ SlotOf(k) # head
    BY <1>0 DEF Slots, Count, SlotOf
  <2>3. \A k : SlotOf(k)' = SlotOf(k)
    BY <1>0 DEF SlotOf
  <2>4. Len(Contents) = Count /\ Contents \in Seq(Item) /\ Count \in Nat
    BY ContentsType
  <2>5. \A k \in 1..Count : queue'[SlotOf(k)] = queue[SlotOf(k)]
    BY <2>0, <2>2 DEF TypeOK
  <2>6. queue'[head] = x
    BY <2>0, <1>0 DEF TypeOK
  <2>7. Contents' = [k \in 1..(Count + 1) |-> queue'[SlotOf(k)]]
    BY <2>1, <2>3 DEF Contents
  <2>8. \A k \in 1..Count : Contents[k] = queue[SlotOf(k)]
    BY DEF Contents
  <2>9. \A k \in 1..(Count + 1) :
          queue'[SlotOf(k)] = IF k = Count + 1 THEN x ELSE Contents[k]
    BY <2>1, <2>4, <2>5, <2>6, <2>8
  <2>10. Contents' = [k \in 1..(Count + 1) |->
                       IF k = Count + 1 THEN x ELSE Contents[k]]
    BY <2>7, <2>9
  <2>11. /\ Contents' \in Seq(Item) /\ Len(Contents') = Count + 1
         /\ \A k \in 1..(Count + 1) :
              Contents'[k] = IF k = Count + 1 THEN x ELSE Contents[k]
    <3>1. \A k \in 1..(Count + 1) :
            (IF k = Count + 1 THEN x ELSE Contents[k]) \in Item
      BY <2>4
    <3> QED BY <2>4, <2>10, <3>1
  <2>12. /\ Append(Contents, x) \in Seq(Item)
         /\ Len(Append(Contents, x)) = Count + 1
         /\ \A k \in 1..(Count + 1) :
              Append(Contents, x)[k] = IF k = Count + 1 THEN x ELSE Contents[k]
    BY <2>4
  <2>13. Contents' = Append(Contents, x)
    BY <2>11, <2>12, SeqEqual
  <2> QED BY <1>1, <2>1, <2>4, <2>13 DEF Push, Fifo!Push
<1>2. CASE Succ(head) = tail
  <2>1. Count = Size - 1
    BY <1>0, <1>2, SuccCases DEF Slots, Count
  <2>2. Contents' = Contents
    BY <1>2 DEF Push, Contents, Count, SlotOf
  <2> QED BY <1>2, <2>1, <2>2, ContentsType DEF Push, Fifo!Push
<1> QED BY <1>1, <1>2

(* A pop of the ring is a pop of the FIFO.                                 *)
LEMMA PopRefines ==
  ASSUME TypeOK, Pop
  PROVE  Fifo!Pop
<1> USE RingAssumption
<1>0. /\ head \in Slots /\ tail \in Slots /\ Size \in Nat
      /\ head' = head /\ queue' = queue
  BY DEF Pop, TypeOK
<1>1. CASE tail # head
  <2>0. tail' = Succ(tail) /\ popped' = queue[tail]
    BY <1>1 DEF Pop
  <2>1. Count > 0 /\ Count' = Count - 1 /\ SlotOf(1) = tail
    BY <1>0, <1>1, <2>0, SuccCases DEF Slots, Count, SlotOf
  <2>2. \A k \in 1..(Count - 1) : SlotOf(k)' = SlotOf(k + 1)
    BY <1>0, <1>1, <2>0, SuccCases DEF Slots, Count, SlotOf
  <2>3. Contents' = [k \in 1..(Count - 1) |-> queue[SlotOf(k + 1)]]
    BY <1>0, <2>1, <2>2 DEF Contents
  <2>4. Contents \in Seq(Item) /\ Len(Contents) = Count /\ Count \in Nat
    BY ContentsType
  <2>5. \A k \in 1..Count : Contents[k] = queue[SlotOf(k)]
    BY DEF Contents
  <2>6. Contents' = [k \in 1..(Count - 1) |-> Contents[k + 1]]
    BY <2>3, <2>4, <2>5
  <2>7. Contents # <<>> /\ Head(Contents) = queue[tail]
    BY <2>1, <2>4, <2>5
  <2>8. Contents' = Tail(Contents)
    <3>1. \A k \in 1..(Count - 1) : Contents[k + 1] \in Item
      BY <2>4
    <3>2. Contents' \in Seq(Item) /\ Len(Contents') = Count - 1
      BY <2>1, <2>4, <2>6, <3>1
    <3>3. /\ Tail(Contents) \in Seq(Item) /\ Len(Tail(Contents)) = Count - 1
          /\ \A k \in 1..(Count - 1) : Tail(Contents)[k] = Contents[k + 1]
      BY <2>4, <2>7, HeadTailProperties
    <3>4. \A k \in 1..(Count - 1) : Contents'[k] = Tail(Contents)[k]
      BY <2>6, <3>3
    <3> QED BY <3>2, <3>3, <3>4, SeqEqual
  <2> QED BY <1>1, <2>0, <2>7, <2>8 DEF Pop, Fifo!Pop
<1>2. CASE tail = head
  <2>1. Contents' = Contents
    BY <1>2 DEF Pop, Contents, Count, SlotOf
  <2>2. Contents = <<>>
    BY <1>0, <1>2, ContentsType DEF Slots, Count
  <2> QED BY <1>2, <2>1, <2>2 DEF Pop, Fifo!Pop
<1> QED BY <1>1, <1>2

(* The ring buffer of io_command.c implements the bounded FIFO.            *)
THEOREM RingImplementsFifo == Spec => ImplementsFifo
<1>1. Init => Fifo!Init
  <2> SUFFICES ASSUME Init PROVE Fifo!Init
    OBVIOUS
  <2>0. 0 \in Slots
    BY RingAssumption DEF Slots
  <2>1. TypeOK
    BY <2>0 DEF Init, TypeOK
  <2>2. Count = 0
    BY DEF Init, Count
  <2>3. Contents = <<>>
    BY <2>1, <2>2, ContentsType
  <2> QED BY <2>3 DEF Init, Fifo!Init
<1>2. TypeOK /\ [Next]_vars => [Fifo!Next]_<<Contents, pushed, popped>>
  <2> SUFFICES ASSUME TypeOK, [Next]_vars
               PROVE  [Fifo!Next]_<<Contents, pushed, popped>>
    OBVIOUS
  <2>1. CASE Pop
    BY <2>1, PopRefines DEF Fifo!Next
  <2>2. ASSUME NEW x \in Item, Push(x)
        PROVE  [Fifo!Next]_<<Contents, pushed, popped>>
    BY <2>2, PushRefines DEF Fifo!Next
  <2>3. CASE UNCHANGED vars
    BY <2>3 DEF vars, Contents, Count, SlotOf
  <2> QED BY <2>1, <2>2, <2>3 DEF Next
<1> QED BY <1>1, <1>2, TypeCorrect, PTL DEF Spec, ImplementsFifo, Fifo!Spec

-----------------------------------------------------------------------------
(***************************************************************************)
(* Accounts.  AuthInv says more than AdminRemains: where the session is,   *)
(* and that its account is the same in flash.  Every edit is made through  *)
(* the session and never of the session's own account, so that account is  *)
(* the administrator who remains; and the first start stays open only      *)
(* while nobody was acknowledged.                                          *)
(***************************************************************************)
AuthConf == [ver : {0, 1, 2}, conf : BOOLEAN, acc : [aSlots -> A!Account \cup {A!None}]]

\* An enabled administrator in slot s of configuration c.
AdminIn(c, s) == s \in aSlots /\ c.acc[s].used /\ c.acc[s].on /\ c.acc[s].admin

\* An administrator was acknowledged, and no start since failed to read it.
AuthKept == aMade /\ ~aUnread

AuthInv ==
    /\ aRam \in AuthConf /\ aRam.ver = 2
    /\ aFlash \in AuthConf /\ (aFlash.ver = 0 => ~aFlash.conf)
    /\ aUp \in BOOLEAN /\ aMade \in BOOLEAN /\ aUnread \in BOOLEAN
    /\ AuthKept => aFlash.conf /\ (aFlash.ver = 2 => \E s \in aSlots : AdminIn(aFlash, s))
    /\ AuthKept /\ aUp => aRam.conf /\ \E s \in aSlots : AdminIn(aRam, s)
    /\ aSession # 0 =>
          /\ aUp /\ AuthKept /\ AdminIn(aRam, aSession)
          /\ aFlash.ver = 2 /\ aFlash.acc[aSession] = aRam.acc[aSession]

LEMMA AuthSeeds ==
  /\ A!NoAccounts \in [aSlots -> A!Account \cup {A!None}]
  /\ A!Seed \in AuthConf /\ A!Seed.ver = 2 /\ ~A!Seed.conf
  /\ \A u \in aUsers : A!FirstAdmin(u) \in AuthConf /\ A!FirstAdmin(u).ver = 2 /\ A!FirstAdmin(u).conf
                       /\ AdminIn(A!FirstAdmin(u), 1)
<1>1. A!NoAccounts \in [aSlots -> A!Account \cup {A!None}]
  BY DEF A!NoAccounts
<1>2. A!Seed \in AuthConf /\ A!Seed.ver = 2 /\ ~A!Seed.conf
  BY <1>1 DEF A!Seed, AuthConf
<1>3. ASSUME NEW u \in aUsers
      PROVE  A!FirstAdmin(u) \in AuthConf /\ A!FirstAdmin(u).ver = 2 /\ A!FirstAdmin(u).conf
             /\ AdminIn(A!FirstAdmin(u), 1)
  <2> DEFINE a == [user |-> u, on |-> TRUE, admin |-> TRUE, used |-> TRUE]
  <2>1. a \in A!Account
    BY DEF A!Account
  <2>2. 1 \in aSlots
    BY AuthAssumption DEF A!ConstantsOK
  <2>3. A!FirstAdmin(u) \in AuthConf
    BY <1>2, <2>1, <2>2 DEF A!FirstAdmin, AuthConf
  <2>4. A!FirstAdmin(u).ver = 2 /\ A!FirstAdmin(u).conf = TRUE /\ A!FirstAdmin(u).acc[1] = a
    BY <1>2, <2>1, <2>2 DEF A!FirstAdmin, AuthConf
  <2> QED BY <2>2, <2>3, <2>4 DEF AdminIn
<1> QED BY <1>1, <1>2, <1>3

(* What a start loads from a blob: an acknowledged administrator stays.    *)
LEMMA AuthLoads ==
  ASSUME NEW f \in AuthConf
  PROVE  /\ A!Loaded(f) \in AuthConf /\ A!Loaded(f).ver = 2
         /\ f.conf /\ f.ver # 0 /\ (f.ver = 2 => \E s \in aSlots : AdminIn(f, s))
            => A!Loaded(f).conf /\ \E s \in aSlots : AdminIn(A!Loaded(f), s)
<1>0. aAdmin \in aUsers /\ 1 \in aSlots
  BY AuthAssumption DEF A!ConstantsOK
<1>1. f.ver \in {0, 1, 2}
  BY DEF AuthConf
<1>2. CASE f.ver = 0
  BY <1>2, AuthSeeds DEF A!Loaded
<1>3. CASE f.ver = 1
  <2>1. A!Loaded(f) = A!Migrated(f)
    BY <1>3 DEF A!Loaded
  <2>2. A!Migrated(f) = IF f.conf THEN A!FirstAdmin(aAdmin) ELSE A!Seed
    BY DEF A!Migrated, A!FirstAdmin
  <2> QED BY <1>0, <1>3, <2>1, <2>2, AuthSeeds
<1>4. CASE f.ver = 2
  <2>1. A!Loaded(f) = A!Sanitized(f)
    BY <1>4 DEF A!Loaded
  <2>2. A!Sanitized(f) \in {f, A!Seed}
    BY DEF A!Sanitized
  <2>3. ASSUME f.conf, \E s \in aSlots : AdminIn(f, s) PROVE A!Sanitized(f) = f
    <3>1. A!AnyAccount(f)
      BY <2>3 DEF A!AnyAccount, A!InUse, AdminIn
    <3>2. f.conf = A!AnyAccount(f)
      BY <2>3, <3>1 DEF A!AnyAccount
    <3> QED BY <3>2 DEF A!Sanitized
  <2> QED BY <1>4, <2>1, <2>2, <2>3, AuthSeeds
<1> QED BY <1>1, <1>2, <1>3, <1>4

LEMMA AuthInit == A!Init => AuthInv
<1> SUFFICES ASSUME A!Init PROVE AuthInv
  OBVIOUS
<1> DEFINE a == [user |-> aAdmin, on |-> TRUE, admin |-> TRUE, used |-> TRUE]
           l0 == A!Legacy(FALSE)
           l1 == A!Legacy(TRUE)
           odd == [A!Seed EXCEPT !.acc[1] = a]
<1>0. aAdmin \in aUsers /\ 1 \in aSlots
  BY AuthAssumption DEF A!ConstantsOK
<1>1. aFlash \in {A!NoBlob, A!Seed, l0, l1, odd}
  BY DEF A!Init
<1>2. odd \in AuthConf /\ odd.ver = 2 /\ ~odd.conf
  <2>1. a \in A!Account
    BY <1>0 DEF A!Account
  <2> QED BY <1>0, <2>1, AuthSeeds DEF AuthConf
<1>3. A!NoBlob \in AuthConf /\ ~A!NoBlob.conf
  BY AuthSeeds DEF A!NoBlob, AuthConf
<1>4. l0 \in AuthConf /\ l0.ver = 1 /\ l1 \in AuthConf /\ l1.ver = 1
  BY AuthSeeds DEF A!Legacy, AuthConf
<1> HIDE DEF l0, l1, odd
<1>5. aFlash \in AuthConf /\ (aFlash.ver = 0 => ~aFlash.conf) /\ (aFlash.ver = 2 => ~aFlash.conf)
  <2>1. A!Seed \in AuthConf /\ A!Seed.ver = 2 /\ ~A!Seed.conf
    BY AuthSeeds
  <2> QED BY <1>1, <1>2, <1>3, <1>4, <2>1
<1>6. aMade = aFlash.conf /\ aMade \in BOOLEAN
  BY <1>5 DEF A!Init, AuthConf
<1> QED BY <1>5, <1>6, AuthSeeds DEF A!Init, AuthInv, AuthKept

(* Writing a configuration that keeps the session's account.  Whether the  *)
(* write succeeds or fails, or the edit stays in memory, AuthInv holds.    *)
LEMMA AuthEdit ==
  ASSUME AuthInv, NEW c \in AuthConf, c.ver = 2, c.conf,
         aSession # 0, c.acc[aSession] = aRam.acc[aSession],
         UNCHANGED <<aUp, aMade, aUnread>>, aSession' \in {0, aSession},
         \/ aFlash' = c /\ aRam' = c
         \/ aRam' = c /\ UNCHANGED aFlash
         \/ UNCHANGED <<aFlash, aRam>>
  PROVE  AuthInv'
<1>1. aUp /\ AuthKept /\ AuthKept' /\ AdminIn(aRam, aSession) /\ AdminIn(c, aSession)
  BY DEF AuthInv, AdminIn, AuthKept
<1>2. CASE aFlash' = c /\ aRam' = c
  BY <1>1, <1>2 DEF AuthInv, AuthKept, AdminIn
<1>3. CASE aRam' = c /\ UNCHANGED aFlash
  BY <1>1, <1>3 DEF AuthInv, AuthKept, AdminIn
<1>4. CASE UNCHANGED <<aFlash, aRam>>
  BY <1>1, <1>4 DEF AuthInv, AuthKept, AdminIn
<1> QED BY <1>2, <1>3, <1>4

LEMMA AuthNext == AuthInv /\ [A!Next]_(A!vars) => AuthInv'
<1> SUFFICES ASSUME AuthInv, [A!Next]_(A!vars) PROVE AuthInv'
  OBVIOUS
<1>0. aRam \in AuthConf /\ aRam.ver = 2 /\ aFlash \in AuthConf
  BY DEF AuthInv
<1>1. ASSUME A!Boot PROVE AuthInv'
  <2>0. aSession' = 0 /\ aMade' = aMade /\ aUp' = TRUE
    BY <1>1 DEF A!Boot
  <2>1. CASE aRam' = A!Loaded(aFlash) /\ aFlash' \in {A!Loaded(aFlash), aFlash} /\ aUnread' = aUnread
    <3>2. A!Loaded(aFlash) \in AuthConf /\ A!Loaded(aFlash).ver = 2
      BY <1>0, AuthLoads
    <3>3. AuthKept => aFlash.conf /\ aFlash.ver # 0 /\ (aFlash.ver = 2 => \E s \in aSlots : AdminIn(aFlash, s))
      BY DEF AuthInv
    <3>4. AuthKept => A!Loaded(aFlash).conf /\ \E s \in aSlots : AdminIn(A!Loaded(aFlash), s)
      BY <1>0, <3>3, AuthLoads
    <3> QED BY <2>0, <2>1, <3>2, <3>3, <3>4 DEF AuthInv, AuthKept, AdminIn
  <2>2. CASE aRam' = A!Loaded(A!NoBlob) /\ aFlash' \in {A!Seed, aFlash} /\ aUnread' = TRUE
    <3>1. A!NoBlob.ver = 0
      BY DEF A!NoBlob
    <3>2. aRam' = A!Seed
      BY <2>2, <3>1 DEF A!Loaded
    <3> QED BY <2>0, <2>2, <3>2, AuthSeeds DEF AuthInv, AuthKept
  <2> QED BY <1>1, <2>1, <2>2 DEF A!Boot, A!Starts
<1>2. ASSUME A!PowerCut PROVE AuthInv'
  BY <1>2, AuthSeeds DEF A!PowerCut, AuthInv, AuthKept, AdminIn
<1>3. ASSUME A!ChangePassword PROVE AuthInv'
  <2> DEFINE c == [aRam EXCEPT !.conf = TRUE]
  <2>1. c \in AuthConf /\ c.ver = 2 /\ c.conf /\ c.acc = aRam.acc
    BY <1>0 DEF AuthConf
  <2>2. aSession # 0 /\ aSession' = aSession /\ UNCHANGED <<aUp, aMade, aUnread>>
        /\ (UNCHANGED <<aFlash, aRam>> \/ (aFlash' = c /\ aRam' = c))
    BY <1>3 DEF A!ChangePassword, A!Saves, A!SaveFails
  <2> HIDE DEF c
  <2> QED BY <2>1, <2>2, AuthEdit
<1>4. ASSUME NEW u \in aUsers, A!BootstrapCreate(u) PROVE AuthInv'
  <2>1. aUp /\ ~aRam.conf /\ UNCHANGED aUp
    BY <1>4 DEF A!BootstrapCreate, A!BootstrapOpen
  <2>2. ~AuthKept /\ aSession = 0
    BY <2>1 DEF AuthInv
  <2>3. CASE A!Saves(A!FirstAdmin(u)) /\ aSession' = 1 /\ aMade' = TRUE /\ aUnread' = FALSE
    <3>1. aRam' = A!FirstAdmin(u) /\ aFlash' = A!FirstAdmin(u)
      BY <2>3 DEF A!Saves
    <3>2. 1 \in aSlots
      BY AuthSeeds DEF AdminIn
    <3>3. AdminIn(aRam', 1) /\ AdminIn(aFlash', 1)
      BY <3>1, AuthSeeds
    <3>4. aRam' \in AuthConf /\ aFlash' \in AuthConf /\ aRam'.ver = 2 /\ aFlash'.ver = 2 /\ aRam'.conf /\ aFlash'.conf
      BY <3>1, AuthSeeds
    <3>5. AuthKept' /\ aMade' \in BOOLEAN /\ aUnread' \in BOOLEAN /\ aUp' /\ aUp' \in BOOLEAN
      BY <2>1, <2>3 DEF AuthInv, AuthKept
    <3>6. aSession' = 1 /\ aFlash'.acc[1] = aRam'.acc[1]
      BY <2>3, <3>1
    <3>7. (\E s \in aSlots : AdminIn(aRam', s)) /\ \E s \in aSlots : AdminIn(aFlash', s)
      BY <3>2, <3>3
    <3>8. AdminIn(aRam', aSession') /\ aFlash'.acc[aSession'] = aRam'.acc[aSession']
      BY <3>3, <3>6
    <3> QED BY <3>4, <3>5, <3>7, <3>8 DEF AuthInv, AdminIn
  <2>4. CASE A!SaveFails /\ UNCHANGED <<aSession, aMade, aUnread>>
    BY <2>1, <2>2, <2>4 DEF A!SaveFails, AuthInv, AuthKept, AdminIn
  <2> QED BY <1>4, <2>3, <2>4 DEF A!BootstrapCreate
<1>5. ASSUME NEW u \in aUsers, A!DeleteAccount(u) PROVE AuthInv'
  <2>1. PICK s \in A!Find(aRam, u) :
          /\ A!MayEdit(s, TRUE)
          /\ aSession' = IF aSession = s THEN 0 ELSE aSession
          /\ A!Saves([aRam EXCEPT !.acc[s] = A!None]) \/ A!SaveFails
    BY <1>5 DEF A!DeleteAccount
  <2> DEFINE c == [aRam EXCEPT !.acc[s] = A!None]
  <2>2. s \in aSlots /\ s # aSession
    BY <2>1 DEF A!Find, A!MayEdit
  <2>3. aSession # 0 /\ aUp /\ UNCHANGED <<aUp, aMade, aUnread>>
    BY <1>5 DEF A!DeleteAccount, A!BySession
  <2>4. aRam.conf /\ aSession \in aSlots
    BY <2>3 DEF AuthInv, AdminIn
  <2>5. c \in AuthConf /\ c.ver = 2 /\ c.conf /\ c.acc[aSession] = aRam.acc[aSession]
    BY <1>0, <2>2, <2>4 DEF AuthConf
  <2>6. (aFlash' = c /\ aRam' = c) \/ UNCHANGED <<aFlash, aRam>>
    BY <2>1 DEF A!Saves, A!SaveFails
  <2>7. aSession' \in {0, aSession}
    BY <2>1
  <2> HIDE DEF c
  <2> QED BY <2>3, <2>5, <2>6, <2>7, AuthEdit
<1>6. ASSUME NEW u \in aUsers, NEW on \in BOOLEAN, NEW admin \in BOOLEAN,
             NEW pw \in {"none", "weak", "strong"}, A!SaveAccount(u, on, admin, pw)
      PROVE  AuthInv'
  <2>1. aSession # 0 /\ aUp /\ UNCHANGED <<aUp, aMade, aUnread>>
    BY <1>6 DEF A!SaveAccount, A!BySession
  <2>2. aRam.conf /\ aSession \in aSlots /\ AdminIn(aRam, aSession)
    BY <2>1 DEF AuthInv, AdminIn
  <2>3. ASSUME A!UpdateAccount(u, on, admin, pw) PROVE AuthInv'
    <3> DEFINE c(s) == [aRam EXCEPT !.acc[s].on = on, !.acc[s].admin = admin]
               left(s) == IF pw = "strong" /\ aSession = s THEN 0 ELSE aSession
    <3>1. PICK s \in A!Find(aRam, u) :
            /\ A!MayEdit(s, ~on \/ ~admin)
            /\ \/ pw = "weak" /\ aRam' = c(s) /\ A!NoLog /\ UNCHANGED <<aFlash, aFails, aSession>>
               \/ pw # "weak" /\ A!Saves(c(s)) /\ A!Log(1) /\ aSession' = left(s)
               \/ pw # "weak" /\ A!SaveFails /\ A!Log(1) /\ aSession' = left(s)
      BY <2>3 DEF A!UpdateAccount
    <3>2. s \in aSlots /\ s # aSession /\ aRam.acc[s].used
      BY <3>1 DEF A!Find, A!MayEdit, A!InUse
    <3>3. c(s) \in AuthConf /\ c(s).ver = 2 /\ c(s).conf /\ c(s).acc[aSession] = aRam.acc[aSession]
      <4>1. aRam.acc[s] \in A!Account
        BY <1>0, <3>2 DEF AuthConf, A!None
      <4> DEFINE a == [aRam.acc[s] EXCEPT !.on = on, !.admin = admin]
      <4>2. a \in A!Account
        BY <4>1 DEF A!Account
      <4>3. c(s) = [aRam EXCEPT !.acc[s] = a]
        BY <1>0, <3>2 DEF AuthConf
      <4> HIDE DEF a
      <4> QED BY <1>0, <2>2, <3>2, <4>2, <4>3 DEF AuthConf
    <3>4. \/ aFlash' = c(s) /\ aRam' = c(s)
          \/ aRam' = c(s) /\ UNCHANGED aFlash
          \/ UNCHANGED <<aFlash, aRam>>
      BY <3>1 DEF A!Saves, A!SaveFails
    <3>5. aSession' \in {0, aSession}
      BY <3>1
    <3> HIDE DEF c
    <3> QED BY <2>1, <3>3, <3>4, <3>5, AuthEdit
  <2>4. ASSUME A!CreateAccount(u, on, admin, pw) PROVE AuthInv'
    <3> DEFINE a == [user |-> u, on |-> on, admin |-> admin, used |-> TRUE]
               c(s) == [aRam EXCEPT !.acc[s] = a]
    <3>1. PICK s \in A!Free(aRam) : A!Saves(c(s)) \/ A!SaveFails
      BY <2>4 DEF A!CreateAccount
    <3>2. aSession' = aSession
      BY <2>4 DEF A!CreateAccount
    <3>3. s \in aSlots /\ s # aSession
      BY <2>2, <3>1 DEF A!Free, A!InUse, AdminIn
    <3>4. c(s) \in AuthConf /\ c(s).ver = 2 /\ c(s).conf /\ c(s).acc[aSession] = aRam.acc[aSession]
      <4>1. a \in A!Account
        BY DEF A!Account
      <4> HIDE DEF a
      <4> QED BY <1>0, <2>2, <3>3, <4>1 DEF AuthConf
    <3>5. (aFlash' = c(s) /\ aRam' = c(s)) \/ UNCHANGED <<aFlash, aRam>>
      BY <3>1 DEF A!Saves, A!SaveFails
    <3> HIDE DEF c
    <3> QED BY <2>1, <3>2, <3>4, <3>5, AuthEdit
  <2> QED BY <1>6, <2>3, <2>4 DEF A!SaveAccount
<1>7. ASSUME A!Logout \/ A!Expire \/ A!OtherEvent \/ UNCHANGED A!vars PROVE AuthInv'
  <2>1. UNCHANGED <<aUp, aRam, aFlash, aMade, aUnread>> /\ aSession' \in {0, aSession}
    BY <1>7 DEF A!Logout, A!Expire, A!OtherEvent, A!vars
  <2> QED BY <2>1 DEF AuthInv, AuthKept, AdminIn
<1> QED BY <1>1, <1>2, <1>3, <1>4, <1>5, <1>6, <1>7 DEF A!Next

(* auth.c: once an administrator was acknowledged, no edit, failed write,  *)
(* deletion, migration or restart leaves the node without an enabled one,  *)
(* for every number of accounts, users and failed writes.  Excepted is a   *)
(* start that could not read the accounts: auth_init then seeds the node   *)
(* as new (auth.c:727-732), until the next first administrator.            *)
THEOREM AuthAdminRemains == A!Spec => []AdminRemains
<1>1. AuthInv => AdminRemains
  BY DEF AuthInv, AuthKept, AdminIn, AdminRemains, A!AdminRemains, A!EnabledAdmin, A!InUse
<1> QED BY <1>1, AuthInit, AuthNext, PTL DEF A!Spec

(* auth.c: the open session belongs to an enabled administrator, the same  *)
(* in memory and in flash, whatever the requests made through it edit.     *)
THEOREM AuthSession == A!Spec => []SessionIsAdmin
<1>1. AuthInv => SessionIsAdmin
  BY DEF AuthInv, AdminIn, SessionIsAdmin, A!SessionIsAdmin, A!EnabledAdmin, A!InUse
<1> QED BY <1>1, AuthInit, AuthNext, PTL DEF A!Spec

(* The audit ring.  AudAt says which event each place of a ring r holds,   *)
(* with p the index and l the events logged: the places before the index   *)
(* were written in this round, the others in the round before, if any.     *)
AudEvent(p, l, k) ==
    IF k < p THEN l - p + k + 1 ELSE IF l >= aCap THEN l - p - aCap + k + 1 ELSE 0

AudAt(r, p, l) ==
    /\ l \in Nat /\ p \in 0..(aCap - 1)
    /\ l < aCap => p = l
    /\ r = [k \in 0..(aCap - 1) |-> AudEvent(p, l, k)]

AudSucc(p) == IF p = aCap - 1 THEN 0 ELSE p + 1
AudEntered(r, p, l) == [k \in 0..(aCap - 1) |-> IF k = p THEN l + 1 ELSE r[k]]

(* One more event goes to the place of the index.                          *)
LEMMA AudEnter ==
  ASSUME NEW r, NEW p, NEW l, AudAt(r, p, l)
  PROVE  AudAt(AudEntered(r, p, l), AudSucc(p), l + 1)
<1>0. aCap \in Nat \ {0}
  BY AuthAssumption DEF A!ConstantsOK
<1>1. l \in Nat /\ p \in 0..(aCap - 1) /\ (l < aCap => p = l)
  BY DEF AudAt
<1>2. \A k \in 0..(aCap - 1) : r[k] = AudEvent(p, l, k)
  BY DEF AudAt
<1>3. \A k \in 0..(aCap - 1) :
        (IF k = p THEN l + 1 ELSE r[k]) = AudEvent(AudSucc(p), l + 1, k)
  BY <1>0, <1>1, <1>2 DEF AudSucc, AudEvent
<1>4. /\ l + 1 \in Nat /\ AudSucc(p) \in 0..(aCap - 1)
      /\ l + 1 < aCap => AudSucc(p) = l + 1
  BY <1>0, <1>1 DEF AudSucc
<1> QED BY <1>3, <1>4 DEF AudAt, AudEntered

(* Log enters one event, or two one after the other.                       *)
LEMMA AudLogs ==
  ASSUME AudAt(aRing, aPos, aLogged), A!Log(1) \/ A!Log(2)
  PROVE  AudAt(aRing, aPos, aLogged)'
<1>0. aCap \in Nat \ {0} /\ aLogged \in Nat /\ aPos \in 0..(aCap - 1)
  BY AuthAssumption DEF A!ConstantsOK, AudAt
<1>1. aPos % aCap = aPos /\ (aPos + 1) % aCap = AudSucc(aPos)
  BY <1>0, SMTT(30) DEF AudSucc
<1> DEFINE new(n, k) == {j \in 1..n : (aPos + j - 1) % aCap = k}
           last(n, k) == IF new(n, k) = {} THEN aRing[k]
                         ELSE aLogged + CHOOSE j \in new(n, k) : \A i \in new(n, k) : i <= j
<1>2. ASSUME A!Log(1) PROVE AudAt(aRing, aPos, aLogged)'
  <2>1. /\ aLogged' = aLogged + 1
        /\ aRing' = [k \in 0..(aCap - 1) |-> last(1, k)]
        /\ aPos' = AudSucc(aPos)
    BY <1>1, <1>2 DEF A!Log
  <2>2. \A k \in 0..(aCap - 1) : new(1, k) = IF k = aPos THEN {1} ELSE {}
    BY <1>0, <1>1
  <2>3. \A k \in 0..(aCap - 1) : last(1, k) = IF k = aPos THEN aLogged + 1 ELSE aRing[k]
    BY <2>2
  <2> HIDE DEF last
  <2>4. aRing' = AudEntered(aRing, aPos, aLogged)
    BY <2>1, <2>3 DEF AudEntered
  <2> QED BY <2>1, <2>4, AudEnter
<1>3. ASSUME A!Log(2) PROVE AudAt(aRing, aPos, aLogged)'
  <2> DEFINE r == AudEntered(aRing, aPos, aLogged)
             p == AudSucc(aPos)
  <2>1. AudAt(r, p, aLogged + 1)
    BY AudEnter
  <2>2. AudAt(AudEntered(r, p, aLogged + 1), AudSucc(p), aLogged + 1 + 1)
    BY <2>1, AudEnter
  <2>3. (aPos + 2) % aCap = AudSucc(p)
    <3>1. CASE aCap = 1
      BY <1>0, <3>1 DEF AudSucc
    <3>2. CASE aCap > 1
      <4>1. aPos + 2 < aCap => (aPos + 2) % aCap = aPos + 2
        BY <1>0, SMTT(30)
      <4>2. aPos + 2 >= aCap => (aPos + 2) % aCap = aPos + 2 - aCap
        BY <1>0, <3>2, SMTT(30)
      <4> QED BY <1>0, <3>2, <4>1, <4>2 DEF AudSucc
    <3> QED BY <1>0, <3>1, <3>2
  <2>4. /\ aLogged' = aLogged + 2
        /\ aRing' = [k \in 0..(aCap - 1) |-> last(2, k)]
        /\ aPos' = AudSucc(p)
    BY <1>3, <2>3 DEF A!Log
  <2>5. \A k \in 0..(aCap - 1) :
          new(2, k) = IF k = p THEN IF k = aPos THEN {1, 2} ELSE {2}
                      ELSE IF k = aPos THEN {1} ELSE {}
    <3>1. 1..2 = {1, 2} /\ aPos + 1 - 1 = aPos /\ aPos + 2 - 1 = aPos + 1
      BY <1>0
    <3> QED BY <1>1, <3>1
  <2>6. \A k \in 0..(aCap - 1) :
          last(2, k) = IF k = p THEN aLogged + 2
                       ELSE IF k = aPos THEN aLogged + 1 ELSE aRing[k]
    BY <2>5
  <2> HIDE DEF last
  <2>7. aRing' = AudEntered(r, p, aLogged + 1)
    BY <1>0, <2>4, <2>6 DEF AudEntered
  <2>8. aLogged + 1 + 1 = aLogged + 2
    BY <1>0
  <2> HIDE DEF r, p
  <2> QED BY <2>2, <2>4, <2>7, <2>8
<1> QED BY <1>2, <1>3

(* The ring of a start is empty or holds one event.                        *)
LEMMA AudStarts ==
  ASSUME NEW b \in {0, 1}
  PROVE  AudAt([k \in 0..(aCap - 1) |-> IF k < b THEN 1 ELSE 0], b % aCap, b)
<1>0. aCap \in Nat \ {0}
  BY AuthAssumption DEF A!ConstantsOK
<1> DEFINE q == b % aCap
<1>1. q = IF b = aCap THEN 0 ELSE b
  BY <1>0, SMTT(30)
<1> HIDE DEF q
<1>2. \A k \in 0..(aCap - 1) : (IF k < b THEN 1 ELSE 0) = AudEvent(q, b, k)
  BY <1>0, <1>1 DEF AudEvent
<1>3. b \in Nat /\ q \in 0..(aCap - 1) /\ (b < aCap => q = b)
  BY <1>0, <1>1
<1>4. AudAt([k \in 0..(aCap - 1) |-> IF k < b THEN 1 ELSE 0], q, b)
  BY <1>2, <1>3 DEF AudAt
<1> QED BY <1>4 DEF q

LEMMA AudNext ==
  AudAt(aRing, aPos, aLogged) /\ [A!Next]_(A!vars) => AudAt(aRing, aPos, aLogged)'
<1> SUFFICES ASSUME AudAt(aRing, aPos, aLogged), [A!Next]_(A!vars)
             PROVE  AudAt(aRing, aPos, aLogged)'
  OBVIOUS
<1>1. ASSUME A!Boot PROVE AudAt(aRing, aPos, aLogged)'
  <2>0. A!Starts(aFlash) \/ A!Starts(A!NoBlob)
    BY <1>1 DEF A!Boot
  <2>1. PICK f : A!Starts(f)
    BY <2>0
  <2> DEFINE b == A!BootEvents(f)
  <2>2. b \in {0, 1}
    BY DEF A!BootEvents
  <2>3. /\ aLogged' = b /\ aPos' = b % aCap
        /\ aRing' = [k \in 0..(aCap - 1) |-> IF k < b THEN 1 ELSE 0]
    BY <2>1 DEF A!Starts
  <2> HIDE DEF b
  <2> QED BY <2>2, <2>3, AudStarts
<1>2. ASSUME A!PowerCut PROVE AudAt(aRing, aPos, aLogged)'
  <2>1. aLogged' = 0 /\ aPos' = 0 /\ aRing' = [k \in 0..(aCap - 1) |-> 0]
    BY <1>2 DEF A!PowerCut
  <2>2. aCap \in Nat \ {0}
    BY AuthAssumption DEF A!ConstantsOK
  <2>3. \A k \in 0..(aCap - 1) : AudEvent(0, 0, k) = 0
    BY <2>2 DEF AudEvent
  <2> QED BY <2>1, <2>2, <2>3 DEF AudAt
<1>3. ASSUME A!NoLog PROVE AudAt(aRing, aPos, aLogged)'
  BY <1>3 DEF A!NoLog, AudAt
<1>4. ASSUME A!Log(1) \/ A!Log(2) PROVE AudAt(aRing, aPos, aLogged)'
  BY <1>4, AudLogs
<1>5. A!ChangePassword \/ A!Logout \/ A!OtherEvent => A!Log(1)
  BY DEF A!ChangePassword, A!Logout, A!OtherEvent
<1>6. A!Expire \/ UNCHANGED A!vars => A!NoLog
  BY DEF A!Expire, A!vars, A!NoLog
<1>7. \A u \in aUsers : A!BootstrapCreate(u) \/ A!DeleteAccount(u) => A!Log(1) \/ A!Log(2)
  BY DEF A!BootstrapCreate, A!DeleteAccount
<1>8. ASSUME NEW u \in aUsers, NEW on \in BOOLEAN, NEW admin \in BOOLEAN,
             NEW pw \in {"none", "weak", "strong"}, A!SaveAccount(u, on, admin, pw)
      PROVE  A!NoLog \/ A!Log(1)
  <2>1. A!UpdateAccount(u, on, admin, pw) => A!NoLog \/ A!Log(1)
    BY Zenon DEF A!UpdateAccount
  <2>2. A!CreateAccount(u, on, admin, pw) => A!Log(1)
    BY Zenon DEF A!CreateAccount
  <2> QED BY <1>8, <2>1, <2>2, Zenon DEF A!SaveAccount
<1> QED BY <1>1, <1>2, <1>3, <1>4, <1>5, <1>6, <1>7, <1>8 DEF A!Next

(* The accounts' FiniteSets is the one of the library.                     *)
LEMMA AudCardinality == \A set : A!Cardinality(set) = Cardinality(set)
  BY Zenon DEF A!Cardinality, Cardinality

(* What the export makes of such a ring.                                   *)
LEMMA AudExport == AudAt(aRing, aPos, aLogged) => AuditIsTail
<1> SUFFICES ASSUME AudAt(aRing, aPos, aLogged) PROVE AuditIsTail
  OBVIOUS
<1>0. /\ aCap \in Nat \ {0} /\ aLogged \in Nat /\ aPos \in 0..(aCap - 1)
      /\ aLogged < aCap => aPos = aLogged
  BY AuthAssumption DEF A!ConstantsOK, AudAt
<1>1. \A k \in 0..(aCap - 1) :
        aRing[k] = IF k < aPos THEN aLogged - aPos + k + 1
                   ELSE IF aLogged >= aCap THEN aLogged - aPos - aCap + k + 1 ELSE 0
  BY DEF AudAt, AudEvent
<1> DEFINE held == {k \in 0..(aCap - 1) : aRing[k] # 0}
           count == Cardinality(held)
           start == IF count = aCap THEN aPos ELSE 0
           n == IF aLogged < aCap THEN aLogged ELSE aCap
<1>2. A!Export = [i \in 1..count |-> aRing[(start + i - 1) % aCap]]
  BY AudCardinality DEF A!Export
<1>3. held = 0..(n - 1)
  <2>1. CASE aLogged >= aCap
    <3>1. n = aCap
      BY <1>0, <2>1
    <3>2. \A k \in 0..(aCap - 1) : aRing[k] # 0
      BY <1>0, <1>1, <2>1
    <3> QED BY <3>1, <3>2
  <2>2. CASE aLogged < aCap
    <3>1. n = aLogged
      BY <1>0, <2>2
    <3>2. \A k \in 0..(aCap - 1) : aRing[k] # 0 <=> k < aLogged
      BY <1>0, <1>1, <2>2
    <3> HIDE DEF n
    <3>3. 0..(aLogged - 1) = {k \in 0..(aCap - 1) : k < aLogged}
      BY <1>0, <2>2
    <3> QED BY <3>1, <3>2, <3>3
  <2> QED BY <1>0, <2>1, <2>2
<1>4. n \in Nat /\ 0 \in Int /\ n - 1 \in Int /\ (n - 1) - 0 + 1 = n /\ (0 > n - 1 => n = 0)
  BY <1>0
<1> HIDE DEF n, held
<1>5. count = n
  <2>1. Cardinality(0..(n - 1)) = IF 0 > n - 1 THEN 0 ELSE (n - 1) - 0 + 1
    BY <1>4, FS_Interval, Zenon
  <2>2. count = IF 0 > n - 1 THEN 0 ELSE (n - 1) - 0 + 1
    BY <1>3, <2>1, Zenon
  <2> HIDE DEF count
  <2> QED BY <1>4, <2>2
<1> HIDE DEF count
<1>6. ASSUME NEW i \in 1..n
      PROVE  aRing[(start + i - 1) % aCap] = aLogged - n + i
  <2>1. CASE aLogged >= aCap
    <3>0. n = aCap /\ start = aPos /\ i \in 1..aCap
      BY <1>0, <1>5, <2>1 DEF n
    <3>1. aPos + i - 1 < aCap => (aPos + i - 1) % aCap = aPos + i - 1
      BY <1>0, <3>0, SMTT(30)
    <3>2. aPos + i - 1 >= aCap => (aPos + i - 1) % aCap = aPos + i - 1 - aCap
      BY <1>0, <3>0, SMTT(30)
    <3>3. CASE aPos + i - 1 < aCap
      BY <1>0, <1>1, <2>1, <3>0, <3>1, <3>3
    <3>4. CASE aPos + i - 1 >= aCap
      BY <1>0, <1>1, <2>1, <3>0, <3>2, <3>4
    <3> QED BY <1>0, <3>0, <3>3, <3>4
  <2>2. CASE aLogged < aCap
    <3>0. n = aLogged /\ start = 0 /\ i \in 1..aLogged
      BY <1>0, <1>5, <2>2 DEF n
    <3>1. (0 + i - 1) % aCap = i - 1
      BY <1>0, <2>2, <3>0, SMTT(30)
    <3> QED BY <1>0, <1>1, <2>2, <3>0, <3>1
  <2> QED BY <1>0, <2>1, <2>2
<1> HIDE DEF start
<1>7. A!Export = [i \in 1..n |-> aLogged - n + i]
  BY <1>2, <1>5, <1>6
<1> QED BY <1>7 DEF AuditIsTail, A!AuditIsTail, n

(* auth_export_audit: the audit shows the last events, all that fit, in    *)
(* the order they happened, for every capacity and however often the ring  *)
(* has gone round.                                                         *)
THEOREM AuditShowsTail == A!Spec => []AuditIsTail
<1>1. A!Init => AudAt(aRing, aPos, aLogged)
  <2>1. aCap \in Nat \ {0}
    BY AuthAssumption DEF A!ConstantsOK
  <2>2. \A k \in 0..(aCap - 1) : AudEvent(0, 0, k) = 0
    BY <2>1 DEF AudEvent
  <2> QED BY <2>1, <2>2 DEF A!Init, AudAt
<1> QED BY <1>1, AudNext, AudExport, PTL DEF A!Spec

-----------------------------------------------------------------------------
(***************************************************************************)
(* The snapshot.  SnapInv follows a save: what it has read so far is what  *)
(* the table holds, but for the values that changed after they were read   *)
(* (sMissed); so is what it wrote, unless the commit failed (sLost); and   *)
(* while it is under way something is pending, so that a failed write      *)
(* leaves it pending.                                                      *)
(***************************************************************************)
SnapTable == [S!Ids -> 0..1]

SnapType ==
    /\ sVal \in SnapTable /\ sBuf \in SnapTable /\ sFlash \in SnapTable
    /\ sPin \in [sInputs -> 0..1]
    /\ sPend \in BOOLEAN /\ sLost \in BOOLEAN
    /\ sAux \in {"idle", "export", "write", "clear"}
    /\ sK \in 0..Len(sOrder)

SnapInv ==
    /\ SnapType
    /\ sAux # "idle" => sPend
    /\ sAux = "export" => sK < Len(sOrder)
    /\ sAux \in {"write", "clear"} => sK = Len(sOrder)
    /\ sAux = "export" => \A i \in 1..sK : sOrder[i] \notin sMissed => sBuf[sOrder[i]] = sVal[sOrder[i]]
    /\ sAux = "write" => \A id \in S!Ids \ sMissed : sBuf[id] = sVal[id]
    /\ sAux = "clear" /\ ~sLost => \A id \in S!Ids \ sMissed : sFlash[id] = sVal[id]
    /\ CleanIsSaved

LEMMA SnapOrder ==
  /\ Len(sOrder) \in Nat \ {0}
  /\ \A i \in 1..Len(sOrder) : sOrder[i] \in S!Ids
  /\ \A id \in S!Ids : \E i \in 1..Len(sOrder) : sOrder[i] = id
<1>1. sOrder \in Seq(S!Ids) /\ sOrder # <<>>
  BY SnapshotAssumption DEF S!ConstantsOK
<1>2. Len(sOrder) \in Nat \ {0} /\ DOMAIN sOrder = 1..Len(sOrder)
  BY <1>1
<1> QED BY <1>1, <1>2 DEF S!Ids

(* What a start puts in the table.                                         *)
LEMMA SnapStart ==
  ASSUME NEW v \in SnapTable, sPin \in [sInputs -> 0..1]
  PROVE  S!Tested(S!Imported(v)) \in SnapTable
<1>1. \A o \in sOutputs : sStartup[o] \in {"restore", "on", "off"}
  BY SnapshotAssumption DEF S!ConstantsOK
<1>2. ASSUME NEW o \in sOutputs, NEW r \in 0..1 PROVE S!StartValue(o, r) \in 0..1
  <2>1. CASE sStartup[o] = "on"
    BY <2>1 DEF S!StartValue
  <2>2. CASE sStartup[o] = "off"
    BY <2>2 DEF S!StartValue
  <2>3. CASE sStartup[o] = "restore"
    BY <2>3 DEF S!StartValue
  <2> QED BY <1>1, <2>1, <2>2, <2>3
<1>3. S!Imported(v) \in SnapTable
  BY <1>2 DEF S!Imported, SnapTable
<1>4. ASSUME NEW w \in SnapTable PROVE S!Tested(w) \in SnapTable
  BY SnapshotAssumption DEF S!ConstantsOK, S!Tested, SnapTable
<1> QED BY <1>3, <1>4

LEMMA SnapInit == S!Init => SnapInv
<1> SUFFICES ASSUME S!Init PROVE SnapInv
  OBVIOUS
<1>0. 0 \in 0..Len(sOrder)
  BY SnapOrder
<1>1. S!Zero \in SnapTable
  BY DEF S!Zero, SnapTable
<1>2. sVal \in SnapTable
  BY <1>1, SnapStart DEF S!Init
<1>3. SnapType
  BY <1>0, <1>1, <1>2 DEF S!Init, SnapType
<1> QED BY <1>3 DEF S!Init, SnapInv, CleanIsSaved, S!CleanIsSaved

(* A value that changes: outside a save the table is then pending, and     *)
(* inside one the change is missed if the save has read the value already. *)
LEMMA SnapPut ==
  ASSUME SnapInv, NEW id \in S!Ids, NEW v \in 0..1, S!Put(id, v),
         UNCHANGED <<S!auxVars, sLost>>, sPin' \in [sInputs -> 0..1]
  PROVE  SnapInv'
<1>1. CASE sVal[id] = v
  BY <1>1 DEF S!Put, S!auxVars, SnapInv, SnapType, CleanIsSaved, S!CleanIsSaved
<1>2. CASE sVal[id] # v
  <2>1. /\ sVal' = [sVal EXCEPT ![id] = v] /\ sPend' = TRUE
        /\ sMissed' = IF sAux # "idle" /\ \E i \in 1..sK : sOrder[i] = id THEN sMissed \cup {id} ELSE sMissed
    BY <1>2 DEF S!Put
  <2>2. UNCHANGED <<sAux, sK, sBuf, sFlash, sLost>>
    BY DEF S!auxVars
  <2>3. SnapType'
    <3>1. sVal' \in SnapTable
      BY <2>1 DEF SnapInv, SnapType, SnapTable
    <3> QED BY <2>1, <2>2, <3>1 DEF SnapInv, SnapType
  <2>4. \A j \in S!Ids : j \notin sMissed' => j \notin sMissed
    BY <2>1
  <2>5. \A j \in S!Ids : j # id => sVal'[j] = sVal[j]
    BY <2>1 DEF SnapInv, SnapType, SnapTable
  <2>6. sAux \in {"write", "clear"} => id \in sMissed'
    <3> SUFFICES ASSUME sAux \in {"write", "clear"} PROVE id \in sMissed'
      OBVIOUS
    <3>1. sK = Len(sOrder)
      BY DEF SnapInv
    <3>2. \E i \in 1..sK : sOrder[i] = id
      BY <3>1, SnapOrder
    <3> QED BY <2>1, <3>2
  <2>7. ASSUME sAux = "export", NEW i \in 1..sK, sOrder[i] \notin sMissed'
        PROVE  sBuf[sOrder[i]] = sVal'[sOrder[i]]
    <3>1. sOrder[i] # id
      BY <2>1, <2>7
    <3>2. sOrder[i] \in S!Ids
      BY SnapOrder DEF SnapInv, SnapType
    <3>3. sBuf[sOrder[i]] = sVal[sOrder[i]]
      BY <2>4, <2>7, <3>2 DEF SnapInv
    <3> QED BY <2>5, <3>1, <3>2, <3>3
  <2>8. sAux = "write" => \A j \in S!Ids \ sMissed' : sBuf[j] = sVal'[j]
    BY <2>4, <2>5, <2>6 DEF SnapInv
  <2>9. sAux = "clear" /\ ~sLost => \A j \in S!Ids \ sMissed' : sFlash[j] = sVal'[j]
    BY <2>4, <2>5, <2>6 DEF SnapInv
  <2> QED BY <2>1, <2>2, <2>3, <2>7, <2>8, <2>9 DEF SnapInv, CleanIsSaved, S!CleanIsSaved
<1> QED BY <1>1, <1>2

LEMMA SnapNext == SnapInv /\ [S!Next]_(S!vars) => SnapInv'
<1> SUFFICES ASSUME SnapInv, [S!Next]_(S!vars) PROVE SnapInv'
  OBVIOUS
<1> USE DEF CleanIsSaved, S!CleanIsSaved
<1>0. 0 \in 0..Len(sOrder) /\ 0 < Len(sOrder)
  BY SnapOrder
<1>1. ASSUME S!Tick PROVE SnapInv'
  BY <1>1 DEF S!Tick, S!auxVars, S!io, S!counts, SnapInv, SnapType
<1>2. ASSUME S!Poll PROVE SnapInv'
  <2>1. sK' = 0 /\ sAux' = "export" /\ sLost' = FALSE /\ sPend /\ UNCHANGED <<sVal, sPend, sBuf, sFlash, sPin>>
    BY <1>2 DEF S!Poll, S!io
  <2>2. SnapType'
    BY <1>0, <2>1 DEF SnapInv, SnapType
  <2>3. 1..sK' = {}
    BY <2>1
  <2> QED BY <1>0, <2>1, <2>2, <2>3 DEF SnapInv
<1>3. ASSUME S!Export PROVE SnapInv'
  <2>1. /\ sAux = "export" /\ sBuf' = [sBuf EXCEPT ![sOrder[sK + 1]] = sVal[sOrder[sK + 1]]]
        /\ sK' = sK + 1 /\ sAux' = IF sK + 1 = Len(sOrder) THEN "write" ELSE "export"
        /\ UNCHANGED <<sVal, sPend, sFlash, sMissed, sLost, sPin>>
    BY <1>3 DEF S!Export, S!io
  <2>2. sK \in Nat /\ sK + 1 \in 1..Len(sOrder) /\ sOrder[sK + 1] \in S!Ids
    BY <2>1, SnapOrder DEF SnapInv, SnapType
  <2>3. SnapType'
    BY <2>1, <2>2, SnapOrder DEF SnapInv, SnapType, SnapTable
  <2>4. ASSUME NEW i \in 1..(sK + 1), sOrder[i] \notin sMissed PROVE sBuf'[sOrder[i]] = sVal[sOrder[i]]
    <3>1. i \in 1..sK \/ i = sK + 1
      BY <2>2
    <3>2. i \in 1..sK => sBuf[sOrder[i]] = sVal[sOrder[i]] /\ sOrder[i] \in S!Ids
      BY <2>1, <2>2, <2>4, SnapOrder DEF SnapInv
    <3> QED BY <2>1, <2>2, <3>1, <3>2 DEF SnapInv, SnapType, SnapTable
  <2>5. ASSUME sK + 1 = Len(sOrder) PROVE \A id \in S!Ids \ sMissed : sBuf'[id] = sVal[id]
    BY <2>4, <2>5, SnapOrder
  <2> QED BY <2>1, <2>2, <2>3, <2>4, <2>5, SnapOrder DEF SnapInv
<1>4. ASSUME S!Write PROVE SnapInv'
  BY <1>4 DEF S!Write, S!io, SnapInv, SnapType
<1>5. ASSUME S!Clear PROVE SnapInv'
  BY <1>5 DEF S!Clear, S!io, S!counts, SnapInv, SnapType
<1>6. ASSUME S!Restart PROVE SnapInv'
  <2>0. S!Zero \in SnapTable
    BY DEF S!Zero, SnapTable
  <2>1. sVal' \in SnapTable
    <3>1. sVal' = S!Tested(S!Imported(sFlash)) \/ sVal' = S!Tested(S!Imported(S!Zero))
      BY <1>6 DEF S!Restart
    <3> QED BY <2>0, <3>1, SnapStart DEF SnapInv, SnapType
  <2>2. sBuf' \in SnapTable
    BY <1>6 DEF S!Restart, S!Zero, SnapTable
  <2> QED BY <1>0, <1>6, <2>1, <2>2 DEF S!Restart, SnapInv, SnapType
<1>7. ASSUME NEW id \in S!Ids \ sInputs, NEW v \in 0..1, S!Set(id, v) PROVE SnapInv'
  <2>1. S!Put(id, v) /\ UNCHANGED <<S!auxVars, sLost>> /\ sPin' \in [sInputs -> 0..1]
    BY <1>7 DEF S!Set, S!io, SnapInv, SnapType
  <2> QED BY <2>1, SnapPut
<1>8. ASSUME NEW i \in sInputs, S!Flip(i) PROVE SnapInv'
  <2>1. sPin' \in [sInputs -> 0..1]
    BY <1>8 DEF S!Flip, SnapInv, SnapType
  <2> QED BY <1>8, <2>1 DEF S!Flip, S!auxVars, SnapInv, SnapType
<1>9. ASSUME NEW i \in sInputs, S!Scan(i) PROVE SnapInv'
  <2>1. S!Put(i, sPin[i]) \/ UNCHANGED <<sVal, sPend, sQuiet, sMissed>>
    BY <1>9 DEF S!Scan
  <2>2. UNCHANGED <<S!auxVars, sLost>> /\ sPin' = sPin
    BY <1>9 DEF S!Scan
  <2>3. i \in S!Ids /\ sPin[i] \in 0..1 /\ sPin' \in [sInputs -> 0..1]
    BY <2>2, SnapshotAssumption DEF S!ConstantsOK, SnapInv, SnapType
  <2>4. CASE UNCHANGED <<sVal, sPend, sQuiet, sMissed>>
    BY <2>2, <2>4 DEF S!auxVars, SnapInv, SnapType
  <2> QED BY <2>1, <2>2, <2>3, <2>4, SnapPut
<1>10. ASSUME UNCHANGED S!vars PROVE SnapInv'
  BY <1>10 DEF S!vars, SnapInv, SnapType
<1> QED BY <1>1, <1>2, <1>3, <1>4, <1>5, <1>6, <1>7, <1>8, <1>9, <1>10 DEF S!Next

(* snapshot.c: while nothing is pending flash holds the values of the      *)
(* table, for every table, and however changes, failed writes and restarts *)
(* fall between the steps of a save.  Two cases are excepted: a value that *)
(* changed after the last save had read it, that value alone, and a last   *)
(* save whose commit failed, which snapshot.c:75 does not look at.         *)
THEOREM SnapshotSaved == S!Spec => []CleanIsSaved
<1>1. SnapInv => CleanIsSaved
  BY DEF SnapInv
<1> QED BY <1>1, SnapInit, SnapNext, PTL DEF S!Spec

-----------------------------------------------------------------------------
(***************************************************************************)
(* The network policy: what the normalisation does.                        *)
(***************************************************************************)

(* The first of an order that a set has is one of the set.                 *)
LEMMA FirstIn ==
  ASSUME NEW order \in Seq(P!Transports), Len(order) \in 1..3, NEW s
  PROVE  P!First(order, s) \in (s \cap P!Transports) \cup {"NONE"}
<1> DEFINE Good(i) == order[i] \in s /\ \A j \in 1..(i - 1) : order[j] \notin s
<1>0. DOMAIN order = 1..Len(order)
  OBVIOUS
<1>1. CASE \E i \in DOMAIN order : order[i] \in s
  <2>1. \E i \in DOMAIN order : Good(i)
    <3>1. PICK i \in 1..Len(order) : order[i] \in s
      BY <1>0, <1>1
    <3>2. CASE order[1] \in s
      <4>1. 1 \in DOMAIN order /\ Good(1)
        BY <1>0, <3>2
      <4> QED BY <4>1
    <3>3. CASE order[1] \notin s /\ 2 \in 1..Len(order) /\ order[2] \in s
      <4>1. 2 \in DOMAIN order /\ Good(2)
        BY <1>0, <3>3
      <4> QED BY <4>1
    <3>4. CASE order[1] \notin s /\ order[2] \notin s /\ i = 3
      <4>1. 3 \in DOMAIN order /\ Good(3)
        BY <1>0, <3>1, <3>4
      <4> QED BY <4>1
    <3>5. i \in {1, 2, 3}
      BY <3>1
    <3> QED BY <3>1, <3>2, <3>3, <3>4, <3>5
  <2>2. (CHOOSE i \in DOMAIN order : Good(i)) \in DOMAIN order /\ Good(CHOOSE i \in DOMAIN order : Good(i))
    <3> HIDE DEF Good
    <3> QED BY <2>1
  <2>3. P!First(order, s) = order[CHOOSE i \in DOMAIN order : Good(i)]
    BY <1>1 DEF P!First
  <2> DEFINE i == CHOOSE k \in DOMAIN order : Good(k)
  <2>4. i \in 1..Len(order) /\ order[i] \in s /\ P!First(order, s) = order[i]
    BY <1>0, <2>2, <2>3
  <2> HIDE DEF i
  <2> QED BY <2>4
<1>2. CASE ~\E i \in DOMAIN order : order[i] \in s
  BY <1>2 DEF P!First
<1> QED BY <1>1, <1>2

LEMMA FirstOfTwo ==
  ASSUME NEW x \in P!Transports, NEW y \in P!Transports, NEW s
  PROVE  P!First(<<x, y>>, s) \in (s \cap P!Transports) \cup {"NONE"}
<1> DEFINE o == <<x, y>>
<1>1. o \in Seq(P!Transports) /\ Len(o) \in 1..3
  OBVIOUS
<1> HIDE DEF o
<1>2. P!First(o, s) \in (s \cap P!Transports) \cup {"NONE"}
  BY <1>1, FirstIn
<1> QED BY <1>2 DEF o

LEMMA FirstOfThree ==
  ASSUME NEW x \in P!Transports, NEW y \in P!Transports, NEW z \in P!Transports, NEW s
  PROVE  P!First(<<x, y, z>>, s) \in (s \cap P!Transports) \cup {"NONE"}
<1> DEFINE o == <<x, y, z>>
<1>1. o \in Seq(P!Transports) /\ Len(o) \in 1..3
  OBVIOUS
<1> HIDE DEF o
<1>2. P!First(o, s) \in (s \cap P!Transports) \cup {"NONE"}
  BY <1>1, FirstIn
<1> QED BY <1>2 DEF o

(* The three parts of a normalised policy that is not pending.             *)
NormalPrim(p) ==
    IF P!Allowed(p.prim, p) THEN p.prim
    ELSE P!First(<<"ETHERNET", "WIFI", "RS485">>, pSupported \cap (p.on \cup {"ETHERNET", "WIFI"}))
NormalFall(p) == IF P!Allowed(p.fall, p) /\ p.fall # NormalPrim(p) THEN p.fall ELSE "NONE"
NormalOn(p) ==
    (IF NormalPrim(p) \in {"WIFI", "ETHERNET"} THEN {NormalPrim(p), NormalFall(p)} \cap {"WIFI", "ETHERNET"} ELSE {})
    \cup P!Serial(p, NormalPrim(p), NormalFall(p))

(* The primary choice is supported or none of the three transports, and    *)
(* all that is enabled is supported.                                       *)
LEMMA NormalTypes ==
  ASSUME NEW p \in P!Policy
  PROVE  /\ NormalPrim(p) \in P!Choices /\ NormalFall(p) \in P!Choices
         /\ NormalPrim(p) \in P!Transports => NormalPrim(p) \in pSupported
         /\ NormalPrim(p) = "RS485" => "RS485" \in p.on
         /\ NormalFall(p) \in P!Transports => NormalFall(p) \in pSupported
         /\ NormalFall(p) = "RS485" => "RS485" \in p.on
         /\ NormalOn(p) \subseteq pSupported /\ NormalOn(p) \subseteq P!Transports
<1> DEFINE f == P!First(<<"ETHERNET", "WIFI", "RS485">>, pSupported \cap (p.on \cup {"ETHERNET", "WIFI"}))
<1>0. p.prim \in P!Choices /\ p.fall \in P!Choices /\ p.on \subseteq P!Transports
  BY DEF P!Policy
<1>1. f \in ((pSupported \cap (p.on \cup {"ETHERNET", "WIFI"})) \cap P!Transports) \cup {"NONE"}
  <2>1. "ETHERNET" \in P!Transports /\ "WIFI" \in P!Transports /\ "RS485" \in P!Transports
    BY DEF P!Transports
  <2> QED BY <2>1, FirstOfThree
<1>2. NormalPrim(p) = IF P!Allowed(p.prim, p) THEN p.prim ELSE f
  BY DEF NormalPrim
<1> HIDE DEF f
<1>3. /\ NormalPrim(p) \in P!Choices
      /\ NormalPrim(p) \in P!Transports => NormalPrim(p) \in pSupported
      /\ NormalPrim(p) = "RS485" => "RS485" \in p.on
  BY <1>0, <1>1, <1>2 DEF P!Allowed, P!Choices, P!Transports
<1>4. /\ NormalFall(p) \in P!Choices
      /\ NormalFall(p) \in P!Transports => NormalFall(p) \in pSupported
      /\ NormalFall(p) = "RS485" => "RS485" \in p.on
  BY <1>0 DEF NormalFall, P!Allowed, P!Choices, P!Transports
<1>5. NormalOn(p) \subseteq pSupported /\ NormalOn(p) \subseteq P!Transports
  BY <1>3, <1>4 DEF NormalOn, P!Serial, P!Transports
<1> QED BY <1>3, <1>4, <1>5

LEMMA NormalParts ==
  ASSUME NEW p \in P!Policy
  PROVE  /\ P!Normal(p) \in P!Policy /\ P!Normal(p).on \subseteq pSupported
         /\ P!Normal(p).mode = p.mode /\ P!Normal(p).pend = p.pend
         /\ p.pend => /\ P!Normal(p).on = pSupported \cap {"WIFI"}
                      /\ P!Normal(p).prim = P!First(<<"WIFI", "ETHERNET">>, pSupported)
                      /\ P!Normal(p).fall = "NONE"
         /\ ~p.pend => /\ P!Normal(p).on = NormalOn(p)
                       /\ P!Normal(p).prim = NormalPrim(p)
                       /\ P!Normal(p).fall = NormalFall(p)
<1>2. ASSUME p.pend
      PROVE  P!Normal(p) = [p EXCEPT !.prim = P!First(<<"WIFI", "ETHERNET">>, pSupported), !.fall = "NONE",
                                     !.on = pSupported \cap {"WIFI"}]
  BY <1>2 DEF P!Normal
<1>3. ASSUME ~p.pend
      PROVE  P!Normal(p) = [p EXCEPT !.prim = NormalPrim(p), !.fall = NormalFall(p), !.on = NormalOn(p)]
  BY <1>3 DEF P!Normal, NormalPrim, NormalFall, NormalOn
<1>4. P!First(<<"WIFI", "ETHERNET">>, pSupported) \in P!Choices
  <2>1. "ETHERNET" \in P!Transports /\ "WIFI" \in P!Transports
    BY DEF P!Transports
  <2>2. P!First(<<"WIFI", "ETHERNET">>, pSupported) \in (pSupported \cap P!Transports) \cup {"NONE"}
    BY <2>1, FirstOfTwo
  <2> QED BY <2>2 DEF P!Choices
<1>5. pSupported \cap {"WIFI"} \in SUBSET P!Transports /\ "NONE" \in P!Choices
  BY DEF P!Transports, P!Choices
<1>6. CASE p.pend
  <2> DEFINE f == P!First(<<"WIFI", "ETHERNET">>, pSupported)
             o == pSupported \cap {"WIFI"}
             q == P!Normal(p)
  <2>1. o \in SUBSET P!Transports /\ f \in P!Choices /\ "NONE" \in P!Choices /\ o \subseteq pSupported
        /\ q = [p EXCEPT !.prim = f, !.fall = "NONE", !.on = o]
    BY <1>2, <1>4, <1>5, <1>6
  <2> HIDE DEF f, o, q
  <2>2. q \in P!Policy /\ q.on = o /\ q.mode = p.mode /\ q.pend = p.pend /\ q.prim = f /\ q.fall = "NONE"
    BY <2>1 DEF P!Policy
  <2> QED BY <1>6, <2>1, <2>2 DEF f, o, q
<1>7. CASE ~p.pend
  <2> DEFINE q == P!Normal(p)
  <2>1. /\ NormalOn(p) \in SUBSET P!Transports /\ NormalPrim(p) \in P!Choices /\ NormalFall(p) \in P!Choices
        /\ NormalOn(p) \subseteq pSupported
    BY NormalTypes
  <2>2. q = [p EXCEPT !.prim = NormalPrim(p), !.fall = NormalFall(p), !.on = NormalOn(p)]
    BY <1>3, <1>7
  <2> HIDE DEF q
  <2>3. /\ q \in P!Policy /\ q.on = NormalOn(p) /\ q.mode = p.mode /\ q.pend = p.pend
        /\ q.prim = NormalPrim(p) /\ q.fall = NormalFall(p)
    BY <2>1, <2>2 DEF P!Policy
  <2> QED BY <1>7, <2>1, <2>3 DEF q
<1> QED BY <1>6, <1>7

(* device_profile.c: normalising twice is normalising once.                *)
LEMMA NormalIdempotent ==
  ASSUME NEW p \in P!Policy
  PROVE  P!Normal(P!Normal(p)) = P!Normal(p)
<1> DEFINE q == P!Normal(p)
           r == P!Normal(q)
<1>1. q \in P!Policy /\ q.mode = p.mode /\ q.pend = p.pend
  BY NormalParts
<1>2. r \in P!Policy /\ r.mode = q.mode /\ r.pend = q.pend
  BY <1>1, NormalParts
<1>3. ASSUME r.on = q.on, r.prim = q.prim, r.fall = q.fall PROVE r = q
  <2> HIDE DEF q, r
  <2> QED BY <1>1, <1>2, <1>3 DEF P!Policy
<1>4. CASE p.pend
  <2>1. r.on = q.on /\ r.prim = q.prim /\ r.fall = q.fall
    BY <1>1, <1>4, NormalParts
  <2> QED BY <1>3, <2>1
<1>5. CASE ~p.pend
  <2>1. q.on = NormalOn(p) /\ q.prim = NormalPrim(p) /\ q.fall = NormalFall(p)
    BY <1>5, NormalParts
  <2>2. r.on = NormalOn(q) /\ r.prim = NormalPrim(q) /\ r.fall = NormalFall(q)
    BY <1>1, <1>5, NormalParts
  <2> HIDE DEF q, r
  <2>3. "RS485" \in q.on <=> "RS485" \in pSupported /\ "RS485" \in ({q.prim, q.fall} \cup p.on)
    BY <2>1 DEF NormalOn, P!Serial
  <2>4. P!Allowed(q.prim, q)
    BY <2>1, <2>3, NormalTypes DEF P!Allowed, P!Transports
  <2>5. NormalPrim(q) = q.prim
    BY <2>4 DEF NormalPrim
  <2>6. P!Allowed(q.fall, q)
    BY <2>1, <2>3, NormalTypes DEF P!Allowed, P!Transports
  <2>7. q.fall # q.prim \/ q.fall = "NONE"
    BY <2>1 DEF NormalFall
  <2>8. NormalFall(q) = q.fall
    BY <2>5, <2>6, <2>7 DEF NormalFall
  <2>9. P!Serial(q, q.prim, q.fall) = P!Serial(p, q.prim, q.fall)
    BY <2>3 DEF P!Serial
  <2>10. NormalOn(q) = q.on
    BY <2>1, <2>5, <2>8, <2>9 DEF NormalOn
  <2>11. r = q
    BY <1>3, <2>1, <2>2, <2>5, <2>8, <2>10
  <2> QED BY <2>11 DEF q, r
<1> QED BY <1>4, <1>5

-----------------------------------------------------------------------------
(* What is stored and what the two tasks still have to do.                 *)
PolicyStep ==
    ({"enable"} \X [on : SUBSET P!Transports, mode : P!Modes])
    \cup ({"choose"} \X [pend : BOOLEAN, prim : P!Choices, fall : P!Choices])
    \cup ({"copy", "erase"} \X {""})
    \cup ({"write"} \X [ver : {4}, policy : P!Policy])
    \cup ({"node"} \X P!Profiles)
    \cup ({"record"} \X (P!Profiles \cup {"none"}))

\* A policy that a restart would not change.
Settled(p) == p \in P!Policy /\ P!Normal(p) = p /\ p.on \subseteq pSupported

\* The task is about to copy or to write the policy.
Saving(t) == pTodo[t] # <<>> /\ Head(pTodo[t])[1] \in {"copy", "write"}

PolicyType ==
    /\ Settled(pRam) /\ pBlob \in P!Blobs
    /\ pKey \in P!Profiles \cup {"none"} /\ pOnb \in P!Profiles \cup {"none"}
    /\ pLost \in BOOLEAN /\ pCrossed \in BOOLEAN
    /\ pTodo \in [P!Tasks -> Seq(PolicyStep)]
    /\ \A t \in P!Tasks : \A i \in 2..Len(pTodo[t]) : pTodo[t][i][1] \notin {"copy", "write"}

\* Memory and flash agree while no task is saving.
PolicyInv ==
    /\ PolicyType
    /\ (\A t \in P!Tasks : ~Saving(t)) /\ ~pStale => P!Normal(P!Loaded(pBlob)) = pRam

LEMMA LoadedSettled ==
  ASSUME NEW b \in P!Blobs
  PROVE  Settled(P!Normal(P!Loaded(b)))
<1> USE PolicyAssumption DEF P!ConstantsOK
<1>1. ASSUME NEW p \in P!Policy PROVE Settled(P!Normal(p))
  BY NormalParts, NormalIdempotent DEF Settled
<1>2. P!Default \in P!Policy
  <2>1. P!First(<<"WIFI", "ETHERNET">>, pSupported) \in (pSupported \cap P!Transports) \cup {"NONE"}
    BY FirstOfTwo DEF P!Transports
  <2>2. P!First(<<"WIFI", "ETHERNET">>, pSupported) \in P!Choices
    BY <2>1 DEF P!Choices
  <2> QED BY <2>2 DEF P!Default, P!Policy, P!Modes, P!Choices
<1>3. CASE b.ver = 0
  BY <1>1, <1>2, <1>3 DEF P!Loaded
<1>4. CASE b.ver # 0
  <2>1. b.ver \in 1..4 /\ b.policy \in P!Policy
    BY <1>4 DEF P!Blobs, P!NoBlob
  <2>2. ASSUME NEW on \in SUBSET P!Transports PROVE [b.policy EXCEPT !.on = on] \in P!Policy
    BY <2>1 DEF P!Policy
  <2>3. ASSUME NEW on \in SUBSET P!Transports PROVE [b.policy EXCEPT !.on = on, !.mode = "infra"] \in P!Policy
    BY <2>1 DEF P!Policy, P!Modes
  <2>4. b.policy.on \in SUBSET P!Transports
    BY <2>1 DEF P!Policy
  <2>5. ASSUME NEW on \in SUBSET P!Transports PROVE P!Legacy(on) \in P!Policy
    <3>1. P!First(<<"ETHERNET", "WIFI">>, on) \in (on \cap P!Transports) \cup {"NONE"}
      BY FirstOfTwo DEF P!Transports
    <3>2. P!First(<<"ETHERNET", "WIFI">>, on) \in P!Choices
      BY <3>1 DEF P!Choices
    <3>3. (IF {"ETHERNET", "WIFI"} \subseteq on THEN "WIFI" ELSE "NONE") \in P!Choices
      BY DEF P!Choices, P!Transports
    <3> QED BY <1>2, <3>2, <3>3 DEF P!Legacy, P!Policy
  <2>6. CASE b.ver \in {3, 4}
    BY <1>1, <2>2, <2>4, <2>6 DEF P!Loaded
  <2>7. CASE b.ver = 2
    <3> DEFINE on == (b.policy.on \cap pSupported) \ {"RS485"}
    <3>1. P!Loaded(b) = [b.policy EXCEPT !.on = on, !.mode = "infra"]
      BY <2>7 DEF P!Loaded
    <3>2. on \in SUBSET P!Transports
      BY <2>4
    <3> HIDE DEF on
    <3> QED BY <1>1, <2>3, <3>1, <3>2
  <2>8. CASE b.ver = 1
    BY <1>1, <2>5, <2>4, <2>8 DEF P!Loaded
  <2> QED BY <2>1, <2>6, <2>7, <2>8
<1> QED BY <1>3, <1>4

(* A policy in force comes back from its own blob.                         *)
LEMMA SettledKept ==
  ASSUME NEW p, Settled(p)
  PROVE  /\ [ver |-> 4, policy |-> p] \in P!Blobs
         /\ P!Normal(P!Loaded([ver |-> 4, policy |-> p])) = p
<1> DEFINE b == [ver |-> 4, policy |-> p]
<1>1. b \in P!Blobs
  BY DEF Settled, P!Blobs
<1>2. p.on \cap pSupported = p.on /\ p \in P!Policy
  BY DEF Settled
<1>3. P!Loaded(b) = [p EXCEPT !.on = p.on \cap pSupported]
  BY DEF P!Loaded
<1>4. [p EXCEPT !.on = p.on \cap pSupported] = p
  BY <1>2 DEF P!Policy
<1> QED BY <1>1, <1>3, <1>4 DEF Settled

(* What is left of a sequence of steps, and a step put in the first place. *)
LEMMA StepsLeft ==
  ASSUME NEW X, NEW s \in Seq(X), s # <<>>
  PROVE  /\ Len(s) \in Nat \ {0} /\ Head(s) = s[1] /\ s[1] \in X
         /\ \A i \in 1..Len(s) : s[i] \in X
         /\ <<>> \o Tail(s) \in Seq(X) /\ Len(<<>> \o Tail(s)) = Len(s) - 1
         /\ \A i \in 1..(Len(s) - 1) : (<<>> \o Tail(s))[i] = s[i + 1]
<1>1. Len(s) \in Nat \ {0} /\ Head(s) = s[1] /\ s[1] \in X /\ \A i \in 1..Len(s) : s[i] \in X
  OBVIOUS
<1>2. Tail(s) \in Seq(X) /\ Len(Tail(s)) = Len(s) - 1 /\ \A i \in 1..(Len(s) - 1) : Tail(s)[i] = s[i + 1]
  OBVIOUS
<1>3. <<>> \o Tail(s) = Tail(s)
  BY <1>2
<1> QED BY <1>1, <1>2, <1>3

LEMMA StepReplaced ==
  ASSUME NEW X, NEW s \in Seq(X), s # <<>>, NEW x \in X
  PROVE  /\ <<x>> \o Tail(s) \in Seq(X) /\ Len(<<x>> \o Tail(s)) = Len(s) /\ <<x>> \o Tail(s) # <<>>
         /\ (<<x>> \o Tail(s))[1] = x /\ Head(<<x>> \o Tail(s)) = x
         /\ \A i \in 2..Len(s) : (<<x>> \o Tail(s))[i] = s[i]
<1>1. Tail(s) \in Seq(X) /\ Len(Tail(s)) = Len(s) - 1 /\ \A i \in 1..(Len(s) - 1) : Tail(s)[i] = s[i + 1]
  OBVIOUS
<1>2. <<x>> \in Seq(X) /\ Len(<<x>>) = 1 /\ <<x>>[1] = x
  OBVIOUS
<1> DEFINE o == <<x>>
           r == Tail(s)
           q == o \o r
<1>3. Len(s) \in Nat \ {0}
  OBVIOUS
<1> HIDE DEF o, r
<1>4. o \in Seq(X) /\ Len(o) = 1 /\ o[1] = x
  BY <1>2 DEF o
<1>5. r \in Seq(X) /\ Len(r) = Len(s) - 1 /\ \A i \in 1..(Len(s) - 1) : r[i] = s[i + 1]
  BY <1>1 DEF r
<1>6. /\ q \in Seq(X) /\ Len(q) = Len(o) + Len(r)
      /\ \A i \in 1..(Len(o) + Len(r)) : q[i] = IF i <= Len(o) THEN o[i] ELSE r[i - Len(o)]
  <2>1. o \in Seq(X) /\ r \in Seq(X)
    BY <1>4, <1>5
  <2> QED BY <2>1, ConcatProperties, Zenon
<1> HIDE DEF q
<1>7. Len(q) = Len(s) /\ q[1] = x /\ \A i \in 2..Len(s) : q[i] = s[i]
  BY <1>3, <1>4, <1>5, <1>6
<1>8. q # <<>> /\ Head(q) = x
  BY <1>3, <1>6, <1>7
<1> QED BY <1>6, <1>7, <1>8 DEF q, o, r

-----------------------------------------------------------------------------
(* Claims and resets.  A claim writes the onboarding record after the      *)
(* profile, and a reset erases the profile after the record; ClaimInv says *)
(* this of whatever is left of either, wherever power is cut.              *)
Records(e) == e[1] = "record" /\ e[2] # "none"
Forgets(e) == e[1] = "record" /\ e[2] = "none"

RecordLast(s) ==
    \A i \in 1..Len(s) : Records(s[i]) =>
        /\ pKey # "none" \/ \E j \in 1..(i - 1) : s[j][1] = "node"
        /\ \A j \in 1..(i - 1) : s[j][1] # "erase"

EraseLast(s) ==
    \A i \in 1..Len(s) : s[i][1] = "erase" =>
        /\ pOnb = "none" \/ \E j \in 1..(i - 1) : Forgets(s[j])
        /\ \A j \in 1..(i - 1) : ~Records(s[j])

ClaimInv ==
    ~pLost /\ ~pCrossed =>
        /\ ClaimedHasProfile
        /\ \A t \in P!Tasks : RecordLast(pTodo[t]) /\ EraseLast(pTodo[t])
        /\ \A t, u \in P!Tasks : pTodo[t] # <<>> /\ pTodo[u] # <<>> => t = u

(* The steps a request begins with.                                        *)
Script(s) ==
    /\ s \in Seq(PolicyStep)
    /\ \A i \in 1..Len(s) : s[i][1] \notin {"copy", "write"}
    /\ \A i \in 1..Len(s) : Records(s[i]) =>
          /\ \E j \in 1..(i - 1) : s[j][1] = "node"
          /\ \A j \in 1..(i - 1) : s[j][1] # "erase"
    /\ \A i \in 1..Len(s) : s[i][1] = "erase" =>
          /\ \E j \in 1..(i - 1) : Forgets(s[j])
          /\ \A j \in 1..(i - 1) : ~Records(s[j])

LEMMA TemplateSteps ==
  ASSUME NEW profile \in P!Profiles
  PROVE  \E a \in PolicyStep, b \in PolicyStep, c \in PolicyStep :
            /\ P!ApplyTemplate(profile) = <<a, b, c>>
            /\ a[1] = "enable" /\ b[1] = "choose" /\ c = <<"node", profile>>
<1> DEFINE p == P!Template(profile)
           a == <<"enable", [on |-> p.on, mode |-> p.mode]>>
           b == <<"choose", [pend |-> p.pend, prim |-> p.prim, fall |-> p.fall]>>
           c == <<"node", profile>>
<1>1. p \in P!Policy
  <2> USE DEF P!Transports, P!Choices, P!Modes
  <2>1. P!Rs \subseteq P!Transports
    BY DEF P!Rs
  <2>2. P!First(<<"RS485">>, P!Rs) \in P!Choices
    <3> DEFINE o == <<"RS485">>
    <3>1. o \in Seq(P!Transports) /\ Len(o) \in 1..3
      OBVIOUS
    <3> HIDE DEF o
    <3>2. P!First(o, P!Rs) \in (P!Rs \cap P!Transports) \cup {"NONE"}
      BY <3>1, FirstIn DEF P!Transports
    <3> QED BY <3>2 DEF o
  <2>3. P!First(<<"RS485", "WIFI">>, {"WIFI"} \cup P!Rs) \in P!Choices
    <3>1. P!First(<<"RS485", "WIFI">>, {"WIFI"} \cup P!Rs) \in (({"WIFI"} \cup P!Rs) \cap P!Transports) \cup {"NONE"}
      BY FirstOfTwo
    <3> QED BY <3>1
  <2>4. P!GatewayNet \in P!Policy
    BY <2>1, <2>2 DEF P!GatewayNet, P!Policy
  <2>5. P!SensorNet \in P!Policy
    BY <2>4 DEF P!SensorNet, P!Policy
  <2>6. P!RelayNet \in P!Policy
    BY <2>1, <2>3 DEF P!RelayNet, P!Policy
  <2>7. P!FieldNet \in P!Policy
    BY <2>6 DEF P!FieldNet, P!Policy
  <2> QED BY <2>4, <2>5, <2>6, <2>7 DEF P!Template, P!Profiles
<1>2. a \in PolicyStep /\ b \in PolicyStep /\ c \in PolicyStep
  BY <1>1 DEF PolicyStep, P!Policy
<1>3. P!ApplyTemplate(profile) = <<a, b, c>>
  BY DEF P!ApplyTemplate
<1>4. a[1] = "enable" /\ b[1] = "choose"
  OBVIOUS
<1> HIDE DEF p, a, b
<1> QED BY <1>2, <1>3, <1>4

LEMMA ClaimScript ==
  ASSUME NEW profile \in P!Profiles
  PROVE  Script(P!ApplyTemplate(profile) \o << <<"record", profile>> >>)
<1>1. PICK a \in PolicyStep, b \in PolicyStep, c \in PolicyStep :
        /\ P!ApplyTemplate(profile) = <<a, b, c>>
        /\ a[1] = "enable" /\ b[1] = "choose" /\ c = <<"node", profile>>
  BY TemplateSteps
<1> DEFINE d == <<"record", profile>>
           x == <<a, b, c>>
           y == <<d>>
           s == x \o y
<1>3. d \in PolicyStep /\ d[1] = "record" /\ c[1] = "node"
  BY <1>1 DEF PolicyStep
<1> HIDE DEF d
<1>4. s \in Seq(PolicyStep) /\ Len(s) = 4 /\ s[1] = a /\ s[2] = b /\ s[3] = c /\ s[4] = d
  <2>1. /\ x \in Seq(PolicyStep) /\ Len(x) = 3 /\ x[1] = a /\ x[2] = b /\ x[3] = c
        /\ y \in Seq(PolicyStep) /\ Len(y) = 1 /\ y[1] = d
    BY <1>3
  <2> HIDE DEF x, y
  <2>2. /\ s \in Seq(PolicyStep) /\ Len(s) = Len(x) + Len(y)
        /\ \A i \in 1..(Len(x) + Len(y)) : s[i] = IF i <= Len(x) THEN x[i] ELSE y[i - Len(x)]
    BY <2>1, ConcatProperties, Zenon
  <2> HIDE DEF s
  <2> QED BY <2>1, <2>2
<1> HIDE DEF s
<1>5. \A i \in 1..4 : i \in {1, 2, 3, 4}
  OBVIOUS
<1>6. Script(s)
  BY <1>1, <1>3, <1>4, <1>5 DEF Script, Records
<1> QED BY <1>1, <1>6 DEF d, s

LEMMA ResetScript ==
  Script(<< <<"record", "none">>, <<"node", "FIELD">> >> \o P!ApplyTemplate("FIELD") \o << <<"erase", "">> >>)
<1>0. "FIELD" \in P!Profiles
  BY DEF P!Profiles
<1>1. PICK a \in PolicyStep, b \in PolicyStep, c \in PolicyStep :
        /\ P!ApplyTemplate("FIELD") = <<a, b, c>>
        /\ a[1] = "enable" /\ b[1] = "choose" /\ c = <<"node", "FIELD">>
  BY <1>0, TemplateSteps
<1> DEFINE f == <<"record", "none">>
           e == <<"erase", "">>
           x == <<f, c>>
           y == <<a, b, c>>
           z == <<e>>
           xy == x \o y
           s == xy \o z
<1>3. /\ f \in PolicyStep /\ f[1] = "record" /\ f[2] = "none"
      /\ e \in PolicyStep /\ e[1] = "erase" /\ c[1] = "node"
  BY <1>1 DEF PolicyStep
<1> HIDE DEF f, e
<1>4. /\ s \in Seq(PolicyStep) /\ Len(s) = 6
      /\ s[1] = f /\ s[2] = c /\ s[3] = a /\ s[4] = b /\ s[5] = c /\ s[6] = e
  <2>1. /\ x \in Seq(PolicyStep) /\ Len(x) = 2 /\ x[1] = f /\ x[2] = c
        /\ y \in Seq(PolicyStep) /\ Len(y) = 3 /\ y[1] = a /\ y[2] = b /\ y[3] = c
        /\ z \in Seq(PolicyStep) /\ Len(z) = 1 /\ z[1] = e
    BY <1>3
  <2> HIDE DEF x, y, z
  <2>2. /\ xy \in Seq(PolicyStep) /\ Len(xy) = Len(x) + Len(y)
        /\ \A i \in 1..(Len(x) + Len(y)) : xy[i] = IF i <= Len(x) THEN x[i] ELSE y[i - Len(x)]
    BY <2>1, ConcatProperties, Zenon
  <2> HIDE DEF xy
  <2>3. /\ s \in Seq(PolicyStep) /\ Len(s) = Len(xy) + Len(z)
        /\ \A i \in 1..(Len(xy) + Len(z)) : s[i] = IF i <= Len(xy) THEN xy[i] ELSE z[i - Len(xy)]
    <3>1. xy \in Seq(PolicyStep) /\ z \in Seq(PolicyStep)
      BY <2>1, <2>2
    <3> QED BY <3>1, ConcatProperties, Zenon
  <2> HIDE DEF s
  <2>4. Len(xy) = 5 /\ xy[1] = f /\ xy[2] = c /\ xy[3] = a /\ xy[4] = b /\ xy[5] = c
    BY <2>1, <2>2
  <2> QED BY <2>1, <2>3, <2>4
<1> HIDE DEF s
<1>5. \A i \in 1..6 : i \in {1, 2, 3, 4, 5, 6}
  OBVIOUS
<1>6. Script(s)
  BY <1>1, <1>3, <1>4, <1>5 DEF Script, Records, Forgets
<1> QED BY <1>1, <1>6 DEF f, e, s

(* A step of a task: it is done, or another one takes its place.           *)
LEMMA StepDone ==
  ASSUME PolicyType, NEW t \in P!Tasks, pTodo[t] # <<>>, P!Then(t, <<>>)
  PROVE  /\ pTodo' \in [P!Tasks -> Seq(PolicyStep)]
         /\ \A u \in P!Tasks : \A i \in 2..Len(pTodo'[u]) : pTodo'[u][i][1] \notin {"copy", "write"}
         /\ \A u \in P!Tasks \ {t} : pTodo'[u] = pTodo[u]
         /\ Len(pTodo[t]) \in Nat \ {0} /\ Head(pTodo[t]) = pTodo[t][1] /\ pTodo[t][1] \in PolicyStep
         /\ Len(pTodo'[t]) = Len(pTodo[t]) - 1
         /\ \A i \in 1..(Len(pTodo[t]) - 1) : pTodo'[t][i] = pTodo[t][i + 1]
<1> DEFINE s == pTodo[t]
           r == <<>> \o Tail(s)
<1>1. s \in Seq(PolicyStep) /\ pTodo \in [P!Tasks -> Seq(PolicyStep)]
  BY DEF PolicyType
<1>2. /\ Len(s) \in Nat \ {0} /\ Head(s) = s[1] /\ s[1] \in PolicyStep
      /\ r \in Seq(PolicyStep) /\ Len(r) = Len(s) - 1 /\ \A i \in 1..(Len(s) - 1) : r[i] = s[i + 1]
  BY <1>1, StepsLeft
<1>3. pTodo' = [pTodo EXCEPT ![t] = r]
  BY DEF P!Then
<1> HIDE DEF r
<1>4. pTodo' \in [P!Tasks -> Seq(PolicyStep)] /\ pTodo'[t] = r /\ \A u \in P!Tasks \ {t} : pTodo'[u] = pTodo[u]
  BY <1>1, <1>2, <1>3
<1>5. ASSUME NEW i \in 2..Len(r) PROVE r[i][1] \notin {"copy", "write"}
  <2>1. i + 1 \in 2..Len(s) /\ i \in 1..(Len(s) - 1)
    BY <1>2
  <2>2. s[i + 1][1] \notin {"copy", "write"}
    BY <2>1 DEF PolicyType
  <2> QED BY <1>2, <2>1, <2>2
<1>6. ASSUME NEW u \in P!Tasks \ {t}, NEW i \in 2..Len(pTodo[u]) PROVE pTodo[u][i][1] \notin {"copy", "write"}
  BY DEF PolicyType
<1> HIDE DEF s
<1> QED BY <1>2, <1>4, <1>5, <1>6 DEF s

LEMMA StepGoesOn ==
  ASSUME PolicyType, NEW t \in P!Tasks, pTodo[t] # <<>>, NEW x \in PolicyStep, P!Then(t, <<x>>)
  PROVE  /\ pTodo' \in [P!Tasks -> Seq(PolicyStep)]
         /\ \A u \in P!Tasks : \A i \in 2..Len(pTodo'[u]) : pTodo'[u][i][1] \notin {"copy", "write"}
         /\ \A u \in P!Tasks \ {t} : pTodo'[u] = pTodo[u]
         /\ Len(pTodo[t]) \in Nat \ {0} /\ Head(pTodo[t]) = pTodo[t][1] /\ pTodo[t][1] \in PolicyStep
         /\ Len(pTodo'[t]) = Len(pTodo[t]) /\ pTodo'[t] # <<>> /\ Head(pTodo'[t]) = x /\ pTodo'[t][1] = x
         /\ \A i \in 2..Len(pTodo[t]) : pTodo'[t][i] = pTodo[t][i]
<1> DEFINE s == pTodo[t]
           r == <<x>> \o Tail(s)
<1>1. s \in Seq(PolicyStep) /\ pTodo \in [P!Tasks -> Seq(PolicyStep)]
  BY DEF PolicyType
<1>2. Len(s) \in Nat \ {0} /\ Head(s) = s[1] /\ s[1] \in PolicyStep
  BY <1>1, StepsLeft
<1>3. /\ r \in Seq(PolicyStep) /\ Len(r) = Len(s) /\ r # <<>> /\ r[1] = x /\ Head(r) = x
      /\ \A i \in 2..Len(s) : r[i] = s[i]
  BY <1>1, StepReplaced
<1>4. pTodo' = [pTodo EXCEPT ![t] = r]
  BY DEF P!Then
<1> HIDE DEF r
<1>5. pTodo' \in [P!Tasks -> Seq(PolicyStep)] /\ pTodo'[t] = r /\ \A u \in P!Tasks \ {t} : pTodo'[u] = pTodo[u]
  BY <1>1, <1>3, <1>4
<1>6. \A u \in P!Tasks : \A i \in 2..Len(pTodo[u]) : pTodo[u][i][1] \notin {"copy", "write"}
  BY DEF PolicyType
<1> QED BY <1>2, <1>3, <1>5, <1>6

(* What the first step of a task may carry.                                *)
LEMMA StepArgs ==
  ASSUME PolicyType, NEW t \in P!Tasks, NEW name, P!Now(t, name)
  PROVE  /\ pTodo[t] # <<>> /\ pTodo[t][1][1] = name /\ Head(pTodo[t]) = pTodo[t][1]
         /\ P!Arg(t) = pTodo[t][1][2] /\ pTodo[t][1] \in PolicyStep
         /\ name = "enable" => P!Arg(t) \in [on : SUBSET P!Transports, mode : P!Modes]
         /\ name = "choose" => P!Arg(t) \in [pend : BOOLEAN, prim : P!Choices, fall : P!Choices]
         /\ name = "write" => P!Arg(t) \in [ver : {4}, policy : P!Policy]
         /\ name = "node" => P!Arg(t) \in P!Profiles
         /\ name = "record" => P!Arg(t) \in P!Profiles \cup {"none"}
<1> DEFINE e == pTodo[t][1]
<1>1. pTodo[t] # <<>> /\ Head(pTodo[t])[1] = name /\ P!Arg(t) = Head(pTodo[t])[2]
  BY DEF P!Now, P!Arg
<1>2. pTodo[t] \in Seq(PolicyStep)
  BY DEF PolicyType
<1>3. Head(pTodo[t]) = e /\ e \in PolicyStep
  BY <1>1, <1>2, StepsLeft
<1>4. e[1] = name /\ P!Arg(t) = e[2]
  BY <1>1, <1>3
<1> HIDE DEF e
<1>5. /\ e[1] = "enable" => e[2] \in [on : SUBSET P!Transports, mode : P!Modes]
      /\ e[1] = "choose" => e[2] \in [pend : BOOLEAN, prim : P!Choices, fall : P!Choices]
      /\ e[1] = "write" => e[2] \in [ver : {4}, policy : P!Policy]
      /\ e[1] = "node" => e[2] \in P!Profiles
      /\ e[1] = "record" => e[2] \in P!Profiles \cup {"none"}
  BY <1>3 DEF PolicyStep
<1> QED BY <1>1, <1>3, <1>4, <1>5 DEF e

(* A step after which the task is done with saving keeps what was agreed,  *)
(* when memory and flash stay as they are.                                 *)
LEMMA PolicyIdle ==
  ASSUME PolicyInv, NEW t \in P!Tasks, NEW name, P!Now(t, name), name \notin {"copy", "write"},
         P!Then(t, <<>>), UNCHANGED <<pRam, pBlob>>, pStale' = pStale,
         pKey' \in P!Profiles \cup {"none"}, pOnb' \in P!Profiles \cup {"none"},
         pLost' \in BOOLEAN, pCrossed' \in BOOLEAN
  PROVE  PolicyInv'
<1>1. pTodo[t] # <<>> /\ Head(pTodo[t])[1] = name
  BY DEF P!Now
<1>2. /\ pTodo' \in [P!Tasks -> Seq(PolicyStep)]
      /\ \A u \in P!Tasks : \A i \in 2..Len(pTodo'[u]) : pTodo'[u][i][1] \notin {"copy", "write"}
      /\ \A u \in P!Tasks \ {t} : pTodo'[u] = pTodo[u]
  BY <1>1, StepDone DEF PolicyInv
<1>3. PolicyType'
  BY <1>2 DEF PolicyInv, PolicyType, Settled
<1>4. (\A u \in P!Tasks : ~Saving(u)') => (\A u \in P!Tasks : ~Saving(u))
  BY <1>1, <1>2 DEF Saving
<1> QED BY <1>3, <1>4 DEF PolicyInv

(* A step that leaves the task with a policy to copy or to write.          *)
LEMMA PolicySaving ==
  ASSUME PolicyInv, NEW t \in P!Tasks, pTodo[t] # <<>>, NEW x \in PolicyStep, x[1] \in {"copy", "write"},
         P!Then(t, <<x>>), Settled(pRam)', UNCHANGED <<pBlob, pKey, pOnb, pLost, pCrossed>>
  PROVE  PolicyInv'
<1>1. /\ pTodo' \in [P!Tasks -> Seq(PolicyStep)]
      /\ \A u \in P!Tasks : \A i \in 2..Len(pTodo'[u]) : pTodo'[u][i][1] \notin {"copy", "write"}
      /\ pTodo'[t] # <<>> /\ Head(pTodo'[t]) = x
  BY StepGoesOn DEF PolicyInv
<1>2. PolicyType'
  BY <1>1 DEF PolicyInv, PolicyType
<1>3. Saving(t)'
  BY <1>1 DEF Saving
<1> QED BY <1>2, <1>3 DEF PolicyInv

(* A request begins.                                                       *)
LEMMA PolicyBegins ==
  ASSUME PolicyInv, NEW t \in P!Tasks, NEW s, Script(s), P!Begin(t, s)
  PROVE  PolicyInv'
<1>1. /\ pTodo[t] = <<>> /\ pTodo' = [pTodo EXCEPT ![t] = s] /\ pCrossed' \in BOOLEAN
      /\ UNCHANGED <<pRam, pBlob, pKey, pOnb, pStale, pLost>>
  BY DEF P!Begin
<1>2. s \in Seq(PolicyStep) /\ \A i \in 1..Len(s) : s[i][1] \notin {"copy", "write"}
  BY DEF Script
<1>3. /\ pTodo' \in [P!Tasks -> Seq(PolicyStep)] /\ pTodo'[t] = s
      /\ \A u \in P!Tasks \ {t} : pTodo'[u] = pTodo[u]
  BY <1>1, <1>2 DEF PolicyInv, PolicyType
<1>4. \A u \in P!Tasks : \A i \in 2..Len(pTodo'[u]) : pTodo'[u][i][1] \notin {"copy", "write"}
  BY <1>2, <1>3 DEF PolicyInv, PolicyType
<1>5. PolicyType'
  BY <1>1, <1>3, <1>4 DEF PolicyInv, PolicyType, Settled
<1>6. (\A u \in P!Tasks : ~Saving(u)') => (\A u \in P!Tasks : ~Saving(u))
  BY <1>1, <1>3 DEF Saving
<1> QED BY <1>1, <1>5, <1>6 DEF PolicyInv

(* Every request begins with a script.                                     *)
LEMMA RequestScripts ==
  ASSUME \/ \E t \in P!Tasks, profile \in P!Profiles : P!Claim(t, profile)
         \/ P!NetworkConfig \/ P!TransportSet \/ P!OnboardingReset \/ P!FactoryReset
  PROVE  \E t \in P!Tasks : \E s : Script(s) /\ P!Begin(t, s)
<1>0. "http" \in P!Tasks /\ "rx" \in P!Tasks
  BY DEF P!Tasks
<1>1. CASE \E t \in P!Tasks, profile \in P!Profiles : P!Claim(t, profile)
  BY <1>1, ClaimScript DEF P!Claim
<1>2. CASE P!NetworkConfig
  <2>1. PICK on \in SUBSET P!Transports, mode \in P!Modes :
          P!Begin("http", << <<"enable", [on |-> on, mode |-> mode]>> >>)
    BY <1>2 DEF P!NetworkConfig
  <2> DEFINE a == <<"enable", [on |-> on, mode |-> mode]>>
             s == <<a>>
  <2>2. a \in PolicyStep /\ a[1] = "enable"
    BY DEF PolicyStep
  <2> HIDE DEF a
  <2>3. s \in Seq(PolicyStep) /\ Len(s) = 1 /\ s[1] = a
    BY <2>2
  <2>4. Script(s)
    <3> HIDE DEF s
    <3> QED BY <2>2, <2>3 DEF Script, Records
  <2>5. P!Begin("http", s)
    BY <2>1 DEF a
  <2> QED BY <1>0, <2>4, <2>5
<1>3. CASE P!TransportSet
  <2>1. PICK q \in pOffered :
          P!Begin("rx", << <<"enable", [on |-> q.on, mode |-> q.mode]>>,
                           <<"choose", [pend |-> FALSE, prim |-> q.prim, fall |-> q.fall]>> >>)
    BY <1>3 DEF P!TransportSet
  <2> DEFINE a == <<"enable", [on |-> q.on, mode |-> q.mode]>>
             b == <<"choose", [pend |-> FALSE, prim |-> q.prim, fall |-> q.fall]>>
             s == <<a, b>>
  <2>2. a \in PolicyStep /\ a[1] = "enable" /\ b \in PolicyStep /\ b[1] = "choose"
    BY PolicyAssumption DEF P!ConstantsOK, PolicyStep
  <2> HIDE DEF a, b
  <2>3. s \in Seq(PolicyStep) /\ Len(s) = 2 /\ s[1] = a /\ s[2] = b
    BY <2>2
  <2>4. Script(s)
    <3> HIDE DEF s
    <3>1. \A i \in 1..2 : i \in {1, 2}
      OBVIOUS
    <3> QED BY <2>2, <2>3, <3>1 DEF Script, Records
  <2>5. P!Begin("rx", s)
    BY <2>1 DEF a, b
  <2> QED BY <1>0, <2>4, <2>5
<1>4. CASE P!OnboardingReset
  <2> DEFINE a == <<"record", "none">>
             s == <<a>>
  <2>2. a \in PolicyStep /\ a[1] = "record" /\ a[2] = "none"
    BY DEF PolicyStep
  <2> HIDE DEF a
  <2>3. s \in Seq(PolicyStep) /\ Len(s) = 1 /\ s[1] = a
    BY <2>2
  <2>4. Script(s)
    <3> HIDE DEF s
    <3> QED BY <2>2, <2>3 DEF Script, Records
  <2>5. P!Begin("http", s)
    BY <1>4 DEF P!OnboardingReset, a
  <2> QED BY <1>0, <2>4, <2>5
<1>5. CASE P!FactoryReset
  BY <1>0, <1>5, ResetScript DEF P!FactoryReset
<1> QED BY <1>1, <1>2, <1>3, <1>4, <1>5

LEMMA PolicyInit == P!Init => PolicyInv
<1> SUFFICES ASSUME P!Init PROVE PolicyInv
  OBVIOUS
<1>1. pBlob \in P!Blobs /\ pRam = P!Normal(P!Loaded(pBlob))
  BY PolicyAssumption DEF P!Init, P!ConstantsOK
<1>2. Settled(pRam)
  BY <1>1, LoadedSettled
<1>3. pTodo \in [P!Tasks -> Seq(PolicyStep)] /\ \A t \in P!Tasks : pTodo[t] = <<>> /\ Len(pTodo[t]) = 0
  BY DEF P!Init
<1>4. \A t \in P!Tasks : 2..Len(pTodo[t]) = {}
  BY <1>3
<1>5. pKey = "none" /\ pOnb = "none" /\ pLost = FALSE /\ pCrossed = FALSE
  BY DEF P!Init
<1> QED BY <1>1, <1>2, <1>3, <1>4, <1>5 DEF PolicyInv, PolicyType

LEMMA PolicyNext == PolicyInv /\ [P!Next]_(P!vars) => PolicyInv'
<1> SUFFICES ASSUME PolicyInv, [P!Next]_(P!vars) PROVE PolicyInv'
  OBVIOUS
<1>0. PolicyType /\ Settled(pRam) /\ pRam \in P!Policy /\ pBlob \in P!Blobs
  BY DEF PolicyInv, PolicyType, Settled
<1>a. ASSUME NEW p \in P!Policy PROVE Settled(P!Normal(p))
  BY NormalParts, NormalIdempotent DEF Settled
<1>b. << "copy", "" >> \in PolicyStep /\ << "copy", "" >>[1] = "copy"
  BY DEF PolicyStep
<1>1. ASSUME NEW t \in P!Tasks, P!Enable(t) PROVE PolicyInv'
  <2> DEFINE a == P!Arg(t)
             q == P!Manual(a.on, a.mode)
  <2>0. P!Now(t, "enable") /\ UNCHANGED <<pBlob, pKey, pOnb, pStale, pLost, pCrossed>>
    BY <1>1 DEF P!Enable
  <2>1. a \in [on : SUBSET P!Transports, mode : P!Modes] /\ pTodo[t] # <<>>
    BY <1>0, <2>0, StepArgs
  <2>2. CASE a.on \subseteq pSupported
    <3>1. pRam' = P!Normal(q) /\ P!Then(t, << <<"copy", "">> >>)
      BY <1>1, <2>2 DEF P!Enable
    <3>2. q \in P!Policy
      <4> DEFINE f(s) == P!First(<<"ETHERNET", "WIFI", "RS485">>, s)
      <4>1. ASSUME NEW s PROVE f(s) \in P!Choices
        <5>1. f(s) \in (s \cap P!Transports) \cup {"NONE"}
          BY FirstOfThree DEF P!Transports
        <5> QED BY <5>1 DEF P!Choices
      <4> HIDE DEF f, a
      <4>2. q = [on |-> a.on, mode |-> a.mode, pend |-> FALSE, prim |-> f(a.on), fall |-> f(a.on \ {f(a.on)})]
        BY DEF P!Manual, f
      <4> QED BY <2>1, <4>1, <4>2 DEF P!Policy
    <3>3. Settled(pRam)'
      <4> HIDE DEF q
      <4>1. Settled(P!Normal(q))
        BY <1>a, <3>2
      <4>2. Settled(pRam')
        BY <3>1, <4>1
      <4> QED BY <4>2 DEF Settled
    <3> QED BY <1>b, <2>0, <2>1, <3>1, <3>3, PolicySaving
  <2>3. CASE ~(a.on \subseteq pSupported)
    <3>1. UNCHANGED pRam /\ P!Then(t, <<>>)
      BY <1>1, <2>3 DEF P!Enable
    <3> QED BY <1>0, <2>0, <3>1, PolicyIdle DEF PolicyType
  <2> QED BY <2>2, <2>3
<1>2. ASSUME NEW t \in P!Tasks, P!Choose(t) PROVE PolicyInv'
  <2> DEFINE a == P!Arg(t)
             q == [pRam EXCEPT !.pend = a.pend, !.prim = a.prim, !.fall = a.fall]
  <2>0. /\ P!Now(t, "choose") /\ UNCHANGED <<pBlob, pKey, pOnb, pStale, pLost, pCrossed>>
        /\ pRam' = P!Normal(q) /\ P!Then(t, << <<"copy", "">> >>)
    BY <1>2 DEF P!Choose
  <2>1. a \in [pend : BOOLEAN, prim : P!Choices, fall : P!Choices] /\ pTodo[t] # <<>>
    BY <1>0, <2>0, StepArgs
  <2>2. q \in P!Policy
    <3> HIDE DEF a
    <3> QED BY <1>0, <2>1 DEF P!Policy
  <2>3. Settled(pRam)'
    <3> HIDE DEF q
    <3>1. Settled(P!Normal(q))
      BY <1>a, <2>2
    <3>2. Settled(pRam')
      BY <2>0, <3>1
    <3> QED BY <3>2 DEF Settled
  <2> QED BY <1>b, <2>0, <2>1, <2>3, PolicySaving
<1>3. ASSUME NEW t \in P!Tasks, P!Copy(t) PROVE PolicyInv'
  <2> DEFINE x == <<"write", [ver |-> 4, policy |-> pRam]>>
  <2>0. P!Now(t, "copy") /\ P!Then(t, <<x>>) /\ UNCHANGED <<pRam, pBlob, pKey, pOnb, pStale, pLost, pCrossed>>
    BY <1>3 DEF P!Copy
  <2>1. x \in PolicyStep /\ x[1] = "write"
    BY <1>0 DEF PolicyStep
  <2>2. Settled(pRam)'
    BY <1>0, <2>0 DEF Settled
  <2>3. pTodo[t] # <<>>
    BY <2>0 DEF P!Now
  <2> HIDE DEF x
  <2> QED BY <2>0, <2>1, <2>2, <2>3, PolicySaving
<1>4. ASSUME NEW t \in P!Tasks, P!Write(t) PROVE PolicyInv'
  <2>0. P!Now(t, "write") /\ P!Then(t, <<>>) /\ UNCHANGED <<pRam, pKey, pOnb, pLost, pCrossed>>
    BY <1>4 DEF P!Write
  <2>1. P!Arg(t) \in [ver : {4}, policy : P!Policy] /\ pTodo[t] # <<>>
    BY <1>0, <2>0, StepArgs
  <2>2. /\ pTodo' \in [P!Tasks -> Seq(PolicyStep)]
        /\ \A u \in P!Tasks : \A i \in 2..Len(pTodo'[u]) : pTodo'[u][i][1] \notin {"copy", "write"}
    BY <1>0, <2>0, <2>1, StepDone
  <2>3. CASE pBlob' = P!Arg(t) /\ pStale' = (P!Arg(t).policy # pRam)
    <3>1. pBlob' \in P!Blobs
      BY <2>1, <2>3 DEF P!Blobs
    <3>2. PolicyType'
      BY <1>0, <2>0, <2>2, <3>1 DEF PolicyType, Settled
    <3>3. ASSUME ~pStale' PROVE P!Normal(P!Loaded(pBlob')) = pRam
      <4>1. pBlob' = [ver |-> 4, policy |-> pRam]
        BY <2>1, <2>3, <3>3
      <4> QED BY <1>0, <4>1, SettledKept
    <3> QED BY <2>0, <3>2, <3>3 DEF PolicyInv
  <2>4. CASE pStale' = TRUE /\ UNCHANGED pBlob
    <3>1. PolicyType'
      BY <1>0, <2>0, <2>2, <2>4 DEF PolicyType, Settled
    <3> QED BY <2>4, <3>1 DEF PolicyInv
  <2> QED BY <1>4, <2>3, <2>4 DEF P!Write
<1>5. ASSUME NEW t \in P!Tasks, P!SetNode(t) PROVE PolicyInv'
  <2>0. P!Now(t, "node") /\ P!Then(t, <<>>) /\ UNCHANGED <<pRam, pBlob, pOnb, pStale, pCrossed>>
        /\ pKey' \in {pKey, P!Arg(t)} /\ pLost' \in {pLost, TRUE}
    BY <1>5 DEF P!SetNode
  <2>1. P!Arg(t) \in P!Profiles
    BY <1>0, <2>0, StepArgs
  <2> QED BY <1>0, <2>0, <2>1, PolicyIdle DEF PolicyType
<1>6. ASSUME NEW t \in P!Tasks, P!Record(t) PROVE PolicyInv'
  <2>0. P!Now(t, "record") /\ P!Then(t, <<>>) /\ UNCHANGED <<pRam, pBlob, pKey, pStale, pCrossed>>
        /\ pOnb' \in {pOnb, P!Arg(t)} /\ pLost' \in BOOLEAN
    BY <1>0, <1>6 DEF P!Record, PolicyType
  <2>1. P!Arg(t) \in P!Profiles \cup {"none"}
    BY <1>0, <2>0, StepArgs
  <2> QED BY <1>0, <2>0, <2>1, PolicyIdle DEF PolicyType
<1>7. ASSUME NEW t \in P!Tasks, P!Erase(t) PROVE PolicyInv'
  <2>0. P!Now(t, "erase") /\ P!Then(t, <<>>) /\ UNCHANGED <<pRam, pOnb, pLost, pCrossed>>
    BY <1>7 DEF P!Erase
  <2>1. pTodo[t] # <<>>
    BY <2>0 DEF P!Now
  <2>2. /\ pTodo' \in [P!Tasks -> Seq(PolicyStep)]
        /\ \A u \in P!Tasks : \A i \in 2..Len(pTodo'[u]) : pTodo'[u][i][1] \notin {"copy", "write"}
    BY <1>0, <2>0, <2>1, StepDone
  <2>3. CASE pBlob' = P!NoBlob /\ pKey' = "none" /\ pStale' = (pRam # P!Normal(P!Default))
    <3>1. PolicyType'
      BY <1>0, <2>0, <2>2, <2>3 DEF PolicyType, Settled, P!Blobs
    <3>2. P!Loaded(P!NoBlob) = P!Default
      BY DEF P!Loaded, P!NoBlob
    <3> QED BY <2>0, <2>3, <3>1, <3>2 DEF PolicyInv
  <2>4. CASE pStale' = TRUE /\ UNCHANGED <<pBlob, pKey>>
    <3>1. PolicyType'
      BY <1>0, <2>0, <2>2, <2>4 DEF PolicyType, Settled
    <3> QED BY <2>4, <3>1 DEF PolicyInv
  <2> QED BY <1>7, <2>3, <2>4 DEF P!Erase
<1>8. ASSUME P!PowerCut PROVE PolicyInv'
  <2>1. pRam' = P!Normal(P!Loaded(pBlob)) /\ pBlob' = pBlob /\ pTodo' = [t \in P!Tasks |-> <<>>]
        /\ UNCHANGED <<pKey, pLost, pCrossed>> /\ pOnb' \in {pOnb, "GATEWAY"}
    BY <1>8 DEF P!PowerCut, P!Booted
  <2>2. Settled(pRam')
    BY <1>0, <2>1, LoadedSettled
  <2>3. pTodo' \in [P!Tasks -> Seq(PolicyStep)] /\ \A t \in P!Tasks : Len(pTodo'[t]) = 0
    BY <2>1
  <2>4. "GATEWAY" \in P!Profiles
    BY DEF P!Profiles
  <2>5. PolicyType'
    BY <1>0, <2>1, <2>2, <2>3, <2>4 DEF PolicyType, Settled
  <2> QED BY <2>1, <2>5 DEF PolicyInv
<1>9. ASSUME \/ \E t \in P!Tasks, profile \in P!Profiles : P!Claim(t, profile)
             \/ P!NetworkConfig \/ P!TransportSet \/ P!OnboardingReset \/ P!FactoryReset
      PROVE  PolicyInv'
  BY <1>9, RequestScripts, PolicyBegins
<1>10. ASSUME UNCHANGED P!vars PROVE PolicyInv'
  BY <1>10 DEF P!vars, PolicyInv, PolicyType, Settled, Saving
<1> QED BY <1>1, <1>2, <1>3, <1>4, <1>5, <1>6, <1>7, <1>8, <1>9, <1>10 DEF P!Next, P!Step

(* device_profile.c: once the requests are done a restart brings back the  *)
(* policy in force, for every set of transports a build supports, however  *)
(* the two tasks interleave and wherever power is cut.                     *)
THEOREM PolicyComesBack == P!Spec => []PolicyKept
<1>1. PolicyInv => PolicyKept
  BY DEF PolicyInv, Saving, PolicyKept, P!PolicyKept, P!Quiet
<1> QED BY <1>1, PolicyInit, PolicyNext, PTL DEF P!Spec

(* A step that is done: the profile is gone only if the erasure was the    *)
(* step, and a record is there only if it was there or the step wrote it.  *)
LEMMA ClaimDone ==
  ASSUME PolicyType, ClaimInv, NEW t \in P!Tasks, pTodo[t] # <<>>, P!Then(t, <<>>),
         ~pLost' => ~pLost, pCrossed' = pCrossed,
         ~pLost' /\ pKey' = "none" => (pKey = "none" /\ pTodo[t][1][1] # "node") \/ pTodo[t][1][1] = "erase",
         ~pLost' /\ pOnb' # "none" => (pOnb # "none" /\ ~Forgets(pTodo[t][1])) \/ Records(pTodo[t][1])
  PROVE  ClaimInv'
<1> SUFFICES ASSUME ~pLost', ~pCrossed'
             PROVE  /\ ClaimedHasProfile'
                    /\ \A u \in P!Tasks : RecordLast(pTodo[u])' /\ EraseLast(pTodo[u])'
                    /\ \A u, v \in P!Tasks : pTodo'[u] # <<>> /\ pTodo'[v] # <<>> => u = v
  BY DEF ClaimInv
<1> DEFINE s == pTodo[t]
           r == pTodo'[t]
           e == s[1]
           n == Len(s)
<1>1. ClaimedHasProfile /\ RecordLast(s) /\ EraseLast(s) /\ \A u \in P!Tasks \ {t} : pTodo[u] = <<>>
  BY DEF ClaimInv
<1>2. /\ n \in Nat \ {0} /\ Len(r) = n - 1 /\ \A i \in 1..(n - 1) : r[i] = s[i + 1]
      /\ \A u \in P!Tasks \ {t} : pTodo'[u] = pTodo[u]
  BY StepDone
<1>3. \A u \in P!Tasks \ {t} : pTodo'[u] = <<>> /\ Len(pTodo'[u]) = 0
  BY <1>1, <1>2
<1>4. /\ pKey' = "none" => (pKey = "none" /\ e[1] # "node") \/ e[1] = "erase"
      /\ pOnb' # "none" => (pOnb # "none" /\ ~Forgets(e)) \/ Records(e)
  OBVIOUS
<1>5. (Records(e) => pKey # "none") /\ (e[1] = "erase" => pOnb = "none")
  <2>1. 1 \in 1..n /\ 1..(1 - 1) = {}
    BY <1>2
  <2> QED BY <1>1, <2>1 DEF RecordLast, EraseLast
<1>6. ClaimedHasProfile'
  BY <1>1, <1>4, <1>5 DEF ClaimedHasProfile, P!ClaimedHasProfile, Records, ClaimInv
<1> HIDE DEF s, r
<1>7. ASSUME NEW i \in 1..Len(r), Records(r[i])
      PROVE  /\ pKey' # "none" \/ \E j \in 1..(i - 1) : r[j][1] = "node"
             /\ \A j \in 1..(i - 1) : r[j][1] # "erase"
  <2>1. i + 1 \in 1..n /\ r[i] = s[i + 1] /\ (i + 1) - 1 = i /\ 1 \in 1..i
    BY <1>2
  <2>2. /\ pKey # "none" \/ \E j \in 1..i : s[j][1] = "node"
        /\ \A j \in 1..i : s[j][1] # "erase"
    BY <1>1, <1>7, <2>1 DEF RecordLast
  <2>3. \A j \in 1..(i - 1) : j + 1 \in 1..i /\ r[j] = s[j + 1]
    BY <1>2
  <2>4. CASE pKey' = "none"
    <3>1. pKey = "none" /\ e[1] # "node"
      BY <1>4, <2>1, <2>2, <2>4
    <3>2. PICK k \in 1..i : s[k][1] = "node"
      BY <2>2, <3>1
    <3>3. k # 1
      BY <3>1, <3>2
    <3>4. k - 1 \in 1..(i - 1) /\ r[k - 1] = s[k]
      BY <1>2, <3>3
    <3> QED BY <2>2, <2>3, <3>2, <3>4
  <2> QED BY <2>2, <2>3, <2>4
<1>8. ASSUME NEW i \in 1..Len(r), r[i][1] = "erase"
      PROVE  /\ pOnb' = "none" \/ \E j \in 1..(i - 1) : Forgets(r[j])
             /\ \A j \in 1..(i - 1) : ~Records(r[j])
  <2>1. i + 1 \in 1..n /\ r[i] = s[i + 1] /\ (i + 1) - 1 = i /\ 1 \in 1..i
    BY <1>2
  <2>2. /\ pOnb = "none" \/ \E j \in 1..i : Forgets(s[j])
        /\ \A j \in 1..i : ~Records(s[j])
    BY <1>1, <1>8, <2>1 DEF EraseLast
  <2>3. \A j \in 1..(i - 1) : j + 1 \in 1..i /\ r[j] = s[j + 1]
    BY <1>2
  <2>4. CASE pOnb' # "none"
    <3>1. pOnb # "none" /\ ~Forgets(e)
      BY <1>4, <2>1, <2>2, <2>4
    <3>2. PICK k \in 1..i : Forgets(s[k])
      BY <2>2, <3>1
    <3>3. k # 1
      BY <3>1, <3>2
    <3>4. k - 1 \in 1..(i - 1) /\ r[k - 1] = s[k]
      BY <1>2, <3>3
    <3> QED BY <2>2, <2>3, <3>2, <3>4
  <2> QED BY <2>2, <2>3, <2>4
<1>9. RecordLast(pTodo[t])' /\ EraseLast(pTodo[t])'
  BY <1>7, <1>8 DEF RecordLast, EraseLast, Records, Forgets, r
<1>10. \A u \in P!Tasks \ {t} : RecordLast(pTodo[u])' /\ EraseLast(pTodo[u])'
  <2>1. \A u \in P!Tasks \ {t} : 1..Len(pTodo'[u]) = {}
    BY <1>3
  <2> QED BY <2>1 DEF RecordLast, EraseLast
<1> QED BY <1>3, <1>6, <1>9, <1>10

(* A step whose place is taken by a copy or a write.                       *)
LEMMA ClaimGoesOn ==
  ASSUME PolicyType, ClaimInv, NEW t \in P!Tasks, pTodo[t] # <<>>, NEW x \in PolicyStep,
         x[1] \in {"copy", "write"}, pTodo[t][1][1] \in {"enable", "choose", "copy"}, P!Then(t, <<x>>),
         UNCHANGED <<pKey, pOnb, pLost, pCrossed>>
  PROVE  ClaimInv'
<1> SUFFICES ASSUME ~pLost', ~pCrossed'
             PROVE  /\ ClaimedHasProfile'
                    /\ \A u \in P!Tasks : RecordLast(pTodo[u])' /\ EraseLast(pTodo[u])'
                    /\ \A u, v \in P!Tasks : pTodo'[u] # <<>> /\ pTodo'[v] # <<>> => u = v
  BY DEF ClaimInv
<1> DEFINE s == pTodo[t]
           r == pTodo'[t]
<1>1. ClaimedHasProfile /\ RecordLast(s) /\ EraseLast(s) /\ \A u \in P!Tasks \ {t} : pTodo[u] = <<>>
  BY DEF ClaimInv
<1>2. /\ Len(s) \in Nat \ {0} /\ Len(r) = Len(s) /\ r[1] = x /\ \A i \in 2..Len(s) : r[i] = s[i]
      /\ \A u \in P!Tasks \ {t} : pTodo'[u] = pTodo[u]
  BY StepGoesOn
<1>3. \A u \in P!Tasks \ {t} : pTodo'[u] = <<>> /\ Len(pTodo'[u]) = 0
  BY <1>1, <1>2
<1>4. ClaimedHasProfile'
  BY <1>1 DEF ClaimedHasProfile, P!ClaimedHasProfile
<1>5. s[1][1] \in {"enable", "choose", "copy"}
  OBVIOUS
<1> HIDE DEF s, r
<1>6. \A i \in 1..Len(s) : i = 1 \/ i \in 2..Len(s)
  BY <1>2
<1>7. \A i \in 1..Len(s) : \A j \in 1..(i - 1) : j \in 1..Len(s)
  BY <1>2
<1>8. ASSUME NEW i \in 1..Len(s)
      PROVE  /\ Records(r[i]) <=> Records(s[i])
             /\ Forgets(r[i]) <=> Forgets(s[i])
             /\ r[i][1] = "erase" <=> s[i][1] = "erase"
             /\ r[i][1] = "node" <=> s[i][1] = "node"
  BY <1>2, <1>5, <1>6 DEF Records, Forgets
<1>9. RecordLast(pTodo[t])'
  <2>1. \A i \in 1..Len(r) : Records(r[i]) =>
          /\ pKey' # "none" \/ \E j \in 1..(i - 1) : r[j][1] = "node"
          /\ \A j \in 1..(i - 1) : r[j][1] # "erase"
    BY <1>1, <1>2, <1>7, <1>8 DEF RecordLast
  <2> QED BY <2>1 DEF RecordLast, Records, r
<1>10. EraseLast(pTodo[t])'
  <2>1. \A i \in 1..Len(r) : r[i][1] = "erase" =>
          /\ pOnb' = "none" \/ \E j \in 1..(i - 1) : Forgets(r[j])
          /\ \A j \in 1..(i - 1) : ~Records(r[j])
    BY <1>1, <1>2, <1>7, <1>8 DEF EraseLast
  <2> QED BY <2>1 DEF EraseLast, Records, Forgets, r
<1>11. \A u \in P!Tasks \ {t} : RecordLast(pTodo[u])' /\ EraseLast(pTodo[u])'
  <2>1. \A u \in P!Tasks \ {t} : 1..Len(pTodo'[u]) = {}
    BY <1>3
  <2> QED BY <2>1 DEF RecordLast, EraseLast
<1> QED BY <1>3, <1>4, <1>9, <1>10, <1>11

(* A request begins: alone, or the tasks have crossed.                     *)
LEMMA ClaimBegins ==
  ASSUME PolicyType, ClaimInv, NEW t \in P!Tasks, NEW s, Script(s), P!Begin(t, s)
  PROVE  ClaimInv'
<1> SUFFICES ASSUME ~pLost', ~pCrossed'
             PROVE  /\ ClaimedHasProfile'
                    /\ \A u \in P!Tasks : RecordLast(pTodo[u])' /\ EraseLast(pTodo[u])'
                    /\ \A u, v \in P!Tasks : pTodo'[u] # <<>> /\ pTodo'[v] # <<>> => u = v
  BY DEF ClaimInv
<1>1. /\ ~pLost /\ ~pCrossed /\ UNCHANGED <<pKey, pOnb>> /\ pTodo' = [pTodo EXCEPT ![t] = s]
      /\ \A u \in P!Tasks : pTodo[u] = <<>>
  BY DEF P!Begin
<1>2. pTodo'[t] = s /\ \A u \in P!Tasks \ {t} : pTodo'[u] = <<>> /\ Len(pTodo'[u]) = 0
  BY <1>1 DEF PolicyType
<1>3. ClaimedHasProfile'
  BY <1>1 DEF ClaimInv, ClaimedHasProfile, P!ClaimedHasProfile
<1>4. RecordLast(pTodo[t])' /\ EraseLast(pTodo[t])'
  BY <1>2 DEF Script, RecordLast, EraseLast, Records, Forgets
<1>5. \A u \in P!Tasks \ {t} : RecordLast(pTodo[u])' /\ EraseLast(pTodo[u])'
  <2>1. \A u \in P!Tasks \ {t} : 1..Len(pTodo'[u]) = {}
    BY <1>2
  <2> QED BY <2>1 DEF RecordLast, EraseLast
<1> QED BY <1>2, <1>3, <1>4, <1>5

LEMMA ClaimNext == PolicyType /\ ClaimInv /\ [P!Next]_(P!vars) => ClaimInv'
<1> SUFFICES ASSUME PolicyType, ClaimInv, [P!Next]_(P!vars) PROVE ClaimInv'
  OBVIOUS
<1>b. << "copy", "" >> \in PolicyStep /\ << "copy", "" >>[1] = "copy"
  BY DEF PolicyStep
<1>1. ASSUME NEW t \in P!Tasks, P!Enable(t) \/ P!Choose(t) PROVE ClaimInv'
  <2>1. PICK name \in {"enable", "choose"} : P!Now(t, name)
    BY <1>1 DEF P!Enable, P!Choose
  <2>2. P!Then(t, << <<"copy", "">> >>) \/ P!Then(t, <<>>)
    BY <1>1 DEF P!Enable, P!Choose
  <2>3. UNCHANGED <<pKey, pOnb, pLost, pCrossed>>
    BY <1>1 DEF P!Enable, P!Choose
  <2>4. pTodo[t] # <<>> /\ pTodo[t][1][1] = name
    BY <2>1, StepArgs
  <2>5. CASE P!Then(t, << <<"copy", "">> >>)
    BY <1>b, <2>1, <2>3, <2>4, <2>5, ClaimGoesOn
  <2>6. CASE P!Then(t, <<>>)
    BY <2>1, <2>3, <2>4, <2>6, ClaimDone DEF Forgets
  <2> QED BY <2>2, <2>5, <2>6
<1>2. ASSUME NEW t \in P!Tasks, P!Copy(t) PROVE ClaimInv'
  <2> DEFINE x == <<"write", [ver |-> 4, policy |-> pRam]>>
  <2>1. P!Now(t, "copy") /\ P!Then(t, <<x>>) /\ UNCHANGED <<pKey, pOnb, pLost, pCrossed>>
    BY <1>2 DEF P!Copy
  <2>2. x \in PolicyStep /\ x[1] = "write"
    BY DEF PolicyStep, PolicyType, Settled
  <2>3. pTodo[t] # <<>> /\ pTodo[t][1][1] = "copy"
    BY <2>1, StepArgs
  <2> HIDE DEF x
  <2> QED BY <2>1, <2>2, <2>3, ClaimGoesOn
<1>3. ASSUME NEW t \in P!Tasks, P!Write(t) PROVE ClaimInv'
  <2>1. P!Now(t, "write") /\ P!Then(t, <<>>) /\ UNCHANGED <<pKey, pOnb, pLost, pCrossed>>
    BY <1>3 DEF P!Write
  <2>2. pTodo[t] # <<>> /\ pTodo[t][1][1] = "write"
    BY <2>1, StepArgs
  <2> QED BY <2>1, <2>2, ClaimDone DEF Forgets
<1>4. ASSUME NEW t \in P!Tasks, P!SetNode(t) PROVE ClaimInv'
  <2>1. P!Now(t, "node") /\ P!Then(t, <<>>) /\ UNCHANGED <<pOnb, pCrossed>>
        /\ ((pKey' = P!Arg(t) /\ pLost' = pLost) \/ pLost' = TRUE)
    BY <1>4 DEF P!SetNode
  <2>2. pTodo[t] # <<>> /\ pTodo[t][1][1] = "node" /\ P!Arg(t) \in P!Profiles
    BY <2>1, StepArgs
  <2>3. P!Arg(t) # "none"
    BY <2>2 DEF P!Profiles
  <2> QED BY <2>1, <2>2, <2>3, ClaimDone DEF Forgets
<1>5. ASSUME NEW t \in P!Tasks, P!Record(t) PROVE ClaimInv'
  <2> DEFINE e == pTodo[t][1]
  <2>1. P!Now(t, "record") /\ P!Then(t, <<>>) /\ UNCHANGED <<pKey, pCrossed>>
        /\ \/ pOnb' = P!Arg(t) /\ pLost' = pLost
           \/ pLost' = (pLost \/ P!Arg(t) = "none") /\ pOnb' = pOnb
    BY <1>5 DEF P!Record
  <2>2. pTodo[t] # <<>> /\ e[1] = "record" /\ P!Arg(t) = e[2]
    BY <2>1, StepArgs
  <2>3. ~pLost' => ~pLost
    BY <2>1
  <2>4. ~pLost' /\ pOnb' # "none" => (pOnb # "none" /\ ~Forgets(e)) \/ Records(e)
    BY <2>1, <2>2 DEF Forgets, Records
  <2>5. pKey' = "none" => pKey = "none" /\ e[1] # "node"
    BY <2>1, <2>2
  <2> QED BY <2>1, <2>2, <2>3, <2>4, <2>5, ClaimDone
<1>6. ASSUME NEW t \in P!Tasks, P!Erase(t) PROVE ClaimInv'
  <2>1. P!Now(t, "erase") /\ P!Then(t, <<>>) /\ UNCHANGED <<pOnb, pLost, pCrossed>>
    BY <1>6 DEF P!Erase
  <2>2. pTodo[t] # <<>> /\ pTodo[t][1][1] = "erase"
    BY <2>1, StepArgs
  <2> QED BY <2>1, <2>2, ClaimDone DEF Forgets
<1>7. ASSUME P!PowerCut PROVE ClaimInv'
  <2>1. /\ pTodo' = [t \in P!Tasks |-> <<>>] /\ UNCHANGED <<pKey, pLost, pCrossed>>
        /\ pOnb' = pOnb \/ (pOnb' = "GATEWAY" /\ pKey = "GATEWAY")
    BY <1>7 DEF P!PowerCut, P!Booted
  <2>2. \A t \in P!Tasks : pTodo'[t] = <<>> /\ Len(pTodo'[t]) = 0
    BY <2>1
  <2>3. \A t \in P!Tasks : 1..Len(pTodo'[t]) = {}
    BY <2>2
  <2>4. ClaimInv => (~pLost /\ ~pCrossed /\ pOnb # "none" => pKey # "none")
    BY DEF ClaimInv, ClaimedHasProfile, P!ClaimedHasProfile
  <2>5. ClaimedHasProfile'
    BY <2>1, <2>4 DEF ClaimedHasProfile, P!ClaimedHasProfile
  <2> QED BY <2>2, <2>3, <2>5 DEF ClaimInv, RecordLast, EraseLast
<1>8. ASSUME \/ \E t \in P!Tasks, profile \in P!Profiles : P!Claim(t, profile)
             \/ P!NetworkConfig \/ P!TransportSet \/ P!OnboardingReset \/ P!FactoryReset
      PROVE  ClaimInv'
  BY <1>8, RequestScripts, ClaimBegins
<1>9. ASSUME UNCHANGED P!vars PROVE ClaimInv'
  <2>1. UNCHANGED <<pTodo, pKey, pOnb, pLost, pCrossed>>
    BY <1>9 DEF P!vars
  <2> QED BY <2>1 DEF ClaimInv, RecordLast, EraseLast, Records, Forgets, ClaimedHasProfile, P!ClaimedHasProfile
<1> QED BY <1>1, <1>2, <1>3, <1>4, <1>5, <1>6, <1>7, <1>8, <1>9 DEF P!Next, P!Step

(* endap_onboarding.c: wherever power is cut in a claim or a reset, a node *)
(* with an onboarding record has its profile in flash, unless one of the   *)
(* two writes nobody looks at failed or two requests crossed.              *)
THEOREM ClaimKeepsProfile == P!Spec => []ClaimedHasProfile
<1>1. P!Init => ClaimInv
  <2> SUFFICES ASSUME P!Init PROVE ClaimInv
    OBVIOUS
  <2>1. \A t \in P!Tasks : pTodo[t] = <<>> /\ 1..Len(pTodo[t]) = {}
    BY DEF P!Init
  <2>2. pOnb = "none"
    BY DEF P!Init
  <2> QED BY <2>1, <2>2 DEF ClaimInv, RecordLast, EraseLast, ClaimedHasProfile, P!ClaimedHasProfile
<1>2. PolicyInv => PolicyType
  BY DEF PolicyInv
<1>3. ClaimInv => ClaimedHasProfile
  BY DEF ClaimInv, ClaimedHasProfile, P!ClaimedHasProfile
<1> QED BY <1>1, <1>2, <1>3, ClaimNext, PolicyInit, PolicyNext, PTL DEF P!Spec

-----------------------------------------------------------------------------
(***************************************************************************)
(* The bindings of channels to pins.  From the last validation of a start  *)
(* on, the tables are free of pins that are an input and an output; the    *)
(* driver has copied such tables.                                          *)
(***************************************************************************)
Crossless(b) ==
    \A i \in bInIds, o \in bOutIds : b[i].be = "gpio" /\ b[i].pin # bNC => b[i] # b[o]

\* Flash holds a blob of a version that the start knows, for each side.
Stored(f) ==
    /\ f = [s \in {"in", "out", "net"} |-> f[s]]
    /\ f["in"].ver \in {0, 1, 2, 4} /\ f["out"].ver \in {0, 1, 2, 4}

BindInv ==
    /\ bBound = [i \in B!Ids |-> bBound[i]]
    /\ bPhase \in {"migrate_out", "copy", "up"} => Crossless(bBound)
    /\ bPhase = "up" => Crossless(bDriver)

(* io_binding.c: an address that no other channel of either side has.      *)
LEMMA BindEntry ==
  ASSUME BindInv, bPhase = "up", NEW i \in B!Ids, NEW a, B!ValidAddress(i, a),
         bBound' = [bBound EXCEPT ![i] = a], UNCHANGED <<bPhase, bDriver>>
  PROVE  BindInv'
<1>1. bBound'[i] = a /\ \A j \in B!Ids \ {i} : bBound'[j] = bBound[j]
  BY DEF BindInv
<1>2. bBound' = [j \in B!Ids |-> bBound'[j]]
  BY DEF BindInv
<1>3. /\ \A j \in bInIds \ {i} : bBound[j] # a
      /\ \A j \in bOutIds \ {i} : bBound[j] # a
  BY DEF B!ValidAddress, B!InUse
<1>4. bInIds \cap bOutIds = {} /\ bInIds \subseteq B!Ids /\ bOutIds \subseteq B!Ids
  BY BindingAssumption DEF B!ConstantsOK, B!Ids
<1>5. Crossless(bBound)'
  <2> SUFFICES ASSUME NEW j \in bInIds, NEW o \in bOutIds, bBound'[j].be = "gpio", bBound'[j].pin # bNC
               PROVE  bBound'[j] # bBound'[o]
    BY DEF Crossless
  <2>1. CASE j = i
    BY <1>1, <1>3, <1>4, <2>1
  <2>2. CASE o = i
    BY <1>1, <1>3, <1>4, <2>2
  <2>3. CASE j # i /\ o # i
    BY <1>1, <1>4, <2>3 DEF BindInv, Crossless
  <2> QED BY <2>1, <2>2, <2>3
<1> QED BY <1>2, <1>5 DEF BindInv, Crossless

(* A channel that loses its pin takes no other.                            *)
LEMMA BindRemoved ==
  ASSUME BindInv, bPhase = "up", NEW i \in B!Ids,
         bBound' = [bBound EXCEPT ![i] = B!Unbound], UNCHANGED <<bPhase, bDriver>>
  PROVE  BindInv'
<1>1. bBound'[i] = B!Unbound /\ \A j \in B!Ids \ {i} : bBound'[j] = bBound[j]
  BY DEF BindInv
<1>2. bBound' = [j \in B!Ids |-> bBound'[j]]
  BY DEF BindInv
<1>3. B!Unbound.be = "none" /\ B!Unbound.be # "gpio"
  BY DEF B!Unbound
<1>4. bInIds \subseteq B!Ids /\ bOutIds \subseteq B!Ids
  BY DEF B!Ids
<1>5. Crossless(bBound)'
  <2> SUFFICES ASSUME NEW j \in bInIds, NEW o \in bOutIds, bBound'[j].be = "gpio", bBound'[j].pin # bNC
               PROVE  bBound'[j] # bBound'[o]
    BY DEF Crossless
  <2>1. j # i
    BY <1>1, <1>3
  <2>2. CASE o = i
    BY <1>1, <1>3, <2>2
  <2>3. CASE o # i
    BY <1>1, <1>4, <2>1, <2>3 DEF BindInv, Crossless
  <2> QED BY <2>2, <2>3
<1> QED BY <1>2, <1>5 DEF BindInv, Crossless

(* The defaults of the profile share no pin, and the analog inputs added   *)
(* to them are not digital.                                                *)
LEMMA BindDefaults ==
  /\ B!WithAnalog(B!Defaults) = [i \in B!Ids |-> B!WithAnalog(B!Defaults)[i]]
  /\ Crossless(B!WithAnalog(B!Defaults))
<1> DEFINE d == B!WithAnalog(B!Defaults)
<1>1. /\ bInIds \cap bOutIds = {} /\ bInIds \subseteq B!Ids /\ bOutIds \subseteq B!Ids
      /\ B!AnalogIds \subseteq bInIds
  BY BindingAssumption DEF B!ConstantsOK, B!Ids, B!AnalogIds
<1>2. /\ \A p, q : B!Gpio(p) = B!Gpio(q) => p = q
      /\ \A p : B!Gpio(p).be = "gpio" /\ B!Gpio(p).pin = p /\ B!Adc(p).be = "adc"
      /\ B!Unbound.be = "none"
  BY DEF B!Gpio, B!Adc, B!Unbound
<1>3. \A i \in B!Ids : B!Defaults[i] = IF i \notin bDefaultIds THEN B!Unbound
                                       ELSE IF i \in B!AnalogIds THEN B!Adc(bProfilePin[i])
                                       ELSE B!Gpio(bProfilePin[i])
  BY DEF B!Defaults
<1>4. \A i \in B!Ids : \/ d[i] = B!Defaults[i]
                       \/ i \in B!AnalogIds /\ d[i] = B!Adc(bProfilePin[i])
  BY DEF B!WithAnalog
<1>5. d = [i \in B!Ids |-> d[i]]
  BY DEF B!WithAnalog
<1> HIDE DEF d
<1>6. \A i \in B!Ids : d[i].be = "gpio" => i \in bDefaultIds /\ i \notin B!AnalogIds /\ d[i] = B!Gpio(bProfilePin[i])
  BY <1>2, <1>3, <1>4
<1>7. ASSUME NEW i \in bInIds, NEW o \in bOutIds, d[i].be = "gpio", d[i].pin # bNC, d[i] = d[o]
      PROVE  FALSE
  <2>1. i \in bDefaultIds /\ d[i] = B!Gpio(bProfilePin[i]) /\ o \in bDefaultIds /\ d[o] = B!Gpio(bProfilePin[o])
    BY <1>1, <1>6, <1>7
  <2>2. bProfilePin[i] = bProfilePin[o] /\ bProfilePin[i] # bNC
    <3>1. d[i].pin = bProfilePin[i]
      BY <2>1 DEF B!Gpio
    <3>2. d[o].pin = bProfilePin[o]
      BY <2>1 DEF B!Gpio
    <3> QED BY <1>7, <3>1, <3>2
  <2> QED BY <1>7, <2>1, <2>2, BindingAssumption DEF B!ConstantsOK
<1>8. Crossless(d)
  BY <1>7 DEF Crossless
<1> QED BY <1>5, <1>8 DEF d

(* io_binding_validate_and_migrate_nvs: tables that are kept.              *)
LEMMA BindSane ==
  ASSUME B!Sane(bBound)
  PROVE  Crossless(bBound)
<1>1. bInIds \cap bOutIds = {}
  BY BindingAssumption DEF B!ConstantsOK
<1> QED BY <1>1 DEF B!Sane, B!InUse, Crossless

(* Whatever is loaded is a table of all the channels.                      *)
LEMMA BindLoads ==
  ASSUME BindInv, Stored(bSaved), NEW s \in {"in", "out"}, NEW l \in B!Loads(s)
  PROVE  l[1] = [i \in B!Ids |-> l[1][i]]
<1>1. bSaved[s].ver \in {0, 1, 2, 4} /\ bBound = [i \in B!Ids |-> bBound[i]]
  BY DEF BindInv, Stored
<1>2. CASE bSaved[s].ver = 0
  BY <1>1, <1>2 DEF B!Loads
<1>3. CASE bSaved[s].ver = 4
  BY <1>1, <1>3 DEF B!Loads
<1>4. CASE bSaved[s].ver = 1
  BY <1>4 DEF B!Loads
<1>5. CASE bSaved[s].ver = 2
  <2> DEFINE put(K) == [i \in B!Ids |-> IF i \notin B!SideOf(s) THEN bBound[i]
                                       ELSE IF i \in K THEN B!Gpio(bSaved[s].tab[i].pin) ELSE B!Unbound]
         held == {i \in B!SideOf(s) : bSaved[s].tab[i] # B!Unbound}
         good == {i \in held : B!OldEntryOk(s, bSaved[s].tab[i])}
  <2>1. B!Loads(s) = IF good = held THEN {<<put(held), TRUE>>} ELSE {<<put(K), FALSE>> : K \in SUBSET good}
    BY <1>5 DEF B!Loads
  <2>2. PICK K : l[1] = put(K)
    <3> HIDE DEF put, held, good
    <3>1. CASE good = held
      <4>1. l = <<put(held), TRUE>>
        BY <2>1, <3>1
      <4> QED BY <4>1
    <3>2. CASE good # held
      <4>1. PICK K \in SUBSET good : l = <<put(K), FALSE>>
        BY <2>1, <3>2
      <4>2. l[1] = put(K)
        BY <4>1
      <4> QED BY <4>2
    <3> QED BY <3>1, <3>2
  <2> QED BY <2>2
<1> QED BY <1>1, <1>2, <1>3, <1>4, <1>5

(* What a write leaves in flash.                                           *)
LEMMA BindPersist ==
  ASSUME Stored(bSaved), NEW s \in {"in", "out"}, NEW b, B!Persist(s, b) \/ B!NoWrite
  PROVE  Stored(bSaved)'
<1>1. CASE bSaved' = bSaved
  BY <1>1 DEF Stored
<1>2. ASSUME NEW x, bSaved' = [bSaved EXCEPT ![s] = [ver |-> 4, tab |-> x]]
      PROVE  Stored(bSaved)'
  BY <1>2 DEF Stored
<1> QED BY <1>1, <1>2 DEF B!Persist, B!NoWrite

LEMMA BindStored ==
  ASSUME Stored(bSaved), [B!Next]_(B!vars)
  PROVE  Stored(bSaved)'
<1>1. CASE B!ProfileRequest
  <2>1. bSaved' = bSaved \/ \E on : bSaved' = [bSaved EXCEPT !["net"] = on]
    BY <1>1 DEF B!ProfileRequest, B!SetRs485
  <2> QED BY <2>1 DEF Stored
<1>2. CASE B!AddRequest \/ B!ConfigRequest \/ B!ResetRequest \/ B!RemoveRequest
  <2>1. PICK i, b : B!Edited(b, B!Side(i))
    BY <1>2 DEF B!AddRequest, B!ConfigRequest, B!ResetRequest, B!RemoveRequest, B!ResetInput, B!ResetOutput,
                B!AddInput, B!AddOutput, B!AddEntry, B!SetInput, B!SetOutput, B!SetEntry,
                B!RemoveInput, B!RemoveOutput, B!RemoveEntry
  <2>2. B!Side(i) \in {"in", "out"} /\ B!Persist(B!Side(i), b)
    BY <2>1 DEF B!Side, B!Edited
  <2> QED BY <2>2, BindPersist
<1>3. CASE B!Boot
  <2>1. (\E s \in {"in", "out"} : \E b : B!Persist(s, b)) \/ bSaved' = bSaved
    BY <1>3 DEF B!Boot, B!BootDefaults, B!Analog, B!BootLoadIn, B!BootLoadOut, B!Load, B!BootAnalog, B!BootResolve,
                B!BootResolveOut, B!BootMigrate, B!BootMigrateOut, B!BootCopy, B!NoWrite
  <2> QED BY <2>1, BindPersist DEF Stored
<1>4. CASE B!PowerCut \/ UNCHANGED B!vars
  BY <1>4 DEF B!PowerCut, B!vars, Stored
<1> QED BY <1>1, <1>2, <1>3, <1>4 DEF B!Next, B!Request

LEMMA BindStep ==
  ASSUME BindInv, Stored(bSaved), [B!Next]_(B!vars)
  PROVE  BindInv'
<1>1. ASSUME NEW i \in B!Ids, NEW p, B!AddInput(i, p) \/ B!AddOutput(i, p) PROVE BindInv'
  <2>1. /\ bPhase = "up" /\ B!ValidAddress(i, B!Gpio(p))
        /\ bBound' = [bBound EXCEPT ![i] = B!Gpio(p)] /\ UNCHANGED <<bPhase, bDriver>>
    BY <1>1 DEF B!AddInput, B!AddOutput, B!AddEntry, B!Edited
  <2> QED BY <2>1, BindEntry
<1>2. ASSUME NEW i \in B!Ids, NEW p, B!SetInput(i, p) \/ B!SetOutput(i, p) PROVE BindInv'
  <2>1. PICK a : /\ bPhase = "up" /\ B!ValidAddress(i, a)
                 /\ bBound' = [bBound EXCEPT ![i] = a] /\ UNCHANGED <<bPhase, bDriver>>
    BY <1>2 DEF B!SetInput, B!SetOutput, B!SetEntry, B!Edited
  <2> QED BY <2>1, BindEntry
<1>3. ASSUME NEW i \in B!Ids, B!RemoveInput(i) \/ B!RemoveOutput(i) PROVE BindInv'
  <2>1. /\ bPhase = "up" /\ bBound' = [bBound EXCEPT ![i] = B!Unbound] /\ UNCHANGED <<bPhase, bDriver>>
    BY <1>3 DEF B!RemoveInput, B!RemoveOutput, B!RemoveEntry, B!Edited
  <2> QED BY <2>1, BindRemoved
<1>4. CASE B!ProfileRequest
  BY <1>4 DEF B!ProfileRequest, B!SetRs485, BindInv, Crossless
<1>5. CASE B!Request
  BY <1>1, <1>2, <1>3, <1>4, <1>5
     DEF B!Request, B!AddRequest, B!ConfigRequest, B!ResetRequest, B!RemoveRequest, B!ResetInput, B!ResetOutput
<1>6. CASE B!BootDefaults
  <2>1. bBound' = B!WithAnalog(B!Defaults) /\ bPhase' = "load_in"
    BY <1>6 DEF B!BootDefaults, B!Analog
  <2> QED BY <2>1, BindDefaults DEF BindInv
<1>7. CASE B!BootLoadIn \/ B!BootLoadOut
  <2>1. bPhase' \in {"analog", "resolve"} /\ \E s \in {"in", "out"} : \E l \in B!Loads(s) : bBound' = l[1]
    BY <1>7 DEF B!BootLoadIn, B!BootLoadOut, B!Load
  <2>2. bBound' = [i \in B!Ids |-> bBound'[i]]
    BY <2>1, BindLoads
  <2> QED BY <2>1, <2>2 DEF BindInv
<1>8. CASE B!BootAnalog
  <2>1. bPhase' = "load_out" /\ bBound' = B!WithAnalog(bBound)
    BY <1>8 DEF B!BootAnalog, B!Analog
  <2>2. bBound' = [i \in B!Ids |-> bBound'[i]]
    BY <2>1 DEF B!WithAnalog
  <2> QED BY <2>1, <2>2 DEF BindInv
<1>9. CASE B!BootResolve
  <2>1. bPhase' \in {"migrate", "resolve_out"} /\ \E b, G : bBound' = B!SentHome(b, G)
    BY <1>9 DEF B!BootResolve
  <2>2. bBound' = [i \in B!Ids |-> bBound'[i]]
    BY <2>1 DEF B!SentHome
  <2> QED BY <2>1, <2>2 DEF BindInv
<1>10. CASE B!BootResolveOut
  BY <1>10 DEF B!BootResolveOut, BindInv
<1>11. CASE B!BootMigrate
  <2>1. \/ B!Sane(bBound) /\ bPhase' = "copy" /\ bBound' = bBound
        \/ bPhase' = "migrate_out" /\ bBound' = B!WithAnalog(B!Defaults)
    BY <1>11 DEF B!BootMigrate
  <2>2. CASE B!Sane(bBound) /\ bPhase' = "copy" /\ bBound' = bBound
    BY <2>2, BindSane DEF BindInv, Crossless
  <2>3. CASE bPhase' = "migrate_out" /\ bBound' = B!WithAnalog(B!Defaults)
    <3> DEFINE d == B!WithAnalog(B!Defaults)
    <3>1. d = [i \in B!Ids |-> d[i]] /\ Crossless(d)
      BY BindDefaults
    <3> HIDE DEF d
    <3>2. bBound' = d
      BY <2>3 DEF d
    <3> QED BY <2>3, <3>1, <3>2 DEF BindInv, Crossless
  <2> QED BY <2>1, <2>2, <2>3
<1>12. CASE B!BootMigrateOut
  BY <1>12 DEF B!BootMigrateOut, BindInv, Crossless
<1>13. CASE B!BootCopy
  BY <1>13 DEF B!BootCopy, BindInv, Crossless
<1>14. CASE B!PowerCut
  <2>1. bPhase' = "off" /\ bBound' = [i \in B!Ids |-> B!Unbound]
    BY <1>14 DEF B!PowerCut
  <2> QED BY <2>1 DEF BindInv
<1>15. CASE UNCHANGED B!vars
  BY <1>15 DEF B!vars, BindInv, Crossless
<1> QED BY <1>5, <1>6, <1>7, <1>8, <1>9, <1>10, <1>11, <1>12, <1>13, <1>14, <1>15 DEF B!Next, B!Boot

(***************************************************************************)
(* io_binding.c: no pin is a digital input and an output at once, in the   *)
(* tables and in the driver, for every profile whose defaults share no     *)
(* pin, whatever flash held, whatever was edited and wherever power was    *)
(* cut.                                                                    *)
(***************************************************************************)
THEOREM BindingsApart == B!Spec => []NoCrossPin
<1>1. B!Init => BindInv /\ Stored(bSaved)
  <2>1. B!Init => BindInv
    BY DEF B!Init, BindInv
  <2>2. ASSUME B!Init PROVE Stored(bSaved)
    BY <2>2, BindingAssumption DEF B!Init, Stored, B!ConstantsOK, B!Blobs
  <2> QED BY <2>1, <2>2
<1>2. BindInv /\ Stored(bSaved) /\ [B!Next]_(B!vars) => BindInv' /\ Stored(bSaved)'
  BY BindStep, BindStored
<1>3. BindInv => NoCrossPin
  BY DEF BindInv, Crossless, NoCrossPin, B!NoCrossPin
<1> QED BY <1>1, <1>2, <1>3, PTL DEF B!Spec

(* An edit that makes the tables differ from the driver's copy sets        *)
(* gpio_restart_required; one that enters what was there need not.         *)
LEMMA FlagStep ==
  ASSUME BindInv, RestartFlagged, [B!Next]_(B!vars)
  PROVE  RestartFlagged'
<1>1. ASSUME NEW i \in B!Ids, NEW p, B!AddInput(i, p) \/ B!AddOutput(i, p) PROVE bRestart'
  BY <1>1 DEF B!AddInput, B!AddOutput, B!AddEntry
<1>2. ASSUME NEW i \in B!Ids, B!RemoveInput(i) \/ B!RemoveOutput(i) PROVE bRestart'
  BY <1>2 DEF B!RemoveInput, B!RemoveOutput, B!RemoveEntry
<1>3. ASSUME NEW i \in B!Ids, NEW p, B!SetInput(i, p) \/ B!SetOutput(i, p)
      PROVE  bRestart' \/ (bBound' = bBound /\ RestartFlagged')
  <2>1. PICK a : /\ bPhase = "up" /\ bRestart' = (bRestart \/ a # bBound[i])
                 /\ bBound' = [bBound EXCEPT ![i] = a] /\ UNCHANGED <<bPhase, bDriver>>
    BY <1>3 DEF B!SetInput, B!SetOutput, B!SetEntry, B!Edited
  <2>2. CASE a = bBound[i]
    <3>1. bBound' = bBound
      BY <2>1, <2>2 DEF BindInv
    <3> QED BY <2>1, <3>1 DEF RestartFlagged, B!RestartFlagged
  <2> QED BY <2>1, <2>2
<1>4. CASE B!Request
  <2>1. CASE B!ProfileRequest
    BY <2>1 DEF B!ProfileRequest, B!SetRs485, RestartFlagged, B!RestartFlagged
  <2>2. CASE ~B!ProfileRequest
    BY <1>1, <1>2, <1>3, <1>4, <2>2
       DEF B!Request, B!AddRequest, B!ConfigRequest, B!ResetRequest, B!RemoveRequest, B!ResetInput, B!ResetOutput,
           RestartFlagged, B!RestartFlagged
  <2> QED BY <2>1, <2>2
<1>5. CASE B!Boot \/ B!PowerCut
  <2>1. CASE B!BootLoadIn \/ B!BootLoadOut
    BY <2>1 DEF B!BootLoadIn, B!BootLoadOut, B!Load, RestartFlagged, B!RestartFlagged
  <2>2. CASE B!BootDefaults \/ B!BootAnalog \/ B!BootResolveOut \/ B!BootMigrateOut \/ B!PowerCut
    BY <2>2 DEF B!BootDefaults, B!BootAnalog, B!BootResolveOut, B!BootMigrateOut, B!PowerCut,
                RestartFlagged, B!RestartFlagged
  <2>3. CASE B!BootResolve
    <3>1. bPhase' \in {"migrate", "resolve_out"}
      BY <2>3 DEF B!BootResolve
    <3> QED BY <3>1 DEF RestartFlagged, B!RestartFlagged
  <2>4. CASE B!BootMigrate
    <3>1. bPhase' \in {"copy", "migrate_out"}
      BY <2>4 DEF B!BootMigrate
    <3> QED BY <3>1 DEF RestartFlagged, B!RestartFlagged
  <2>5. CASE B!BootCopy
    BY <2>5 DEF B!BootCopy, RestartFlagged, B!RestartFlagged
  <2> QED BY <1>5, <2>1, <2>2, <2>3, <2>4, <2>5 DEF B!Boot
<1>6. CASE UNCHANGED B!vars
  BY <1>6 DEF B!vars, RestartFlagged, B!RestartFlagged
<1> QED BY <1>4, <1>5, <1>6 DEF B!Next

(* io_binding.c: a node whose driver works on other bindings than the      *)
(* tables show says that it must be restarted, whatever was edited, back   *)
(* and forth, since it started.                                            *)
THEOREM RestartAnnounced == B!Spec => []RestartFlagged
<1>1. B!Init => BindInv /\ Stored(bSaved) /\ RestartFlagged
  <2>1. B!Init => BindInv /\ RestartFlagged
    BY DEF B!Init, BindInv, RestartFlagged, B!RestartFlagged
  <2>2. ASSUME B!Init PROVE Stored(bSaved)
    BY <2>2, BindingAssumption DEF B!Init, Stored, B!ConstantsOK, B!Blobs
  <2> QED BY <2>1, <2>2
<1>2. BindInv /\ Stored(bSaved) /\ RestartFlagged /\ [B!Next]_(B!vars)
        => BindInv' /\ Stored(bSaved)' /\ RestartFlagged'
  BY BindStep, BindStored, FlagStep
<1> QED BY <1>1, <1>2, PTL DEF B!Spec

-----------------------------------------------------------------------------
(***************************************************************************)
(* Process variables.  AlarmShows speaks of a variable at rest; PveInv     *)
(* follows the update of one that no other update overlaps: one task at    *)
(* most is inside it, the alarm it is about to store is right for the      *)
(* value and the limits as they are now, unless an edit of the limits is   *)
(* still to update the variable itself.                                    *)
(***************************************************************************)
States == {"OK", "HIGH", "LOW"}
PveNext == {V!Idle} \cup [at : {"save"}, k : {1, 2}]
PvePlaces ==
    {V!Idle, [at |-> "read"]}
    \cup [at : {"limits"}, v : V!VarSet, alarm : V!AlarmSet]
    \cup [at : {"update"}, v : V!VarSet]
    \cup [at : {"save"}, k : {1, 2}]
    \cup [at : {"judge"}, v : V!VarSet, next : PveNext]
    \cup [at : {"commit"}, v : V!VarSet, st : States, next : PveNext]
    \cup [at : {"store"}, ev : V!VarSet \X States, next : PveNext]
    \cup [at : {"advance"}, next : PveNext]

PveType ==
    /\ vConf \in [V!VarSet -> [scale : V!ScaleSet, alarm : V!AlarmSet]]
    /\ vRun \in [V!VarSet -> [raw : Int, val : Int, st : States]]
    /\ vPc \in [V!Tasks -> PvePlaces]

\* The alarm st is right for value x under limits a.
Right(a, x, st) ==
    a.on /\ 0 < a.hyst /\ a.hyst <= a.high - a.low
    => (x >= a.high => st = "HIGH") /\ (x <= a.low => st = "LOW")

\* An edit has stored the limits of v and is about to update it.
Editing(v) == vPc["http"].at = "update" /\ vPc["http"].v = v

PveInv ==
    /\ PveType
    /\ \A v \in V!VarSet \ vRaced :
          /\ \A t, u \in V!Tasks : V!Updating(t, v) /\ V!Updating(u, v) => t = u
          /\ ~Editing(v) =>
                /\ \A t \in V!Tasks : vPc[t].at = "commit" /\ vPc[t].v = v =>
                      Right(vConf[v].alarm, vRun[v].val, vPc[t].st)
                /\ (\A t \in V!Tasks : ~V!Updating(t, v)) /\ (v = V!Sensor => vRun[v] # V!Cleared) =>
                      Right(vConf[v].alarm, vRun[v].val, vRun[v].st)

(* pve.c: the scaled value of a sample is an integer, also for an inverted *)
(* or an empty range.                                                      *)
LEMMA TruncType ==
  ASSUME NEW a \in Int, NEW b \in Int, b # 0
  PROVE  V!Trunc(a, b) \in Int
<1> DEFINE abs(x) == IF x < 0 THEN -x ELSE x
           q == abs(a) \div abs(b)
<1>1. abs(a) \in Int /\ abs(b) \in Int /\ abs(b) > 0
  OBVIOUS
<1>2. q \in Int
  <2> HIDE DEF abs
  <2> QED BY <1>1
<1>3. V!Trunc(a, b) \in {q, -q}
  BY DEF V!Trunc
<1> HIDE DEF q
<1> QED BY <1>2, <1>3

LEMMA ScaleType ==
  ASSUME NEW raw \in Int, NEW c \in V!ScaleSet
  PROVE  V!Scale(raw, c) \in Int
<1> DEFINE n == (raw - c.imin) * (c.smax - c.smin)
           d == c.imax - c.imin
           m == IF (n < 0) # (d < 0) THEN n - V!Trunc(d, 2) ELSE n + V!Trunc(d, 2)
<1>1. c.imin \in Int /\ c.imax \in Int /\ c.smin \in Int /\ c.smax \in Int
  BY DEF V!ScaleSet
<1>2. d \in Int /\ n \in Int
  <2>1. \A x, y \in Int : x * y \in Int
    OBVIOUS
  <2>2. raw - c.imin \in Int /\ c.smax - c.smin \in Int
    BY <1>1
  <2> QED BY <1>1, <2>1, <2>2
<1>3. V!Scale(raw, c) \in {c.smin, c.smax} \/ (d # 0 /\ V!Scale(raw, c) = c.smin + V!Trunc(m, d))
  BY DEF V!Scale
<1> HIDE DEF n, d
<1>4. V!Trunc(d, 2) \in Int
  BY <1>2, TruncType
<1>5. m \in Int
  BY <1>2, <1>4
<1> HIDE DEF m
<1>6. d # 0 => V!Trunc(m, d) \in Int
  BY <1>2, <1>5, TruncType
<1> QED BY <1>1, <1>3, <1>6

(* pve.c: the alarm of a sample is right, whichever alarm was there.       *)
LEMMA JudgeRight ==
  ASSUME NEW a \in V!AlarmSet, NEW x \in Int, NEW st \in States
  PROVE  V!Judge(st, x, a) \in States /\ Right(a, x, V!Judge(st, x, a))
<1>0. a.on \in BOOLEAN /\ a.high \in Int /\ a.low \in Int /\ a.hyst \in Int
  BY DEF V!AlarmSet
<1>1. CASE ~a.on
  <2>1. V!Judge(st, x, a) = "OK"
    BY <1>1 DEF V!Judge
  <2> QED BY <1>1, <2>1 DEF Right, States
<1>2. CASE a.on /\ st = "HIGH"
  <2>1. V!Judge(st, x, a) = IF x > a.high - a.hyst THEN "HIGH" ELSE IF x <= a.low THEN "LOW" ELSE "OK"
    BY <1>2 DEF V!Judge
  <2> QED BY <1>0, <2>1 DEF Right, States
<1>3. CASE a.on /\ st = "LOW"
  <2>1. V!Judge(st, x, a) = IF x < a.low + a.hyst THEN "LOW" ELSE IF x >= a.high THEN "HIGH" ELSE "OK"
    BY <1>3 DEF V!Judge
  <2> QED BY <1>0, <2>1 DEF Right, States
<1>4. CASE a.on /\ st = "OK"
  <2>1. V!Judge(st, x, a) = IF x >= a.high THEN "HIGH" ELSE IF x <= a.low THEN "LOW" ELSE "OK"
    BY <1>4 DEF V!Judge
  <2> QED BY <1>0, <2>1 DEF Right, States
<1> QED BY <1>0, <1>1, <1>2, <1>3, <1>4 DEF States

(* What a task keeps with the place it is at.                              *)
LEMMA PlaceFacts ==
  ASSUME PveType, NEW t \in V!Tasks
  PROVE  /\ vPc[t].at = "limits" => vPc[t].v \in V!VarSet /\ vPc[t].alarm \in V!AlarmSet
         /\ vPc[t].at = "update" => vPc[t].v \in V!VarSet
         /\ vPc[t].at = "save" => vPc[t].k \in {1, 2}
         /\ vPc[t].at = "judge" => vPc[t].v \in V!VarSet /\ vPc[t].next \in PveNext
         /\ vPc[t].at = "commit" => vPc[t].v \in V!VarSet /\ vPc[t].next \in PveNext /\ vPc[t].st \in States
         /\ vPc[t].at \in {"store", "advance"} => vPc[t].next \in PveNext
<1> DEFINE p == vPc[t]
<1>1. p \in PvePlaces
  BY DEF PveType
<1> HIDE DEF p
<1>2. /\ p.at = "limits" => p.v \in V!VarSet /\ p.alarm \in V!AlarmSet
      /\ p.at = "update" => p.v \in V!VarSet
      /\ p.at = "save" => p.k \in {1, 2}
      /\ p.at = "judge" => p.v \in V!VarSet /\ p.next \in PveNext
      /\ p.at = "commit" => p.v \in V!VarSet /\ p.next \in PveNext /\ p.st \in States
      /\ p.at \in {"store", "advance"} => p.next \in PveNext
  BY <1>1 DEF PvePlaces, V!Idle
<1> QED BY <1>2 DEF p

LEMMA NextFacts ==
  ASSUME NEW p \in PveNext
  PROVE  p \in PvePlaces /\ p.at \in {"idle", "save"}
BY DEF PveNext, PvePlaces, V!Idle

(* A step outside the updates, which leaves values and limits alone.       *)
LEMMA PveElsewhere ==
  ASSUME PveInv, PveType', UNCHANGED <<vRun, vRaced>>,
         \A v \in V!VarSet : vConf'[v].alarm = vConf[v].alarm,
         \A t \in V!Tasks : \/ vPc'[t] = vPc[t]
                            \/ /\ vPc[t].at \notin {"judge", "commit", "update"}
                               /\ vPc'[t].at \notin {"judge", "commit", "update"}
  PROVE  PveInv'
<1>0. "http" \in V!Tasks
  BY DEF V!Tasks
<1>1. \A t \in V!Tasks, v \in V!VarSet : V!Updating(t, v)' <=> V!Updating(t, v)
  BY DEF V!Updating
<1>2. \A v \in V!VarSet : Editing(v)' <=> Editing(v)
  BY <1>0 DEF Editing
<1>3. \A t \in V!Tasks : vPc'[t].at = "commit" => vPc'[t] = vPc[t]
  OBVIOUS
<1> SUFFICES ASSUME NEW v \in V!VarSet \ vRaced'
             PROVE  (/\ \A t, u \in V!Tasks : V!Updating(t, v) /\ V!Updating(u, v) => t = u
                     /\ ~Editing(v) =>
                           /\ \A t \in V!Tasks : vPc[t].at = "commit" /\ vPc[t].v = v =>
                                 Right(vConf[v].alarm, vRun[v].val, vPc[t].st)
                           /\ (\A t \in V!Tasks : ~V!Updating(t, v)) /\ (v = V!Sensor => vRun[v] # V!Cleared) =>
                                 Right(vConf[v].alarm, vRun[v].val, vRun[v].st))'
  BY DEF PveInv
<1>4. v \in V!VarSet \ vRaced /\ vConf'[v].alarm = vConf[v].alarm
  OBVIOUS
<1>5. (\A t, u \in V!Tasks : V!Updating(t, v) /\ V!Updating(u, v) => t = u)'
  BY <1>1, <1>4 DEF PveInv
<1>6. ASSUME ~Editing(v)', NEW t \in V!Tasks, vPc'[t].at = "commit", vPc'[t].v = v
      PROVE  Right(vConf[v].alarm, vRun[v].val, vPc[t].st)'
  BY <1>2, <1>3, <1>4, <1>6 DEF PveInv, Right
<1>7. ASSUME ~Editing(v)', \A t \in V!Tasks : ~V!Updating(t, v)', v = V!Sensor => vRun'[v] # V!Cleared
      PROVE  Right(vConf[v].alarm, vRun[v].val, vRun[v].st)'
  BY <1>1, <1>2, <1>4, <1>7 DEF PveInv, Right
<1> QED BY <1>5, <1>6, <1>7

(* pve_update begins: the value is stored.  Unless another task is inside  *)
(* an update of the variable this one is now alone.                        *)
LEMMA PveUpdated ==
  ASSUME PveInv, NEW t \in V!Tasks, NEW v \in V!VarSet, NEW raw \in Int, NEW next \in PveNext,
         V!Update(t, v, raw, next), UNCHANGED vConf, vPc[t].at \notin {"judge", "commit"},
         vPc[t].at = "update" => vPc[t].v = v
  PROVE  PveInv'
<1> DEFINE p == [at |-> "judge", v |-> v, next |-> next]
           x == V!Scale(raw, vConf[v].scale)
<1>0. PveType /\ "http" \in V!Tasks
  BY DEF PveInv, V!Tasks
<1>1. /\ vRun' = [vRun EXCEPT ![v].raw = raw, ![v].val = x]
      /\ vRaced' = V!Overlaps(t, v) /\ vPc' = [vPc EXCEPT ![t] = p]
  BY DEF V!Update
<1>2. p \in PvePlaces /\ p.at = "judge" /\ p.v = v
  BY DEF PvePlaces
<1>3. x \in Int
  BY <1>0, ScaleType DEF PveType
<1> HIDE DEF p, x
<1>4. vPc' \in [V!Tasks -> PvePlaces] /\ vPc'[t] = p /\ \A u \in V!Tasks \ {t} : vPc'[u] = vPc[u]
  BY <1>0, <1>1, <1>2 DEF PveType
<1>5. vRun' \in [V!VarSet -> [raw : Int, val : Int, st : States]] /\ \A w \in V!VarSet \ {v} : vRun'[w] = vRun[w]
  BY <1>0, <1>1, <1>3 DEF PveType
<1>6. PveType'
  BY <1>0, <1>4, <1>5 DEF PveType
<1>7. \A w \in V!VarSet \ {v} : ~V!Updating(t, w)' /\ ~V!Updating(t, w)
  BY <1>2, <1>4 DEF V!Updating
<1>8. \A u \in V!Tasks \ {t}, w \in V!VarSet : V!Updating(u, w)' <=> V!Updating(u, w)
  BY <1>4 DEF V!Updating
<1>9. ASSUME v \notin vRaced' PROVE \A u \in V!Tasks \ {t} : ~V!Updating(u, v)
  BY <1>1, <1>9 DEF V!Overlaps
<1>10. ASSUME NEW w \in V!VarSet \ {v}, w \notin vRaced' PROVE w \notin vRaced
  BY <1>1, <1>10 DEF V!Overlaps
<1>11. \A w \in V!VarSet \ {v} : Editing(w)' <=> Editing(w)
  BY <1>0, <1>2, <1>4 DEF Editing
<1>12. \A w \in V!VarSet \ {v}, u \in V!Tasks : vPc'[u].at = "commit" => vPc'[u] = vPc[u]
  BY <1>2, <1>4
<1> SUFFICES ASSUME NEW w \in V!VarSet \ vRaced'
             PROVE  (/\ \A u, r \in V!Tasks : V!Updating(u, w) /\ V!Updating(r, w) => u = r
                     /\ ~Editing(w) =>
                           /\ \A u \in V!Tasks : vPc[u].at = "commit" /\ vPc[u].v = w =>
                                 Right(vConf[w].alarm, vRun[w].val, vPc[u].st)
                           /\ (\A u \in V!Tasks : ~V!Updating(u, w)) /\ (w = V!Sensor => vRun[w] # V!Cleared) =>
                                 Right(vConf[w].alarm, vRun[w].val, vRun[w].st))'
  BY <1>6 DEF PveInv
<1>13. CASE w = v
  <2>1. \A u \in V!Tasks \ {t} : ~V!Updating(u, v)'
    BY <1>8, <1>9, <1>13
  <2>2. V!Updating(t, v)'
    BY <1>2, <1>4 DEF V!Updating
  <2>3. \A u \in V!Tasks : ~(vPc'[u].at = "commit" /\ vPc'[u].v = v)
    BY <1>2, <1>4, <2>1 DEF V!Updating
  <2> QED BY <1>13, <2>1, <2>2, <2>3
<1>14. CASE w # v
  <2>1. w \in V!VarSet \ vRaced /\ w \in V!VarSet \ {v}
    BY <1>10, <1>14
  <2>2. (\A u, r \in V!Tasks : V!Updating(u, w) /\ V!Updating(r, w) => u = r)'
    BY <1>7, <1>8, <2>1 DEF PveInv
  <2>3. ASSUME ~Editing(w)', NEW u \in V!Tasks, vPc'[u].at = "commit", vPc'[u].v = w
        PROVE  Right(vConf[w].alarm, vRun[w].val, vPc[u].st)'
    BY <1>5, <1>11, <1>12, <2>1, <2>3 DEF PveInv, Right
  <2>4. ASSUME ~Editing(w)', \A u \in V!Tasks : ~V!Updating(u, w)', w = V!Sensor => vRun'[w] # V!Cleared
        PROVE  Right(vConf[w].alarm, vRun[w].val, vRun[w].st)'
    BY <1>5, <1>7, <1>8, <1>11, <2>1, <2>4 DEF PveInv, Right
  <2> QED BY <2>2, <2>3, <2>4
<1> QED BY <1>13, <1>14

(* pve_clear_variable of the sensor.                                       *)
LEMMA PveCleared ==
  ASSUME PveInv, NEW t \in V!Tasks, V!Clear(t, V!Sensor), UNCHANGED <<vConf, vPc>>,
         vPc[t].at \notin {"judge", "commit"}
  PROVE  PveInv'
<1>0. PveType /\ V!Sensor \in V!VarSet
  BY DEF PveInv, V!VarSet
<1>1. vRun' = [vRun EXCEPT ![V!Sensor] = V!Cleared] /\ vRaced' = V!Overlaps(t, V!Sensor)
  BY DEF V!Clear
<1>2. V!Cleared \in [raw : Int, val : Int, st : States]
  BY DEF V!Cleared, States
<1>3. /\ vRun' \in [V!VarSet -> [raw : Int, val : Int, st : States]] /\ vRun'[V!Sensor] = V!Cleared
      /\ \A w \in V!VarSet \ {V!Sensor} : vRun'[w] = vRun[w]
  BY <1>0, <1>1, <1>2 DEF PveType
<1>4. PveType'
  BY <1>0, <1>3 DEF PveType
<1>5. \A u \in V!Tasks, w \in V!VarSet : (V!Updating(u, w)' <=> V!Updating(u, w)) /\ (Editing(w)' <=> Editing(w))
  BY DEF V!Updating, Editing
<1>6. ASSUME V!Sensor \notin vRaced' PROVE \A u \in V!Tasks : ~V!Updating(u, V!Sensor)
  BY <1>1, <1>6 DEF V!Overlaps, V!Updating
<1>7. ASSUME NEW w \in V!VarSet \ {V!Sensor}, w \notin vRaced' PROVE w \notin vRaced
  BY <1>1, <1>7 DEF V!Overlaps
<1> SUFFICES ASSUME NEW w \in V!VarSet \ vRaced'
             PROVE  (/\ \A u, r \in V!Tasks : V!Updating(u, w) /\ V!Updating(r, w) => u = r
                     /\ ~Editing(w) =>
                           /\ \A u \in V!Tasks : vPc[u].at = "commit" /\ vPc[u].v = w =>
                                 Right(vConf[w].alarm, vRun[w].val, vPc[u].st)
                           /\ (\A u \in V!Tasks : ~V!Updating(u, w)) /\ (w = V!Sensor => vRun[w] # V!Cleared) =>
                                 Right(vConf[w].alarm, vRun[w].val, vRun[w].st))'
  BY <1>4 DEF PveInv
<1>8. CASE w = V!Sensor
  <2>1. \A u \in V!Tasks : ~V!Updating(u, w)' /\ ~(vPc'[u].at = "commit" /\ vPc'[u].v = w)
    BY <1>5, <1>6, <1>8 DEF V!Updating
  <2> QED BY <1>3, <1>8, <2>1
<1>9. CASE w # V!Sensor
  <2>1. w \in V!VarSet \ vRaced /\ vRun'[w] = vRun[w]
    BY <1>3, <1>7, <1>9
  <2> QED BY <1>5, <2>1 DEF PveInv, Right
<1> QED BY <1>8, <1>9

(* The alarm is judged, and stored.                                        *)
LEMMA PveJudged ==
  ASSUME PveInv, NEW t \in V!Tasks, V!UpdateJudge(t)
  PROVE  PveInv'
<1>a. PICK v : v = vPc[t].v
  OBVIOUS
<1>b. PICK st : st = V!Judge(vRun[v].st, vRun[v].val, vConf[v].alarm)
  OBVIOUS
<1> DEFINE p == IF st = vRun[v].st THEN vPc[t].next ELSE [at |-> "commit", v |-> v, st |-> st, next |-> vPc[t].next]
<1>0. PveType /\ "http" \in V!Tasks
  BY DEF PveInv, V!Tasks
<1>1. /\ vPc[t].at = "judge" /\ UNCHANGED <<vConf, vRun, vRaced>>
      /\ vPc' = [vPc EXCEPT ![t] = p]
  BY <1>a, <1>b DEF V!UpdateJudge
<1>2. v \in V!VarSet /\ vPc[t].next \in PveNext /\ V!Updating(t, v)
  BY <1>0, <1>1, <1>a, PlaceFacts DEF V!Updating
<1>3. st \in States /\ Right(vConf[v].alarm, vRun[v].val, st)
  <2>1. vConf[v].alarm \in V!AlarmSet /\ vRun[v].val \in Int /\ vRun[v].st \in States
    BY <1>0, <1>2 DEF PveType
  <2> QED BY <1>b, <2>1, JudgeRight
<1>4. vPc[t].next \in PvePlaces /\ vPc[t].next.at \in {"idle", "save"}
  BY <1>2, NextFacts
<1>5. p \in PvePlaces
  <2>1. [at |-> "commit", v |-> v, st |-> st, next |-> vPc[t].next] \in PvePlaces
    BY <1>2, <1>3 DEF PvePlaces
  <2> QED BY <1>4, <2>1
<1>6. \/ p.at \in {"idle", "save"} /\ st = vRun[v].st
      \/ p.at = "commit" /\ p.v = v /\ p.st = st
  BY <1>4
<1> HIDE DEF p
<1>7. vPc' \in [V!Tasks -> PvePlaces] /\ vPc'[t] = p /\ \A u \in V!Tasks \ {t} : vPc'[u] = vPc[u]
  BY <1>0, <1>1, <1>5 DEF PveType
<1>8. PveType'
  BY <1>0, <1>1, <1>7 DEF PveType
<1>9. \A w \in V!VarSet : Editing(w)' <=> Editing(w)
  BY <1>0, <1>1, <1>6, <1>7 DEF Editing
<1>10. \A u \in V!Tasks \ {t}, w \in V!VarSet : V!Updating(u, w)' <=> V!Updating(u, w)
  BY <1>7 DEF V!Updating
<1>11. \A w \in V!VarSet \ {v} : ~V!Updating(t, w)' /\ ~V!Updating(t, w)
  BY <1>1, <1>a, <1>6, <1>7 DEF V!Updating
<1> SUFFICES ASSUME NEW w \in V!VarSet \ vRaced'
             PROVE  (/\ \A u, r \in V!Tasks : V!Updating(u, w) /\ V!Updating(r, w) => u = r
                     /\ ~Editing(w) =>
                           /\ \A u \in V!Tasks : vPc[u].at = "commit" /\ vPc[u].v = w =>
                                 Right(vConf[w].alarm, vRun[w].val, vPc[u].st)
                           /\ (\A u \in V!Tasks : ~V!Updating(u, w)) /\ (w = V!Sensor => vRun[w] # V!Cleared) =>
                                 Right(vConf[w].alarm, vRun[w].val, vRun[w].st))'
  BY <1>8 DEF PveInv
<1>12. w \in V!VarSet \ vRaced
  BY <1>1
<1>13. CASE w = v
  <2>1. \A u \in V!Tasks \ {t} : ~V!Updating(u, v) /\ ~V!Updating(u, v)'
    BY <1>2, <1>10, <1>12, <1>13 DEF PveInv
  <2>2. \A u \in V!Tasks : vPc'[u].at = "commit" /\ vPc'[u].v = v => u = t
    BY <2>1 DEF V!Updating
  <2>3. vPc'[t].at = "commit" => vPc'[t].st = st
    BY <1>6, <1>7
  <2>4. ASSUME ~V!Updating(t, v)' PROVE st = vRun[v].st
    BY <1>6, <1>7, <2>4 DEF V!Updating
  <2>6. ASSUME NEW u \in V!Tasks, vPc'[u].at = "commit", vPc'[u].v = v
        PROVE  Right(vConf'[v].alarm, vRun'[v].val, vPc'[u].st)
    BY <1>1, <1>3, <2>2, <2>3, <2>6
  <2>7. ASSUME \A u \in V!Tasks : ~V!Updating(u, v)'
        PROVE  Right(vConf'[v].alarm, vRun'[v].val, vRun'[v].st)
    BY <1>1, <1>3, <2>4, <2>7
  <2>8. (\A u, r \in V!Tasks : V!Updating(u, v)' /\ V!Updating(r, v)' => u = r)
    BY <2>1
  <2> QED BY <1>13, <2>6, <2>7, <2>8
<1>14. CASE w # v
  <2>1. \A u \in V!Tasks : vPc'[u].at = "commit" /\ vPc'[u].v = w => vPc'[u] = vPc[u]
    BY <1>6, <1>7, <1>14
  <2>2. \A u \in V!Tasks : V!Updating(u, w)' <=> V!Updating(u, w)
    BY <1>10, <1>11, <1>14
  <2>3. (\A u, r \in V!Tasks : V!Updating(u, w)' /\ V!Updating(r, w)' => u = r)
    BY <1>12, <2>2 DEF PveInv
  <2>4. ASSUME ~Editing(w)', NEW u \in V!Tasks, vPc'[u].at = "commit", vPc'[u].v = w
        PROVE  Right(vConf'[w].alarm, vRun'[w].val, vPc'[u].st)
    BY <1>1, <1>9, <1>12, <2>1, <2>4 DEF PveInv
  <2>5. ASSUME ~Editing(w)', \A u \in V!Tasks : ~V!Updating(u, w)', w = V!Sensor => vRun'[w] # V!Cleared
        PROVE  Right(vConf'[w].alarm, vRun'[w].val, vRun'[w].st)
    BY <1>1, <1>9, <1>12, <2>2, <2>5 DEF PveInv
  <2> QED BY <2>3, <2>4, <2>5
<1> QED BY <1>13, <1>14

LEMMA PveCommitted ==
  ASSUME PveInv, NEW t \in V!Tasks, V!UpdateCommit(t)
  PROVE  PveInv'
<1>a. PICK v : v = vPc[t].v
  OBVIOUS
<1>b. PICK st : st = vPc[t].st
  OBVIOUS
<1> DEFINE p == [at |-> "store", ev |-> <<v, st>>, next |-> vPc[t].next]
<1>0. PveType /\ "http" \in V!Tasks
  BY DEF PveInv, V!Tasks
<1>1. /\ vPc[t].at = "commit" /\ UNCHANGED <<vConf, vRaced>>
      /\ vRun' = [vRun EXCEPT ![v].st = st]
      /\ vPc' = [vPc EXCEPT ![t] = p]
  BY <1>a, <1>b DEF V!UpdateCommit
<1>2. v \in V!VarSet /\ st \in States /\ vPc[t].next \in PveNext /\ V!Updating(t, v)
  BY <1>0, <1>1, <1>a, <1>b, PlaceFacts DEF V!Updating
<1>3. p \in PvePlaces /\ p.at = "store"
  BY <1>2 DEF PvePlaces
<1> HIDE DEF p
<1>4. vPc' \in [V!Tasks -> PvePlaces] /\ vPc'[t] = p /\ \A u \in V!Tasks \ {t} : vPc'[u] = vPc[u]
  BY <1>0, <1>1, <1>3 DEF PveType
<1>5. /\ vRun' \in [V!VarSet -> [raw : Int, val : Int, st : States]]
      /\ vRun'[v].val = vRun[v].val /\ vRun'[v].st = st
      /\ \A w \in V!VarSet \ {v} : vRun'[w] = vRun[w]
  BY <1>0, <1>1, <1>2 DEF PveType
<1>6. PveType'
  BY <1>0, <1>1, <1>4, <1>5 DEF PveType
<1>7. \A w \in V!VarSet : Editing(w)' <=> Editing(w)
  BY <1>0, <1>1, <1>3, <1>4 DEF Editing
<1>8. \A u \in V!Tasks \ {t}, w \in V!VarSet : V!Updating(u, w)' <=> V!Updating(u, w)
  BY <1>4 DEF V!Updating
<1>9. \A w \in V!VarSet : ~V!Updating(t, w)' /\ (w # v => ~V!Updating(t, w))
  BY <1>a, <1>3, <1>4 DEF V!Updating
<1>10. \A u \in V!Tasks : vPc'[u].at = "commit" => vPc'[u] = vPc[u] /\ u # t
  BY <1>3, <1>4
<1> SUFFICES ASSUME NEW w \in V!VarSet \ vRaced'
             PROVE  (/\ \A u, r \in V!Tasks : V!Updating(u, w) /\ V!Updating(r, w) => u = r
                     /\ ~Editing(w) =>
                           /\ \A u \in V!Tasks : vPc[u].at = "commit" /\ vPc[u].v = w =>
                                 Right(vConf[w].alarm, vRun[w].val, vPc[u].st)
                           /\ (\A u \in V!Tasks : ~V!Updating(u, w)) /\ (w = V!Sensor => vRun[w] # V!Cleared) =>
                                 Right(vConf[w].alarm, vRun[w].val, vRun[w].st))'
  BY <1>6 DEF PveInv
<1>11. w \in V!VarSet \ vRaced /\ vConf' = vConf
  BY <1>1
<1>12. CASE w = v
  <2>1. \A u \in V!Tasks : ~V!Updating(u, v)'
    BY <1>2, <1>8, <1>9, <1>11, <1>12 DEF PveInv
  <2>2. \A u \in V!Tasks : ~(vPc'[u].at = "commit" /\ vPc'[u].v = v)
    BY <2>1 DEF V!Updating
  <2>3. ~Editing(v) => Right(vConf[v].alarm, vRun[v].val, st)
    BY <1>1, <1>a, <1>b, <1>11, <1>12 DEF PveInv
  <2>4. ~Editing(v)' => Right(vConf'[v].alarm, vRun'[v].val, vRun'[v].st)
    BY <1>2, <1>5, <1>7, <1>11, <2>3
  <2> QED BY <1>12, <2>1, <2>2, <2>4
<1>13. CASE w # v
  <2>1. \A u \in V!Tasks : V!Updating(u, w)' <=> V!Updating(u, w)
    BY <1>8, <1>9, <1>13
  <2>2. vRun'[w] = vRun[w]
    BY <1>5, <1>13
  <2>3. (\A u, r \in V!Tasks : V!Updating(u, w)' /\ V!Updating(r, w)' => u = r)
    BY <1>11, <2>1 DEF PveInv
  <2>4. ASSUME ~Editing(w)', NEW u \in V!Tasks, vPc'[u].at = "commit", vPc'[u].v = w
        PROVE  Right(vConf'[w].alarm, vRun'[w].val, vPc'[u].st)
    BY <1>7, <1>10, <1>11, <2>2, <2>4 DEF PveInv
  <2>5. ASSUME ~Editing(w)', \A u \in V!Tasks : ~V!Updating(u, w)', w = V!Sensor => vRun'[w] # V!Cleared
        PROVE  Right(vConf'[w].alarm, vRun'[w].val, vRun'[w].st)
    BY <1>7, <1>11, <2>1, <2>2, <2>5 DEF PveInv
  <2> QED BY <2>3, <2>4, <2>5
<1> QED BY <1>12, <1>13

(* The limits of a variable are edited: whatever its alarm shows now, the  *)
(* edit goes on to update it.                                              *)
LEMMA PveLimits ==
  ASSUME PveInv, V!EditLimits
  PROVE  PveInv'
<1>a. PICK v : v = vPc["http"].v
  OBVIOUS
<1>b. PICK a : a = vPc["http"].alarm
  OBVIOUS
<1> DEFINE p == [at |-> "update", v |-> v]
<1>0. PveType /\ "http" \in V!Tasks
  BY DEF PveInv, V!Tasks
<1>1. vPc["http"].at = "limits" /\ UNCHANGED <<vRun, vRaced>>
  BY DEF V!EditLimits
<1>2. v \in V!VarSet /\ a \in V!AlarmSet
  BY <1>0, <1>1, <1>a, <1>b, PlaceFacts
<1>3. CASE V!Accepts(a)
  <2>1. vConf' = [vConf EXCEPT ![v].alarm = a] /\ vPc' = [vPc EXCEPT !["http"] = p]
    BY <1>3, <1>a, <1>b DEF V!EditLimits
  <2>2. p \in PvePlaces /\ p.at = "update" /\ p.v = v
    BY <1>2 DEF PvePlaces
  <2> HIDE DEF p
  <2>3. /\ vPc' \in [V!Tasks -> PvePlaces] /\ vPc'["http"] = p
        /\ \A u \in V!Tasks \ {"http"} : vPc'[u] = vPc[u]
    BY <1>0, <2>1, <2>2 DEF PveType
  <2>4. /\ vConf' \in [V!VarSet -> [scale : V!ScaleSet, alarm : V!AlarmSet]]
        /\ \A w \in V!VarSet \ {v} : vConf'[w] = vConf[w]
    BY <1>0, <1>2, <2>1 DEF PveType
  <2>5. PveType'
    BY <1>0, <1>1, <2>3, <2>4 DEF PveType
  <2>6. Editing(v)' /\ \A w \in V!VarSet \ {v} : ~Editing(w)' /\ ~Editing(w)
    BY <1>1, <2>2, <2>3 DEF Editing
  <2>7. \A u \in V!Tasks, w \in V!VarSet : V!Updating(u, w)' <=> V!Updating(u, w)
    BY <1>1, <2>2, <2>3 DEF V!Updating
  <2>8. \A u \in V!Tasks : vPc'[u].at = "commit" => vPc'[u] = vPc[u]
    BY <2>2, <2>3
  <2> SUFFICES ASSUME NEW w \in V!VarSet \ vRaced'
               PROVE  (/\ \A u, r \in V!Tasks : V!Updating(u, w) /\ V!Updating(r, w) => u = r
                       /\ ~Editing(w) =>
                             /\ \A u \in V!Tasks : vPc[u].at = "commit" /\ vPc[u].v = w =>
                                   Right(vConf[w].alarm, vRun[w].val, vPc[u].st)
                             /\ (\A u \in V!Tasks : ~V!Updating(u, w)) /\ (w = V!Sensor => vRun[w] # V!Cleared) =>
                                   Right(vConf[w].alarm, vRun[w].val, vRun[w].st))'
    BY <2>5 DEF PveInv
  <2>9. w \in V!VarSet \ vRaced /\ vRun' = vRun
    BY <1>1
  <2>10. \A u, r \in V!Tasks : V!Updating(u, w)' /\ V!Updating(r, w)' => u = r
    BY <2>7, <2>9 DEF PveInv
  <2>11. CASE w = v
    BY <2>6, <2>10, <2>11
  <2>12. CASE w # v
    <3>1. vConf'[w] = vConf[w] /\ ~Editing(w)
      BY <2>4, <2>6, <2>12
    <3>2. ASSUME NEW u \in V!Tasks, vPc'[u].at = "commit", vPc'[u].v = w
          PROVE  Right(vConf'[w].alarm, vRun'[w].val, vPc'[u].st)
      BY <2>8, <2>9, <3>1, <3>2 DEF PveInv
    <3>3. ASSUME \A u \in V!Tasks : ~V!Updating(u, w)', w = V!Sensor => vRun'[w] # V!Cleared
          PROVE  Right(vConf'[w].alarm, vRun'[w].val, vRun'[w].st)
      BY <2>7, <2>9, <3>1, <3>3 DEF PveInv
    <3> QED BY <2>10, <3>2, <3>3
  <2> QED BY <2>11, <2>12
<1>4. CASE ~V!Accepts(a)
  <2>1. vConf' = vConf /\ vPc' = [vPc EXCEPT !["http"] = V!Idle]
    BY <1>4, <1>b DEF V!EditLimits
  <2>2. V!Idle \in PvePlaces /\ V!Idle.at = "idle"
    BY DEF PvePlaces, V!Idle
  <2>3. PveType'
    BY <1>0, <1>1, <2>1, <2>2 DEF PveType
  <2>4. \A t \in V!Tasks : vPc'[t] = vPc[t] \/ (vPc[t].at = "limits" /\ vPc'[t].at = "idle")
    BY <1>0, <1>1, <2>1, <2>2 DEF PveType
  <2> QED BY <1>1, <2>1, <2>3, <2>4, PveElsewhere
<1> QED BY <1>3, <1>4

(* The steps of a task that neither update nor edit a variable.            *)
LEMMA PveMoves ==
  ASSUME PveInv, NEW t \in V!Tasks, NEW p \in PvePlaces, vPc' = [vPc EXCEPT ![t] = p],
         UNCHANGED <<vRun, vRaced>>,
         vConf' \in [V!VarSet -> [scale : V!ScaleSet, alarm : V!AlarmSet]],
         \A v \in V!VarSet : vConf'[v].alarm = vConf[v].alarm,
         vPc[t].at \notin {"judge", "commit", "update"}, p.at \notin {"judge", "commit", "update"}
  PROVE  PveInv'
<1>1. PveType
  BY DEF PveInv
<1>2. vPc' \in [V!Tasks -> PvePlaces] /\ vPc'[t] = p /\ \A u \in V!Tasks \ {t} : vPc'[u] = vPc[u]
  BY <1>1 DEF PveType
<1>3. PveType'
  BY <1>1, <1>2 DEF PveType
<1>4. \A u \in V!Tasks : \/ vPc'[u] = vPc[u]
                         \/ /\ vPc[u].at \notin {"judge", "commit", "update"}
                            /\ vPc'[u].at \notin {"judge", "commit", "update"}
  BY <1>2
<1> QED BY <1>3, <1>4, PveElsewhere

LEMMA PveInit ==
  ASSUME V!Init
  PROVE  PveInv
<1>1. /\ vConf = [v \in V!VarSet |-> vDefault] /\ vRun = [v \in V!VarSet |-> V!Cleared]
      /\ vPc = [t \in V!Tasks |-> V!Idle] /\ vDefault \in [scale : V!ScaleSet, alarm : V!AlarmSet]
      /\ ~vDefault.alarm.on
  BY PveAssumption DEF V!Init, V!ConstantsOK
<1>2. V!Cleared \in [raw : Int, val : Int, st : States] /\ V!Idle \in PvePlaces /\ V!Idle.at = "idle"
  BY DEF V!Cleared, States, PvePlaces, V!Idle
<1>3. PveType
  BY <1>1, <1>2 DEF PveType
<1>4. \A t \in V!Tasks : vPc[t].at = "idle"
  BY <1>1, <1>2
<1>5. \A v \in V!VarSet : ~vConf[v].alarm.on
  BY <1>1
<1> QED BY <1>3, <1>4, <1>5 DEF PveInv, V!Updating, Right

(* A start resets every variable, its alarm disabled, and every task.      *)
LEMMA PveRestarted ==
  ASSUME V!Restart
  PROVE  PveInv'
<1>1. /\ vConf' = [v \in V!VarSet |-> vDefault]
      /\ vRun' = [v \in V!VarSet |-> IF v = V!Ain THEN [V!Cleared EXCEPT !.val = vTestVals] ELSE V!Cleared]
      /\ vPc' = [t \in V!Tasks |-> V!Idle] /\ vDefault \in [scale : V!ScaleSet, alarm : V!AlarmSet]
      /\ ~vDefault.alarm.on /\ vTestVals \in Int
  BY PveAssumption DEF V!Restart, V!Tested, V!ConstantsOK
<1>2. /\ V!Cleared \in [raw : Int, val : Int, st : States] /\ V!Idle \in PvePlaces /\ V!Idle.at = "idle"
      /\ [V!Cleared EXCEPT !.val = vTestVals] \in [raw : Int, val : Int, st : States]
  BY <1>1 DEF V!Cleared, States, PvePlaces, V!Idle
<1>3. PveType'
  BY <1>1, <1>2 DEF PveType
<1>4. \A t \in V!Tasks : vPc'[t].at = "idle"
  BY <1>1, <1>2
<1>5. \A v \in V!VarSet : ~vConf'[v].alarm.on
  BY <1>1
<1> QED BY <1>3, <1>4, <1>5 DEF PveInv, V!Updating, Right

LEMMA PveStep ==
  ASSUME PveInv, [V!Next]_(V!vars)
  PROVE  PveInv'
<1>0. /\ PveType /\ V!Sensor \in V!VarSet /\ V!Ain \in V!VarSet
      /\ "http" \in V!Tasks /\ "telemetry" \in V!Tasks /\ "loop" \in V!Tasks
  BY DEF PveInv, V!Tasks, V!VarSet
<1>1. /\ V!Idle \in PvePlaces /\ V!Idle \in PveNext /\ V!Idle.at = "idle"
  BY DEF PvePlaces, PveNext, V!Idle
<1>2. vConf \in [V!VarSet -> [scale : V!ScaleSet, alarm : V!AlarmSet]]
  BY <1>0 DEF PveType
<1>3. ASSUME NEW t \in V!Tasks, V!UpdateJudge(t) PROVE PveInv'
  BY <1>3, PveJudged
<1>4. ASSUME NEW t \in V!Tasks, V!UpdateCommit(t) PROVE PveInv'
  BY <1>4, PveCommitted
<1>5. ASSUME NEW t \in V!Tasks, V!LogStore(t) PROVE PveInv'
  <2>1. /\ vPc[t].at = "store" /\ UNCHANGED <<vConf, vRun, vRaced>>
        /\ vPc' = [vPc EXCEPT ![t] = [at |-> "advance", next |-> vPc[t].next]]
    BY <1>5 DEF V!LogStore
  <2>2. vPc[t].next \in PveNext
    BY <1>0, <2>1, PlaceFacts
  <2>3. [at |-> "advance", next |-> vPc[t].next] \in PvePlaces
    BY <2>2 DEF PvePlaces
  <2> QED BY <1>2, <2>1, <2>3, PveMoves
<1>6. ASSUME NEW t \in V!Tasks, V!LogAdvance(t) PROVE PveInv'
  <2>1. /\ vPc[t].at = "advance" /\ UNCHANGED <<vConf, vRun, vRaced>>
        /\ vPc' = [vPc EXCEPT ![t] = vPc[t].next]
    BY <1>6 DEF V!LogAdvance
  <2>2. vPc[t].next \in PvePlaces /\ vPc[t].next.at \in {"idle", "save"}
    BY <1>0, <2>1, PlaceFacts, NextFacts
  <2> QED BY <1>2, <2>1, <2>2, PveMoves
<1>7. ASSUME NEW raw \in vRaws, V!ScanAnalog(raw) PROVE PveInv'
  <2>1. vPc["loop"].at = "idle" /\ V!Update("loop", V!Ain, raw, V!Idle) /\ UNCHANGED vConf /\ raw \in Int
    BY <1>1, <1>7, PveAssumption DEF V!ScanAnalog, V!ConstantsOK
  <2> QED BY <1>0, <1>1, <2>1, PveUpdated
<1>8. ASSUME NEW raw \in vRaws, V!Reading(raw) PROVE PveInv'
  <2>1. vPc["telemetry"].at = "read" /\ V!Update("telemetry", V!Sensor, raw, V!Idle) /\ UNCHANGED vConf /\ raw \in Int
    BY <1>8, PveAssumption DEF V!Reading, V!ConstantsOK
  <2> QED BY <1>0, <1>1, <2>1, PveUpdated
<1>9. ASSUME V!Poll PROVE PveInv'
  <2>1. vPc["telemetry"].at = "idle" /\ UNCHANGED vConf
    BY <1>1, <1>9 DEF V!Poll
  <2>2. CASE vOn
    <3>1. vPc' = [vPc EXCEPT !["telemetry"] = [at |-> "read"]] /\ UNCHANGED <<vRun, vRaced>>
      BY <1>9, <2>2 DEF V!Poll
    <3>2. [at |-> "read"] \in PvePlaces /\ [at |-> "read"].at = "read"
      BY DEF PvePlaces
    <3> QED BY <1>0, <1>2, <2>1, <3>1, <3>2, PveMoves
  <2>3. CASE ~vOn
    <3>1. V!Clear("telemetry", V!Sensor) /\ UNCHANGED vPc
      BY <1>9, <2>3 DEF V!Poll
    <3> QED BY <1>0, <2>1, <3>1, PveCleared
  <2> QED BY <2>2, <2>3
<1>10. ASSUME V!EditLimits PROVE PveInv'
  BY <1>10, PveLimits
<1>11. ASSUME V!EditUpdate PROVE PveInv'
  <2>1. PICK v : v = vPc["http"].v
    OBVIOUS
  <2>2. vPc["http"].at = "update" /\ V!Update("http", v, vRun[v].raw, [at |-> "save", k |-> 1]) /\ UNCHANGED vConf
    BY <1>11, <2>1 DEF V!EditUpdate
  <2>3. v \in V!VarSet
    BY <1>0, <2>1, <2>2, PlaceFacts
  <2>4. vRun[v].raw \in Int
    BY <1>0, <2>3 DEF PveType
  <2>5. [at |-> "save", k |-> 1] \in PveNext
    BY DEF PveNext
  <2> QED BY <1>0, <2>1, <2>2, <2>3, <2>4, <2>5, PveUpdated
<1>12. ASSUME V!SaveBlob PROVE PveInv'
  <2>1. PICK k : k = vPc["http"].k
    OBVIOUS
  <2>2. /\ vPc["http"].at = "save" /\ UNCHANGED <<vConf, vRun, vRaced>>
        /\ vPc' = [vPc EXCEPT !["http"] = IF k = Len(V!Vars) THEN V!Idle ELSE [vPc["http"] EXCEPT !.k = k + 1]]
    BY <1>12, <2>1 DEF V!SaveBlob
  <2>3. k \in {1, 2} /\ Len(V!Vars) = 2
    BY <1>0, <2>1, <2>2, PlaceFacts DEF V!Vars
  <2>4. ASSUME k # 2
        PROVE  [vPc["http"] EXCEPT !.k = k + 1] \in PvePlaces /\ [vPc["http"] EXCEPT !.k = k + 1].at = "save"
    <3>1. vPc["http"] \in PvePlaces
      BY <1>0 DEF PveType
    <3>2. vPc["http"] \in [at : {"save"}, k : {1, 2}]
      BY <2>2, <3>1 DEF PvePlaces, V!Idle
    <3>3. [vPc["http"] EXCEPT !.k = k + 1] \in [at : {"save"}, k : {1, 2}]
      BY <2>3, <2>4, <3>2
    <3> QED BY <3>3 DEF PvePlaces
  <2>5. PICK p \in PvePlaces : vPc' = [vPc EXCEPT !["http"] = p] /\ p.at \in {"idle", "save"}
    BY <1>1, <2>2, <2>3, <2>4
  <2> QED BY <1>0, <1>2, <2>2, <2>5, PveMoves
<1>13. ASSUME V!Restart PROVE PveInv'
  BY <1>13, PveRestarted
<1>14. ASSUME NEW v \in V!VarSet, NEW s \in vScales, NEW a \in vAlarms, V!Edit(v, s, a) PROVE PveInv'
  <2>1. vPc["http"].at = "idle" /\ UNCHANGED <<vRun, vRaced>>
    BY <1>1, <1>14 DEF V!Edit
  <2>2. s \in V!ScaleSet /\ a \in V!AlarmSet
    BY PveAssumption DEF V!ConstantsOK
  <2>3. CASE s.imin = s.imax
    <3>1. UNCHANGED <<vConf, vPc>>
      BY <1>14, <2>3 DEF V!Edit
    <3>2. PveType'
      BY <1>0, <2>1, <3>1 DEF PveType
    <3> QED BY <2>1, <3>1, <3>2, PveElsewhere
  <2>4. CASE s.imin # s.imax
    <3>1. /\ vConf' = [vConf EXCEPT ![v].scale = s]
          /\ vPc' = [vPc EXCEPT !["http"] = [at |-> "limits", v |-> v, alarm |-> a]]
      BY <1>14, <2>4 DEF V!Edit
    <3>2. /\ vConf' \in [V!VarSet -> [scale : V!ScaleSet, alarm : V!AlarmSet]]
          /\ \A w \in V!VarSet : vConf'[w].alarm = vConf[w].alarm
      BY <1>2, <2>2, <3>1
    <3>3. [at |-> "limits", v |-> v, alarm |-> a] \in PvePlaces /\ [at |-> "limits", v |-> v, alarm |-> a].at = "limits"
      BY <2>2 DEF PvePlaces
    <3> QED BY <1>0, <2>1, <3>1, <3>2, <3>3, PveMoves
  <2> QED BY <2>3, <2>4
<1>15. ASSUME NEW b \in BOOLEAN, V!Switch(b) PROVE PveInv'
  <2>1. vPc["http"].at = "idle" /\ UNCHANGED <<vConf, vPc>>
    BY <1>1, <1>15 DEF V!Switch
  <2>2. V!Clear("http", V!Sensor) \/ UNCHANGED <<vRun, vRaced>>
    BY <1>15 DEF V!Switch
  <2>3. CASE UNCHANGED <<vRun, vRaced>>
    <3>1. PveType'
      BY <1>0, <2>1, <2>3 DEF PveType
    <3> QED BY <2>1, <2>3, <3>1, PveElsewhere
  <2> QED BY <1>0, <2>1, <2>2, <2>3, PveCleared
<1>16. CASE UNCHANGED V!vars
  <2>1. UNCHANGED <<vConf, vRun, vRaced, vPc>>
    BY <1>16 DEF V!vars
  <2>2. PveType'
    BY <1>0, <2>1 DEF PveType
  <2> QED BY <2>1, <2>2, PveElsewhere
<1> QED BY <1>3, <1>4, <1>5, <1>6, <1>7, <1>8, <1>9, <1>10, <1>11, <1>12, <1>13, <1>14, <1>15, <1>16 DEF V!Next

(***************************************************************************)
(* pve.c: a value at or beyond a limit shows its alarm once no update or   *)
(* edit is under way, for every range, limit and sample, unless two        *)
(* updates of the variable overlapped.                                     *)
(***************************************************************************)
THEOREM PveAlarmShows == V!Spec => []AlarmShows
<1>1. V!Init => PveInv
  BY PveInit
<1>2. PveInv /\ [V!Next]_(V!vars) => PveInv'
  BY PveStep
<1>3. PveInv => AlarmShows
  <2> SUFFICES ASSUME PveInv, NEW v \in V!VarSet \ vRaced,
                      vConf[v].alarm.on, 0 < vConf[v].alarm.hyst,
                      vConf[v].alarm.hyst <= vConf[v].alarm.high - vConf[v].alarm.low,
                      \A t \in V!Tasks : ~V!Updating(t, v),
                      vPc["http"].at \notin {"limits", "update"},
                      v = V!Sensor => vOn /\ vRun[v] # V!Cleared
               PROVE  /\ vRun[v].val >= vConf[v].alarm.high => vRun[v].st = "HIGH"
                      /\ vRun[v].val <= vConf[v].alarm.low => vRun[v].st = "LOW"
    BY DEF AlarmShows, V!AlarmShows
  <2>1. ~Editing(v)
    BY DEF Editing
  <2>2. Right(vConf[v].alarm, vRun[v].val, vRun[v].st)
    BY <2>1 DEF PveInv
  <2> QED BY <2>2 DEF Right
<1> QED BY <1>1, <1>2, <1>3, PTL DEF V!Spec

-----------------------------------------------------------------------------
(***************************************************************************)
(* The history of alarms.  HistAt says that the ring r, read back from its *)
(* head h over c places, is the log l; HistInv, that this is so now, or    *)
(* will be when the one task between store and advance has advanced.       *)
(***************************************************************************)
PveEvents == V!VarSet \X States
HistSlot(h, c, i) == (h - c + vCap + i - 1) % vCap
HistHead(h) == (h + 1) % vCap
HistCount(c) == IF c < vCap THEN c + 1 ELSE c

HistAt(r, h, c, l) ==
    /\ h \in 0..(vCap - 1) /\ c \in 0..vCap
    /\ r = [k \in 0..(vCap - 1) |-> r[k]]
    /\ l \in Seq(PveEvents) /\ Len(l) = c
    /\ \A i \in 1..c : r[HistSlot(h, c, i)] = l[i]

Advancing(t) == vPc[t].at = "advance"

HistInv ==
    ~vCrossed =>
        \/ /\ \A t \in V!Tasks : ~Advancing(t)
           /\ HistAt(vRing, vHead, vCount, vLog)
        \/ /\ \E t \in V!Tasks : Advancing(t) /\ \A u \in V!Tasks \ {t} : ~Advancing(u)
           /\ HistAt(vRing, HistHead(vHead), HistCount(vCount), vLog)

LEMMA HistSizes ==
  ASSUME NEW h \in 0..(vCap - 1), NEW c \in 0..vCap
  PROVE  /\ vCap \in Nat \ {0}
         /\ HistHead(h) = IF h = vCap - 1 THEN 0 ELSE h + 1
         /\ \A i \in 1..c : HistSlot(h, c, i) = IF h - c + i - 1 < 0 THEN h - c + i - 1 + vCap ELSE h - c + i - 1
<1>1. vCap \in Nat \ {0}
  BY PveAssumption DEF V!ConstantsOK
<1>2. HistHead(h) = IF h = vCap - 1 THEN 0 ELSE h + 1
  BY <1>1, SMTT(30) DEF HistHead
<1>3. ASSUME NEW i \in 1..c
      PROVE  HistSlot(h, c, i) = IF h - c + i - 1 < 0 THEN h - c + i - 1 + vCap ELSE h - c + i - 1
  <2>1. PICK x \in Int : x = h - c + vCap + i - 1
    BY <1>1
  <2>2. x < vCap => x % vCap = x
    BY <1>1, <2>1, SMTT(30)
  <2>3. x >= vCap => x % vCap = x - vCap
    BY <1>1, <2>1, SMTT(30)
  <2>4. HistSlot(h, c, i) = x % vCap
    BY <2>1 DEF HistSlot
  <2> QED BY <1>1, <2>1, <2>2, <2>3, <2>4
<1> QED BY <1>1, <1>2, <1>3

(* One change more: it takes the place of the head, where the oldest was   *)
(* if the ring is full.                                                    *)
LEMMA HistStored ==
  ASSUME NEW r, NEW h, NEW c, NEW l, HistAt(r, h, c, l), NEW e \in PveEvents
  PROVE  HistAt([r EXCEPT ![h] = e], HistHead(h), HistCount(c), V!Last(Append(l, e), vCap))
<1>a. PICK a : a = Append(l, e)
  OBVIOUS
<1> DEFINE q == [r EXCEPT ![h] = e]
           g == HistHead(h)
           d == HistCount(c)
           m == V!Last(a, vCap)
<1>1. /\ h \in 0..(vCap - 1) /\ c \in 0..vCap /\ l \in Seq(PveEvents) /\ Len(l) = c
      /\ \A i \in 1..c : r[HistSlot(h, c, i)] = l[i]
      /\ r = [k \in 0..(vCap - 1) |-> r[k]]
  BY DEF HistAt
<1>2. vCap \in Nat \ {0} /\ h \in 0..(vCap - 1) /\ c \in 0..vCap
  BY <1>1, HistSizes
<1>3. /\ g = IF h = vCap - 1 THEN 0 ELSE h + 1
      /\ \A i \in 1..c : HistSlot(h, c, i) = IF h - c + i - 1 < 0 THEN h - c + i - 1 + vCap ELSE h - c + i - 1
  BY <1>1, HistSizes
<1>4. g \in 0..(vCap - 1) /\ d \in 0..vCap /\ d = IF c < vCap THEN c + 1 ELSE c
  BY <1>1, <1>2, <1>3 DEF HistCount
<1>5. q = [k \in 0..(vCap - 1) |-> q[k]] /\ q[h] = e /\ \A k \in 0..(vCap - 1) : k # h => q[k] = r[k]
  BY <1>1
<1> HIDE DEF g, d, q
<1>6. \A i \in 1..d : HistSlot(g, d, i) = IF g - d + i - 1 < 0 THEN g - d + i - 1 + vCap ELSE g - d + i - 1
  BY <1>4, HistSizes
<1>7. a \in Seq(PveEvents) /\ Len(a) = c + 1 /\ a[c + 1] = e /\ \A i \in 1..c : a[i] = l[i]
  BY <1>1, <1>a
<1>8. CASE c < vCap
  <2>1. m = a /\ d = c + 1
    BY <1>1, <1>2, <1>4, <1>7, <1>8 DEF V!Last
  <2> HIDE DEF m
  <2>2. HistSlot(g, d, c + 1) = h
    <3>1. c + 1 \in 1..d
      BY <1>1, <2>1
    <3>2. HistSlot(g, d, c + 1) = IF g - d + (c + 1) - 1 < 0 THEN g - d + (c + 1) - 1 + vCap ELSE g - d + (c + 1) - 1
      BY <1>6, <3>1
    <3> QED BY <1>2, <1>3, <2>1, <3>2
  <2>3. ASSUME NEW i \in 1..c
        PROVE  HistSlot(g, d, i) = HistSlot(h, c, i) /\ HistSlot(h, c, i) \in 0..(vCap - 1) /\ HistSlot(h, c, i) # h
    <3>1. i \in 1..d
      BY <1>1, <2>1
    <3>2. HistSlot(g, d, i) = IF g - d + i - 1 < 0 THEN g - d + i - 1 + vCap ELSE g - d + i - 1
      BY <1>6, <3>1
    <3>3. HistSlot(h, c, i) = IF h - c + i - 1 < 0 THEN h - c + i - 1 + vCap ELSE h - c + i - 1
      BY <1>3
    <3> QED BY <1>2, <1>3, <1>8, <2>1, <3>2, <3>3
  <2>4. \A i \in 1..c : q[HistSlot(g, d, i)] = a[i]
    <3> SUFFICES ASSUME NEW i \in 1..c PROVE q[HistSlot(g, d, i)] = a[i]
      OBVIOUS
    <3>1. r[HistSlot(h, c, i)] = l[i] /\ a[i] = l[i]
      BY <1>1, <1>7
    <3> QED BY <1>5, <2>3, <3>1
  <2>6. \A i \in 1..(c + 1) : q[HistSlot(g, d, i)] = a[i]
    <3> SUFFICES ASSUME NEW i \in 1..(c + 1) PROVE q[HistSlot(g, d, i)] = a[i]
      OBVIOUS
    <3>1. i = c + 1 \/ i \in 1..c
      BY <1>1
    <3> QED BY <1>5, <1>7, <2>2, <2>4, <3>1
  <2>7. m \in Seq(PveEvents) /\ Len(m) = d /\ \A i \in 1..d : q[HistSlot(g, d, i)] = m[i]
    BY <1>7, <2>1, <2>6
  <2>8. HistAt(q, g, d, m)
    BY <1>4, <1>5, <2>7 DEF HistAt
  <2> QED BY <1>a, <2>8 DEF g, d, q, m
<1>9. CASE c = vCap
  <2>1. m = SubSeq(a, 2, vCap + 1) /\ d = vCap
    <3>1. ~(c + 1 <= vCap) /\ c + 1 - vCap + 1 = 2 /\ c + 1 = vCap + 1
      BY <1>2, <1>9
    <3>2. ~(Len(a) <= vCap)
      BY <1>7, <3>1
    <3>3. m = SubSeq(a, Len(a) - vCap + 1, Len(a))
      BY <3>2 DEF V!Last
    <3>4. Len(a) - vCap + 1 = 2 /\ Len(a) = vCap + 1 /\ d = vCap
      BY <1>4, <1>7, <1>9, <3>1
    <3> QED BY <3>3, <3>4, Zenon
  <2>2. m \in Seq(PveEvents) /\ Len(m) = vCap /\ \A i \in 1..vCap : m[i] = a[i + 1]
    <3>1. a \in Seq(PveEvents) /\ Len(a) = vCap + 1
      BY <1>7, <1>9
    <3>2. SubSeq(a, 2, vCap + 1) \in Seq(PveEvents) /\ Len(SubSeq(a, 2, vCap + 1)) = vCap
          /\ \A i \in 1..vCap : SubSeq(a, 2, vCap + 1)[i] = a[i + 1]
      BY <1>2, <3>1
    <3> QED BY <2>1, <3>1, <3>2
  <2> HIDE DEF m
  <2>3. HistSlot(g, d, vCap) = h
    <3>1. vCap \in 1..d
      BY <1>2, <2>1
    <3>2. HistSlot(g, d, vCap) = IF g - d + vCap - 1 < 0 THEN g - d + vCap - 1 + vCap ELSE g - d + vCap - 1
      BY <1>6, <3>1
    <3> QED BY <1>2, <1>3, <2>1, <3>2
  <2>4. ASSUME NEW i \in 1..(vCap - 1)
        PROVE  /\ i + 1 \in 1..c /\ HistSlot(g, d, i) = HistSlot(h, c, i + 1)
               /\ HistSlot(h, c, i + 1) \in 0..(vCap - 1) /\ HistSlot(h, c, i + 1) # h
    <3>1. i \in 1..d /\ i + 1 \in 1..c
      BY <1>2, <1>9, <2>1
    <3>2. HistSlot(g, d, i) = IF g - d + i - 1 < 0 THEN g - d + i - 1 + vCap ELSE g - d + i - 1
      BY <1>6, <3>1
    <3>3. HistSlot(h, c, i + 1) = IF h - c + (i + 1) - 1 < 0 THEN h - c + (i + 1) - 1 + vCap ELSE h - c + (i + 1) - 1
      BY <1>3, <3>1
    <3>4. d = vCap /\ c = vCap /\ g = IF h = vCap - 1 THEN 0 ELSE h + 1
      BY <1>3, <1>9, <2>1
    <3>5. HistSlot(g, d, i) = IF h + i < vCap THEN h + i ELSE h + i - vCap
      BY <1>2, <3>2, <3>4
    <3>6. HistSlot(h, c, i + 1) = IF h + i < vCap THEN h + i ELSE h + i - vCap
      BY <1>2, <3>3, <3>4
    <3> QED BY <1>2, <3>1, <3>5, <3>6
  <2>5. \A i \in 1..(vCap - 1) : q[HistSlot(g, d, i)] = m[i]
    <3> SUFFICES ASSUME NEW i \in 1..(vCap - 1) PROVE q[HistSlot(g, d, i)] = m[i]
      OBVIOUS
    <3>1. q[HistSlot(g, d, i)] = l[i + 1]
      BY <1>1, <1>5, <2>4
    <3>2. i \in 1..vCap /\ a[i + 1] = l[i + 1]
      BY <1>2, <1>7, <2>4, <1>9
    <3> QED BY <2>2, <3>1, <3>2
  <2>6. e = m[vCap]
    BY <1>1, <1>2, <1>7, <1>9, <2>2
  <2>7. \A i \in 1..d : q[HistSlot(g, d, i)] = m[i]
    <3> SUFFICES ASSUME NEW i \in 1..vCap PROVE q[HistSlot(g, d, i)] = m[i]
      BY <2>1
    <3>1. i = vCap \/ i \in 1..(vCap - 1)
      BY <1>2
    <3> QED BY <1>5, <2>3, <2>5, <2>6, <3>1
  <2>8. HistAt(q, g, d, m)
    BY <1>4, <1>5, <2>1, <2>2, <2>7 DEF HistAt
  <2> QED BY <1>a, <2>8 DEF g, d, q, m
<1> QED BY <1>1, <1>2, <1>8, <1>9

(* The history a start leaves: what the self-test logged, from place 0.    *)
LEMMA HistFresh ==
  ASSUME NEW l \in Seq(PveEvents), Len(l) <= vCap, NEW x
  PROVE  HistAt([k \in 0..(vCap - 1) |-> IF k < Len(l) THEN l[k + 1] ELSE x], Len(l) % vCap, Len(l), l)
<1> DEFINE r == [k \in 0..(vCap - 1) |-> IF k < Len(l) THEN l[k + 1] ELSE x]
<1>0. vCap \in Nat \ {0}
  BY PveAssumption DEF V!ConstantsOK
<1>1. PICK c \in 0..vCap : c = Len(l)
  BY <1>0
<1>2. PICK h : h = c % vCap
  OBVIOUS
<1>3. h = IF c = vCap THEN 0 ELSE c
  BY <1>0, <1>2, SMTT(30)
<1>4. h \in 0..(vCap - 1)
  BY <1>0, <1>3
<1>5. ASSUME NEW i \in 1..c PROVE r[HistSlot(h, c, i)] = l[i]
  <2>1. HistSlot(h, c, i) = IF h - c + i - 1 < 0 THEN h - c + i - 1 + vCap ELSE h - c + i - 1
    BY <1>4, HistSizes
  <2>2. HistSlot(h, c, i) = i - 1 /\ i - 1 \in 0..(vCap - 1) /\ i - 1 < c /\ i - 1 + 1 = i
    BY <1>0, <1>3, <2>1
  <2> QED BY <1>1, <2>2
<1>6. r = [k \in 0..(vCap - 1) |-> r[k]]
  OBVIOUS
<1> HIDE DEF r
<1>7. HistAt(r, h, c, l)
  BY <1>1, <1>4, <1>5, <1>6 DEF HistAt
<1> QED BY <1>1, <1>2, <1>7 DEF r

LEMMA LastFits ==
  ASSUME NEW s \in Seq(PveEvents)
  PROVE  V!Last(s, vCap) \in Seq(PveEvents) /\ Len(V!Last(s, vCap)) <= vCap
<1>0. vCap \in Nat \ {0}
  BY PveAssumption DEF V!ConstantsOK
<1>1. PICK n \in Nat : n = Len(s)
  OBVIOUS
<1>2. CASE n <= vCap
  BY <1>1, <1>2 DEF V!Last
<1>3. CASE ~(n <= vCap)
  <2>1. V!Last(s, vCap) = SubSeq(s, n - vCap + 1, n)
    BY <1>1, <1>3 DEF V!Last
  <2>2. SubSeq(s, n - vCap + 1, n) \in Seq(PveEvents) /\ Len(SubSeq(s, n - vCap + 1, n)) = vCap
    BY <1>0, <1>1, <1>3
  <2> QED BY <1>0, <2>1, <2>2
<1> QED BY <1>2, <1>3

(* A step that neither stores nor advances.                                *)
LEMMA HistElsewhere ==
  ASSUME HistInv, UNCHANGED <<vRing, vHead, vCount, vLog, vCrossed>>,
         \A t \in V!Tasks : vPc'[t] = vPc[t] \/ (vPc[t].at # "advance" /\ vPc'[t].at # "advance")
  PROVE  HistInv'
<1>1. \A t \in V!Tasks : Advancing(t)' <=> Advancing(t)
  BY DEF Advancing
<1>2. /\ HistAt(vRing, vHead, vCount, vLog)' <=> HistAt(vRing, vHead, vCount, vLog)
      /\ HistAt(vRing, HistHead(vHead), HistCount(vCount), vLog)'
           <=> HistAt(vRing, HistHead(vHead), HistCount(vCount), vLog)
  BY DEF HistAt, HistSlot, HistHead, HistCount
<1> QED BY <1>1, <1>2 DEF HistInv

(* Store, then advance, by a task that meets no other between the two.     *)
LEMMA HistStore ==
  ASSUME PveType, HistInv, NEW t \in V!Tasks, V!LogStore(t)
  PROVE  HistInv'
<1>1. /\ vPc[t].at = "store" /\ vRing' = [vRing EXCEPT ![vHead] = vPc[t].ev]
      /\ vLog' = V!Last(Append(vLog, vPc[t].ev), vCap)
      /\ vPc' = [vPc EXCEPT ![t] = [at |-> "advance", next |-> vPc[t].next]]
      /\ vHead' = vHead /\ vCount' = vCount
  BY DEF V!LogStore
<1>2. PICK e \in PveEvents : e = vPc[t].ev
  <2>1. vPc[t] \in PvePlaces
    BY DEF PveType
  <2> QED BY <1>1, <2>1 DEF PvePlaces, V!Idle, PveEvents
<1>3. Advancing(t)' /\ \A u \in V!Tasks \ {t} : Advancing(u)' <=> Advancing(u)
  BY <1>1 DEF Advancing, PveType
<1>4. ASSUME ~vCrossed' PROVE ~vCrossed /\ \A u \in V!Tasks : ~Advancing(u)
  BY <1>1, <1>4 DEF V!LogStore, Advancing
<1>5. ASSUME ~vCrossed' PROVE HistAt(vRing', HistHead(vHead), HistCount(vCount), vLog')
  <2>1. HistAt(vRing, vHead, vCount, vLog)
    BY <1>4, <1>5 DEF HistInv
  <2>2. HistAt([vRing EXCEPT ![vHead] = e], HistHead(vHead), HistCount(vCount), V!Last(Append(vLog, e), vCap))
    BY <2>1, HistStored
  <2> QED BY <1>1, <1>2, <2>2
<1>6. HistAt(vRing', HistHead(vHead), HistCount(vCount), vLog')
        => HistAt(vRing, HistHead(vHead), HistCount(vCount), vLog)'
  BY <1>1 DEF HistAt, HistSlot, HistHead, HistCount
<1> QED BY <1>3, <1>4, <1>5, <1>6 DEF HistInv

LEMMA HistAdvance ==
  ASSUME PveType, HistInv, NEW t \in V!Tasks, V!LogAdvance(t)
  PROVE  HistInv'
<1>1. /\ vPc[t].at = "advance" /\ vPc' = [vPc EXCEPT ![t] = vPc[t].next]
      /\ vHead' = HistHead(vHead) /\ vCount' = HistCount(vCount)
      /\ UNCHANGED <<vRing, vLog, vCrossed>>
  BY DEF V!LogAdvance, HistHead, HistCount
<1>2. vPc[t].next.at \in {"idle", "save"}
  BY <1>1, PlaceFacts, NextFacts
<1>3. ~Advancing(t)' /\ \A u \in V!Tasks \ {t} : Advancing(u)' <=> Advancing(u)
  BY <1>1, <1>2 DEF Advancing, PveType
<1>4. ASSUME ~vCrossed' PROVE /\ \A u \in V!Tasks \ {t} : ~Advancing(u)
                              /\ HistAt(vRing, HistHead(vHead), HistCount(vCount), vLog)
  BY <1>1, <1>4 DEF HistInv, Advancing
<1>5. HistAt(vRing, HistHead(vHead), HistCount(vCount), vLog) => HistAt(vRing, vHead, vCount, vLog)'
  BY <1>1 DEF HistAt, HistSlot
<1> QED BY <1>3, <1>4, <1>5 DEF HistInv

LEMMA HistRestart ==
  ASSUME V!Restart
  PROVE  HistInv'
<1> DEFINE s == <<(<<V!Ain, "OK">>), (<<V!Ain, "HIGH">>)>>
<1>1. /\ vLog' = V!Last(s, vCap) /\ vCount' = Len(vLog') /\ vHead' = vCount' % vCap
      /\ vRing' = [i \in 0..(vCap - 1) |-> IF i < vCount' THEN vLog'[i + 1] ELSE <<V!Ain, "OK">>]
      /\ vPc' = [t \in V!Tasks |-> V!Idle]
  BY DEF V!Restart
<1>2. s \in Seq(PveEvents)
  BY DEF PveEvents, V!VarSet, States
<1> HIDE DEF s
<1>3. PICK l \in Seq(PveEvents) : l = vLog' /\ Len(l) <= vCap
  BY <1>1, <1>2, LastFits
<1>4. HistAt(vRing', vHead', vCount', vLog')
  BY <1>1, <1>3, HistFresh
<1>5. \A t \in V!Tasks : ~Advancing(t)'
  BY <1>1 DEF Advancing, V!Idle
<1>6. HistAt(vRing', vHead', vCount', vLog') => HistAt(vRing, vHead, vCount, vLog)'
  BY DEF HistAt, HistSlot
<1> QED BY <1>4, <1>5, <1>6 DEF HistInv

LEMMA HistStep ==
  ASSUME PveType, HistInv, [V!Next]_(V!vars)
  PROVE  HistInv'
<1>0. V!Tasks = {"loop", "telemetry", "http"} /\ V!Idle.at = "idle" /\ vPc = [t \in V!Tasks |-> vPc[t]]
  BY DEF V!Tasks, V!Idle, PveType
<1>1. ASSUME NEW t \in V!Tasks, NEW p, vPc' = [vPc EXCEPT ![t] = p], p.at # "advance", vPc[t].at # "advance",
             UNCHANGED <<vRing, vHead, vCount, vLog, vCrossed>>
      PROVE  HistInv'
  <2>1. \A u \in V!Tasks : vPc'[u] = vPc[u] \/ (vPc[u].at # "advance" /\ vPc'[u].at # "advance")
    BY <1>0, <1>1
  <2> QED BY <1>1, <2>1, HistElsewhere
<1>2. ASSUME UNCHANGED vPc, UNCHANGED <<vRing, vHead, vCount, vLog, vCrossed>> PROVE HistInv'
  BY <1>2, HistElsewhere
<1>3. ASSUME NEW t \in V!Tasks, V!UpdateJudge(t) PROVE HistInv'
  <2>a. PICK v : v = vPc[t].v
    OBVIOUS
  <2>b. PICK st : st = V!Judge(vRun[v].st, vRun[v].val, vConf[v].alarm)
    OBVIOUS
  <2> DEFINE p == IF st = vRun[v].st THEN vPc[t].next ELSE [at |-> "commit", v |-> v, st |-> st, next |-> vPc[t].next]
  <2>1. vPc' = [vPc EXCEPT ![t] = p]
    BY <1>3, <2>a, <2>b DEF V!UpdateJudge
  <2>2. vPc[t].at = "judge" /\ UNCHANGED <<vRing, vHead, vCount, vLog, vCrossed>>
    BY <1>3 DEF V!UpdateJudge
  <2>3. vPc[t].next.at \in {"idle", "save"}
    BY <2>2, PlaceFacts, NextFacts
  <2>4. p.at # "advance"
    BY <2>3
  <2> HIDE DEF p
  <2> QED BY <1>1, <2>1, <2>2, <2>4
<1>4. ASSUME NEW t \in V!Tasks, V!UpdateCommit(t) PROVE HistInv'
  <2>a. PICK v : v = vPc[t].v
    OBVIOUS
  <2>b. PICK st : st = vPc[t].st
    OBVIOUS
  <2> DEFINE p == [at |-> "store", ev |-> <<v, st>>, next |-> vPc[t].next]
  <2>1. vPc[t].at = "commit" /\ UNCHANGED <<vRing, vHead, vCount, vLog, vCrossed>>
    BY <1>4 DEF V!UpdateCommit
  <2>2. vPc' = [vPc EXCEPT ![t] = p] /\ p.at # "advance"
    BY <1>4, <2>a, <2>b DEF V!UpdateCommit
  <2> HIDE DEF p
  <2> QED BY <1>1, <2>1, <2>2
<1>5. ASSUME NEW t \in V!Tasks, NEW v, NEW raw, NEW next, V!Update(t, v, raw, next), vPc[t].at # "advance",
             UNCHANGED <<vRing, vHead, vCount, vLog, vCrossed>>
      PROVE  HistInv'
  <2> DEFINE p == [at |-> "judge", v |-> v, next |-> next]
  <2>1. vPc' = [vPc EXCEPT ![t] = p] /\ p.at # "advance"
    BY <1>5 DEF V!Update
  <2> HIDE DEF p
  <2> QED BY <1>1, <1>5, <2>1
<1>6. ASSUME NEW raw \in vRaws, V!ScanAnalog(raw) \/ V!Reading(raw) PROVE HistInv'
  BY <1>0, <1>5, <1>6 DEF V!ScanAnalog, V!Reading
<1>7. ASSUME V!EditUpdate PROVE HistInv'
  <2>a. PICK v : v = vPc["http"].v
    OBVIOUS
  <2>1. V!Update("http", v, vRun[v].raw, [at |-> "save", k |-> 1])
    BY <1>7, <2>a DEF V!EditUpdate
  <2>2. vPc["http"].at = "update" /\ UNCHANGED <<vRing, vHead, vCount, vLog, vCrossed>>
    BY <1>7 DEF V!EditUpdate
  <2> QED BY <1>0, <1>5, <2>1, <2>2
<1>8. ASSUME V!Poll PROVE HistInv'
  <2>1. vPc["telemetry"].at = "idle" /\ UNCHANGED <<vRing, vHead, vCount, vLog, vCrossed>>
    BY <1>0, <1>8 DEF V!Poll
  <2> DEFINE p == [at |-> "read"]
  <2>2. p.at # "advance" /\ (UNCHANGED vPc \/ vPc' = [vPc EXCEPT !["telemetry"] = p])
    BY <1>8 DEF V!Poll
  <2> HIDE DEF p
  <2> QED BY <1>0, <1>1, <1>2, <2>1, <2>2
<1>9. ASSUME V!EditLimits PROVE HistInv'
  <2>1. vPc["http"].at = "limits" /\ UNCHANGED <<vRing, vHead, vCount, vLog, vCrossed>>
    BY <1>9 DEF V!EditLimits
  <2>2. PICK v : vPc' = [vPc EXCEPT !["http"] = [at |-> "update", v |-> v]] \/ vPc' = [vPc EXCEPT !["http"] = V!Idle]
    BY <1>9 DEF V!EditLimits
  <2>3. PICK p : vPc' = [vPc EXCEPT !["http"] = p] /\ p.at # "advance"
    BY <1>0, <2>2
  <2> QED BY <1>0, <1>1, <2>1, <2>3
<1>10. ASSUME V!SaveBlob PROVE HistInv'
  <2>1. vPc["http"].at = "save" /\ UNCHANGED <<vRing, vHead, vCount, vLog, vCrossed>>
    BY <1>10 DEF V!SaveBlob
  <2>a. PICK k : k = vPc["http"].k
    OBVIOUS
  <2>2. vPc' = [vPc EXCEPT !["http"] = IF k = Len(V!Vars) THEN V!Idle ELSE [vPc["http"] EXCEPT !.k = k + 1]]
    BY <1>10, <2>a DEF V!SaveBlob
  <2>3. [vPc["http"] EXCEPT !.k = k + 1].at = "save"
    <3>1. vPc["http"] \in PvePlaces
      BY <1>0 DEF PveType
    <3>2. vPc["http"] \in [at : {"save"}, k : {1, 2}]
      BY <2>1, <3>1 DEF PvePlaces, V!Idle
    <3> QED BY <3>2
  <2>4. PICK p : vPc' = [vPc EXCEPT !["http"] = p] /\ p.at # "advance"
    BY <1>0, <2>2, <2>3
  <2> QED BY <1>0, <1>1, <2>1, <2>4
<1>11. ASSUME NEW v \in V!VarSet, NEW s \in vScales, NEW a \in vAlarms, V!Edit(v, s, a) PROVE HistInv'
  <2>1. vPc["http"].at = "idle" /\ UNCHANGED <<vRing, vHead, vCount, vLog, vCrossed>>
    BY <1>0, <1>11 DEF V!Edit
  <2> DEFINE p == [at |-> "limits", v |-> v, alarm |-> a]
  <2>2. p.at # "advance" /\ (UNCHANGED vPc \/ vPc' = [vPc EXCEPT !["http"] = p])
    BY <1>11 DEF V!Edit
  <2> HIDE DEF p
  <2> QED BY <1>0, <1>1, <1>2, <2>1, <2>2
<1>12. ASSUME NEW b \in BOOLEAN, V!Switch(b) PROVE HistInv'
  <2>1. UNCHANGED vPc /\ UNCHANGED <<vRing, vHead, vCount, vLog, vCrossed>>
    BY <1>12 DEF V!Switch
  <2> QED BY <1>2, <2>1
<1>13. CASE UNCHANGED V!vars
  BY <1>2, <1>13 DEF V!vars
<1> QED BY <1>3, <1>4, <1>6, <1>7, <1>8, <1>9, <1>10, <1>11, <1>12, <1>13, HistStore, HistAdvance, HistRestart
        DEF V!Next

(***************************************************************************)
(* pve.c: the history is the last changes of an alarm, all that fit, in    *)
(* the order they were stored, for every capacity and three tasks that     *)
(* store in it, unless two of them were between store and advance at once. *)
(***************************************************************************)
THEOREM PveHistoryShows == V!Spec => []HistoryIsTail
<1>1. V!Init => HistInv
  <2>1. ASSUME V!Init PROVE HistInv
    <3>0. <<>> \in Seq(PveEvents)
      OBVIOUS
    <3>1. PICK l \in Seq(PveEvents) : l = <<>>
      BY <3>0, Zenon
    <3>2. Len(l) = 0 /\ vCap \in Nat \ {0} /\ 0 % vCap = 0
      BY <3>1, PveAssumption, SMTT(30) DEF V!ConstantsOK
    <3>3. HistAt([k \in 0..(vCap - 1) |-> IF k < Len(l) THEN l[k + 1] ELSE <<V!Ain, "OK">>], Len(l) % vCap, Len(l), l)
      BY <3>2, HistFresh
    <3>4. HistAt([k \in 0..(vCap - 1) |-> <<V!Ain, "OK">>], 0, 0, l)
      <4>1. [k \in 0..(vCap - 1) |-> IF k < Len(l) THEN l[k + 1] ELSE <<V!Ain, "OK">>]
              = [k \in 0..(vCap - 1) |-> <<V!Ain, "OK">>]
        BY <3>2
      <4> QED BY <3>2, <3>3, <4>1
    <3>5. HistAt(vRing, vHead, vCount, vLog)
      BY <2>1, <3>1, <3>4 DEF V!Init
    <3>6. \A t \in V!Tasks : ~Advancing(t)
      BY <2>1 DEF V!Init, Advancing, V!Idle
    <3> QED BY <3>5, <3>6 DEF HistInv
  <2> QED BY <2>1
<1>2. HistInv => HistoryIsTail
  <2> SUFFICES ASSUME HistInv, \A t \in V!Tasks : vPc[t].at # "advance", ~vCrossed
               PROVE  V!Exported = vLog
    BY DEF HistoryIsTail, V!HistoryIsTail
  <2>1. HistAt(vRing, vHead, vCount, vLog)
    BY DEF HistInv, Advancing
  <2>2. V!Exported = [i \in 1..vCount |-> vRing[HistSlot(vHead, vCount, i)]]
    BY DEF V!Exported, HistSlot
  <2>3. vLog \in Seq(PveEvents) /\ Len(vLog) = vCount /\ \A i \in 1..vCount : vRing[HistSlot(vHead, vCount, i)] = vLog[i]
    BY <2>1 DEF HistAt
  <2>4. vLog = [i \in 1..vCount |-> vLog[i]]
    BY <2>3
  <2> QED BY <2>2, <2>3, <2>4
<1>3. PveInv /\ HistInv /\ [V!Next]_(V!vars) => HistInv'
  BY HistStep DEF PveInv
<1>4. PveInv /\ [V!Next]_(V!vars) => PveInv'
  BY PveStep
<1> QED BY <1>1, <1>2, <1>3, <1>4, PveInit, PTL DEF V!Spec

-----------------------------------------------------------------------------
(***************************************************************************)
(* The installation map: where a name leads.                               *)
(***************************************************************************)

(* Some numbers have a lowest one.                                         *)
LEMMA MapLowest ==
  ASSUME NEW ps \in SUBSET Nat, ps # {}
  PROVE  \E m \in ps : \A t \in ps : m <= t
<1>1. PICK m \in ps : \A t \in ps : ~(<<t, m>> \in OpToRel(<, Nat))
  BY WFMin, NatLessThanWellFounded, Zenon
<1>2. ASSUME NEW t \in ps PROVE m <= t
  <2>1. ~(t < m)
    <3>1. SUFFICES ASSUME t < m PROVE <<t, m>> \in OpToRel(<, Nat)
      BY <1>1
    <3>2. <<t, m>> \in Nat \X Nat
      OBVIOUS
    <3>3. <<t, m>>[1] < <<t, m>>[2]
      BY <3>1
    <3> QED BY <3>2, <3>3, Zenon DEF OpToRel
  <2> QED BY <2>1
<1> QED BY <1>2

Rises(p) == \A i, j \in DOMAIN p : i < j => p[i] < p[j]
Listed(ps) == \E p \in [1..Cardinality(ps) -> ps] : Rises(p)

(* A list of all but the lowest, and the lowest in front.                  *)
LEMMA MapInFront ==
  ASSUME NEW ps \in SUBSET Nat, IsFiniteSet(ps), NEW m \in ps, \A t \in ps : m <= t, Listed(ps \ {m})
  PROVE  Listed(ps)
<1> DEFINE n == Cardinality(ps \ {m})
<1>1. n \in Nat /\ Cardinality(ps) = n + 1
  <2>1. IsFiniteSet(ps \ {m}) /\ Cardinality(ps \ {m}) = Cardinality(ps) - 1
    BY FS_RemoveElement, Zenon
  <2>2. Cardinality(ps) \in Nat /\ Cardinality(ps \ {m}) \in Nat
    BY <2>1, FS_CardinalityType, Zenon
  <2> QED BY <2>1, <2>2
<1>2. PICK p \in [1..n -> ps \ {m}] : Rises(p)
  BY DEF Listed
<1> HIDE DEF n
<1> DEFINE q == [i \in 1..(n + 1) |-> IF i = 1 THEN m ELSE p[i - 1]]
<1>3. q \in [1..(n + 1) -> ps]
  <2>1. ASSUME NEW i \in 1..(n + 1), i # 1 PROVE p[i - 1] \in ps
    <3>1. i - 1 \in 1..n
      BY <1>1, <2>1
    <3> QED BY <1>2, <3>1
  <2> QED BY <2>1
<1>4. ASSUME NEW i \in 1..(n + 1), NEW j \in 1..(n + 1), i < j PROVE q[i] < q[j]
  <2>1. j - 1 \in 1..n /\ q[j] = p[j - 1]
    BY <1>1, <1>4
  <2>2. CASE i = 1
    <3>1. p[j - 1] \in ps /\ p[j - 1] # m
      BY <1>2, <2>1
    <3>2. q[i] = m
      BY <1>1, <2>2
    <3>3. m <= p[j - 1] /\ m \in Nat /\ p[j - 1] \in Nat
      BY <3>1
    <3> QED BY <2>1, <3>1, <3>2, <3>3
  <2>3. CASE i # 1
    <3>1. i - 1 \in 1..n /\ q[i] = p[i - 1] /\ i - 1 < j - 1
      BY <1>1, <1>4, <2>3
    <3> QED BY <1>2, <2>1, <3>1 DEF Rises
  <2> QED BY <2>2, <2>3
<1>5. Rises(q)
  BY <1>3, <1>4 DEF Rises
<1> QED BY <1>1, <1>3, <1>5 DEF Listed

(* The places of some entries can be listed lowest first.                  *)
LEMMA MapInOrder ==
  ASSUME NEW ps \in SUBSET Nat, IsFiniteSet(ps)
  PROVE  Cardinality(ps) \in Nat /\ M!InOrder(ps) \in [1..Cardinality(ps) -> ps]
<1> DEFINE Bad(n) == \E s \in SUBSET Nat : IsFiniteSet(s) /\ Cardinality(s) = n /\ ~ Listed(s)
           bad == {n \in Nat : Bad(n)}
<1>1. bad = {}
  <2>1. SUFFICES ASSUME bad # {} PROVE FALSE
    OBVIOUS
  <2>2. PICK n \in bad : \A k \in bad : n <= k
    BY <2>1, MapLowest
  <2>3. PICK s \in SUBSET Nat : IsFiniteSet(s) /\ Cardinality(s) = n /\ ~ Listed(s)
    BY <2>2
  <2>4. s # {}
    <3>1. SUFFICES ASSUME s = {} PROVE FALSE
      OBVIOUS
    <3>2. Cardinality(s) = 0
      BY <3>1, FS_EmptySet
    <3>3. [i \in 1..0 |-> 0] \in [1..Cardinality(s) -> s] /\ Rises([i \in 1..0 |-> 0])
      BY <3>2 DEF Rises
    <3>4. Listed(s)
      BY <3>3, Zenon DEF Listed
    <3> QED BY <2>3, <3>4
  <2>5. PICK m \in s : \A t \in s : m <= t
    BY <2>3, <2>4, MapLowest
  <2>6. IsFiniteSet(s \ {m}) /\ Cardinality(s \ {m}) = n - 1 /\ n - 1 \in Nat /\ s \ {m} \in SUBSET Nat
    <3>1. IsFiniteSet(s \ {m}) /\ Cardinality(s \ {m}) = Cardinality(s) - 1
      BY <2>3, FS_RemoveElement, Zenon
    <3>2. Cardinality(s \ {m}) \in Nat
      BY <3>1, FS_CardinalityType, Zenon
    <3> QED BY <2>3, <3>1, <3>2
  <2>7. ~ Listed(s \ {m})
    BY <2>3, <2>5, MapInFront
  <2>8. n - 1 \in bad
    BY <2>6, <2>7
  <2> QED BY <2>2, <2>8
<1>2. Cardinality(ps) \in Nat
  BY FS_CardinalityType
<1>3. Listed(ps)
  BY <1>1, <1>2
<1>4. \E p \in [1..Cardinality(ps) -> ps] : \A i, j \in DOMAIN p : i < j => p[i] < p[j]
  BY <1>3 DEF Listed, Rises
<1>5. M!InOrder(ps) \in [1..Cardinality(ps) -> ps]
  <2>1. M!Cardinality(ps) = Cardinality(ps)
    BY DEF M!Cardinality, Cardinality
  <2> QED BY <1>4, <2>1, Zenon DEF M!InOrder
<1> QED BY <1>2, <1>5

(* The first entry with a name.                                            *)
LeadsTo(e) == [node |-> e.node, kind |-> e.kind, ch |-> e.ch]
FirstNamed(es, r, i) == M!Rid(es[i]) = r /\ \A j \in DOMAIN es : j < i => M!Rid(es[j]) # r

LEMMA MapSelects ==
  ASSUME NEW es \in Seq(M!Row), NEW r, r # M!NoCode
  PROVE  \/ /\ \A i \in DOMAIN es : M!Rid(es[i]) # r
            /\ M!Resolve(es, r) = M!None
         \/ \E i \in DOMAIN es : FirstNamed(es, r, i) /\ M!Resolve(es, r) = LeadsTo(es[i])
<1> DEFINE I == {i \in 1..Len(es) : r # M!NoCode /\ M!Rid(es[i]) = r}
           k == IF I # {} THEN M!Min(I) ELSE 0
<1>0. DOMAIN es = 1..Len(es) /\ Len(es) \in Nat
  OBVIOUS
<1>1. M!Resolve(es, r) = IF k = 0 THEN M!None ELSE LeadsTo(es[k])
  BY DEF M!Resolve, M!SelectInSeq, LeadsTo
<1>2. CASE I = {}
  BY <1>0, <1>1, <1>2
<1>3. CASE I # {}
  <2>1. I \in SUBSET Nat
    OBVIOUS
  <2>2. M!Min(I) \in I /\ \A t \in I : M!Min(I) <= t
    <3>1. \E m \in I : \A t \in I : m <= t
      BY <1>3, <2>1, MapLowest
    <3> HIDE DEF I
    <3> QED BY <3>1 DEF M!Min
  <2>3. k = M!Min(I)
    BY <1>3
  <2>4. k \in 1..Len(es) /\ M!Rid(es[k]) = r /\ \A t \in I : k <= t
    BY <2>2, <2>3
  <2> HIDE DEF k
  <2>5. ASSUME NEW j \in DOMAIN es, j < k PROVE M!Rid(es[j]) # r
    BY <1>0, <2>4, <2>5
  <2>6. k # 0 /\ FirstNamed(es, r, k)
    BY <2>4, <2>5 DEF FirstNamed
  <2> QED BY <1>0, <1>1, <2>4, <2>6
<1> QED BY <1>2, <1>3

(* So a name leads to the channel of the first entry with it.             *)
LEMMA MapResolves ==
  ASSUME NEW es \in Seq(M!Row), NEW r, r # M!NoCode
  PROVE  /\ (\A i \in DOMAIN es : M!Rid(es[i]) # r) => M!Resolve(es, r) = M!None
         /\ \A i \in DOMAIN es : FirstNamed(es, r, i) => M!Resolve(es, r) = LeadsTo(es[i])
         /\ M!Resolve(es, r) # M!None => \E i \in DOMAIN es : FirstNamed(es, r, i)
<1>0. DOMAIN es \subseteq Nat
  OBVIOUS
<1>1. \A i, j \in DOMAIN es : FirstNamed(es, r, i) /\ FirstNamed(es, r, j) => i = j
  BY <1>0 DEF FirstNamed
<1> QED BY MapSelects, <1>1 DEF FirstNamed

(* An entry leads somewhere.                                               *)
LEMMA MapLeads ==
  ASSUME NEW e \in M!Row
  PROVE  LeadsTo(e) # M!None
BY DEF LeadsTo, M!None, M!Row

(* installation_map_find returns an entry, or none.                        *)
LEMMA MapFinds ==
  ASSUME NEW es \in Seq(M!Row), NEW n, NEW k, NEW c, NEW l
  PROVE  M!Find(es, n, k, c, l) \in {0} \cup DOMAIN es
<1> DEFINE I == {i \in 1..Len(es) : es[i].node = n /\ es[i].kind = k /\ es[i].ch = c /\ (l = M!NoCode \/ es[i].local = l)}
<1>0. DOMAIN es = 1..Len(es) /\ Len(es) \in Nat
  OBVIOUS
<1>1. M!Find(es, n, k, c, l) = IF I # {} THEN M!Min(I) ELSE 0
  BY DEF M!Find, M!SelectInSeq
<1>2. CASE I = {}
  BY <1>1, <1>2
<1>3. CASE I # {}
  <2>1. I \in SUBSET Nat
    OBVIOUS
  <2>2. M!Min(I) \in I
    <3>1. \E m \in I : \A t \in I : m <= t
      BY <1>3, <2>1, MapLowest
    <3> HIDE DEF I
    <3> QED BY <3>1 DEF M!Min
  <2> QED BY <1>0, <1>1, <1>3, <2>2
<1> QED BY <1>2, <1>3

(* A table with an entry taken out.                                        *)
LEMMA MapRemoved ==
  ASSUME NEW es \in Seq(M!Row), NEW i \in DOMAIN es
  PROVE  /\ M!RemoveAt(es, i) \in Seq(M!Row) /\ Len(M!RemoveAt(es, i)) = Len(es) - 1
         /\ \A j \in 1..(Len(es) - 1) : M!RemoveAt(es, i)[j] = IF j < i THEN es[j] ELSE es[j + 1]
<1>1. i \in 1..Len(es) /\ Len(es) \in Nat
  OBVIOUS
<1> DEFINE p == SubSeq(es, 1, i - 1)
           q == SubSeq(es, i + 1, Len(es))
<1>2. p \in Seq(M!Row) /\ Len(p) = i - 1 /\ \A j \in 1..(i - 1) : p[j] = es[j]
  BY <1>1
<1>3. q \in Seq(M!Row) /\ Len(q) = Len(es) - i /\ \A j \in 1..(Len(es) - i) : q[j] = es[i + j]
  BY <1>1
<1>4. M!RemoveAt(es, i) = p \o q
  BY DEF M!RemoveAt
<1> HIDE DEF p, q
<1>5. PICK c \in Seq(M!Row) :
        /\ c = p \o q /\ Len(c) = Len(p) + Len(q)
        /\ \A j \in 1..(Len(p) + Len(q)) : c[j] = IF j <= Len(p) THEN p[j] ELSE q[j - Len(p)]
  <2>1. /\ p \o q \in Seq(M!Row) /\ Len(p \o q) = Len(p) + Len(q)
        /\ \A j \in 1..(Len(p) + Len(q)) : (p \o q)[j] = IF j <= Len(p) THEN p[j] ELSE q[j - Len(p)]
    BY <1>2, <1>3, ConcatProperties
  <2> QED BY <2>1, Zenon
<1>l. /\ Len(p) = i - 1 /\ Len(q) = Len(es) - i
      /\ i \in Nat /\ 1 <= i /\ i <= Len(es) /\ Len(es) \in Nat
  BY <1>1, <1>2, <1>3
<1>6. Len(c) = Len(es) - 1
  BY <1>l, <1>5
<1>7. ASSUME NEW j \in 1..(Len(es) - 1), j < i PROVE c[j] = es[j]
  <2>1. j \in 1..(Len(p) + Len(q)) /\ j <= Len(p) /\ j \in 1..(i - 1)
    BY <1>l, <1>7
  <2> QED BY <1>2, <1>5, <2>1
<1>8. ASSUME NEW j \in 1..(Len(es) - 1), ~ (j < i) PROVE c[j] = es[j + 1]
  <2>1. /\ j \in 1..(Len(p) + Len(q)) /\ ~ (j <= Len(p))
        /\ j - Len(p) \in 1..(Len(es) - i) /\ i + (j - Len(p)) = j + 1
    <3>1. j \in Nat /\ 1 <= j /\ j <= Len(es) - 1 /\ i <= j
      BY <1>l, <1>8
    <3>2. /\ j \in 1..((i - 1) + (Len(es) - i)) /\ ~ (j <= i - 1)
          /\ j - (i - 1) \in 1..(Len(es) - i) /\ i + (j - (i - 1)) = j + 1
      BY ONLY <1>l, <3>1
    <3> QED BY ONLY <1>l, <3>2
  <2>2. c[j] = q[j - Len(p)]
    BY <1>5, <2>1
  <2>3. q[j - Len(p)] = es[i + (j - Len(p))]
    BY ONLY <1>3, <2>1
  <2> QED BY <2>1, <2>2, <2>3
<1> QED BY <1>4, <1>5, <1>6, <1>7, <1>8

(* Names other than that of an entry go on leading where they led when the *)
(* entry is taken out.                                                     *)
LEMMA MapRemoveKeeps ==
  ASSUME NEW es \in Seq(M!Row), NEW i \in DOMAIN es, NEW r, r # M!NoCode, r # M!Rid(es[i])
  PROVE  M!Resolve(M!RemoveAt(es, i), r) = M!Resolve(es, r)
<1>1. PICK fs \in Seq(M!Row) :
        /\ fs = M!RemoveAt(es, i) /\ Len(fs) = Len(es) - 1
        /\ \A j \in 1..(Len(es) - 1) : fs[j] = IF j < i THEN es[j] ELSE es[j + 1]
  BY MapRemoved, Zenon
<1>2. /\ DOMAIN es = 1..Len(es) /\ DOMAIN fs = 1..(Len(es) - 1) /\ Len(es) \in Nat
      /\ i \in 1..Len(es)
  BY <1>1
<1>3. ASSUME NEW k \in DOMAIN es, FirstNamed(es, r, k)
      PROVE  M!Resolve(fs, r) = LeadsTo(es[k])
  <2> DEFINE m == IF k < i THEN k ELSE k - 1
  <2>1. k # i
    BY <1>3 DEF FirstNamed
  <2>2. m \in DOMAIN fs /\ fs[m] = es[k]
    BY <1>1, <1>2, <2>1
  <2>3. ASSUME NEW j \in DOMAIN fs, j < m PROVE M!Rid(fs[j]) # r
    <3>1. \E t \in DOMAIN es : t < k /\ fs[j] = es[t]
      <4>1. CASE j < i
        BY <1>1, <1>2, <2>3, <4>1
      <4>2. CASE ~ (j < i)
        <5>1. j + 1 \in DOMAIN es /\ j + 1 < k /\ fs[j] = es[j + 1]
          BY <1>1, <1>2, <2>3, <4>2
        <5> QED BY <5>1
      <4> QED BY <4>1, <4>2
    <3> QED BY <1>3, <3>1 DEF FirstNamed
  <2>4. FirstNamed(fs, r, m)
    BY <1>3, <2>2, <2>3 DEF FirstNamed
  <2> HIDE DEF m
  <2> QED BY <2>2, <2>4, MapResolves
<1>4. ASSUME \A k \in DOMAIN es : M!Rid(es[k]) # r
      PROVE  M!Resolve(fs, r) = M!None
  <2>1. \A j \in DOMAIN fs : \E t \in DOMAIN es : fs[j] = es[t]
    BY <1>1, <1>2
  <2> QED BY <1>4, <2>1, MapResolves
<1> QED BY <1>1, <1>3, <1>4, MapSelects

(* The same for an entry that is written in place, unless it gets the name. *)
LEMMA MapSetKeeps ==
  ASSUME NEW es \in Seq(M!Row), NEW i \in DOMAIN es, NEW x \in M!Row,
         NEW r, r # M!NoCode, r # M!Rid(es[i]), r # M!Rid(x)
  PROVE  /\ [es EXCEPT ![i] = x] \in Seq(M!Row) /\ Len([es EXCEPT ![i] = x]) = Len(es)
         /\ M!Resolve([es EXCEPT ![i] = x], r) = M!Resolve(es, r)
<1> DEFINE fs == [es EXCEPT ![i] = x]
<1>1. fs \in Seq(M!Row) /\ Len(fs) = Len(es) /\ DOMAIN fs = DOMAIN es
  OBVIOUS
<1>2. ASSUME NEW j \in DOMAIN es
      PROVE  fs[j] = es[j] \/ (M!Rid(fs[j]) # r /\ M!Rid(es[j]) # r)
  <2>1. CASE j = i
    <3>1. fs[i] = x
      OBVIOUS
    <3> HIDE DEF fs
    <3> QED BY <2>1, <3>1
  <2>2. CASE j # i
    BY <2>2
  <2> QED BY <2>1, <2>2
<1> HIDE DEF fs
<1>3. ASSUME NEW k \in DOMAIN es, FirstNamed(es, r, k)
      PROVE  M!Resolve(fs, r) = LeadsTo(es[k])
  <2>1. FirstNamed(fs, r, k) /\ fs[k] = es[k]
    BY <1>1, <1>2, <1>3 DEF FirstNamed
  <2> QED BY <1>1, <2>1, MapResolves
<1>4. ASSUME \A k \in DOMAIN es : M!Rid(es[k]) # r
      PROVE  M!Resolve(fs, r) = M!None
  BY <1>1, <1>2, <1>4, MapResolves
<1>5. M!Resolve(fs, r) = M!Resolve(es, r)
  BY <1>3, <1>4, MapSelects
<1> QED BY <1>1, <1>5 DEF fs

(* What is added at the end diverts no name that was known.                *)
LEMMA MapAddKeeps ==
  ASSUME NEW es \in Seq(M!Row), NEW cs \in Seq(M!Row)
  PROVE  /\ es \o cs \in Seq(M!Row) /\ Len(es \o cs) = Len(es) + Len(cs)
         /\ \A r : r # M!NoCode /\ M!Resolve(es, r) # M!None => M!Resolve(es \o cs, r) = M!Resolve(es, r)
         /\ \A r : r # M!NoCode /\ (\A j \in DOMAIN cs : M!Rid(cs[j]) # r)
               => M!Resolve(es \o cs, r) = M!Resolve(es, r)
<1>1. PICK fs \in Seq(M!Row) :
        /\ fs = es \o cs /\ Len(fs) = Len(es) + Len(cs)
        /\ \A j \in 1..(Len(es) + Len(cs)) : fs[j] = IF j <= Len(es) THEN es[j] ELSE cs[j - Len(es)]
  <2>1. /\ es \o cs \in Seq(M!Row) /\ Len(es \o cs) = Len(es) + Len(cs)
        /\ \A j \in 1..(Len(es) + Len(cs)) : (es \o cs)[j] = IF j <= Len(es) THEN es[j] ELSE cs[j - Len(es)]
    BY ConcatProperties
  <2> QED BY <2>1, Zenon
<1>2. /\ DOMAIN es = 1..Len(es) /\ DOMAIN cs = 1..Len(cs) /\ DOMAIN fs = 1..(Len(es) + Len(cs))
      /\ Len(es) \in Nat /\ Len(cs) \in Nat
  BY <1>1
<1>3. \A j \in DOMAIN es : j \in DOMAIN fs /\ fs[j] = es[j]
  BY <1>1, <1>2
<1>4. ASSUME NEW r, r # M!NoCode, NEW k \in DOMAIN es, FirstNamed(es, r, k)
      PROVE  M!Resolve(fs, r) = LeadsTo(es[k])
  <2>1. ASSUME NEW j \in DOMAIN fs, j < k PROVE M!Rid(fs[j]) # r
    <3>1. j \in DOMAIN es
      BY <1>2, <2>1
    <3> QED BY <1>3, <1>4, <2>1, <3>1 DEF FirstNamed
  <2>2. FirstNamed(fs, r, k)
    BY <1>3, <1>4, <2>1 DEF FirstNamed
  <2> QED BY <1>3, <1>4, <2>2, MapResolves
<1>5. ASSUME NEW r, r # M!NoCode, M!Resolve(es, r) # M!None PROVE M!Resolve(fs, r) = M!Resolve(es, r)
  BY <1>4, <1>5, MapSelects
<1>6. ASSUME NEW r, r # M!NoCode, \A j \in DOMAIN cs : M!Rid(cs[j]) # r
      PROVE  M!Resolve(fs, r) = M!Resolve(es, r)
  <2>1. CASE M!Resolve(es, r) # M!None
    BY <1>5, <1>6, <2>1
  <2>2. CASE M!Resolve(es, r) = M!None
    <3>1. \A j \in DOMAIN es : M!Rid(es[j]) # r
      BY <1>6, <2>2, MapSelects, MapLeads
    <3>2. ASSUME NEW j \in DOMAIN fs PROVE M!Rid(fs[j]) # r
      <4>1. CASE j <= Len(es)
        BY <1>1, <1>2, <3>1, <4>1
      <4>2. CASE ~ (j <= Len(es))
        <5>1. j - Len(es) \in DOMAIN cs /\ fs[j] = cs[j - Len(es)]
          BY <1>1, <1>2, <4>2
        <5> QED BY <1>6, <5>1
      <4> QED BY <4>1, <4>2
    <3> QED BY <1>6, <2>2, <3>2, MapResolves
  <2> QED BY <2>1, <2>2
<1> QED BY <1>1, <1>5, <1>6

(* The four cases of installation_map_upsert.                              *)
LEMMA MapUpsert ==
  ASSUME NEW es \in Seq(M!Row), Len(es) <= mMaxEntries, NEW x \in M!Row
  PROVE  /\ M!Upsert(es, x) \in Seq(M!Row) /\ Len(M!Upsert(es, x)) <= mMaxEntries
         /\ LET i == M!Find(es, x.node, x.kind, x.ch, x.local)
                was == IF i = 0 THEN {} ELSE {M!Rid(es[i])}
            IN  \A r : r # M!NoCode /\ r \notin was \cup {M!Rid(x)} => M!Resolve(M!Upsert(es, x), r) = M!Resolve(es, r)
<1> DEFINE i == M!Find(es, x.node, x.kind, x.ch, x.local)
           fs == M!Upsert(es, x)
           Goes == x.global = M!NoCode /\ ~ x.named
<1>0. Len(es) \in Nat /\ DOMAIN es = 1..Len(es) /\ mMaxEntries \in Nat /\ i \in {0} \cup DOMAIN es
  BY MapFinds, MapAssumption DEF M!ConstantsOK
<1>1. /\ Goes /\ i # 0 => fs = M!RemoveAt(es, i)
      /\ Goes /\ i = 0 => fs = es
      /\ ~ Goes /\ i # 0 => fs = [es EXCEPT ![i] = x]
      /\ ~ Goes /\ i = 0 => fs = IF Len(es) < mMaxEntries THEN Append(es, x) ELSE es
  BY DEF M!Upsert
<1> HIDE DEF i, fs, Goes
<1> SUFFICES /\ fs \in Seq(M!Row) /\ Len(fs) <= mMaxEntries
             /\ \A r : r # M!NoCode /\ (i # 0 => r # M!Rid(es[i])) /\ r # M!Rid(x)
                   => M!Resolve(fs, r) = M!Resolve(es, r)
  BY DEF i, fs
<1>2. CASE Goes /\ i # 0
  <2>1. i \in DOMAIN es /\ fs = M!RemoveAt(es, i)
    BY <1>0, <1>1, <1>2
  <2>2. fs \in Seq(M!Row) /\ Len(fs) = Len(es) - 1
    BY <2>1, MapRemoved
  <2>3. ASSUME NEW r, r # M!NoCode, r # M!Rid(es[i]) PROVE M!Resolve(fs, r) = M!Resolve(es, r)
    BY <2>1, <2>3, MapRemoveKeeps
  <2> QED BY <1>0, <1>2, <2>2, <2>3
<1>3. CASE fs = es
  BY <1>3
<1>4. CASE ~ Goes /\ i # 0
  <2>1. i \in DOMAIN es /\ fs = [es EXCEPT ![i] = x]
    BY <1>0, <1>1, <1>4
  <2>2. fs \in Seq(M!Row) /\ Len(fs) = Len(es)
    BY <2>1
  <2>3. ASSUME NEW r, r # M!NoCode, r # M!Rid(es[i]), r # M!Rid(x) PROVE M!Resolve(fs, r) = M!Resolve(es, r)
    BY <2>1, <2>3, MapSetKeeps
  <2> QED BY <1>4, <2>2, <2>3
<1>5. CASE Len(es) < mMaxEntries /\ fs = Append(es, x)
  <2> DEFINE cs == <<x>>
  <2>1. cs \in Seq(M!Row) /\ Len(cs) = 1 /\ DOMAIN cs = {1} /\ cs[1] = x
    OBVIOUS
  <2>2. fs = es \o cs
    BY <1>5, AppendIsConcat
  <2> HIDE DEF cs
  <2>3. fs \in Seq(M!Row) /\ Len(fs) = Len(es) + 1
    BY <2>1, <2>2, MapAddKeeps
  <2>4. ASSUME NEW r, r # M!NoCode, r # M!Rid(x) PROVE M!Resolve(fs, r) = M!Resolve(es, r)
    BY <2>1, <2>2, <2>4, MapAddKeeps
  <2> QED BY <1>0, <1>5, <2>3, <2>4
<1> QED BY <1>1, <1>2, <1>3, <1>4, <1>5

(* The replacement of a node keeps every name and moves its channels.      *)
LEMMA MapRenames ==
  ASSUME NEW es \in Seq(M!Row), NEW old \in Nat, NEW new \in Nat
  PROVE  /\ M!Renamed(es, old, new) \in Seq(M!Row) /\ Len(M!Renamed(es, old, new)) = Len(es)
         /\ \A r : r # M!NoCode => M!Resolve(M!Renamed(es, old, new), r) = M!Moved(M!Resolve(es, r), old, new)
<1> DEFINE fs == M!Renamed(es, old, new)
<1>0. DOMAIN es = 1..Len(es) /\ Len(es) \in Nat /\ \A i \in DOMAIN es : es[i] \in M!Row
  OBVIOUS
<1>1. fs = [i \in 1..Len(es) |-> IF es[i].node = old THEN [es[i] EXCEPT !.node = new] ELSE es[i]]
  BY <1>0 DEF M!Renamed
<1> HIDE DEF fs
<1>2. ASSUME NEW i \in DOMAIN es
      PROVE  /\ fs[i] \in M!Row /\ M!Rid(fs[i]) = M!Rid(es[i])
             /\ LeadsTo(fs[i]) = M!Moved(LeadsTo(es[i]), old, new)
  <2>1. CASE es[i].node = old
    <3>1. fs[i] = [es[i] EXCEPT !.node = new]
      BY <1>0, <1>1, <2>1
    <3>2. fs[i] \in M!Row /\ M!Rid(fs[i]) = M!Rid(es[i])
      BY <1>0, <3>1 DEF M!Row, M!Rid
    <3>3. LeadsTo(es[i]) # M!None
      BY <1>0, MapLeads
    <3>4. LeadsTo(fs[i]) = [LeadsTo(es[i]) EXCEPT !.node = new] /\ LeadsTo(es[i]).node = old
      BY <1>0, <2>1, <3>1 DEF M!Row, LeadsTo
    <3> QED BY <3>2, <3>3, <3>4 DEF M!Moved
  <2>2. CASE es[i].node # old
    <3>1. fs[i] = es[i]
      BY <1>0, <1>1, <2>2
    <3>2. LeadsTo(es[i]).node # old
      BY <2>2 DEF LeadsTo
    <3> QED BY <1>0, <3>1, <3>2 DEF M!Moved
  <2> QED BY <2>1, <2>2
<1>3. fs \in Seq(M!Row) /\ Len(fs) = Len(es) /\ DOMAIN fs = DOMAIN es
  <2>1. fs \in [1..Len(es) -> M!Row]
    BY <1>0, <1>1, <1>2
  <2> QED BY <1>0, <2>1
<1>4. ASSUME NEW r, r # M!NoCode PROVE M!Resolve(fs, r) = M!Moved(M!Resolve(es, r), old, new)
  <2>1. CASE \A i \in DOMAIN es : M!Rid(es[i]) # r
    <3>1. M!Resolve(es, r) = M!None /\ M!Resolve(fs, r) = M!None
      BY <1>2, <1>3, <1>4, <2>1, MapResolves
    <3> QED BY <3>1 DEF M!Moved
  <2>2. ASSUME NEW k \in DOMAIN es, FirstNamed(es, r, k) PROVE M!Resolve(fs, r) = M!Moved(M!Resolve(es, r), old, new)
    <3>1. FirstNamed(fs, r, k)
      BY <1>2, <1>3, <2>2 DEF FirstNamed
    <3>2. M!Resolve(es, r) = LeadsTo(es[k]) /\ M!Resolve(fs, r) = LeadsTo(fs[k])
      BY <1>3, <1>4, <2>2, <3>1, MapResolves
    <3> QED BY <1>2, <3>2
  <2> QED BY <1>4, <2>1, <2>2, MapSelects
<1> QED BY <1>3, <1>4 DEF fs

(* A clone adds entries at the end.                                        *)
LEMMA MapClones ==
  ASSUME NEW es \in Seq(M!Row), Len(es) <= mMaxEntries, NEW old \in Nat, NEW new \in Nat
  PROVE  /\ M!Cloned(es, old, new) \in Seq(M!Row) /\ Len(M!Cloned(es, old, new)) <= mMaxEntries
         /\ \A r : r # M!NoCode /\ M!Resolve(es, r) # M!None => M!Resolve(M!Cloned(es, old, new), r) = M!Resolve(es, r)
<1> DEFINE from == {i \in DOMAIN es : es[i].node = old}
           p == M!InOrder(from)
           room == mMaxEntries - Len(es)
           n == IF Cardinality(from) < room THEN Cardinality(from) ELSE room
           cs == [i \in 1..n |-> [es[p[i]] EXCEPT !.node = new, !.global = M!NoCode]]
<1>0. DOMAIN es = 1..Len(es) /\ Len(es) \in Nat /\ mMaxEntries \in Nat /\ \A i \in DOMAIN es : es[i] \in M!Row
  BY MapAssumption DEF M!ConstantsOK
<1>1. M!Cloned(es, old, new) = es \o cs
  <2>1. M!Cardinality(from) = Cardinality(from)
    BY DEF M!Cardinality, Cardinality
  <2> QED BY <2>1, Zenon DEF M!Cloned
<1>2. from \in SUBSET Nat /\ IsFiniteSet(from)
  <2>1. IsFiniteSet(1..Len(es))
    BY <1>0, FS_Interval
  <2>2. from \in SUBSET (1..Len(es))
    BY <1>0
  <2> QED BY <2>1, <2>2, FS_Subset
<1>3. Cardinality(from) \in Nat /\ p \in [1..Cardinality(from) -> from]
  BY <1>2, MapInOrder
<1>4. n \in Nat /\ n <= room /\ n <= Cardinality(from)
  BY <1>0, <1>3
<1> HIDE DEF p, n
<1>5. ASSUME NEW i \in 1..n PROVE [es[p[i]] EXCEPT !.node = new, !.global = M!NoCode] \in M!Row
  <2>1. i \in 1..Cardinality(from)
    BY <1>3, <1>4
  <2>2. es[p[i]] \in M!Row
    BY <1>0, <1>3, <2>1
  <2> QED BY <2>2 DEF M!Row, M!Codes
<1>6. cs \in Seq(M!Row) /\ Len(cs) = n
  <2>1. cs \in [1..n -> M!Row]
    BY <1>5
  <2> HIDE DEF cs
  <2> QED BY <1>4, <2>1
<1> HIDE DEF cs
<1>7. /\ es \o cs \in Seq(M!Row) /\ Len(es \o cs) = Len(es) + n
      /\ \A r : r # M!NoCode /\ M!Resolve(es, r) # M!None => M!Resolve(es \o cs, r) = M!Resolve(es, r)
  BY <1>6, MapAddKeeps
<1>8. Len(es) + n <= mMaxEntries
  BY <1>0, <1>4
<1> QED BY <1>1, <1>7, <1>8

-----------------------------------------------------------------------------
(* The table and its blob hold entries, no more than there is room for; a  *)
(* blob of the first version may hold more.                                *)
MapTable(es) == es \in Seq(M!Row) /\ Len(es) <= mMaxEntries
MapBlob(f) ==
    /\ f = [ver |-> f.ver, entries |-> f.entries] /\ f.ver \in {1, 2}
    /\ f.entries \in Seq(M!Row) /\ (f.ver = 2 => Len(f.entries) <= mMaxEntries)
MapInv == MapTable(mEntries) /\ MapBlob(mFlash)

(* installation_map_load.                                                  *)
LEMMA MapLoads ==
  ASSUME NEW f, MapBlob(f)
  PROVE  MapTable(M!Loaded(f)) /\ MapBlob([ver |-> 2, entries |-> M!Loaded(f)])
<1> DEFINE es == f.entries
           n == M!Min({Len(es), mMaxV1, mMaxEntries})
<1>0. mMaxV1 \in Nat /\ mMaxEntries \in Nat /\ es \in Seq(M!Row) /\ Len(es) \in Nat
  BY MapAssumption DEF M!ConstantsOK, MapBlob
<1>1. MapTable(M!Loaded(f))
  <2>1. CASE f.ver = 1
    <3>1. n \in Nat /\ n <= Len(es) /\ n <= mMaxEntries
      <4> DEFINE s == {Len(es), mMaxV1, mMaxEntries}
      <4>1. \E m \in s : \A t \in s : m <= t
        BY <1>0, MapLowest
      <4> HIDE DEF s
      <4>2. M!Min(s) \in s /\ \A t \in s : M!Min(s) <= t
        BY <4>1 DEF M!Min
      <4> QED BY <1>0, <4>2 DEF s
    <3>2. M!Loaded(f) = SubSeq(es, 1, n)
      BY <2>1 DEF M!Loaded
    <3> HIDE DEF n
    <3>3. SubSeq(es, 1, n) \in Seq(M!Row) /\ Len(SubSeq(es, 1, n)) = n
      BY <1>0, <3>1
    <3> QED BY <3>1, <3>2, <3>3 DEF MapTable
  <2>2. CASE f.ver # 1
    BY <2>2 DEF M!Loaded, MapBlob, MapTable
  <2> QED BY <2>1, <2>2
<1>2. MapBlob([ver |-> 2, entries |-> M!Loaded(f)])
  BY <1>1 DEF MapBlob, MapTable
<1> QED BY <1>1, <1>2

(* It holds when the blob was loaded at the first start.                   *)
LEMMA MapInit == M!Init => MapInv
<1> SUFFICES ASSUME M!Init PROVE MapInv
  OBVIOUS
<1>1. mFlash \in mFound /\ mEntries = M!Loaded(mFlash)
  BY DEF M!Init
<1>2. MapBlob(mFlash)
  BY <1>1, MapAssumption DEF M!ConstantsOK, MapBlob
<1> QED BY <1>1, <1>2, MapLoads DEF MapInv

(* Saved writes a table that is one.                                       *)
LEMMA MapSaves ==
  ASSUME MapInv, NEW es, MapTable(es), M!Saved(es)
  PROVE  MapInv'
<1>1. mEntries' = es /\ (mFlash' = [ver |-> 2, entries |-> es] \/ mFlash' = mFlash)
  BY DEF M!Saved
<1>2. MapBlob([ver |-> 2, entries |-> es])
  BY DEF MapBlob, MapTable
<1>3. MapBlob(mFlash')
  BY <1>1, <1>2 DEF MapInv
<1> QED BY <1>1, <1>3 DEF MapInv, MapTable, MapBlob

(* What requests and templates write is an entry.                          *)
LEMMA MapRow ==
  /\ \A x \in M!Asked : x \in M!Row
  /\ \A n \in mNodes : /\ n \in Nat
                       /\ M!Channel(n, "output", 0, "Q0") \in M!Row
                       /\ M!Channel(n, "output", 1, "Q1") \in M!Row
                       /\ M!Channel(n, "input", 0, "I0") \in M!Row
<1>1. mNodes \subseteq Nat /\ mChannels \subseteq Nat /\ mLocals \subseteq M!Codes /\ mGlobals \subseteq M!Codes
  BY MapAssumption DEF M!ConstantsOK, M!Codes
<1>2. ASSUME NEW x \in M!Asked PROVE x \in M!Row
  BY <1>1 DEF M!Asked, M!Row
<1>3. M!NoCode \in M!Codes /\ "Q0" \in M!Codes /\ "Q1" \in M!Codes /\ "I0" \in M!Codes
  BY DEF M!Codes
<1> QED BY <1>1, <1>2, <1>3 DEF M!Row, M!Channel

(* Every request keeps it, and so does a restart.                          *)
LEMMA MapNext == MapInv /\ [M!Next]_(M!vars) => MapInv'
<1> SUFFICES ASSUME MapInv, [M!Next]_(M!vars) PROVE MapInv'
  OBVIOUS
<1>0. mEntries \in Seq(M!Row) /\ Len(mEntries) <= mMaxEntries
  BY DEF MapInv, MapTable
<1>1. ASSUME NEW x \in M!Asked, M!Save(x) PROVE MapInv'
  <2>1. MapTable(M!Upsert(mEntries, x))
    BY <1>0, MapRow, MapUpsert DEF MapTable
  <2> QED BY <1>1, <2>1, MapSaves DEF M!Save
<1>2. ASSUME NEW n \in mNodes, NEW template \in {"relay-node", "sensor-node"}, M!ApplyTemplate(n, template)
      PROVE  MapInv'
  <2> DEFINE q0 == M!Channel(n, "output", 0, "Q0")
             q1 == M!Channel(n, "output", 1, "Q1")
             i0 == M!Channel(n, "input", 0, "I0")
  <2>1. q0 \in M!Row /\ q1 \in M!Row /\ i0 \in M!Row
    BY MapRow
  <2>2. M!Saved(M!Upsert(M!Upsert(mEntries, q0), q1)) \/ M!Saved(M!Upsert(mEntries, i0))
    BY <1>2 DEF M!ApplyTemplate
  <2> HIDE DEF q0, q1, i0
  <2>3. MapTable(M!Upsert(mEntries, q0)) /\ MapTable(M!Upsert(mEntries, i0))
    BY <1>0, <2>1, MapUpsert DEF MapTable
  <2>4. MapTable(M!Upsert(M!Upsert(mEntries, q0), q1))
    BY <2>1, <2>3, MapUpsert DEF MapTable
  <2> QED BY <2>2, <2>3, <2>4, MapSaves
<1>3. ASSUME NEW old \in mNodes, NEW new \in mNodes, M!Replace(old, new) PROVE MapInv'
  <2>1. MapTable(M!Renamed(mEntries, old, new))
    BY <1>0, MapRow, MapRenames DEF MapTable
  <2> QED BY <1>3, <2>1, MapSaves DEF M!Replace
<1>4. ASSUME NEW old \in mNodes, NEW new \in mNodes, M!Clone(old, new) PROVE MapInv'
  <2>1. MapTable(M!Cloned(mEntries, old, new))
    BY <1>0, MapRow, MapClones DEF MapTable
  <2> QED BY <1>4, <2>1, MapSaves DEF M!Clone
<1>5. ASSUME NEW r \in M!Names, M!Actuate(r) PROVE MapInv'
  BY <1>5 DEF M!Actuate, MapInv, MapTable, MapBlob
<1>6. CASE M!Restart
  <2>1. mEntries' = M!Loaded(mFlash) /\ (mFlash' = [ver |-> 2, entries |-> M!Loaded(mFlash)] \/ mFlash' = mFlash)
    BY <1>6 DEF M!Restart
  <2>2. MapTable(M!Loaded(mFlash)) /\ MapBlob([ver |-> 2, entries |-> M!Loaded(mFlash)]) /\ MapBlob(mFlash)
    BY MapLoads DEF MapInv
  <2>3. MapTable(mEntries') /\ MapBlob(mFlash')
    BY <2>1, <2>2
  <2> QED BY <2>3 DEF MapInv, MapTable, MapBlob
<1>7. CASE UNCHANGED M!vars
  BY <1>7 DEF M!vars, MapInv, MapTable, MapBlob
<1> QED BY <1>1, <1>2, <1>3, <1>4, <1>5, <1>6, <1>7 DEF M!Next

(* What a step may do to the names.                                        *)
LEMMA MapStep ==
  ASSUME MapInv
  PROVE  /\ \A old, new \in mNodes :
              /\ M!Clone(old, new) => \A r \in M!Names : M!Resolve(mEntries, r) # M!None
                                         => M!Resolve(mEntries', r) = M!Resolve(mEntries, r)
              /\ M!Replace(old, new) => \A r \in M!Names :
                                         M!Resolve(mEntries', r) = M!Moved(M!Resolve(mEntries, r), old, new)
         /\ \A x \in M!Asked : M!Save(x) =>
              LET i == M!Find(mEntries, x.node, x.kind, x.ch, x.local)
                  was == IF i = 0 THEN {} ELSE {M!Rid(mEntries[i])}
              IN  \A r \in M!Names \ (was \cup {M!Rid(x)}) : M!Resolve(mEntries', r) = M!Resolve(mEntries, r)
<1>0. mEntries \in Seq(M!Row) /\ Len(mEntries) <= mMaxEntries /\ \A r \in M!Names : r # M!NoCode
  BY DEF MapInv, MapTable, M!Names
<1>1. ASSUME NEW old \in mNodes, NEW new \in mNodes, M!Clone(old, new), NEW r \in M!Names,
             M!Resolve(mEntries, r) # M!None
      PROVE  M!Resolve(mEntries', r) = M!Resolve(mEntries, r)
  <2>1. mEntries' = M!Cloned(mEntries, old, new)
    BY <1>1 DEF M!Clone, M!Saved
  <2> QED BY <1>0, <1>1, <2>1, MapRow, MapClones
<1>2. ASSUME NEW old \in mNodes, NEW new \in mNodes, M!Replace(old, new), NEW r \in M!Names
      PROVE  M!Resolve(mEntries', r) = M!Moved(M!Resolve(mEntries, r), old, new)
  <2>1. mEntries' = M!Renamed(mEntries, old, new)
    BY <1>2 DEF M!Replace, M!Saved
  <2> QED BY <1>0, <2>1, MapRow, MapRenames
<1>3. ASSUME NEW x \in M!Asked, M!Save(x)
      PROVE  LET i == M!Find(mEntries, x.node, x.kind, x.ch, x.local)
                 was == IF i = 0 THEN {} ELSE {M!Rid(mEntries[i])}
             IN  \A r \in M!Names \ (was \cup {M!Rid(x)}) : M!Resolve(mEntries', r) = M!Resolve(mEntries, r)
  <2>1. mEntries' = M!Upsert(mEntries, x)
    BY <1>3 DEF M!Save, M!Saved
  <2>2. x \in M!Row
    BY MapRow
  <2> QED BY <1>0, <2>1, <2>2, MapUpsert
<1> QED BY <1>1, <1>2, <1>3

(* http_server.c, installation map: for any nodes, channels, codes and     *)
(* sizes of the table, a command goes where its name went before until     *)
(* someone edits that name.  A clone diverts no name that was known, a     *)
(* replacement takes every name of the old node to the same channel of the *)
(* new one, and an edit of one entry moves no name but its old and its new *)
(* one.                                                                    *)
THEOREM NamesLeadOn == M!Spec => NamesStay
<1>1. MapInv /\ [M!Next]_(M!vars) => MapInv'
  BY MapNext
<1>2. MapInv /\ [M!Next]_(M!vars) =>
        [/\ \A old, new \in mNodes :
              /\ M!Clone(old, new) => \A r \in M!Names : M!Resolve(mEntries, r) # M!None
                                         => M!Resolve(mEntries', r) = M!Resolve(mEntries, r)
              /\ M!Replace(old, new) => \A r \in M!Names :
                                         M!Resolve(mEntries', r) = M!Moved(M!Resolve(mEntries, r), old, new)
         /\ \A x \in M!Asked : M!Save(x) =>
              LET i == M!Find(mEntries, x.node, x.kind, x.ch, x.local)
                  was == IF i = 0 THEN {} ELSE {M!Rid(mEntries[i])}
              IN  \A r \in M!Names \ (was \cup {M!Rid(x)}) : M!Resolve(mEntries', r) = M!Resolve(mEntries, r)]_(M!vars)
  BY MapStep
<1> QED BY MapInit, <1>1, <1>2, PTL DEF M!Spec, NamesStay, M!NamesStay

-----------------------------------------------------------------------------
(***************************************************************************)
(* The ladder engine: what a scan does, instruction by instruction.        *)
(***************************************************************************)

(* The machine before the first instruction.                               *)
LadFirst == [acc |-> FALSE, stk |-> <<>>, val |-> lVal, tim |-> lTim, cnt |-> lCnt, since |-> lSince]

(* The machines of a scan up to its n-th instruction.                      *)
LadTrace(p, n, f) == f = [k \in 0..n |-> IF k = 0 THEN LadFirst ELSE L!Exec(f[k - 1], p[k])]

(* One instruction more.                                                   *)
LEMMA LadLonger ==
  ASSUME NEW p, NEW n \in Nat, NEW f, LadTrace(p, n, f)
  PROVE  \E g : LadTrace(p, n + 1, g)
<1> DEFINE g == [k \in 0..(n + 1) |-> IF k <= n THEN f[k] ELSE L!Exec(f[n], p[n + 1])]
<1>1. f = [k \in 0..n |-> IF k = 0 THEN LadFirst ELSE L!Exec(f[k - 1], p[k])]
  BY DEF LadTrace
<1>2. \A k \in 0..n : g[k] = f[k]
  OBVIOUS
<1>3. g[n + 1] = L!Exec(f[n], p[n + 1])
  OBVIOUS
<1>4. g = [k \in 0..(n + 1) |-> g[k]]
  OBVIOUS
<1> HIDE DEF g
<1>5. ASSUME NEW k \in 0..(n + 1)
      PROVE  g[k] = IF k = 0 THEN LadFirst ELSE L!Exec(g[k - 1], p[k])
  <2>1. CASE k = 0
    <3>1. 0 \in 0..n /\ f[0] = LadFirst
      BY <1>1
    <3> QED BY <1>2, <2>1, <3>1
  <2>2. CASE k # 0 /\ k # n + 1
    <3>1. k \in 0..n /\ k - 1 \in 0..n
      BY <2>2
    <3>2. f[k] = L!Exec(f[k - 1], p[k])
      BY <1>1, <2>2, <3>1
    <3> QED BY <1>2, <2>2, <3>1, <3>2
  <2>3. CASE k # 0 /\ k = n + 1
    <3>1. n \in 0..n /\ k - 1 = n
      BY <2>3
    <3> QED BY <1>2, <1>3, <2>3, <3>1
  <2> QED BY <2>1, <2>2, <2>3
<1>6. LadTrace(p, n + 1, g)
  BY <1>4, <1>5 DEF LadTrace
<1> QED BY <1>6

(* There is a trace of every length: a least length without one would      *)
(* follow one that has it.                                                 *)
LEMMA LadTraces ==
  ASSUME NEW p, NEW n \in Nat
  PROVE  \E f : LadTrace(p, n, f)
<1> DEFINE bad == {k \in Nat : ~ \E f : LadTrace(p, k, f)}
<1>1. SUFFICES ASSUME bad # {} PROVE FALSE
  OBVIOUS
<1>2. PICK k \in bad : \A t \in bad : k <= t
  BY <1>1, MapLowest
<1>3. CASE k = 0
  <2> DEFINE f == [i \in 0..0 |-> LadFirst]
  <2>1. f = [i \in 0..0 |-> IF i = 0 THEN LadFirst ELSE L!Exec(f[i - 1], p[i])]
    OBVIOUS
  <2>2. LadTrace(p, 0, f)
    BY <2>1 DEF LadTrace
  <2> HIDE DEF f
  <2> QED BY <1>2, <1>3, <2>2
<1>4. CASE k # 0
  <2>1. k - 1 \in Nat /\ k - 1 \notin bad /\ (k - 1) + 1 = k
    BY <1>2, <1>4
  <2>2. PICK f : LadTrace(p, k - 1, f)
    BY <2>1
  <2>3. \E g : LadTrace(p, (k - 1) + 1, g)
    BY <2>1, <2>2, LadLonger
  <2> QED BY <1>2, <2>1, <2>3
<1> QED BY <1>3, <1>4

(* So a scan starts with what the engine keeps and goes on by one          *)
(* instruction at a time.                                                  *)
LEMMA LadRuns ==
  ASSUME NEW p, Len(p) \in Nat
  PROVE  /\ L!Run(p)[0] = LadFirst
         /\ \A k \in 1..Len(p) : L!Run(p)[k] = L!Exec(L!Run(p)[k - 1], p[k])
<1>1. \E f : f = [k \in 0..Len(p) |-> IF k = 0 THEN LadFirst ELSE L!Exec(f[k - 1], p[k])]
  BY LadTraces DEF LadTrace
<1>2. L!Run(p) = CHOOSE f : f = [k \in 0..Len(p) |-> IF k = 0 THEN LadFirst ELSE L!Exec(f[k - 1], p[k])]
  BY Zenon DEF L!Run, LadFirst
<1> DEFINE r == L!Run(p)
<1>3. r = [k \in 0..Len(p) |-> IF k = 0 THEN LadFirst ELSE L!Exec(r[k - 1], p[k])]
  BY <1>1, <1>2, Zenon
<1> HIDE DEF r
<1>4. /\ r[0] = LadFirst
      /\ \A k \in 1..Len(p) : r[k] = L!Exec(r[k - 1], p[k])
  BY <1>3
<1> QED BY <1>4 DEF r

(* The parts of a machine; timers and history of its entries.              *)
LadMachine(m) ==
    /\ m = [acc |-> m.acc, stk |-> m.stk, val |-> m.val, tim |-> m.tim, cnt |-> m.cnt, since |-> m.since]
    /\ m.val = [t \in lTags |-> m.val[t]]
    /\ m.tim = [t \in lTags |-> m.tim[t]]
    /\ m.since = [t \in lTags |-> m.since[t]]
    /\ \A t \in lTags : m.since[t] \in Int /\ m.since[t] <= lNow

LadTimer == [on : BOOLEAN, last : BOOLEAN, start : Int]

(* A TON that runs was started after its rung went on.                     *)
LadTon(m, t) ==
    /\ m.tim[t] \in LadTimer
    /\ m.tim[t].on => m.since[t] # L!Never /\ m.since[t] <= m.tim[t].start

(* A TON that passes power has waited.                                     *)
LadWaited(m, t, n) == m.val[t] = 1 => m.since[t] # L!Never /\ lNow - m.since[t] >= n

(* An entry no instruction in between wrote.                               *)
LadSame(m, w, t) == w.val[t] = m.val[t] /\ w.tim[t] = m.tim[t] /\ w.since[t] = m.since[t]

(* An instruction that writes one entry.                                   *)
LadWrote(m, t, v, ti, s, w) ==
    /\ w = [acc |-> w.acc, stk |-> w.stk, val |-> w.val, tim |-> w.tim, cnt |-> w.cnt, since |-> w.since]
    /\ w.val = [m.val EXCEPT ![t] = v] /\ w.tim = [m.tim EXCEPT ![t] = ti] /\ w.since = [m.since EXCEPT ![t] = s]

LEMMA LadPut ==
  ASSUME NEW m, LadMachine(m), NEW t \in lTags, NEW v, NEW ti, NEW s \in Int, s <= lNow, NEW w, LadWrote(m, t, v, ti, s, w)
  PROVE  /\ LadMachine(w)
         /\ w.val[t] = v /\ w.tim[t] = ti /\ w.since[t] = s
         /\ \A u \in lTags : u # t => LadSame(m, w, u)
<1>1. /\ w = [acc |-> w.acc, stk |-> w.stk, val |-> w.val, tim |-> w.tim, cnt |-> w.cnt, since |-> w.since]
      /\ w.val = [m.val EXCEPT ![t] = v] /\ w.tim = [m.tim EXCEPT ![t] = ti]
      /\ w.since = [m.since EXCEPT ![t] = s]
  BY DEF LadWrote
<1>2. /\ w.val[t] = v /\ w.tim[t] = ti /\ w.since[t] = s
      /\ \A u \in lTags : u # t => LadSame(m, w, u)
  BY <1>1 DEF LadMachine, LadSame
<1>3. ASSUME NEW u \in lTags PROVE w.since[u] \in Int /\ w.since[u] <= lNow
  BY <1>2 DEF LadMachine, LadSame
<1>4. /\ w.val = [u \in lTags |-> w.val[u]] /\ w.tim = [u \in lTags |-> w.tim[u]]
      /\ w.since = [u \in lTags |-> w.since[u]]
  BY <1>1 DEF LadMachine
<1> QED BY <1>1, <1>2, <1>3, <1>4 DEF LadMachine

(* A TON does what it should.                                              *)
LEMMA LadTonExec ==
  ASSUME lNow \in Nat, NEW m, LadMachine(m), NEW t \in lTags, NEW n
  PROVE  /\ LadMachine(L!Ton(m, t, n))
         /\ LadTon(m, t) /\ n \in Int => LadTon(L!Ton(m, t, n), t) /\ LadWaited(L!Ton(m, t, n), t, n)
         /\ \A u \in lTags : u # t => LadSame(m, L!Ton(m, t, n), u)
<1> DEFINE start == IF m.tim[t].on THEN m.tim[t].start ELSE lNow
           done == m.acc /\ lNow - start >= n
           tim == IF m.acc THEN [m.tim[t] EXCEPT !.on = TRUE, !.start = start] ELSE [m.tim[t] EXCEPT !.on = FALSE]
           since == L!Since(m, t, m.acc)
           w == L!Ton(m, t, n)
<1>1. LadWrote(m, t, L!Bit(done), tim, since, w)
  <2>1. w = [m EXCEPT !.tim = [m.tim EXCEPT ![t] = tim], !.val = [m.val EXCEPT ![t] = L!Bit(done)],
                      !.acc = done, !.since = [m.since EXCEPT ![t] = since]]
    BY DEF L!Ton, LadMachine
  <2> HIDE DEF done, tim, since, w
  <2> QED BY <2>1 DEF LadMachine, LadWrote
<1>2. m.since[t] \in Int /\ m.since[t] <= lNow
  BY DEF LadMachine
<1>3. since \in Int /\ since <= lNow
  BY <1>2 DEF L!Since, L!Never
<1>4. /\ LadMachine(w)
      /\ w.val[t] = L!Bit(done) /\ w.tim[t] = tim /\ w.since[t] = since
      /\ \A u \in lTags : u # t => LadSame(m, w, u)
  <2> HIDE DEF done, tim, since, w
  <2> QED BY <1>1, <1>3, LadPut
<1>5. ASSUME LadTon(m, t), n \in Int PROVE LadTon(w, t) /\ LadWaited(w, t, n)
  <2>1. start \in Int
    BY <1>5 DEF LadTon, LadTimer
  <2>2. m.acc => since # L!Never /\ since <= start
    BY <1>2, <1>5, <2>1 DEF L!Since, LadTon, L!Never
  <2>3. tim \in LadTimer /\ (tim.on => m.acc = TRUE /\ tim.start = start)
    BY <1>5, <2>1 DEF LadTon, LadTimer
  <2>4. L!Bit(done) = 1 => m.acc /\ lNow - start >= n
    BY DEF L!Bit
  <2> HIDE DEF tim, since, start
  <2>5. L!Bit(done) = 1 => since # L!Never /\ lNow - since >= n
    BY <1>3, <1>5, <2>1, <2>2, <2>4
  <2> HIDE DEF done, w
  <2> QED BY <1>4, <2>2, <2>3, <2>5 DEF LadTon, LadWaited
<1> QED BY <1>4, <1>5 DEF w

(* What the other instructions leave alone; a reset clears its entry.      *)
LEMMA LadExec ==
  ASSUME lNow \in Nat, NEW m, LadMachine(m), NEW i, i[1] \in L!Ops, i[2] \in lTags, i[1] # "TON"
  PROVE  /\ LadMachine(L!Exec(m, i))
         /\ \A u \in lTags : \/ LadSame(m, L!Exec(m, i), u)
                             \/ /\ u = L!Writes(i) /\ i[1] \notin L!Contacts \cup L!Branches \cup {"RST"}
                             \/ /\ u = i[2] /\ i[1] = "RST"
                                /\ L!Exec(m, i).val[u] = 0 /\ L!Exec(m, i).tim[u] = L!Off[u]
<1> DEFINE t == i[2]
           w == L!Exec(m, i)
           Goal == /\ LadMachine(w)
                   /\ \A u \in lTags : \/ LadSame(m, w, u)
                                       \/ /\ u = L!Writes(i) /\ i[1] \notin L!Contacts \cup L!Branches \cup {"RST"}
                                       \/ /\ u = i[2] /\ i[1] = "RST" /\ w.val[u] = 0 /\ w.tim[u] = L!Off[u]
<1> SUFFICES Goal
  OBVIOUS
<1>1. CASE i[1] \in L!Contacts
  <2>1. w = [m EXCEPT !.acc = L!Contact(i[1], m.acc, m.val[t])]
    BY <1>1 DEF L!Exec, L!Contacts, L!Branches, L!Operations
  <2> QED BY <2>1 DEF LadMachine, LadSame
<1>2. CASE i[1] \in L!Branches
  <2>1. w = L!Branch(m, i[1])
    BY <1>2 DEF L!Exec, L!Contacts, L!Branches, L!Operations
  <2> QED BY <2>1 DEF L!Branch, LadMachine, LadSame
<1>3. CASE i[1] \in {"ST", "SET"}
  <2>1. w = L!Coil(m, i[1], t)
    BY <1>3 DEF L!Exec, L!Contacts, L!Branches, L!Operations
  <2> QED BY <1>3, <2>1 DEF L!Coil, LadMachine, LadSame, L!Writes, L!Operations, L!Contacts, L!Branches
<1>4. CASE i[1] = "RST"
  <2>1. w = L!Coil(m, i[1], t)
    BY <1>4 DEF L!Exec, L!Contacts, L!Branches, L!Operations
  <2>2. CASE w = m
    BY <2>2 DEF LadSame
  <2>3. CASE m.acc
    <3> DEFINE c == [m.cnt EXCEPT ![t] = L!Zero[t]]
    <3>1. w = [acc |-> m.acc, stk |-> m.stk, val |-> [m.val EXCEPT ![t] = 0], tim |-> [m.tim EXCEPT ![t] = L!Off[t]],
               cnt |-> c, since |-> [m.since EXCEPT ![t] = L!Never]]
      BY <1>4, <2>1, <2>3 DEF L!Coil, LadMachine
    <3>2. L!Never \in Int /\ L!Never <= lNow
      BY DEF L!Never
    <3> HIDE DEF w, c
    <3>w. LadWrote(m, t, 0, L!Off[t], L!Never, w)
      BY <3>1 DEF LadWrote
    <3>3. LadMachine(w) /\ w.val[t] = 0 /\ w.tim[t] = L!Off[t] /\ \A u \in lTags : u # t => LadSame(m, w, u)
      <4> DEFINE ti == L!Off[t]
      <4>1. LadWrote(m, t, 0, ti, L!Never, w)
        BY <3>w
      <4>2. t \in lTags
        OBVIOUS
      <4> HIDE DEF ti, t
      <4>3. LadMachine(w) /\ w.val[t] = 0 /\ w.tim[t] = ti /\ \A u \in lTags : u # t => LadSame(m, w, u)
        BY <3>2, <4>1, <4>2, LadPut
      <4> QED BY <4>3 DEF ti
    <3> QED BY <1>4, <3>3
  <2> QED BY <1>4, <2>1, <2>2, <2>3 DEF L!Coil
<1>o. /\ i[1] \in {"TOF", "CTU", "CTD"} => L!Writes(i) = t /\ i[1] \notin L!Contacts \cup L!Branches \cup {"RST"}
      /\ i[1] \in L!Operations => L!Writes(i) = i[5] /\ i[1] \notin L!Contacts \cup L!Branches \cup {"RST"}
      /\ m.since[t] \in Int /\ m.since[t] <= lNow
  BY DEF L!Writes, L!Operations, L!Contacts, L!Branches, LadMachine
<1>5. CASE i[1] = "TOF"
  <2> DEFINE begins == ~m.acc /\ m.tim[t].last
             start == IF begins THEN lNow ELSE m.tim[t].start
             runs == ~m.acc /\ (begins \/ m.tim[t].on)
             out == m.acc \/ (runs /\ lNow - start < i[3])
             ti == [on |-> runs /\ out, last |-> out, start |-> start]
             since == L!Since(m, t, ~m.acc)
  <2>1. w = L!Tof(m, t, i[3])
    BY <1>5 DEF L!Exec, L!Contacts, L!Branches, L!Operations
  <2>2. w = [acc |-> out, stk |-> m.stk, val |-> [m.val EXCEPT ![t] = L!Bit(out)], tim |-> [m.tim EXCEPT ![t] = ti],
             cnt |-> m.cnt, since |-> [m.since EXCEPT ![t] = since]]
    BY <2>1 DEF L!Tof, LadMachine
  <2>3. since \in Int /\ since <= lNow
    BY <1>o DEF L!Since, L!Never
  <2> HIDE DEF w, out, ti, since
  <2>w. LadWrote(m, t, L!Bit(out), ti, since, w)
    BY <2>2 DEF LadWrote
  <2>4. LadMachine(w) /\ \A u \in lTags : u # t => LadSame(m, w, u)
    BY <2>3, <2>w, LadPut
  <2> QED BY <1>5, <1>o, <2>4
<1>6. CASE i[1] \in {"CTU", "CTD"}
  <2>1. w = L!Ctu(m, t, i[3]) \/ w = L!Ctd(m, t, i[3])
    BY <1>6 DEF L!Exec, L!Contacts, L!Branches, L!Operations
  <2>2. \E v : LadWrote(m, t, v, m.tim[t], m.since[t], w)
    <3>1. CASE w = L!Ctu(m, t, i[3])
      <4> DEFINE n == m.cnt[t].n + L!Bit(L!Edge(m, t))
                 v == L!Bit(n >= i[3])
                 c == [m.cnt EXCEPT ![t] = [last |-> m.acc, n |-> n]]
      <4>1. w = [acc |-> (n >= i[3]), stk |-> m.stk, val |-> [m.val EXCEPT ![t] = v],
                 tim |-> [m.tim EXCEPT ![t] = m.tim[t]], cnt |-> c,
                 since |-> [m.since EXCEPT ![t] = m.since[t]]]
        BY <3>1 DEF L!Ctu, LadMachine
      <4> HIDE DEF w, n, v, c
      <4>2. LadWrote(m, t, v, m.tim[t], m.since[t], w)
        BY <4>1 DEF LadWrote
      <4> QED BY <4>2
    <3>2. CASE w = L!Ctd(m, t, i[3])
      <4> DEFINE from == IF m.cnt[t].n = 0 THEN i[3] ELSE m.cnt[t].n
                 n == IF L!Edge(m, t) /\ from > 0 THEN from - 1 ELSE from
                 v == L!Bit(n = 0)
                 c == [m.cnt EXCEPT ![t] = [last |-> m.acc, n |-> n]]
      <4>1. w = [acc |-> (n = 0), stk |-> m.stk, val |-> [m.val EXCEPT ![t] = v],
                 tim |-> [m.tim EXCEPT ![t] = m.tim[t]], cnt |-> c,
                 since |-> [m.since EXCEPT ![t] = m.since[t]]]
        BY <3>2 DEF L!Ctd, LadMachine
      <4> HIDE DEF w, n, v, c
      <4>2. LadWrote(m, t, v, m.tim[t], m.since[t], w)
        BY <4>1 DEF LadWrote
      <4> QED BY <4>2
    <3> QED BY <2>1, <3>1, <3>2
  <2> HIDE DEF w
  <2>3. LadMachine(w) /\ \A u \in lTags : u # t => LadSame(m, w, u)
    BY <1>o, <2>2, LadPut
  <2> QED BY <1>6, <1>o, <2>3
<1>7. CASE i[1] \in L!Operations
  <2>1. w = L!Arithmetic(m, i[1], t, i[3], i[4], i[5])
    BY <1>7 DEF L!Exec, L!Contacts, L!Branches, L!Operations
  <2>2. CASE w = m
    BY <2>2 DEF LadSame
  <2>3. ASSUME NEW v, w = [m EXCEPT !.val[i[5]] = v] PROVE Goal
    <3>1. /\ w = [acc |-> m.acc, stk |-> m.stk, val |-> [m.val EXCEPT ![i[5]] = v], tim |-> m.tim,
                 cnt |-> m.cnt, since |-> m.since]
      BY <2>3 DEF LadMachine
    <3> HIDE DEF w
    <3>2. LadMachine(w)
      BY <3>1 DEF LadMachine
    <3>3. \A u \in lTags : u # i[5] => LadSame(m, w, u)
      BY <3>1 DEF LadMachine, LadSame
    <3> QED BY <1>7, <1>o, <3>2, <3>3
  <2>4. w = m \/ \E v : w = [m EXCEPT !.val[i[5]] = v]
    <3> DEFINE r == CASE i[1] = "ADD" -> m.val[t] + (IF i[4] THEN i[3] ELSE m.val[i[3]])
                      [] i[1] = "SUB" -> m.val[t] - (IF i[4] THEN i[3] ELSE m.val[i[3]])
                      [] i[1] = "MUL" -> m.val[t] * (IF i[4] THEN i[3] ELSE m.val[i[3]])
                      [] i[1] = "DIV" -> L!Quotient(m.val[t], IF i[4] THEN i[3] ELSE m.val[i[3]])
    <3>1. w = IF m.acc THEN [m EXCEPT !.val[i[5]] = L!Saturated(r)] ELSE m
      BY <2>1, Zenon DEF L!Arithmetic
    <3> HIDE DEF r, w
    <3> QED BY <3>1, Zenon
  <2> QED BY <2>2, <2>3, <2>4
<1> QED BY <1>1, <1>2, <1>3, <1>4, <1>5, <1>6, <1>7 DEF L!Ops

(* After k instructions of a scan.                                         *)
LadAt(p, k, m) ==
    /\ LadMachine(m)
    /\ L!OwnTimers(p) => \A i \in DOMAIN p : p[i][1] = "TON" =>
          LadTon(m, p[i][2]) /\ (i <= k => LadWaited(m, p[i][2], p[i][3]))

(* What LadderAssumption says of a program.                                *)
LadProgram(p) ==
    /\ Len(p) \in Nat /\ DOMAIN p = 1..Len(p)
    /\ \A i \in DOMAIN p : p[i][1] \in L!Ops /\ p[i][2] \in lTags /\ (p[i][1] = "TON" => p[i][3] \in Int)

(* The next instruction keeps it: a TON waits for itself, and no other     *)
(* instruction but its reset writes its entry.                             *)
LEMMA LadOneMore ==
  ASSUME lNow \in Nat, NEW p, LadProgram(p), NEW k \in 1..Len(p), NEW m, LadAt(p, k - 1, m)
  PROVE  LadAt(p, k, L!Exec(m, p[k]))
<1> DEFINE w == L!Exec(m, p[k])
<1>1. k \in DOMAIN p /\ p[k][1] \in L!Ops /\ p[k][2] \in lTags /\ LadMachine(m)
  BY DEF LadProgram, LadAt
<1>2. CASE p[k][1] = "TON"
  <2> DEFINE t == p[k][2]
             n == p[k][3]
  <2>1. n \in Int /\ t \in lTags
    BY <1>1, <1>2 DEF LadProgram
  <2>2. w = L!Ton(m, t, n)
    BY <1>2 DEF L!Exec, L!Contacts, L!Branches, L!Operations
  <2> HIDE DEF t, n, w
  <2>3. /\ LadMachine(w) /\ (LadTon(m, t) => LadTon(w, t) /\ LadWaited(w, t, n))
        /\ \A u \in lTags : u # t => LadSame(m, w, u)
    BY <1>1, <2>1, <2>2, LadTonExec
  <2>4. ASSUME L!OwnTimers(p), NEW i \in DOMAIN p, p[i][1] = "TON"
        PROVE  LadTon(w, p[i][2]) /\ (i <= k => LadWaited(w, p[i][2], p[i][3]))
    <3>0. LadTon(m, p[i][2]) /\ (i <= k - 1 => LadWaited(m, p[i][2], p[i][3]))
      BY <2>4 DEF LadAt
    <3>1. CASE i = k
      BY <2>3, <3>0, <3>1 DEF t, n
    <3>2. CASE i # k
      <4>1. p[i][2] # t
        BY <1>1, <1>2, <2>4, <3>2 DEF L!OwnTimers, L!Writes, L!Operations, L!Contacts, L!Branches, t
      <4>2. p[i][2] \in lTags
        BY DEF LadProgram
      <4>3. LadSame(m, w, p[i][2])
        BY <2>3, <4>1, <4>2
      <4>5. i <= k => i <= k - 1
        BY <1>1, <3>2 DEF LadProgram
      <4> QED BY <3>0, <4>3, <4>5 DEF LadTon, LadWaited, LadSame
    <3> QED BY <3>1, <3>2
  <2> QED BY <2>3, <2>4 DEF LadAt, w
<1>3. CASE p[k][1] # "TON"
  <2>1. /\ LadMachine(w)
        /\ \A u \in lTags : \/ LadSame(m, w, u)
                            \/ /\ u = L!Writes(p[k]) /\ p[k][1] \notin L!Contacts \cup L!Branches \cup {"RST"}
                            \/ w.val[u] = 0 /\ w.tim[u] = L!Off[u]
    BY <1>1, <1>3, LadExec
  <2> HIDE DEF w
  <2>2. ASSUME L!OwnTimers(p), NEW i \in DOMAIN p, p[i][1] = "TON"
        PROVE  LadTon(w, p[i][2]) /\ (i <= k => LadWaited(w, p[i][2], p[i][3]))
    <3> DEFINE t == p[i][2]
    <3>1. t \in lTags /\ i # k
      BY <1>3, <2>2 DEF LadProgram
    <3>2. LadSame(m, w, t) \/ (w.val[t] = 0 /\ w.tim[t] = L!Off[t])
      BY <1>1, <2>1, <2>2, <3>1 DEF L!OwnTimers
    <3>3. LadTon(m, t) /\ (i <= k - 1 => LadWaited(m, t, p[i][3]))
      BY <2>2 DEF LadAt
    <3>4. i <= k => i <= k - 1
      BY <1>1, <3>1 DEF LadProgram
    <3> HIDE DEF t
    <3>5. CASE LadSame(m, w, t)
      BY <3>3, <3>4, <3>5 DEF LadTon, LadWaited, LadSame, t
    <3>6. CASE w.val[t] = 0 /\ w.tim[t] = L!Off[t]
      <4>1. w.tim[t] \in LadTimer /\ w.tim[t].on = FALSE
        BY <3>1, <3>6 DEF L!Off, LadTimer
      <4> QED BY <3>6, <4>1 DEF LadTon, LadWaited, t
    <3> QED BY <3>2, <3>5, <3>6
  <2> QED BY <2>1, <2>2 DEF LadAt, w
<1> QED BY <1>2, <1>3

(* So it holds all through a scan.                                         *)
LEMMA LadScans ==
  ASSUME lNow \in Nat, NEW p, LadProgram(p), LadAt(p, 0, LadFirst)
  PROVE  \A k \in 0..Len(p) : LadAt(p, k, L!Run(p)[k])
<1> DEFINE bad == {k \in Nat : k \in 0..Len(p) /\ ~ LadAt(p, k, L!Run(p)[k])}
<1>0. Len(p) \in Nat
  BY DEF LadProgram
<1>1. SUFFICES ASSUME bad # {} PROVE FALSE
  BY <1>0
<1>2. PICK k \in bad : \A t \in bad : k <= t
  BY <1>1, MapLowest
<1>3. L!Run(p)[0] = LadFirst /\ \A j \in 1..Len(p) : L!Run(p)[j] = L!Exec(L!Run(p)[j - 1], p[j])
  BY <1>0, LadRuns
<1>4. k # 0
  BY <1>2, <1>3
<1>5. k \in 1..Len(p) /\ k - 1 \in 0..Len(p) /\ k - 1 \in Nat /\ k - 1 < k
  BY <1>0, <1>2, <1>4
<1>6. LadAt(p, k - 1, L!Run(p)[k - 1])
  BY <1>2, <1>5
<1>7. LadAt(p, k, L!Exec(L!Run(p)[k - 1], p[k]))
  BY <1>5, <1>6, LadOneMore
<1> QED BY <1>2, <1>3, <1>5, <1>7

-----------------------------------------------------------------------------
(* Between scans: programs are those there are; while none is installed no *)
(* timer runs but one that a cut scan left; and what the engine keeps is   *)
(* what a scan may start with.                                             *)
LadPrograms == lPrograms \cup {lTest, <<>>}

LadQuiet(tim, since) ==
    /\ tim = [t \in lTags |-> tim[t]] /\ since = [t \in lTags |-> since[t]]
    /\ \A t \in lTags :
          /\ tim[t] \in LadTimer
          /\ tim[t].on => since[t] # L!Never /\ since[t] <= tim[t].start
          /\ since[t] \in Int /\ since[t] <= 0

LadInv ==
    /\ lNow \in Nat
    /\ lProg \in LadPrograms /\ lFlash \in LadPrograms /\ lNew \in LadPrograms
    /\ lHttp \in {"erase", "install"} => lProg = <<>> /\ LadQuiet(lTim, lSince)
    /\ LadAt(lProg, 0, LadFirst)

(* Every program that is ever kept is such a program, the empty one too.   *)
LEMMA LadKnown ==
  ASSUME NEW p \in LadPrograms
  PROVE  LadProgram(p)
<1>1. CASE p = <<>>
  BY <1>1 DEF LadProgram
<1>2. CASE p # <<>>
  BY <1>2, LadderAssumption DEF LadPrograms, LadProgram, L!ConstantsOK
<1> QED BY <1>1, <1>2

(* What is to be shown of a step.                                          *)
LEMMA LadAfter ==
  ASSUME lNow' \in Nat,
         lVal' = [t \in lTags |-> lVal'[t]], lTim' = [t \in lTags |-> lTim'[t]], lSince' = [t \in lTags |-> lSince'[t]],
         \A t \in lTags : lSince'[t] \in Int /\ lSince'[t] <= lNow',
         NEW p, p = lProg', LadProgram(p),
         \A i \in DOMAIN p : L!OwnTimers(p) /\ p[i][1] = "TON" =>
           /\ lTim'[p[i][2]] \in LadTimer
           /\ lTim'[p[i][2]].on => lSince'[p[i][2]] # L!Never /\ lSince'[p[i][2]] <= lTim'[p[i][2]].start
  PROVE  LadAt(lProg, 0, LadFirst)'
<1>1. /\ LadFirst'.val = lVal' /\ LadFirst'.tim = lTim' /\ LadFirst'.since = lSince'
      /\ LadFirst' = [acc |-> LadFirst'.acc, stk |-> LadFirst'.stk, val |-> LadFirst'.val, tim |-> LadFirst'.tim,
                      cnt |-> LadFirst'.cnt, since |-> LadFirst'.since]
  BY DEF LadFirst
<1>2. LadMachine(LadFirst)'
  BY <1>1 DEF LadMachine
<1>3. \A i \in DOMAIN p : ~ (i <= 0)
  BY DEF LadProgram
<1>4. ASSUME L!OwnTimers(p), NEW i \in DOMAIN p, p[i][1] = "TON" PROVE LadTon(LadFirst', p[i][2])
  BY <1>1, <1>4 DEF LadTon
<1> QED BY <1>2, <1>3, <1>4 DEF LadAt, L!OwnTimers, L!Writes, LadTon, LadWaited

(* What an emptied memory holds: no timer runs, no rung is on.             *)
LEMMA LadCleared ==
  /\ L!Off = [t \in lTags |-> L!Off[t]] /\ L!NotSince = [t \in lTags |-> L!NotSince[t]]
  /\ \A t \in lTags : /\ L!Off[t] \in LadTimer /\ L!Off[t].on = FALSE
                      /\ L!NotSince[t] = L!Never /\ L!Never = -1
  /\ LadQuiet(L!Off, L!NotSince)
BY DEF L!Off, L!NotSince, L!Never, LadTimer, LadQuiet

(* The engine starts with no program and no timer.                         *)
LEMMA LadInit == L!Init => LadInv
<1> SUFFICES ASSUME L!Init PROVE LadInv
  OBVIOUS
<1>1. /\ lNow = 0 /\ lProg = <<>> /\ lFlash = <<>> /\ lNew = <<>> /\ lHttp = "idle"
      /\ lVal = [t \in lTags |-> 0] /\ lTim = L!Off /\ lSince = L!NotSince
  BY DEF L!Init
<1>2. LadMachine(LadFirst)
  BY <1>1, LadCleared DEF LadMachine, LadFirst
<1> QED BY <1>1, <1>2 DEF LadInv, LadAt, LadPrograms

(* The programs installed when the timers are cleared.                     *)
LEMMA LadFresh ==
  ASSUME LadInv, lNow' = lNow, lProg' \in LadPrograms, LadQuiet(lTim', lSince'), lVal' = [t \in lTags |-> lVal'[t]]
  PROVE  LadAt(lProg, 0, LadFirst)'
<1> DEFINE p == lProg'
<1>1. LadProgram(p) /\ p = lProg'
  BY LadKnown
<1> HIDE DEF p
<1>2. lNow' \in Nat
  BY DEF LadInv
<1>3. /\ lTim' = [t \in lTags |-> lTim'[t]] /\ lSince' = [t \in lTags |-> lSince'[t]]
      /\ \A t \in lTags : lSince'[t] \in Int /\ lSince'[t] <= lNow'
  BY <1>2 DEF LadQuiet
<1>4. ASSUME NEW i \in DOMAIN p, L!OwnTimers(p), p[i][1] = "TON"
      PROVE  /\ lTim'[p[i][2]] \in LadTimer
             /\ lTim'[p[i][2]].on => lSince'[p[i][2]] # L!Never /\ lSince'[p[i][2]] <= lTim'[p[i][2]].start
  <2>1. p[i][2] \in lTags
    BY <1>1 DEF LadProgram
  <2> QED BY <2>1 DEF LadQuiet
<1> QED BY <1>1, <1>2, <1>3, <1>4, LadAfter

(* What emptying memory makes of a machine, and of the instruction that    *)
(* memory is emptied under: at most one timer runs then, which was started *)
(* by that instruction.                                                    *)
LEMMA LadClears ==
  ASSUME NEW m, LadMachine(m), lNow \in Nat
  PROVE  /\ LadMachine(L!Cleared(m)) /\ L!Cleared(m).val = m.val
         /\ L!Cleared(m).tim = L!Off /\ L!Cleared(m).since = L!NotSince
<1> DEFINE w == L!Cleared(m)
<1>1. /\ w = [acc |-> w.acc, stk |-> w.stk, val |-> w.val, tim |-> w.tim, cnt |-> w.cnt, since |-> w.since]
      /\ w.val = m.val /\ w.tim = L!Off /\ w.since = L!NotSince
  <2> DEFINE off == L!Off
             zero == L!Zero
             not == L!NotSince
  <2>1. w = [m EXCEPT !.tim = off, !.cnt = zero, !.since = not]
    BY DEF L!Cleared
  <2>2. m = [acc |-> m.acc, stk |-> m.stk, val |-> m.val, tim |-> m.tim, cnt |-> m.cnt, since |-> m.since]
    BY DEF LadMachine
  <2> HIDE DEF off, zero, not, w
  <2>3. w = [acc |-> m.acc, stk |-> m.stk, val |-> m.val, tim |-> off, cnt |-> zero, since |-> not]
    BY <2>1, <2>2
  <2>4. /\ w = [acc |-> w.acc, stk |-> w.stk, val |-> w.val, tim |-> w.tim, cnt |-> w.cnt, since |-> w.since]
        /\ w.val = m.val /\ w.tim = off /\ w.since = not
    BY <2>3
  <2> QED BY <2>4 DEF off, not
<1> HIDE DEF w
<1>2. LadMachine(w)
  BY <1>1, LadCleared DEF LadMachine
<1> QED BY <1>1, <1>2 DEF w

LEMMA LadLeft ==
  ASSUME lNow \in Nat, NEW m, LadMachine(m), m.tim = L!Off, m.since = L!NotSince,
         NEW i, i[1] \in L!Ops, i[2] \in lTags, i[1] = "TON" => i[3] \in Int
  PROVE  /\ LadMachine(L!Exec(m, i))
         /\ \A u \in lTags : /\ L!Exec(m, i).tim[u] \in LadTimer
                             /\ L!Exec(m, i).tim[u].on => u = i[2] /\ L!Exec(m, i).tim[u].start >= 0
<1> DEFINE t == i[2]
           w == L!Exec(m, i)
<1>1. CASE i[1] = "TON"
  <2> DEFINE n == i[3]
  <2>1. w = L!Ton(m, t, n)
    BY <1>1 DEF L!Exec, L!Contacts, L!Branches, L!Operations
  <2>2. LadTon(m, t) /\ n \in Int
    BY <1>1, LadCleared DEF LadTon
  <2>3. LadMachine(w) /\ LadTon(w, t) /\ \A u \in lTags : u # t => LadSame(m, w, u)
    BY <2>1, <2>2, LadTonExec
  <2>4. w.tim[t].on => w.tim[t].start = lNow
    <3>1. w.tim = [m.tim EXCEPT ![t] = IF m.acc THEN [m.tim[t] EXCEPT !.on = TRUE, !.start = IF m.tim[t].on THEN m.tim[t].start ELSE lNow]
                                       ELSE [m.tim[t] EXCEPT !.on = FALSE]]
      BY <2>1 DEF L!Ton, LadMachine
    <3>2. m.tim[t].on = FALSE /\ m.tim[t] \in LadTimer
      BY LadCleared
    <3> HIDE DEF w
    <3> QED BY <3>1, <3>2 DEF LadMachine, LadTimer
  <2> HIDE DEF w
  <2>5. LadMachine(w) /\ \A u \in lTags : w.tim[u] \in LadTimer /\ (w.tim[u].on => u = t /\ w.tim[u].start >= 0)
    BY <2>3, <2>4, LadCleared DEF LadTon, LadSame
  <2> QED BY <2>5 DEF w
<1>2. CASE i[1] = "TOF"
  <2> DEFINE n == i[3]
             begins == ~m.acc /\ m.tim[t].last
             start == IF begins THEN lNow ELSE m.tim[t].start
             runs == ~m.acc /\ (begins \/ m.tim[t].on)
             out == m.acc \/ (runs /\ lNow - start < n)
             on == runs /\ out
  <2>1. LadMachine(w)
    BY <1>2, LadExec
  <2>2. w.tim[t].on = FALSE /\ w.tim[t] \in LadTimer /\ \A u \in lTags : u # t => w.tim[u] = m.tim[u]
    <3>1. w = L!Tof(m, t, n)
      BY <1>2 DEF L!Exec, L!Contacts, L!Branches, L!Operations
    <3>2. m.tim[t] = [on |-> FALSE, last |-> FALSE, start |-> 0]
      BY DEF L!Off
    <3>3. w.tim = [m.tim EXCEPT ![t] = [on |-> on, last |-> out, start |-> start]]
      BY <3>1 DEF L!Tof, LadMachine
    <3>4. on = FALSE /\ out \in BOOLEAN /\ start = 0
      BY <3>2
    <3> DEFINE ti == [on |-> on, last |-> out, start |-> start]
    <3>5. ti \in LadTimer /\ ti.on = FALSE
      <4>1. \A o \in BOOLEAN : LET r == [on |-> FALSE, last |-> o, start |-> 0] IN r \in LadTimer /\ r.on = FALSE
        BY DEF LadTimer
      <4> HIDE DEF on, out, start
      <4>2. ti = [on |-> FALSE, last |-> out, start |-> 0]
        BY <3>4, Zenon
      <4> QED BY <3>4, <4>1, <4>2, Zenon
    <3>6. w.tim = [m.tim EXCEPT ![t] = ti]
      BY <3>3
    <3> HIDE DEF w, ti
    <3>7. w.tim[t] = ti /\ \A u \in lTags : u # t => w.tim[u] = m.tim[u]
      BY <3>6 DEF LadMachine
    <3> QED BY <3>5, <3>7
  <2> HIDE DEF w
  <2>3. LadMachine(w) /\ \A u \in lTags : w.tim[u] \in LadTimer /\ (w.tim[u].on => u = t /\ w.tim[u].start >= 0)
    BY <2>1, <2>2, LadCleared
  <2> QED BY <2>3 DEF w
<1>3. CASE i[1] \notin {"TON", "TOF"}
  <2>1. LadMachine(w)
    BY <1>3, LadExec
  <2>2. w.tim = m.tim \/ w.tim = [m.tim EXCEPT ![t] = L!Off[t]]
    <3>1. CASE i[1] \in L!Contacts
      BY <3>1 DEF L!Exec, LadMachine, L!Contacts, L!Branches, L!Operations
    <3>2. CASE i[1] \in L!Branches
      <4>1. w = L!Branch(m, i[1])
        BY <3>2 DEF L!Exec, L!Contacts, L!Branches, L!Operations
      <4> QED BY <4>1 DEF L!Branch, LadMachine
    <3>3. CASE i[1] \in {"ST", "SET", "RST"}
      <4>1. w = L!Coil(m, i[1], t)
        BY <3>3 DEF L!Exec, L!Contacts, L!Branches, L!Operations
      <4> QED BY <3>3, <4>1 DEF L!Coil, LadMachine
    <3>4. CASE i[1] = "CTU"
      BY <3>4 DEF L!Exec, L!Ctu, LadMachine, L!Contacts, L!Branches, L!Operations
    <3>5. CASE i[1] = "CTD"
      BY <3>5 DEF L!Exec, L!Ctd, LadMachine, L!Contacts, L!Branches, L!Operations
    <3>6. CASE i[1] \in L!Operations
      <4>1. w = L!Arithmetic(m, i[1], t, i[3], i[4], i[5])
        BY <3>6 DEF L!Exec, L!Contacts, L!Branches, L!Operations
      <4> QED BY <4>1 DEF L!Arithmetic, LadMachine
    <3> HIDE DEF w
    <3> QED BY <1>3, <3>1, <3>2, <3>3, <3>4, <3>5, <3>6 DEF L!Ops
  <2>3. w.tim = L!Off
    BY <2>2, LadCleared
  <2> HIDE DEF w
  <2>4. LadMachine(w) /\ \A u \in lTags : w.tim[u] \in LadTimer /\ (w.tim[u].on => u = t /\ w.tim[u].start >= 0)
    BY <2>1, <2>3, LadCleared
  <2> QED BY <2>4 DEF w
<1> QED BY <1>1, <1>2, <1>3

(* So whatever a scan leaves under which memory is emptied, is quiet.      *)
LEMMA LadCut ==
  ASSUME lNow \in Nat, NEW p, LadProgram(p), LadAt(p, 0, LadFirst), NEW x \in L!Cut(p)
  PROVE  x.val = [t \in lTags |-> x.val[t]] /\ LadQuiet(x.tim, x.since)
<1>0. Len(p) \in Nat /\ DOMAIN p = 1..Len(p) /\ \A k \in 0..Len(p) : LadMachine(L!Run(p)[k])
  BY LadScans DEF LadProgram, LadAt
<1>1. CASE \E k \in 0..Len(p) : x = L!Cleared(L!Run(p)[k])
  <2>1. PICK k \in 0..Len(p) : x = L!Cleared(L!Run(p)[k])
    BY <1>1
  <2> DEFINE m == L!Run(p)[k]
  <2>2. LadMachine(m)
    BY <1>0
  <2> HIDE DEF m
  <2>3. x.val = m.val /\ x.tim = L!Off /\ x.since = L!NotSince
    BY <2>1, <2>2, LadClears DEF m
  <2> QED BY <2>2, <2>3, LadCleared DEF LadMachine
<1>2. CASE \E k \in 1..Len(p) : x \in L!Torn(L!Run(p)[k - 1], p[k])
  <2>1. PICK k \in 1..Len(p) : x \in L!Torn(L!Run(p)[k - 1], p[k])
    BY <1>2
  <2> DEFINE m == L!Run(p)[k - 1]
             i == p[k]
             t == p[k][2]
             c == L!Cleared(m)
             f == L!Exec(c, i)
             left == [f EXCEPT !.since = [L!NotSince EXCEPT ![t] = IF f.tim[t].on THEN L!Left ELSE L!Never]]
             fired == [c EXCEPT !.val[t] = 1]
  <2>2. k - 1 \in 0..Len(p) /\ k \in DOMAIN p
    BY <1>0
  <2>3. LadMachine(m) /\ i[1] \in L!Ops /\ t \in lTags /\ (i[1] = "TON" => i[3] \in Int)
    BY <1>0, <2>2 DEF LadProgram
  <2>4. x \in {L!Cleared(f), left, fired}
    BY <2>1 DEF L!Torn
  <2>5. LadMachine(c) /\ c.tim = L!Off /\ c.since = L!NotSince
    <3> HIDE DEF m
    <3> QED BY <2>3, LadClears
  <2>6. /\ LadMachine(f)
        /\ \A u \in lTags : f.tim[u] \in LadTimer /\ (f.tim[u].on => u = t /\ f.tim[u].start >= 0)
    <3> HIDE DEF c, m
    <3> QED BY <2>3, <2>5, LadLeft
  <2> HIDE DEF f
  <2>7. CASE x = L!Cleared(f)
    <3>1. x.val = f.val /\ x.tim = L!Off /\ x.since = L!NotSince
      BY <2>6, <2>7, LadClears
    <3> QED BY <2>6, <3>1, LadCleared DEF LadMachine
  <2>8. CASE x = left
    <3> DEFINE s == IF f.tim[t].on THEN L!Left ELSE L!Never
    <3>1. x.val = f.val /\ x.tim = f.tim /\ x.since = [L!NotSince EXCEPT ![t] = s]
      BY <2>6, <2>8 DEF LadMachine
    <3>2. s \in Int /\ s <= 0 /\ (f.tim[t].on => s = -2 /\ s # L!Never) /\ L!Never \in Int /\ L!Never <= 0
      BY DEF L!Left, L!Never
    <3> HIDE DEF s
    <3>3. \A u \in lTags : x.since[u] = IF u = t THEN s ELSE L!Never
      BY <2>3, <3>1, LadCleared
    <3>4. x.since = [u \in lTags |-> x.since[u]]
      BY <3>1, LadCleared
    <3>5. ASSUME NEW u \in lTags
          PROVE  /\ x.tim[u] \in LadTimer /\ x.since[u] \in Int /\ x.since[u] <= 0
                 /\ x.tim[u].on => x.since[u] # L!Never /\ x.since[u] <= x.tim[u].start
      <4>1. f.tim[u] \in LadTimer /\ f.tim[u].start \in Int
        BY <2>6 DEF LadTimer
      <4> QED BY <2>6, <3>1, <3>2, <3>3, <4>1
    <3>6. x.tim = [u \in lTags |-> x.tim[u]] /\ x.val = [u \in lTags |-> x.val[u]]
      BY <2>6, <3>1 DEF LadMachine
    <3> QED BY <3>4, <3>5, <3>6 DEF LadQuiet
  <2>9. CASE x = fired
    <3> HIDE DEF c
    <3>1. x.val = [c.val EXCEPT ![t] = 1] /\ x.tim = L!Off /\ x.since = L!NotSince
      BY <2>5, <2>9 DEF LadMachine
    <3> QED BY <2>5, <3>1, LadCleared DEF LadMachine
  <2> QED BY <2>4, <2>7, <2>8, <2>9
<1> QED BY <1>1, <1>2 DEF L!Cut

(* Every step keeps the invariant, one step per action: a scan by LadScans,*)
(* a deployment by LadCut, and a restart because it stops every timer.     *)
LEMMA LadNext == LadInv /\ [L!Next]_(L!vars) => LadInv'
<1> SUFFICES ASSUME LadInv, [L!Next]_(L!vars) PROVE LadInv'
  OBVIOUS
<1> DEFINE p == lProg
<1>0. /\ lNow \in Nat /\ p \in LadPrograms /\ lFlash \in LadPrograms /\ lNew \in LadPrograms
      /\ LadProgram(p) /\ LadAt(p, 0, LadFirst)
  BY LadKnown DEF LadInv
<1>f. /\ LadFirst.val = lVal /\ LadFirst.tim = lTim /\ LadFirst.since = lSince
  BY DEF LadFirst
<1>t. /\ lVal = [t \in lTags |-> lVal[t]] /\ lTim = [t \in lTags |-> lTim[t]] /\ lSince = [t \in lTags |-> lSince[t]]
      /\ \A t \in lTags : lSince[t] \in Int /\ lSince[t] <= lNow
  BY <1>0, <1>f DEF LadAt, LadMachine
<1>o. ASSUME NEW i \in DOMAIN p, L!OwnTimers(p), p[i][1] = "TON"
      PROVE  /\ lTim[p[i][2]] \in LadTimer
             /\ lTim[p[i][2]].on => lSince[p[i][2]] # L!Never /\ lSince[p[i][2]] <= lTim[p[i][2]].start
  BY <1>0, <1>f, <1>o DEF LadAt, LadTon
<1>1. CASE L!Scan
  <2> DEFINE m == L!Run(p)[Len(p)]
  <2>1. /\ lVal' = m.val /\ lTim' = m.tim /\ lSince' = m.since
        /\ UNCHANGED <<lProg, lFlash, lNow, lHttp, lNew>> /\ lProg # <<>>
    BY <1>1 DEF L!Scan
  <2>2. LadAt(p, Len(p), m)
    BY <1>0, LadScans DEF LadProgram
  <2> HIDE DEF m
  <2>3. LadAt(lProg, 0, LadFirst)'
    <3>1. lNow' \in Nat /\ p = lProg' /\ LadProgram(p)
      BY <1>0, <2>1
    <3>2. /\ lVal' = [t \in lTags |-> lVal'[t]] /\ lTim' = [t \in lTags |-> lTim'[t]]
          /\ lSince' = [t \in lTags |-> lSince'[t]]
          /\ \A t \in lTags : lSince'[t] \in Int /\ lSince'[t] <= lNow'
      BY <2>1, <2>2 DEF LadAt, LadMachine
    <3>3. ASSUME NEW i \in DOMAIN p, L!OwnTimers(p), p[i][1] = "TON"
          PROVE  /\ lTim'[p[i][2]] \in LadTimer
                 /\ lTim'[p[i][2]].on => lSince'[p[i][2]] # L!Never /\ lSince'[p[i][2]] <= lTim'[p[i][2]].start
      BY <2>1, <2>2, <3>3 DEF LadAt, LadTon
    <3> HIDE DEF p
    <3> QED BY <3>1, <3>2, <3>3, LadAfter
  <2> QED BY <1>0, <2>1, <2>3 DEF LadInv
<1>2. ASSUME NEW t \in lInputs, L!SetInput(t) PROVE LadInv'
  <2>1. lVal' = [lVal EXCEPT ![t] = 1 - lVal[t]] /\ UNCHANGED <<lProg, lFlash, lTim, lNow, lHttp, lNew, lSince>>
    BY <1>2 DEF L!SetInput
  <2>2. LadAt(lProg, 0, LadFirst)'
    <3>1. lNow' \in Nat /\ p = lProg' /\ LadProgram(p)
      BY <1>0, <2>1
    <3>2. lVal' = [u \in lTags |-> lVal'[u]]
      BY <1>t, <2>1
    <3>3. /\ lTim' = [u \in lTags |-> lTim'[u]] /\ lSince' = [u \in lTags |-> lSince'[u]]
          /\ \A u \in lTags : lSince'[u] \in Int /\ lSince'[u] <= lNow'
      BY <1>t, <2>1
    <3>4. ASSUME NEW i \in DOMAIN p, L!OwnTimers(p), p[i][1] = "TON"
          PROVE  /\ lTim'[p[i][2]] \in LadTimer
                 /\ lTim'[p[i][2]].on => lSince'[p[i][2]] # L!Never /\ lSince'[p[i][2]] <= lTim'[p[i][2]].start
      BY <1>o, <2>1, <3>4
    <3> HIDE DEF p
    <3> QED BY <3>1, <3>2, <3>3, <3>4, LadAfter
  <2> QED BY <1>0, <2>1, <2>2 DEF LadInv
<1>3. CASE L!Tick
  <2>1. lNow' = lNow + 1 /\ UNCHANGED <<lProg, lFlash, lVal, lTim, lHttp, lNew, lSince>>
    BY <1>3 DEF L!Tick
  <2>2. LadAt(lProg, 0, LadFirst)'
    <3>1. lNow' \in Nat /\ p = lProg' /\ LadProgram(p)
      BY <1>0, <2>1
    <3>2. /\ lVal' = [u \in lTags |-> lVal'[u]] /\ lTim' = [u \in lTags |-> lTim'[u]]
          /\ lSince' = [u \in lTags |-> lSince'[u]]
      BY <1>t, <2>1
    <3>3. \A u \in lTags : lSince'[u] \in Int /\ lSince'[u] <= lNow'
      BY <1>0, <1>t, <2>1
    <3>4. ASSUME NEW i \in DOMAIN p, L!OwnTimers(p), p[i][1] = "TON"
          PROVE  /\ lTim'[p[i][2]] \in LadTimer
                 /\ lTim'[p[i][2]].on => lSince'[p[i][2]] # L!Never /\ lSince'[p[i][2]] <= lTim'[p[i][2]].start
      BY <1>o, <2>1, <3>4
    <3> HIDE DEF p
    <3> QED BY <3>1, <3>2, <3>3, <3>4, LadAfter
  <2> QED BY <1>0, <2>1, <2>2 DEF LadInv
<1>4. CASE L!Erase \/ L!Write \/ UNCHANGED L!vars
  <2>0. lProg' = lProg /\ lVal' = lVal /\ lTim' = lTim /\ lSince' = lSince /\ lCnt' = lCnt /\ lNow' = lNow
    BY <1>4 DEF L!Erase, L!Write, L!vars
  <2>1. LadAt(lProg, 0, LadFirst)'
    BY <1>0, <2>0 DEF LadAt, LadFirst, LadMachine, LadTon, LadWaited, L!OwnTimers, L!Writes
  <2>2. CASE L!Erase
    BY <1>0, <2>0, <2>1, <2>2 DEF L!Erase, LadInv, LadPrograms
  <2>3. CASE L!Write
    BY <1>0, <2>0, <2>1, <2>3 DEF L!Write, LadInv
  <2>4. CASE UNCHANGED L!vars
    BY <1>0, <2>0, <2>1, <2>4 DEF L!vars, LadInv
  <2> QED BY <1>4, <2>2, <2>3, <2>4
<1>5. CASE L!Install
  <2>1. lProg' = lNew /\ lHttp' = "write" /\ LadQuiet(lTim, lSince) /\ UNCHANGED <<lFlash, lVal, lTim, lNow, lNew, lSince>>
    BY <1>5 DEF L!Install, LadInv
  <2>2. LadAt(lProg, 0, LadFirst)'
    BY <1>0, <1>t, <2>1, LadFresh
  <2> QED BY <1>0, <2>1, <2>2 DEF LadInv
<1>6. ASSUME NEW q \in lPrograms \cup {<<>>}, L!Begin(q) PROVE LadInv'
  <2>1. PICK x \in L!Cut(p) : lVal' = x.val /\ lTim' = x.tim /\ lSince' = x.since
    BY <1>6 DEF L!Begin
  <2>2. lProg' = <<>> /\ lNew' = q /\ UNCHANGED <<lFlash, lNow>>
    BY <1>6 DEF L!Begin
  <2>3. x.val = [t \in lTags |-> x.val[t]] /\ LadQuiet(x.tim, x.since)
    BY <1>0, LadCut
  <2>4. lVal' = [t \in lTags |-> lVal'[t]] /\ LadQuiet(lTim', lSince')
    BY <2>1, <2>3
  <2>5. LadAt(lProg, 0, LadFirst)'
    BY <2>2, <2>4, LadFresh DEF LadPrograms
  <2> QED BY <1>0, <2>2, <2>4, <2>5 DEF LadInv, LadPrograms
<1>7. CASE L!Restart
  <2>1. /\ lProg' = lFlash /\ lFlash' \in {lFlash, <<>>, lTest}
        /\ lVal' = [t \in lTags |-> 0] /\ lTim' = L!Off /\ lSince' = L!NotSince
        /\ lHttp' = "idle" /\ lNew' = <<>> /\ lNow' = lNow
    BY <1>7 DEF L!Restart, L!Tested
  <2>2. lVal' = [t \in lTags |-> lVal'[t]] /\ LadQuiet(lTim', lSince')
    BY <2>1, LadCleared
  <2>3. LadAt(lProg, 0, LadFirst)'
    BY <1>0, <2>1, <2>2, LadFresh
  <2> QED BY <1>0, <2>1, <2>3 DEF LadInv, LadPrograms
<1> QED BY <1>1, <1>2, <1>3, <1>4, <1>5, <1>6, <1>7 DEF L!Next

(* What a scan does to the TONs.                                           *)
LEMMA LadTonStep ==
  ASSUME LadInv, \A p \in lPrograms \cup {lTest} : L!OwnTimers(p), L!Scan, NEW i \in DOMAIN lProg,
         lProg[i][1] = "TON", lVal'[lProg[i][2]] = 1
  PROVE  lSince'[lProg[i][2]] # L!Never /\ lNow - lSince'[lProg[i][2]] >= lProg[i][3]
<1> DEFINE p == lProg
           m == L!Run(p)[Len(p)]
<1>1. lVal' = m.val /\ lSince' = m.since
  BY DEF L!Scan
<1>2. p \in LadPrograms /\ LadProgram(p) /\ LadAt(p, 0, LadFirst) /\ lNow \in Nat
  BY LadKnown DEF LadInv
<1>3. LadAt(p, Len(p), m)
  BY <1>2, LadScans DEF LadProgram
<1>4. p # <<>> /\ L!OwnTimers(p)
  BY <1>2 DEF LadPrograms, L!Scan
<1>5. i <= Len(p)
  BY <1>2 DEF LadProgram
<1> HIDE DEF m
<1>6. LadWaited(m, p[i][2], p[i][3])
  BY <1>3, <1>4, <1>5 DEF LadAt
<1> QED BY <1>1, <1>6 DEF LadWaited

(* ladder_engine.c: for any programs in which only a TON and its resets    *)
(* write the entry of the TON, any tags and any deployments between scans  *)
(* or under them, a scan makes a TON pass power only after its rung was on *)
(* in every scan for the preset time.  Excepted is the timer that a scan   *)
(* cut by a deployment left running, until it is stopped.                  *)
THEOREM TonsWait == (\A p \in lPrograms \cup {lTest} : L!OwnTimers(p)) /\ L!Spec => TonWaits
<1> DEFINE Own == \A p \in lPrograms \cup {lTest} : L!OwnTimers(p)
           Inv == Own /\ LadInv
<1>1. Own /\ L!Init => Inv
  BY LadInit
<1>2. Inv /\ [L!Next]_(L!vars) => Inv'
  <2>1. Own => Own'
    BY DEF L!OwnTimers, L!Writes
  <2> QED BY <2>1, LadNext
<1>3. Inv /\ [L!Next]_(L!vars) =>
        [L!Scan => \A i \in DOMAIN lProg :
            LET t == lProg[i][2]
            IN  lProg[i][1] = "TON" /\ lVal'[t] = 1 /\ lSince'[t] # L!Left =>
                   lSince'[t] # L!Never /\ lNow - lSince'[t] >= lProg[i][3]]_(L!vars)
  BY LadTonStep
<1> HIDE DEF Inv
<1>4. (Own /\ L!Spec) => TonWaits
  BY <1>1, <1>2, <1>3, PTL DEF L!Spec, TonWaits, L!TonWaits
<1> QED BY <1>4

-----------------------------------------------------------------------------
(***************************************************************************)
(* A block inside a branch of a block, instruction by instruction.         *)
(***************************************************************************)

(* A machine in the middle of the scan of a program that writes no entry   *)
(* yet.                                                                    *)
LadOn(t) == lVal[t] > 0
LadMid(m, acc, stk) ==
    /\ m = [acc |-> m.acc, stk |-> m.stk, val |-> m.val, tim |-> m.tim, cnt |-> m.cnt, since |-> m.since]
    /\ m.val = lVal /\ (m.acc <=> acc) /\ m.stk = stk

(* The frames of the stack: the power at the head of a block, and what its *)
(* branches passed so far; a frame that was just opened has none.          *)
LadFrames == [in : BOOLEAN, out : BOOLEAN]
LadFrame(in, out) == [in |-> in, out |-> out]

LadOpen(in) == LadFrame(in, FALSE)

(* LD takes the power of its contact.                                      *)
LEMMA LadMidLoad ==
  ASSUME NEW m, NEW acc, NEW stk, LadMid(m, acc, stk), NEW i, i[1] = "LD",
         NEW x \in BOOLEAN, x <=> LadOn(i[2])
  PROVE  LadMid(L!Exec(m, i), x, stk)
<1>1. L!Exec(m, i) = [m EXCEPT !.acc = L!Contact("LD", m.acc, m.val[i[2]])]
  BY DEF L!Exec, L!Contacts, L!Branches, L!Operations
<1> QED BY <1>1 DEF LadMid, L!Contact, LadOn

(* AND lets power through its contact.                                     *)
LEMMA LadMidAnd ==
  ASSUME NEW m, NEW acc \in BOOLEAN, NEW stk, LadMid(m, acc, stk), NEW i, i[1] = "AND",
         NEW x \in BOOLEAN, x <=> (acc /\ LadOn(i[2]))
  PROVE  LadMid(L!Exec(m, i), x, stk)
<1>1. L!Exec(m, i) = [m EXCEPT !.acc = L!Contact("AND", m.acc, m.val[i[2]])]
  BY DEF L!Exec, L!Contacts, L!Branches, L!Operations
<1> QED BY <1>1 DEF LadMid, L!Contact, LadOn

(* START keeps the power at the head of the block.                         *)
LEMMA LadMidStart ==
  ASSUME NEW m, NEW acc \in BOOLEAN, NEW stk \in Seq(LadFrames), Len(stk) < 2, LadMid(m, acc, stk),
         NEW i, i[1] = "START"
  PROVE  LadMid(L!Exec(m, i), acc, Append(stk, LadOpen(acc)))
<1>1. L!Exec(m, i) = L!Branch(m, "START")
  BY DEF L!Exec, L!Contacts, L!Branches, L!Operations
<1>2. Len(m.stk) < lMaxStack
  BY LadderAssumption DEF L!ConstantsOK, LadMid
<1>3. L!Branch(m, "START") = [m EXCEPT !.stk = Append(m.stk, [in |-> m.acc, out |-> FALSE])]
  BY <1>2 DEF L!Branch
<1>4. m.acc = acc
  BY DEF LadMid
<1> QED BY <1>1, <1>3, <1>4 DEF LadMid, LadOpen, LadFrame

(* NEXT adds what the branch passed and goes back to the head.             *)
LEMMA LadMidNext ==
  ASSUME NEW m, NEW acc \in BOOLEAN, NEW stk \in Seq(LadFrames), NEW in \in BOOLEAN, NEW out \in BOOLEAN,
         LadMid(m, acc, Append(stk, LadFrame(in, out))), NEW i, i[1] = "NEXT",
         NEW x \in BOOLEAN, x <=> (out \/ acc)
  PROVE  LadMid(L!Exec(m, i), in, Append(stk, LadFrame(in, x)))
<1> DEFINE n == Len(stk) + 1
           f == LadFrame(in, out)
           g == LadFrame(in, x)
<1>1. L!Exec(m, i) = L!Branch(m, "NEXT")
  BY DEF L!Exec, L!Contacts, L!Branches, L!Operations
<1>2. m.stk = Append(stk, f) /\ f \in LadFrames /\ g \in LadFrames /\ f.in = in /\ f.out = out
  BY DEF LadMid, LadFrame, LadFrames
<1>3. Len(m.stk) = n /\ m.stk # <<>> /\ m.stk[n] = f
  BY <1>2
<1>4. L!Branch(m, "NEXT") = [m EXCEPT !.stk = [m.stk EXCEPT ![n] = [f EXCEPT !.out = out \/ m.acc]], !.acc = in]
  BY <1>2, <1>3 DEF L!Branch
<1>5. [f EXCEPT !.out = out \/ m.acc] = g
  BY DEF LadMid, LadFrame
<1>6. [m.stk EXCEPT ![n] = g] = Append(stk, g)
  <2> DEFINE a == Append(stk, f)
             b == [a EXCEPT ![n] = g]
             c == Append(stk, g)
  <2> HIDE DEF f, g
  <2>1. a \in Seq(LadFrames) /\ Len(a) = n /\ n \in 1..Len(a)
    BY <1>2
  <2>2. c \in Seq(LadFrames) /\ Len(c) = n /\ c[n] = g /\ \A j \in 1..Len(stk) : c[j] = stk[j] /\ a[j] = stk[j]
    BY <1>2
  <2> HIDE DEF a, c
  <2>3. b \in Seq(LadFrames) /\ Len(b) = n /\ \A j \in 1..n : b[j] = IF j = n THEN g ELSE a[j]
    BY <1>2, <2>1
  <2>4. \A j \in 1..n : b[j] = c[j]
    BY <2>2, <2>3
  <2> HIDE DEF b
  <2>5. b = c
    BY <2>2, <2>3, <2>4, SeqEqual
  <2> QED BY <1>2, <2>5 DEF a, b, c
<1>7. L!Branch(m, "NEXT") = [m EXCEPT !.stk = Append(stk, g), !.acc = in]
  BY <1>4, <1>5, <1>6
<1> HIDE DEF f, g
<1>8. LadMid(L!Exec(m, i), in, Append(stk, g))
  BY <1>1, <1>7 DEF LadMid
<1> QED BY <1>8 DEF g

(* NEXT after the first branch of a block.                                 *)
LEMMA LadMidFirst ==
  ASSUME NEW m, NEW acc \in BOOLEAN, NEW stk \in Seq(LadFrames), NEW in \in BOOLEAN,
         LadMid(m, acc, Append(stk, LadOpen(in))), NEW i, i[1] = "NEXT"
  PROVE  LadMid(L!Exec(m, i), in, Append(stk, LadFrame(in, acc)))
<1>1. \E out \in BOOLEAN : LadOpen(in) = LadFrame(in, out) /\ ~ out
  <2> WITNESS FALSE \in BOOLEAN
  <2> QED BY DEF LadOpen
<1>2. PICK out \in BOOLEAN : LadOpen(in) = LadFrame(in, out) /\ ~ out
  BY <1>1
<1>3. LadMid(m, acc, Append(stk, LadFrame(in, out))) /\ (acc <=> (out \/ acc))
  BY <1>2
<1> QED BY <1>3, LadMidNext

(* END adds the last branch and leaves the block.                          *)
LEMMA LadMidEnd ==
  ASSUME NEW m, NEW acc \in BOOLEAN, NEW stk \in Seq(LadFrames), NEW in \in BOOLEAN, NEW out \in BOOLEAN,
         LadMid(m, acc, Append(stk, LadFrame(in, out))), NEW i, i[1] = "END",
         NEW x \in BOOLEAN, x <=> (acc \/ out)
  PROVE  LadMid(L!Exec(m, i), x, stk)
<1> DEFINE n == Len(stk) + 1
           f == LadFrame(in, out)
<1>1. L!Exec(m, i) = L!Branch(m, "END")
  BY DEF L!Exec, L!Contacts, L!Branches, L!Operations
<1>2. m.stk = Append(stk, f) /\ f \in LadFrames /\ f.in = in /\ f.out = out
  BY DEF LadMid, LadFrame, LadFrames
<1>3. Len(m.stk) = n /\ m.stk # <<>> /\ m.stk[n] = f
  BY <1>2
<1>4. L!Branch(m, "END") = [m EXCEPT !.acc = m.acc \/ out, !.stk = L!Front(m.stk)]
  BY <1>2, <1>3 DEF L!Branch
<1>5. L!Front(m.stk) = stk
  <2> HIDE DEF f
  <2> QED BY <1>2, <1>3 DEF L!Front
<1> QED BY <1>1, <1>4, <1>5 DEF LadMid

(* The twelve instructions of the Studio: power goes through the head and  *)
(* one of the branches.                                                    *)
LEMMA LadNested ==
  ASSUME NEW p, Len(p) = 12, NEW c1, NEW c3, NEW c5, NEW c7, NEW c9, NEW y \in lTags,
         p = L!Nested(c1, c3, c5, c7, c9, y), lVal = [t \in lTags |-> lVal[t]]
  PROVE  (L!Run(p)[12].val[y] = 1)
           <=> (LadOn(c1) /\ (LadOn(c3) \/ (LadOn(c5) /\ (LadOn(c7) \/ LadOn(c9)))))
<1> DEFINE r == L!Run(p)
<1>b. \A c : \E x \in BOOLEAN : x <=> LadOn(c)
  <2> SUFFICES ASSUME NEW c PROVE \E x \in BOOLEAN : x <=> LadOn(c)
    OBVIOUS
  <2>1. CASE LadOn(c)
    <3> WITNESS TRUE \in BOOLEAN
    <3> QED BY <2>1
  <2>2. CASE ~ LadOn(c)
    <3> WITNESS FALSE \in BOOLEAN
    <3> QED BY <2>2
  <2> QED BY <2>1, <2>2
<1>a1. PICK a \in BOOLEAN : a <=> LadOn(c1)
  BY <1>b
<1>a2. PICK b \in BOOLEAN : b <=> LadOn(c3)
  BY <1>b
<1>a3. PICK c \in BOOLEAN : c <=> LadOn(c5)
  BY <1>b
<1>a4. PICK d \in BOOLEAN : d <=> LadOn(c7)
  BY <1>b
<1>a5. PICK e \in BOOLEAN : e <=> LadOn(c9)
  BY <1>b
<1>p. /\ p[1][1] = "LD" /\ p[1][2] = c1 /\ p[2][1] = "START" /\ p[3][1] = "AND" /\ p[3][2] = c3
      /\ p[4][1] = "NEXT" /\ p[5][1] = "AND" /\ p[5][2] = c5 /\ p[6][1] = "START"
      /\ p[7][1] = "AND" /\ p[7][2] = c7 /\ p[8][1] = "NEXT" /\ p[9][1] = "AND" /\ p[9][2] = c9
      /\ p[10][1] = "END" /\ p[11][1] = "END" /\ p[12][1] = "ST" /\ p[12][2] = y
  BY DEF L!Nested, L!I
<1>r. /\ r[0] = LadFirst /\ r[1] = L!Exec(r[0], p[1]) /\ r[2] = L!Exec(r[1], p[2]) /\ r[3] = L!Exec(r[2], p[3])
      /\ r[4] = L!Exec(r[3], p[4]) /\ r[5] = L!Exec(r[4], p[5]) /\ r[6] = L!Exec(r[5], p[6])
      /\ r[7] = L!Exec(r[6], p[7]) /\ r[8] = L!Exec(r[7], p[8]) /\ r[9] = L!Exec(r[8], p[9])
      /\ r[10] = L!Exec(r[9], p[10]) /\ r[11] = L!Exec(r[10], p[11]) /\ r[12] = L!Exec(r[11], p[12])
  <2>1. Len(p) \in Nat
    OBVIOUS
  <2>2. /\ r[0] = LadFirst /\ \A k \in 1..12 : r[k] = L!Exec(r[k - 1], p[k])
    BY <2>1, LadRuns
  <2> HIDE DEF r
  <2> QED BY <2>2
<1> DEFINE ab == a /\ b
           ac == a /\ c
           acd == ac /\ d
           ace == ac /\ e
           x == acd \/ ace
           z == ab \/ x
<1>x. ab \in BOOLEAN /\ ac \in BOOLEAN /\ acd \in BOOLEAN /\ ace \in BOOLEAN /\ x \in BOOLEAN /\ z \in BOOLEAN
  OBVIOUS
<1>z. /\ ab <=> (a /\ b)
      /\ ac <=> (a /\ c)
      /\ acd <=> (ac /\ d)
      /\ ace <=> (ac /\ e)
      /\ x <=> (ace \/ acd)
      /\ z <=> (x \/ ab)
  OBVIOUS
<1>y. z <=> (a /\ (b \/ (c /\ (d \/ e))))
  OBVIOUS
<1>v. /\ a <=> LadOn(p[1][2])
      /\ b <=> LadOn(p[3][2])
      /\ c <=> LadOn(p[5][2])
      /\ d <=> LadOn(p[7][2])
      /\ e <=> LadOn(p[9][2])
  BY <1>a1, <1>a2, <1>a3, <1>a4, <1>a5, <1>p
<1> DEFINE s0 == << >>
           s1 == Append(s0, LadOpen(a))
           s2 == Append(s0, LadFrame(a, ab))
<1> HIDE DEF r, ab, ac, acd, ace, x, z
<1>s. /\ s0 \in Seq(LadFrames) /\ s1 \in Seq(LadFrames) /\ s2 \in Seq(LadFrames)
      /\ Len(s0) = 0 /\ Len(s1) = 1 /\ Len(s2) = 1
  BY <1>x DEF LadFrame, LadFrames, LadOpen
<1>0. PICK no \in BOOLEAN : LadMid(r[0], no, s0)
  <2> WITNESS FALSE \in BOOLEAN
  <2> QED BY <1>r DEF LadMid, LadFirst
<1> HIDE DEF s0, s1, s2
<1>1. LadMid(r[1], a, s0)
  <2>1. LadMid(L!Exec(r[0], p[1]), a, s0)
    BY <1>0, <1>p, <1>v, LadMidLoad
  <2> QED BY <2>1, <1>r
<1>2. LadMid(r[2], a, s1)
  <2>1. Len(s0) < 2 /\ p[2][1] = "START" /\ s0 \in Seq(LadFrames)
    BY <1>p, <1>s
  <2>2. LadMid(L!Exec(r[1], p[2]), a, Append(s0, LadOpen(a)))
    BY <1>1, <2>1, LadMidStart
  <2> QED BY <2>2, <1>r DEF s1
<1>3. LadMid(r[3], ab, s1)
  BY <1>2, <1>p, <1>r, <1>v, <1>x, <1>z, LadMidAnd
<1>4. LadMid(r[4], a, s2)
  <2>1. LadMid(r[3], ab, Append(s0, LadOpen(a)))
    BY <1>3 DEF s1
  <2>2. LadMid(L!Exec(r[3], p[4]), a, Append(s0, LadFrame(a, ab)))
    BY <2>1, <1>p, <1>s, <1>x, LadMidFirst
  <2> QED BY <2>2, <1>r DEF s2
<1>5. LadMid(r[5], ac, s2)
  BY <1>4, <1>p, <1>r, <1>v, <1>x, <1>z, LadMidAnd
<1>6. LadMid(r[6], ac, Append(s2, LadOpen(ac)))
  <2>1. Len(s2) < 2 /\ p[6][1] = "START" /\ s2 \in Seq(LadFrames) /\ ac \in BOOLEAN
    BY <1>p, <1>s, <1>x
  <2>2. LadMid(L!Exec(r[5], p[6]), ac, Append(s2, LadOpen(ac)))
    BY <1>5, <2>1, LadMidStart
  <2> QED BY <2>2, <1>r
<1>7. LadMid(r[7], acd, Append(s2, LadOpen(ac)))
  BY <1>6, <1>p, <1>r, <1>v, <1>x, <1>z, LadMidAnd
<1>8. LadMid(r[8], ac, Append(s2, LadFrame(ac, acd)))
  BY <1>7, <1>p, <1>r, <1>s, <1>x, LadMidFirst
<1>9. LadMid(r[9], ace, Append(s2, LadFrame(ac, acd)))
  BY <1>8, <1>p, <1>r, <1>v, <1>x, <1>z, LadMidAnd
<1>10. LadMid(r[10], x, s2)
  BY <1>9, <1>p, <1>r, <1>s, <1>x, <1>z, LadMidEnd
<1>11. LadMid(r[11], z, s0)
  <2>1. LadMid(r[10], x, Append(s0, LadFrame(a, ab)))
    BY <1>10 DEF s2
  <2>2. LadMid(L!Exec(r[10], p[11]), z, s0)
    <3>1. p[11][1] = "END" /\ s0 \in Seq(LadFrames) /\ a \in BOOLEAN
      BY <1>a1, <1>p, <1>s
    <3>2. ab \in BOOLEAN /\ x \in BOOLEAN /\ z \in BOOLEAN /\ (z <=> (x \/ ab))
      BY <1>x, <1>z
    <3> QED BY <2>1, <3>1, <3>2, LadMidEnd
  <2> QED BY <2>2, <1>r
<1>12. r[12].val[y] = L!Bit(r[11].acc)
  <2> DEFINE m == r[11]
  <2>1. r[12] = L!Coil(m, "ST", y)
    BY <1>p, <1>r DEF L!Exec, L!Contacts, L!Branches, L!Operations
  <2> HIDE DEF m
  <2>2. L!Coil(m, "ST", y) = [m EXCEPT !.val = [m.val EXCEPT ![y] = L!Bit(m.acc)]]
    BY DEF L!Coil
  <2>3. m = [acc |-> m.acc, stk |-> m.stk, val |-> m.val, tim |-> m.tim, cnt |-> m.cnt, since |-> m.since] /\ m.val = lVal
    BY <1>11 DEF LadMid, m
  <2>4. r[12].val[y] = L!Bit(m.acc)
    BY <2>1, <2>2, <2>3
  <2> QED BY <2>4 DEF m
<1>13. (r[12].val[y] = 1) <=> z
  BY <1>11, <1>12 DEF LadMid, L!Bit
<1>14. (r[12].val[y] = 1) <=> (a /\ (b \/ (c /\ (d \/ e))))
  BY <1>13, <1>y
<1> QED BY <1>14, <1>a1, <1>a2, <1>a3, <1>a4, <1>a5 DEF r

(* A scan of a program of this shape, from any state that is reached.      *)
LEMMA LadBlockStep ==
  ASSUME LadInv, L!Scan, Len(lProg) = 12,
         lProg = L!Nested(lProg[1][2], lProg[3][2], lProg[5][2], lProg[7][2], lProg[9][2], lProg[12][2])
  PROVE  (lVal'[lProg[12][2]] = 1)
           <=> (LadOn(lProg[1][2]) /\ (LadOn(lProg[3][2]) \/ (LadOn(lProg[5][2]) /\ (LadOn(lProg[7][2]) \/ LadOn(lProg[9][2])))))
<1>1. lVal' = L!Run(lProg)[12].val
  BY DEF L!Scan
<1>2. LadProgram(lProg) /\ LadAt(lProg, 0, LadFirst)
  BY LadKnown DEF LadInv
<1>3. lProg[12][2] \in lTags
  BY <1>2 DEF LadProgram
<1>4. lVal = [t \in lTags |-> lVal[t]]
  BY <1>2 DEF LadAt, LadMachine, LadFirst
<1>5. (L!Run(lProg)[12].val[lProg[12][2]] = 1)
           <=> (LadOn(lProg[1][2]) /\ (LadOn(lProg[3][2]) \/ (LadOn(lProg[5][2]) /\ (LadOn(lProg[7][2]) \/ LadOn(lProg[9][2])))))
  BY <1>3, <1>4, LadNested
<1> QED BY <1>1, <1>5

(* ladder_engine.c: for any programs, tags and deployments between the     *)
(* scans, a block inside a branch of a block passes power exactly when     *)
(* its contacts, in series and in parallel, do.                            *)
THEOREM BlocksPassPower == L!Spec => BlocksMean
<1> DEFINE Meant == L!Scan /\ Len(lProg) = 12 =>
          LET at(k) == lProg[k][2]
              on(k) == lVal[at(k)] > 0
          IN  lProg = L!Nested(at(1), at(3), at(5), at(7), at(9), at(12)) =>
                 (lVal'[at(12)] = 1) = (on(1) /\ (on(3) \/ (on(5) /\ (on(7) \/ on(9)))))
<1>1. LadInv /\ [L!Next]_(L!vars) => [Meant]_(L!vars)
  <2> SUFFICES ASSUME LadInv PROVE Meant
    OBVIOUS
  <2> QED BY LadBlockStep DEF LadOn
<1> QED BY <1>1, LadInit, LadNext, PTL DEF L!Spec, BlocksMean, L!BlocksMean
=============================================================================
