-------------------------- MODULE Adoption_proofs --------------------------
(* For any number of nodes, profiles and places: the registry never holds  *)
(* a node twice, between requests its flash copy is the table, and a node  *)
(* is ACTIVE only if it answered a claim.                                  *)
EXTENDS Adoption, TLAPS, WellFoundedInduction

Table == [Slots -> RegEntry]

Unique(table) ==
  \A s, t \in Slots :
    table[s].id = table[t].id /\ table[s].id # NoNode => s = t

Worth(e) == e.id # NoNode /\ (e.st # DISCOVERED \/ e.profile # NoProfile)

(* A blob: entries worth keeping, at most one for each node.               *)
Kept(S) ==
  /\ S \subseteq RegEntry
  /\ \A e \in S : Worth(e)
  /\ \A d, e \in S : d.id = e.id => d = e

(* Every set of places has a least one, so find and allocate are defined.  *)
LEMMA LowestIn ==
  ASSUME NEW S, S \subseteq Slots, S # {}
  PROVE  Lowest(S) \in S
  <1>1. S \subseteq Nat
    <2>1. SlotCount \in Nat
      BY AdoptionAssumption
    <2> QED BY <2>1 DEF Slots
  <1>2. PICK s \in S : \A t \in S : ~(<<t, s>> \in OpToRel(<, Nat))
    BY <1>1, WFMin, NatLessThanWellFounded, Zenon
  <1>3. ASSUME NEW t \in S PROVE s <= t
    <2>1. ~(t < s)
      <3>1. SUFFICES ASSUME t < s PROVE <<t, s>> \in OpToRel(<, Nat)
        BY <1>2
      <3>2. <<t, s>> \in Nat \X Nat
        BY <1>1
      <3>3. <<t, s>>[1] < <<t, s>>[2]
        BY <3>1
      <3> QED BY <3>2, <3>3, Zenon DEF OpToRel
    <2> QED BY <2>1, <1>1
  <1> QED BY <1>3 DEF Lowest

(* find_locked returns the only entry of a node.                           *)
LEMMA FindsIt ==
  ASSUME NEW table, Unique(table), NEW k \in Slots, table[k].id # NoNode
  PROVE  Lowest(Holding(table, table[k].id)) = k
  <1>1. Holding(table, table[k].id) = {k}
    BY DEF Holding, Unique
  <1> QED BY <1>1, LowestIn

LEMMA HeldSlot ==
  ASSUME NEW table, NEW f, Holding(table, f) # {}
  PROVE  /\ Lowest(Holding(table, f)) \in Slots
         /\ table[Lowest(Holding(table, f))].id = f
  <1>1. Lowest(Holding(table, f)) \in Holding(table, f)
    BY LowestIn DEF Holding
  <1> QED BY <1>1 DEF Holding

LEMMA BlobMember ==
  ASSUME NEW table, NEW e
  PROVE  e \in Blob(table) <=> \E s \in Slots : table[s] = e /\ Worth(e)
  BY DEF Blob, Worth

LEMMA BlobKept ==
  ASSUME NEW table \in Table, Unique(table)
  PROVE  Kept(Blob(table))
  BY BlobMember DEF Kept, Unique, Table, Worth

(* Writing the entry of a node leaves every other place alone.             *)
LEMMA SetKeepsUnique ==
  ASSUME NEW table \in Table, Unique(table), NEW k \in Slots,
         NEW e \in RegEntry, e.id = table[k].id
  PROVE  /\ [table EXCEPT ![k] = e] \in Table
         /\ Unique([table EXCEPT ![k] = e])
  BY DEF Table, Unique

(* A node that is heard takes a free place, and no blob shows it.          *)
LEMMA EntryAdded ==
  ASSUME NEW table \in Table, Unique(table), NEW f \in Fields
  PROVE  /\ WithEntry(table, f) \in Table
         /\ Unique(WithEntry(table, f))
         /\ Blob(WithEntry(table, f)) = Blob(table)
         /\ \A k \in Slots : table[k].id # NoNode =>
              /\ WithEntry(table, f)[k] = table[k]
              /\ \A e : Blob([WithEntry(table, f) EXCEPT ![k] = e])
                          = Blob([table EXCEPT ![k] = e])
  <1>1. CASE Holding(table, f) # {} \/ Free(table) = {}
    BY <1>1 DEF WithEntry
  <1>2. CASE ~(Holding(table, f) # {} \/ Free(table) = {})
    <2> DEFINE z == Lowest(Free(table))
               b == [Blank EXCEPT !.id = f]
    <2>1. z \in Slots /\ table[z].id = NoNode
      BY <1>2, HeldSlot DEF Free
    <2>2. WithEntry(table, f) = [table EXCEPT ![z] = b]
      BY <1>2 DEF WithEntry
    <2>3. b \in RegEntry /\ b.id = f /\ f # NoNode /\ ~Worth(b)
      <3>1. f # NoNode
        BY AdoptionAssumption DEF NoNode
      <3>2. b = [id |-> f, st |-> 0, profile |-> NoProfile]
        BY DEF Blank, DISCOVERED
      <3>3. b \in RegEntry /\ b.id = f
        BY <3>2 DEF RegEntry
      <3>4. ~Worth(b)
        BY <3>2 DEF Worth, DISCOVERED
      <3> QED BY <3>1, <3>3, <3>4
    <2>4. \A s \in Slots : table[s].id # f
      BY <1>2 DEF Holding
    <2> HIDE DEF z, b
    <2>5. WithEntry(table, f) \in Table
      BY <2>1, <2>2, <2>3 DEF Table
    <2>6. Unique(WithEntry(table, f))
      BY <2>1, <2>2, <2>3, <2>4 DEF Table, Unique
    <2>7. ~Worth(table[z])
      BY <2>1 DEF Worth
    <2>8. Blob(WithEntry(table, f)) = Blob(table)
      <3>1. ASSUME NEW e
            PROVE  e \in Blob(WithEntry(table, f)) <=> e \in Blob(table)
        <4>1. /\ WithEntry(table, f)[z] = b
              /\ \A s \in Slots \ {z} : WithEntry(table, f)[s] = table[s]
          BY <2>1, <2>2 DEF Table
        <4>2. e \in Blob(WithEntry(table, f))
                <=> \E s \in Slots : WithEntry(table, f)[s] = e /\ Worth(e)
          BY BlobMember
        <4>3. e \in Blob(table)
                <=> \E s \in Slots : table[s] = e /\ Worth(e)
          BY BlobMember
        <4> QED BY <4>1, <4>2, <4>3, <2>1, <2>3, <2>7
      <3> QED BY <3>1
    <2>9. ASSUME NEW k \in Slots, table[k].id # NoNode, NEW e
          PROVE  /\ WithEntry(table, f)[k] = table[k]
                 /\ Blob([WithEntry(table, f) EXCEPT ![k] = e])
                      = Blob([table EXCEPT ![k] = e])
      <3>1. k # z
        BY <2>1, <2>9
      <3>2. ASSUME NEW d
            PROVE  d \in Blob([WithEntry(table, f) EXCEPT ![k] = e])
                     <=> d \in Blob([table EXCEPT ![k] = e])
        <4>1. \A s \in Slots \ {z} : [WithEntry(table, f) EXCEPT ![k] = e][s]
                                       = [table EXCEPT ![k] = e][s]
          BY <2>1, <2>2, <3>1 DEF Table
        <4>2. /\ [WithEntry(table, f) EXCEPT ![k] = e][z] = b
              /\ [table EXCEPT ![k] = e][z] = table[z]
          BY <2>1, <2>2, <3>1 DEF Table
        <4>3. d \in Blob([WithEntry(table, f) EXCEPT ![k] = e])
                <=> \E s \in Slots :
                      [WithEntry(table, f) EXCEPT ![k] = e][s] = d /\ Worth(d)
          BY BlobMember
        <4>4. d \in Blob([table EXCEPT ![k] = e])
                <=> \E s \in Slots : [table EXCEPT ![k] = e][s] = d /\ Worth(d)
          BY BlobMember
        <4> QED BY <4>1, <4>2, <4>3, <4>4, <2>1, <2>3, <2>7
      <3> QED BY <2>1, <2>2, <3>1, <3>2 DEF Table
    <2> QED BY <2>5, <2>6, <2>8, <2>9
  <1> QED BY <1>1, <1>2

LEMMA MovedKeepsUnique ==
  ASSUME NEW table \in Table, Unique(table), NEW old \in Fields,
         NEW new \in Fields, old # new, Holding(table, old) # {},
         Holding(table, new) # {} \/ Free(table) # {}
  PROVE  Moved(table, old, new) \in Table /\ Unique(Moved(table, old, new))
  <1> DEFINE o == Lowest(Holding(table, old))
             n == IF Holding(table, new) # {} THEN Lowest(Holding(table, new))
                  ELSE Lowest(Free(table))
             en == [table[o] EXCEPT !.id = new]
             eo == [table[o] EXCEPT !.id = NoNode]
  <1>1. o \in Slots /\ table[o].id = old
    BY HeldSlot
  <1>2. n \in Slots /\ (table[n].id = new \/ table[n].id = NoNode)
    BY HeldSlot DEF Free
  <1>3. table[n].id = NoNode => \A s \in Slots : table[s].id # new
    <2>1. CASE Holding(table, new) # {}
      BY <2>1, HeldSlot, AdoptionAssumption DEF NoNode
    <2>2. CASE Holding(table, new) = {}
      BY <2>2 DEF Holding
    <2> QED BY <2>1, <2>2
  <1>4. /\ en \in RegEntry /\ en.id = new
        /\ eo \in RegEntry /\ eo.id = NoNode
    BY <1>1 DEF Table, RegEntry
  <1>5. Moved(table, old, new) = [table EXCEPT ![n] = en, ![o] = eo]
    BY DEF Moved
  <1>6. old # NoNode /\ new # NoNode
    BY AdoptionAssumption DEF NoNode
  <1> HIDE DEF o, n, en, eo
  <1>7. n # o
    BY <1>1, <1>2, <1>6
  <1>8. Moved(table, old, new) \in Table
    BY <1>1, <1>2, <1>4, <1>5 DEF Table
  <1>9. Unique(Moved(table, old, new))
    <2>1. ASSUME NEW s \in Slots
          PROVE  /\ s = n => Moved(table, old, new)[s].id = new
                 /\ s = o => Moved(table, old, new)[s].id = NoNode
                 /\ s # n /\ s # o =>
                      Moved(table, old, new)[s].id = table[s].id
      BY <1>1, <1>2, <1>4, <1>5, <1>7 DEF Table
    <2>2. \A s \in Slots \ {n} : table[s].id # new
      BY <1>2, <1>3, <1>6 DEF Unique
    <2> QED BY <1>2, <2>1, <2>2 DEF Unique
  <1> QED BY <1>8, <1>9

(* A start loads the blob as it was saved.                                 *)
LEMMA LoadedIsBlob ==
  ASSUME Kept(nvs), NEW table \in Loaded
  PROVE  table \in Table /\ Unique(table) /\ Blob(table) = nvs
  <1>1. Blank \in RegEntry /\ Blank.id = NoNode /\ ~Worth(Blank)
    BY DEF Blank, RegEntry, Worth, DISCOVERED
  <1>2. /\ \A s \in Slots : table[s] \in nvs \cup {Blank}
        /\ \A e \in nvs : \E s \in Slots : table[s] = e
        /\ \A s, t \in Slots : table[s] = table[t] /\ s # t => table[s] = Blank
        /\ table \in [Slots -> nvs \cup {Blank}]
    BY DEF Loaded
  <1>3. table \in Table
    BY <1>1, <1>2 DEF Kept, Table
  <1>4. Unique(table)
    BY <1>1, <1>2 DEF Kept, Unique
  <1>5. ASSUME NEW e PROVE e \in Blob(table) <=> e \in nvs
    BY <1>1, <1>2, BlobMember DEF Kept
  <1> QED BY <1>3, <1>4, <1>5
-----------------------------------------------------------------------------
(* The inductive invariant.  A request that is waiting for its write knows *)
(* the entry it replaced; flash holds the table with that entry put back.  *)

Ops == {"adopt", "configure", "activate", "revoke"}

Http == [pc : {"idle", "wait", "call", "save"},
         op : Ops \cup {"none", "replace"},
         id : Fields \cup {NoNode}, new : Fields \cup {NoNode},
         profile : Profiles \cup {NoProfile}, claim : BOOLEAN,
         old : RegEntry, blob : SUBSET RegEntry]

HttpOk ==
  /\ http \in Http
  /\ http.pc # "idle" => http.id \in Fields
  /\ http.pc \in {"call", "save"} => http.op # "none"
  /\ http.op = "replace" => /\ http.new \in Fields /\ http.new # http.id
                            /\ ~http.claim /\ setup.replace
  /\ http.pc = "save" => http.old.id = http.id

Durable ==
  ~(setup.replace /\ setup.fails) =>
    /\ http.pc # "save" => nvs = Blob(entries)
    /\ http.pc = "save" => http.blob = Blob(entries)
    /\ http.pc = "save" /\ http.op # "replace" =>
         \E k \in Slots : /\ entries[k].id = http.id
                          /\ nvs = Blob([entries EXCEPT ![k] = http.old])

RegInv ==
  /\ entries \in Table /\ Unique(entries)
  /\ HttpOk
  /\ Kept(nvs) /\ Kept(http.blob)
  /\ Durable

LEMMA IdleOk ==
  /\ Idle \in Http /\ Idle.pc = "idle" /\ Idle.op = "none"
  /\ Idle.blob = {} /\ Blank \in RegEntry
  BY DEF Idle, Http, Ops, Blank, RegEntry, DISCOVERED

LEMMA ReturnedOk ==
  ASSUME HttpOk, http.pc \in {"call", "save"}
  PROVE  /\ Returned \in Http
         /\ Returned.pc \in {"idle", "call"}
         /\ Returned.pc = "call" => Returned.id = http.id
                                    /\ Returned.op \in Ops
         /\ Returned.op # "replace"
         /\ Returned.blob = {}
  <1>1. CASE ~http.claim \/ http.op = "activate"
    BY <1>1, IdleOk DEF Returned
  <1>2. CASE ~(~http.claim \/ http.op = "activate")
    <2> DEFINE o == IF http.op = "adopt" THEN "configure" ELSE "activate"
    <2>1. Returned = [http EXCEPT !.pc = "call", !.old = Blank, !.blob = {},
                                  !.op = o]
      BY <1>2 DEF Returned
    <2>2. http \in Http
      BY DEF HttpOk
    <2>3. o \in Ops
      BY DEF Ops
    <2> HIDE DEF o
    <2> QED BY <2>1, <2>2, <2>3, IdleOk DEF Http, Ops
  <1> QED BY <1>1, <1>2

LEMMA ChangedType ==
  ASSUME NEW op \in Ops, NEW e \in RegEntry,
         NEW p \in Profiles \cup {NoProfile}
  PROVE  Changed(op, e, p) \in RegEntry /\ Changed(op, e, p).id = e.id
  <1>1. CASE op = "adopt"
    BY <1>1 DEF Changed, RegEntry, ADOPTED
  <1>2. CASE op = "configure"
    <2> DEFINE v == IF e.st >= ACTIVE THEN ACTIVE ELSE CONFIGURED
    <2>1. Changed(op, e, p) = [e EXCEPT !.profile = p, !.st = v]
      BY <1>2 DEF Changed
    <2>2. v \in 0 .. 3
      BY DEF ACTIVE, CONFIGURED
    <2> HIDE DEF v
    <2> QED BY <2>1, <2>2 DEF RegEntry
  <1>3. CASE op = "activate"
    BY <1>3 DEF Changed, RegEntry, ACTIVE
  <1>4. CASE op = "revoke"
    <2>1. Changed(op, e, p) = [e EXCEPT !.st = 0, !.profile = NoProfile]
      BY <1>4 DEF Changed, DISCOVERED
    <2>2. 0 \in 0 .. 3
      OBVIOUS
    <2> QED BY <2>1, <2>2 DEF RegEntry
  <1> QED BY <1>1, <1>2, <1>3, <1>4 DEF Ops

LEMMA SavingOk ==
  ASSUME HttpOk, NEW table \in Table, Unique(table), NEW old \in RegEntry,
         old.id = http.id
  PROVE  /\ Saving(table, old) \in Http
         /\ Saving(table, old).pc = "save" /\ Saving(table, old).old = old
         /\ Saving(table, old).blob = Blob(table)
         /\ Saving(table, old).op = http.op /\ Saving(table, old).id = http.id
         /\ Saving(table, old).new = http.new
         /\ Saving(table, old).claim = http.claim
  <1>1. http \in Http
    BY DEF HttpOk
  <1>2. Blob(table) \subseteq RegEntry
    BY BlobKept DEF Kept
  <1> QED BY <1>1, <1>2 DEF Saving, Http

LEMMA InitReg == Init => RegInv
  <1> SUFFICES ASSUME Init PROVE RegInv
    OBVIOUS
  <1>1. /\ entries = [s \in Slots |-> Blank] /\ nvs = {} /\ http = Idle
    BY DEF Init
  <1>2. entries \in Table /\ \A s \in Slots : entries[s].id = NoNode
    BY <1>1, IdleOk DEF Table, Blank
  <1>3. Unique(entries)
    BY <1>2 DEF Unique
  <1>4. Blob(entries) = {}
    <2>1. ASSUME NEW e PROVE e \notin Blob(entries)
      BY <1>2, BlobMember DEF Worth
    <2> QED BY <2>1
  <1>5. Kept({})
    BY DEF Kept
  <1>6. HttpOk
    BY <1>1, IdleOk DEF HttpOk
  <1>7. Durable
    BY <1>1, <1>4, IdleOk DEF Durable
  <1> QED BY <1>1, <1>2, <1>3, <1>5, <1>6, <1>7, IdleOk DEF RegInv

(* A step that leaves the registry alone and starts or ends a request.     *)
LEMMA HttpStep ==
  ASSUME RegInv, UNCHANGED <<regVars, setup>>, http.pc # "save",
         http' \in Http, http'.pc # "save", http'.blob = {},
         http'.pc # "idle" => http'.id \in Fields,
         http'.pc = "call" => http'.op # "none",
         http'.op = "replace" => /\ http'.new \in Fields
                                 /\ http'.new # http'.id
                                 /\ ~http'.claim /\ setup.replace
  PROVE  RegInv'
  <1>1. UNCHANGED <<entries, nvs, setup>>
    BY DEF regVars
  <1>2. HttpOk'
    BY <1>1 DEF HttpOk
  <1>3. Kept(http'.blob)
    BY DEF Kept
  <1>4. Durable'
    BY <1>1 DEF Durable, RegInv, Blob
  <1>5. (entries \in Table /\ Unique(entries) /\ Kept(nvs))'
    BY <1>1 DEF RegInv, Table, Unique, Kept
  <1> QED BY <1>2, <1>3, <1>4, <1>5 DEF RegInv

(* The steps of receivers, networks and field nodes.                       *)
LEMMA ElsewhereStep ==
  ASSUME RegInv, UNCHANGED <<entries, nvs, http, setup>>
  PROVE  RegInv'
  BY DEF RegInv, HttpOk, Durable, Unique, Kept, Blob

LEMMA DiscoverStep ==
  ASSUME RegInv, NEW f \in Fields, Discover(f)
  PROVE  RegInv'
  <1>1. /\ entries' = WithEntry(entries, f)
        /\ UNCHANGED <<nvs, http, setup>>
    BY DEF Discover, bounds
  <1>2. /\ entries' \in Table /\ Unique(entries')
        /\ Blob(entries') = Blob(entries)
        /\ \A k \in Slots : entries[k].id # NoNode =>
             /\ entries'[k] = entries[k]
             /\ \A e : Blob([entries' EXCEPT ![k] = e])
                         = Blob([entries EXCEPT ![k] = e])
    <2>1. entries \in Table /\ Unique(entries)
      BY DEF RegInv
    <2>2. /\ WithEntry(entries, f) \in Table
          /\ Unique(WithEntry(entries, f))
          /\ Blob(WithEntry(entries, f)) = Blob(entries)
          /\ \A k \in Slots : entries[k].id # NoNode =>
               /\ WithEntry(entries, f)[k] = entries[k]
               /\ \A e : Blob([WithEntry(entries, f) EXCEPT ![k] = e])
                           = Blob([entries EXCEPT ![k] = e])
      BY <2>1, EntryAdded, Zenon
    <2> QED BY <1>1, <2>2, Zenon
  <1>3. HttpOk'
    BY <1>1 DEF RegInv, HttpOk
  <1>4. Durable'
    <2> SUFFICES ASSUME ~(setup.replace /\ setup.fails) PROVE
          /\ http.pc # "save" => nvs = Blob(entries')
          /\ http.pc = "save" => http.blob = Blob(entries')
          /\ http.pc = "save" /\ http.op # "replace" =>
               \E k \in Slots :
                 /\ entries'[k].id = http.id
                 /\ nvs = Blob([entries' EXCEPT ![k] = http.old])
      BY <1>1 DEF Durable
    <2>1. ASSUME http.pc = "save", http.op # "replace"
          PROVE  \E k \in Slots :
                   /\ entries'[k].id = http.id
                   /\ nvs = Blob([entries' EXCEPT ![k] = http.old])
      <3>1. PICK k \in Slots : /\ entries[k].id = http.id
                               /\ nvs = Blob([entries EXCEPT ![k] = http.old])
        BY <2>1 DEF RegInv, Durable
      <3>2. http.id # NoNode
        BY <2>1, AdoptionAssumption DEF RegInv, HttpOk, NoNode
      <3> QED BY <3>1, <3>2, <1>2
    <2> QED BY <2>1, <1>2 DEF RegInv, Durable
  <1>5. Kept(nvs') /\ Kept(http'.blob)
    BY <1>1 DEF RegInv
  <1> QED BY <1>2, <1>3, <1>4, <1>5 DEF RegInv

(* The locked part of a call, with the entry at place k replaced.          *)
LEMMA CallChangeStep ==
  ASSUME RegInv, CallChange
  PROVE  RegInv'
  <1>1. /\ http.pc = "call" /\ http.op \in Ops /\ http.id \in Fields
        /\ http \in Http /\ UNCHANGED <<nvs, setup>>
    <2>1. /\ http.pc = "call" /\ http.op # "replace"
          /\ UNCHANGED <<nvs, setup>>
      BY DEF CallChange, bounds
    <2>2. http \in Http /\ http.id \in Fields /\ http.op # "none"
      BY <2>1 DEF RegInv, HttpOk
    <2>3. http.op \in Ops \cup {"none", "replace"}
      BY <2>2 DEF Http
    <2> QED BY <2>1, <2>2, <2>3
  <1>2. PICK table \in Seeded(http.op, http.id) :
          IF ~Allowed(http.op, table, http.id)
          THEN entries' = table /\ http' = Returned
          ELSE LET s == Lowest(Holding(table, http.id))
                   new == Changed(http.op, table[s], http.profile)
               IN  /\ entries' = [table EXCEPT ![s] = new]
                   /\ http' = Saving([table EXCEPT ![s] = new], table[s])
    BY DEF CallChange
  <1>3. /\ table \in Table /\ Unique(table) /\ Blob(table) = Blob(entries)
    BY <1>1, EntryAdded DEF Seeded, RegInv
  <1>4. ~(setup.replace /\ setup.fails) => nvs = Blob(table)
    BY <1>1, <1>3 DEF RegInv, Durable
  <1>5. Kept(nvs') /\ Kept({})
    BY <1>1 DEF RegInv, Kept
  <1>6. CASE ~Allowed(http.op, table, http.id)
    <2>1. entries' = table /\ http' = Returned
      BY <1>2, <1>6
    <2>2. /\ http' \in Http /\ http'.pc \in {"idle", "call"}
          /\ http'.pc = "call" => http'.id = http.id /\ http'.op \in Ops
          /\ http'.op # "replace" /\ http'.blob = {}
      BY <1>1, <2>1, ReturnedOk DEF RegInv
    <2>3. HttpOk'
      BY <1>1, <2>2 DEF HttpOk, Ops
    <2>4. Durable'
      BY <1>1, <1>4, <2>1, <2>2 DEF Durable
    <2> QED BY <1>3, <1>5, <2>1, <2>2, <2>3, <2>4 DEF RegInv
  <1>7. CASE Allowed(http.op, table, http.id)
    <2> DEFINE s == Lowest(Holding(table, http.id))
               new == Changed(http.op, table[s], http.profile)
               t2 == [table EXCEPT ![s] = new]
    <2>1. s \in Slots /\ table[s].id = http.id
      BY <1>7, HeldSlot DEF Allowed
    <2>2. entries' = t2 /\ http' = Saving(t2, table[s])
      BY <1>2, <1>7
    <2>3. table[s] \in RegEntry /\ http.profile \in Profiles \cup {NoProfile}
      BY <1>1, <1>3, <2>1 DEF Table, Http
    <2>4. new \in RegEntry /\ new.id = table[s].id
      BY <1>1, <2>3, ChangedType
    <2> HIDE DEF s, new
    <2>5. t2 \in Table /\ Unique(t2)
      BY <1>3, <2>1, <2>4, SetKeepsUnique
    <2>6. [t2 EXCEPT ![s] = table[s]] = table /\ t2[s] = new
      BY <1>3, <2>1 DEF Table
    <2> HIDE DEF t2
    <2>7. /\ http' \in Http /\ http'.pc = "save" /\ http'.old = table[s]
          /\ http'.blob = Blob(t2) /\ http'.op = http.op
          /\ http'.id = http.id /\ http'.new = http.new
          /\ http'.claim = http.claim
      BY <2>1, <2>2, <2>3, <2>5, SavingOk DEF RegInv
    <2>8. HttpOk'
      BY <1>1, <2>1, <2>7 DEF HttpOk, Ops
    <2>9. Durable'
      <3>1. \E k \in Slots :
              /\ entries'[k].id = http'.id
              /\ ~(setup.replace /\ setup.fails) =>
                   nvs' = Blob([entries' EXCEPT ![k] = http'.old])
        BY <1>1, <1>4, <2>1, <2>2, <2>4, <2>6, <2>7
      <3> QED BY <1>1, <2>2, <2>7, <3>1 DEF Durable
    <2>10. Kept(http'.blob)
      BY <2>5, <2>7, BlobKept
    <2> QED BY <1>5, <2>2, <2>5, <2>8, <2>9, <2>10 DEF RegInv
  <1> QED BY <1>6, <1>7

LEMMA CallReplaceStep ==
  ASSUME RegInv, CallReplace
  PROVE  RegInv'
  <1>1. /\ http.pc = "call" /\ http.op = "replace" /\ http.id \in Fields
        /\ http.new \in Fields /\ http.new # http.id /\ setup.replace
        /\ ~http.claim /\ http \in Http /\ UNCHANGED <<nvs, setup>>
    BY DEF CallReplace, bounds, RegInv, HttpOk
  <1>2. Kept(nvs') /\ Kept({}) /\ entries \in Table /\ Unique(entries)
    BY <1>1 DEF RegInv, Kept
  <1> DEFINE bad == \/ Holding(entries, http.id) = {}
                    \/ Holding(entries, http.new) = {} /\ Free(entries) = {}
  <1>3. CASE bad
    <2>1. entries' = entries /\ http' = Returned
      BY <1>3 DEF CallReplace
    <2>2. http' = Idle
      BY <1>1, <2>1 DEF Returned
    <2>3. HttpOk'
      BY <2>2, IdleOk DEF HttpOk
    <2>4. Durable'
      BY <1>1, <2>1, <2>2, IdleOk DEF Durable, RegInv
    <2> QED BY <1>2, <2>1, <2>2, <2>3, <2>4, IdleOk DEF RegInv
  <1>4. CASE ~bad
    <2> DEFINE t2 == Moved(entries, http.id, http.new)
               old == entries[Lowest(Holding(entries, http.id))]
    <2>1. entries' = t2 /\ http' = Saving(t2, old)
      BY <1>4 DEF CallReplace
    <2>2. t2 \in Table /\ Unique(t2)
      BY <1>1, <1>2, <1>4, MovedKeepsUnique
    <2>3. old \in RegEntry /\ old.id = http.id
      BY <1>2, <1>4, HeldSlot DEF Table
    <2> HIDE DEF t2, old
    <2>4. /\ http' \in Http /\ http'.pc = "save" /\ http'.old = old
          /\ http'.blob = Blob(t2) /\ http'.op = http.op
          /\ http'.id = http.id /\ http'.new = http.new
          /\ http'.claim = http.claim
      BY <2>1, <2>2, <2>3, SavingOk DEF RegInv
    <2>5. HttpOk'
      BY <1>1, <2>3, <2>4 DEF HttpOk
    <2>6. Durable'
      BY <1>1, <2>1, <2>4 DEF Durable
    <2>7. Kept(http'.blob)
      BY <2>2, <2>4, BlobKept
    <2> QED BY <1>2, <2>1, <2>2, <2>5, <2>6, <2>7 DEF RegInv
  <1> QED BY <1>3, <1>4

LEMMA SaveStep ==
  ASSUME RegInv, SaveOk \/ SaveFails
  PROVE  RegInv'
  <1>1. /\ http.pc = "save" /\ http' = Returned /\ setup' = setup
        /\ http.id \in Fields /\ http.old \in RegEntry
        /\ http.old.id = http.id /\ http.id # NoNode
    BY AdoptionAssumption
       DEF SaveOk, SaveFails, bounds, RegInv, HttpOk, Http, NoNode
  <1>2. /\ http' \in Http /\ http'.pc \in {"idle", "call"}
        /\ http'.pc = "call" => http'.id = http.id /\ http'.op \in Ops
        /\ http'.op # "replace" /\ http'.blob = {}
    BY <1>1, ReturnedOk DEF RegInv
  <1>3. HttpOk'
    BY <1>1, <1>2 DEF HttpOk, Ops
  <1>4. Kept(http'.blob)
    BY <1>2 DEF Kept
  <1>5. CASE SaveOk
    <2>1. nvs' = http.blob /\ entries' = entries
      BY <1>5 DEF SaveOk
    <2>2. Durable'
      BY <1>1, <1>2, <2>1 DEF Durable, RegInv
    <2> QED BY <1>3, <1>4, <2>1, <2>2 DEF RegInv
  <1>6. CASE SaveFails
    <2>1. /\ entries' = Restored(entries, http.id, http.old)
          /\ nvs' = nvs /\ setup.fails
      BY <1>6 DEF SaveFails
    <2>2. entries \in Table /\ Unique(entries)
      BY DEF RegInv
    <2>3. entries' \in Table /\ Unique(entries')
      <3>1. CASE Holding(entries, http.id) = {}
        BY <2>1, <2>2, <3>1 DEF Restored
      <3>2. CASE Holding(entries, http.id) # {}
        BY <1>1, <2>1, <2>2, <3>2, HeldSlot, SetKeepsUnique DEF Restored
      <3> QED BY <3>1, <3>2
    <2>4. ASSUME ~(setup.replace /\ setup.fails) PROVE nvs = Blob(entries')
      <3>1. http.op # "replace"
        BY <2>1, <2>4 DEF RegInv, HttpOk
      <3>2. PICK k \in Slots : /\ entries[k].id = http.id
                               /\ nvs = Blob([entries EXCEPT ![k] = http.old])
        BY <1>1, <2>4, <3>1 DEF RegInv, Durable
      <3>3. Lowest(Holding(entries, http.id)) = k
        BY <1>1, <2>2, <3>2, FindsIt
      <3>4. Holding(entries, http.id) # {}
        BY <3>2 DEF Holding
      <3> QED BY <2>1, <3>2, <3>3, <3>4 DEF Restored
    <2>5. Durable'
      BY <1>1, <1>2, <2>1, <2>4 DEF Durable
    <2> QED BY <1>3, <1>4, <2>1, <2>3, <2>5 DEF RegInv
  <1> QED BY <1>5, <1>6

LEMMA RestartStep ==
  ASSUME RegInv, GatewayRestart
  PROVE  RegInv'
  <1>1. entries' \in Loaded /\ http' = Idle /\ nvs' = nvs /\ setup' = setup
    BY DEF GatewayRestart
  <1>2. /\ entries' \in Table /\ Unique(entries') /\ Blob(entries') = nvs
    BY <1>1, LoadedIsBlob DEF RegInv
  <1>3. HttpOk'
    BY <1>1, IdleOk DEF HttpOk
  <1>4. Durable'
    BY <1>1, <1>2, IdleOk DEF Durable
  <1>5. Kept(nvs') /\ Kept(http'.blob)
    BY <1>1, IdleOk DEF RegInv, Kept
  <1> QED BY <1>2, <1>3, <1>4, <1>5 DEF RegInv

(* Next preserves the invariant, action by action.                         *)
LEMMA StepReg == RegInv /\ [Next]_vars => RegInv'
  <1> SUFFICES ASSUME RegInv, [Next]_vars PROVE RegInv'
    OBVIOUS
  <1> USE DEF vars, regVars, bounds
  <1>1. ASSUME NEW f \in Fields, Discover(f) PROVE RegInv'
    BY <1>1, DiscoverStep
  <1>2. ASSUME NEW f \in Fields, NodeReset(f) \/ NodeRestart(f) PROVE RegInv'
    BY <1>2, ElsewhereStep DEF NodeReset, NodeRestart
  <1>3. ASSUME NEW f \in Fields, NEW op \in Ops,
               NEW p \in Profiles \cup {NoProfile}, Operator(op, f, p)
        PROVE  RegInv'
    <2>1. /\ http = Idle /\ UNCHANGED <<entries, nvs, setup>>
          /\ http' = [Idle EXCEPT !.pc = "call", !.op = op, !.id = f,
                                  !.profile = p]
      BY <1>3 DEF Operator
    <2>2. http' \in Http
      BY <2>1, IdleOk DEF Http
    <2>3. /\ http'.pc = "call" /\ http'.op = op /\ http'.id = f
          /\ http'.blob = {}
      BY <2>1, IdleOk DEF Http
    <2> QED BY <2>1, <2>2, <2>3, IdleOk, HttpStep DEF Ops
  <1>4. ASSUME NEW f \in Fields, NEW p \in Profiles, Claim(f, p) PROVE RegInv'
    <2>1. /\ http = Idle /\ UNCHANGED <<entries, nvs, setup>>
          /\ http' = [Idle EXCEPT !.pc = "wait", !.id = f, !.profile = p,
                                  !.claim = TRUE]
      BY <1>4 DEF Claim
    <2>2. http' \in Http
      BY <2>1, IdleOk DEF Http
    <2>3. /\ http'.pc = "wait" /\ http'.op = "none" /\ http'.id = f
          /\ http'.blob = {}
      BY <2>1, IdleOk DEF Http
    <2> QED BY <2>1, <2>2, <2>3, IdleOk, HttpStep
  <1>5. ASSUME NEW f \in Fields, NEW g \in Fields, Replace(f, g) PROVE RegInv'
    <2>1. /\ http = Idle /\ UNCHANGED <<entries, nvs, setup>>
          /\ f # g /\ setup.replace
          /\ http' = [Idle EXCEPT !.pc = "call", !.op = "replace", !.id = f,
                                  !.new = g]
      BY <1>5 DEF Replace
    <2>2. http' \in Http
      BY <2>1, IdleOk DEF Http
    <2>3. /\ http'.pc = "call" /\ http'.op = "replace" /\ http'.id = f
          /\ http'.new = g /\ http'.blob = {} /\ http'.claim = FALSE
      BY <2>1, IdleOk DEF Http, Idle
    <2> QED BY <2>1, <2>2, <2>3, IdleOk, HttpStep
  <1>6. ASSUME NEW msg \in net,
               AnswerChecked(msg) \/ Lose(msg) \/ NodeClaimed(msg)
                 \/ NodeRefuses(msg) \/ NodeClaimFails(msg)
        PROVE  RegInv'
    BY <1>6, ElsewhereStep
       DEF AnswerChecked, Lose, NodeClaimed, NodeRefuses, NodeClaimFails
  <1>7. CASE CallChange
    BY <1>7, CallChangeStep
  <1>8. CASE CallReplace
    BY <1>8, CallReplaceStep
  <1>9. CASE SaveOk \/ SaveFails
    BY <1>9, SaveStep
  <1>10. CASE ClaimAnswered
    <2>1. /\ http.pc = "wait" /\ UNCHANGED <<entries, nvs, setup>>
          /\ \/ http' = [http EXCEPT !.pc = "call", !.op = "adopt"]
             \/ http' = Idle
      BY <1>10 DEF ClaimAnswered
    <2>2. CASE http' = Idle
      BY <2>1, <2>2, IdleOk, HttpStep
    <2>3. CASE http' = [http EXCEPT !.pc = "call", !.op = "adopt"]
      <3>1. http \in Http /\ http.id \in Fields
        BY <2>1 DEF RegInv, HttpOk
      <3>2. http' \in Http
        BY <2>3, <3>1 DEF Http, Ops
      <3>3. /\ http'.pc = "call" /\ http'.op = "adopt" /\ http'.id = http.id
            /\ http'.blob = http.blob /\ http'.claim = http.claim
        BY <2>3, <3>1 DEF Http
      <3>4. HttpOk'
        BY <2>1, <3>1, <3>2, <3>3 DEF HttpOk
      <3>5. Durable'
        BY <2>1, <3>3 DEF RegInv, Durable
      <3> QED BY <2>1, <3>3, <3>4, <3>5 DEF RegInv
    <2> QED BY <2>1, <2>2, <2>3
  <1>11. CASE ClaimTimeout
    <2>1. /\ http.pc = "wait" /\ http' = Idle
          /\ UNCHANGED <<entries, nvs, setup>>
      BY <1>11 DEF ClaimTimeout
    <2> QED BY <2>1, IdleOk, HttpStep
  <1>12. CASE AnswerUsed
    BY <1>12, ElsewhereStep DEF AnswerUsed
  <1>13. CASE GatewayRestart
    BY <1>13, RestartStep
  <1>14. CASE UNCHANGED vars
    BY <1>14, ElsewhereStep
  <1>15. CASE CallRefused
    <2>1. /\ http.pc = "call" /\ http.op = "configure" /\ http' = Returned
          /\ UNCHANGED <<entries, nvs, setup>>
      BY <1>15 DEF CallRefused
    <2>2. /\ http' \in Http /\ http'.pc \in {"idle", "call"}
          /\ http'.pc = "call" => http'.id = http.id /\ http'.op \in Ops
          /\ http'.op # "replace" /\ http'.blob = {}
      BY <2>1, ReturnedOk DEF RegInv
    <2>3. http.id \in Fields
      BY <2>1 DEF RegInv, HttpOk
    <2> QED BY <2>1, <2>2, <2>3, HttpStep DEF Ops
  <1>16. /\ {"adopt", "configure", "activate", "revoke"} = Ops
         /\ NoProfile \in Profiles \cup {NoProfile}
    BY DEF Ops
  <1> QED BY <1>1, <1>2, <1>3, <1>4, <1>5, <1>6, <1>7, <1>8, <1>9, <1>10,
             <1>11, <1>12, <1>13, <1>14, <1>15, <1>16 DEF Next

LEMMA RegAlways == Spec => []RegInv
  BY InitReg, StepReg, PTL DEF Spec

(* node_registry: no sequence of heartbeats, calls, replacements, failed   *)
(* writes and power cuts gives a node two entries, for any number of       *)
(* nodes and places.                                                       *)
THEOREM NeverTwice == Spec => []OneEntryPerNode
  <1>1. RegInv => OneEntryPerNode
    BY DEF RegInv, Unique, OneEntryPerNode
  <1> QED BY <1>1, RegAlways, PTL

(* node_registry: whenever no request is in progress, the blob in flash is *)
(* what the table would be saved as.                                       *)
THEOREM FlashIsTable == Spec => []RegistryDurable
  <1>1. RegInv => RegistryDurable
    BY IdleOk DEF RegInv, Durable, RegistryDurable
  <1> QED BY <1>1, RegAlways, PTL

-----------------------------------------------------------------------------
(* A node is ACTIVE only if it answered a claim.  Besides the table, the   *)
(* copies of its entries (flash, the blob being written, the entry to be   *)
(* put back) must be proved, and every positive answer on its way must     *)
(* come from its node and, while a claim waits, from the node it waits for.*)

ProvedBy(e, S) == e.id # NoNode /\ e.st = ACTIVE => e.id \in S

CopiesProved ==
  /\ \A s \in Slots : ProvedBy(entries[s], submitted)
  /\ \A e \in nvs : ProvedBy(e, submitted)
  /\ \A e \in http.blob : ProvedBy(e, submitted)
  /\ ProvedBy(http.old, submitted)

RequestProved ==
  /\ http.pc \in {"call", "save"} => (http.claim \/ http.op = "activate" => http.id \in submitted)
  /\ http.op # "replace"

AnswersTrue ==
  /\ \A m \in net : m.type = "RESP" /\ m.ok => m.id \in submitted
  /\ held.ok => held.id \in submitted
  /\ answer.ok => answer.id \in submitted

AnswersMeant ==
  http.pc = "wait" => /\ pending = http.id
                      /\ held # NoResponse => held.id = http.id
                      /\ sem => answer.id = http.id

ClaimInv ==
  ~setup.replace /\ ~setup.preempt =>
    CopiesProved /\ RequestProved /\ AnswersTrue /\ AnswersMeant

LEMMA InitClaim == Init => ClaimInv
  <1> SUFFICES ASSUME Init PROVE ClaimInv
    OBVIOUS
  <1>1. \A S : ProvedBy(Blank, S)
    BY DEF ProvedBy, Blank
  <1>2. Idle.pc = "idle" /\ Idle.op = "none" /\ Idle.old = Blank /\ Idle.blob = {}
    BY DEF Idle
  <1>3. CopiesProved
    BY <1>1, <1>2 DEF Init, CopiesProved
  <1>4. RequestProved /\ AnswersMeant
    BY <1>2 DEF Init, RequestProved, AnswersMeant
  <1>5. AnswersTrue
    BY DEF Init, AnswersTrue, NoResponse
  <1> QED BY <1>3, <1>4, <1>5 DEF ClaimInv

(* What the next call of a claim, or the end of a request, keeps.          *)
LEMMA ReturnedProved ==
  ASSUME HttpOk, RequestProved, http.pc \in {"call", "save"}
  PROVE  /\ Returned.old = Blank /\ Returned.blob = {}
         /\ Returned.pc \in {"idle", "call"} /\ Returned.op # "replace"
         /\ Returned.pc = "call" => Returned.id \in submitted
  <1>1. CASE ~http.claim \/ http.op = "activate"
    BY <1>1 DEF Returned, Idle
  <1>2. CASE ~(~http.claim \/ http.op = "activate")
    <2> DEFINE o == IF http.op = "adopt" THEN "configure" ELSE "activate"
    <2>1. Returned = [http EXCEPT !.pc = "call", !.old = Blank, !.blob = {}, !.op = o]
      BY <1>2 DEF Returned
    <2>2. http \in Http /\ http.id \in submitted
      BY <1>2 DEF HttpOk, RequestProved
    <2>3. o # "replace"
      OBVIOUS
    <2> HIDE DEF o
    <2> QED BY <2>1, <2>2, <2>3 DEF Http
  <1> QED BY <1>1, <1>2

(* Only activate makes an entry ACTIVE that was not.                       *)
LEMMA ChangedProved ==
  ASSUME NEW op \in Ops, NEW e \in RegEntry, NEW p \in Profiles \cup {NoProfile}, NEW S,
         ProvedBy(e, S), op = "activate" => e.id \in S
  PROVE  ProvedBy(Changed(op, e, p), S)
  <1>0. Changed(op, e, p).id = e.id
    BY ChangedType
  <1>1. CASE op = "adopt"
    <2>1. Changed(op, e, p).st = ACTIVE => e.st = ACTIVE
      BY <1>1 DEF Changed, RegEntry, ADOPTED, ACTIVE
    <2> QED BY <1>0, <2>1 DEF ProvedBy
  <1>2. CASE op = "configure"
    <2>1. Changed(op, e, p).st = IF e.st >= ACTIVE THEN ACTIVE ELSE CONFIGURED
      BY <1>2 DEF Changed, RegEntry
    <2>2. Changed(op, e, p).st = ACTIVE => e.st = ACTIVE
      BY <2>1 DEF RegEntry, ACTIVE, CONFIGURED
    <2> QED BY <1>0, <2>2 DEF ProvedBy
  <1>3. CASE op = "activate"
    BY <1>0, <1>3 DEF ProvedBy
  <1>4. CASE op = "revoke"
    <2>1. Changed(op, e, p).st = DISCOVERED
      BY <1>4 DEF Changed, RegEntry
    <2> QED BY <2>1 DEF ProvedBy, DISCOVERED, ACTIVE
  <1> QED BY <1>1, <1>2, <1>3, <1>4 DEF Ops

(* A node that is heard gets an entry that is not ACTIVE.                  *)
LEMMA EntryProved ==
  ASSUME NEW table \in Table, NEW f, NEW S, \A s \in Slots : ProvedBy(table[s], S)
  PROVE  \A s \in Slots : ProvedBy(WithEntry(table, f)[s], S)
  <1> DEFINE b == [Blank EXCEPT !.id = f]
  <1>1. ProvedBy(b, S)
    BY DEF ProvedBy, Blank, DISCOVERED, ACTIVE
  <1>2. WithEntry(table, f) \in {table, [table EXCEPT ![Lowest(Free(table))] = b]}
    BY DEF WithEntry
  <1> HIDE DEF b
  <1> QED BY <1>1, <1>2 DEF Table

(* The locked part of a call.                                              *)
LEMMA CallProved ==
  ASSUME RegInv, CopiesProved, RequestProved, CallChange
  PROVE  CopiesProved' /\ RequestProved' /\ http'.pc # "wait"
  <1>1. /\ http.pc = "call" /\ http.op # "replace" /\ HttpOk /\ entries \in Table /\ Unique(entries)
        /\ nvs' = nvs /\ submitted' = submitted
    BY DEF CallChange, RegInv, nodeVars
  <1>2. http \in Http /\ http.id \in Fields /\ http.op \in Ops
    BY <1>1 DEF HttpOk, Http
  <1>3. PICK table \in Seeded(http.op, http.id) :
          IF ~Allowed(http.op, table, http.id)
          THEN entries' = table /\ http' = Returned
          ELSE LET s == Lowest(Holding(table, http.id))
                   new == Changed(http.op, table[s], http.profile)
               IN  /\ entries' = [table EXCEPT ![s] = new]
                   /\ http' = Saving([table EXCEPT ![s] = new], table[s])
    BY DEF CallChange
  <1>4. table = entries \/ table = WithEntry(entries, http.id)
    BY DEF Seeded
  <1>5. table \in Table /\ Unique(table) /\ \A s \in Slots : ProvedBy(table[s], submitted)
    BY <1>1, <1>2, <1>4, EntryAdded, EntryProved DEF CopiesProved
  <1>6. CASE ~Allowed(http.op, table, http.id)
    <2>1. entries' = table /\ http' = Returned
      BY <1>3, <1>6
    <2>2. ProvedBy(Blank, submitted)
      BY DEF ProvedBy, Blank
    <2> QED BY <1>1, <1>5, <2>1, <2>2, ReturnedProved DEF CopiesProved, RequestProved
  <1>7. CASE Allowed(http.op, table, http.id)
    <2> DEFINE s == Lowest(Holding(table, http.id))
               new == Changed(http.op, table[s], http.profile)
               after == [table EXCEPT ![s] = new]
    <2>1. entries' = after /\ http' = Saving(after, table[s])
      BY <1>3, <1>7
    <2>2. s \in Slots /\ table[s].id = http.id /\ table[s] \in RegEntry
      BY <1>5, <1>7, HeldSlot DEF Allowed, Table
    <2>3. http.profile \in Profiles \cup {NoProfile}
      BY <1>2 DEF Http
    <2>4. http.op = "activate" => table[s].id \in submitted
      BY <1>1, <2>2 DEF RequestProved
    <2>5. ProvedBy(table[s], submitted)
      BY <1>5, <2>2
    <2> HIDE DEF s
    <2>6. ProvedBy(new, submitted) /\ new \in RegEntry /\ new.id = table[s].id
      BY <1>2, <2>2, <2>3, <2>4, <2>5, ChangedProved, ChangedType
    <2> HIDE DEF new
    <2>7. \A k \in Slots : ProvedBy(after[k], submitted)
      BY <1>5, <2>2, <2>6 DEF Table
    <2>8. after \in Table /\ Unique(after)
      BY <1>5, <2>2, <2>6, SetKeepsUnique
    <2> HIDE DEF after
    <2>9. /\ http'.pc = "save" /\ http'.old = table[s] /\ http'.blob = Blob(after)
          /\ http'.op = http.op /\ http'.id = http.id /\ http'.claim = http.claim
      BY <1>1, <2>1, <2>2, <2>8, SavingOk
    <2>10. \A e \in Blob(after) : ProvedBy(e, submitted)
      BY <2>7, BlobMember
    <2>11. CopiesProved'
      BY <1>1, <2>1, <2>5, <2>7, <2>9, <2>10 DEF CopiesProved
    <2>12. RequestProved'
      BY <1>1, <2>9 DEF RequestProved
    <2> QED BY <2>9, <2>11, <2>12
  <1> QED BY <1>6, <1>7

(* A write that succeeds or fails.                                         *)
LEMMA SaveProved ==
  ASSUME RegInv, CopiesProved, RequestProved, SaveOk \/ SaveFails
  PROVE  CopiesProved' /\ RequestProved' /\ http'.pc # "wait"
  <1>1. /\ http.pc = "save" /\ http' = Returned /\ HttpOk /\ entries \in Table
        /\ submitted' = submitted
    BY DEF SaveOk, SaveFails, RegInv, nodeVars
  <1>2. /\ http'.old = Blank /\ http'.blob = {} /\ http'.pc \in {"idle", "call"}
        /\ http'.op # "replace" /\ (http'.pc = "call" => http'.id \in submitted)
    BY <1>1, ReturnedProved
  <1>3. \A e \in nvs' : ProvedBy(e, submitted)
    BY DEF SaveOk, SaveFails, CopiesProved
  <1>4. \A s \in Slots : ProvedBy(entries'[s], submitted)
    <2>1. CASE SaveOk
      BY <2>1 DEF SaveOk, CopiesProved
    <2>2. CASE SaveFails
      <3> DEFINE k == Lowest(Holding(entries, http.id))
      <3>1. entries' \in {entries, [entries EXCEPT ![k] = http.old]}
        BY <2>2 DEF SaveFails, Restored
      <3> HIDE DEF k
      <3> QED BY <1>1, <3>1 DEF CopiesProved, Table
    <2> QED BY <2>1, <2>2
  <1>5. ProvedBy(Blank, submitted)
    BY DEF ProvedBy, Blank
  <1> QED BY <1>1, <1>2, <1>3, <1>4, <1>5 DEF CopiesProved, RequestProved

(* Next keeps the invariant, action by action.                             *)
LEMMA StepClaim == RegInv /\ ClaimInv /\ [Next]_vars => ClaimInv'
  <1> SUFFICES ASSUME RegInv, ClaimInv, [Next]_vars, ~setup'.replace, ~setup'.preempt
               PROVE  (CopiesProved /\ RequestProved /\ AnswersTrue /\ AnswersMeant)'
    BY DEF ClaimInv
  <1>0. setup' = setup
    BY DEF Next, vars, bounds, Discover, NodeReset, NodeRestart, Operator, Claim, Replace, AnswerChecked,
           Lose, NodeClaimed, NodeRefuses, NodeClaimFails, CallChange, CallRefused, CallReplace, SaveOk,
           SaveFails, ClaimAnswered, ClaimTimeout, AnswerUsed, GatewayRestart
  <1>a. CopiesProved /\ RequestProved /\ AnswersTrue /\ AnswersMeant /\ ~setup.replace /\ ~setup.preempt
    BY <1>0 DEF ClaimInv
  <1>b. entries \in Table /\ Unique(entries) /\ HttpOk /\ http \in Http
    BY DEF RegInv, HttpOk
  <1>c. \A S : ProvedBy(Blank, S)
    BY DEF ProvedBy, Blank
  <1>d. Idle.pc = "idle" /\ Idle.op = "none" /\ Idle.old = Blank /\ Idle.blob = {} /\ Idle.claim = FALSE
    BY DEF Idle
  <1> USE DEF regVars, rpcVars, nodeVars, bounds
  <1>1. ASSUME NEW f \in Fields, Discover(f)
        PROVE  (CopiesProved /\ RequestProved /\ AnswersTrue /\ AnswersMeant)'
    <2>1. \A s \in Slots : ProvedBy(entries'[s], submitted)
      BY <1>1, <1>a, <1>b, EntryProved DEF Discover, CopiesProved
    <2> QED BY <1>1, <1>a, <2>1
            DEF Discover, CopiesProved, RequestProved, AnswersTrue, AnswersMeant
  <1>2. ASSUME NEW f \in Fields, NodeReset(f) \/ NodeRestart(f)
        PROVE  (CopiesProved /\ RequestProved /\ AnswersTrue /\ AnswersMeant)'
    BY <1>2, <1>a DEF NodeReset, NodeRestart, CopiesProved, RequestProved, AnswersTrue, AnswersMeant
  <1>3. ASSUME NEW f \in Fields, NEW op \in Ops, NEW p, Operator(op, f, p)
        PROVE  (CopiesProved /\ RequestProved /\ AnswersTrue /\ AnswersMeant)'
    <2>1. /\ http'.pc = "call" /\ http'.op = op /\ http'.id = f /\ http'.claim = FALSE
          /\ http'.old = Blank /\ http'.blob = {}
      BY <1>3, <1>d DEF Operator, Idle
    <2>2. op = "activate" => f \in submitted
      <3> HAVE op = "activate"
      <3>1. StateOf(f) = ACTIVE
        BY <1>3 DEF Operator
      <3>2. Holding(entries, f) # {} /\ entries[Lowest(Holding(entries, f))].st = ACTIVE
        BY <3>1 DEF StateOf, DISCOVERED, ACTIVE
      <3>3. /\ Lowest(Holding(entries, f)) \in Slots
            /\ entries[Lowest(Holding(entries, f))].id = f
        BY <3>2, HeldSlot
      <3>4. f # NoNode
        BY AdoptionAssumption DEF NoNode
      <3> QED BY <1>a, <3>2, <3>3, <3>4 DEF CopiesProved, ProvedBy
    <2>3. op # "replace"
      BY DEF Ops
    <2> QED BY <1>3, <1>a, <1>c, <2>1, <2>2, <2>3
            DEF Operator, CopiesProved, RequestProved, AnswersTrue, AnswersMeant
  <1>4. ASSUME NEW f \in Fields, NEW p \in Profiles, Claim(f, p)
        PROVE  (CopiesProved /\ RequestProved /\ AnswersTrue /\ AnswersMeant)'
    <2>1. /\ http'.pc = "wait" /\ http'.op = "none" /\ http'.id = f
          /\ http'.old = Blank /\ http'.blob = {}
      BY <1>4, <1>d DEF Claim, Idle
    <2>2. /\ held = NoResponse /\ held' = held /\ pending' = f /\ sem' = FALSE /\ answer' = NoResponse
          /\ net' = net \cup {[type |-> "REQ", id |-> f, profile |-> p]}
      BY <1>4, <1>a DEF Claim
    <2>3. CopiesProved' /\ RequestProved' /\ AnswersMeant'
      BY <1>4, <1>a, <1>c, <2>1, <2>2 DEF Claim, CopiesProved, RequestProved, AnswersMeant
    <2>4. AnswersTrue'
      BY <1>4, <1>a, <2>2 DEF Claim, AnswersTrue, NoResponse
    <2> QED BY <2>3, <2>4
  <1>5. ASSUME NEW f \in Fields, NEW g \in Fields, Replace(f, g) PROVE FALSE
    BY <1>5, <1>a DEF Replace
  <1>6. ASSUME NEW msg \in net, AnswerChecked(msg)
        PROVE  (CopiesProved /\ RequestProved /\ AnswersTrue /\ AnswersMeant)'
    BY <1>6, <1>a DEF AnswerChecked, Matches, CopiesProved, RequestProved, AnswersTrue, AnswersMeant
  <1>7. ASSUME NEW msg \in net, Lose(msg)
        PROVE  (CopiesProved /\ RequestProved /\ AnswersTrue /\ AnswersMeant)'
    BY <1>7, <1>a DEF Lose, CopiesProved, RequestProved, AnswersTrue, AnswersMeant
  <1>8. ASSUME NEW msg \in net, NodeClaimed(msg)
        PROVE  (CopiesProved /\ RequestProved /\ AnswersTrue /\ AnswersMeant)'
    <2>1. /\ submitted' = submitted \cup {msg.id}
          /\ net' = (net \ {msg}) \cup {[type |-> "RESP", id |-> msg.id, ok |-> TRUE]}
          /\ UNCHANGED <<entries, nvs, http, pending, sem, answer, held>>
      BY <1>8 DEF NodeClaimed, Answer
    <2>2. CopiesProved' /\ RequestProved' /\ AnswersMeant'
      BY <1>a, <2>1 DEF CopiesProved, ProvedBy, RequestProved, AnswersMeant
    <2>3. AnswersTrue'
      BY <1>a, <2>1 DEF AnswersTrue
    <2> QED BY <2>2, <2>3
  <1>9. ASSUME NEW msg \in net, NodeRefuses(msg) \/ NodeClaimFails(msg)
        PROVE  (CopiesProved /\ RequestProved /\ AnswersTrue /\ AnswersMeant)'
    <2>1. /\ net' = (net \ {msg}) \cup {[type |-> "RESP", id |-> msg.id, ok |-> FALSE]}
          /\ UNCHANGED <<entries, nvs, http, pending, sem, answer, held, submitted>>
      BY <1>9 DEF NodeRefuses, NodeClaimFails, Answer
    <2>2. CopiesProved' /\ RequestProved' /\ AnswersMeant'
      BY <1>a, <2>1 DEF CopiesProved, RequestProved, AnswersMeant
    <2>3. AnswersTrue'
      BY <1>a, <2>1 DEF AnswersTrue
    <2> QED BY <2>2, <2>3
  <1>10. ASSUME CallChange \/ SaveOk \/ SaveFails
         PROVE  (CopiesProved /\ RequestProved /\ AnswersTrue /\ AnswersMeant)'
    <2>1. CopiesProved' /\ RequestProved' /\ http'.pc # "wait"
      BY <1>10, <1>a, CallProved, SaveProved
    <2>2. AnswersTrue'
      BY <1>10, <1>a DEF CallChange, SaveOk, SaveFails, AnswersTrue
    <2> QED BY <2>1, <2>2 DEF AnswersMeant
  <1>11. CASE CallRefused
    <2>1. http.pc = "call" /\ http' = Returned /\ UNCHANGED <<entries, nvs, rpcVars, submitted, net>>
      BY <1>11 DEF CallRefused
    <2>2. /\ http'.old = Blank /\ http'.blob = {} /\ http'.pc \in {"idle", "call"}
          /\ http'.op # "replace" /\ (http'.pc = "call" => http'.id \in submitted)
      BY <1>a, <1>b, <2>1, ReturnedProved
    <2> QED BY <1>a, <1>c, <2>1, <2>2 DEF CopiesProved, RequestProved, AnswersTrue, AnswersMeant
  <1>12. CASE CallReplace
    BY <1>12, <1>a DEF CallReplace, RequestProved
  <1>13. CASE ClaimAnswered
    <2>1. /\ http.pc = "wait" /\ sem /\ answer.id = http.id
          /\ UNCHANGED <<entries, nvs, answer, held, submitted, net>>
          /\ http' = IF answer.ok THEN [http EXCEPT !.pc = "call", !.op = "adopt"] ELSE Idle
      BY <1>13, <1>a DEF ClaimAnswered, AnswersMeant
    <2>2. CASE answer.ok
      <3>1. http' = [http EXCEPT !.pc = "call", !.op = "adopt"]
        BY <2>1, <2>2
      <3>2. /\ http'.pc = "call" /\ http'.op = "adopt" /\ http'.id = http.id
            /\ http'.old = http.old /\ http'.blob = http.blob
        BY <1>b, <3>1 DEF Http
      <3>3. http.id \in submitted
        BY <1>a, <2>1, <2>2 DEF AnswersTrue
      <3> QED BY <1>a, <2>1, <3>2, <3>3 DEF CopiesProved, RequestProved, AnswersTrue, AnswersMeant
    <2>3. CASE ~answer.ok
      <3>1. http' = Idle
        BY <2>1, <2>3
      <3> QED BY <1>a, <1>c, <1>d, <2>1, <3>1 DEF CopiesProved, RequestProved, AnswersTrue, AnswersMeant
    <2> QED BY <2>2, <2>3
  <1>14. CASE ClaimTimeout
    BY <1>14, <1>a, <1>c, <1>d DEF ClaimTimeout, CopiesProved, RequestProved, AnswersTrue, AnswersMeant
  <1>15. CASE AnswerUsed
    <2>1. NoResponse.ok = FALSE
      BY DEF NoResponse
    <2> QED BY <1>15, <1>a, <2>1 DEF AnswerUsed, CopiesProved, RequestProved, AnswersTrue, AnswersMeant
  <1>16. CASE GatewayRestart
    <2>1. entries' \in Loaded /\ http' = Idle /\ answer' = NoResponse /\ held' = NoResponse
          /\ UNCHANGED <<nvs, submitted, net>>
      BY <1>16 DEF GatewayRestart
    <2>2. \A s \in Slots : entries'[s] \in nvs \cup {Blank}
      BY <2>1 DEF Loaded
    <2>3. NoResponse.ok = FALSE
      BY DEF NoResponse
    <2> QED BY <1>a, <1>c, <1>d, <2>1, <2>2, <2>3
            DEF CopiesProved, RequestProved, AnswersTrue, AnswersMeant
  <1>17. CASE UNCHANGED vars
    BY <1>17, <1>a DEF vars, CopiesProved, RequestProved, AnswersTrue, AnswersMeant
  <1>18. {"adopt", "configure", "activate", "revoke"} = Ops
    BY DEF Ops
  <1> QED BY <1>1, <1>2, <1>3, <1>4, <1>5, <1>6, <1>7, <1>8, <1>9, <1>10, <1>11, <1>12, <1>13, <1>14,
             <1>15, <1>16, <1>17, <1>18 DEF Next

(* cluster_transport.c and node_registry.c: without replacements, and with *)
(* a receiver that uses an answer before the next claim begins, a node is  *)
(* ACTIVE only if it answered a claim with success, whatever was lost,     *)
(* late, failed to be written or was cut off.                              *)
THEOREM ActiveByClaim == Spec => []ActiveProved
  <1>1. ClaimInv => ActiveProved
    <2> SUFFICES ASSUME CopiesProved PROVE ActiveIn(entries) \ {NoNode} \subseteq submitted
      BY DEF ClaimInv, ActiveProved
    <2> QED BY DEF CopiesProved, ProvedBy, ActiveIn
  <1> QED BY <1>1, InitClaim, StepClaim, RegAlways, PTL DEF Spec
=============================================================================
