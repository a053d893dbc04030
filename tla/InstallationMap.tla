-------------------------- MODULE InstallationMap --------------------------
(***************************************************************************)
(* The installation map of http_server.c: which channel of which node a    *)
(* resource name stands for.  All requests run in the one task of the web  *)
(* server.  The table is changed in memory and then written whole; a write *)
(* that fails leaves the change in memory, and the next one takes it to    *)
(* flash.                                                                  *)
(*                                                                         *)
(* A name is the global code of an entry, or its local code when it has    *)
(* none; the first entry with the name wins.  The texts that only describe *)
(* an entry are kept as "has some".                                        *)
(***************************************************************************)
EXTENDS Naturals, Sequences, SequencesExt

CONSTANTS
    Nodes,          \* node numbers
    Outputs,        \* output channels of the profile
    Channels,       \* channels a request may name
    Locals,         \* local codes a request may give or an old table may hold, "" among them
    Globals,        \* global codes, likewise
    MaxEntries,     \* INSTALLATION_MAP_MAX_ENTRIES
    MaxV1,          \* INSTALLATION_MAP_V1_MAX_ENTRIES
    Found,          \* blobs found at the first start: [ver, entries]
    MaxOps,         \* bound on changes
    MaxFail         \* bound on failed writes

VARIABLES
    entries,    \* installation_map_blob
    flash,      \* the blob: [ver, entries]
    sent,       \* where the last command went
    ops, fails

NoCode == ""
Codes == Locals \cup Globals \cup {NoCode, "Q0", "Q1", "I0"}
Names == Codes \ {NoCode}

\* An entry, as far as it matters here.
Row == [node : Nat, kind : {"input", "output"}, ch : Nat, local : Codes, global : Codes, named : BOOLEAN]

ConstantsOK ==
    /\ Nodes \subseteq Nat /\ Channels \subseteq Nat
    /\ MaxEntries \in Nat /\ MaxV1 \in Nat
    /\ \A f \in Found :
          /\ f = [ver |-> f.ver, entries |-> f.entries] /\ f.entries \in Seq(Row)
          /\ f.ver \in {1, 2} /\ Len(f.entries) <= (IF f.ver = 1 THEN MaxV1 ELSE MaxEntries)

vars == <<entries, flash, sent, ops, fails>>

None == [node |-> 0, kind |-> "none", ch |-> 0]

\* installation_map_find: without a local code any will do.
Find(es, n, k, c, l) ==
    SelectInSeq(es, LAMBDA e : e.node = n /\ e.kind = k /\ e.ch = c /\ (l = NoCode \/ e.local = l))

Rid(e) == IF e.global # NoCode THEN e.global ELSE e.local

\* installation_map_find_by_resource_id.
Resolve(es, r) ==
    LET i == SelectInSeq(es, LAMBDA e : r # NoCode /\ Rid(e) = r)
    IN  IF i = 0 THEN None ELSE [node |-> es[i].node, kind |-> es[i].kind, ch |-> es[i].ch]

\* An entry is updated in place or added at the end; with nothing to say it goes.
Upsert(es, x) ==
    LET i == Find(es, x.node, x.kind, x.ch, x.local)
    IN  CASE x.global = NoCode /\ ~x.named /\ i # 0 -> RemoveAt(es, i)
          [] x.global = NoCode /\ ~x.named /\ i = 0 -> es
          [] (x.global # NoCode \/ x.named) /\ i # 0 -> [es EXCEPT ![i] = x]
          [] (x.global # NoCode \/ x.named) /\ i = 0 -> IF Len(es) < MaxEntries THEN Append(es, x) ELSE es

\* Mutant: only the first entry of the old node is moved.
RenamedFirst(es, old, new) ==
    LET i == SelectInSeq(es, LAMBDA e : e.node = old)
    IN  IF i = 0 THEN es ELSE [es EXCEPT ![i].node = new]

Renamed(es, old, new) ==
    [i \in DOMAIN es |-> IF es[i].node = old THEN [es[i] EXCEPT !.node = new] ELSE es[i]]

\* The places in ps, lowest first.
InOrder(ps) ==
    CHOOSE p \in [1..Cardinality(ps) -> ps] : \A i, j \in DOMAIN p : i < j => p[i] < p[j]

\* The entries of old again for new, without their global codes, while there is room.
Cloned(es, old, new) ==
    LET from == {i \in DOMAIN es : es[i].node = old}
        p == InOrder(from)
        room == MaxEntries - Len(es)
        n == IF Cardinality(from) < room THEN Cardinality(from) ELSE room
    IN  es \o [i \in 1..n |-> [es[p[i]] EXCEPT !.node = new, !.global = NoCode]]

\* installation_map_save, when there is anything to save.
Saved(es) ==
    /\ ops < MaxOps /\ ops' = ops + 1
    /\ entries' = es
    /\ \/ flash' = [ver |-> 2, entries |-> es] /\ UNCHANGED fails
       \/ fails < MaxFail /\ fails' = fails + 1 /\ UNCHANGED flash
    /\ UNCHANGED sent

-----------------------------------------------------------------------------
(* The requests.                                                           *)

\* A request that finds nothing to remove, or no room, saves nothing.
Save(x) ==
    /\ x.ch # 0
    /\ Upsert(entries, x) # entries \/ Find(entries, x.node, x.kind, x.ch, x.local) # 0
    /\ Saved(Upsert(entries, x))

Channel(n, k, c, l) == [node |-> n, kind |-> k, ch |-> c, local |-> l, global |-> NoCode, named |-> TRUE]

\* The table is written once per entry and once more at the end.
ApplyTemplate(n, template) ==
    Saved(IF template = "relay-node"
          THEN Upsert(Upsert(entries, Channel(n, "output", 0, "Q0")), Channel(n, "output", 1, "Q1"))
          ELSE Upsert(entries, Channel(n, "input", 0, "I0")))

Replace(old, new) ==
    /\ old # new
    /\ \E i \in DOMAIN entries : entries[i].node = old
    /\ Saved(Renamed(entries, old, new))

Clone(old, new) ==
    /\ old # new
    /\ Cloned(entries, old, new) # entries
    /\ Saved(Cloned(entries, old, new))

\* A command for name r: an output of the profile, at its node.
Actuate(r) ==
    LET to == Resolve(entries, r)
    IN  /\ to # None
        /\ to.kind = "output" /\ to.ch \in Outputs
        /\ sent' = to
        /\ UNCHANGED <<entries, flash, ops, fails>>

\* A table of the first version is taken over, as far as both have room, and written.
Loaded(f) ==
    IF f.ver = 1 THEN SubSeq(f.entries, 1, Min({Len(f.entries), MaxV1, MaxEntries})) ELSE f.entries

Restart ==
    /\ entries' = Loaded(flash)
    /\ sent' = None
    /\ \/ flash' = [ver |-> 2, entries |-> Loaded(flash)] /\ UNCHANGED fails
       \/ flash.ver = 1 /\ fails < MaxFail /\ fails' = fails + 1 /\ UNCHANGED flash
    /\ UNCHANGED ops

Init ==
    /\ flash \in Found
    /\ entries = Loaded(flash)
    /\ sent = None
    /\ ops = 0 /\ fails = 0

Asked == [node : Nodes, kind : {"output"}, ch : Channels, local : Locals, global : Globals, named : BOOLEAN]

Next ==
    \/ \E x \in Asked : Save(x)
    \/ \E n \in Nodes, template \in {"relay-node", "sensor-node"} : ApplyTemplate(n, template)
    \/ \E old, new \in Nodes : Replace(old, new) \/ Clone(old, new)
    \/ \E r \in Names : Actuate(r)
    \/ Restart

Spec == Init /\ [][Next]_vars

-----------------------------------------------------------------------------
(* What the map promises.                                                  *)

Moved(to, old, new) == IF to # None /\ to.node = old THEN [to EXCEPT !.node = new] ELSE to

\* A command goes where its name went before, until someone edits that name: a
\* clone diverts no name that was known, a replacement takes every name of the
\* old node to the same channel of the new one, and an edit of one entry moves
\* no name but its old and its new one.
NamesStay ==
    [][/\ \A old, new \in Nodes :
             /\ Clone(old, new) => \A r \in Names : Resolve(entries, r) # None => Resolve(entries', r) = Resolve(entries, r)
             /\ Replace(old, new) => \A r \in Names : Resolve(entries', r) = Moved(Resolve(entries, r), old, new)
       /\ \A x \in Asked : Save(x) =>
             LET i == Find(entries, x.node, x.kind, x.ch, x.local)
                 was == IF i = 0 THEN {} ELSE {Rid(entries[i])}
             IN  \A r \in Names \ (was \cup {Rid(x)}) : Resolve(entries', r) = Resolve(entries, r)]_vars

\* A name stands for one channel.
ResourceUnique ==
    \A i, j \in DOMAIN entries : i # j /\ Rid(entries[i]) # NoCode => Rid(entries[i]) # Rid(entries[j])

\* Every output that is in the map can be switched.
OutputsUsable ==
    \A i \in DOMAIN entries : entries[i].kind = "output" => entries[i].ch \in Outputs
=============================================================================
