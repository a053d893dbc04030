----------------------------- MODULE MCServices -----------------------------
(***************************************************************************)
(* The services on small instances.  The initial state picks one of them;  *)
(* the others stand still.  So the states of the run are the sum, not the  *)
(* product, of the eight.                                                  *)
(***************************************************************************)
EXTENDS Services

VARIABLE service    \* the one that runs

aVars == <<aUp, aRam, aFlash, aSession, aRing, aPos, aLogged, aMade, aUnread, aFails>>
pVars == <<pRam, pNode, pBlob, pKey, pOnb, pActive, pTodo, pStale, pLost, pCrossed, pOps, pFails>>
mVars == <<mEntries, mFlash, mSent, mOps, mFails>>
lVars == <<lProg, lFlash, lVal, lTim, lCnt, lNow, lHttp, lNew, lSince, lAsked, lOps, lFails>>
sVars == <<sVal, sPend, sQuiet, sAux, sK, sBuf, sFlash, sPin, sInp, sMissed, sLost, sSets, sStarts, sFails>>
bVars == <<bPhase, bBound, bDriver, bRestart, bRs485, bSaved, bQuiet, bFails>>
vVars == <<vConf, vRun, vNvs, vOn, vOnSaved, vRing, vHead, vCount, vRaced, vLog, vCrossed, vPc, vOps, vFails>>

\* Three accounts at most, an audit of two events of five.
MCUsers == {"admin", "ana", "bia"}
MCSlots == 1..3

\* The blobs of the four versions, and three swaps a gateway may ask for.
Kept(on, prim, fall) == [on |-> on, mode |-> "now", pend |-> FALSE, prim |-> prim, fall |-> fall]
MCOld ==
    {[ver |-> 0]} \cup {[ver |-> v, policy |-> Kept({"WIFI", "ETHERNET"}, "ETHERNET", "WIFI")] : v \in 1..3}
                  \cup {[ver |-> 3, policy |-> Kept({"WIFI", "RS485"}, "WIFI", "RS485")]}
MCOffered ==
    {[on |-> {"WIFI", "RS485"}, mode |-> "infra", prim |-> "RS485", fall |-> "WIFI"],
     [on |-> {"WIFI"}, mode |-> "now", prim |-> "ESPNOW", fall |-> "RS485"],
     [on |-> {"WIFI", "ETHERNET", "RS485"}, mode |-> "infra", prim |-> "WIFI", fall |-> "ETHERNET"]}

\* Two nodes, a table of three entries; a blob of the first version holds two
\* entries, or four and only three of them fit.
Entry(n, c, l) == [node |-> n, kind |-> "output", ch |-> c, local |-> l, global |-> "", named |-> TRUE]
MCFound ==
    {[ver |-> 2, entries |-> <<>>],
     [ver |-> 1, entries |-> <<Entry(1, 101, "Q1"), Entry(2, 101, "Q1")>>],
     [ver |-> 1, entries |-> <<Entry(1, 101, "Q1"), Entry(2, 101, "Q1"), Entry(2, 102, "A"), Entry(1, 102, "A")>>]}

\* Nested blocks; a TON with its reset; a TOF; counters with arithmetic.
I(op, t) == <<op, t, 0>>
Nested(p, a, b, c, d, y) ==
    <<I("LD", p), I("START", p), I("AND", a), I("NEXT", p), I("AND", b), I("START", p), I("AND", c),
      I("NEXT", p), I("AND", d), I("END", p), I("END", p), I("ST", y)>>
MCPrograms ==
    {Nested("x", "z", "w", "z", "x", "y"), Nested("x", "z", "w", "z", "w", "y"), Nested("w", "x", "z", "x", "w", "y"),
     <<I("LD", "x"), <<"TON", "y", 2>>, I("LDN", "z"), I("RST", "y")>>,
     <<I("LD", "x"), <<"TOF", "y", 1>>, I("LDN", "z"), I("ORN", "w"), I("ANDN", "x"), I("SET", "v")>>,
     <<I("LD", "x"), <<"CTU", "y", 2>>, I("ANDN", "z"), <<"SUB", "v", 3, TRUE, "v">>, I("LES", "v"),
       <<"DIV", "v", "v", FALSE, "v">>, <<"CTD", "v", 2>> >>}
MCTest == <<I("LD", "x"), I("ST", "y")>>

\* One input and two outputs, one restored and one on at the start.
MCOrder == <<"x", "y", "q">>
MCStartup == [o \in {"y", "q"} |-> IF o = "y" THEN "restore" ELSE "on"]

\* Two default inputs (one without a pin, one on a pin of the bus) and one
\* analog input; two default outputs and a spare one.  Flash holds nothing,
\* or what version 1 or 2 wrote on either side; RS-485 is off or on.
MCInIds == {"i3", "i5", "i12"}
MCOutIds == {"o4", "o5", "o15"}
MCProfilePin ==
    [i \in MCInIds \cup MCOutIds |->
        CASE i \in {"i3", "o4"} -> "NC" [] i = "i5" -> "g26" [] i = "i12" -> "g34" [] i = "o5" -> "g33"
          [] i = "o15" -> "g32"]
Gpio(p) == [be |-> "gpio", pin |-> p]
NoTab == [i \in MCInIds \cup MCOutIds |-> [be |-> "none", pin |-> "NC"]]
Tab(side) ==
    IF side = "out" THEN [NoTab EXCEPT !["o4"] = Gpio("g32"), !["o5"] = Gpio("g33")]
    ELSE [NoTab EXCEPT !["i3"] = Gpio("g33"), !["i5"] = Gpio("g26")]
BlobOf(v, side) == [ver |-> v, tab |-> IF v = 0 THEN NoTab ELSE Tab(side)]
Flash(i, o, net) ==
    [s \in {"in", "out", "net"} |-> IF s = "in" THEN BlobOf(i, "in") ELSE IF s = "out" THEN BlobOf(o, "out") ELSE net]
Nothing == Flash(0, 0, FALSE)
MCOldFlash == {Flash(i, o, net) : i \in 0..2, o \in 0..2, net \in BOOLEAN}

\* Readings at both ends of the scale; an inverted scale and one that is
\* refused; limits and limits that are refused.
Band(i, j) == [imin |-> i, imax |-> j, smin |-> 0, smax |-> 3]
Limits(b, high, low, hyst) == [on |-> b, high |-> high, low |-> low, hyst |-> hyst]
MCDefault == [scale |-> Band(0, 3), alarm |-> Limits(FALSE, 3, 0, 1)]
MCScales == {Band(3, 0), Band(1, 1)}
MCAlarms == {Limits(TRUE, 3, 0, 1), Limits(TRUE, 1, 2, 1)}

\* A service that stands still has one initial state.
AllInit ==
    /\ service \in {"ring", "auth", "policy", "map", "ladder", "snapshot", "binding", "pve"}
    /\ Init /\ A!Init /\ P!Init /\ M!Init /\ L!Init /\ S!Init /\ B!Init /\ V!Init
    /\ service # "ring" => \A i, j \in DOMAIN queue : queue[i] = queue[j]
    /\ service # "ring" => queue[0] = CHOOSE x \in Item : TRUE
    /\ service # "auth" => aFlash = A!Seed
    /\ service # "policy" => pBlob = P!NoBlob
    /\ service # "map" => mFlash.ver = 2
    /\ service # "binding" => bSaved = Nothing
    /\ service # "snapshot" => \A i \in DOMAIN sPin : sPin[i] = 0

AllNext ==
    \/ service = "ring" /\ Next /\ UNCHANGED <<service, aVars, pVars, mVars, lVars, sVars, bVars, vVars>>
    \/ service = "auth" /\ A!Next /\ UNCHANGED <<service, vars, pVars, mVars, lVars, sVars, bVars, vVars>>
    \/ service = "policy" /\ P!Next /\ UNCHANGED <<service, vars, aVars, mVars, lVars, sVars, bVars, vVars>>
    \/ service = "map" /\ M!Next /\ UNCHANGED <<service, vars, aVars, pVars, lVars, sVars, bVars, vVars>>
    \/ service = "ladder" /\ L!Next /\ UNCHANGED <<service, vars, aVars, pVars, mVars, sVars, bVars, vVars>>
    \/ service = "binding" /\ B!Next /\ UNCHANGED <<service, vars, aVars, pVars, mVars, lVars, sVars, vVars>>
    \/ service = "pve" /\ V!Next /\ UNCHANGED <<service, vars, aVars, pVars, mVars, lVars, sVars, bVars>>
    \/ service = "snapshot" /\ S!Next /\ UNCHANGED <<service, vars, aVars, pVars, mVars, lVars, bVars, vVars>>

allVars == <<service, vars, aVars, pVars, mVars, lVars, sVars, bVars, vVars>>

\* Fairness of Snapshot: its clock and the auxiliary task go on.
AllSpec ==
    /\ AllInit /\ [][AllNext]_allVars
    /\ WF_allVars(service = "snapshot" /\ S!Tick /\ UNCHANGED <<service, vars, aVars, pVars, mVars, lVars, bVars, vVars>>)
    /\ WF_allVars(service = "snapshot" /\ S!Save /\ UNCHANGED <<service, vars, aVars, pVars, mVars, lVars, bVars, vVars>>)

-----------------------------------------------------------------------------
\* snapshot.c: a value that flash does not hold is saved in the end, where the
\* snapshot runs.
SavedInTheEnd == service = "snapshot" => S!SavedInTheEnd
=============================================================================
