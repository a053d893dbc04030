------------------------------ MODULE Services ------------------------------
(***************************************************************************)
(* Eight services that share no state: the command ring, accounts and      *)
(* audit, the network policy, the installation map, the ladder engine, the *)
(* state table with its snapshot, the bindings of channels to pins, and    *)
(* the process variables.  Each is its own module; here they are put side  *)
(* by side, with their constants and variables told apart by a letter, and *)
(* their properties get their names.                                       *)
(***************************************************************************)
EXTENDS RingQueue

CONSTANTS
    MaxFail,    \* bound on failed writes, of each service
    aUsers, aAdmin, aSlots, aCap, aMaxLog,
    pSupported, pOffered, pOld, pMaxOps,
    mNodes, mOutputs, mChannels, mLocals, mGlobals, mMaxEntries, mMaxV1, mFound, mMaxOps,
    lTags, lInputs, lPrograms, lTest, lMaxStack, lMaxTimers, lMaxInt, lMaxCount, lMaxTime, lMaxOps,
    sOrder, sInputs, sOutputs, sStartup, sX0, sY0, sSamples, sDebounce, sMaxSets, sMaxStarts,
    bInIds, bOutIds, bDefaultIds, bProfilePin, bAdcPins, bInPins, bOutPins, bBusPins, bOutOnlyPin, bInOnlyPin,
    bNC, bOldFlash,
    vRaws, vDefault, vScales, vAlarms, vTestVals, vCap, vMaxOps

VARIABLES
    aUp, aRam, aFlash, aSession, aRing, aPos, aLogged, aMade, aUnread, aFails,
    pRam, pNode, pBlob, pKey, pOnb, pActive, pTodo, pStale, pLost, pCrossed, pOps, pFails,
    mEntries, mFlash, mSent, mOps, mFails,
    lProg, lFlash, lVal, lTim, lCnt, lNow, lHttp, lNew, lSince, lAsked, lOps, lFails,
    sVal, sPend, sQuiet, sAux, sK, sBuf, sFlash, sPin, sInp, sMissed, sLost, sSets, sStarts, sFails,
    bPhase, bBound, bDriver, bRestart, bRs485, bSaved, bQuiet, bFails,
    vConf, vRun, vNvs, vOn, vOnSaved, vRing, vHead, vCount, vRaced, vLog, vCrossed, vPc, vOps, vFails

A == INSTANCE Auth WITH
    Users <- aUsers, Admin <- aAdmin, Slots <- aSlots, Cap <- aCap, MaxLog <- aMaxLog,
    up <- aUp, ram <- aRam, flash <- aFlash, session <- aSession, ring <- aRing, pos <- aPos, logged <- aLogged,
    made <- aMade, unread <- aUnread, fails <- aFails

P == INSTANCE NetPolicy WITH
    Supported <- pSupported, Offered <- pOffered, Old <- pOld, MaxOps <- pMaxOps,
    ram <- pRam, node <- pNode, blob <- pBlob, key <- pKey, onb <- pOnb, active <- pActive, todo <- pTodo,
    stale <- pStale, lost <- pLost, crossed <- pCrossed, ops <- pOps, fails <- pFails

M == INSTANCE InstallationMap WITH
    Nodes <- mNodes, Outputs <- mOutputs, Channels <- mChannels, Locals <- mLocals, Globals <- mGlobals,
    MaxEntries <- mMaxEntries, MaxV1 <- mMaxV1, Found <- mFound, MaxOps <- mMaxOps,
    entries <- mEntries, flash <- mFlash, sent <- mSent, ops <- mOps, fails <- mFails

L == INSTANCE Ladder WITH
    Tags <- lTags, Inputs <- lInputs, Programs <- lPrograms, Test <- lTest, MaxStack <- lMaxStack,
    MaxTimers <- lMaxTimers, MaxInt <- lMaxInt, MaxCount <- lMaxCount, MaxTime <- lMaxTime, MaxOps <- lMaxOps,
    prog <- lProg, flash <- lFlash, val <- lVal, tim <- lTim, cnt <- lCnt, now <- lNow, http <- lHttp, new <- lNew,
    since <- lSince, asked <- lAsked, ops <- lOps, fails <- lFails

S == INSTANCE Snapshot WITH
    Order <- sOrder, Inputs <- sInputs, Outputs <- sOutputs, Startup <- sStartup, X0 <- sX0, Y0 <- sY0,
    Samples <- sSamples, Debounce <- sDebounce, MaxSets <- sMaxSets, MaxStarts <- sMaxStarts,
    val <- sVal, pend <- sPend, quiet <- sQuiet, aux <- sAux, k <- sK, buf <- sBuf, flash <- sFlash, pin <- sPin,
    inp <- sInp, missed <- sMissed, lost <- sLost, sets <- sSets, starts <- sStarts, fails <- sFails

B == INSTANCE IoBinding WITH
    InIds <- bInIds, OutIds <- bOutIds, DefaultIds <- bDefaultIds, ProfilePin <- bProfilePin, AdcPins <- bAdcPins,
    InPins <- bInPins, OutPins <- bOutPins, BusPins <- bBusPins, OutOnlyPin <- bOutOnlyPin,
    InOnlyPin <- bInOnlyPin, NC <- bNC, OldFlash <- bOldFlash,
    phase <- bPhase, bound <- bBound, driver <- bDriver, restart <- bRestart, rs485 <- bRs485, saved <- bSaved,
    quiet <- bQuiet, fails <- bFails

V == INSTANCE Pve WITH
    Raws <- vRaws, Default <- vDefault, Scales <- vScales, Alarms <- vAlarms, TestVals <- vTestVals, Cap <- vCap,
    MaxOps <- vMaxOps,
    conf <- vConf, run <- vRun, nvs <- vNvs, on <- vOn, onSaved <- vOnSaved, ring <- vRing, head <- vHead,
    count <- vCount, raced <- vRaced, log <- vLog, crossed <- vCrossed, pc <- vPc, ops <- vOps, fails <- vFails

ASSUME AuthAssumption == A!ConstantsOK
ASSUME PolicyAssumption == P!ConstantsOK
ASSUME MapAssumption == M!ConstantsOK
ASSUME LadderAssumption == L!ConstantsOK
ASSUME SnapshotAssumption == S!ConstantsOK
ASSUME BindingAssumption == B!ConstantsOK
ASSUME PveAssumption == V!ConstantsOK

-----------------------------------------------------------------------------
(* The properties of the services, under their own names.                  *)

\* auth.c: once an administrator was acknowledged, no edit, failed write,
\* deletion, migration or restart leaves the node without an enabled one.
AdminRemains == A!AdminRemains

\* auth.c: the open session belongs to an enabled administrator, the same in
\* memory and in flash.
SessionIsAdmin == A!SessionIsAdmin

\* auth_export_audit: the last events, all that fit, in the order they happened.
AuditIsTail == A!AuditIsTail

\* device_profile.c: a restart brings back the policy in force.
PolicyKept == P!PolicyKept

\* endap_onboarding.c: wherever power is cut in a claim or a reset, a node with
\* an onboarding record has its profile in flash.
ClaimedHasProfile == P!ClaimedHasProfile

\* http_server.c, installation map: a command goes where its name went before,
\* until someone edits that name.
NamesStay == M!NamesStay

\* ladder_engine.c: a TON passes power only after its rung was on in every scan
\* for the preset time.
TonWaits == L!TonWaits

\* ladder_engine.c: a block inside a branch of a block gives what series and
\* parallel contacts mean.
BlocksMean == L!BlocksMean

\* snapshot.c: while nothing is pending, flash holds the values of the table,
\* but for one that changed behind the save and for a commit that failed.
CleanIsSaved == S!CleanIsSaved

\* io_binding.c: no pin is a digital input and an output at once.
NoCrossPin == B!NoCrossPin

\* io_binding.c: a restart is announced while the driver works on other
\* bindings than the tables show.
RestartFlagged == B!RestartFlagged

\* io_binding.c: a start leaves what the next start finds.
BootStable == B!BootStable

\* pve.c: a value at or beyond a limit shows its alarm.
AlarmShows == V!AlarmShows

\* pve.c: the history of alarms is the last changes.
HistoryIsTail == V!HistoryIsTail

\* core_boot.c: outputs start as their startup policy says.
StartupKept == S!StartupKept

-----------------------------------------------------------------------------
(* Further ones the code does not meet; each is stated in its module.       *)

\* device_profile.c: two writers of the policy, a node in onboarding, and a
\* fallback that is enabled.
PolicyKeptAlways == P!PolicyKeptAlways
OnboardingForced == P!OnboardingForced
FallbackUsable == P!FallbackUsable

\* http_server.c: names are unique, and every entry of the map can be used.
ResourceUnique == M!ResourceUnique
OutputsUsable == M!OutputsUsable

\* auth.c: a node with accounts is never open again.
AdminAlways == A!AdminAlways

\* ladder_engine.c: the deployed program runs, a TON waits also when it is
\* replaced, a TOF ends, a deployment is atomic in flash.
TonWaitsAlways == L!TonWaitsAlways
ProgramKept == L!ProgramKept
TofEnds == L!TofEnds
DeployAtomic == L!DeployAtomic

\* snapshot.c and io_driver.c: flash is current while nothing is pending, and
\* the table shows the inputs.
CleanIsSavedAlways == S!CleanIsSavedAlways
InputsSeen == S!InputsSeen

\* io_binding.c: no start gives one pin to two outputs.
OutputsApart == B!OutputsApart

\* pve.c: no change of an alarm is lost, the alarm of a value at rest stays,
\* and a restart brings back the configuration.
HistoryAlways == V!HistoryAlways
Steady == V!Steady
ConfigKept == V!ConfigKept
=============================================================================
