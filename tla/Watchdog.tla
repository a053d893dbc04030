------------------------------ MODULE Watchdog ------------------------------
(***************************************************************************)
(* The software watchdog (watchdog.c).  A supervised task feeds its entry; *)
(* the auxiliary task walks the table once per period and restarts the     *)
(* system when an entry has missed three checks in a row.  A feed reads    *)
(* the tick counter before it takes the lock, the check reads it inside;   *)
(* the check confirms under a second lock before it restarts.              *)
(*                                                                         *)
(* The tick counter wraps (TickType_t).  age and held are history          *)
(* variables: the true number of ticks since the stored and the sampled    *)
(* tick were read.                                                         *)
(***************************************************************************)
EXTENDS Integers

CONSTANTS
  MaxWd,      \* entries of the table (MAX_WD)
  Timeout,    \* ticks an entry may go without a feed, per entry
  TickMod,    \* modulus of the tick counter (2^32)
  MaxMisses,  \* WATCHDOG_MAX_MISSES
  CheckGap,   \* ticks within which the auxiliary task completes a check
  FeedDelay   \* ticks a feed may stay between its tick read and its lock

Ids == 0..(MaxWd - 1)

(* Before the third miss is confirmed an entry is at most its timeout and  *)
(* MaxMisses + 1 periods old: the counter must not wrap within that time.  *)
ASSUME WatchdogAssumption ==
  /\ MaxWd \in Nat \ {0}
  /\ MaxMisses \in Nat \ {0} /\ CheckGap \in Nat \ {0} /\ FeedDelay \in Nat
  /\ Timeout \in [Ids -> Nat \ {0}]
  /\ TickMod \in Nat
  /\ \A i \in Ids :
       Timeout[i] + FeedDelay + (MaxMisses + 1) * CheckGap < TickMod

None == -1

VARIABLES
  now,        \* xTaskGetTickCount()
  wdActive, last, miss,   \* the fields of table[]
  feeder,     \* per entry: what its task is doing
  sample,     \* per entry: now_ticks of the feed or register in progress
  wd, entry,  \* control point of watchdog_check and its loop index
  hung,       \* entries whose task has stopped
  restarted,  \* the entry esp_restart was called for, or None
  age, held,  \* history: true age of last and of sample
  sinceCheck  \* ticks since the auxiliary task last finished a check

wdVars == <<now, wdActive, last, miss, feeder, sample, wd, entry, hung,
            restarted, age, held, sinceCheck>>

tableVars == <<wdActive, last, miss>>
feedVars  == <<feeder, sample, held>>
checkVars == <<wd, entry, restarted>>

WdInit ==
  /\ now = 0
  /\ wdActive = [i \in Ids |-> FALSE]
  /\ last = [i \in Ids |-> 0]
  /\ miss = [i \in Ids |-> 0]
  /\ feeder = [i \in Ids |-> "idle"]
  /\ sample = [i \in Ids |-> 0]
  /\ wd = "idle" /\ entry = 0
  /\ hung = {}
  /\ restarted = None
  /\ age = [i \in Ids |-> 0]
  /\ held = [i \in Ids |-> 0]
  /\ sinceCheck = 0

Running == restarted = None

-----------------------------------------------------------------------------
(* watchdog_register and watchdog_feed sample the tick counter first.      *)
Sample(i, what) ==
  /\ Running
  /\ i \notin hung
  /\ feeder[i] = "idle"
  /\ feeder' = [feeder EXCEPT ![i] = what]
  /\ sample' = [sample EXCEPT ![i] = now]
  /\ held' = [held EXCEPT ![i] = 0]
  /\ UNCHANGED <<now, tableVars, checkVars, hung, age, sinceCheck>>

(* Only the boot task registers, once per entry.                           *)
RegisterBegin(i) == ~ wdActive[i] /\ Sample(i, "register")
FeedBegin(i) == Sample(i, "feed")

(* The critical section of watchdog_register.                              *)
RegisterEnd(i) ==
  /\ Running
  /\ feeder[i] = "register"
  /\ wdActive' = [wdActive EXCEPT ![i] = TRUE]
  /\ last' = [last EXCEPT ![i] = sample[i]]
  /\ miss' = [miss EXCEPT ![i] = 0]
  /\ age' = [age EXCEPT ![i] = held[i]]
  /\ feeder' = [feeder EXCEPT ![i] = "idle"]
  /\ sample' = [sample EXCEPT ![i] = 0]
  /\ held' = [held EXCEPT ![i] = 0]
  /\ UNCHANGED <<now, checkVars, hung, sinceCheck>>

(* The critical section of watchdog_feed; an entry that is not registered  *)
(* is left alone.                                                          *)
FeedEnd(i) ==
  /\ Running
  /\ feeder[i] = "feed"
  /\ IF wdActive[i]
     THEN /\ last' = [last EXCEPT ![i] = sample[i]]
          /\ miss' = [miss EXCEPT ![i] = 0]
          /\ age' = [age EXCEPT ![i] = held[i]]
     ELSE UNCHANGED <<last, miss, age>>
  /\ feeder' = [feeder EXCEPT ![i] = "idle"]
  /\ sample' = [sample EXCEPT ![i] = 0]
  /\ held' = [held EXCEPT ![i] = 0]
  /\ UNCHANGED <<now, wdActive, checkVars, hung, sinceCheck>>

(* A supervised task stops for good, outside the two calls.                *)
Hang(i) ==
  /\ Running
  /\ wdActive[i] /\ feeder[i] = "idle" /\ i \notin hung
  /\ hung' = hung \cup {i}
  /\ UNCHANGED <<now, tableVars, feedVars, checkVars, age, sinceCheck>>

-----------------------------------------------------------------------------
(* Mutant: the tick is sampled before the lock is taken, one tick early.   *)
ElapsedEarly(i) == (now - 1 - last[i]) % TickMod

(* xTaskGetTickCount() - last_feed_tick, in unsigned arithmetic.           *)
Elapsed(i) == (now - last[i]) % TickMod

Expired(i) == Elapsed(i) > Timeout[i]

CheckBegin ==
  /\ Running
  /\ wd = "idle"
  /\ wd' = "check" /\ entry' = 0
  /\ UNCHANGED <<now, tableVars, feedVars, hung, restarted, age, sinceCheck>>

(* On to the next entry, or the end of the check.                          *)
NextEntry ==
  IF entry < MaxWd - 1
  THEN wd' = "check" /\ entry' = entry + 1 /\ UNCHANGED sinceCheck
  ELSE wd' = "idle" /\ entry' = 0 /\ sinceCheck' = 0

(* First critical section of watchdog_check for one entry.                 *)
CheckFresh ==
  /\ Running
  /\ wd = "check"
  /\ ~ (wdActive[entry] /\ Expired(entry))
  /\ miss' = IF wdActive[entry] THEN [miss EXCEPT ![entry] = 0] ELSE miss
  /\ NextEntry
  /\ UNCHANGED <<now, wdActive, last, feedVars, hung, restarted, age>>

(* Mutant: a miss is never counted.                                        *)
CheckExpiredUncounted ==
  /\ Running
  /\ wd = "check"
  /\ wdActive[entry] /\ Expired(entry)
  /\ NextEntry
  /\ UNCHANGED <<now, tableVars, feedVars, hung, restarted, age>>

CheckExpired ==
  /\ Running
  /\ wd = "check"
  /\ wdActive[entry] /\ Expired(entry)
  /\ miss' = [miss EXCEPT ![entry] = IF @ < 255 THEN @ + 1 ELSE @]
  /\ IF miss'[entry] >= MaxMisses
     THEN wd' = "confirm" /\ UNCHANGED <<entry, sinceCheck>>
     ELSE NextEntry
  /\ UNCHANGED <<now, wdActive, last, feedVars, hung, restarted, age>>

(* Second critical section, and esp_restart.                               *)
StillExpired ==
  wdActive[entry] /\ Expired(entry) /\ miss[entry] >= MaxMisses

(* Mutant: the restart is not confirmed.                                   *)
RestartUnconfirmed ==
  /\ Running
  /\ wd = "confirm"
  /\ restarted' = entry
  /\ UNCHANGED <<now, tableVars, feedVars, wd, entry, hung, age, sinceCheck>>

Restart ==
  /\ Running
  /\ wd = "confirm"
  /\ StillExpired
  /\ restarted' = entry
  /\ UNCHANGED <<now, tableVars, feedVars, wd, entry, hung, age, sinceCheck>>

FedMeanwhile ==
  /\ Running
  /\ wd = "confirm"
  /\ ~ StillExpired
  /\ NextEntry
  /\ UNCHANGED <<now, tableVars, feedVars, hung, restarted, age>>

-----------------------------------------------------------------------------
(* A tick of FreeRTOS.  The auxiliary task finishes a check at least every *)
(* CheckGap ticks, and a feed is not suspended for more than FeedDelay     *)
(* ticks.  Ages beyond the modulus are not told apart.                     *)
Older(a) == IF a < TickMod THEN a + 1 ELSE a

Tick ==
  /\ Running
  /\ sinceCheck < CheckGap
  /\ \A i \in Ids : feeder[i] # "idle" => held[i] < FeedDelay
  /\ now' = (now + 1) % TickMod
  /\ age' = [i \in Ids |-> IF wdActive[i] THEN Older(age[i]) ELSE 0]
  /\ held' = [i \in Ids |-> IF feeder[i] # "idle" THEN held[i] + 1 ELSE 0]
  /\ sinceCheck' = sinceCheck + 1
  /\ UNCHANGED <<tableVars, feeder, sample, checkVars, hung>>

CheckStep ==
  CheckBegin \/ CheckFresh \/ CheckExpired \/ Restart \/ FedMeanwhile

FeederStep(i) == RegisterEnd(i) \/ FeedEnd(i)

WdNext ==
  \/ CheckStep
  \/ Tick
  \/ \E i \in Ids :
       RegisterBegin(i) \/ FeedBegin(i) \/ FeederStep(i) \/ Hang(i)

(* Time passes, the auxiliary task keeps running, and a call that has read *)
(* the tick reaches its critical section.  Nothing obliges a task to feed. *)
Fairness ==
  /\ WF_wdVars(Tick)
  /\ WF_wdVars(CheckStep)
  /\ \A i \in Ids : WF_wdVars(FeederStep(i))

WdSpec == WdInit /\ [][WdNext]_wdVars /\ Fairness

-----------------------------------------------------------------------------
(* Type invariant.                                                         *)
WdTypeOK ==
  /\ now \in 0..(TickMod - 1)
  /\ wdActive \in [Ids -> BOOLEAN]
  /\ last \in [Ids -> 0..(TickMod - 1)]
  /\ miss \in [Ids -> 0..255]
  /\ feeder \in [Ids -> {"idle", "register", "feed"}]
  /\ sample \in [Ids -> 0..(TickMod - 1)]
  /\ wd \in {"idle", "check", "confirm"}
  /\ entry \in Ids
  /\ hung \in SUBSET Ids
  /\ restarted \in Ids \cup {None}
  /\ age \in [Ids -> 0..TickMod]
  /\ held \in [Ids -> 0..FeedDelay]
  /\ sinceCheck \in 0..CheckGap

(* watchdog_check restarts the system only for a task that really has not  *)
(* fed for longer than its timeout, and whose third miss still stands: no  *)
(* wrap of the counter, no feed racing the check gives a false restart.    *)
RestartJustified ==
  restarted # None =>
    /\ wdActive[restarted]
    /\ age[restarted] > Timeout[restarted]
    /\ miss[restarted] >= MaxMisses

(* While the system runs an active entry is as old as it looks: the        *)
(* wrapped subtraction of watchdog_check is the true age.                  *)
ElapsedIsAge ==
  \A i \in Ids : wdActive[i] /\ Running => Elapsed(i) = age[i]

(* A registered task that stops is always detected: the system restarts.   *)
HangDetected == hung # {} ~> restarted # None

=============================================================================
