------------------------------ MODULE Watchdog ------------------------------
(***************************************************************************)
(* The hardware watchdog of watchdog/watchdog.c and what may starve it.    *)
(* The feed is relayed: a delayed work on the system work queue submits a  *)
(* work to the application work queue, which feeds and starts the delay    *)
(* again, so that a hang of either queue resets the device.  The system    *)
(* work queue also runs send_env_data_work, which waits for                *)
(* iotex_config_mutex; the main thread keeps that mutex while a beep that  *)
(* the server asked for sounds.                                            *)
(*                                                                         *)
(* Time advances in ticks, and only when no queue has work it could run.   *)
(***************************************************************************)
EXTENDS Integers, SequencesExt

CONSTANTS
    Timeout,  \* CONFIG_ASSET_TRACKER_WATCHDOG_TIMEOUT_MSEC
    Period,   \* WDT_FEED_WORKER_DELAY_MS, half of it
    MaxWork,  \* longest time send_env_data_work holds the mutex
    MaxBeep,  \* longest beep
    Faults    \* what may fail, a subset of FaultKinds

FaultKinds == {"enable", "feed", "system hang", "application hang"}

ASSUME WatchdogAssumption ==
    /\ Timeout \in Nat
    /\ Period \in Nat \ {0}
    /\ MaxWork \in Nat
    /\ MaxBeep \in Nat
    /\ Faults \subseteq FaultKinds

\* What the code relies on and does not check: the system work queue is never
\* blocked for the time the watchdog leaves after the feed is due.
ASSUME MarginAssumption == Period + MaxBeep + MaxWork < Timeout

VARIABLES
    mode,   \* the watchdog: "boot", "on", or "off" for ever
    wdt,    \* ticks since it was fed
    timer,  \* ticks until system_workqueue_work expires, 0 when not pending
    queue,  \* the system work queue: "feed" and "env" works, in order
    sys,    \* what it runs: "idle", or env: "wait" for the mutex, "work", "hung"
    left,   \* ticks until env has done its work
    app,    \* the application work queue: "idle", "feed" submitted, or "hung"
    beep    \* ticks the main thread still holds the mutex

vars == <<mode, wdt, timer, queue, sys, left, app, beep>>
dog == <<mode, wdt, timer>>

Works == {"feed", "env"}

TypeOK ==
    /\ mode \in {"boot", "on", "off"}
    /\ wdt \in 0 .. Timeout
    /\ timer \in 0 .. Period
    /\ queue \in Seq(Works)
    /\ sys \in {"idle", "wait", "work", "hung"}
    /\ left \in 0 .. MaxWork
    /\ app \in {"idle", "feed", "hung"}
    /\ beep \in 0 .. MaxBeep

Queued(q, w) == \E i \in DOMAIN q : q[i] = w

\* Submitting a delayed work takes it off the queue first.
Cancel(q, w) ==
    IF Queued(q, w) THEN RemoveAt(q, CHOOSE i \in DOMAIN q : q[i] = w) ELSE q

Init ==
    /\ mode = "boot"
    /\ wdt = 0
    /\ timer = 0
    /\ queue = <<>>
    /\ sys = "idle"
    /\ left = 0
    /\ app = "idle"
    /\ beep = 0

-----------------------------------------------------------------------------
(* watchdog_enable *)

Enable ==
    /\ mode = "boot"
    /\ mode' = "on"
    /\ timer' = Period
    /\ UNCHANGED <<wdt, queue, sys, left, app, beep>>

\* The driver is missing or refuses: main ignores the result.
EnableFails ==
    /\ mode = "boot"
    /\ "enable" \in Faults
    /\ mode' = "off"
    /\ UNCHANGED <<wdt, timer, queue, sys, left, app, beep>>

\* wdt_setup succeeds, the first feed or the delayed work fails.
FeedEnableFails ==
    /\ mode = "boot"
    /\ "feed" \in Faults
    /\ mode' = "on"
    /\ UNCHANGED <<wdt, timer, queue, sys, left, app, beep>>

-----------------------------------------------------------------------------
(* The feed *)

PrimaryFeedDirect ==
    /\ sys = "idle"
    /\ queue # <<>>
    /\ Head(queue) = "feed"
    /\ queue' = Tail(queue)
    /\ wdt' = 0
    /\ timer' = Period
    /\ UNCHANGED <<mode, app, sys, left, beep>>
PrimaryFeed ==
    /\ sys = "idle"
    /\ queue # <<>>
    /\ Head(queue) = "feed"
    /\ queue' = Tail(queue)
    /\ app' = IF app = "idle" THEN "feed" ELSE app
    /\ UNCHANGED <<dog, sys, left, beep>>

SecondaryFeedLate ==
    /\ app = "feed"
    /\ wdt' = 0
    /\ timer' = Timeout
    /\ app' = "idle"
    /\ UNCHANGED <<mode, queue, sys, left, beep>>
SecondaryFeed ==
    /\ app = "feed"
    /\ wdt' = 0
    /\ timer' = Period
    /\ app' = "idle"
    /\ UNCHANGED <<mode, queue, sys, left, beep>>

\* wdt_feed fails: the work is not submitted again.
SecondaryFeedFails ==
    /\ app = "feed"
    /\ "feed" \in Faults
    /\ app' = "idle"
    /\ UNCHANGED <<dog, queue, sys, left, beep>>

-----------------------------------------------------------------------------
(* send_env_data_work on the system work queue *)

\* Its delay ends, or RestartEnvWork submits it, also while it runs.
EnvExpires ==
    /\ ~ Queued(queue, "env")
    /\ queue' = Append(queue, "env")
    /\ UNCHANGED <<dog, sys, left, app, beep>>

EnvRuns ==
    /\ sys = "idle"
    /\ queue # <<>>
    /\ Head(queue) = "env"
    /\ queue' = Tail(queue)
    /\ sys' \in {"wait", "idle"}     \* idle: send_data_enable is not set
    /\ UNCHANGED <<dog, left, app, beep>>

EnvLocks ==
    /\ sys = "wait"
    /\ beep = 0
    /\ sys' = "work"
    /\ left' \in 0 .. MaxWork
    /\ UNCHANGED <<dog, queue, app, beep>>

\* It submits itself with a delay, which takes it out of the queue.
EnvEnds ==
    /\ sys = "work"
    /\ left = 0
    /\ sys' = "idle"
    /\ queue' = Cancel(queue, "env")
    /\ UNCHANGED <<dog, left, app, beep>>

\* onBeepMePressed sleeps inside iotex_mqtt_update_config.
BeepUnlocked ==
    /\ beep = 0
    /\ sys # "work"
    /\ beep' \in 1 .. MaxBeep
    /\ UNCHANGED <<dog, queue, sys, left, app>>
Beep ==
    /\ beep = 0
    /\ sys \notin {"wait", "work"}
    /\ beep' \in 1 .. MaxBeep
    /\ UNCHANGED <<dog, queue, sys, left, app>>

-----------------------------------------------------------------------------
SystemHangs ==
    /\ "system hang" \in Faults
    /\ sys = "work"
    /\ sys' = "hung"
    /\ UNCHANGED <<dog, queue, left, app, beep>>

ApplicationHangs ==
    /\ "application hang" \in Faults
    /\ app # "hung"
    /\ app' = "hung"
    /\ UNCHANGED <<dog, queue, sys, left, beep>>

\* Work that runs at once: it does not wait for time to pass.
Urgent ==
    \/ mode = "boot"
    \/ app = "feed"
    \/ sys = "idle" /\ queue # <<>>
    \/ sys = "wait" /\ beep = 0
    \/ sys = "work" /\ left = 0

Less(n) == IF n = 0 THEN 0 ELSE n - 1

Tick ==
    /\ ~ Urgent
    /\ mode = "on" => wdt < Timeout
    /\ wdt' = IF mode = "on" THEN wdt + 1 ELSE wdt
    /\ timer' = Less(timer)
    /\ queue' = IF timer = 1 THEN Append(queue, "feed") ELSE queue
    /\ left' = Less(left)
    /\ beep' = Less(beep)
    /\ UNCHANGED <<mode, sys, app>>

Reset ==
    /\ mode = "on"
    /\ wdt = Timeout
    /\ mode' = "boot"
    /\ wdt' = 0
    /\ timer' = 0
    /\ queue' = <<>>
    /\ sys' = "idle"
    /\ left' = 0
    /\ app' = "idle"
    /\ beep' = 0

Urgently ==
    \/ Enable
    \/ EnableFails
    \/ FeedEnableFails
    \/ PrimaryFeed
    \/ SecondaryFeed
    \/ SecondaryFeedFails
    \/ EnvRuns
    \/ EnvLocks
    \/ EnvEnds

Next ==
    \/ Urgently
    \/ EnvExpires
    \/ Beep
    \/ SystemHangs
    \/ ApplicationHangs
    \/ Tick
    \/ Reset

Spec == Init /\ [][Next]_vars

\* Time passes, runnable work runs and the hardware resets.
FairSpec == Spec /\ WF_vars(Urgently) /\ SF_vars(Tick) /\ WF_vars(Reset)

-----------------------------------------------------------------------------
(* Properties *)

FeedPending == timer > 0 \/ Queued(queue, "feed") \/ app = "feed"

\* Neither queue hangs and no feed failed.
Healthy == mode = "on" /\ sys # "hung" /\ app # "hung" /\ FeedPending

\* A device whose queues are alive is not reset, however the environment work,
\* the beeps and the feed follow each other (watchdog.c:26-42).
NoResetWhenHealthy == Healthy => wdt < Timeout

\* A hang of either work queue, or a failed feed, resets the device: the relay
\* through both queues is there for that.
HangResets == mode = "on" /\ ~ Healthy ~> mode = "boot"
=============================================================================
