--------------------------- MODULE WatchdogProofs ---------------------------
(***************************************************************************)
(* Proofs about Watchdog: with the margin the configuration leaves, a      *)
(* device whose work queues are alive is never reset, for every time-out,  *)
(* feeding period, length of the work and of the beep.                     *)
(***************************************************************************)
EXTENDS Watchdog, SequenceTheorems, TLAPS

-----------------------------------------------------------------------------
(* The work queue: a work is in it at most once *)

Distinct(q) == \A i, j \in DOMAIN q : q[i] = q[j] => i = j
Proper(q) == q \in Seq(Works) /\ Distinct(q)

\* Submitting a work that is not queued puts it behind the others.
LEMMA AppendFacts ==
    ASSUME NEW q, Proper(q), NEW w \in Works, ~ Queued(q, w)
    PROVE  /\ Proper(Append(q, w))
           /\ \A v \in Works : Queued(Append(q, w), v) <=> Queued(q, v) \/ v = w
           /\ q # <<>> => Head(Append(q, w)) = Head(q)
           /\ q = <<>> => Head(Append(q, w)) = w
<1> DEFINE a == Append(q, w)
<1>1. /\ a \in Seq(Works)
      /\ Len(a) = Len(q) + 1
      /\ \A i \in 1 .. Len(q) : a[i] = q[i]
      /\ a[Len(q) + 1] = w
  BY AppendProperties DEF Proper
<1>2. Len(q) \in Nat /\ DOMAIN q = 1 .. Len(q) /\ DOMAIN a = 1 .. Len(q) + 1
  BY <1>1, LenProperties DEF Proper
<1>3. Head(a) = IF q = <<>> THEN w ELSE Head(q)
  BY HeadTailAppend DEF Proper
<1> HIDE DEF a
<1>4. Distinct(a)
  BY <1>1, <1>2 DEF Distinct, Proper, Queued
<1>5. \A v \in Works : Queued(a, v) <=> Queued(q, v) \/ v = w
  BY <1>1, <1>2 DEF Queued
<1> QED
  BY <1>1, <1>3, <1>4, <1>5 DEF Proper, a

\* The queue takes its first work to run it.
LEMMA TailFacts ==
    ASSUME NEW q, Proper(q), q # <<>>
    PROVE  /\ Proper(Tail(q))
           /\ \A v \in Works : Queued(Tail(q), v) <=> Queued(q, v) /\ v # Head(q)
<1> DEFINE t == Tail(q)
<1>1. /\ t \in Seq(Works)
      /\ Len(t) = Len(q) - 1
      /\ \A i \in 1 .. Len(t) : t[i] = q[i + 1]
  BY HeadTailProperties DEF Proper
<1>2. Len(q) \in Nat \ {0} /\ DOMAIN q = 1 .. Len(q) /\ DOMAIN t = 1 .. Len(q) - 1
  BY <1>1, LenProperties, EmptySeq DEF Proper
<1>3. Head(q) = q[1]
  BY DEF Proper
<1> HIDE DEF t
<1>4. Distinct(t)
  BY <1>1, <1>2 DEF Distinct, Proper
<1>5. ASSUME NEW v \in Works
      PROVE  Queued(t, v) <=> Queued(q, v) /\ v # Head(q)
  <2>1. ASSUME Queued(t, v) PROVE Queued(q, v) /\ v # Head(q)
    <3>1. PICK i \in 1 .. Len(q) - 1 : t[i] = v
      BY <1>2, <2>1 DEF Queued
    <3>2. i + 1 \in DOMAIN q /\ q[i + 1] = v /\ i + 1 # 1
      BY <1>1, <1>2, <3>1
    <3> QED
      BY <1>2, <1>3, <3>2 DEF Queued, Proper, Distinct
  <2>2. ASSUME Queued(q, v), v # Head(q) PROVE Queued(t, v)
    <3>1. PICK i \in 1 .. Len(q) : q[i] = v
      BY <1>2, <2>2 DEF Queued
    <3>2. i - 1 \in DOMAIN t /\ t[i - 1] = v
      BY <1>1, <1>2, <1>3, <2>2, <3>1
    <3> QED
      BY <3>2 DEF Queued
  <2> QED
    BY <2>1, <2>2
<1> QED
  BY <1>1, <1>4, <1>5 DEF Proper, t

\* Taking element k out of a sequence.
LEMMA RemoveAtFacts ==
    ASSUME NEW q \in Seq(Works), NEW k \in 1 .. Len(q)
    PROVE  /\ RemoveAt(q, k) \in Seq(Works)
           /\ Len(RemoveAt(q, k)) = Len(q) - 1
           /\ \A i \in 1 .. Len(q) - 1 :
                 RemoveAt(q, k)[i] = IF i < k THEN q[i] ELSE q[i + 1]
<1>1. Len(q) \in Nat /\ \A i \in 1 .. Len(q) : q[i] \in Works
  BY LenProperties, ElementOfSeq
<1> DEFINE s == SubSeq(q, 1, k - 1)
           t == SubSeq(q, k + 1, Len(q))
<1>2. /\ s \in Seq(Works)
      /\ Len(s) = k - 1
      /\ \A i \in 1 .. k - 1 : s[i] = q[i]
  <2>1. \A i \in 1 .. k - 1 : q[i] \in Works
    BY <1>1
  <2>2. 1 \in Int /\ k - 1 \in Int
    BY <1>1
  <2>3. /\ SubSeq(q, 1, k - 1) \in Seq(Works)
        /\ Len(SubSeq(q, 1, k - 1)) = IF 1 <= k - 1 THEN (k - 1) - 1 + 1 ELSE 0
        /\ \A i \in 1 .. (k - 1) - 1 + 1 : SubSeq(q, 1, k - 1)[i] = q[1 + i - 1]
    BY <2>1, <2>2, SubSeqProperties
  <2> QED
    BY <1>1, <2>3
<1>3. /\ t \in Seq(Works)
      /\ Len(t) = Len(q) - k
      /\ \A i \in 1 .. Len(q) - k : t[i] = q[k + i]
  <2>1. \A i \in k + 1 .. Len(q) : q[i] \in Works
    BY <1>1
  <2>2. k + 1 \in Int /\ Len(q) \in Int
    BY <1>1
  <2>3. /\ SubSeq(q, k + 1, Len(q)) \in Seq(Works)
        /\ Len(SubSeq(q, k + 1, Len(q)))
              = IF k + 1 <= Len(q) THEN Len(q) - (k + 1) + 1 ELSE 0
        /\ \A i \in 1 .. Len(q) - (k + 1) + 1 :
              SubSeq(q, k + 1, Len(q))[i] = q[(k + 1) + i - 1]
    BY <2>1, <2>2, SubSeqProperties
  <2> QED
    BY <1>1, <2>3
<1> HIDE DEF s, t
<1>4. /\ s \o t \in Seq(Works)
      /\ Len(s \o t) = Len(s) + Len(t)
      /\ \A i \in 1 .. Len(s) + Len(t) :
            (s \o t)[i] = IF i <= Len(s) THEN s[i] ELSE t[i - Len(s)]
  BY <1>2, <1>3, ConcatProperties
<1>5. RemoveAt(q, k) = s \o t
  BY DEF RemoveAt, s, t
<1>6. Len(s \o t) = Len(q) - 1
  BY <1>1, <1>2, <1>3, <1>4
<1>7. ASSUME NEW i \in 1 .. Len(q) - 1
      PROVE  (s \o t)[i] = IF i < k THEN q[i] ELSE q[i + 1]
  <2>1. CASE i < k
    <3>1. i \in 1 .. k - 1 /\ i <= Len(s) /\ i \in 1 .. Len(s) + Len(t)
      BY <1>1, <1>2, <1>3, <2>1
    <3> QED
      BY <1>2, <1>4, <2>1, <3>1
  <2>2. CASE ~ (i < k)
    <3>1. /\ ~ (i <= Len(s))
          /\ i - Len(s) \in 1 .. Len(q) - k
          /\ i \in 1 .. Len(s) + Len(t)
          /\ k + (i - Len(s)) = i + 1
      BY <1>1, <1>2, <1>3, <2>2
    <3> QED
      BY <1>3, <1>4, <2>2, <3>1
  <2> QED
    BY <2>1, <2>2
<1> QED
  BY <1>4, <1>5, <1>6, <1>7

\* Once the environment work is off the queue, only the feed can be on it.
LEMMA CancelFacts ==
    ASSUME NEW q, Proper(q)
    PROVE  /\ Proper(Cancel(q, "env"))
           /\ Queued(Cancel(q, "env"), "feed") => Queued(q, "feed")
           /\ Queued(Cancel(q, "env"), "feed") => Head(Cancel(q, "env")) = "feed"
<1> DEFINE c == Cancel(q, "env")
<1>1. q \in Seq(Works) /\ Len(q) \in Nat /\ DOMAIN q = 1 .. Len(q)
  BY LenProperties DEF Proper
<1>2. /\ Proper(c)
      /\ Queued(c, "feed") => Queued(q, "feed")
      /\ ~ Queued(c, "env")
  <2>1. CASE ~ Queued(q, "env")
    BY <2>1 DEF Cancel
  <2>2. CASE Queued(q, "env")
    <3> DEFINE k == CHOOSE i \in DOMAIN q : q[i] = "env"
    <3>1. k \in 1 .. Len(q) /\ q[k] = "env"
      BY <1>1, <2>2 DEF Queued
    <3>2. c = RemoveAt(q, k)
      BY <2>2 DEF Cancel
    <3> HIDE DEF k, c
    <3>3. /\ c \in Seq(Works)
          /\ Len(c) = Len(q) - 1
          /\ \A i \in 1 .. Len(q) - 1 : c[i] = IF i < k THEN q[i] ELSE q[i + 1]
      BY <1>1, <3>1, <3>2, RemoveAtFacts
    <3>4. DOMAIN c = 1 .. Len(q) - 1
      BY <3>3, LenProperties
    <3>5. Distinct(c)
      BY <1>1, <3>1, <3>3, <3>4 DEF Distinct, Proper
    <3>6. \A i \in DOMAIN c : c[i] # "env"
      BY <1>1, <3>1, <3>3, <3>4 DEF Distinct, Proper
    <3>7. Queued(c, "feed") => Queued(q, "feed")
      <4>1. SUFFICES ASSUME NEW i \in DOMAIN c, c[i] = "feed"
                     PROVE  \E j \in DOMAIN q : q[j] = "feed"
        BY DEF Queued
      <4>2. CASE i < k
        BY <1>1, <3>3, <3>4, <4>1, <4>2
      <4>3. CASE ~ (i < k)
        <5>1. i + 1 \in DOMAIN q /\ q[i + 1] = "feed"
          BY <1>1, <3>1, <3>3, <3>4, <4>1, <4>3
        <5> QED
          BY <5>1
      <4> QED
        BY <4>2, <4>3
    <3> QED
      BY <3>3, <3>5, <3>6, <3>7 DEF Proper, Queued
  <2> QED
    BY <2>1, <2>2
<1> HIDE DEF c
<1>3. ASSUME Queued(c, "feed") PROVE Head(c) = "feed"
  <2>1. c \in Seq(Works) /\ Len(c) \in Nat /\ DOMAIN c = 1 .. Len(c)
    BY <1>2, LenProperties DEF Proper
  <2>2. 1 \in DOMAIN c
    BY <1>3, <2>1 DEF Queued
  <2>3. c[1] \in Works /\ c[1] # "env"
    BY <1>2, <2>1, <2>2, ElementOfSeq DEF Queued
  <2>4. Head(c) = c[1]
    BY <2>1
  <2> QED
    BY <2>3, <2>4 DEF Works
<1> QED
  BY <1>2, <1>3 DEF c

\* Sums of parts that are within their bounds.
LEMMA SumBound == \A a, b, c, d, e \in Nat : a <= b + c /\ d <= e => a + d <= b + c + e
OBVIOUS

LEMMA PartBound ==
    \A a, b, c, d \in Nat : b <= c => a + b <= a + c /\ a + b <= a + d + c
OBVIOUS

-----------------------------------------------------------------------------
(* The inductive invariant *)

\* The feed is at one place of its relay, and nowhere unless the watchdog runs.
OneFeed ==
    /\ timer > 0 => ~ Queued(queue, "feed") /\ app # "feed"
    /\ Queued(queue, "feed") => app # "feed"
    /\ mode # "on" =>
          wdt = 0 /\ timer = 0 /\ ~ Queued(queue, "feed") /\ app # "feed"

\* When the system work queue is free the feed does not wait behind other work.
FeedFirst == sys = "idle" /\ Queued(queue, "feed") => Head(queue) = "feed"

\* How late the feed is: it was queued when Period had passed, and since then
\* the work queue has spent part of a beep and part of its own work.
Deadline == Period + MaxBeep + MaxWork

Lateness ==
    /\ timer > 0 => wdt + timer = Period
    /\ Queued(queue, "feed") =>
          /\ sys = "wait" => wdt + beep <= Period + MaxBeep
          /\ sys = "work" => wdt + left <= Deadline
          /\ sys = "idle" => wdt <= Deadline
    /\ app = "feed" => wdt <= Deadline

IInv ==
    /\ TypeOK
    /\ Proper(queue)
    /\ OneFeed
    /\ FeedFirst
    /\ Lateness

LEMMA InitInv == Init => IInv
<1> SUFFICES ASSUME Init PROVE IInv
  OBVIOUS
<1>1. queue \in Seq(Works) /\ DOMAIN queue = {}
  BY DEF Init
<1>2. TypeOK
  BY <1>1, WatchdogAssumption DEF Init, TypeOK
<1> QED
  BY <1>1, <1>2 DEF Init, IInv, Proper, Distinct, OneFeed, FeedFirst, Lateness, Queued

\* The steps that leave the queue alone.
LEMMA QuietStep ==
    ASSUME IInv,
           \/ Enable
           \/ EnableFails
           \/ FeedEnableFails
           \/ SecondaryFeed
           \/ SecondaryFeedFails
           \/ EnvLocks
           \/ Beep
           \/ SystemHangs
           \/ ApplicationHangs
    PROVE  IInv'
<1> USE WatchdogAssumption
<1>1. queue' = queue
  BY DEF Enable, EnableFails, FeedEnableFails, SecondaryFeed, SecondaryFeedFails,
         EnvLocks, Beep, SystemHangs, ApplicationHangs, dog
<1>2. Proper(queue)' /\ (Queued(queue, "feed")' <=> Queued(queue, "feed"))
  BY <1>1 DEF IInv, Proper, Distinct, Queued
<1>3. TypeOK'
  <2>1. CASE Enable \/ EnableFails \/ FeedEnableFails
    BY <1>1, <2>1 DEF IInv, TypeOK, Enable, EnableFails, FeedEnableFails, dog
  <2>2. CASE SecondaryFeed \/ SecondaryFeedFails
    BY <1>1, <2>2 DEF IInv, TypeOK, SecondaryFeed, SecondaryFeedFails, dog
  <2>3. CASE EnvLocks \/ Beep
    BY <1>1, <2>3 DEF IInv, TypeOK, EnvLocks, Beep, dog
  <2>4. CASE SystemHangs \/ ApplicationHangs
    BY <1>1, <2>4 DEF IInv, TypeOK, SystemHangs, ApplicationHangs, dog
  <2> QED
    BY <2>1, <2>2, <2>3, <2>4
<1>4. OneFeed'
  BY <1>2 DEF IInv, TypeOK, OneFeed, Enable, EnableFails, FeedEnableFails,
         SecondaryFeed, SecondaryFeedFails, EnvLocks, Beep, SystemHangs,
         ApplicationHangs, dog
<1>5. FeedFirst'
  BY <1>1, <1>2 DEF IInv, TypeOK, FeedFirst, Enable, EnableFails, FeedEnableFails,
         SecondaryFeed, SecondaryFeedFails, EnvLocks, Beep, SystemHangs,
         ApplicationHangs, dog
<1>6. wdt \in Nat /\ timer \in Nat /\ left \in Nat /\ beep \in Nat
  BY DEF IInv, TypeOK
<1>7. Lateness'
  <2>1. CASE Enable \/ EnableFails \/ FeedEnableFails
    <3>1. wdt = 0 /\ timer = 0 /\ ~ Queued(queue, "feed") /\ app # "feed"
      BY <2>1 DEF IInv, OneFeed, Enable, EnableFails, FeedEnableFails
    <3> QED
      BY <1>2, <1>6, <2>1, <3>1
         DEF IInv, Lateness, Enable, EnableFails, FeedEnableFails, dog
  <2>2. CASE SecondaryFeed \/ SecondaryFeedFails
    <3>1. /\ app = "feed" /\ app' # "feed"
          /\ \/ wdt' = 0 /\ timer' = Period
             \/ wdt' = wdt /\ timer' = timer
      BY <2>2 DEF SecondaryFeed, SecondaryFeedFails, dog
    <3>2. ~ (timer > 0) /\ ~ Queued(queue, "feed")'
      BY <1>2, <3>1 DEF IInv, OneFeed
    <3> QED
      BY <1>6, <3>1, <3>2 DEF Lateness
  <2>3. CASE EnvLocks
    <3>1. /\ wdt' = wdt /\ timer' = timer /\ app' = app
          /\ sys = "wait" /\ sys' = "work"
          /\ beep = 0 /\ left' \in 0 .. MaxWork
      BY <2>3 DEF EnvLocks, dog
    <3>2. Queued(queue, "feed")' => wdt <= Period + MaxBeep
      BY <1>2, <1>6, <3>1 DEF IInv, Lateness
    <3>3. Queued(queue, "feed")' => wdt' + left' <= Deadline
      <4>1. Period \in Nat /\ MaxBeep \in Nat /\ MaxWork \in Nat
        OBVIOUS
      <4>2. left' \in Nat /\ left' <= MaxWork
        BY <3>1, <4>1
      <4>3. wdt <= Period + MaxBeep => wdt + left' <= Period + MaxBeep + MaxWork
        BY <1>6, <4>1, <4>2, SumBound
      <4> QED
        BY <3>1, <3>2, <4>3 DEF Deadline
    <3> QED
      BY <3>1, <3>3 DEF IInv, Lateness
  <2>4. CASE Beep \/ SystemHangs \/ ApplicationHangs
    BY <1>2, <1>6, <2>4 DEF IInv, TypeOK, Lateness, Deadline, Beep, SystemHangs,
       ApplicationHangs, dog
  <2> QED
    BY <2>1, <2>2, <2>3, <2>4
<1> QED
  BY <1>2, <1>3, <1>4, <1>5, <1>7 DEF IInv

\* The work queue takes a work, or the environment work comes and goes.
LEMMA QueueStep ==
    ASSUME IInv, PrimaryFeed \/ EnvRuns \/ EnvExpires \/ EnvEnds
    PROVE  IInv'
<1> USE WatchdogAssumption
<1>1. wdt \in Nat /\ timer \in Nat /\ left \in Nat /\ beep \in Nat
  BY DEF IInv, TypeOK
<1>2. UNCHANGED <<mode, wdt, timer, left, beep>>
  BY DEF PrimaryFeed, EnvRuns, EnvExpires, EnvEnds, dog
<1>3. Proper(queue) /\ "feed" \in Works /\ "env" \in Works
  BY DEF IInv, Works
<1>4. CASE PrimaryFeed
  <2>1. /\ sys = "idle" /\ sys' = sys
        /\ queue # <<>> /\ Head(queue) = "feed" /\ queue' = Tail(queue)
        /\ app' = IF app = "idle" THEN "feed" ELSE app
    BY <1>4 DEF PrimaryFeed
  <2>2. Queued(queue, "feed")
    <3>1. Len(queue) \in Nat \ {0} /\ DOMAIN queue = 1 .. Len(queue)
      BY <1>3, <2>1, EmptySeq, LenProperties DEF Proper
    <3>2. Head(queue) = queue[1]
      BY <1>3 DEF Proper
    <3> QED
      BY <2>1, <3>1, <3>2 DEF Queued
  <2>3. Proper(queue)' /\ ~ Queued(queue, "feed")'
    BY <1>3, <2>1, TailFacts
  <2>4. /\ ~ (timer > 0) /\ mode = "on" /\ wdt <= Deadline
    BY <1>1, <2>1, <2>2 DEF IInv, OneFeed, Lateness
  <2>5. TypeOK'
    BY <1>2, <2>1, <2>3 DEF IInv, TypeOK, Proper
  <2>6. OneFeed' /\ FeedFirst' /\ Lateness'
    BY <1>1, <1>2, <2>3, <2>4 DEF OneFeed, FeedFirst, Lateness, Deadline
  <2> QED
    BY <2>3, <2>5, <2>6 DEF IInv
<1>5. CASE EnvRuns
  <2>1. /\ sys = "idle" /\ sys' \in {"wait", "idle"}
        /\ queue # <<>> /\ Head(queue) = "env" /\ queue' = Tail(queue)
        /\ app' = app
    BY <1>5 DEF EnvRuns
  <2>2. ~ Queued(queue, "feed")
    BY <2>1 DEF IInv, FeedFirst
  <2>3. Proper(queue)' /\ ~ Queued(queue, "feed")'
    BY <1>3, <2>1, <2>2, TailFacts
  <2>4. TypeOK'
    BY <1>2, <2>1, <2>3 DEF IInv, TypeOK, Proper
  <2>5. OneFeed' /\ FeedFirst' /\ Lateness'
    BY <1>1, <1>2, <2>1, <2>3 DEF IInv, OneFeed, FeedFirst, Lateness, Deadline
  <2> QED
    BY <2>3, <2>4, <2>5 DEF IInv
<1>6. CASE EnvExpires
  <2>1. /\ ~ Queued(queue, "env") /\ queue' = Append(queue, "env")
        /\ sys' = sys /\ app' = app
    BY <1>6 DEF EnvExpires
  <2>2. /\ Proper(queue)'
        /\ Queued(queue, "feed")' <=> Queued(queue, "feed")
        /\ queue # <<>> => Head(queue') = Head(queue)
    BY <1>3, <2>1, AppendFacts
  <2>3. TypeOK'
    BY <1>2, <2>1, <2>2 DEF IInv, TypeOK, Proper
  <2>4. FeedFirst'
    <3>1. Queued(queue, "feed") => queue # <<>>
      BY DEF Queued
    <3> QED
      BY <2>1, <2>2, <3>1 DEF IInv, FeedFirst
  <2>5. OneFeed' /\ Lateness'
    BY <1>1, <1>2, <2>1, <2>2 DEF IInv, OneFeed, Lateness, Deadline
  <2> QED
    BY <2>2, <2>3, <2>4, <2>5 DEF IInv
<1>7. CASE EnvEnds
  <2>1. /\ sys = "work" /\ left = 0 /\ sys' = "idle"
        /\ queue' = Cancel(queue, "env") /\ app' = app
    BY <1>7 DEF EnvEnds
  <2>2. /\ Proper(queue)'
        /\ Queued(queue, "feed")' => Queued(queue, "feed")
        /\ Queued(queue, "feed")' => Head(queue') = "feed"
    BY <1>3, <2>1, CancelFacts
  <2>3. TypeOK'
    BY <1>2, <2>1, <2>2 DEF IInv, TypeOK, Proper
  <2>4. Queued(queue, "feed") => wdt <= Deadline
    BY <1>1, <2>1 DEF IInv, Lateness, Deadline
  <2>5. OneFeed' /\ FeedFirst' /\ Lateness'
    BY <1>1, <1>2, <2>1, <2>2, <2>4 DEF IInv, OneFeed, FeedFirst, Lateness, Deadline
  <2> QED
    BY <2>2, <2>3, <2>5 DEF IInv
<1> QED
  BY <1>4, <1>5, <1>6, <1>7

\* Time passes only while no queue has work to run, so the feed can be late
\* only when the environment work holds the system queue.
LEMMA TickStep ==
    ASSUME IInv, Tick
    PROVE  IInv'
<1> USE WatchdogAssumption
<1>1. /\ wdt \in Nat /\ timer \in Nat /\ left \in Nat /\ beep \in Nat
      /\ sys \in {"idle", "wait", "work", "hung"}
  BY DEF IInv, TypeOK
<1>2. Proper(queue) /\ "feed" \in Works
  BY DEF IInv, Works
<1>3. UNCHANGED <<mode, sys, app>>
  BY DEF Tick
<1>4. timer' = Less(timer) /\ left' = Less(left) /\ beep' = Less(beep)
  BY DEF Tick
<1>5. wdt' = IF mode = "on" THEN wdt + 1 ELSE wdt
  BY DEF Tick
<1>6. /\ app # "feed"
      /\ sys = "idle" => queue = <<>>
      /\ sys = "wait" => beep # 0
      /\ sys = "work" => left # 0
  BY DEF Tick, Urgent
<1>7. Proper(queue)'
  <2>1. CASE timer = 1
    <3>1. ~ Queued(queue, "feed") /\ queue' = Append(queue, "feed")
      BY <2>1 DEF IInv, OneFeed, Tick
    <3> QED
      BY <1>2, <3>1, AppendFacts
  <2>2. CASE timer # 1
    <3>1. queue' = queue
      BY <2>2 DEF Tick
    <3> QED
      BY <1>2, <3>1 DEF Proper, Distinct
  <2> QED
    BY <2>1, <2>2
<1>8. TypeOK'
  <2>1. wdt' \in 0 .. Timeout
    BY <1>1, <1>5 DEF IInv, TypeOK, Tick
  <2>2. /\ timer' \in 0 .. Period
        /\ left' \in 0 .. MaxWork
        /\ beep' \in 0 .. MaxBeep
    BY <1>4 DEF IInv, TypeOK, Less
  <2> QED
    BY <1>3, <1>7, <2>1, <2>2 DEF IInv, TypeOK, Proper
<1>9. CASE timer = 1
  <2>1. /\ ~ Queued(queue, "feed") /\ queue' = Append(queue, "feed")
        /\ mode = "on" /\ wdt + 1 = Period
    BY <1>1, <1>9 DEF IInv, OneFeed, Lateness, Tick
  <2>2. queue = <<>> => Head(queue') = "feed"
    BY <1>2, <2>1, AppendFacts
  <2>3. wdt' = Period /\ timer' = 0
    BY <1>1, <1>4, <1>5, <1>9, <2>1 DEF Less
  <2>4. OneFeed' /\ FeedFirst'
    BY <1>3, <1>6, <2>1, <2>2, <2>3 DEF OneFeed, FeedFirst
  <2>5. beep' \in 0 .. MaxBeep /\ left' \in 0 .. MaxWork
    BY <1>8 DEF TypeOK
  <2>6. wdt' + beep' <= Period + MaxBeep /\ wdt' + left' <= Deadline
    <3>1. Period \in Nat /\ MaxBeep \in Nat /\ MaxWork \in Nat
      OBVIOUS
    <3>2. beep' \in Nat /\ beep' <= MaxBeep /\ left' \in Nat /\ left' <= MaxWork
      BY <2>5, <3>1
    <3>3. Period + beep' <= Period + MaxBeep
      BY <3>1, <3>2, PartBound
    <3>4. Period + left' <= Period + MaxBeep + MaxWork
      BY <3>1, <3>2, PartBound
    <3> QED
      BY <2>3, <3>3, <3>4 DEF Deadline
  <2>7. sys' = "idle" => wdt' <= Deadline
    BY <2>3 DEF Deadline
  <2>8. Lateness'
    BY <1>3, <1>6, <2>3, <2>6, <2>7 DEF Lateness
  <2> QED
    BY <1>7, <1>8, <2>4, <2>8 DEF IInv
<1>10. CASE timer # 1
  <2>1. queue' = queue /\ (Queued(queue, "feed")' <=> Queued(queue, "feed"))
    BY <1>10 DEF Tick, Queued
  <2>2. timer' > 0 => timer > 0 /\ timer' = timer - 1
    BY <1>1, <1>4 DEF Less
  <2>3. OneFeed' /\ FeedFirst'
    <3>1. mode # "on" => wdt' = 0 /\ timer' = 0
      BY <1>4, <1>5 DEF IInv, OneFeed, Less
    <3> QED
      BY <1>3, <2>1, <2>2, <3>1 DEF IInv, OneFeed, FeedFirst
  <2>4. timer' > 0 => wdt' + timer' = Period
    BY <1>1, <1>5, <2>2 DEF IInv, OneFeed, Lateness
  <2>5. ASSUME Queued(queue, "feed")
        PROVE  /\ sys = "wait" => wdt' + beep' <= Period + MaxBeep
               /\ sys = "work" => wdt' + left' <= Deadline
               /\ sys # "idle"
    <3>1. queue # <<>>
      BY <2>5 DEF Queued
    <3>2. mode = "on" /\ wdt' = wdt + 1
      BY <1>5, <2>5 DEF IInv, OneFeed
    <3>3. sys = "wait" => beep' = beep - 1
      BY <1>1, <1>4, <1>6 DEF Less
    <3>4. sys = "work" => left' = left - 1
      BY <1>1, <1>4, <1>6 DEF Less
    <3>5. sys = "wait" => wdt + beep <= Period + MaxBeep
      BY <2>5 DEF IInv, Lateness
    <3>6. sys = "work" => wdt + left <= Deadline
      BY <2>5 DEF IInv, Lateness
    <3>7. Deadline \in Nat
      BY DEF Deadline
    <3>8. sys = "wait" => wdt' + beep' <= Period + MaxBeep
      BY <1>1, <3>2, <3>3, <3>5
    <3>9. sys = "work" => wdt' + left' <= Deadline
      BY <1>1, <3>2, <3>4, <3>6, <3>7
    <3> QED
      BY <1>6, <3>1, <3>8, <3>9
  <2>6. Lateness'
    BY <1>3, <1>6, <2>1, <2>4, <2>5 DEF Lateness, Deadline
  <2> QED
    BY <1>7, <1>8, <2>3, <2>6 DEF IInv
<1> QED
  BY <1>9, <1>10

LEMMA StepInv == IInv /\ [Next]_vars => IInv'
<1> SUFFICES ASSUME IInv, [Next]_vars PROVE IInv'
  OBVIOUS
<1>1. CASE Urgently \/ Beep \/ SystemHangs \/ ApplicationHangs \/ EnvExpires
  BY <1>1, QuietStep, QueueStep DEF Urgently
<1>2. CASE Tick
  BY <1>2, TickStep
<1>3. CASE Reset
  <2>1. queue' \in Seq(Works) /\ DOMAIN queue' = {}
    BY <1>3 DEF Reset
  <2>2. TypeOK'
    BY <1>3, <2>1, WatchdogAssumption DEF Reset, TypeOK
  <2> QED
    BY <1>3, <2>1, <2>2
       DEF Reset, IInv, Proper, Distinct, OneFeed, FeedFirst, Lateness, Queued
<1>4. CASE UNCHANGED vars
  BY <1>4 DEF vars, IInv, TypeOK, Proper, Distinct, OneFeed, FeedFirst, Lateness,
     Deadline, Queued
<1> QED
  BY <1>1, <1>2, <1>3, <1>4 DEF Next

\* With the margin the lateness leaves no time for a reset.
LEMMA InvNoReset == IInv => NoResetWhenHealthy
<1> SUFFICES ASSUME IInv, Healthy PROVE wdt < Timeout
  BY DEF NoResetWhenHealthy
<1> USE WatchdogAssumption, MarginAssumption
<1>1. wdt \in Nat /\ timer \in Nat /\ left \in Nat /\ beep \in Nat
  BY DEF IInv, TypeOK
<1>2. CASE timer > 0
  <2>1. wdt + timer = Period
    BY <1>2 DEF IInv, Lateness
  <2> QED
    BY <1>1, <1>2, <2>1
<1>3. CASE Queued(queue, "feed")
  <2>1. sys \in {"idle", "wait", "work"}
    BY DEF IInv, TypeOK, Healthy
  <2>2. wdt <= Deadline
    BY <1>1, <1>3, <2>1 DEF IInv, Lateness, Deadline
  <2> QED
    BY <1>1, <2>2 DEF Deadline
<1>4. CASE app = "feed"
  <2>1. wdt <= Deadline
    BY <1>4 DEF IInv, Lateness
  <2> QED
    BY <1>1, <2>1 DEF Deadline
<1> QED
  BY <1>2, <1>3, <1>4 DEF Healthy, FeedPending

\* The watchdog's type invariant, for every value of the constants.
THEOREM TypeCorrect == Spec => []TypeOK
<1>1. IInv => TypeOK
  BY DEF IInv
<1> QED
  BY InitInv, StepInv, <1>1, PTL DEF Spec

\* A device whose work queues are alive is not reset, whatever the order of
\* the feed, the environment work and the beeps (watchdog.c:26-42).
THEOREM HealthyNotReset == Spec => []NoResetWhenHealthy
  BY InitInv, StepInv, InvNoReset, PTL DEF Spec
=============================================================================
