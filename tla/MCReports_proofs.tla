-------------------------- MODULE MCReports_proofs --------------------------
(***************************************************************************)
(* Proofs about the report path, for every value of the constants: sums of *)
(* windows, the activity monitor and the mean it implements, the receive   *)
(* loop, the load watch, the exported series, and all of them side by side *)
(* as the reports run checks them.                                         *)
(***************************************************************************)
EXTENDS MCReports, FiniteSetTheorems, WellFoundedInduction, TLAPS

(* Every set of naturals has a least element, so that what 0 has and every *)
(* successor inherits is true of all.                                      *)
LEMMA Least ==
  ASSUME NEW T, T \subseteq Nat, T # {}
  PROVE  \E n \in T : \A m \in T : n <= m
<1> DEFINE R == {ss \in Nat \X Nat : ss[1] < ss[2]}
<1>1. IsWellFoundedOn(R, Nat)
  BY NatLessThanWellFounded, Zenon DEF OpToRel
<1>2. PICK x \in T : \A y \in T : ~ (<<y, x>> \in R)
  <2> HIDE DEF R
  <2> QED BY <1>1, WFMin, Zenon
<1>3. \A y \in T : ~ (y < x)
  BY <1>2
<1> QED BY <1>3

LEMMA NatInd ==
  ASSUME NEW S, 0 \in S, \A n \in Nat : n \in S => n + 1 \in S
  PROVE  Nat \subseteq S
<1> SUFFICES ASSUME Nat \ S # {} PROVE FALSE
  OBVIOUS
<1>1. PICK n \in Nat \ S : \A m \in Nat \ S : n <= m
  BY Least
<1>2. n - 1 \in Nat /\ n - 1 \in S
  BY <1>1
<1> QED BY <1>1, <1>2

-----------------------------------------------------------------------------
(* f gives the sums of the first samples of w, up to the n-th.             *)
Sums(f, w, n) ==
  /\ f \in [0..n -> Int] /\ f[0] = 0
  /\ \A k \in 1..n : f[k] = f[k - 1] + w[k]

LEMMA SumsExist == \A w \in Seq(Int) : \E f : Sums(f, w, Len(w))
<1> SUFFICES ASSUME NEW w \in Seq(Int) PROVE \E f : Sums(f, w, Len(w))
  OBVIOUS
<1> DEFINE S == {n \in Nat : n <= Len(w) => \E f : Sums(f, w, n)}
<1>1. 0 \in S
  <2>1. Sums([k \in 0..0 |-> 0], w, 0)
    BY DEF Sums
  <2> QED BY <2>1
<1>2. ASSUME NEW n \in Nat, n \in S PROVE n + 1 \in S
  <2> SUFFICES ASSUME n + 1 <= Len(w) PROVE \E f : Sums(f, w, n + 1)
    OBVIOUS
  <2>1. PICK g : Sums(g, w, n)
    BY <1>2
  <2> DEFINE f == [k \in 0..n + 1 |-> IF k <= n THEN g[k] ELSE g[n] + w[n + 1]]
  <2>2. w[n + 1] \in Int
    OBVIOUS
  <2>3. Sums(f, w, n + 1)
    BY <2>1, <2>2 DEF Sums
  <2> QED BY <2>3
<1>3. Nat \subseteq S
  <2> HIDE DEF S
  <2> QED BY <1>1, <1>2, NatInd
<1>4. Len(w) \in S
  BY <1>3
<1> QED BY <1>4

(* There is one such function.                                             *)
LEMMA SumsUnique ==
  ASSUME NEW w \in Seq(Int), NEW f, NEW g, Sums(f, w, Len(w)), Sums(g, w, Len(w))
  PROVE  f[Len(w)] = g[Len(w)]
<1> DEFINE S == {n \in Nat : n <= Len(w) => f[n] = g[n]}
<1>1. 0 \in S
  BY DEF Sums
<1>2. ASSUME NEW n \in Nat, n \in S PROVE n + 1 \in S
  BY <1>2 DEF Sums
<1>3. Nat \subseteq S
  <2> HIDE DEF S
  <2> QED BY <1>1, <1>2, NatInd
<1> QED BY <1>3

LEMMA SumsAre == \A w \in Seq(Int) : Sums(PartialSums(w), w, Len(w))
<1> SUFFICES ASSUME NEW w \in Seq(Int) PROVE Sums(PartialSums(w), w, Len(w))
  OBVIOUS
<1> DEFINE Step(g) == [n \in 0..Len(w) |-> IF n = 0 THEN 0 ELSE g[n - 1] + w[n]]
<1>1. PICK f : Sums(f, w, Len(w))
  BY SumsExist
<1>2. f = Step(f)
  BY <1>1 DEF Sums
<1>3. PartialSums(w) = CHOOSE g : g = Step(g)
  BY DEF PartialSums
<1>4. PartialSums(w) = Step(PartialSums(w))
  <2> HIDE DEF Step
  <2> QED BY <1>2, <1>3, Zenon
<1> DEFINE s == PartialSums(w)
<1>5. /\ s = [n \in 0..Len(w) |-> s[n]] /\ s[0] = 0
      /\ \A n \in 1..Len(w) : s[n] = s[n - 1] + w[n]
  <2> HIDE DEF s
  <2>1. s = Step(s)
    BY <1>4 DEF s
  <2> QED BY <2>1
<1> HIDE DEF s
<1> DEFINE S == {n \in Nat : n <= Len(w) => s[n] \in Int}
<1>6. 0 \in S
  BY <1>5
<1>7. ASSUME NEW n \in Nat, n \in S PROVE n + 1 \in S
  <2>1. ASSUME n + 1 <= Len(w) PROVE s[n + 1] \in Int
    <3>1. w[n + 1] \in Int /\ n + 1 \in 1..Len(w)
      BY <2>1
    <3>2. s[n + 1] = s[n] + w[n + 1]
      BY <1>5, <3>1
    <3> QED BY <1>7, <2>1, <3>1, <3>2
  <2> QED BY <2>1
<1>8. Nat \subseteq S
  <2> HIDE DEF S
  <2> QED BY <1>6, <1>7, NatInd
<1>9. \A n \in 0..Len(w) : s[n] \in Int
  BY <1>8
<1>10. s \in [0..Len(w) -> Int]
  BY <1>5, <1>9
<1>11. Sums(s, w, Len(w))
  BY <1>5, <1>10 DEF Sums
<1> QED BY <1>11 DEF s

LEMMA TotalIs ==
  ASSUME NEW w \in Seq(Int), NEW f, Sums(f, w, Len(w))
  PROVE  Total(w) = f[Len(w)] /\ Total(w) \in Int
<1>1. f[Len(w)] \in Int
  BY DEF Sums
<1> QED BY <1>1, SumsAre, SumsUnique DEF Total

(* What the window does to the sum: the empty one has none, append adds,   *)
(* and dropping the oldest sample takes it away.                           *)
LEMMA TotalEmpty == Total(<<>>) = 0
<1>1. Sums([k \in 0..0 |-> 0], <<>>, Len(<<>>))
  BY DEF Sums
<1> QED BY <1>1, TotalIs

LEMMA TotalAppend ==
  ASSUME NEW w \in Seq(Int), NEW v \in Int
  PROVE  Total(Append(w, v)) = Total(w) + v
<1> DEFINE s == PartialSums(w)
           f == [k \in 0..Len(w) + 1 |-> IF k <= Len(w) THEN s[k] ELSE s[Len(w)] + v]
           u == Append(w, v)
<1>1. Sums(s, w, Len(w))
  BY SumsAre
<1>2. /\ u \in Seq(Int) /\ Len(u) = Len(w) + 1 /\ u[Len(w) + 1] = v
      /\ \A k \in 1..Len(w) : u[k] = w[k]
  OBVIOUS
<1>3. Sums(f, u, Len(u))
  <2> HIDE DEF s, u
  <2>1. /\ \A k \in 0..Len(w) : s[k] \in Int
        /\ s[0] = 0 /\ \A k \in 1..Len(w) : s[k] = s[k - 1] + w[k]
    BY <1>1 DEF Sums
  <2>2. f \in [0..Len(u) -> Int] /\ f[0] = 0
    <3>1. Len(w) \in Nat /\ Len(u) = Len(w) + 1
      BY <1>2
    <3>2. \A k \in 0..Len(w) + 1 : f[k] \in Int
      BY <2>1, <3>1
    <3>3. f[0] = 0
      BY <2>1, <3>1
    <3> QED BY <3>1, <3>2, <3>3
  <2>3. ASSUME NEW k \in 1..Len(u) PROVE f[k] = f[k - 1] + u[k]
    <3>1. CASE k <= Len(w)
      BY <1>2, <2>1, <3>1
    <3>2. CASE k = Len(w) + 1
      BY <1>2, <3>2
    <3> QED BY <1>2, <3>1, <3>2
  <2> QED BY <2>2, <2>3 DEF Sums
<1>4. f[Len(u)] = s[Len(w)] + v
  BY <1>2
<1> QED BY <1>2, <1>3, <1>4, TotalIs DEF Total

LEMMA TotalTail ==
  ASSUME NEW w \in Seq(Int), Len(w) > 0
  PROVE  Total(Tail(w)) = Total(w) - Head(w)
<1> DEFINE s == PartialSums(w)
           f == [k \in 0..Len(w) - 1 |-> s[k + 1] - w[1]]
           u == Tail(w)
<1>1. Sums(s, w, Len(w))
  BY SumsAre
<1>2. /\ u \in Seq(Int) /\ Len(u) = Len(w) - 1 /\ w[1] \in Int /\ Head(w) = w[1]
      /\ \A k \in 1..Len(w) - 1 : u[k] = w[k + 1]
  OBVIOUS
<1>3. Sums(f, u, Len(u))
  <2> HIDE DEF s, u
  <2>1. /\ \A k \in 0..Len(w) : s[k] \in Int
        /\ s[0] = 0 /\ \A k \in 1..Len(w) : s[k] = s[k - 1] + w[k]
    BY <1>1 DEF Sums
  <2>2. f \in [0..Len(u) -> Int] /\ f[0] = 0
    <3>1. Len(w) - 1 \in Nat /\ Len(u) = Len(w) - 1
      BY <1>2
    <3>2. \A k \in 0..Len(w) - 1 : f[k] \in Int
      BY <1>2, <2>1, <3>1
    <3>3. f[0] = s[1] - w[1] /\ s[1] = s[0] + w[1]
      BY <2>1, <3>1
    <3>4. f[0] = 0
      BY <1>2, <2>1, <3>3
    <3> QED BY <3>1, <3>2, <3>4
  <2>3. ASSUME NEW k \in 1..Len(u) PROVE f[k] = f[k - 1] + u[k]
    <3>1. /\ k + 1 \in 1..Len(w) /\ u[k] = w[k + 1]
          /\ f[k] = s[k + 1] - w[1] /\ f[k - 1] = s[k] - w[1]
      BY <1>2
    <3>2. s[k + 1] = s[k] + w[k + 1] /\ s[k] \in Int /\ w[k + 1] \in Int /\ w[1] \in Int
      BY <2>1, <3>1, <1>2
    <3> HIDE DEF f
    <3> QED BY <3>1, <3>2
  <2> QED BY <2>2, <2>3 DEF Sums
<1>4. f[Len(u)] = s[Len(w)] - w[1]
  BY <1>2
<1> QED BY <1>2, <1>3, <1>4, TotalIs DEF Total

LEMMA SumOfNext ==
  ASSUME NEW w \in Seq(Int), NEW s, Sums(s, w, Len(w)), NEW n \in Nat, n + 1 <= Len(w)
  PROVE  s[n] \in Int /\ w[n + 1] \in Int /\ s[n + 1] = s[n] + w[n + 1]
<1>1. n + 1 \in 1..Len(w) /\ n \in 0..Len(w) /\ (n + 1) - 1 = n
  OBVIOUS
<1>2. s[n + 1] = s[(n + 1) - 1] + w[n + 1]
  BY <1>1 DEF Sums
<1> QED BY <1>1, <1>2 DEF Sums

(* The mean lies between the extremes: n samples of at least c add up to   *)
(* at least c * n, n samples below c to less, unless there are none.       *)
LEMMA TotalAtLeast ==
  ASSUME NEW w \in Seq(Int), NEW c \in Int, \A k \in 1..Len(w) : w[k] >= c
  PROVE  Total(w) >= c * Len(w)
<1> DEFINE s == PartialSums(w)
           S == {n \in Nat : n <= Len(w) => s[n] >= c * n}
<1>1. Sums(s, w, Len(w))
  BY SumsAre
<1> HIDE DEF s
<1>2. 0 \in S
  BY <1>1 DEF Sums
<1>3. ASSUME NEW n \in Nat, n \in S PROVE n + 1 \in S
  <2>1. ASSUME n + 1 <= Len(w) PROVE s[n + 1] >= c * (n + 1)
    <3>1. s[n] \in Int /\ w[n + 1] \in Int /\ w[n + 1] >= c /\ s[n + 1] = s[n] + w[n + 1]
      BY <1>1, <2>1 DEF Sums
    <3>2. s[n] >= c * n
      BY <1>3, <2>1
    <3> QED BY <3>1, <3>2
  <2> QED BY <2>1
<1>4. Nat \subseteq S
  <2> HIDE DEF S
  <2> QED BY <1>2, <1>3, NatInd
<1> QED BY <1>4 DEF s, Total

LEMMA TotalBelow ==
  ASSUME NEW w \in Seq(Int), Len(w) > 0, NEW c \in Int, \A k \in 1..Len(w) : w[k] < c
  PROVE  Total(w) < c * Len(w)
<1> DEFINE s == PartialSums(w)
           S == {n \in Nat : n + 1 <= Len(w) => s[n + 1] < c * (n + 1)}
<1>1. Sums(s, w, Len(w))
  BY SumsAre
<1> HIDE DEF s
<1>2. 0 \in S
  <2>1. s[1] = s[0] + w[1] /\ w[1] < c /\ w[1] \in Int
    BY <1>1 DEF Sums
  <2> QED BY <1>1, <2>1 DEF Sums
<1>3. ASSUME NEW n \in Nat, n \in S PROVE n + 1 \in S
  <2>1. ASSUME n + 2 <= Len(w) PROVE s[n + 2] < c * (n + 2)
    <3>1. s[n + 1] \in Int /\ w[n + 2] \in Int /\ s[n + 2] = s[n + 1] + w[n + 2]
      <4>1. n + 1 \in Nat /\ (n + 1) + 1 = n + 2
        OBVIOUS
      <4> QED BY <1>1, <2>1, <4>1, SumOfNext
    <3>2. s[n + 1] < c * (n + 1) /\ w[n + 2] < c
      BY <1>3, <2>1
    <3> QED BY <3>1, <3>2
  <2> QED BY <2>1
<1>4. Nat \subseteq S
  <2> HIDE DEF S
  <2> QED BY <1>2, <1>3, NatInd
<1>5. Len(w) - 1 \in S /\ Len(w) - 1 \in Nat
  BY <1>4
<1> QED BY <1>5 DEF s, Total

(* A single sample among others that are not negative is in the sum.       *)
LEMMA TotalContains ==
  ASSUME NEW w \in Seq(Int), \A k \in 1..Len(w) : w[k] >= 0, NEW i \in 1..Len(w)
  PROVE  Total(w) >= w[i]
<1> DEFINE s == PartialSums(w)
           S == {n \in Nat : n <= Len(w) => s[n] >= IF n < i THEN 0 ELSE w[i]}
<1>1. Sums(s, w, Len(w))
  BY SumsAre
<1> HIDE DEF s
<1>2. 0 \in S
  BY <1>1 DEF Sums
<1>3. ASSUME NEW n \in Nat, n \in S PROVE n + 1 \in S
  <2>1. ASSUME n + 1 <= Len(w) PROVE s[n + 1] >= IF n + 1 < i THEN 0 ELSE w[i]
    <3>1. s[n] \in Int /\ w[n + 1] \in Int /\ s[n + 1] = s[n] + w[n + 1]
      BY <1>1, <2>1, SumOfNext
    <3>2. (s[n] >= IF n < i THEN 0 ELSE w[i]) /\ w[n + 1] >= 0 /\ w[i] \in Int
      BY <1>3, <2>1
    <3>3. CASE n + 1 = i
      BY <3>1, <3>2, <3>3
    <3>4. CASE n + 1 # i
      BY <3>1, <3>2, <3>4
    <3> QED BY <3>3, <3>4
  <2> QED BY <2>1
<1>4. Nat \subseteq S
  <2> HIDE DEF S
  <2> QED BY <1>2, <1>3, NatInd
<1>5. s[Len(w)] >= w[i]
  BY <1>4
<1> QED BY <1>5 DEF s, Total

-----------------------------------------------------------------------------
(* The activity monitor: counters and scrapes.                             *)
(* Number types of the counters, without the window. *)
CounterTypes ==
  /\ pc \in {"wait", "decoded", "called", "observed"}
  /\ updates \in Nat /\ kpm \in Nat /\ sampleCount \in Nat /\ idleCount \in Nat
  /\ transitions \in Nat /\ scrapes \in Nat
  /\ state \in States /\ first \in States
  /\ read \in [updates : Nat, kpm : Nat]
  /\ shown \in [updates : Nat, kpm : Nat, samples : Nat, idle : Nat,
                state : States, transitions : Nat]

(* The state the monitor is in has had one stay more than the other one    *)
(* when it is the state of the first sample, and as many otherwise.        *)
StayInv ==
  /\ (state = "unknown") <=> (first = "unknown")
  /\ state = "unknown" => transitions = 0 /\ sampleCount = 0 /\ idleCount = 0
  /\ idleCount <= sampleCount
  /\ state = "idle" /\ first = "idle" =>
       transitions + 2 <= 2 * idleCount /\ transitions <= 2 * (sampleCount - idleCount)
  /\ state = "active" /\ first = "active" =>
       transitions <= 2 * idleCount /\ transitions + 2 <= 2 * (sampleCount - idleCount)
  /\ state # first =>
       transitions + 1 <= 2 * idleCount /\ transitions + 1 <= 2 * (sampleCount - idleCount)

(* The series is ahead of the monitor only between the two.                *)
SeriesInv ==
  /\ updates <= sampleCount + 1
  /\ ~(pc = "called" /\ value # NoValue) => updates <= sampleCount
  /\ read.updates <= sampleCount + 1

MonitorInv ==
  CounterTypes /\ StayInv /\ SeriesInv /\ TransitionsNeedSamples /\ ScrapeNotBehind

LEMMA InitMonitorInv == Init => MonitorInv
<1> SUFFICES ASSUME Init PROVE MonitorInv
  OBVIOUS
<1>1. CounterTypes
  BY DEF Init, CounterTypes, States
<1>2. StayInv /\ SeriesInv /\ TransitionsNeedSamples /\ ScrapeNotBehind
  BY DEF Init, StayInv, SeriesInv, TransitionsNeedSamples, ScrapeNotBehind
<1> QED
  BY <1>1, <1>2 DEF MonitorInv

LEMMA ObserveStep == MonitorInv /\ Observe => MonitorInv'
<1> SUFFICES ASSUME MonitorInv, Observe PROVE MonitorInv'
  OBVIOUS
<1>1. UNCHANGED <<value, updates, kpm, read, shown, scrapes>> /\ pc' = "observed"
  BY DEF Observe, scrapeVars
<1>2. /\ pc = "called" /\ sampleCount' = sampleCount + 1
      /\ state' \in {"active", "idle"}
      /\ transitions' = IF state' # state /\ state # "unknown" THEN transitions + 1
                        ELSE transitions
      /\ idleCount' = IF state' = "idle" THEN idleCount + 1 ELSE idleCount
      /\ first' = IF first = "unknown" THEN state' ELSE first
  BY DEF Observe, Classify, IsTransition
<1>3. CounterTypes'
  BY <1>1, <1>2 DEF MonitorInv, CounterTypes, States
<1>4. StayInv'
  <2>1. CASE state = "unknown"
    BY <1>2, <2>1 DEF MonitorInv, CounterTypes, StayInv, States
  <2>2. CASE state # "unknown" /\ state' = state
    BY <1>2, <2>2 DEF MonitorInv, CounterTypes, StayInv, States
  <2>3. CASE state # "unknown" /\ state' # state
    BY <1>2, <2>3 DEF MonitorInv, CounterTypes, StayInv, States
  <2> QED
    BY <2>1, <2>2, <2>3
<1>5. SeriesInv'
  BY <1>1, <1>2 DEF MonitorInv, CounterTypes, SeriesInv
<1>6. TransitionsNeedSamples' /\ ScrapeNotBehind'
  BY <1>1 DEF MonitorInv, TransitionsNeedSamples, ScrapeNotBehind
<1> QED
  BY <1>3, <1>4, <1>5, <1>6 DEF MonitorInv

(* The other steps of the main thread leave the monitor and the scrape     *)
(* alone; only the series may grow, and then a sample is due.              *)
LEMMA DeliveryStep ==
  ASSUME MonitorInv,
         \/ \E v \in Values \cup {NoValue} : Decode(v)
         \/ RecordSeries \/ CallbackSkips \/ CountKpm \/ LoggingRaises
  PROVE  MonitorInv'
<1>1. UNCHANGED <<monitorVars, first, read, shown, scrapes>>
  BY DEF Decode, RecordSeries, CallbackSkips, CountKpm, LoggingRaises, scrapeVars
<1>2. CounterTypes'
  BY <1>1 DEF MonitorInv, CounterTypes, monitorVars, Decode, RecordSeries, CallbackSkips,
     CountKpm, LoggingRaises
<1>3. StayInv' /\ TransitionsNeedSamples' /\ ScrapeNotBehind'
  BY <1>1 DEF MonitorInv, StayInv, TransitionsNeedSamples, ScrapeNotBehind, monitorVars
<1>4. SeriesInv'
  BY <1>1 DEF MonitorInv, CounterTypes, SeriesInv, monitorVars, Decode, RecordSeries,
     CallbackSkips, CountKpm, LoggingRaises
<1> QED
  BY <1>2, <1>3, <1>4 DEF MonitorInv

LEMMA ScrapeStep == MonitorInv /\ (ScrapeBase \/ ScrapeState) => MonitorInv'
<1> SUFFICES ASSUME MonitorInv, ScrapeBase \/ ScrapeState PROVE MonitorInv'
  OBVIOUS
<1>1. UNCHANGED <<pc, value, updates, kpm, monitorVars, first>>
  BY DEF ScrapeBase, ScrapeState
<1>2. StayInv'
  BY <1>1 DEF MonitorInv, StayInv, monitorVars
<1>3. CASE ScrapeBase
  <2>1. read' = [updates |-> updates, kpm |-> kpm] /\ UNCHANGED <<shown, scrapes>>
    BY <1>3 DEF ScrapeBase
  <2>2. CounterTypes' /\ SeriesInv'
    BY <1>1, <2>1 DEF MonitorInv, CounterTypes, SeriesInv, monitorVars
  <2>3. TransitionsNeedSamples' /\ ScrapeNotBehind'
    BY <2>1 DEF MonitorInv, TransitionsNeedSamples, ScrapeNotBehind
  <2> QED
    BY <1>2, <2>2, <2>3 DEF MonitorInv
<1>4. CASE ScrapeState
  <2>1. /\ shown' = [updates |-> read.updates, kpm |-> read.kpm, samples |-> sampleCount,
                     idle |-> idleCount, state |-> state, transitions |-> transitions]
        /\ UNCHANGED read /\ scrapes' = scrapes + 1
    BY <1>4 DEF ScrapeState
  <2>2. CounterTypes' /\ SeriesInv'
    BY <1>1, <2>1 DEF MonitorInv, CounterTypes, SeriesInv, monitorVars
  <2>3. /\ shown'.transitions = transitions /\ shown'.idle = idleCount
        /\ shown'.samples = sampleCount /\ shown'.updates = read.updates
    BY <2>1
  <2>4. ScrapeNotBehind'
    BY <2>3 DEF MonitorInv, CounterTypes, SeriesInv, ScrapeNotBehind
  <2>5. transitions <= 2 * idleCount /\ transitions <= 2 * (sampleCount - idleCount)
    BY DEF MonitorInv, CounterTypes, StayInv, States
  <2> QED
    BY <1>2, <2>2, <2>3, <2>4, <2>5 DEF MonitorInv, TransitionsNeedSamples
<1> QED
  BY <1>3, <1>4

LEMMA NextMonitorInv == MonitorInv /\ [Next]_vars => MonitorInv'
<1> SUFFICES ASSUME MonitorInv, [Next]_vars PROVE MonitorInv'
  OBVIOUS
<1>1. CASE IdlePoll \/ UNCHANGED vars
  BY <1>1 DEF IdlePoll, vars, monitorVars, scrapeVars, MonitorInv,
     CounterTypes, StayInv, SeriesInv, TransitionsNeedSamples, ScrapeNotBehind
<1> QED
  BY <1>1, ObserveStep, DeliveryStep, ScrapeStep DEF Next

(* The window keeps the last samples; the running sum is theirs up to what *)
(* roundings have lost.                                                    *)
SumNear(sum, lost, exact) == sum - exact <= lost /\ exact - sum <= lost

WindowInv ==
  /\ value \in Values \cup {NoValue}
  /\ samples \in Seq(Int) /\ samples \in Seq(Values) /\ Len(samples) <= WindowSize
  /\ sampleSum \in Floats /\ drift \in Nat
  /\ SumNear(sampleSum, drift, Total(samples))

(* There is a float nearest to a quotient. *)
LEMMA NearestIs ==
  ASSUME NEW x \in Int, NEW n \in Nat \ {0}
  PROVE  Nearest(x, n) \in Floats /\ Nearest(x, n) \in Int
<1> DEFINE Far(f) == Abs(n * f - x)
           T == {Far(f) : f \in Floats}
<1>1. \A f \in Floats : Far(f) \in Nat
  BY MonitorAssumption DEF Abs
<1>2. T \subseteq Nat /\ T # {}
  BY <1>1, MonitorAssumption
<1>3. PICK d \in T : \A m \in T : d <= m
  <2> HIDE DEF T
  <2> QED BY <1>2, Least
<1>4. \E f \in Floats : \A g \in Floats : Far(f) <= Far(g)
  <2>1. PICK f \in Floats : d = Far(f)
    BY <1>3
  <2> HIDE DEF Far
  <2> QED BY <1>3, <2>1
<1>5. Nearest(x, n) \in Floats
  BY <1>4 DEF Nearest
<1> QED BY <1>5, MonitorAssumption

LEMMA RoundIs == \A x \in Int : Round(x) \in Floats /\ Round(x) \in Int
BY NearestIs DEF Round

LEMMA AbsIs == \A x \in Int : Abs(x) \in Nat /\ x <= Abs(x) /\ -x <= Abs(x) /\ (x = 0 => Abs(x) = 0)
BY DEF Abs

(* Two roundings, to rest and to next, move a sum by no more than what     *)
(* they are off.                                                           *)
Lost(lost, sum, less, rest, v, next) ==
  lost + Abs(rest - (sum - less)) + Abs(next - (rest + v))

StaysNear(lost, now, sum, exact, less, rest, v, next) ==
  /\ now \in Nat /\ now >= lost
  /\ SumNear(next, now, exact - less + v)
  /\ rest = sum - less /\ next = rest + v => now = lost

LEMMA SumStaysNear ==
  \A sum, exact, less, rest, v, next \in Int, lost \in Nat :
    SumNear(sum, lost, exact) =>
      StaysNear(lost, Lost(lost, sum, less, rest, v, next), sum, exact, less, rest, v, next)
<1> SUFFICES ASSUME NEW sum \in Int, NEW exact \in Int, NEW less \in Int, NEW rest \in Int,
                    NEW v \in Int, NEW next \in Int, NEW lost \in Nat, SumNear(sum, lost, exact)
             PROVE  StaysNear(lost, Lost(lost, sum, less, rest, v, next), sum, exact, less, rest,
                              v, next)
  OBVIOUS
<1> DEFINE a == Abs(rest - (sum - less))
           b == Abs(next - (rest + v))
<1>1. /\ a \in Nat /\ rest - (sum - less) <= a /\ -(rest - (sum - less)) <= a
      /\ (rest - (sum - less) = 0 => a = 0)
  BY AbsIs
<1>2. /\ b \in Nat /\ next - (rest + v) <= b /\ -(next - (rest + v)) <= b
      /\ (next - (rest + v) = 0 => b = 0)
  BY AbsIs
<1> HIDE DEF a, b
<1>3. StaysNear(lost, lost + a + b, sum, exact, less, rest, v, next)
  BY <1>1, <1>2 DEF SumNear, StaysNear
<1> QED BY <1>3 DEF a, b, Lost

(* append keeps a window within its size and adjusts the sum.              *)
LEMMA PushKeepsWindow ==
  ASSUME NEW w \in Seq(Int), NEW v \in Int, NEW size \in Nat \ {0}, Len(w) <= size
  PROVE  /\ Push(w, v, size) \in Seq(Int) /\ Len(Push(w, v, size)) <= size
         /\ Len(Push(w, v, size)) > 0
         /\ Total(Push(w, v, size)) = IF Len(w) = size THEN Total(w) - Head(w) + v
                                      ELSE Total(w) + v
<1>1. CASE Len(w) = size
  <2>1. Tail(w) \in Seq(Int) /\ Len(Tail(w)) = Len(w) - 1 /\ Len(w) > 0
    BY <1>1
  <2>2. Total(Append(Tail(w), v)) = Total(Tail(w)) + v
    BY <2>1, TotalAppend
  <2>3. Total(Tail(w)) = Total(w) - Head(w)
    BY <2>1, TotalTail
  <2> QED BY <1>1, <2>1, <2>2, <2>3 DEF Push
<1>2. CASE Len(w) # size
  <2>1. Total(Append(w, v)) = Total(w) + v
    BY TotalAppend
  <2> QED BY <1>2, <2>1 DEF Push
<1> QED BY <1>1, <1>2

(* What the next sample finds of the window and of its sum. *)
StayingSamples == IF Len(samples) = WindowSize THEN Tail(samples) ELSE samples

LEMMA StayingTotal ==
  ASSUME WindowInv
  PROVE  /\ ExactRest \in Int /\ Rest \in Floats /\ Rest \in Int
         /\ Total(samples) \in Int /\ Total(StayingSamples) \in Int
         /\ ExactRest - sampleSum = Total(StayingSamples) - Total(samples)
         /\ \A v \in Int : Total(Push(samples, v, WindowSize)) = Total(StayingSamples) + v
<1>1. /\ samples \in Seq(Int) /\ Len(samples) <= WindowSize /\ sampleSum \in Int
      /\ WindowSize \in Nat \ {0}
  BY MonitorAssumption DEF WindowInv
<1>2. \A w \in Seq(Int) : Total(w) \in Int
  BY SumsAre, TotalIs
<1>3. CASE Len(samples) = WindowSize
  <2>1. Tail(samples) \in Seq(Int) /\ Head(samples) \in Int /\ Len(samples) > 0
    BY <1>1, <1>3
  <2>2. StayingSamples = Tail(samples) /\ ExactRest = sampleSum - Head(samples)
    BY <1>3 DEF StayingSamples, ExactRest
  <2>3. Total(Tail(samples)) = Total(samples) - Head(samples)
    BY <1>1, <2>1, TotalTail
  <2>4. \A v \in Int : Total(Push(samples, v, WindowSize)) = Total(Tail(samples)) + v
    BY <1>3, <2>1, TotalAppend DEF Push
  <2>5. Total(samples) \in Int /\ Total(StayingSamples) \in Int
    BY <1>1, <1>2, <2>1, <2>2
  <2> HIDE DEF WindowInv
  <2>6. ExactRest \in Int /\ ExactRest - sampleSum = Total(StayingSamples) - Total(samples)
    BY <1>1, <2>1, <2>2, <2>3, <2>5
  <2>7. Rest \in Floats /\ Rest \in Int
    BY <2>6, RoundIs DEF Rest
  <2> QED BY <2>2, <2>4, <2>5, <2>6, <2>7
<1>4. CASE Len(samples) # WindowSize
  <2>1. StayingSamples = samples /\ ExactRest = sampleSum
    BY <1>4 DEF StayingSamples, ExactRest
  <2>2. \A v \in Int : Total(Push(samples, v, WindowSize)) = Total(samples) + v
    BY <1>1, <1>4, TotalAppend DEF Push
  <2>3. Total(samples) \in Int
    BY <1>1, <1>2
  <2>4. ExactRest \in Int /\ ExactRest - sampleSum = Total(StayingSamples) - Total(samples)
    BY <1>1, <2>1, <2>3
  <2>5. Rest \in Floats /\ Rest \in Int
    BY <2>4, RoundIs DEF Rest
  <2> QED BY <2>1, <2>2, <2>3, <2>4, <2>5
<1> QED BY <1>3, <1>4

LEMMA ObserveWindow ==
  ASSUME WindowInv, Observe
  PROVE  /\ WindowInv' /\ value \in Values /\ samples' = Push(samples, value, WindowSize)
         /\ drift' >= drift
         /\ SumNear(sampleSum, drift, Total(samples)) /\ SumNear(sampleSum', drift', Total(samples'))
         /\ drift = 0 /\ Round(Total(StayingSamples)) = Total(StayingSamples)
              /\ Round(Total(samples')) = Total(samples') => drift' = 0
<1>1. value \in Values /\ value \in Int /\ UNCHANGED value
  BY MonitorAssumption DEF WindowInv, Observe
<1>2. /\ samples' = Push(samples, value, WindowSize) /\ sampleSum' = NextSum(value)
      /\ drift' = NextDrift(value)
  BY DEF Observe
<1>3. /\ samples \in Seq(Int) /\ Len(samples) <= WindowSize
      /\ sampleSum \in Int /\ drift \in Nat /\ SumNear(sampleSum, drift, Total(samples))
  BY MonitorAssumption DEF WindowInv
<1>4. samples' \in Seq(Int) /\ Len(samples') <= WindowSize
  BY <1>1, <1>2, <1>3, PushKeepsWindow, MonitorAssumption
<1>5. samples' \in Seq(Values)
  <2>1. samples \in Seq(Values) /\ WindowSize > 0
    BY MonitorAssumption DEF WindowInv
  <2> QED BY <1>1, <1>2, <2>1 DEF Push
<1> DEFINE all == Total(samples)
           stay == Total(StayingSamples)
           sum == sampleSum'
<1>6. /\ ExactRest \in Int /\ Rest \in Int /\ Rest = Round(ExactRest)
      /\ all \in Int /\ stay \in Int /\ Total(samples') = stay + value
      /\ ExactRest = sampleSum - (all - stay)
      /\ sum \in Floats /\ sum \in Int /\ sum = Round(Rest + value)
  <2>1. /\ ExactRest \in Int /\ Rest \in Int /\ all \in Int /\ stay \in Int
        /\ ExactRest - sampleSum = stay - all /\ Total(samples') = stay + value
    BY <1>1, <1>2, StayingTotal
  <2> HIDE DEF all, stay
  <2>2. ExactRest = sampleSum - (all - stay)
    BY <1>3, <2>1
  <2>3. sum = Round(Rest + value) /\ Rest + value \in Int
    BY <1>1, <1>2, <2>1 DEF NextSum
  <2>4. Rest = Round(ExactRest)
    BY DEF Rest
  <2> QED BY <2>1, <2>2, <2>3, <2>4, RoundIs
<1>7. drift' = Lost(drift, sampleSum, all - stay, Rest, value, sum)
  BY <1>2, <1>6 DEF NextDrift, Lost
<1> HIDE DEF all, stay, sum
<1>8. StaysNear(drift, drift', sampleSum, all, all - stay, Rest, value, sum)
  <2>1. all - stay \in Int /\ SumNear(sampleSum, drift, all)
    BY <1>3, <1>6 DEF all
  <2> QED BY <1>1, <1>3, <1>6, <1>7, <2>1, SumStaysNear
<1>9. SumNear(sum, drift', Total(samples'))
  <2>1. all - (all - stay) + value = stay + value
    BY <1>1, <1>6
  <2> QED BY <1>6, <1>8, <2>1 DEF StaysNear
<1>10. ASSUME drift = 0, Round(stay) = stay, Round(Total(samples')) = Total(samples')
       PROVE  drift' = 0
  <2>1. sampleSum = all
    BY <1>3, <1>6, <1>10 DEF SumNear, all
  <2>2. ExactRest = stay
    BY <1>3, <1>6, <2>1
  <2>3. Rest = stay /\ sum = stay + value
    BY <1>6, <1>10, <2>2
  <2> QED BY <1>1, <1>6, <1>8, <1>10, <2>1, <2>3 DEF StaysNear
<1> QED BY <1>1, <1>2, <1>3, <1>4, <1>5, <1>6, <1>8, <1>9, <1>10
        DEF WindowInv, StaysNear, all, stay, sum

LEMMA WindowStep == WindowInv /\ [Next]_vars => WindowInv'
<1> SUFFICES ASSUME WindowInv, [Next]_vars PROVE WindowInv'
  OBVIOUS
<1>1. CASE Observe
  BY <1>1, ObserveWindow
<1>2. ASSUME NEW v \in Values \cup {NoValue}, Decode(v) PROVE WindowInv'
  BY <1>2 DEF Decode, monitorVars, WindowInv
<1>3. CASE RecordSeries \/ CallbackSkips \/ CountKpm \/ LoggingRaises \/ ScrapeBase \/ ScrapeState
  <2>1. UNCHANGED <<value, samples, sampleSum, drift>>
    BY <1>3 DEF RecordSeries, CallbackSkips, CountKpm, LoggingRaises, ScrapeBase, ScrapeState,
       monitorVars
  <2> QED BY <2>1 DEF WindowInv
<1>4. CASE IdlePoll \/ UNCHANGED vars
  <2>1. UNCHANGED <<value, samples, sampleSum, drift>>
    BY <1>4 DEF IdlePoll, vars, monitorVars
  <2> QED BY <2>1 DEF WindowInv
<1> QED BY <1>1, <1>2, <1>3, <1>4 DEF Next

(* The abstract monitor counts and rounds in the same way. *)
LEMMA MeanSame ==
  /\ \A w : Mean!Total(w) = Total(w)
  /\ \A w, x, size : Mean!Push(w, x, size) = Push(w, x, size)
  /\ \A x, n : Mean!Nearest(x, n) = Nearest(x, n)
  /\ \A x : Mean!Round(x) = Round(x)
<1>1. \A w : Mean!Total(w) = Total(w)
  BY DEF Mean!Total, Total, Mean!PartialSums, PartialSums
<1>2. \A w, x, size : Mean!Push(w, x, size) = Push(w, x, size)
  BY DEF Mean!Push, Push
<1>3. \A x, n : Mean!Nearest(x, n) = Nearest(x, n)
  BY Zenon DEF Mean!Nearest, Nearest, Mean!Abs, Abs
<1> QED BY <1>1, <1>2, <1>3 DEF Mean!Round, Round

(* The steps of the monitor are those of a mean computed afresh, within    *)
(* what its roundings have lost.                                           *)
LEMMA StepImplementsMean ==
  WindowInv /\ [Next]_vars => [\E v \in Values : Mean!Sample(v)]_(Mean!avgVars)
<1> SUFFICES ASSUME WindowInv, [Next]_vars
             PROVE  (\E v \in Values : Mean!Sample(v)) \/ UNCHANGED Mean!avgVars
  OBVIOUS
<1>1. CASE Observe
  <2>1. /\ WindowInv' /\ value \in Values /\ samples' = Push(samples, value, WindowSize)
        /\ drift' >= drift /\ SumNear(sampleSum', drift', Total(samples'))
        /\ drift = 0 /\ Round(Total(StayingSamples)) = Total(StayingSamples)
             /\ Round(Total(samples')) = Total(samples') => drift' = 0
    BY <1>1, ObserveWindow
  <2>2. state' = IF Nearest(sampleSum', Len(samples')) >= Threshold THEN "active" ELSE "idle"
    BY <1>1 DEF Observe, Classify
  <2> DEFINE e == sampleSum' - Total(samples')
  <2>3. drift' \in Nat /\ e \in -drift'..drift' /\ Total(samples') + e = sampleSum'
    <3>1. Total(samples') \in Int /\ sampleSum' \in Int /\ drift' \in Nat
      <4>1. samples' \in Seq(Int) /\ sampleSum' \in Floats /\ drift' \in Nat
        BY <2>1 DEF WindowInv
      <4> QED BY <4>1, SumsAre, TotalIs, MonitorAssumption
    <3> HIDE DEF WindowInv
    <3> QED BY <2>1, <3>1 DEF SumNear
  <2> HIDE DEF e
  <2>4. state' = Mean!Level(Total(samples') + e, Len(samples'))
    BY <2>2, <2>3, MeanSame DEF Mean!Level
  <2>5. drift = 0 /\ Mean!IsExact(Mean!Staying) /\ Mean!IsExact(samples') => drift' = 0
    BY <2>1, MeanSame DEF Mean!IsExact, Mean!Staying, StayingSamples
  <2>6. Mean!Sample(value)
    BY <2>1, <2>3, <2>4, <2>5, MeanSame DEF Mean!Sample
  <2> QED BY <2>1, <2>6
<1>2. CASE ~Observe
  <2>1. UNCHANGED <<samples, state, drift>>
    BY <1>2 DEF Next, Decode, RecordSeries, CallbackSkips, CountKpm, LoggingRaises, ScrapeBase,
       ScrapeState, IdlePoll, vars, monitorVars
  <2> QED BY <2>1 DEF Mean!avgVars
<1> QED BY <1>1, <1>2

-----------------------------------------------------------------------------
(* The load watch. Aged(w, a) is the sample that is a samples old.         *)
Aged(w, a) == w[Len(w) - a]

(* append makes every sample of the window one older.                      *)
LEMMA PushAges ==
  ASSUME NEW w \in Seq(Int), NEW v \in Int, NEW size \in Nat \ {0}, Len(w) <= size
  PROVE  /\ Len(Push(w, v, size)) = IF Len(w) = size THEN size ELSE Len(w) + 1
         /\ Aged(Push(w, v, size), 0) = v
         /\ \A a \in 1..Len(Push(w, v, size)) - 1 :
              a - 1 < Len(w) /\ Aged(Push(w, v, size), a) = Aged(w, a - 1)
<1>1. CASE Len(w) = size
  <2> DEFINE t == Tail(w)
  <2>1. t \in Seq(Int) /\ Len(t) = size - 1 /\ \A k \in 1..size - 1 : t[k] = w[k + 1]
    BY <1>1
  <2> HIDE DEF t
  <2>2. /\ Len(Append(t, v)) = size /\ Append(t, v)[size] = v
        /\ \A k \in 1..size - 1 : Append(t, v)[k] = t[k]
    BY <2>1
  <2>3. Push(w, v, size) = Append(t, v)
    BY <1>1 DEF Push, t
  <2>4. ASSUME NEW a \in 1..size - 1 PROVE Append(t, v)[size - a] = w[size - (a - 1)]
    <3>1. size - a \in 1..size - 1 /\ (size - a) + 1 = size - (a - 1)
      OBVIOUS
    <3> QED BY <2>1, <2>2, <3>1
  <2>5. size - 0 = size /\ \A a \in 1..size - 1 : a - 1 < Len(w)
    BY <1>1
  <2> DEFINE u == Append(t, v)
  <2>6. /\ Len(u) = size /\ u[Len(u) - 0] = v
        /\ \A a \in 1..Len(u) - 1 : a - 1 < Len(w) /\ u[Len(u) - a] = w[Len(w) - (a - 1)]
    BY <1>1, <2>2, <2>4, <2>5
  <2> HIDE DEF u
  <2> QED BY <1>1, <2>3, <2>6 DEF Aged, u
<1>2. CASE Len(w) # size
  <2> DEFINE u == Append(w, v)
  <2>1. /\ Len(u) = Len(w) + 1 /\ u[Len(w) + 1] = v
        /\ \A k \in 1..Len(w) : u[k] = w[k]
    OBVIOUS
  <2>2. Push(w, v, size) = u
    BY <1>2 DEF Push
  <2> HIDE DEF u
  <2>3. ASSUME NEW a \in 1..Len(w) PROVE u[Len(u) - a] = w[Len(w) - (a - 1)]
    <3>1. Len(u) - a \in 1..Len(w) /\ Len(u) - a = Len(w) - (a - 1)
      BY <2>1
    <3> QED BY <2>1, <3>1
  <2>4. /\ u[Len(u) - 0] = v
        /\ \A a \in 1..Len(u) - 1 : a - 1 < Len(w) /\ u[Len(u) - a] = w[Len(w) - (a - 1)]
    BY <2>1, <2>3
  <2> QED BY <1>2, <2>1, <2>2, <2>4 DEF Aged
<1> QED BY <1>1, <1>2

(* The facts of LoadWatch that a window of clamped samples can show.       *)
Shown(f) == f \in {"idle", "active", "busy", "notbusy"} /\ (f = "active" => ActiveThreshold > 0)

LEMMA ClampKeepsFacts ==
  ASSUME NEW v \in Int
  PROVE  /\ Load!Clamp(v) \in Nat
         /\ \A f : Shown(f) /\ ~Load!IsFact(f, v) => ~Load!IsFact(f, Load!Clamp(v))
         /\ v >= LoadWindow * BusyThreshold => Load!Clamp(v) >= LoadWindow * BusyThreshold
<1>1. Load!Clamp(v) \in Nat /\ (v >= 0 => Load!Clamp(v) = v) /\ (v < 0 => Load!Clamp(v) = 0)
  BY DEF Load!Clamp
<1> DEFINE c == Load!Clamp(v)
<1> HIDE DEF c
<1>2. ASSUME NEW f, Shown(f), ~Load!IsFact(f, v) PROVE ~Load!IsFact(f, c)
  <2>1. CASE f = "idle"
    BY <1>1, <1>2, <2>1, ReportsAssumption DEF Load!IsFact, c
  <2>2. CASE f = "active"
    BY <1>1, <1>2, <2>2, ReportsAssumption DEF Load!IsFact, Shown, c
  <2>3. CASE f = "busy"
    BY <1>1, <1>2, <2>3, ReportsAssumption DEF Load!IsFact, c
  <2>4. CASE f = "notbusy"
    BY <1>1, <1>2, <2>4, ReportsAssumption DEF Load!IsFact, c
  <2> QED BY <1>2, <2>1, <2>2, <2>3, <2>4 DEF Shown
<1>3. LoadWindow * BusyThreshold \in Int /\ c >= v
  BY <1>1, ReportsAssumption DEF c
<1> QED BY <1>1, <1>2, <1>3 DEF c

(* The window of the classifier: its size follows the samples, a sample    *)
(* lacks a fact if it is younger than the last one that had it, and a      *)
(* spike in reach of the window is in it.                                  *)
LoadWindowInv ==
  /\ window \in Seq(Int) /\ \A k \in 1..Len(window) : window[k] >= 0
  /\ loadSamples \in Nat
  /\ Len(window) = IF loadSamples < LoadWindow THEN loadSamples ELSE LoadWindow
  /\ ago \in [Load!Facts -> Nat]

AgoInv ==
  /\ \A f \in Load!Facts : Shown(f) =>
       \A a \in 0..Len(window) - 1 : a < ago[f] => ~Load!IsFact(f, Aged(window, a))
  /\ ago["spike"] < LoadWindow =>
       /\ ago["spike"] < Len(window)
       /\ Aged(window, ago["spike"]) >= LoadWindow * BusyThreshold

(* The class is the one of the mean of the window.                         *)
ClassInv ==
  load = IF Len(window) = 0 THEN "idle" ELSE Load!Classify(Total(window), Len(window))

LEMMA LoadObserveWindow ==
  ASSUME LoadWindowInv, loadValue \in LoadValues, Load!Observe
  PROVE  LoadWindowInv' /\ Len(window') > 0
<1> DEFINE c == Load!Clamp(loadValue)
<1>1. loadValue \in Int /\ c \in Nat /\ LoadWindow \in Nat \ {0}
  BY ClampKeepsFacts, ReportsAssumption
<1> HIDE DEF c
<1>2. window' = Push(window, c, LoadWindow) /\ loadSamples' = loadSamples + 1
  BY DEF Load!Observe, c, Load!Push, Push
<1>3. window \in Seq(Int) /\ Len(window) <= LoadWindow /\ loadSamples \in Nat
  BY <1>1 DEF LoadWindowInv
<1>4. /\ Len(window') = IF Len(window) = LoadWindow THEN LoadWindow ELSE Len(window) + 1
      /\ window' \in Seq(Int) /\ Len(window') > 0
      /\ Aged(window', 0) = c
      /\ \A a \in 1..Len(window') - 1 :
           a - 1 < Len(window) /\ Aged(window', a) = Aged(window, a - 1)
  BY <1>1, <1>2, <1>3, PushAges, PushKeepsWindow
<1>5. ASSUME NEW k \in 1..Len(window') PROVE window'[k] >= 0
  <2> DEFINE a == Len(window') - k
  <2>1. a \in 0..Len(window') - 1 /\ Len(window') - a = k
    BY <1>4
  <2> HIDE DEF a
  <2>2. window'[k] = Aged(window', a)
    BY <2>1 DEF Aged
  <2>3. CASE a = 0
    BY <1>1, <1>4, <2>2, <2>3
  <2>4. CASE a # 0
    <3>1. a - 1 < Len(window) /\ Aged(window', a) = Aged(window, a - 1)
      BY <1>4, <2>1, <2>4
    <3>2. Len(window) - (a - 1) \in 1..Len(window)
      BY <1>3, <1>4, <2>1, <2>4, <3>1
    <3>3. Aged(window, a - 1) >= 0
      BY <3>2 DEF Aged, LoadWindowInv
    <3> QED BY <2>2, <3>1, <3>3
  <2> QED BY <2>3, <2>4
<1>6. ago' \in [Load!Facts -> Nat]
  BY DEF LoadWindowInv, Load!Observe
<1>7. Len(window') = IF loadSamples' < LoadWindow THEN loadSamples' ELSE LoadWindow
  BY <1>1, <1>2, <1>3, <1>4 DEF LoadWindowInv
<1> QED BY <1>2, <1>3, <1>4, <1>5, <1>6, <1>7 DEF LoadWindowInv

LEMMA LoadObserveAgo ==
  ASSUME LoadWindowInv, AgoInv, loadValue \in LoadValues, Load!Observe
  PROVE  AgoInv'
<1> DEFINE c == Load!Clamp(loadValue)
<1>1. loadValue \in Int /\ c \in Nat /\ LoadWindow \in Nat \ {0}
  BY ClampKeepsFacts, ReportsAssumption
<1>2. /\ \A f : Shown(f) /\ ~Load!IsFact(f, loadValue) => ~Load!IsFact(f, c)
      /\ loadValue >= LoadWindow * BusyThreshold => c >= LoadWindow * BusyThreshold
  BY <1>1, ClampKeepsFacts
<1> HIDE DEF c
<1>3. window' = Push(window, c, LoadWindow)
  BY DEF Load!Observe, c, Load!Push, Push
<1>4. window \in Seq(Int) /\ Len(window) <= LoadWindow /\ ago \in [Load!Facts -> Nat]
  BY <1>1 DEF LoadWindowInv
<1>5. /\ Len(window') = IF Len(window) = LoadWindow THEN LoadWindow ELSE Len(window) + 1
      /\ Aged(window', 0) = c
      /\ \A a \in 1..Len(window') - 1 :
           a - 1 < Len(window) /\ Aged(window', a) = Aged(window, a - 1)
  BY <1>1, <1>3, <1>4, PushAges
<1>6. \A f \in Load!Facts :
        ago'[f] = IF Load!IsFact(f, loadValue) THEN 0 ELSE ago[f] + 1
  BY DEF Load!Observe
<1>7. ASSUME NEW f \in Load!Facts, Shown(f), NEW a \in 0..Len(window') - 1, a < ago'[f]
      PROVE  ~Load!IsFact(f, Aged(window', a))
  <2>1. ~Load!IsFact(f, loadValue) /\ ago'[f] = ago[f] + 1
    BY <1>6, <1>7
  <2>2. CASE a = 0
    BY <1>2, <1>5, <1>7, <2>1, <2>2
  <2>3. CASE a # 0
    <3>1. a - 1 \in 0..Len(window) - 1 /\ a - 1 < ago[f]
      BY <1>4, <1>5, <1>7, <2>1, <2>3
    <3>2. ~Load!IsFact(f, Aged(window, a - 1))
      BY <1>7, <3>1 DEF AgoInv
    <3> QED BY <1>5, <2>3, <3>2
  <2> QED BY <2>2, <2>3
<1>8. ASSUME ago'["spike"] < LoadWindow
      PROVE  /\ ago'["spike"] < Len(window')
             /\ Aged(window', ago'["spike"]) >= LoadWindow * BusyThreshold
  <2>1. "spike" \in Load!Facts
    BY DEF Load!Facts
  <2>2. CASE Load!IsFact("spike", loadValue)
    <3>1. ago'["spike"] = 0 /\ loadValue >= LoadWindow * BusyThreshold
      BY <1>6, <2>1, <2>2 DEF Load!IsFact
    <3> QED BY <1>1, <1>2, <1>4, <1>5, <3>1
  <2>3. CASE ~Load!IsFact("spike", loadValue)
    <3>1. ago'["spike"] = ago["spike"] + 1 /\ ago["spike"] \in Nat
      BY <1>4, <1>6, <2>1, <2>3
    <3>2. /\ ago["spike"] < Len(window)
          /\ Aged(window, ago["spike"]) >= LoadWindow * BusyThreshold
      BY <1>1, <1>8, <3>1 DEF AgoInv
    <3>3. ago["spike"] + 1 \in 1..Len(window') - 1
      BY <1>1, <1>4, <1>5, <1>8, <3>1, <3>2
    <3>4. Aged(window', ago["spike"] + 1) = Aged(window, (ago["spike"] + 1) - 1)
      BY <1>5, <3>3
    <3> QED BY <3>1, <3>2, <3>3, <3>4
  <2> QED BY <2>2, <2>3
<1> QED BY <1>7, <1>8 DEF AgoInv

(* What is printed: a period of LogEvery ends with each multiple of it.    *)
LEMMA Product == \A p, q, n \in Nat : p <= q => n * p <= n * q
  OBVIOUS

LEMMA Periods ==
  ASSUME NEW i \in Nat, NEW n \in Nat \ {0}
  PROVE  /\ i \div n \in Nat /\ i \div n <= (i + 1) \div n
         /\ (i + 1) % n = 0 => i \div n + 1 <= (i + 1) \div n
<1> DEFINE p == i \div n
           q == (i + 1) \div n
           r == i % n
           t == (i + 1) % n
<1>1. i = n * p + r /\ r \in 0..n - 1 /\ p \in Int
  OBVIOUS
<1>2. i + 1 = n * q + t /\ t \in 0..n - 1 /\ q \in Int
  OBVIOUS
<1> HIDE DEF p, q, r, t
<1>3. p \in Nat /\ q \in Nat
  BY <1>1, <1>2
<1>4. CASE q < p
  <2>1. n * (q + 1) <= n * p
    BY <1>3, <1>4, Product
  <2>2. n * (q + 1) = n * q + n
    BY <1>3
  <2>3. n * q \in Int /\ n * p \in Int
    BY <1>3
  <2> QED BY <1>1, <1>2, <2>1, <2>2, <2>3
<1>5. CASE t = 0 /\ q = p
  <2>1. n * q \in Int /\ n * p = n * q
    BY <1>3, <1>5
  <2> QED BY <1>1, <1>2, <1>5, <2>1
<1> QED BY <1>3, <1>4, <1>5 DEF p, q, t

LoadClasses == {"idle", "active", "busy"}

LoadCounts ==
  /\ loadPc \in {"wait", "called", "observed"}
  /\ loadValue \in LoadValues \cup {NoValue}
  /\ loadPc = "called" => loadValue \in LoadValues
  /\ loadIndications \in Nat /\ (loadPc # "wait" => loadIndications > 0)
  /\ loadTransitions \in Nat /\ loadSamples \in Nat /\ lines \in Nat /\ unlogged \in Nat
  /\ changed \in BOOLEAN /\ load \in LoadClasses

(* The indication being handled is not printed yet: neither its change of  *)
(* class nor its turn.                                                     *)
Unprinted == IF loadPc = "observed" /\ changed THEN 1 ELSE 0
Handled == IF loadPc = "wait" THEN loadIndications ELSE loadIndications - 1
Turns(n) == (IF n > 0 THEN 1 ELSE 0) + n \div LoadLogEvery

LogInv ==
  /\ loadTransitions <= lines + unlogged + Unprinted
  /\ lines <= loadTransitions - Unprinted + Turns(Handled)

(* The class has been left and entered as often as it is counted.          *)
PageInv ==
  /\ loadTransitions <= loadSamples
  /\ loadTransitions = 0 => load = "idle"
  /\ loadTransitions = 1 => load # "idle"
  /\ loadShown \in [state : LoadClasses, transitions : Nat, samples : Nat]
  /\ Load!PageOfOneMoment

LoadInv == LoadWindowInv /\ AgoInv /\ ClassInv /\ LoadCounts /\ LogInv /\ PageInv

LEMMA LoadInit == Load!Init => LoadInv
<1> SUFFICES ASSUME Load!Init PROVE LoadInv
  OBVIOUS
<1>1. window = <<>> /\ Len(window) = 0 /\ window \in Seq(Int) /\ loadSamples = 0
  BY DEF Load!Init
<1>2. ago = [f \in Load!Facts |-> LoadWindow]
  BY DEF Load!Init
<1>3. LoadWindowInv
  BY <1>1, <1>2, ReportsAssumption DEF LoadWindowInv
<1>4. AgoInv
  BY <1>1, <1>2, ReportsAssumption DEF AgoInv, Load!Facts
<1>5. ClassInv
  BY <1>1 DEF Load!Init, ClassInv
<1>6. LoadCounts
  BY DEF Load!Init, LoadCounts, LoadClasses
<1>7. LogInv
  <2>1. Turns(0) = 0
    BY ReportsAssumption DEF Turns
  <2> QED BY <2>1 DEF Load!Init, LogInv, Unprinted, Handled
<1>8. PageInv
  BY DEF Load!Init, PageInv, Load!PageOfOneMoment, LoadClasses
<1> QED BY <1>3, <1>4, <1>5, <1>6, <1>7, <1>8 DEF LoadInv

(* Turns do not go back, and one is added where LogEvery divides.          *)
LEMMA TurnsGrow ==
  ASSUME NEW n \in Nat
  PROVE  /\ Turns(n) \in Nat /\ Turns(n) <= Turns(n + 1)
         /\ n + 1 = 1 \/ (n + 1) % LoadLogEvery = 0 => Turns(n) + 1 <= Turns(n + 1)
<1>1. /\ n \div LoadLogEvery \in Nat /\ n \div LoadLogEvery <= (n + 1) \div LoadLogEvery
      /\ (n + 1) % LoadLogEvery = 0 => n \div LoadLogEvery + 1 <= (n + 1) \div LoadLogEvery
  BY Periods, ReportsAssumption
<1>2. (n + 1) \div LoadLogEvery \in Int
  BY ReportsAssumption
<1> QED BY <1>1, <1>2 DEF Turns

LEMMA LoadObserveStep ==
  ASSUME LoadInv, Load!Observe
  PROVE  LoadInv'
<1>1. loadPc = "called" /\ loadPc' = "observed" /\ loadValue \in LoadValues
  BY DEF LoadInv, LoadCounts, Load!Observe
<1>2. LoadWindowInv' /\ Len(window') > 0 /\ AgoInv'
  BY <1>1, LoadObserveWindow, LoadObserveAgo DEF LoadInv
<1>3. load' = Load!Classify(Total(window'), Len(window'))
  BY DEF Load!Observe, Load!Total, Total, Load!PartialSums, PartialSums
<1>4. ClassInv'
  BY <1>2, <1>3 DEF ClassInv
<1>5. load' \in LoadClasses
  BY <1>3 DEF Load!Classify, LoadClasses
<1>6. changed' \in BOOLEAN /\ (changed' <=> load' # load)
  BY Zenon DEF Load!Observe
<1>7. /\ loadTransitions' = IF changed' THEN loadTransitions + 1 ELSE loadTransitions
      /\ loadSamples' = loadSamples + 1
      /\ UNCHANGED <<loadValue, loadIndications, lines, unlogged, loadShown>>
  BY DEF Load!Observe
<1>8. LoadCounts'
  BY <1>1, <1>5, <1>6, <1>7 DEF LoadInv, LoadCounts
<1>9. LogInv'
  <2>1. Unprinted = 0 /\ Unprinted' = (IF changed' THEN 1 ELSE 0) /\ Handled' = Handled
    BY <1>1, <1>7 DEF Unprinted, Handled
  <2>2. Turns(Handled) \in Nat
    <3>1. Handled \in Nat
      BY <1>1 DEF LoadInv, LoadCounts, Handled
    <3> QED BY <3>1, TurnsGrow
  <2>3. Turns(Handled)' = Turns(Handled)
    BY <2>1 DEF Turns
  <2>4. /\ loadTransitions <= lines + unlogged /\ lines <= loadTransitions + Turns(Handled)
        /\ loadTransitions \in Nat /\ lines \in Nat /\ unlogged \in Nat
    BY <2>1, <2>2 DEF LoadInv, LoadCounts, LogInv
  <2> HIDE DEF Turns, Handled
  <2>5. loadTransitions' - Unprinted' = loadTransitions
    BY <1>6, <1>7, <2>1, <2>4
  <2>6. loadTransitions' <= lines' + unlogged' + Unprinted'
    BY <1>6, <1>7, <2>1, <2>4
  <2>7. lines' <= loadTransitions' - Unprinted' + Turns(Handled)'
    BY <1>7, <2>3, <2>4, <2>5
  <2> QED BY <2>6, <2>7 DEF LogInv
<1>10. PageInv'
  <2>1. Load!PageOfOneMoment'
    BY <1>7 DEF LoadInv, PageInv, Load!PageOfOneMoment
  <2>2. /\ loadTransitions <= loadSamples /\ loadTransitions \in Nat /\ loadSamples \in Nat
        /\ loadTransitions = 0 => load = "idle"
        /\ loadTransitions = 1 => load # "idle"
        /\ loadShown \in [state : LoadClasses, transitions : Nat, samples : Nat]
    BY DEF LoadInv, PageInv, LoadCounts
  <2> QED BY <1>6, <1>7, <2>1, <2>2 DEF PageInv
<1> QED BY <1>2, <1>4, <1>8, <1>9, <1>10 DEF LoadInv

(* What the other steps leave alone.                                       *)
LEMMA ClassifierRests ==
  ASSUME LoadInv, UNCHANGED <<window, load, loadSamples, ago>>
  PROVE  LoadWindowInv' /\ AgoInv' /\ ClassInv'
BY DEF LoadInv, LoadWindowInv, AgoInv, ClassInv

LEMMA LoadCallbackStep ==
  ASSUME LoadInv, NEW v \in LoadValues \cup {NoValue}, Load!Callback(v)
  PROVE  LoadInv'
<1>1. UNCHANGED <<changed, window, load, loadTransitions, loadSamples, lines, unlogged,
                  loadShown, ago>>
  BY DEF Load!Callback, Load!classifierVars
<1>2. /\ loadPc = "wait" /\ loadValue' = v /\ loadIndications' = loadIndications + 1
      /\ loadPc' = IF v = NoValue THEN "wait" ELSE "called"
  BY DEF Load!Callback
<1>3. LoadWindowInv' /\ AgoInv' /\ ClassInv'
  BY <1>1, ClassifierRests
<1>4. LoadCounts'
  BY <1>1, <1>2 DEF LoadInv, LoadCounts
<1>5. LogInv'
  <2>1. Unprinted' = 0 /\ Unprinted = 0
    BY <1>2 DEF Unprinted
  <2>2. Handled = loadIndications /\ loadIndications \in Nat
    BY <1>2 DEF Handled, LoadInv, LoadCounts
  <2>3. Handled' \in {loadIndications, loadIndications + 1}
    BY <1>2, <2>2 DEF Handled
  <2>4. /\ Turns(Handled) <= Turns(Handled') /\ Turns(Handled) \in Nat /\ Turns(Handled') \in Nat
    BY <2>2, <2>3, TurnsGrow
  <2>5. Turns(Handled)' = Turns(Handled')
    BY DEF Turns
  <2>6. /\ loadTransitions <= lines + unlogged /\ lines <= loadTransitions + Turns(Handled)
        /\ loadTransitions \in Nat /\ lines \in Nat /\ unlogged \in Nat
    BY <2>1, <2>4 DEF LoadInv, LoadCounts, LogInv
  <2> HIDE DEF Turns, Handled
  <2> QED BY <1>1, <2>1, <2>4, <2>5, <2>6 DEF LogInv
<1>6. PageInv'
  BY <1>1 DEF LoadInv, PageInv, Load!PageOfOneMoment
<1> QED BY <1>3, <1>4, <1>5, <1>6 DEF LoadInv

LEMMA LoadLogStep ==
  ASSUME LoadInv, NEW ok \in BOOLEAN, Load!Log(ok)
  PROVE  LoadInv'
<1>1. UNCHANGED <<loadValue, loadIndications, changed, window, load, loadTransitions,
                  loadSamples, loadShown, ago>>
  BY DEF Load!Log, Load!classifierVars
<1>2. loadPc = "observed" /\ loadPc' = "wait"
  BY DEF Load!Log
<1>3. /\ lines' = IF Load!Logs /\ ok THEN lines + 1 ELSE lines
      /\ unlogged' = IF Load!Logs /\ ~ok THEN unlogged + 1 ELSE unlogged
  BY DEF Load!Log
<1>4. LoadWindowInv' /\ AgoInv' /\ ClassInv'
  BY <1>1, ClassifierRests
<1>5. LoadCounts'
  BY <1>1, <1>2, <1>3 DEF LoadInv, LoadCounts
<1>6. LogInv'
  <2> DEFINE n == loadIndications - 1
  <2>1. n \in Nat /\ n + 1 = loadIndications /\ Handled = n /\ Handled' = n + 1
    BY <1>1, <1>2 DEF Handled, LoadInv, LoadCounts
  <2> HIDE DEF n
  <2>2. /\ Turns(n) \in Nat /\ Turns(n + 1) \in Nat /\ Turns(n) <= Turns(n + 1)
        /\ n + 1 = 1 \/ (n + 1) % LoadLogEvery = 0 => Turns(n) + 1 <= Turns(n + 1)
    BY <2>1, TurnsGrow
  <2>3. Turns(Handled)' = Turns(n + 1) /\ Turns(Handled) = Turns(n)
    BY <2>1 DEF Turns
  <2>4. Unprinted' = 0 /\ Unprinted = (IF changed THEN 1 ELSE 0) /\ changed \in BOOLEAN
    BY <1>2 DEF Unprinted, LoadInv, LoadCounts
  <2>5. /\ loadTransitions <= lines + unlogged + Unprinted
        /\ lines <= loadTransitions - Unprinted + Turns(n)
        /\ loadTransitions \in Nat /\ lines \in Nat /\ unlogged \in Nat
    BY <2>3 DEF LoadInv, LoadCounts, LogInv
  <2> HIDE DEF Turns, Handled, Unprinted
  <2>6. Load!Logs <=> changed \/ n + 1 = 1 \/ (n + 1) % LoadLogEvery = 0
    BY <2>1 DEF Load!Logs
  <2>7. CASE changed
    <3>1. Load!Logs
      BY <2>6, <2>7
    <3> QED BY <1>1, <1>3, <2>2, <2>3, <2>4, <2>5, <2>7, <3>1 DEF LogInv
  <2>8. CASE ~changed /\ Load!Logs
    <3>1. Turns(n) + 1 <= Turns(n + 1)
      BY <2>2, <2>6, <2>8
    <3> QED BY <1>1, <1>3, <2>2, <2>3, <2>4, <2>5, <2>8, <3>1 DEF LogInv
  <2>9. CASE ~Load!Logs
    <3>1. ~changed
      BY <2>6, <2>9
    <3> QED BY <1>1, <1>3, <2>2, <2>3, <2>4, <2>5, <2>9, <3>1 DEF LogInv
  <2> QED BY <2>4, <2>7, <2>8, <2>9
<1>7. PageInv'
  BY <1>1 DEF LoadInv, PageInv, Load!PageOfOneMoment
<1> QED BY <1>4, <1>5, <1>6, <1>7 DEF LoadInv

LEMMA LoadScrapeStep == LoadInv /\ Load!Scrape => LoadInv'
<1> SUFFICES ASSUME LoadInv, Load!Scrape PROVE LoadInv'
  OBVIOUS
<1>1. UNCHANGED <<loadPc, loadValue, loadIndications, changed, window, load,
                  loadTransitions, loadSamples, lines, unlogged, ago>>
  BY DEF Load!Scrape, Load!classifierVars
<1>2. LoadWindowInv' /\ AgoInv' /\ ClassInv'
  BY <1>1, ClassifierRests
<1>3. LoadCounts' /\ LogInv'
  BY <1>1 DEF LoadInv, LoadCounts, LogInv, Unprinted, Handled, Turns
<1>4. loadShown' = [state |-> load, transitions |-> loadTransitions, samples |-> loadSamples]
  BY DEF Load!Scrape
<1>5. PageInv'
  BY <1>1, <1>4 DEF LoadInv, LoadCounts, PageInv, Load!PageOfOneMoment
<1> QED BY <1>2, <1>3, <1>5 DEF LoadInv

LEMMA LoadRests == LoadInv /\ UNCHANGED loadVars => LoadInv'
<1> SUFFICES ASSUME LoadInv, UNCHANGED loadVars PROVE LoadInv'
  OBVIOUS
<1>1. UNCHANGED <<loadPc, loadValue, loadIndications, changed, window, load,
                  loadTransitions, loadSamples, lines, unlogged, loadShown, ago>>
  BY DEF loadVars
<1>2. LoadWindowInv' /\ AgoInv' /\ ClassInv'
  BY <1>1, ClassifierRests
<1>3. LoadCounts' /\ LogInv'
  BY <1>1 DEF LoadInv, LoadCounts, LogInv, Unprinted, Handled, Turns
<1>4. PageInv'
  BY <1>1 DEF LoadInv, PageInv, Load!PageOfOneMoment
<1> QED BY <1>2, <1>3, <1>4 DEF LoadInv

LEMMA LoadStepKeeps == LoadInv /\ Load!Next => LoadInv'
<1> SUFFICES ASSUME LoadInv, Load!Next PROVE LoadInv'
  OBVIOUS
<1>1. CASE Load!IdlePoll
  <2>1. UNCHANGED loadVars
    BY <1>1 DEF Load!IdlePoll, Load!vars, Load!classifierVars, loadVars
  <2> QED BY <2>1, LoadRests
<1> QED BY <1>1, LoadCallbackStep, LoadObserveStep, LoadLogStep, LoadScrapeStep
        DEF Load!Next

(* The class lies between the extremes of the window.                      *)
LEMMA RecentSamplesBound == LoadInv => Load!StateWithinRecentSamples
<1> SUFFICES ASSUME LoadInv PROVE Load!StateWithinRecentSamples
  OBVIOUS
<1> DEFINE n == Len(window)
           c == Total(window)
<1>1. window \in Seq(Int) /\ n \in Nat /\ ago \in [Load!Facts -> Nat]
  BY DEF LoadInv, LoadWindowInv
<1>2. c \in Int
  BY <1>1, SumsAre, TotalIs
<1>3. ASSUME NEW f \in Load!Facts, Shown(f), Load!Absent(f)
      PROVE  n = LoadWindow /\ n > 0 /\ \A k \in 1..n : ~Load!IsFact(f, window[k])
  <2>1. n = LoadWindow /\ n > 0
    BY <1>3, ReportsAssumption DEF Load!Absent, LoadInv, LoadWindowInv
  <2>2. ASSUME NEW k \in 1..n PROVE ~Load!IsFact(f, window[k])
    <3>1. n - k \in 0..n - 1 /\ n - k < ago[f] /\ n - (n - k) = k
      BY <1>1, <1>3, <2>1 DEF Load!Absent
    <3>2. ~Load!IsFact(f, Aged(window, n - k))
      BY <1>3, <3>1 DEF LoadInv, AgoInv
    <3> QED BY <3>1, <3>2 DEF Aged
  <2> QED BY <2>1, <2>2
<1>4. n > 0 => load = Load!Classify(c, n)
  BY DEF LoadInv, ClassInv
<1>5. ActiveThreshold * n \in Int /\ BusyThreshold * n \in Int
  BY <1>1, ReportsAssumption
<1>6. \A k \in 1..n : window[k] \in Int
  BY <1>1
<1>7. n > 0 => ActiveThreshold * n < BusyThreshold * n
  BY <1>1, ReportsAssumption
<1> HIDE DEF n, c
<1>8. ASSUME Load!Absent("idle") PROVE load # "idle"
  <2>1. /\ n > 0 /\ \A k \in 1..n : ~Load!IsFact("idle", window[k])
    BY <1>3, <1>8 DEF Load!Facts, Shown
  <2>2. \A k \in 1..n : window[k] >= ActiveThreshold
    BY <1>6, <2>1, ReportsAssumption DEF Load!IsFact
  <2>3. c >= ActiveThreshold * n
    BY <1>1, <2>2, TotalAtLeast, ReportsAssumption DEF n, c
  <2> QED BY <1>2, <1>4, <1>5, <2>1, <2>3 DEF Load!Classify
<1>9. ASSUME Load!Absent("active"), ActiveThreshold > 0 PROVE load = "idle"
  <2>1. /\ n > 0 /\ \A k \in 1..n : ~Load!IsFact("active", window[k])
    BY <1>3, <1>9 DEF Load!Facts, Shown
  <2>2. \A k \in 1..n : window[k] < ActiveThreshold
    BY <1>6, <2>1, ReportsAssumption DEF Load!IsFact
  <2>3. c < ActiveThreshold * n
    BY <1>1, <2>1, <2>2, TotalBelow, ReportsAssumption DEF n, c
  <2>4. ~(c >= ActiveThreshold * n) /\ ~(c >= BusyThreshold * n)
    BY <1>2, <1>5, <1>7, <2>1, <2>3
  <2> QED BY <1>4, <2>1, <2>4 DEF Load!Classify
<1>10. ASSUME Load!Absent("busy") PROVE load # "busy"
  <2>1. /\ n > 0 /\ \A k \in 1..n : ~Load!IsFact("busy", window[k])
    BY <1>3, <1>10 DEF Load!Facts, Shown
  <2>2. \A k \in 1..n : window[k] < BusyThreshold
    BY <1>6, <2>1, ReportsAssumption DEF Load!IsFact
  <2>3. c < BusyThreshold * n
    BY <1>1, <2>1, <2>2, TotalBelow, ReportsAssumption DEF n, c
  <2>4. ~(c >= BusyThreshold * n)
    BY <1>2, <1>5, <2>3
  <2> QED BY <1>4, <2>1, <2>4 DEF Load!Classify
<1>11. ASSUME Load!Absent("notbusy") PROVE load = "busy"
  <2>1. /\ n > 0 /\ \A k \in 1..n : ~Load!IsFact("notbusy", window[k])
    BY <1>3, <1>11 DEF Load!Facts, Shown
  <2>2. \A k \in 1..n : window[k] >= BusyThreshold
    BY <1>6, <2>1, ReportsAssumption DEF Load!IsFact
  <2>3. c >= BusyThreshold * n
    BY <1>1, <2>2, TotalAtLeast, ReportsAssumption DEF n, c
  <2> QED BY <1>2, <1>4, <1>5, <2>1, <2>3 DEF Load!Classify
<1> QED BY <1>8, <1>9, <1>10, <1>11 DEF Load!StateWithinRecentSamples

LEMMA SpikeBounds == LoadInv => Load!SpikeKeepsBusy
<1> SUFFICES ASSUME LoadInv, ago["spike"] < LoadWindow PROVE load = "busy"
  BY DEF Load!SpikeKeepsBusy
<1> DEFINE n == Len(window)
           i == n - ago["spike"]
<1>1. /\ window \in Seq(Int) /\ n \in Nat /\ ago["spike"] \in Nat /\ n <= LoadWindow
      /\ \A k \in 1..n : window[k] >= 0
  BY ReportsAssumption DEF LoadInv, LoadWindowInv, Load!Facts
<1>2. i \in 1..n /\ window[i] >= LoadWindow * BusyThreshold
  BY <1>1 DEF LoadInv, AgoInv, Aged
<1>3. Total(window) >= window[i] /\ Total(window) \in Int /\ window[i] \in Int
  <2>1. Total(window) \in Int
    BY <1>1, SumsAre, TotalIs
  <2> QED BY <1>1, <1>2, <2>1, TotalContains
<1>4. BusyThreshold * n <= BusyThreshold * LoadWindow
  BY <1>1, Product, ReportsAssumption
<1>5. LoadWindow * BusyThreshold = BusyThreshold * LoadWindow /\ BusyThreshold * n \in Int
      /\ BusyThreshold * LoadWindow \in Int
  BY <1>1, ReportsAssumption
<1> HIDE DEF i
<1>6. Total(window) >= BusyThreshold * n
  BY <1>2, <1>3, <1>4, <1>5
<1>7. n > 0
  BY <1>1, <1>2
<1> QED BY <1>6, <1>7 DEF LoadInv, ClassInv, Load!Classify

LEMMA LogsFollow == LoadInv => Load!ChangesLogged /\ Load!LogsBounded /\ Load!PageOfOneMoment
<1> SUFFICES ASSUME LoadInv
             PROVE  Load!ChangesLogged /\ Load!LogsBounded /\ Load!PageOfOneMoment
  OBVIOUS
<1>1. /\ loadIndications \in Nat /\ (loadPc # "wait" => loadIndications > 0)
      /\ loadTransitions \in Nat /\ lines \in Nat /\ unlogged \in Nat /\ changed \in BOOLEAN
  BY DEF LoadInv, LoadCounts
<1>2. Load!ChangesLogged
  BY <1>1 DEF LoadInv, LogInv, Unprinted, Load!ChangesLogged
<1>3. Load!LogsBounded
  <2>1. Handled \in Nat /\ (loadIndications = Handled \/ loadIndications = Handled + 1)
    BY <1>1 DEF Handled
  <2>2. Turns(Handled) <= Turns(loadIndications) /\ Turns(Handled) \in Nat
        /\ Turns(loadIndications) \in Nat
    BY <1>1, <2>1, TurnsGrow
  <2>3. Turns(loadIndications) <= 1 + loadIndications \div LoadLogEvery
        /\ loadIndications \div LoadLogEvery \in Int
    BY <1>1, ReportsAssumption DEF Turns
  <2>4. lines <= loadTransitions + Turns(Handled)
    <3> HIDE DEF Turns, Handled
    <3> QED BY <1>1, <2>2 DEF LoadInv, LogInv, Unprinted
  <2> HIDE DEF Turns, Handled
  <2> QED BY <1>1, <2>2, <2>3, <2>4 DEF Load!LogsBounded
<1>4. Load!PageOfOneMoment
  BY DEF LoadInv, PageInv
<1> QED BY <1>2, <1>3, <1>4

-----------------------------------------------------------------------------
(* The receive loop: the lemmas of IndicationLoop_proofs, for the loop of  *)
(* the run.                                                                *)
LoopP == INSTANCE IndicationLoop_proofs WITH
  MaxMessages <- LoopMessages, MaxScrapes <- LoopScrapes,
  pc <- loopPc, spc <- loopSpc, read <- loopRead, shown <- loopShown, scrapes <- loopScrapes

LEMMA LoopInitKeeps == Loop!Init => LoopP!LoopInv
<1>1. Loop!Init => LoopP!Init
  BY Zenon DEF Loop!Init, LoopP!Init, Loop!Zero, LoopP!Zero
<1> QED BY <1>1, LoopP!InitLoopInv

LEMMA LoopHandleSame == Loop!Handle => LoopP!Handle
BY Zenon DEF Loop!Handle, LoopP!Handle, Loop!AckRouteTable, LoopP!AckRouteTable,
   Loop!AckRaises, LoopP!AckRaises, Loop!CountEnvelope, LoopP!CountEnvelope,
   Loop!DropIndication, LoopP!DropIndication, Loop!FindSubscription, LoopP!FindSubscription,
   Loop!Record, LoopP!Record, Loop!RecordRaises, LoopP!RecordRaises,
   Loop!CountKpm, LoopP!CountKpm, Loop!RawCallback, LoopP!RawCallback,
   Loop!FreeBuffer, LoopP!FreeBuffer, Loop!DecodeMeid, LoopP!DecodeMeid,
   Loop!DecodeIndication, LoopP!DecodeIndication, Loop!Unpack, LoopP!Unpack,
   Loop!Callback, LoopP!Callback, Loop!Goto, LoopP!Goto, Loop!Idle, LoopP!Idle,
   Loop!Bump, LoopP!Bump, Loop!Free, LoopP!Free, Loop!scrapeVars, LoopP!scrapeVars

LEMMA LoopVarsSame == Loop!vars = LoopP!vars
BY Zenon DEF Loop!vars, LoopP!vars, Loop!loopVars, LoopP!loopVars, Loop!scrapeVars,
   LoopP!scrapeVars

LEMMA LoopNextSame == Loop!Next => LoopP!Next
<1> SUFFICES ASSUME Loop!Next PROVE LoopP!Next
  OBVIOUS
<1>1. CASE Loop!Handle
  BY <1>1, LoopHandleSame DEF LoopP!Next
<1>2. CASE Loop!ScrapeCounters \/ Loop!ScrapeActive
  BY <1>2, Zenon DEF LoopP!Next, Loop!ScrapeCounters, LoopP!ScrapeCounters,
     Loop!ScrapeActive, LoopP!ScrapeActive, Loop!loopVars, LoopP!loopVars
<1>3. CASE Loop!ReceiveNull \/ Loop!ReceiveRaises \/ Loop!ReceiveUnreadable \/ Loop!Done
  BY <1>3, Zenon DEF LoopP!Next, Loop!ReceiveNull, LoopP!ReceiveNull, Loop!ReceiveRaises,
     LoopP!ReceiveRaises, Loop!ReceiveUnreadable, LoopP!ReceiveUnreadable, Loop!Done, LoopP!Done, Loop!vars, LoopP!vars, Loop!loopVars,
     LoopP!loopVars, Loop!scrapeVars, LoopP!scrapeVars, Loop!Bump, LoopP!Bump
<1>4. ASSUME NEW to \in {"route", "envelope", "free"}, Loop!Receive(to) PROVE LoopP!Next
  BY <1>4, Zenon DEF LoopP!Next, Loop!Receive, LoopP!Receive, Loop!Idle, LoopP!Idle,
     Loop!scrapeVars, LoopP!scrapeVars
<1>5. ASSUME NEW kind \in {"kpm", "raw"}, Loop!Store(kind) PROVE LoopP!Next
  BY <1>5, Zenon DEF LoopP!Next, Loop!Store, LoopP!Store, Loop!loopVars, LoopP!loopVars,
     Loop!scrapeVars, LoopP!scrapeVars
<1> QED BY <1>1, <1>2, <1>3, <1>4, <1>5 DEF Loop!Next

LEMMA LoopStepKeeps == LoopP!LoopInv /\ Loop!Next => LoopP!LoopInv'
BY LoopNextSame, LoopP!NextLoopInv

LEMMA LoopRests == LoopP!LoopInv /\ UNCHANGED loopVars => LoopP!LoopInv'
<1>1. UNCHANGED loopVars => UNCHANGED LoopP!vars
  BY DEF loopVars, LoopP!vars, LoopP!loopVars, LoopP!scrapeVars
<1> QED BY <1>1, LoopP!NextLoopInv

LEMMA LoopPromises ==
  LoopP!LoopInv => /\ Loop!TypeOK /\ Loop!BufferDiscipline
                   /\ Loop!DispatchedWithinReceived /\ Loop!DispatchImpliesActive
BY Zenon DEF LoopP!LoopInv, LoopP!TypeOK, Loop!TypeOK, LoopP!Counters, Loop!Counters,
   LoopP!BufferDiscipline, Loop!BufferDiscipline, LoopP!DispatchedWithinReceived,
   Loop!DispatchedWithinReceived, LoopP!DispatchImpliesActive, Loop!DispatchImpliesActive

-----------------------------------------------------------------------------
(* The exported series: totals and pages.                                  *)
(* A report counts for each total at most once, when it is handled.        *)
CountsInv ==
  /\ app \in Export!Apps
  /\ exportPc \in {"receive", "record", "callback"}
  /\ rmr \in 0..MaxHistory /\ exportKpm \in 0..rmr /\ count \in 0..rmr
  /\ exportPc # "receive" => exportKpm < rmr /\ count < rmr
  /\ \A s \in DOMAIN series : series[s].updates \in 1..rmr /\ series[s].observed \in 1..rmr
  /\ exportPc = "record" => \A s \in DOMAIN series : series[s].updates < rmr
  /\ Export!PageIsConsistent

(* A callback that failed was excused; only decodable reports reach it.    *)
Excused(r) ==
  \/ ~Export!Answers(r)
  \/ r.format = 2 /\ Export!Last(r.conditions).ues = NoList
  \/ /\ app.name = "kpm_implemented"
     /\ \/ ~(Export!ToSet(app.asked.metrics) \subseteq UnitsKnown)
        \/ \E k \in DOMAIN r.records : NoValue \in Export!ToSet(r.records[k])

CallbackInv ==
  /\ exportPc # "receive" => current \in FormatReports \cup HistoryReports
  /\ exportPc = "callback" => Export!Extract(current) # Raised
  /\ \A r \in failed : Excused(r)

Arrives(r) == r \in FormatReports \cup HistoryReports /\ Export!Receive(r)

LEMMA ExportInitCounts == Export!Init => CountsInv /\ CallbackInv
<1> SUFFICES ASSUME Export!Init PROVE CountsInv /\ CallbackInv
  OBVIOUS
<1>1. DOMAIN series = {} /\ DOMAIN page.series = {} /\ page.rmr = 0 /\ page.kpm = 0
  BY DEF Export!Init, Export!Empty
<1>2. app \in Export!Apps /\ exportPc = "receive" /\ rmr = 0 /\ exportKpm = 0 /\ count = 0
      /\ failed = {}
  BY DEF Export!Init
<1> QED BY <1>1, <1>2, ReportsAssumption DEF CountsInv, CallbackInv, Export!PageIsConsistent

LEMMA ReceiveKeepsCounts ==
  ASSUME CountsInv, CallbackInv, NEW r, Arrives(r)
  PROVE  CountsInv' /\ CallbackInv'
<1>1. /\ exportPc = "receive" /\ rmr < MaxHistory /\ current' = r /\ rmr' = rmr + 1
      /\ exportPc' = "record" /\ r \in FormatReports \cup HistoryReports
      /\ UNCHANGED <<app, series, exportKpm, count, page, failed>>
  BY DEF Arrives, Export!Receive
<1>2. CountsInv'
  BY <1>1, ReportsAssumption DEF CountsInv, Export!PageIsConsistent
<1>3. CallbackInv'
  BY <1>1 DEF CallbackInv, Excused, Export!Answers
<1> QED BY <1>2, <1>3

LEMMA RecordKeepsCounts ==
  ASSUME CountsInv, CallbackInv, Export!Record
  PROVE  CountsInv' /\ CallbackInv'
<1> DEFINE new == Export!Samples(Export!Extract(current))
<1>1. /\ exportPc = "record" /\ exportPc' = "callback" /\ Export!Extract(current) # Raised
      /\ series' = Export!Store(series, new, rmr)
      /\ UNCHANGED <<app, current, rmr, exportKpm, count, page, failed>>
  BY DEF Export!Record
<1>2. CallbackInv'
  <2>1. Export!Extract(current)' = Export!Extract(current)
    BY <1>1
  <2>2. \A r \in failed : Excused(r)' = Excused(r)
    BY <1>1 DEF Excused, Export!Answers
  <2> QED BY <1>1, <2>1, <2>2 DEF CallbackInv
<1> HIDE DEF new
<1>3. /\ rmr \in Nat /\ rmr > 0
      /\ \A s \in DOMAIN series : /\ series[s].updates \in 1..rmr /\ series[s].updates < rmr
                                  /\ series[s].observed \in 1..rmr
  BY <1>1 DEF CountsInv
<1>s. /\ DOMAIN series' = DOMAIN series \cup DOMAIN new
      /\ \A s \in DOMAIN new :
           series'[s] = [value |-> new[s], observed |-> rmr,
                         updates |-> IF s \in DOMAIN series THEN series[s].updates + 1 ELSE 1]
      /\ \A s \in DOMAIN series \ DOMAIN new : series'[s] = series[s]
  BY <1>1 DEF Export!Store
<1>4. ASSUME NEW s \in DOMAIN series'
      PROVE  series'[s].updates \in 1..rmr /\ series'[s].observed \in 1..rmr
  <2>1. CASE s \in DOMAIN new
    <3>1. series'[s] = [value |-> new[s], observed |-> rmr,
                        updates |-> IF s \in DOMAIN series THEN series[s].updates + 1 ELSE 1]
      BY <1>s, <2>1
    <3> QED BY <1>3, <3>1
  <2>2. CASE s \notin DOMAIN new
    <3>1. s \in DOMAIN series /\ series'[s] = series[s]
      BY <1>s, <1>4, <2>2
    <3> QED BY <1>3, <3>1
  <2> QED BY <2>1, <2>2
<1>5. CountsInv'
  BY <1>1, <1>4 DEF CountsInv, Export!PageIsConsistent
<1> QED BY <1>2, <1>5

(* The invocations: kpm_mon asks in the style it was started with, the     *)
(* others in style 1.                                                      *)
LEMMA AskedStyles ==
  ASSUME app \in Export!Apps
  PROVE  \/ app.name = "kpm_mon" /\ app.asked.style \in 1..5
         \/ /\ app.name \in {"simple_mon", "kpm_implemented", "kpm_mon_tmt", "kpm_load_watch"}
            /\ app.asked.style = 1
<1>1. CASE app \in Export!KpmMonApps
  <2>1. PICK style \in 1..5, metrics \in Requests :
          app = [name |-> "kpm_mon",
                 asked |-> Export!ActionDefinition(style, IF style = 3 THEN <<metrics[1]>>
                                                          ELSE metrics)]
    BY <1>1 DEF Export!KpmMonApps
  <2>2. CASE style = 3
    BY <2>1, <2>2 DEF Export!ActionDefinition
  <2>3. CASE style # 3
    BY <2>1, <2>3 DEF Export!ActionDefinition
  <2> QED BY <2>2, <2>3
<1>2. ASSUME NEW name \in {"simple_mon", "kpm_implemented", "kpm_mon_tmt", "kpm_load_watch"},
             app \in Export!StyleOne(name)
      PROVE  app.name = name /\ app.asked.style = 1
  BY <1>2 DEF Export!StyleOne, Export!ActionDefinition
<1> QED BY <1>1, <1>2 DEF Export!Apps, Export!SimpleMonApps, Export!KpmImplementedApps,
           Export!TmtApps, Export!LoadWatchApps

(* A decodable report of the format of a style has the field the callback  *)
(* looks up.                                                               *)
LEMMA DecodedHas ==
  ASSUME NEW r, Export!Extract(r) # Raised
  PROVE  /\ r.format = 1 => Export!Has(Export!Extract(r), "measData")
         /\ r.format = 3 => Export!Has(Export!Extract(r), "ueMeasData")
         /\ r.format = 2 /\ Export!Last(r.conditions).ues # NoList =>
              Export!Has(Export!Extract(r), "ueMeasData")
<1>1. CASE r.format = 1
  <2>1. Export!Extract(r) = [measData |-> Export!MeasData(r)]
    BY <1>1 DEF Export!Extract, Export!Format1
  <2> QED BY <1>1, <2>1 DEF Export!Has
<1>2. CASE r.format = 3
  <2>1. Export!Extract(r) = Export!Format3(r)
    BY <1>2 DEF Export!Extract
  <2>2. \E d : Export!Extract(r) = [ueMeasData |-> d]
    BY <1>2, <2>1, Zenon DEF Export!Format3
  <2> QED BY <1>2, <2>2 DEF Export!Has
<1>3. CASE r.format = 2 /\ Export!Last(r.conditions).ues # NoList
  <2>1. Export!Extract(r) = Export!Format2(r)
    BY <1>3 DEF Export!Extract
  <2>2. \E d : Export!Extract(r) = [ueMeasData |-> d]
    BY <1>3, <2>1, Zenon DEF Export!Format2
  <2> QED BY <1>3, <2>2 DEF Export!Has
<1> QED BY <1>1, <1>2, <1>3

(* A function defined by a first value and a step for each number exists.  *)
Iterates(f, A, a, N, step) ==
  f \in [0..N -> A] /\ f[0] = a /\ \A n \in 1..N : f[n] = step[n][f[n - 1]]

LEMMA Recursion ==
  ASSUME NEW A, NEW a \in A, NEW N \in Nat, NEW step \in [1..N -> [A -> A]]
  PROVE  \E f : Iterates(f, A, a, N, step)
<1> DEFINE Upto(f, n) == /\ f \in [0..n -> A] /\ f[0] = a
                         /\ \A k \in 1..n : f[k] = step[k][f[k - 1]]
           S == {n \in Nat : n <= N => \E f : Upto(f, n)}
<1>1. 0 \in S
  <2>1. Upto([k \in 0..0 |-> a], 0)
    OBVIOUS
  <2> HIDE DEF Upto
  <2> QED BY <2>1
<1>2. ASSUME NEW n \in Nat, n \in S PROVE n + 1 \in S
  <2> SUFFICES ASSUME n + 1 <= N PROVE \E f : Upto(f, n + 1)
    OBVIOUS
  <2>1. PICK g : Upto(g, n)
    BY <1>2
  <2> DEFINE f == [k \in 0..n + 1 |-> IF k <= n THEN g[k] ELSE step[n + 1][g[n]]]
  <2>2. g[n] \in A /\ n + 1 \in 1..N /\ step[n + 1][g[n]] \in A
    BY <2>1
  <2>3. f \in [0..n + 1 -> A] /\ f[0] = a
    BY <2>1, <2>2
  <2>4. ASSUME NEW k \in 1..n + 1 PROVE f[k] = step[k][f[k - 1]]
    <3>1. CASE k <= n
      BY <2>1, <3>1
    <3>2. CASE k = n + 1
      <4>1. f[k] = step[n + 1][g[n]] /\ f[k - 1] = g[n]
        BY <3>2
      <4> HIDE DEF f
      <4> QED BY <3>2, <4>1
    <3> QED BY <3>1, <3>2
  <2>5. Upto(f, n + 1)
    BY <2>3, <2>4
  <2> HIDE DEF f, Upto
  <2> QED BY <2>5
<1>3. Nat \subseteq S
  <2> HIDE DEF S
  <2> QED BY <1>1, <1>2, NatInd
<1>4. PICK f : Upto(f, N)
  BY <1>3
<1> QED BY <1>4 DEF Iterates

LEMMA UptoInd ==
  ASSUME NEW N \in Nat, NEW S, 0 \in S, \A n \in 1..N : n - 1 \in S => n \in S
  PROVE  0..N \subseteq S
<1> DEFINE T == {n \in Nat : n <= N => n \in S}
<1>1. 0 \in T
  OBVIOUS
<1>2. ASSUME NEW n \in Nat, n \in T PROVE n + 1 \in T
  <2>1. n + 1 <= N => n + 1 \in 1..N /\ (n + 1) - 1 = n
    OBVIOUS
  <2> QED BY <1>2, <2>1
<1>3. Nat \subseteq T
  <2> HIDE DEF T
  <2> QED BY <1>1, <1>2, NatInd
<1> QED BY <1>3

(* The loops of _extract_meas_data_ind_msg_f1, one append at a time.       *)
Picks(f, A, record, owners, x) ==
  /\ f \in [0..Len(record) -> Seq(A)] /\ f[0] = <<>>
  /\ \A i \in 1..Len(record) :
       f[i] = IF owners[i] = x THEN Append(f[i - 1], record[i]) ELSE f[i - 1]

LEMMA PickedIs ==
  ASSUME NEW A, NEW record \in Seq(A), NEW owners, NEW x
  PROVE  \E f : Picks(f, A, record, owners, x) /\ Export!Picked(record, owners, x) = f[Len(record)]
<1> DEFINE N == Len(record)
           Step(g) == [i \in 0..N |-> IF i = 0 THEN <<>>
                                      ELSE IF owners[i] = x THEN Append(g[i - 1], record[i])
                                           ELSE g[i - 1]]
           step == [i \in 1..N |-> [v \in Seq(A) |-> IF owners[i] = x THEN Append(v, record[i])
                                                     ELSE v]]
<1>1. N \in Nat /\ \A i \in 1..N : record[i] \in A
  OBVIOUS
<1>2. step \in [1..N -> [Seq(A) -> Seq(A)]]
  BY <1>1
<1>n. \A i \in 1..N : i # 0 /\ i - 1 \in 0..N /\ i \in 0..N
  BY <1>1
<1>3. PICK f \in [0..N -> Seq(A)] : f[0] = <<>> /\ \A i \in 1..N : f[i] = step[i][f[i - 1]]
  <2>1. <<>> \in Seq(A)
    OBVIOUS
  <2>2. \E f : Iterates(f, Seq(A), <<>>, N, step)
    <3> HIDE DEF step, N
    <3> QED BY <1>1, <1>2, <2>1, Recursion
  <2> QED BY <2>2 DEF Iterates
<1>4. f = Step(f)
  <2>1. ASSUME NEW i \in 1..N
        PROVE  f[i] = IF owners[i] = x THEN Append(f[i - 1], record[i]) ELSE f[i - 1]
    <3>1. f[i - 1] \in Seq(A)
      BY <1>n
    <3>2. f[i] = step[i][f[i - 1]]
      BY <1>3
    <3> QED BY <3>1, <3>2
  <2>2. ASSUME NEW i \in 0..N PROVE f[i] = Step(f)[i]
    <3>1. CASE i = 0
      BY <1>1, <1>3, <3>1
    <3>2. CASE i # 0
      <4>1. i \in 1..N
        BY <1>1, <3>2
      <4> QED BY <2>1, <3>2, <4>1
    <3> QED BY <3>1, <3>2
  <2>3. f = [i \in 0..N |-> f[i]] /\ Step(f) = [i \in 0..N |-> Step(f)[i]]
    OBVIOUS
  <2> HIDE DEF Step, N
  <2> QED BY <2>2, <2>3
<1> DEFINE p == CHOOSE g : g = Step(g)
<1>5. p = Step(p)
  <2> HIDE DEF Step
  <2> QED BY <1>4
<1>6. Export!Picked(record, owners, x) = p[N]
  BY Zenon DEF Export!Picked
<1> HIDE DEF p
<1>7. p = [i \in 0..N |-> p[i]] /\ p[0] = <<>>
  <2> HIDE DEF N
  <2> QED BY <1>1, <1>5
<1>8. ASSUME NEW i \in 1..N
      PROVE  p[i] = IF owners[i] = x THEN Append(p[i - 1], record[i]) ELSE p[i - 1]
  <2>1. p[i] = Step(p)[i]
    BY <1>5, Zenon
  <2> HIDE DEF N
  <2> QED BY <1>n, <2>1
<1> DEFINE S == {i \in 0..N : p[i] \in Seq(A)}
<1>9. 0..N \subseteq S
  <2>1. 0 \in S
    <3>1. 0 \in 0..N
      BY <1>1
    <3>2. p[0] = <<>>
      BY <1>7
    <3> QED BY <3>1, <3>2
  <2>2. ASSUME NEW i \in 1..N, i - 1 \in S PROVE i \in S
    <3>1. p[i - 1] \in Seq(A) /\ record[i] \in A /\ i \in 0..N
      BY <1>1, <1>n, <2>2
    <3>2. Append(p[i - 1], record[i]) \in Seq(A)
      BY <3>1
    <3>3. p[i] \in Seq(A)
      BY <1>8, <3>1, <3>2
    <3> QED BY <3>1, <3>3
  <2> HIDE DEF S, N
  <2> QED BY <1>1, <2>1, <2>2, UptoInd
<1>10. p \in [0..N -> Seq(A)]
  <2> HIDE DEF N
  <2> QED BY <1>7, <1>9
<1>11. Picks(p, A, record, owners, x)
  BY <1>7, <1>8, <1>10 DEF Picks
<1> QED BY <1>6, <1>11

Chained(f, A, N, part) ==
  f \in [0..N -> Seq(A)] /\ f[0] = <<>> /\ \A r \in 1..N : f[r] = f[r - 1] \o part[r]

LEMMA Concatenated ==
  ASSUME NEW A, NEW N \in Nat, NEW part \in [1..N -> Seq(A)]
  PROVE  \E f : Chained(f, A, N, part)
<1> DEFINE step == [r \in 1..N |-> [v \in Seq(A) |-> v \o part[r]]]
<1>1. <<>> \in Seq(A) /\ step \in [1..N -> [Seq(A) -> Seq(A)]]
  OBVIOUS
<1>2. PICK f : Iterates(f, Seq(A), <<>>, N, step)
  <2> HIDE DEF step
  <2> QED BY <1>1, Recursion
<1>3. ASSUME NEW r \in 1..N PROVE f[r] = f[r - 1] \o part[r]
  <2>1. r - 1 \in 0..N
    OBVIOUS
  <2>2. f[r - 1] \in Seq(A) /\ f[r] = step[r][f[r - 1]]
    BY <1>2, <2>1 DEF Iterates
  <2> QED BY <2>2
<1> QED BY <1>2, <1>3 DEF Iterates, Chained

Columns(f, A, owners, records, x) ==
  /\ f \in [0..Len(records) -> Seq(A)] /\ f[0] = <<>>
  /\ \A r \in 1..Len(records) : f[r] = f[r - 1] \o Export!Picked(records[r], owners, x)

LEMMA ColumnIs ==
  ASSUME NEW A, NEW records \in Seq(Seq(A)), NEW owners, NEW x
  PROVE  \E f : /\ Columns(f, A, owners, records, x)
                /\ Export!Column(owners, records, x) = f[Len(records)]
<1> DEFINE N == Len(records)
           Part(r) == Export!Picked(records[r], owners, x)
           Step(g) == [r \in 0..N |-> IF r = 0 THEN <<>> ELSE g[r - 1] \o Part(r)]
<1>1. N \in Nat /\ \A r \in 1..N : records[r] \in Seq(A)
  OBVIOUS
<1>p. ASSUME NEW r \in 1..N PROVE Part(r) \in Seq(A)
  <2>1. records[r] \in Seq(A)
    BY <1>1
  <2>2. PICK f : /\ Picks(f, A, records[r], owners, x)
                 /\ Export!Picked(records[r], owners, x) = f[Len(records[r])]
    BY <2>1, PickedIs
  <2>3. Len(records[r]) \in 0..Len(records[r])
    BY <2>1
  <2> QED BY <2>2, <2>3 DEF Picks
<1> HIDE DEF Part
<1>n. \A r \in 1..N : r # 0 /\ r - 1 \in 0..N /\ r \in 0..N
  BY <1>1
<1> DEFINE part == [r \in 1..N |-> Part(r)]
<1>2. N \in Nat /\ part \in [1..N -> Seq(A)]
  BY <1>1, <1>p
<1>3. PICK f \in [0..N -> Seq(A)] : f[0] = <<>> /\ \A r \in 1..N : f[r] = f[r - 1] \o part[r]
  <2>1. \E f : Chained(f, A, N, part)
    <3> HIDE DEF part, N
    <3> QED BY <1>2, Concatenated
  <2> QED BY <2>1, Zenon DEF Chained
<1>4. f = Step(f)
  <2>1. ASSUME NEW r \in 1..N PROVE f[r] = f[r - 1] \o Part(r)
    BY <1>3, Zenon
  <2>2. ASSUME NEW r \in 0..N PROVE f[r] = Step(f)[r]
    <3>1. CASE r = 0
      BY <1>1, <1>3, <3>1
    <3>2. CASE r # 0
      <4>1. r \in 1..N
        BY <1>1, <3>2
      <4> QED BY <2>1, <3>2, <4>1
    <3> QED BY <3>1, <3>2
  <2>3. f = [r \in 0..N |-> f[r]] /\ Step(f) = [r \in 0..N |-> Step(f)[r]]
    OBVIOUS
  <2> HIDE DEF Step, N
  <2> QED BY <2>2, <2>3
<1> DEFINE p == CHOOSE g : g = Step(g)
<1>5. p = Step(p)
  <2> HIDE DEF Step
  <2> QED BY <1>4
<1>6. Export!Column(owners, records, x) = p[N]
  BY Zenon DEF Export!Column, Part
<1> HIDE DEF p
<1>7. p = [r \in 0..N |-> p[r]] /\ p[0] = <<>>
  <2> HIDE DEF N
  <2> QED BY <1>1, <1>5
<1>8. ASSUME NEW r \in 1..N PROVE p[r] = p[r - 1] \o Part(r)
  <2>1. p[r] = Step(p)[r]
    BY <1>5, Zenon
  <2> HIDE DEF N
  <2> QED BY <1>n, <2>1
<1> DEFINE S == {r \in 0..N : p[r] \in Seq(A)}
<1>9. 0..N \subseteq S
  <2>1. 0 \in S
    <3>1. 0 \in 0..N
      BY <1>1
    <3>2. p[0] \in Seq(A)
      <4>1. <<>> \in Seq(A)
        OBVIOUS
      <4> QED BY <1>7, <4>1, Zenon
    <3> QED BY <3>1, <3>2
  <2>2. ASSUME NEW r \in 1..N, r - 1 \in S PROVE r \in S
    <3>1. p[r - 1] \in Seq(A) /\ Part(r) \in Seq(A) /\ r \in 0..N
      BY <1>p, <1>n, <2>2
    <3>2. p[r - 1] \o Part(r) \in Seq(A)
      BY <3>1
    <3>3. p[r] \in Seq(A)
      BY <1>8, <3>2
    <3> QED BY <3>1, <3>3
  <2> HIDE DEF S, N
  <2> QED BY <1>1, <2>1, <2>2, UptoInd
<1>10. p \in [0..N -> Seq(A)]
  <2> HIDE DEF N
  <2> QED BY <1>7, <1>9
<1>11. Columns(p, A, owners, records, x)
  BY <1>7, <1>8, <1>10, Zenon DEF Columns, Part
<1> QED BY <1>6, <1>11

(* A column holds nothing the records do not hold.                         *)
LEMMA ColumnRange ==
  ASSUME NEW A, NEW records \in Seq(Seq(A)), NEW owners, NEW x
  PROVE  Export!Column(owners, records, x) \in Seq(A)
<1>1. PICK f : /\ Columns(f, A, owners, records, x)
               /\ Export!Column(owners, records, x) = f[Len(records)]
  BY ColumnIs
<1>2. Len(records) \in 0..Len(records)
  OBVIOUS
<1> QED BY <1>1, <1>2 DEF Columns

LEMMA SeqOf ==
  ASSUME NEW C, NEW B, NEW s \in Seq(C), \A k \in 1..Len(s) : s[k] \in B
  PROVE  s \in Seq(B)
OBVIOUS

(* kpm_implemented adds up what it asked for, when every item is a number. *)
LEMMA ImplementedAddsUp ==
  ASSUME NEW r, Export!IsReport(r), r.format = 1, Export!Extract(r) # Raised,
         Export!ToSet(r.names) \subseteq UnitsKnown,
         \A k \in DOMAIN r.records : NoValue \notin Export!ToSet(r.records[k])
  PROVE  ~Export!KpmImplementedRaises(Export!Extract(r))
<1> DEFINE A == (Int \cup {NoValue}) \ {NoValue}
<1>1. Export!Extract(r) = [measData |-> Export!MeasData(r)]
  BY DEF Export!Extract, Export!Format1
<1>2. Export!MeasData(r) # Raised
  BY DEF Export!Extract, Export!Format1
<1>3. Export!MeasData(r) = [m \in Export!ToSet(r.names) |-> Export!Column(r.names, r.records, m)]
  BY <1>2 DEF Export!MeasData
<1>4. r.records \in Seq(Seq(A))
  <2>1. r.records \in Seq(Seq(Int \cup {NoValue}))
    BY DEF Export!IsReport, Export!Records
  <2>2. ASSUME NEW k \in 1..Len(r.records) PROVE r.records[k] \in Seq(A)
    <3>1. r.records[k] \in Seq(Int \cup {NoValue}) /\ k \in DOMAIN r.records
      BY <2>1
    <3>2. \A i \in DOMAIN r.records[k] : r.records[k][i] # NoValue
      BY <3>1 DEF Export!ToSet
    <3> QED BY <3>1, <3>2
  <2> DEFINE B == Seq(A)
  <2>3. \A k \in 1..Len(r.records) : r.records[k] \in B
    BY <2>2
  <2>4. r.records \in Seq(B)
    <3> HIDE DEF B
    <3> QED BY <2>1, <2>3, SeqOf
  <2> QED BY <2>4
<1>5. ASSUME NEW m \in Export!ToSet(r.names)
      PROVE  NoValue \notin Export!ToSet(Export!Column(r.names, r.records, m))
  <2>1. Export!Column(r.names, r.records, m) \in Seq(A)
    <3> HIDE DEF A
    <3> QED BY <1>4, ColumnRange
  <2> QED BY <2>1 DEF Export!ToSet
<1>6. /\ DOMAIN Export!Extract(r) = {"measData"}
      /\ DOMAIN Export!Extract(r).measData = Export!ToSet(r.names)
      /\ \A m \in Export!ToSet(r.names) :
           Export!Extract(r).measData[m] = Export!Column(r.names, r.records, m)
  BY <1>1, <1>3
<1> QED BY <1>5, <1>6 DEF Export!KpmImplementedRaises, Export!Has, Export!HasUnit

(* A callback that raises has its excuse.                                  *)
LEMMA RaiseIsExcused ==
  ASSUME CountsInv, current \in FormatReports \cup HistoryReports,
         Export!Extract(current) # Raised, Export!PrintRaises(Export!Extract(current))
  PROVE  Excused(current)
<1> SUFFICES ASSUME Export!Answers(current),
                    ~(current.format = 2 /\ Export!Last(current.conditions).ues = NoList)
             PROVE  Excused(current)
  BY DEF Excused
<1> DEFINE data == Export!Extract(current)
<1>1. /\ current.format = 1 => Export!Has(data, "measData")
      /\ current.format \in {2, 3} => Export!Has(data, "ueMeasData")
  BY DecodedHas
<1>2. current.format = Export!FormatOf(app.asked.style)
  BY DEF Export!Answers
<1> HIDE DEF data
<1>3. CASE app.name = "kpm_mon" /\ app.asked.style \in 1..5
  <2>1. ASSUME app.asked.style \in {1, 2} PROVE ~Export!KpmMonRaises(data)
    <3>1. current.format = 1 /\ Export!KpmMonReads(app.asked.style) = "measData"
      BY <1>2, <2>1 DEF Export!FormatOf, Export!KpmMonReads
    <3> QED BY <1>1, <3>1 DEF Export!KpmMonRaises
  <2>2. ASSUME app.asked.style \in {3, 4, 5} PROVE ~Export!KpmMonRaises(data)
    <3>1. current.format \in {2, 3} /\ Export!KpmMonReads(app.asked.style) = "ueMeasData"
      BY <1>2, <2>2 DEF Export!FormatOf, Export!KpmMonReads
    <3> QED BY <1>1, <3>1 DEF Export!KpmMonRaises
  <2>4. app.asked.style \in {1, 2} \/ app.asked.style \in {3, 4, 5}
    BY <1>3
  <2>5. ~Export!KpmMonRaises(data)
    BY <2>1, <2>2, <2>4
  <2>3. Export!PrintRaises(data) = Export!KpmMonRaises(data)
    BY <1>3 DEF Export!PrintRaises
  <2> QED BY <2>5, <2>3 DEF data
<1>4. CASE app.asked.style = 1 /\ app.name # "kpm_mon"
  <2>1. current.format = 1
    BY <1>2, <1>4 DEF Export!FormatOf
  <2>2. ~Export!SimpleMonRaises(data)
    BY <1>1, <2>1 DEF Export!SimpleMonRaises
  <2>3. app.name = "kpm_implemented" /\ Export!KpmImplementedRaises(data)
    <3>1. app.name # "simple_mon" \/ ~Export!PrintRaises(data)
      BY <1>4, <2>2 DEF Export!PrintRaises
    <3>2. Export!PrintRaises(data)
      BY DEF data
    <3>3. app.name # "simple_mon"
      BY <3>1, <3>2
    <3> QED BY <1>4, <3>2, <3>3, Zenon DEF Export!PrintRaises
  <2>4. ASSUME Export!ToSet(app.asked.metrics) \subseteq UnitsKnown,
               \A k \in DOMAIN current.records : NoValue \notin Export!ToSet(current.records[k])
        PROVE  FALSE
    <3>1. Export!ToSet(current.names) \subseteq UnitsKnown
      BY <2>1, <2>4 DEF Export!Answers
    <3>2. Export!IsReport(current)
      BY ReportTypes
    <3> QED BY <2>1, <2>3, <2>4, <3>1, <3>2, ImplementedAddsUp DEF data
  <2> QED BY <2>3, <2>4 DEF Excused
<1>5. \/ app.name = "kpm_mon" /\ app.asked.style \in 1..5
      \/ app.asked.style = 1 /\ app.name # "kpm_mon"
  BY AskedStyles DEF CountsInv
<1> QED BY <1>3, <1>4, <1>5

LEMMA CallbackKeepsCounts ==
  ASSUME CountsInv, CallbackInv, Export!Callback
  PROVE  CountsInv' /\ CallbackInv'
<1>1. /\ exportPc = "callback" /\ exportPc' = "receive" /\ count' = count + 1
      /\ UNCHANGED <<app, current, series, rmr, page>>
      /\ \/ UNCHANGED failed /\ exportKpm' = exportKpm + 1
         \/ /\ Export!PrintRaises(Export!Extract(current))
            /\ failed' = failed \cup {current} /\ UNCHANGED exportKpm
  BY DEF Export!Callback
<1>2. CountsInv'
  BY <1>1 DEF CountsInv, Export!PageIsConsistent
<1>3. CallbackInv'
  <2>1. /\ current \in FormatReports \cup HistoryReports
        /\ Export!Extract(current) # Raised /\ \A r \in failed : Excused(r)
    BY <1>1 DEF CallbackInv
  <2>2. \A r : Excused(r)' = Excused(r)
    BY <1>1 DEF Excused, Export!Answers
  <2>3. \A r \in failed' : Excused(r)
    BY <1>1, <2>1, RaiseIsExcused
  <2> QED BY <1>1, <2>2, <2>3 DEF CallbackInv
<1> QED BY <1>2, <1>3

LEMMA RaisedKeepsCounts ==
  ASSUME CountsInv, CallbackInv, Export!RecordRaises
  PROVE  CountsInv' /\ CallbackInv'
<1>1. /\ exportPc = "record" /\ exportPc' = "receive"
      /\ UNCHANGED <<app, current, series, rmr, exportKpm, count, page, failed>>
  BY DEF Export!RecordRaises
<1>2. CountsInv'
  BY <1>1 DEF CountsInv, Export!PageIsConsistent
<1>3. CallbackInv'
  BY <1>1 DEF CallbackInv, Excused, Export!Answers
<1> QED BY <1>2, <1>3

LEMMA ScrapeKeepsCounts ==
  ASSUME CountsInv, CallbackInv, Export!Scrape
  PROVE  CountsInv' /\ CallbackInv'
<1>1. /\ page' = [series |-> series, rmr |-> rmr, kpm |-> exportKpm]
      /\ UNCHANGED <<app, exportPc, current, series, rmr, exportKpm, count, failed>>
  BY DEF Export!Scrape
<1>2. Export!PageIsConsistent'
  <2>1. page'.series = series /\ page'.rmr = rmr /\ page'.kpm = exportKpm
    BY <1>1
  <2>2. \A s \in DOMAIN series : series[s].observed <= rmr /\ series[s].updates <= rmr
    BY DEF CountsInv
  <2> QED BY <2>1, <2>2 DEF CountsInv, Export!PageIsConsistent
<1>3. CountsInv'
  BY <1>1, <1>2 DEF CountsInv
<1>4. CallbackInv'
  BY <1>1 DEF CallbackInv, Excused, Export!Answers
<1> QED BY <1>3, <1>4

LEMMA ExportStep ==
  ASSUME CountsInv, CallbackInv, ExportWorks \/ \E r : Arrives(r)
  PROVE  CountsInv' /\ CallbackInv'
BY ReceiveKeepsCounts, RecordKeepsCounts, RaisedKeepsCounts, CallbackKeepsCounts,
   ScrapeKeepsCounts DEF ExportWorks, Export!Handle

LEMMA ExportRests ==
  ASSUME CountsInv, CallbackInv, UNCHANGED exportVars
  PROVE  CountsInv' /\ CallbackInv'
<1>1. UNCHANGED <<app, exportPc, current, series, rmr, exportKpm, count, page, failed>>
  BY DEF exportVars
<1>2. CountsInv'
  BY <1>1 DEF CountsInv, Export!PageIsConsistent
<1>3. CallbackInv'
  BY <1>1 DEF CallbackInv, Excused, Export!Answers
<1> QED BY <1>2, <1>3

-----------------------------------------------------------------------------
(* The series. The latest number of a list depends on its end.             *)
Items == Int \cup {NoValue}

(* A nonempty set of indices has a largest one.                            *)
LEMMA Greatest ==
  ASSUME NEW N \in Nat, NEW T, T \subseteq 1..N, T # {}
  PROVE  \E n \in T : \A m \in T : m <= n
<1> DEFINE R == {N - n : n \in T}
<1>0. \A n \in T : n \in 1..N /\ n \in Nat /\ N - n \in Nat
  OBVIOUS
<1>1. R \subseteq Nat /\ R # {}
  BY <1>0
<1>2. PICK k \in R : \A l \in R : k <= l
  BY <1>1, Least
<1>3. PICK n \in T : k = N - n
  BY <1>2
<1>4. ASSUME NEW m \in T PROVE m <= n
  <2>1. N - m \in R
    OBVIOUS
  <2>2. N - n <= N - m
    BY <1>2, <1>3, <2>1
  <2>3. n \in Nat /\ m \in Nat
    BY <1>0
  <2> QED BY <2>2, <2>3
<1> QED BY <1>4

LEMMA LatestOfEmpty == Export!LatestNumeric(<<>>) = NoValue
BY DEF Export!LatestNumeric

(* The last item that is a number, wherever it is found.                   *)
LEMMA LatestAt ==
  ASSUME NEW v \in Seq(Items), NEW i \in 1..Len(v), v[i] # NoValue,
         \A j \in 1..Len(v) : v[j] # NoValue => j <= i
  PROVE  Export!LatestNumeric(v) = v[i]
<1> DEFINE numbers == {j \in DOMAIN v : v[j] # NoValue}
           c == CHOOSE k \in numbers : \A j \in numbers : j <= k
<1>1. i \in numbers /\ (\A j \in numbers : j <= i) /\ numbers \subseteq 1..Len(v)
  OBVIOUS
<1>2. c \in numbers /\ \A j \in numbers : j <= c
  <2> HIDE DEF numbers
  <2> QED BY <1>1
<1>3. c = i
  BY <1>1, <1>2
<1>4. Export!LatestNumeric(v) = v[c]
  BY <1>1, Zenon DEF Export!LatestNumeric
<1> QED BY <1>3, <1>4

LEMMA LatestNone ==
  ASSUME NEW v \in Seq(Items), \A j \in 1..Len(v) : v[j] = NoValue
  PROVE  Export!LatestNumeric(v) = NoValue
BY DEF Export!LatestNumeric

LEMMA LatestCases ==
  ASSUME NEW v \in Seq(Items)
  PROVE  \/ /\ \A j \in 1..Len(v) : v[j] = NoValue
            /\ Export!LatestNumeric(v) = NoValue
         \/ \E i \in 1..Len(v) : /\ v[i] # NoValue /\ Export!LatestNumeric(v) = v[i]
                                 /\ \A j \in 1..Len(v) : v[j] # NoValue => j <= i
<1>1. CASE \A j \in 1..Len(v) : v[j] = NoValue
  BY <1>1, LatestNone
<1>2. CASE \E j \in 1..Len(v) : v[j] # NoValue
  <2> DEFINE T == {j \in 1..Len(v) : v[j] # NoValue}
  <2>1. Len(v) \in Nat /\ T \subseteq 1..Len(v) /\ T # {}
    BY <1>2
  <2>2. PICK i \in T : \A j \in T : j <= i
    <3> HIDE DEF T
    <3> QED BY <2>1, Greatest
  <2> QED BY <2>2, LatestAt
<1> QED BY <1>1, <1>2

LEMMA LatestOfAppend ==
  ASSUME NEW v \in Seq(Items), NEW a \in Items
  PROVE  Export!LatestNumeric(Append(v, a)) = IF a = NoValue THEN Export!LatestNumeric(v) ELSE a
<1> DEFINE w == Append(v, a)
<1>1. /\ w \in Seq(Items) /\ Len(w) = Len(v) + 1 /\ w[Len(v) + 1] = a
      /\ \A j \in 1..Len(v) : w[j] = v[j]
      /\ Len(v) \in Nat
  OBVIOUS
<1> HIDE DEF w
<1>2. CASE a # NoValue
  <2>1. Len(v) + 1 \in 1..Len(w) /\ w[Len(v) + 1] # NoValue
    BY <1>1, <1>2
  <2>2. \A j \in 1..Len(w) : w[j] # NoValue => j <= Len(v) + 1
    BY <1>1
  <2>3. Export!LatestNumeric(w) = w[Len(v) + 1]
    BY <1>1, <2>1, <2>2, LatestAt
  <2> QED BY <1>1, <1>2, <2>3 DEF w
<1>3. CASE a = NoValue
  <2>1. \A j \in 1..Len(w) : w[j] # NoValue => j \in 1..Len(v) /\ v[j] # NoValue
    BY <1>1, <1>3
  <2>2. CASE \A j \in 1..Len(v) : v[j] = NoValue
    <3>1. Export!LatestNumeric(v) = NoValue /\ Export!LatestNumeric(w) = NoValue
      BY <1>1, <2>1, <2>2, LatestNone
    <3> QED BY <1>3, <3>1 DEF w
  <2>3. ASSUME NEW i \in 1..Len(v), v[i] # NoValue, Export!LatestNumeric(v) = v[i],
               \A j \in 1..Len(v) : v[j] # NoValue => j <= i
        PROVE  Export!LatestNumeric(w) = Export!LatestNumeric(v)
    <3>1. i \in 1..Len(w) /\ w[i] = v[i] /\ w[i] # NoValue
      BY <1>1, <2>3
    <3>2. \A j \in 1..Len(w) : w[j] # NoValue => j <= i
      BY <2>1, <2>3
    <3>3. Export!LatestNumeric(w) = w[i]
      BY <1>1, <3>1, <3>2, LatestAt
    <3> QED BY <2>3, <3>1, <3>3
  <2> QED BY <1>3, <2>2, <2>3, LatestCases DEF w
<1> QED BY <1>2, <1>3

LEMMA LatestOfConcat ==
  ASSUME NEW v \in Seq(Items), NEW u \in Seq(Items)
  PROVE  Export!LatestNumeric(v \o u) =
           IF Export!LatestNumeric(u) = NoValue THEN Export!LatestNumeric(v)
           ELSE Export!LatestNumeric(u)
<1> DEFINE w == v \o u
<1>1. /\ w \in Seq(Items) /\ Len(w) = Len(v) + Len(u) /\ Len(v) \in Nat /\ Len(u) \in Nat
      /\ \A j \in 1..Len(v) : w[j] = v[j]
      /\ \A j \in Len(v) + 1 .. Len(w) : w[j] = u[j - Len(v)]
  OBVIOUS
<1> HIDE DEF w
<1>2. ASSUME NEW i \in 1..Len(u), u[i] # NoValue, Export!LatestNumeric(u) = u[i],
             \A j \in 1..Len(u) : u[j] # NoValue => j <= i
      PROVE  Export!LatestNumeric(w) = u[i]
  <2>1. /\ Len(v) + i \in Len(v) + 1 .. Len(w) /\ (Len(v) + i) - Len(v) = i
        /\ Len(v) + i \in 1..Len(w)
    BY <1>1
  <2>2. w[Len(v) + i] = u[i]
    BY <1>1, <2>1
  <2>3. ASSUME NEW j \in 1..Len(w), w[j] # NoValue PROVE j <= Len(v) + i
    <3>1. CASE j <= Len(v)
      BY <1>1, <3>1
    <3>2. CASE j > Len(v)
      <4>1. j \in Len(v) + 1 .. Len(w) /\ j - Len(v) \in 1..Len(u)
        BY <1>1, <3>2
      <4>2. u[j - Len(v)] # NoValue
        BY <1>1, <2>3, <4>1
      <4>3. j - Len(v) <= i
        BY <1>2, <4>1, <4>2
      <4> QED BY <1>1, <4>3
    <3> QED BY <1>1, <3>1, <3>2
  <2>4. Export!LatestNumeric(w) = w[Len(v) + i]
    BY <1>1, <1>2, <2>1, <2>2, <2>3, LatestAt
  <2> QED BY <2>2, <2>4
<1>3. ASSUME \A j \in 1..Len(u) : u[j] = NoValue
      PROVE  Export!LatestNumeric(w) = Export!LatestNumeric(v)
  <2>1. ASSUME NEW j \in 1..Len(w), w[j] # NoValue PROVE j \in 1..Len(v) /\ v[j] # NoValue
    <3>1. CASE j <= Len(v)
      <4>1. j \in 1..Len(v)
        BY <1>1, <3>1
      <4> QED BY <1>1, <2>1, <4>1
    <3>2. CASE j > Len(v)
      <4>1. j \in Len(v) + 1 .. Len(w) /\ j - Len(v) \in 1..Len(u)
        BY <1>1, <3>2
      <4> QED BY <1>1, <1>3, <2>1, <4>1
    <3> QED BY <1>1, <3>1, <3>2
  <2>2. CASE \A j \in 1..Len(v) : v[j] = NoValue
    <3>1. Export!LatestNumeric(v) = NoValue
      BY <2>2, LatestNone
    <3>2. Export!LatestNumeric(w) = NoValue
      BY <1>1, <2>1, <2>2, LatestNone
    <3> QED BY <3>1, <3>2
  <2>3. ASSUME NEW i \in 1..Len(v), v[i] # NoValue, Export!LatestNumeric(v) = v[i],
               \A j \in 1..Len(v) : v[j] # NoValue => j <= i
        PROVE  Export!LatestNumeric(w) = Export!LatestNumeric(v)
    <3>1. i \in 1..Len(w) /\ w[i] = v[i] /\ w[i] # NoValue
      BY <1>1, <2>3
    <3>2. \A j \in 1..Len(w) : w[j] # NoValue => j <= i
      BY <2>1, <2>3
    <3>3. Export!LatestNumeric(w) = w[i]
      BY <1>1, <3>1, <3>2, LatestAt
    <3> QED BY <2>3, <3>1, <3>3
  <2> QED BY <2>2, <2>3, LatestCases
<1> QED BY <1>2, <1>3, LatestCases DEF w

(* The number that belongs to x and is the last of the first n items.      *)
Owned(record, owners, x, j) == owners[j] = x /\ record[j] # NoValue

LastOwned(record, owners, x, n, v) ==
  \/ v = NoValue /\ \A j \in 1..n : ~Owned(record, owners, x, j)
  \/ \E j \in 1..n : /\ Owned(record, owners, x, j) /\ v = record[j]
                     /\ \A k \in 1..n : Owned(record, owners, x, k) => k <= j

LEMMA LatestPicked ==
  ASSUME NEW record \in Seq(Items), NEW owners, NEW x
  PROVE  /\ Export!Picked(record, owners, x) \in Seq(Items)
         /\ LastOwned(record, owners, x, Len(record),
                      Export!LatestNumeric(Export!Picked(record, owners, x)))
<1>1. PICK f : /\ Picks(f, Items, record, owners, x)
               /\ Export!Picked(record, owners, x) = f[Len(record)]
  BY PickedIs
<1> DEFINE N == Len(record)
           Good(n) == LastOwned(record, owners, x, n, Export!LatestNumeric(f[n]))
           S == {n \in 0..N : Good(n)}
<1>2. N \in Nat /\ f[0] = <<>> /\ \A n \in 0..N : f[n] \in Seq(Items)
  BY <1>1 DEF Picks
<1>3. 0 \in S
  BY <1>2, LatestOfEmpty DEF LastOwned
<1>4. ASSUME NEW n \in 1..N, n - 1 \in S PROVE n \in S
  <2> DEFINE v == Export!LatestNumeric(f[n - 1])
             a == record[n]
  <2>1. n - 1 \in 0..N /\ n \in 0..N /\ n \in Nat /\ n - 1 \in Nat
    BY <1>2
  <2>2. a \in Items /\ f[n - 1] \in Seq(Items)
    BY <1>2, <2>1
  <2>3. f[n] = IF owners[n] = x THEN Append(f[n - 1], a) ELSE f[n - 1]
    BY <1>1 DEF Picks
  <2>4. LastOwned(record, owners, x, n - 1, v)
    BY <1>4
  <2>a. \A j \in 1..n : j = n \/ j \in 1..n - 1
    BY <2>1
  <2>b. \A j \in 1..n - 1 : j \in 1..n /\ j <= n
    BY <2>1
  <2>5. CASE Owned(record, owners, x, n)
    <3>1. Export!LatestNumeric(f[n]) = a
      BY <2>2, <2>3, <2>5, LatestOfAppend DEF Owned
    <3>2. \A k \in 1..n : k <= n
      OBVIOUS
    <3>3. n \in 1..n
      BY <2>1
    <3>4. Good(n)
      BY <2>5, <3>1, <3>2, <3>3, Zenon DEF LastOwned
    <3> QED BY <2>1, <3>4
  <2>6. CASE ~Owned(record, owners, x, n)
    <3>1. Export!LatestNumeric(f[n]) = v
      <4>1. CASE owners[n] = x
        BY <2>2, <2>3, <2>6, <4>1, LatestOfAppend DEF Owned
      <4>2. CASE owners[n] # x
        BY <2>3, <4>2
      <4> QED BY <4>1, <4>2
    <3> HIDE DEF v
    <3>2. LastOwned(record, owners, x, n, v)
      <4>1. CASE v = NoValue /\ \A j \in 1..n - 1 : ~Owned(record, owners, x, j)
        BY <2>6, <2>a, <4>1 DEF LastOwned
      <4>2. ASSUME NEW j \in 1..n - 1, Owned(record, owners, x, j), v = record[j],
                   \A k \in 1..n - 1 : Owned(record, owners, x, k) => k <= j
            PROVE  LastOwned(record, owners, x, n, v)
        <5>1. j \in 1..n /\ \A k \in 1..n : Owned(record, owners, x, k) => k <= j
          BY <2>6, <2>a, <2>b, <4>2
        <5> QED BY <4>2, <5>1, Zenon DEF LastOwned
      <4> QED BY <2>4, <4>1, <4>2 DEF LastOwned
    <3> QED BY <2>1, <3>1, <3>2
  <2> QED BY <2>5, <2>6
<1>5. 0..N \subseteq S
  <2> HIDE DEF S, N
  <2> QED BY <1>2, <1>3, <1>4, UptoInd
<1>6. N \in 0..N
  BY <1>2
<1>7. N \in S /\ f[N] \in Seq(Items)
  BY <1>2, <1>5, <1>6
<1> QED BY <1>1, <1>7

(* The same for the records of a table.                                    *)
LastNumber(t, n, v) ==
  \/ v = NoValue /\ \A q \in 1..n : \A j \in DOMAIN t.records[q] : ~Export!Number(t, q, j)
  \/ \E q \in 1..n : \E j \in DOMAIN t.records[q] :
       /\ Export!Number(t, q, j) /\ v = t.records[q][j]
       /\ \A r \in 1..n : \A i \in DOMAIN t.records[r] :
            Export!Number(t, r, i) => r < q \/ (r = q /\ i <= j)

LEMMA LatestColumn ==
  ASSUME NEW owners, NEW x, NEW records \in Seq(Seq(Items))
  PROVE  LastNumber(Export!Table(owners, x, records), Len(records),
                    Export!LatestNumeric(Export!Column(owners, records, x)))
<1>1. PICK f : /\ Columns(f, Items, owners, records, x)
               /\ Export!Column(owners, records, x) = f[Len(records)]
  <2> HIDE DEF Items
  <2> QED BY ColumnIs
<1> DEFINE N == Len(records)
           t == Export!Table(owners, x, records)
           Good(n) == LastNumber(t, n, Export!LatestNumeric(f[n]))
           S == {n \in 0..N : Good(n)}
<1>2. N \in Nat /\ f[0] = <<>> /\ \A n \in 0..N : f[n] \in Seq(Items)
  <2>1. N \in Nat
    OBVIOUS
  <2>2. f \in [0..N -> Seq(Items)] /\ f[0] = <<>>
    BY <1>1, Zenon DEF Columns
  <2> HIDE DEF N, Items
  <2> QED BY <2>1, <2>2
<1>t. /\ t.records = records
      /\ \A q, j : Export!Number(t, q, j) <=> Owned(records[q], owners, x, j)
  BY DEF Export!Table, Export!Number, Owned
<1> HIDE DEF t
<1>3. 0 \in S
  BY <1>2, LatestOfEmpty DEF LastNumber
<1>4. ASSUME NEW n \in 1..N, n - 1 \in S PROVE n \in S
  <2> DEFINE v == Export!LatestNumeric(f[n - 1])
             p == Export!Picked(records[n], owners, x)
             a == Export!LatestNumeric(p)
             w == Export!LatestNumeric(f[n])
  <2>1. n - 1 \in 0..N /\ n \in 0..N /\ n \in Nat /\ n - 1 \in Nat
    BY <1>2
  <2>2. records[n] \in Seq(Items) /\ f[n - 1] \in Seq(Items)
    BY <1>2, <2>1
  <2>3. p \in Seq(Items) /\ LastOwned(records[n], owners, x, Len(records[n]), a)
    BY <2>2, LatestPicked
  <2>4. f[n] = f[n - 1] \o p
    BY <1>1 DEF Columns
  <2>5. w = IF a = NoValue THEN v ELSE a
    <3> HIDE DEF p
    <3> QED BY <2>2, <2>3, <2>4, LatestOfConcat
  <2>6. LastNumber(t, n - 1, v)
    BY <1>4
  <2>a. \A j \in 1..n : j = n \/ (j \in 1..n - 1 /\ j < n)
    BY <2>1
  <2>b. n \in 1..n /\ \A j \in 1..n - 1 : j \in 1..n /\ j <= n
    BY <2>1
  <2>d. DOMAIN t.records[n] = 1..Len(records[n])
    BY <1>t, <2>2
  <2> HIDE DEF v, p, a, w
  <2>7. CASE a = NoValue /\ \A j \in 1..Len(records[n]) : ~Owned(records[n], owners, x, j)
    <3>1. \A j \in DOMAIN t.records[n] : ~Export!Number(t, n, j)
      BY <1>t, <2>7, <2>d
    <3>2. w = v
      BY <2>5, <2>7
    <3>3. ASSUME v = NoValue,
                 \A q \in 1..n - 1 : \A j \in DOMAIN t.records[q] : ~Export!Number(t, q, j)
          PROVE  LastNumber(t, n, w)
      <4>1. \A q \in 1..n : \A j \in DOMAIN t.records[q] : ~Export!Number(t, q, j)
        BY <2>a, <3>1, <3>3, Zenon
      <4>2. w = NoValue
        BY <3>2, <3>3
      <4> QED BY <4>1, <4>2 DEF LastNumber
    <3>4. ASSUME NEW q \in 1..n - 1, NEW j \in DOMAIN t.records[q], Export!Number(t, q, j),
                 v = t.records[q][j],
                 \A r \in 1..n - 1 : \A i \in DOMAIN t.records[r] :
                   Export!Number(t, r, i) => r < q \/ (r = q /\ i <= j)
          PROVE  LastNumber(t, n, w)
      <4>1. /\ q \in 1..n
            /\ \A r \in 1..n : \A i \in DOMAIN t.records[r] :
                 Export!Number(t, r, i) => r < q \/ (r = q /\ i <= j)
        BY <2>a, <2>b, <3>1, <3>4
      <4> QED BY <3>2, <3>4, <4>1, Zenon DEF LastNumber
    <3>5. LastNumber(t, n, w)
      BY <2>6, <3>3, <3>4 DEF LastNumber
    <3> QED BY <2>1, <3>5 DEF w
  <2>8. ASSUME NEW j \in 1..Len(records[n]), Owned(records[n], owners, x, j),
               a = records[n][j],
               \A k \in 1..Len(records[n]) : Owned(records[n], owners, x, k) => k <= j
        PROVE  n \in S
    <3>1. j \in DOMAIN t.records[n] /\ Export!Number(t, n, j) /\ w = t.records[n][j]
      BY <1>t, <2>5, <2>8, <2>d DEF Owned
    <3>2. ASSUME NEW r \in 1..n, NEW i \in DOMAIN t.records[r], Export!Number(t, r, i)
          PROVE  r < n \/ (r = n /\ i <= j)
      <4>1. CASE r = n
        BY <1>t, <2>8, <2>d, <3>2, <4>1
      <4>2. CASE r # n
        BY <2>a, <4>2
      <4> QED BY <4>1, <4>2
    <3>3. LastNumber(t, n, w)
      BY <2>b, <3>1, <3>2, Zenon DEF LastNumber
    <3> QED BY <2>1, <3>3 DEF w
  <2> QED BY <2>3, <2>7, <2>8, Zenon DEF LastOwned
<1>5. 0..N \subseteq S
  <2> HIDE DEF S, N
  <2> QED BY <1>2, <1>3, <1>4, UptoInd
<1>6. N \in 0..N
  BY <1>2
<1>7. N \in S
  BY <1>5, <1>6
<1> QED BY <1>1, <1>7 DEF t

(* What the code takes for a series is the newest number of its table.     *)
LEMMA ColumnIsNewest ==
  ASSUME NEW owners, NEW x, NEW records \in Seq(Seq(Items))
  PROVE  LET v == Export!LatestNumeric(Export!Column(owners, records, x))
             newest == Export!Newest(Export!Table(owners, x, records))
         IN  (v = NoValue => newest = {}) /\ (v # NoValue => v \in newest)
<1> DEFINE v == Export!LatestNumeric(Export!Column(owners, records, x))
           t == Export!Table(owners, x, records)
<1>1. LastNumber(t, Len(records), v)
  BY LatestColumn
<1>2. t.records = records /\ DOMAIN t.records = 1..Len(records)
  BY DEF Export!Table
<1> HIDE DEF v, t
<1>3. CASE v = NoValue /\ \A q \in 1..Len(records) : \A j \in DOMAIN t.records[q] :
                            ~Export!Number(t, q, j)
  <2>1. \A q \in DOMAIN t.records : \A j \in DOMAIN t.records[q] : ~Export!IsLast(t, q, j)
    BY <1>2, <1>3, Zenon DEF Export!IsLast
  <2>2. Export!Newest(t) = {}
    BY <2>1, Zenon DEF Export!Newest
  <2> QED BY <1>3, <2>2 DEF v, t
<1>4. ASSUME NEW q \in 1..Len(records), NEW j \in DOMAIN t.records[q],
             Export!Number(t, q, j), v = t.records[q][j],
             \A r \in 1..Len(records) : \A i \in DOMAIN t.records[r] :
               Export!Number(t, r, i) => r < q \/ (r = q /\ i <= j)
      PROVE  v # NoValue /\ v \in Export!Newest(t)
  <2>1. Export!IsLast(t, q, j)
    BY <1>2, <1>4 DEF Export!IsLast
  <2>2. v \in Export!Newest(t)
    BY <1>2, <1>4, <2>1 DEF Export!Newest
  <2> QED BY <1>4, <2>2 DEF Export!Number
<1> QED BY <1>1, <1>3, <1>4, Zenon DEF LastNumber, v, t

Reads(new, s, r) ==
  /\ s \notin DOMAIN new => Export!Readings(r, s) = {}
  /\ s \in DOMAIN new => new[s] \in Export!Readings(r, s)

LEMMA RecordsAre == Export!Records = Seq(Seq(Items))
BY DEF Export!Records, Items

LEMMA OwnItems ==
  ASSUME NEW A, NEW s \in Seq(A)
  PROVE  s \in Seq(Export!ToSet(s))
BY DEF Export!ToSet

(* A name that is not listed owns no column.                               *)
LEMMA NotListed ==
  ASSUME NEW owners, NEW records, ~Export!Overlong(owners, records),
         owners \in Seq(Export!ToSet(owners)), records \in Seq(Seq(Items)),
         NEW x, x \notin Export!ToSet(owners)
  PROVE  Export!Newest(Export!Table(owners, x, records)) = {}
<1> DEFINE t == Export!Table(owners, x, records)
<1>1. t.records = records /\ t.owners = owners /\ t.of = x
  BY DEF Export!Table
<1> HIDE DEF t
<1>2. ASSUME NEW r \in DOMAIN t.records, NEW i \in DOMAIN t.records[r]
      PROVE  ~Export!IsLast(t, r, i)
  <2>1. records[r] \in Seq(Items) /\ r \in DOMAIN records /\ i \in 1..Len(records[r])
    BY <1>1
  <2>2. Len(records[r]) <= Len(owners)
    BY <2>1 DEF Export!Overlong
  <2>3. i \in 1..Len(owners)
    BY <2>1, <2>2
  <2>4. owners[i] # x
    BY <2>3 DEF Export!ToSet
  <2> QED BY <1>1, <2>4 DEF Export!IsLast, Export!Number
<1>3. Export!Newest(t) = {}
  BY <1>2, Zenon DEF Export!Newest
<1> QED BY <1>3 DEF t

LEMMA Samples1 ==
  ASSUME NEW r, Export!IsReport(r), r.format = 1, Export!Extract(r) # Raised,
         NEW m \in Metric, NEW u \in UE \cup {Node}
  PROVE  Reads(Export!Samples(Export!Extract(r)), <<m, u>>, r)
<1> DEFINE data == Export!Extract(r)
           C(x) == Export!LatestNumeric(Export!Column(r.names, r.records, x))
           kept == {x \in Export!ToSet(r.names) : C(x) # NoValue}
           new == Export!Samples(data)
<1>1. data = [measData |-> Export!MeasData(r)] /\ Export!MeasData(r) # Raised
  BY DEF Export!Extract, Export!Format1
<1>2. /\ ~Export!Overlong(r.names, r.records)
      /\ Export!MeasData(r) = [x \in Export!ToSet(r.names) |-> Export!Column(r.names, r.records, x)]
  BY <1>1 DEF Export!MeasData
<1>3. r.records \in Seq(Seq(Items)) /\ r.names \in Seq(Metric)
  <2>1. r.names # NoList
    BY <1>1 DEF Export!MeasData
  <2> QED BY <2>1, RecordsAre DEF Export!IsReport, Export!Names
<1>4. Export!UeSamples(data) = Export!Empty
  BY <1>1 DEF Export!UeSamples, Export!Has
<1>5. Export!NodeSamples(data) = [s \in kept \X {Node} |-> C(s[1])]
  <2>1. Export!Has(data, "measData") /\ data.measData = Export!MeasData(r)
    BY <1>1 DEF Export!Has
  <2>2. /\ DOMAIN data.measData = Export!ToSet(r.names)
        /\ \A x \in Export!ToSet(r.names) : Export!LatestNumeric(data.measData[x]) = C(x)
    BY <1>2, <2>1
  <2> HIDE DEF C, data
  <2>3. {x \in DOMAIN data.measData : Export!LatestNumeric(data.measData[x]) # NoValue} = kept
    BY <2>2
  <2>4. Export!NodeSamples(data) = [s \in kept \X {Node} |-> Export!LatestNumeric(data.measData[s[1]])]
    BY <2>1, <2>3 DEF Export!NodeSamples
  <2>5. \A s \in kept \X {Node} : Export!LatestNumeric(data.measData[s[1]]) = C(s[1])
    BY <2>2
  <2> QED BY <2>4, <2>5
<1> HIDE DEF C, data
<1>6. /\ DOMAIN new = kept \X {Node}
      /\ \A s \in DOMAIN new : new[s] = C(s[1])
  BY <1>4, <1>5 DEF Export!Samples, Export!Empty
<1>7. Export!Readings(r, <<m, u>>) =
        IF u = Node THEN Export!Newest(Export!Table(r.names, m, r.records)) ELSE {}
  BY DEF Export!Readings, Export!Tables
<1>8. /\ C(m) = NoValue => Export!Newest(Export!Table(r.names, m, r.records)) = {}
      /\ C(m) # NoValue => C(m) \in Export!Newest(Export!Table(r.names, m, r.records))
  BY <1>3, ColumnIsNewest DEF C
<1>9. m \notin Export!ToSet(r.names) => Export!Newest(Export!Table(r.names, m, r.records)) = {}
  <2>1. r.names \in Seq(Export!ToSet(r.names))
    BY <1>3, OwnItems
  <2> QED BY <1>2, <1>3, <2>1, NotListed
<1> HIDE DEF new
<1>10. <<m, u>> \in DOMAIN new <=> m \in Export!ToSet(r.names) /\ C(m) # NoValue /\ u = Node
  BY <1>6
<1>11. <<m, u>> \in DOMAIN new => new[<<m, u>>] = C(m)
  BY <1>6
<1> QED BY <1>7, <1>8, <1>9, <1>10, <1>11 DEF Reads, new, data

(* The pairs of a table per UE.                                            *)
LEMMA UeSamplesAre ==
  ASSUME NEW data, Export!Has(data, "ueMeasData")
  PROVE  LET D == data.ueMeasData
             new == Export!UeSamples(data)
         IN  /\ \A m, u : <<m, u>> \in DOMAIN new <=>
                            /\ u \in DOMAIN D /\ m \in DOMAIN D[u]
                            /\ Export!LatestNumeric(D[u][m]) # NoValue
             /\ \A m, u : <<m, u>> \in DOMAIN new =>
                            new[<<m, u>>] = Export!LatestNumeric(D[u][m])
<1> DEFINE D == data.ueMeasData
           figure(s) == Export!LatestNumeric(D[s[2]][s[1]])
           pairs == UNION {(DOMAIN D[u]) \X {u} : u \in DOMAIN D}
           new == Export!UeSamples(data)
<1>1. new = [s \in {p \in pairs : figure(p) # NoValue} |-> figure(s)]
  BY DEF Export!UeSamples
<1>2. \A m, u : <<m, u>> \in pairs <=> u \in DOMAIN D /\ m \in DOMAIN D[u]
  OBVIOUS
<1>3. \A m, u : figure(<<m, u>>) = Export!LatestNumeric(D[u][m])
  OBVIOUS
<1> HIDE DEF figure, pairs, new
<1>4. \A p : p \in DOMAIN new <=> p \in pairs /\ figure(p) # NoValue
  BY <1>1
<1>5. \A p \in DOMAIN new : new[p] = figure(p)
  BY <1>1
<1> HIDE DEF D
<1> QED BY <1>2, <1>3, <1>4, <1>5, Zenon DEF D, new

LEMMA Samples2 ==
  ASSUME NEW r, Export!IsReport(r), r.format = 2, Export!Extract(r) # Raised,
         NEW m \in Metric, NEW u \in UE \cup {Node}
  PROVE  Reads(Export!Samples(Export!Extract(r)), <<m, u>>, r)
<1> DEFINE data == Export!Extract(r)
           c == Export!Last(r.conditions)
           C(x) == Export!LatestNumeric(Export!Column(c.ues, r.records, x))
           new == Export!Samples(data)
<1>1. /\ r.conditions \in Seq([metric : Metric, ues : {NoList} \cup Seq(UE)])
      /\ r.conditions # <<>> /\ r.records \in Seq(Seq(Items))
  BY RecordsAre DEF Export!IsReport
<1>2. c \in [metric : Metric, ues : {NoList} \cup Seq(UE)]
  <2>1. r.conditions \in Seq([metric : Metric, ues : {NoList} \cup Seq(UE)]) /\ r.conditions # <<>>
    BY <1>1
  <2> DEFINE B == [metric : Metric, ues : {NoList} \cup Seq(UE)]
             q == r.conditions
  <2>2. q \in Seq(B) /\ q # <<>> => q[Len(q)] \in B
    <3> HIDE DEF B, q
    <3> QED OBVIOUS
  <2> QED BY <2>1, <2>2 DEF Export!Last
<1>r. Export!Readings(r, <<m, u>>) =
        IF c.ues = NoList \/ c.metric # m THEN {}
        ELSE Export!Newest(Export!Table(c.ues, u, r.records))
  BY DEF Export!Readings, Export!Tables
<1>d. data = Export!Format2(r)
  BY DEF Export!Extract
<1>3. CASE c.ues = NoList
  <2>1. data = Export!Empty
    BY <1>3, <1>d DEF Export!Format2
  <2>2. DOMAIN new = {}
    BY <2>1 DEF Export!Samples, Export!NodeSamples, Export!UeSamples, Export!Has, Export!Empty
  <2> QED BY <1>3, <1>r, <2>2 DEF Reads
<1>4. CASE c.ues # NoList
  <2> DEFINE names == [i \in DOMAIN r.conditions |-> r.conditions[i].metric]
             D == [x \in Export!ToSet(c.ues) |->
                     [y \in {Export!Last(names)} |-> Export!Column(c.ues, r.records, x)]]
  <2>1. ~Export!Overlong(c.ues, r.records) /\ data = [ueMeasData |-> D]
    BY <1>4, <1>d, Zenon DEF Export!Format2
  <2>2. Export!Last(names) = c.metric
    BY <1>1 DEF Export!Last
  <2>3. Export!Has(data, "ueMeasData") /\ data.ueMeasData = D
    <3> HIDE DEF D
    <3> QED BY <2>1 DEF Export!Has
  <2>4. /\ DOMAIN D = Export!ToSet(c.ues)
        /\ \A x \in Export!ToSet(c.ues) : /\ DOMAIN D[x] = {c.metric}
                                          /\ Export!LatestNumeric(D[x][c.metric]) = C(x)
    BY <2>2
  <2>5. Export!NodeSamples(data) = Export!Empty
    BY <2>1 DEF Export!NodeSamples, Export!Has
  <2> HIDE DEF D, C, data
  <2>6. /\ DOMAIN new = DOMAIN Export!UeSamples(data)
        /\ \A s \in DOMAIN new : new[s] = Export!UeSamples(data)[s]
    BY <2>5 DEF Export!Samples, Export!Empty
  <2>7. /\ <<m, u>> \in DOMAIN new <=>
             u \in DOMAIN D /\ m \in DOMAIN D[u] /\ Export!LatestNumeric(D[u][m]) # NoValue
        /\ <<m, u>> \in DOMAIN new => new[<<m, u>>] = Export!LatestNumeric(D[u][m])
    BY <2>3, <2>6, UeSamplesAre
  <2>8. /\ C(u) = NoValue => Export!Newest(Export!Table(c.ues, u, r.records)) = {}
        /\ C(u) # NoValue => C(u) \in Export!Newest(Export!Table(c.ues, u, r.records))
    BY <1>1, ColumnIsNewest DEF C
  <2>9. u \notin Export!ToSet(c.ues) => Export!Newest(Export!Table(c.ues, u, r.records)) = {}
    <3>1. c.ues \in Seq(UE)
      BY <1>2, <1>4
    <3>2. c.ues \in Seq(Export!ToSet(c.ues))
      BY <3>1 DEF Export!ToSet
    <3> HIDE DEF c
    <3> QED BY <1>1, <2>1, <3>2, NotListed
  <2> HIDE DEF new, c
  <2>10. /\ <<m, u>> \in DOMAIN new <=> u \in Export!ToSet(c.ues) /\ m = c.metric /\ C(u) # NoValue
         /\ <<m, u>> \in DOMAIN new => new[<<m, u>>] = C(u)
    BY <2>4, <2>7
  <2> QED BY <1>4, <1>r, <2>8, <2>9, <2>10 DEF Reads, new, data
<1> QED BY <1>3, <1>4

(* Of a UE that is listed twice, the last body is the one the code keeps.  *)
LEMMA LastBodyKept ==
  ASSUME NEW B, NEW reports \in Seq(B), NEW u,
         NEW ids, ids = [i \in DOMAIN reports |-> reports[i].ue]
  PROVE  /\ u \notin Export!ToSet(ids) => Export!LastBodies(reports, u) = {}
         /\ u \in Export!ToSet(ids) =>
              LET k == Export!SelectLastInSeq(ids, LAMBDA v : v = u)
              IN  k \in DOMAIN reports /\ Export!LastBodies(reports, u) = {reports[k]}
<1> DEFINE I == {i \in 1..Len(ids) : ids[i] = u}
           k == Export!SelectLastInSeq(ids, LAMBDA v : v = u)
<1>1. /\ DOMAIN reports = 1..Len(reports) /\ Len(ids) = Len(reports) /\ Len(reports) \in Nat
      /\ \A i \in 1..Len(reports) : ids[i] = reports[i].ue
  OBVIOUS
<1>2. /\ I \subseteq 1..Len(reports)
      /\ \A i \in 1..Len(reports) : i \in I <=> reports[i].ue = u
      /\ u \in Export!ToSet(ids) <=> I # {}
  BY <1>1 DEF Export!ToSet
<1>3. I # {} => k = CHOOSE i \in I : \A j \in I : i >= j
  BY DEF Export!SelectLastInSeq, Export!Max
<1> HIDE DEF I, k
<1>4. ASSUME I # {} PROVE k \in I /\ \A j \in I : j <= k
  <2>1. PICK n \in I : \A j \in I : j <= n
    BY <1>1, <1>2, <1>4, Greatest
  <2>2. \A j \in I : n >= j
    BY <1>2, <2>1
  <2>3. k \in I /\ \A j \in I : k >= j
    BY <1>3, <1>4, <2>2
  <2> QED BY <1>2, <2>3
<1>5. CASE I = {}
  <2>1. \A b \in DOMAIN reports : reports[b].ue # u
    BY <1>1, <1>2, <1>5
  <2> QED BY <1>2, <1>5, <2>1 DEF Export!LastBodies
<1>6. CASE I # {}
  <2>1. k \in DOMAIN reports /\ reports[k].ue = u /\ \A c \in DOMAIN reports : c > k => reports[c].ue # u
    <3>1. k \in 1..Len(reports) /\ reports[k].ue = u
      BY <1>2, <1>4, <1>6
    <3>2. ASSUME NEW c \in 1..Len(reports), c > k PROVE reports[c].ue # u
      BY <1>2, <1>4, <1>6, <3>1, <3>2
    <3> QED BY <1>1, <3>1, <3>2
  <2>2. ASSUME NEW b \in DOMAIN reports, reports[b].ue = u,
               \A c \in DOMAIN reports : c > b => reports[c].ue # u
        PROVE  b = k
    <3>1. b \in 1..Len(reports) /\ k \in 1..Len(reports) /\ b <= k
      BY <1>1, <1>2, <1>4, <1>6, <2>1, <2>2
    <3>2. ~(k > b)
      BY <2>1, <2>2
    <3> QED BY <3>1, <3>2
  <2>3. Export!LastBodies(reports, u) = {reports[k]}
    BY <2>1, <2>2 DEF Export!LastBodies
  <2> QED BY <1>2, <1>6, <2>1, <2>3 DEF k
<1> QED BY <1>5, <1>6

LEMMA Samples3 ==
  ASSUME NEW r, Export!IsReport(r), r.format = 3, Export!Extract(r) # Raised,
         NEW m \in Metric, NEW u \in UE \cup {Node}
  PROVE  Reads(Export!Samples(Export!Extract(r)), <<m, u>>, r)
<1> DEFINE data == Export!Extract(r)
           B == [ue : UE, names : Export!Names, records : Seq(Seq(Items))]
           reports == r.ueReports
           ids == [i \in DOMAIN reports |-> reports[i].ue]
           bodies == [i \in DOMAIN reports |-> Export!MeasData(reports[i])]
           last(x) == Export!SelectLastInSeq(ids, LAMBDA v : v = x)
           D == [x \in Export!ToSet(ids) |-> bodies[last(x)]]
           new == Export!Samples(data)
<1>1. reports \in Seq(B)
  BY RecordsAre, Zenon DEF Export!IsReport
<1>2. Raised \notin Export!ToSet(bodies) /\ data = [ueMeasData |-> D]
  <2>1. data = Export!Format3(r)
    BY DEF Export!Extract
  <2> QED BY <2>1, Zenon DEF Export!Format3
<1> HIDE DEF D
<1>3. Export!Has(data, "ueMeasData") /\ data.ueMeasData = D
  BY <1>2 DEF Export!Has
<1>4. Export!NodeSamples(data) = Export!Empty
  BY <1>2 DEF Export!NodeSamples, Export!Has
<1>r. Export!Readings(r, <<m, u>>) =
        UNION {Export!Newest(t) : t \in {Export!Table(b.names, m, b.records) :
                                           b \in Export!LastBodies(reports, u)}}
  BY DEF Export!Readings, Export!Tables
<1>b. ASSUME NEW i \in DOMAIN reports
      PROVE  /\ reports[i].names \in Seq(Metric) /\ reports[i].records \in Seq(Seq(Items))
             /\ ~Export!Overlong(reports[i].names, reports[i].records)
             /\ bodies[i] = [x \in Export!ToSet(reports[i].names) |->
                               Export!Column(reports[i].names, reports[i].records, x)]
  <2>1. reports[i] \in B
    <3> HIDE DEF B, reports
    <3> QED BY <1>1
  <2>2. bodies[i] = Export!MeasData(reports[i]) /\ bodies[i] # Raised
    BY <1>2 DEF Export!ToSet
  <2> HIDE DEF reports, bodies
  <2>3. reports[i].names # NoList
    BY <2>2 DEF Export!MeasData
  <2> QED BY <2>1, <2>2, <2>3 DEF Export!MeasData, Export!Names
<1>i. /\ DOMAIN D = Export!ToSet(ids)
      /\ \A x \in Export!ToSet(ids) : D[x] = bodies[last(x)]
  BY DEF D
<1>l. /\ u \notin Export!ToSet(ids) => Export!LastBodies(reports, u) = {}
      /\ u \in Export!ToSet(ids) =>
           last(u) \in DOMAIN reports /\ Export!LastBodies(reports, u) = {reports[last(u)]}
  <2> HIDE DEF B, reports
  <2> QED BY <1>1, LastBodyKept
<1> HIDE DEF data, reports, ids, bodies, last, B
<1>5. /\ DOMAIN new = DOMAIN Export!UeSamples(data)
      /\ \A s \in DOMAIN new : new[s] = Export!UeSamples(data)[s]
  BY <1>4 DEF Export!Samples, Export!Empty
<1>6. /\ <<m, u>> \in DOMAIN new <=>
           u \in DOMAIN D /\ m \in DOMAIN D[u] /\ Export!LatestNumeric(D[u][m]) # NoValue
      /\ <<m, u>> \in DOMAIN new => new[<<m, u>>] = Export!LatestNumeric(D[u][m])
  BY <1>3, <1>5, UeSamplesAre
<1> HIDE DEF new
<1>7. CASE u \notin Export!ToSet(ids)
  BY <1>i, <1>l, <1>r, <1>6, <1>7 DEF Reads, new, data
<1>8. CASE u \in Export!ToSet(ids)
  <2> DEFINE b == reports[last(u)]
             C == Export!LatestNumeric(Export!Column(b.names, b.records, m))
             N == Export!Newest(Export!Table(b.names, m, b.records))
  <2>1. /\ b.names \in Seq(Metric) /\ b.records \in Seq(Seq(Items))
        /\ ~Export!Overlong(b.names, b.records)
        /\ D[u] = [x \in Export!ToSet(b.names) |-> Export!Column(b.names, b.records, x)]
    BY <1>b, <1>i, <1>l, <1>8
  <2>2. Export!Readings(r, <<m, u>>) = N
    BY <1>l, <1>r, <1>8
  <2> HIDE DEF b
  <2>3. (C = NoValue => N = {}) /\ (C # NoValue => C \in N)
    BY <2>1, ColumnIsNewest
  <2>4. m \notin Export!ToSet(b.names) => N = {}
    <3>1. b.names \in Seq(Export!ToSet(b.names))
      BY <2>1, OwnItems
    <3> QED BY <2>1, <3>1, NotListed
  <2>5. DOMAIN D[u] = Export!ToSet(b.names) /\ (m \in Export!ToSet(b.names) => Export!LatestNumeric(D[u][m]) = C)
    BY <2>1
  <2> HIDE DEF C, N
  <2>6. /\ <<m, u>> \in DOMAIN new <=> m \in Export!ToSet(b.names) /\ C # NoValue
        /\ <<m, u>> \in DOMAIN new => new[<<m, u>>] = C
    BY <1>i, <1>6, <1>8, <2>5
  <2> QED BY <2>2, <2>3, <2>4, <2>6 DEF Reads, new, data
<1> QED BY <1>7, <1>8

LEMMA Samples0 ==
  ASSUME NEW r, r.format \notin {1, 2, 3}, NEW s
  PROVE  Reads(Export!Samples(Export!Extract(r)), s, r)
<1>1. Export!Extract(r) = Export!Empty
  BY DEF Export!Extract
<1>2. DOMAIN Export!Samples(Export!Empty) = {}
  BY DEF Export!Samples, Export!NodeSamples, Export!UeSamples, Export!Has, Export!Empty
<1>3. Export!Readings(r, s) = {}
  BY DEF Export!Readings, Export!Tables
<1> QED BY <1>1, <1>2, <1>3 DEF Reads

LEMMA SamplesAreReadings ==
  ASSUME NEW r, Export!IsReport(r), Export!Extract(r) # Raised, NEW s \in Export!AllSeries
  PROVE  Reads(Export!Samples(Export!Extract(r)), s, r)
<1>1. PICK m \in Metric, u \in UE \cup {Node} : s = <<m, u>>
  BY DEF Export!AllSeries
<1> QED BY <1>1, Samples0, Samples1, Samples2, Samples3

(* The history of stored reports and the series that are theirs.           *)
Entries == [report : FormatReports \cup HistoryReports, at : Nat]
RecordInv == recorded \in Seq(Entries) /\ Export!SeriesIsLatestReading

LEMMA SameCardinality == \A S : Export!Cardinality(S) = Cardinality(S)
BY Zenon DEF Export!Cardinality, Cardinality

(* SeriesIsLatestReading for one series: its entry, if it has one, and the *)
(* stored reports that carry it.                                           *)
LastIn(C) == CHOOSE n \in C : \A k \in C : k <= n

Latest(s, C, table, history) ==
  /\ (s \in DOMAIN table) <=> (C # {})
  /\ C # {} =>
       /\ table[s].value \in Export!Readings(history[LastIn(C)].report, s)
       /\ table[s].observed = history[LastIn(C)].at
       /\ table[s].updates = Cardinality(C)

LEMMA LatestIs ==
  Export!SeriesIsLatestReading <=>
    \A s \in Export!AllSeries : Latest(s, Export!Carriers(s), series, recorded)
BY SameCardinality DEF Export!SeriesIsLatestReading, Latest, LastIn

LEMMA RecordInit == Export!Init => RecordInv
<1> SUFFICES ASSUME Export!Init PROVE RecordInv
  OBVIOUS
<1>1. recorded = <<>> /\ DOMAIN series = {}
  BY DEF Export!Init, Export!Empty
<1>2. \A s : Export!Carriers(s) = {}
  BY <1>1 DEF Export!Carriers
<1> QED BY <1>1, <1>2 DEF RecordInv, Export!SeriesIsLatestReading

LEMMA RecordRests ==
  ASSUME RecordInv, UNCHANGED <<series, recorded>>
  PROVE  RecordInv'
BY DEF RecordInv, Export!SeriesIsLatestReading, Export!Carriers

LEMMA RecordStores ==
  ASSUME RecordInv, CountsInv, CallbackInv, Export!Record
  PROVE  RecordInv'
<1> DEFINE new == Export!Samples(Export!Extract(current))
           n == Len(recorded)
           entry == [report |-> current, at |-> rmr]
<1>1. /\ exportPc = "record" /\ Export!Extract(current) # Raised
      /\ series' = Export!Store(series, new, rmr)
      /\ recorded' = Append(recorded, entry)
  BY DEF Export!Record
<1>2. /\ current \in FormatReports \cup HistoryReports /\ Export!IsReport(current)
      /\ rmr \in Nat /\ recorded \in Seq(Entries) /\ n \in Nat
  BY <1>1, ReportTypes DEF CallbackInv, CountsInv, RecordInv
<1>3. recorded' \in Seq(Entries)
  BY <1>1, <1>2 DEF Entries
<1>4. /\ DOMAIN recorded = 1..n /\ DOMAIN recorded' = 1..n + 1
      /\ recorded'[n + 1] = entry /\ \A k \in 1..n : recorded'[k] = recorded[k]
  BY <1>1, <1>2
<1>5. entry.report = current /\ entry.at = rmr
  OBVIOUS
<1> HIDE DEF new, entry, n
<1>6. /\ DOMAIN series' = DOMAIN series \cup DOMAIN new
      /\ \A s \in DOMAIN new :
           series'[s] = [value |-> new[s], observed |-> rmr,
                         updates |-> IF s \in DOMAIN series THEN series[s].updates + 1 ELSE 1]
      /\ \A s \in DOMAIN series \ DOMAIN new : series'[s] = series[s]
  BY <1>1 DEF Export!Store
<1>7. ASSUME NEW s \in Export!AllSeries
      PROVE  Latest(s, Export!Carriers(s)', series', recorded')
  <2> DEFINE C == Export!Carriers(s)
             D == Export!Carriers(s)'
  <2>1. Latest(s, C, series, recorded)
    BY LatestIs DEF RecordInv
  <2>2. /\ C = {k \in 1..n : Export!Readings(recorded[k].report, s) # {}}
        /\ D = {k \in 1..n + 1 : Export!Readings(recorded'[k].report, s) # {}}
    BY <1>4 DEF Export!Carriers
  <2>3. Reads(new, s, current)
    BY <1>1, <1>2, SamplesAreReadings DEF new
  <2>4. C \subseteq 1..n /\ IsFiniteSet(C) /\ Cardinality(C) \in Nat
    <3>1. IsFiniteSet(1..n) /\ C \in SUBSET (1..n)
      BY <1>2, <2>2, FS_Interval
    <3> HIDE DEF C
    <3> QED BY <3>1, FS_Subset, FS_CardinalityType
  <2>5. CASE s \in DOMAIN new
    <3>1. D = C \cup {n + 1}
      BY <1>2, <1>4, <1>5, <2>2, <2>3, <2>5 DEF Reads
    <3>2. n + 1 \notin C /\ n + 1 \in D /\ \A k \in D : k <= n + 1 /\ k \in Nat
      BY <1>2, <2>4, <3>1
    <3>3. LastIn(D) = n + 1
      <4> HIDE DEF C, D
      <4>1. \E i \in D : \A k \in D : k <= i
        BY <3>2
      <4>2. LastIn(D) \in D /\ \A k \in D : k <= LastIn(D)
        BY <4>1 DEF LastIn
      <4>3. LastIn(D) <= n + 1 /\ n + 1 <= LastIn(D) /\ LastIn(D) \in Nat
        BY <3>2, <4>2
      <4> QED BY <1>2, <4>3
    <3>4. Cardinality(D) = Cardinality(C) + 1
      <4> HIDE DEF C, D
      <4> QED BY <2>4, <3>1, <3>2, FS_AddElement
    <3>5. series'[s].updates = Cardinality(C) + 1
      <4>1. CASE C = {}
        <5>1. s \notin DOMAIN series /\ Cardinality(C) = 0
          BY <2>1, <4>1, FS_EmptySet DEF Latest
        <5> QED BY <1>6, <2>5, <5>1
      <4>2. CASE C # {}
        BY <1>6, <2>1, <2>5, <4>2 DEF Latest
      <4> QED BY <4>1, <4>2
    <3>6. /\ series'[s].value = new[s] /\ series'[s].observed = rmr /\ s \in DOMAIN series'
          /\ new[s] \in Export!Readings(current, s)
      BY <1>6, <2>3, <2>5 DEF Reads
    <3> HIDE DEF C, D
    <3>7. D # {} /\ recorded'[LastIn(D)] = entry
      BY <1>4, <3>2, <3>3
    <3>8. Latest(s, D, series', recorded')
      BY <1>5, <3>4, <3>5, <3>6, <3>7 DEF Latest
    <3> QED BY <3>8 DEF D
  <2>6. CASE s \notin DOMAIN new
    <3>1. D = C
      BY <1>2, <1>4, <1>5, <2>2, <2>3, <2>6 DEF Reads
    <3>2. (s \in DOMAIN series' <=> s \in DOMAIN series)
          /\ (s \in DOMAIN series => series'[s] = series[s])
      BY <1>6, <2>6
    <3>3. C # {} => recorded'[LastIn(C)] = recorded[LastIn(C)]
      <4> SUFFICES ASSUME C # {} PROVE LastIn(C) \in 1..n
        BY <1>4
      <4> HIDE DEF C
      <4>1. \E i \in C : \A k \in C : k <= i
        BY <1>2, <2>4, Greatest
      <4>2. LastIn(C) \in C
        BY <4>1 DEF LastIn
      <4> QED BY <2>4, <4>2
    <3> HIDE DEF C, D
    <3>4. Latest(s, C, series', recorded')
      BY <2>1, <3>2, <3>3 DEF Latest
    <3> QED BY <3>1, <3>4 DEF C, D
  <2> QED BY <2>5, <2>6
<1>8. Export!SeriesIsLatestReading'
  <2>1. (\A s \in Export!AllSeries : Latest(s, Export!Carriers(s), series, recorded))'
    BY <1>7
  <2>2. (Export!SeriesIsLatestReading <=>
           \A s \in Export!AllSeries : Latest(s, Export!Carriers(s), series, recorded))'
    BY LatestIs, PTL
  <2> QED BY <2>1, <2>2
<1> QED BY <1>3, <1>8 DEF RecordInv

LEMMA RecordStep ==
  ASSUME RecordInv, CountsInv, CallbackInv, ExportWorks \/ \E r : Arrives(r)
  PROVE  RecordInv'
<1>1. CASE Export!Record
  BY <1>1, RecordStores
<1>2. CASE Export!RecordRaises \/ Export!Callback \/ Export!Scrape \/ \E r : Arrives(r)
  <2>1. UNCHANGED <<series, recorded>>
    BY <1>2 DEF Export!RecordRaises, Export!Callback, Export!Scrape, Arrives, Export!Receive
  <2> QED BY <2>1, RecordRests
<1> QED BY <1>1, <1>2 DEF ExportWorks, Export!Handle

-----------------------------------------------------------------------------
(* The four components side by side: the invariant of each holds whether   *)
(* it moves or rests.                                                      *)
MonitorTypes == indications \in Nat /\ spc \in {"idle", "based"}

MonitorPart == MonitorInv /\ WindowInv /\ MonitorTypes
ExportPart == CountsInv /\ CallbackInv /\ RecordInv
ReportsInv == MonitorPart /\ LoopP!LoopInv /\ ExportPart /\ LoadInv

LEMMA MonitorInit == Init => MonitorPart
<1> SUFFICES ASSUME Init PROVE MonitorPart
  OBVIOUS
<1>1. WindowInv
  <2>1. samples = <<>> /\ sampleSum = 0 /\ drift = 0 /\ value = NoValue
    BY DEF Init
  <2>2. <<>> \in Seq(Int) /\ <<>> \in Seq(Values) /\ Len(<<>>) = 0
    OBVIOUS
  <2> QED BY <2>1, <2>2, TotalEmpty, MonitorAssumption DEF WindowInv, SumNear
<1>2. MonitorTypes
  BY DEF Init, MonitorTypes
<1> QED BY <1>1, <1>2, InitMonitorInv DEF MonitorPart

LEMMA MonitorNext == MonitorPart /\ [Next]_vars => MonitorPart'
<1> SUFFICES ASSUME MonitorPart, [Next]_vars PROVE MonitorPart'
  OBVIOUS
<1>1. MonitorTypes'
  <2>1. CASE IdlePoll \/ UNCHANGED vars
    BY <2>1 DEF MonitorPart, MonitorTypes, IdlePoll, vars, scrapeVars
  <2>2. ASSUME NEW v, Decode(v) PROVE MonitorTypes'
    BY <2>2 DEF MonitorPart, MonitorTypes, Decode, scrapeVars
  <2>3. CASE RecordSeries \/ CallbackSkips \/ Observe \/ CountKpm \/ LoggingRaises
    BY <2>3 DEF MonitorPart, MonitorTypes, RecordSeries, CallbackSkips, Observe, CountKpm,
       LoggingRaises, scrapeVars
  <2>4. CASE ScrapeBase \/ ScrapeState
    BY <2>4 DEF MonitorPart, MonitorTypes, ScrapeBase, ScrapeState
  <2> QED BY <2>1, <2>2, <2>3, <2>4 DEF Next
<1> QED BY <1>1, NextMonitorInv, WindowStep DEF MonitorPart

LEMMA ReportsInit_Inv == ReportsInit => ReportsInv
BY MonitorInit, LoopInitKeeps, ExportInitCounts, RecordInit, LoadInit
   DEF ReportsInit, ReportsInv, ExportPart

LEMMA ReportsRest ==
  /\ MonitorPart /\ UNCHANGED vars => MonitorPart'
  /\ ExportPart /\ UNCHANGED exportVars => ExportPart'
<1>1. MonitorPart /\ UNCHANGED vars => MonitorPart'
  BY MonitorNext
<1>2. ExportPart /\ UNCHANGED exportVars => ExportPart'
  <2> SUFFICES ASSUME ExportPart, UNCHANGED exportVars PROVE ExportPart'
    OBVIOUS
  <2>1. UNCHANGED <<series, recorded>>
    BY DEF exportVars
  <2> QED BY <2>1, ExportRests, RecordRests DEF ExportPart
<1> QED BY <1>1, <1>2

LEMMA ReportsStep == ReportsInv /\ [ReportsNext]_allVars => ReportsInv'
<1> SUFFICES ASSUME ReportsInv, [ReportsNext]_allVars PROVE ReportsInv'
  OBVIOUS
<1>1. MonitorPart /\ LoopP!LoopInv /\ ExportPart /\ LoadInv
  BY DEF ReportsInv
<1>2. CASE MonitorStep
  <2>1. Next /\ UNCHANGED loopVars /\ UNCHANGED exportVars /\ UNCHANGED loadVars
    BY <1>2 DEF MonitorStep
  <2> QED BY <1>1, <2>1, MonitorNext, LoopRests, ReportsRest, LoadRests DEF ReportsInv
<1>3. CASE LoopStep
  <2>1. Loop!Next /\ UNCHANGED vars /\ UNCHANGED exportVars /\ UNCHANGED loadVars
    BY <1>3 DEF LoopStep, LoopFrame
  <2> QED BY <1>1, <2>1, LoopStepKeeps, ReportsRest, LoadRests DEF ReportsInv
<1>4. CASE FormatsStep \/ HistoryStep
  <2>1. /\ ExportWorks \/ \E r : Arrives(r)
        /\ UNCHANGED vars /\ UNCHANGED loopVars /\ UNCHANGED loadVars
    BY <1>4 DEF FormatsStep, HistoryStep, ExportFrame, Arrives
  <2>2. ExportPart'
    BY <1>1, <2>1, ExportStep, RecordStep DEF ExportPart
  <2> QED BY <1>1, <2>1, <2>2, LoopRests, ReportsRest, LoadRests DEF ReportsInv
<1>5. CASE LoadStep
  <2>1. Load!Next /\ UNCHANGED vars /\ UNCHANGED loopVars /\ UNCHANGED exportVars
    BY <1>5 DEF LoadStep
  <2> QED BY <1>1, <2>1, LoadStepKeeps, LoopRests, ReportsRest DEF ReportsInv
<1>6. CASE UNCHANGED allVars
  <2>1. UNCHANGED vars /\ UNCHANGED loopVars /\ UNCHANGED exportVars /\ UNCHANGED loadVars
    BY <1>6 DEF allVars
  <2> QED BY <1>1, <2>1, LoopRests, ReportsRest, LoadRests DEF ReportsInv
<1> QED BY <1>2, <1>3, <1>4, <1>5, <1>6 DEF ReportsNext

(* What the four invariants promise, in the words of the run.              *)
LEMMA MonitorTyped == MonitorPart => TypeOK
<1> SUFFICES ASSUME MonitorPart PROVE TypeOK
  OBVIOUS
<1>1. CounterTypes /\ WindowInv /\ MonitorTypes
  BY DEF MonitorPart, MonitorInv
<1>2. {indications, updates, kpm, sampleCount, idleCount, transitions, scrapes} \subseteq Nat
  BY <1>1 DEF CounterTypes, MonitorTypes
<1>3. sampleSum \in Floats /\ drift \in Nat
  BY <1>1 DEF WindowInv
<1>4. {state, first} \subseteq States
  BY <1>1 DEF CounterTypes
<1> QED BY <1>1, <1>2, <1>3, <1>4 DEF TypeOK, CounterTypes, WindowInv, MonitorTypes

LEMMA LoadTyped == LoadInv => Load!TypeOK
<1> SUFFICES ASSUME LoadInv PROVE Load!TypeOK
  OBVIOUS
<1>1. LoadWindowInv /\ LoadCounts
  BY DEF LoadInv
<1>2. window \in Seq(Nat) /\ Len(window) <= LoadWindow
  <2>1. /\ window \in Seq(Int) /\ \A k \in 1..Len(window) : window[k] >= 0
        /\ Len(window) = IF loadSamples < LoadWindow THEN loadSamples ELSE LoadWindow
        /\ loadSamples \in Nat
    BY <1>1 DEF LoadWindowInv
  <2>2. \A k \in 1..Len(window) : window[k] \in Nat
    BY <2>1
  <2>3. window \in Seq(Nat)
    BY <2>1, <2>2, SeqOf
  <2> QED BY <2>1, <2>3, ReportsAssumption
<1>3. {loadIndications, loadTransitions, loadSamples, lines, unlogged} \subseteq Nat
  BY <1>1 DEF LoadCounts
<1>4. loadShown \in [state : {"idle", "active", "busy"}, transitions : Nat, samples : Nat]
  BY DEF LoadInv, PageInv, LoadClasses
<1> QED BY <1>1, <1>2, <1>3, <1>4 DEF Load!TypeOK, LoadCounts, LoadWindowInv, LoadClasses

LEMMA ExportTyped == CountsInv => Export!TypeOK
BY DEF CountsInv, Export!TypeOK

(* ReportsInv is the invariant of the report path: it names what each      *)
(* component keeps between the statements of _run and of a scrape.         *)
THEOREM ReportsInvHolds == ReportsSpec => []ReportsInv
BY ReportsInit_Inv, ReportsStep, PTL DEF ReportsSpec

(* The counters, windows and pages of the four components stay within      *)
(* their types and bounds.                                                 *)
THEOREM StateOKHolds == ReportsSpec => []StateOK
<1>1. ReportsInv => StateOK
  BY MonitorTyped, LoopPromises, ExportTyped, LoadTyped DEF ReportsInv, ExportPart, StateOK
<1> QED BY <1>1, ReportsInvHolds, PTL

(* _run frees every buffer that rmr_torcv_msg and rmr_rts_msg handed out   *)
(* and whose envelope it could read once, and loses none of them.          *)
THEOREM BufferDisciplineHolds == ReportsSpec => []BufferDiscipline
<1>1. ReportsInv => BufferDiscipline
  BY LoopPromises DEF ReportsInv, BufferDiscipline
<1> QED BY <1>1, ReportsInvHolds, PTL

(* A scrape shows no more dispatched indications than envelopes, and none  *)
(* without a subscription.                                                 *)
THEOREM ScrapeConsistentHolds == ReportsSpec => []ScrapeConsistent
<1>1. ReportsInv => ScrapeConsistent
  BY LoopPromises DEF ReportsInv, ScrapeConsistent
<1> QED BY <1>1, ReportsInvHolds, PTL

(* No page of /metrics runs ahead of its own total of envelopes.           *)
THEOREM PageIsConsistentHolds == ReportsSpec => []PageIsConsistent
<1>1. ReportsInv => PageIsConsistent
  BY DEF ReportsInv, ExportPart, CountsInv, PageIsConsistent
<1> QED BY <1>1, ReportsInvHolds, PTL

(* A series shows the last number of its metric and UE in the last stored  *)
(* report that has one, since when, and how many had one.                  *)
THEOREM SeriesIsLatestReadingHolds == ReportsSpec => []SeriesIsLatestReading
<1>1. ReportsInv => SeriesIsLatestReading
  BY DEF ReportsInv, ExportPart, RecordInv, SeriesIsLatestReading
<1> QED BY <1>1, ReportsInvHolds, PTL

(* A callback fails only on a report that does not answer the action       *)
(* definition, lacks its UEs, or holds what kpm_implemented cannot add up. *)
THEOREM FailureIsExcusedHolds == ReportsSpec => []FailureIsExcused
<1>1. ReportsInv => FailureIsExcused
  BY DEF ReportsInv, ExportPart, CallbackInv, Excused, FailureIsExcused, Export!FailureIsExcused
<1> QED BY <1>1, ReportsInvHolds, PTL

(* The transitions a scrape of the monitor shows fit its samples.          *)
THEOREM TransitionsNeedSamplesHolds == ReportsSpec => []TransitionsNeedSamples
<1>1. ReportsInv => TransitionsNeedSamples
  BY DEF ReportsInv, MonitorPart, MonitorInv
<1> QED BY <1>1, ReportsInvHolds, PTL

(* The two halves of a scrape are at most one sample apart.                *)
THEOREM ScrapeNotBehindHolds == ReportsSpec => []ScrapeNotBehind
<1>1. ReportsInv => ScrapeNotBehind
  BY DEF ReportsInv, MonitorPart, MonitorInv
<1> QED BY <1>1, ReportsInvHolds, PTL

(* The class of the load is one of a mean of the window: it lies between   *)
(* the extremes of the samples in it, for every window and thresholds.     *)
THEOREM StateWithinRecentSamplesHolds == ReportsSpec => []StateWithinRecentSamples
<1>1. ReportsInv => StateWithinRecentSamples
  BY RecentSamplesBound DEF ReportsInv, StateWithinRecentSamples
<1> QED BY <1>1, ReportsInvHolds, PTL

(* One sample of WindowSize * BusyThreshold keeps the load busy for as     *)
(* long as it is in the window.                                            *)
THEOREM SpikeKeepsBusyHolds == ReportsSpec => []SpikeKeepsBusy
<1>1. ReportsInv => SpikeKeepsBusy
  BY SpikeBounds DEF ReportsInv, SpikeKeepsBusy
<1> QED BY <1>1, ReportsInvHolds, PTL

(* Every change of class is logged, little else is, and a page shows a     *)
(* class and the changes that led to it.                                   *)
THEOREM ChangesLoggedHolds == ReportsSpec => []ChangesLogged
<1>1. ReportsInv => ChangesLogged
  BY LogsFollow DEF ReportsInv, ChangesLogged
<1> QED BY <1>1, ReportsInvHolds, PTL

(* The monitor with its running float sum implements the mean that is      *)
(* computed afresh from the window at every sample: exactly while the sums *)
(* of the windows are floats, and within what the operations have lost.    *)
THEOREM ImplementsMeanHolds == ReportsSpec => ImplementsMean
<1>1. ReportsInit => Mean!AvgInit
  BY DEF ReportsInit, Init, Mean!AvgInit
<1>2. ReportsInv /\ [ReportsNext]_allVars => [\E v \in Values : Mean!Sample(v)]_(Mean!avgVars)
  <2> SUFFICES ASSUME ReportsInv, [ReportsNext]_allVars
               PROVE  [\E v \in Values : Mean!Sample(v)]_(Mean!avgVars)
    OBVIOUS
  <2>1. [Next]_vars
    BY DEF ReportsNext, MonitorStep, LoopStep, LoopFrame, FormatsStep, HistoryStep, ExportFrame,
       LoadStep, allVars
  <2>2. WindowInv
    BY DEF ReportsInv, MonitorPart
  <2> QED BY <2>1, <2>2, StepImplementsMean
<1> QED BY <1>1, <1>2, ReportsInvHolds, PTL DEF ReportsSpec, ImplementsMean, Mean!AvgSpec
=============================================================================
