---------------------------- MODULE Metrics_proofs ----------------------------
(***************************************************************************)
(* Proofs about Metrics, for any finite number of callers and scrapers and *)
(* any number of jobs: the gauge tracks the jobs in progress, and no       *)
(* snapshot shows more jobs in between than there are callers.             *)
(***************************************************************************)
EXTENDS Metrics, FiniteSetTheorems, TLAPS

\* Stray calls that may still take a job off the gauge.
Taking == {c \in stray : at[c] \in {Loading, Swapping}}

\* Jobs that are started and neither succeeded nor failed yet.
Unfinished == {c \in Callers : at[c] \in {Starting, Working}}

\* Calls of JobFinished that have not counted their duration yet.
Untimed == {c \in Callers : at[c] \in {Loading, Swapping, Counting}}

StrayOK == \A c \in stray : at[c] \in {Loading, Swapping, Counting, Summing}

SwapOK == \A c \in Callers : at[c] = Swapping => current[c] > 0

GaugeOK ==
  /\ counters["active"] <= Cardinality(Holding)
  /\ Cardinality(Holding) + Cardinality(Taking) <= counters["active"] + strays

JobsOK ==
  /\ counters["started"] + strays =
       counters["succeeded"] + counters["failed"] + Cardinality(Unfinished)
  /\ counters["succeeded"] + counters["failed"] =
       counters["durationCount"] + Cardinality(Untimed)

CollectorInv == TypeOK /\ StrayOK /\ SwapOK /\ GaugeOK /\ JobsOK

\* A caller set is finite, and so is every part of it.
LEMMA PartsFinite ==
  ASSUME TypeOK
  PROVE  /\ \A S \in SUBSET Callers : IsFiniteSet(S) /\ Cardinality(S) \in Nat
         /\ \A S \in SUBSET Callers : Cardinality(S) <= Cardinality(Callers)
         /\ Holding \in SUBSET Callers /\ Taking \in SUBSET Callers
         /\ Unfinished \in SUBSET Callers /\ Untimed \in SUBSET Callers
         /\ \A S \in SUBSET Callers, c \in Callers :
              /\ c \notin S => Cardinality(S \cup {c}) = Cardinality(S) + 1
              /\ c \in S => Cardinality(S \ {c}) = Cardinality(S) - 1
<1>1. \A S \in SUBSET Callers :
        /\ IsFiniteSet(S) /\ Cardinality(S) \in Nat
        /\ Cardinality(S) <= Cardinality(Callers)
  BY FS_Subset, FS_CardinalityType, MetricsAssumption
<1>2. ASSUME NEW S \in SUBSET Callers, NEW c \in Callers
      PROVE  /\ c \notin S => Cardinality(S \cup {c}) = Cardinality(S) + 1
             /\ c \in S => Cardinality(S \ {c}) = Cardinality(S) - 1
  BY <1>1, FS_AddElement, FS_RemoveElement
<1>3. /\ Holding \in SUBSET Callers /\ Taking \in SUBSET Callers
      /\ Unfinished \in SUBSET Callers /\ Untimed \in SUBSET Callers
  BY DEF Holding, Taking, Unfinished, Untimed, TypeOK
<1> QED
  BY <1>1, <1>2, <1>3

LEMMA LoadOrderFacts ==
  /\ Len(LoadOrder) = 6
  /\ LoadOrder[1] = "started" /\ LoadOrder[2] = "succeeded" /\ LoadOrder[3] = "failed"
  /\ LoadOrder[4] = "active" /\ LoadOrder[5] = "durationCount"
  /\ LoadOrder[6] = "durationNanos"
  BY DEF LoadOrder

LEMMA LoadedIs ==
  ASSUME TypeOK
  PROVE  /\ \A f \in Fields : Loaded(f) \in Int /\ counters[f] \in Nat
         /\ \A f \in Fields \ {"durationNanos"} : Loaded(f) = counters[f]
BY MetricsAssumption DEF TypeOK, Loaded

\* Steps of scrapers do not touch the collector.
LEMMA ScrapeStep ==
  ASSUME CollectorInv, NEW s \in Scrapers, BeginSnapshot(s) \/ LoadCounter(s)
  PROVE  CollectorInv'
<1>1. TypeOK'
  <2> USE LoadOrderFacts DEF CollectorInv, TypeOK, strayVars
  <2>1. CASE BeginSnapshot(s)
    BY <2>1 DEF BeginSnapshot
  <2>2. CASE LoadCounter(s)
    <3>1. LoadOrder[next[s]] \in Fields
      BY <2>2 DEF LoadCounter, Fields
    <3>2. seen' = [seen EXCEPT ![s][LoadOrder[next[s]]] = Loaded(LoadOrder[next[s]])]
      BY <2>2 DEF LoadCounter
    <3>3. seen' \in [Scrapers -> [Fields -> Int]]
      BY <3>1, <3>2, LoadedIs
    <3>4. \A r \in Scrapers, f \in Fields \ {"durationNanos"} : seen'[r][f] \in Nat
      BY <3>1, <3>2, LoadedIs
    <3> QED
      BY <2>2, <3>3, <3>4 DEF LoadCounter
  <2> QED
    BY <2>1, <2>2
<1>2. UNCHANGED <<counters, at, current, stray, strays>>
  BY DEF BeginSnapshot, LoadCounter, strayVars
<1> QED
  BY <1>1, <1>2 DEF CollectorInv, StrayOK, SwapOK, GaugeOK, JobsOK, Holding, Taking,
     Unfinished, Untimed

\* A place, and a value, put in a well-typed function.
LEMMA Puts ==
  ASSUME NEW S, NEW T, NEW f \in [S -> T], NEW x \in S, NEW v \in T
  PROVE  [f EXCEPT ![x] = v] \in [S -> T]
OBVIOUS

Places == {Out, Starting, Working, Loading, Swapping, Counting, Summing}

\* Types.
LEMMA CallerTypes ==
  ASSUME CollectorInv, NEW c \in Callers, CallerStep(c)
  PROVE  TypeOK'
<1>1. /\ counters \in [Fields -> Nat] /\ at \in [Callers -> Places]
      /\ current \in [Callers -> Nat] /\ duration \in [Callers -> Int]
      /\ stray \subseteq Callers /\ strays \in Nat
      /\ at[c] = Swapping => current[c] - 1 \in Nat
  BY DEF CollectorInv, TypeOK, SwapOK, Places
<1>2. {"started", "succeeded", "failed", "active", "durationCount", "durationNanos"}
        \subseteq Fields
  BY DEF Fields
<1>3. {Out, Starting, Working, Loading, Swapping, Counting, Summing} \subseteq Places
  BY DEF Places
<1>4. UNCHANGED scrapeVars
  BY DEF CallerStep, AddStarted, AddActive, AddOutcome, AddStrayOutcome, LoadActive,
     SwapActive, Swap, RetryActive, AddDurationCount, AddDurationNanos
<1>5. counters' \in [Fields -> Nat]
  <2>1. ASSUME NEW field \in Fields, Increment(field)
        PROVE  counters' \in [Fields -> Nat]
    BY <1>1, <2>1, Puts DEF Increment
  <2>2. CASE AddDurationNanos(c)
    <3> DEFINE sum == (counters["durationNanos"] + Clipped(duration[c])) % Width
    <3>1. sum \in Nat
      <4>1. counters["durationNanos"] \in Nat /\ duration[c] \in Int
        BY <1>1, <1>2
      <4> QED
        BY <4>1, MetricsAssumption DEF Clipped
    <3>2. counters' = [counters EXCEPT !["durationNanos"] = sum]
      BY <2>2 DEF AddDurationNanos
    <3> HIDE DEF sum
    <3> QED
      BY <1>1, <1>2, <3>1, <3>2, Puts
  <2>3. CASE SwapActive(c)
    BY <1>1, <1>2, <2>3, Puts DEF SwapActive, Swap
  <2>4. CASE UNCHANGED counters
    BY <1>1, <2>4
  <2> QED
    BY <2>1, <2>2, <2>3, <2>4, <1>2 DEF CallerStep, AddStarted, AddActive, AddOutcome,
       AddStrayOutcome, LoadActive, RetryActive, AddDurationCount
<1>6. at' \in [Callers -> Places]
  <2>1. ASSUME NEW place \in Places, Goto(c, place)
        PROVE  at' \in [Callers -> Places]
    BY <1>1, <2>1, Puts DEF Goto
  <2> QED
    BY <2>1, <1>3 DEF CallerStep, AddStarted, AddActive, AddOutcome, AddStrayOutcome,
       LoadActive, SwapActive, Swap, RetryActive, AddDurationCount, AddDurationNanos
<1>7. current' \in [Callers -> Nat]
  <2>1. counters["active"] \in Nat
    BY <1>1, <1>2
  <2> QED
    BY <1>1, <2>1, Puts DEF CallerStep, AddStarted, AddActive, AddOutcome,
       AddStrayOutcome, LoadActive, SwapActive, Swap, RetryActive, AddDurationCount,
       AddDurationNanos
<1>8. duration' \in [Callers -> Int]
  BY <1>1, Puts, MetricsAssumption DEF CallerStep, AddStarted, AddActive, AddOutcome,
     AddStrayOutcome, LoadActive, SwapActive, Swap, RetryActive, AddDurationCount,
     AddDurationNanos
<1>9. stray' \subseteq Callers /\ strays' \in Nat
  BY <1>1 DEF CallerStep, AddStarted, AddActive, AddOutcome, AddStrayOutcome,
     LoadActive, SwapActive, Swap, RetryActive, AddDurationCount, AddDurationNanos,
     strayVars
<1> QED
  BY <1>4, <1>5, <1>6, <1>7, <1>8, <1>9 DEF TypeOK, CollectorInv, scrapeVars, Places

\* The two facts about single callers.
LEMMA CallerFacts ==
  ASSUME CollectorInv, NEW c \in Callers, CallerStep(c)
  PROVE  StrayOK' /\ SwapOK'
<1>1. /\ at \in [Callers -> Places] /\ current \in [Callers -> Nat]
      /\ stray \subseteq Callers /\ StrayOK /\ SwapOK
  BY DEF CollectorInv, TypeOK, Places
<1> USE DEF StrayOK, SwapOK, Goto, strayVars, Out, Starting, Working, Loading, Swapping,
        Counting, Summing
<1>2. CASE AddStarted(c)
  BY <1>1, <1>2 DEF AddStarted
<1>3. CASE AddActive(c)
  BY <1>1, <1>3 DEF AddActive
<1>4. ASSUME NEW field \in {"succeeded", "failed"}, NEW d \in Durations,
             AddOutcome(c, field, d) \/ AddStrayOutcome(c, field, d)
      PROVE  StrayOK' /\ SwapOK'
  BY <1>1, <1>4 DEF AddOutcome, AddStrayOutcome
<1>5. CASE LoadActive(c)
  <2>1. counters["active"] \in Nat
    BY DEF CollectorInv, TypeOK, Fields
  <2> QED
    BY <1>1, <1>5, <2>1 DEF LoadActive
<1>6. CASE SwapActive(c)
  BY <1>1, <1>6 DEF SwapActive, Swap
<1>7. CASE RetryActive(c)
  BY <1>1, <1>7 DEF RetryActive
<1>8. CASE AddDurationCount(c)
  BY <1>1, <1>8 DEF AddDurationCount
<1>9. CASE AddDurationNanos(c)
  BY <1>1, <1>9 DEF AddDurationNanos
<1> QED
  BY <1>2, <1>3, <1>4, <1>5, <1>6, <1>7, <1>8, <1>9 DEF CallerStep

\* What every step of a caller leaves alone, and where it takes the caller.
LEMMA OthersStay ==
  ASSUME CollectorInv, NEW c \in Callers, CallerStep(c)
  PROVE  /\ \A d \in Callers \ {c} : at'[d] = at[d] /\ (d \in stray' <=> d \in stray)
         /\ stray' \subseteq Callers /\ stray \subseteq Callers
<1> USE DEF CollectorInv, TypeOK, Goto, strayVars
<1> QED
  BY DEF CallerStep, AddStarted, AddActive, AddOutcome, AddStrayOutcome, LoadActive,
     SwapActive, Swap, RetryActive, AddDurationCount, AddDurationNanos

\* How a set of callers changes when one caller moves.
LEMMA OneMoves ==
  ASSUME NEW S, NEW T, NEW c,
         \A d : d # c => (d \in S <=> d \in T)
  PROVE  /\ (c \in S <=> c \in T) => T = S
         /\ c \notin S /\ c \in T => T = S \cup {c}
         /\ c \in S /\ c \notin T => T = S \ {c}
OBVIOUS

\* The gauge, the jobs on it, and the stray calls after it move together.
LEMMA GaugeStep ==
  ASSUME CollectorInv, NEW c \in Callers, CallerStep(c)
  PROVE  GaugeOK'
<1> USE DEF Out, Starting, Working, Loading, Swapping, Counting, Summing
<1>1. TypeOK /\ TypeOK' /\ StrayOK /\ StrayOK' /\ SwapOK /\ GaugeOK
  BY CallerTypes, CallerFacts DEF CollectorInv
<1>2. /\ \A d \in Callers \ {c} : at'[d] = at[d] /\ (d \in stray' <=> d \in stray)
      /\ stray' \subseteq Callers /\ stray \subseteq Callers
  BY OthersStay
<1>3. /\ Cardinality(Holding) \in Nat /\ Cardinality(Taking) \in Nat
      /\ c \notin Holding => Cardinality(Holding \cup {c}) = Cardinality(Holding) + 1
      /\ c \in Holding => Cardinality(Holding \ {c}) = Cardinality(Holding) - 1
      /\ c \notin Taking => Cardinality(Taking \cup {c}) = Cardinality(Taking) + 1
      /\ c \in Taking => Cardinality(Taking \ {c}) = Cardinality(Taking) - 1
  BY <1>1, PartsFinite
<1>4. /\ (c \in Holding <=> c \in Holding') => Holding' = Holding
      /\ c \notin Holding /\ c \in Holding' => Holding' = Holding \cup {c}
      /\ c \in Holding /\ c \notin Holding' => Holding' = Holding \ {c}
  <2> \A d : d # c => (d \in Holding <=> d \in Holding')
    BY <1>2 DEF Holding
  <2> QED
    BY OneMoves
<1>5. /\ (c \in Taking <=> c \in Taking') => Taking' = Taking
      /\ c \notin Taking /\ c \in Taking' => Taking' = Taking \cup {c}
      /\ c \in Taking /\ c \notin Taking' => Taking' = Taking \ {c}
  <2> \A d : d # c => (d \in Taking <=> d \in Taking')
    BY <1>2 DEF Taking
  <2> QED
    BY OneMoves
<1>6. /\ c \in Holding <=> c \notin stray /\ at[c] \in {Working, Loading, Swapping}
      /\ c \in Holding' <=> c \notin stray' /\ at'[c] \in {Working, Loading, Swapping}
      /\ c \in Taking <=> c \in stray /\ at[c] \in {Loading, Swapping}
      /\ c \in Taking' <=> c \in stray' /\ at'[c] \in {Loading, Swapping}
  BY DEF Holding, Taking
<1>7. /\ counters["active"] \in Nat /\ counters'["active"] \in Nat
      /\ strays \in Nat /\ strays' \in Nat
      /\ c \in stray => at[c] \in {Loading, Swapping, Counting, Summing}
      /\ at[c] = Swapping => current[c] > 0
  BY <1>1 DEF TypeOK, StrayOK, SwapOK, Fields
<1>8. /\ counters["active"] <= Cardinality(Holding)
      /\ Cardinality(Holding) + Cardinality(Taking) <= counters["active"] + strays
  BY <1>1 DEF GaugeOK
<1>9. /\ DOMAIN at = Callers /\ DOMAIN counters = Fields
  BY <1>1 DEF TypeOK
<1> SUFFICES
      /\ counters'["active"] <= Cardinality(Holding')
      /\ Cardinality(Holding') + Cardinality(Taking') <= counters'["active"] + strays'
  BY DEF GaugeOK
<1> USE DEF Goto, Increment, Fields, strayVars
\* Nothing moves on the gauge.
<1>a. ASSUME /\ counters'["active"] = counters["active"] /\ strays' = strays
             /\ c \in Holding <=> c \in Holding'
             /\ c \in Taking <=> c \in Taking'
      PROVE  /\ counters'["active"] <= Cardinality(Holding')
             /\ Cardinality(Holding') + Cardinality(Taking') <= counters'["active"] + strays'
  BY <1>a, <1>4, <1>5, <1>8
<1>10. CASE AddStarted(c)
  BY <1>10, <1>a, <1>6, <1>7, <1>9 DEF AddStarted
<1>11. CASE AddActive(c)
  <2>1. /\ c \notin Holding /\ c \in Holding' /\ c \notin Taking /\ c \notin Taking'
        /\ counters'["active"] = counters["active"] + 1 /\ strays' = strays
    BY <1>11, <1>6, <1>7, <1>9 DEF AddActive
  <2>2. Cardinality(Holding') = Cardinality(Holding) + 1 /\ Taking' = Taking
    BY <2>1, <1>3, <1>4, <1>5
  <2> QED
    BY <2>1, <2>2, <1>3, <1>7, <1>8
<1>12. ASSUME NEW field \in {"succeeded", "failed"}, NEW d \in Durations,
              AddOutcome(c, field, d)
       PROVE  /\ counters'["active"] <= Cardinality(Holding')
              /\ Cardinality(Holding') + Cardinality(Taking') <= counters'["active"] + strays'
  BY <1>12, <1>a, <1>6, <1>7, <1>9 DEF AddOutcome
<1>13. ASSUME NEW field \in {"succeeded", "failed"}, NEW d \in Durations,
              AddStrayOutcome(c, field, d)
       PROVE  /\ counters'["active"] <= Cardinality(Holding')
              /\ Cardinality(Holding') + Cardinality(Taking') <= counters'["active"] + strays'
  <2>1. /\ c \notin Holding /\ c \notin Holding' /\ c \notin Taking /\ c \in Taking'
        /\ counters'["active"] = counters["active"] /\ strays' = strays + 1
    BY <1>13, <1>6, <1>7, <1>9 DEF AddStrayOutcome
  <2>2. Cardinality(Taking') = Cardinality(Taking) + 1 /\ Holding' = Holding
    BY <2>1, <1>3, <1>4, <1>5
  <2> QED
    BY <2>1, <2>2, <1>3, <1>7, <1>8
\* The gauge stays, or is decremented, when the caller leaves decrementActive.
<1>b. ASSUME /\ at[c] \in {Loading, Swapping} /\ at'[c] = Counting
             /\ stray' = stray /\ strays' = strays
             /\ \/ counters'["active"] = counters["active"] - 1
                \/ counters'["active"] = counters["active"] /\ counters["active"] = 0
      PROVE  /\ counters'["active"] <= Cardinality(Holding')
             /\ Cardinality(Holding') + Cardinality(Taking') <= counters'["active"] + strays'
  <2>1. c \notin Holding' /\ c \notin Taking'
    BY <1>b, <1>6
  <2>2. /\ c \in Holding \/ c \in Taking
        /\ ~ (c \in Holding /\ c \in Taking)
    BY <1>b, <1>6
  <2>3. CASE c \in Holding
    <3>1. Cardinality(Holding') = Cardinality(Holding) - 1 /\ Taking' = Taking
      BY <2>1, <2>2, <2>3, <1>3, <1>4, <1>5
    <3>2. Cardinality(Holding') \in Nat
      BY <1>1, PartsFinite, <1>4, <1>3
    <3> QED
      BY <1>b, <3>1, <3>2, <1>3, <1>7, <1>8
  <2>4. CASE c \in Taking
    <3>1. Cardinality(Taking') = Cardinality(Taking) - 1 /\ Holding' = Holding
      BY <2>1, <2>2, <2>4, <1>3, <1>4, <1>5
    <3> QED
      BY <1>b, <3>1, <1>3, <1>7, <1>8
  <2> QED
    BY <2>2, <2>3, <2>4
<1>14. CASE LoadActive(c)
  <2>1. CASE counters["active"] <= 0
    BY <1>14, <1>b, <2>1, <1>7, <1>9 DEF LoadActive
  <2>2. CASE ~ (counters["active"] <= 0)
    BY <1>14, <1>a, <2>2, <1>6, <1>7, <1>9 DEF LoadActive
  <2> QED
    BY <2>1, <2>2
<1>15. CASE SwapActive(c)
  BY <1>15, <1>b, <1>7, <1>9 DEF SwapActive, Swap
<1>16. CASE RetryActive(c)
  BY <1>16, <1>a, <1>6, <1>7, <1>9 DEF RetryActive
<1>17. CASE AddDurationCount(c)
  BY <1>17, <1>a, <1>6, <1>7, <1>9 DEF AddDurationCount
<1>18. CASE AddDurationNanos(c)
  BY <1>18, <1>a, <1>6, <1>7, <1>9 DEF AddDurationNanos
<1> QED
  BY <1>10, <1>11, <1>12, <1>13, <1>14, <1>15, <1>16, <1>17, <1>18 DEF CallerStep

\* Jobs and durations are counted, all but the ones in between.
LEMMA JobsStep ==
  ASSUME CollectorInv, NEW c \in Callers, CallerStep(c)
  PROVE  JobsOK'
<1>1. TypeOK /\ TypeOK' /\ JobsOK
  BY CallerTypes DEF CollectorInv
<1>2. \A d \in Callers \ {c} : at'[d] = at[d]
  BY OthersStay
<1>3. /\ Cardinality(Unfinished) \in Nat /\ Cardinality(Untimed) \in Nat
      /\ c \notin Unfinished => Cardinality(Unfinished \cup {c}) = Cardinality(Unfinished) + 1
      /\ c \in Unfinished => Cardinality(Unfinished \ {c}) = Cardinality(Unfinished) - 1
      /\ c \notin Untimed => Cardinality(Untimed \cup {c}) = Cardinality(Untimed) + 1
      /\ c \in Untimed => Cardinality(Untimed \ {c}) = Cardinality(Untimed) - 1
  BY <1>1, PartsFinite
<1>4. /\ c \in Unfinished <=> at[c] \in {Starting, Working}
      /\ c \in Unfinished' <=> at'[c] \in {Starting, Working}
      /\ c \in Untimed <=> at[c] \in {Loading, Swapping, Counting}
      /\ c \in Untimed' <=> at'[c] \in {Loading, Swapping, Counting}
  BY DEF Unfinished, Untimed
<1>5. /\ (c \in Unfinished <=> c \in Unfinished') => Unfinished' = Unfinished
      /\ c \notin Unfinished /\ c \in Unfinished' => Unfinished' = Unfinished \cup {c}
      /\ c \in Unfinished /\ c \notin Unfinished' => Unfinished' = Unfinished \ {c}
  <2> \A d : d # c => (d \in Unfinished <=> d \in Unfinished')
    BY <1>2 DEF Unfinished
  <2> QED
    BY OneMoves
<1>6. /\ (c \in Untimed <=> c \in Untimed') => Untimed' = Untimed
      /\ c \notin Untimed /\ c \in Untimed' => Untimed' = Untimed \cup {c}
      /\ c \in Untimed /\ c \notin Untimed' => Untimed' = Untimed \ {c}
  <2> \A d : d # c => (d \in Untimed <=> d \in Untimed')
    BY <1>2 DEF Untimed
  <2> QED
    BY OneMoves
<1> DEFINE jobs == counters["started"] + strays
           done == counters["succeeded"] + counters["failed"]
           timed == counters["durationCount"]
<1>7. /\ DOMAIN at = Callers /\ DOMAIN counters = Fields
      /\ jobs \in Nat /\ jobs' \in Nat /\ done \in Nat /\ done' \in Nat
      /\ timed \in Nat /\ timed' \in Nat
      /\ counters["started"] \in Nat /\ strays \in Nat
      /\ counters["succeeded"] \in Nat /\ counters["failed"] \in Nat
  <2>1. strays \in Nat /\ strays' \in Nat
    BY <1>1 DEF TypeOK
  <2>2. counters \in [Fields -> Nat] /\ counters' \in [Fields -> Nat] /\ DOMAIN at = Callers
    BY <1>1 DEF TypeOK
  <2>3. \A f \in Fields : counters[f] \in Nat /\ counters'[f] \in Nat
    BY <2>2
  <2> QED
    BY <2>1, <2>2, <2>3 DEF Fields
<1>8. jobs = done + Cardinality(Unfinished) /\ done = timed + Cardinality(Untimed)
  BY <1>1 DEF JobsOK
<1>9. SUFFICES /\ jobs' = done' + Cardinality(Unfinished')
               /\ done' = timed' + Cardinality(Untimed')
  BY DEF JobsOK
<1> USE DEF Goto, Increment, Fields, Out, Starting, Working, Loading, Swapping, Counting,
        Summing
\* No count changes, and the caller stays in each of the two sets or outside.
<1>a. ASSUME /\ jobs' = jobs /\ done' = done /\ timed' = timed
             /\ c \in Unfinished <=> c \in Unfinished'
             /\ c \in Untimed <=> c \in Untimed'
      PROVE  /\ jobs' = done' + Cardinality(Unfinished')
             /\ done' = timed' + Cardinality(Untimed')
  <2>1. Unfinished' = Unfinished /\ Untimed' = Untimed
    BY <1>a, <1>5, <1>6
  <2> QED
    BY <1>a, <2>1, <1>8
<1>10. CASE AddStarted(c)
  <2>1. /\ jobs' = jobs + 1 /\ done' = done /\ timed' = timed
        /\ c \notin Unfinished /\ c \in Unfinished' /\ c \notin Untimed /\ c \notin Untimed'
    BY <1>10, <1>4, <1>7 DEF AddStarted, strayVars
  <2>2. Cardinality(Unfinished') = Cardinality(Unfinished) + 1 /\ Untimed' = Untimed
    BY <2>1, <1>3, <1>5, <1>6
  <2> HIDE DEF jobs, done, timed
  <2> QED
    BY <2>1, <2>2, <1>3, <1>7, <1>8
<1>11. CASE AddActive(c)
  BY <1>11, <1>a, <1>4, <1>7 DEF AddActive, strayVars
<1>12. ASSUME NEW field \in {"succeeded", "failed"}, NEW d \in Durations,
              AddOutcome(c, field, d)
       PROVE  /\ jobs' = done' + Cardinality(Unfinished')
              /\ done' = timed' + Cardinality(Untimed')
  <2>1. /\ jobs' = jobs /\ done' = done + 1 /\ timed' = timed
        /\ c \in Unfinished /\ c \notin Unfinished' /\ c \notin Untimed /\ c \in Untimed'
    BY <1>12, <1>4, <1>7 DEF AddOutcome, strayVars
  <2>2. /\ Cardinality(Untimed') = Cardinality(Untimed) + 1
        /\ Cardinality(Unfinished') = Cardinality(Unfinished) - 1
    BY <2>1, <1>3, <1>5, <1>6
  <2> HIDE DEF jobs, done, timed
  <2> QED
    BY <2>1, <2>2, <1>3, <1>7, <1>8
<1>13. ASSUME NEW field \in {"succeeded", "failed"}, NEW d \in Durations,
              AddStrayOutcome(c, field, d)
       PROVE  /\ jobs' = done' + Cardinality(Unfinished')
              /\ done' = timed' + Cardinality(Untimed')
  <2>1. /\ jobs' = jobs + 1 /\ done' = done + 1 /\ timed' = timed
        /\ c \notin Unfinished /\ c \notin Unfinished' /\ c \notin Untimed /\ c \in Untimed'
    BY <1>13, <1>4, <1>7 DEF AddStrayOutcome
  <2>2. Cardinality(Untimed') = Cardinality(Untimed) + 1 /\ Unfinished' = Unfinished
    BY <2>1, <1>3, <1>5, <1>6
  <2> HIDE DEF jobs, done, timed
  <2> QED
    BY <2>1, <2>2, <1>3, <1>7, <1>8
<1>14. CASE LoadActive(c)
  BY <1>14, <1>a, <1>4, <1>7 DEF LoadActive, strayVars
<1>15. CASE SwapActive(c)
  BY <1>15, <1>a, <1>4, <1>7 DEF SwapActive, Swap, strayVars
<1>16. CASE RetryActive(c)
  BY <1>16, <1>a, <1>4, <1>7 DEF RetryActive, strayVars
<1>17. CASE AddDurationCount(c)
  <2>1. /\ jobs' = jobs /\ done' = done /\ timed' = timed + 1
        /\ c \notin Unfinished /\ c \notin Unfinished' /\ c \in Untimed /\ c \notin Untimed'
    BY <1>17, <1>4, <1>7 DEF AddDurationCount, strayVars
  <2>2. Cardinality(Untimed') = Cardinality(Untimed) - 1 /\ Unfinished' = Unfinished
    BY <2>1, <1>3, <1>5, <1>6
  <2> HIDE DEF jobs, done, timed
  <2> QED
    BY <2>1, <2>2, <1>3, <1>7, <1>8
<1>18. CASE AddDurationNanos(c)
  BY <1>18, <1>a, <1>4, <1>7 DEF AddDurationNanos, strayVars
<1> QED
  BY <1>10, <1>11, <1>12, <1>13, <1>14, <1>15, <1>16, <1>17, <1>18 DEF CallerStep

LEMMA CollectorInit == Init => CollectorInv
<1> SUFFICES ASSUME Init PROVE CollectorInv
  OBVIOUS
<1>1. Holding = {} /\ Taking = {} /\ Unfinished = {} /\ Untimed = {}
  BY DEF Init, Holding, Taking, Unfinished, Untimed, Out, Starting, Working, Loading,
     Swapping, Counting
<1>2. TypeOK
  BY LoadOrderFacts DEF Init, TypeOK, Zeros
<1>3. StrayOK /\ SwapOK
  BY DEF Init, StrayOK, SwapOK, Out, Swapping
<1>4. GaugeOK /\ JobsOK
  BY <1>1, FS_EmptySet DEF Init, GaugeOK, JobsOK, Zeros, Fields
<1> QED
  BY <1>2, <1>3, <1>4 DEF CollectorInv

LEMMA CollectorStep == CollectorInv /\ [Next]_vars => CollectorInv'
<1> SUFFICES ASSUME CollectorInv, [Next]_vars PROVE CollectorInv'
  OBVIOUS
<1>1. ASSUME NEW c \in Callers, CallerStep(c)
      PROVE  CollectorInv'
  BY <1>1, CallerTypes, CallerFacts, GaugeStep, JobsStep DEF CollectorInv
<1>2. ASSUME NEW s \in Scrapers, BeginSnapshot(s) \/ LoadCounter(s)
      PROVE  CollectorInv'
  BY <1>2, ScrapeStep
<1>3. CASE UNCHANGED vars
  BY <1>3 DEF vars, scrapeVars, strayVars, CollectorInv, TypeOK, StrayOK, SwapOK, GaugeOK,
     JobsOK, Holding, Taking, Unfinished, Untimed
<1> QED
  BY <1>1, <1>2, <1>3 DEF Next

\* The collector's inductive invariant holds.
THEOREM CollectorCorrect == Spec => []CollectorInv
  BY CollectorInit, CollectorStep, PTL DEF Spec

\* The collector's types, of which one is a fact about interleavings: no order
\* of loads and swaps takes the gauge below zero, whatever calls are unbalanced.
THEOREM GaugeNeverNegative == Spec => []TypeOK
<1>1. CollectorInv => TypeOK
  BY DEF CollectorInv
<1> QED
  BY <1>1, CollectorCorrect, PTL

\* The gauge tracks the jobs, for any number of callers: what decrementActive's
\* compare-and-swap is for.
THEOREM GaugeIsExact == Spec => []GaugeTracks
<1>1. CollectorInv => GaugeTracks
  <2> SUFFICES ASSUME CollectorInv PROVE GaugeTracks
    OBVIOUS
  <2>1. /\ Cardinality(Holding) \in Nat /\ Cardinality(Taking) \in Nat
        /\ counters["active"] \in Nat /\ strays \in Nat
    BY PartsFinite DEF CollectorInv, TypeOK, Fields
  <2> QED
    BY <2>1 DEF CollectorInv, GaugeOK, GaugeTracks
<1> QED
  BY <1>1, CollectorCorrect, PTL

-----------------------------------------------------------------------------
(***************************************************************************)
(* What a snapshot that is being taken knows: a counter it has loaded is   *)
(* not above its present value, and what it has loaded so far will fit     *)
(* together with whatever it loads next.                                   *)
(***************************************************************************)
Counts == {"started", "succeeded", "failed", "durationCount"}

N == Cardinality(Callers)

\* The value the snapshot has or would load now: before its load at place k.
View(s, field, k) == IF next[s] > k THEN seen[s][field] ELSE counters[field]

SnapshotOK(s) ==
  /\ \A f \in Counts : seen[s][f] <= counters[f]
  /\ View(s, "started", 1) <= View(s, "succeeded", 2) + View(s, "failed", 3) + N
  /\ View(s, "succeeded", 2) + View(s, "failed", 3) <= View(s, "durationCount", 5) + N

ScrapeInv == \A s \in Scrapers : SnapshotOK(s)

\* Whatever the collector does, its counts only grow.
LEMMA CountsGrow ==
  ASSUME CollectorInv, [Next]_vars
  PROVE  /\ \A f \in Counts : counters[f] \in Nat /\ counters'[f] \in Nat
         /\ \A f \in Counts : counters[f] <= counters'[f]
<1>1. /\ counters \in [Fields -> Nat] /\ counters' \in [Fields -> Nat]
  BY CollectorStep DEF CollectorInv, TypeOK
<1>2. \A f \in Counts : counters[f] \in Nat /\ counters'[f] \in Nat
  BY <1>1 DEF Counts, Fields
<1>3. ASSUME NEW field \in Fields, Increment(field)
      PROVE  \A f \in Counts : counters[f] <= counters'[f]
  BY <1>1, <1>2, <1>3 DEF Increment, Fields, Counts
<1>4. CASE counters' = counters
  BY <1>2, <1>4
<1>5. ASSUME NEW n, NEW f \in {"active", "durationNanos"},
             counters' = [counters EXCEPT ![f] = n]
      PROVE  \A g \in Counts : counters[g] <= counters'[g]
  BY <1>1, <1>2, <1>5 DEF Counts, Fields
<1>6. ASSUME NEW c \in Callers, CallerStep(c)
      PROVE  \A f \in Counts : counters[f] <= counters'[f]
  BY <1>6, <1>3, <1>4, <1>5 DEF CallerStep, AddStarted, AddActive, AddOutcome,
     AddStrayOutcome, LoadActive, SwapActive, Swap, RetryActive, AddDurationCount,
     AddDurationNanos, Fields
<1> QED
  BY <1>2, <1>4, <1>6 DEF Next, BeginSnapshot, LoadCounter, vars

\* JobsOK, without the callers in between.
JobsWithin ==
  /\ N \in Nat
  /\ counters["started"] <= counters["succeeded"] + counters["failed"] + N
  /\ counters["succeeded"] + counters["failed"] <= counters["durationCount"] + N

LEMMA JobsWithinN == CollectorInv => JobsWithin
<1> SUFFICES ASSUME CollectorInv PROVE JobsWithin
  OBVIOUS
<1>1. /\ Cardinality(Unfinished) \in Nat /\ Cardinality(Unfinished) <= N
      /\ Cardinality(Untimed) \in Nat /\ Cardinality(Untimed) <= N /\ N \in Nat
  BY PartsFinite, FS_CardinalityType, MetricsAssumption DEF CollectorInv, N
<1>2. \A f \in Counts : counters[f] \in Nat
  BY DEF CollectorInv, TypeOK, Counts, Fields
<1>3. /\ counters["started"] \in Nat /\ counters["succeeded"] \in Nat
      /\ counters["failed"] \in Nat /\ counters["durationCount"] \in Nat
  BY <1>2 DEF Counts
<1>4. JobsOK /\ strays \in Nat
  BY DEF CollectorInv, TypeOK
<1> QED
  BY <1>1, <1>3, <1>4 DEF JobsOK, JobsWithin

\* A step of the collector, seen from a snapshot under way.
LEMMA ScrapeWaits ==
  ASSUME CollectorInv, [Next]_vars, JobsWithin', NEW s \in Scrapers, SnapshotOK(s),
         next'[s] = next[s], seen'[s] = seen[s]
  PROVE  SnapshotOK(s)'
<1>1. next[s] \in 1 .. 7 /\ \A f \in Counts : seen[s][f] \in Nat
  BY LoadOrderFacts DEF CollectorInv, TypeOK, Counts, Fields
<1>2. /\ \A f \in Counts : counters[f] \in Nat /\ counters'[f] \in Nat
      /\ \A f \in Counts : counters[f] <= counters'[f]
  BY CountsGrow
<1>3. \A f \in Counts : seen[s][f] <= counters[f] /\ seen'[s][f] <= counters'[f]
  BY <1>1, <1>2 DEF SnapshotOK
<1>4. {"started", "succeeded", "failed", "durationCount"} = Counts
  BY DEF Counts
<1>5. CASE next[s] = 1
  BY <1>1, <1>2, <1>3, <1>4, <1>5 DEF SnapshotOK, View, JobsWithin
<1>6. CASE next[s] = 2
  BY <1>1, <1>2, <1>3, <1>4, <1>6 DEF SnapshotOK, View, JobsWithin
<1>7. CASE next[s] = 3
  BY <1>1, <1>2, <1>3, <1>4, <1>7 DEF SnapshotOK, View, JobsWithin
<1>8. CASE next[s] > 3
  BY <1>1, <1>2, <1>3, <1>4, <1>8 DEF SnapshotOK, View, JobsWithin
<1> QED
  BY <1>1, <1>5, <1>6, <1>7, <1>8

\* A load, or the beginning of the next snapshot.
LEMMA ScrapeLoads ==
  ASSUME CollectorInv, JobsWithin, NEW s \in Scrapers, SnapshotOK(s),
         BeginSnapshot(s) \/ LoadCounter(s)
  PROVE  SnapshotOK(s)'
<1>1. /\ next \in [Scrapers -> 1 .. 7] /\ seen \in [Scrapers -> [Fields -> Int]]
      /\ counters \in [Fields -> Nat] /\ counters' = counters
      /\ \A f \in Counts : seen[s][f] \in Nat /\ counters[f] \in Nat
  BY LoadOrderFacts DEF CollectorInv, TypeOK, Counts, Fields, BeginSnapshot, LoadCounter
<1>2. {"started", "succeeded", "failed", "durationCount"} = Counts
  BY DEF Counts
<1>3. CASE BeginSnapshot(s)
  <2>1. next'[s] = 1 /\ seen' = seen
    BY <1>1, <1>3 DEF BeginSnapshot
  <2> QED
    BY <1>1, <1>2, <2>1 DEF SnapshotOK, View, JobsWithin
<1>4. CASE LoadCounter(s)
  <2> DEFINE loaded == LoadOrder[next[s]]
  <2>1. /\ next[s] \in 1 .. 6 /\ next'[s] = next[s] + 1
        /\ loaded \in Fields
    BY <1>1, <1>4, LoadOrderFacts DEF LoadCounter, Fields
  <2>2. /\ loaded # "durationNanos" => seen'[s][loaded] = counters[loaded]
        /\ \A f \in Fields \ {loaded} : seen'[s][f] = seen[s][f]
    <3>1. loaded # "durationNanos" => Loaded(loaded) = counters[loaded]
      BY <2>1, LoadedIs DEF CollectorInv
    <3> QED
      BY <1>1, <1>4, <2>1, <3>1 DEF LoadCounter
  <2>3. \A f \in Counts : seen'[s][f] <= counters'[f]
    BY <1>1, <2>2 DEF SnapshotOK, Counts, Fields
  <2>4. /\ View(s, "started", 1)' = View(s, "started", 1)
        /\ View(s, "succeeded", 2)' = View(s, "succeeded", 2)
        /\ View(s, "failed", 3)' = View(s, "failed", 3)
        /\ View(s, "durationCount", 5)' = View(s, "durationCount", 5)
    <3>1. \A k \in {1, 2, 3, 5} : LoadOrder[k] \in Fields =>
            View(s, LoadOrder[k], k)' = View(s, LoadOrder[k], k)
      BY <1>1, <2>1, <2>2, LoadOrderFacts DEF View
    <3> QED
      BY <3>1, LoadOrderFacts DEF Fields
  <2> QED
    BY <2>3, <2>4 DEF SnapshotOK
<1> QED
  BY <1>3, <1>4

LEMMA ScrapeInit == Init => ScrapeInv
<1> SUFFICES ASSUME Init, NEW s \in Scrapers PROVE SnapshotOK(s)
  BY DEF ScrapeInv
<1>1. /\ next[s] = 7 /\ \A f \in Counts : seen[s][f] = 0 /\ counters[f] = 0
  BY LoadOrderFacts DEF Init, Zeros, Counts, Fields
<1>2. N \in Nat
  BY FS_CardinalityType, MetricsAssumption DEF N
<1> QED
  BY <1>1, <1>2 DEF SnapshotOK, View, Counts

LEMMA ScrapeNext ==
  CollectorInv /\ JobsWithin /\ JobsWithin' /\ ScrapeInv /\ [Next]_vars => ScrapeInv'
<1> SUFFICES ASSUME CollectorInv, JobsWithin, JobsWithin', ScrapeInv, [Next]_vars,
                    NEW s \in Scrapers
             PROVE  SnapshotOK(s)'
  BY DEF ScrapeInv
<1>1. SnapshotOK(s)
  BY DEF ScrapeInv
<1>2. next \in [Scrapers -> 1 .. 7] /\ seen \in [Scrapers -> [Fields -> Int]]
  BY LoadOrderFacts DEF CollectorInv, TypeOK
<1>3. ASSUME NEW r \in Scrapers, BeginSnapshot(r) \/ LoadCounter(r)
      PROVE  SnapshotOK(s)'
  <2>1. CASE r = s
    BY <1>1, <1>3, <2>1, ScrapeLoads
  <2>2. CASE r # s
    <3>1. next'[s] = next[s] /\ seen'[s] = seen[s]
      BY <1>2, <1>3, <2>2 DEF BeginSnapshot, LoadCounter
    <3> QED
      BY <1>1, <3>1, ScrapeWaits
  <2> QED
    BY <2>1, <2>2
<1>4. ASSUME NEW c \in Callers, CallerStep(c)
      PROVE  SnapshotOK(s)'
  <2>1. next' = next /\ seen' = seen
    BY <1>4 DEF CallerStep, AddStarted, AddActive, AddOutcome, AddStrayOutcome, LoadActive,
       SwapActive, Swap, RetryActive, AddDurationCount, AddDurationNanos, scrapeVars
  <2> QED
    BY <1>1, <2>1, ScrapeWaits
<1>5. CASE UNCHANGED vars
  <2>1. next' = next /\ seen' = seen
    BY <1>5 DEF vars, scrapeVars
  <2> QED
    BY <1>1, <2>1, ScrapeWaits
<1> QED
  BY <1>3, <1>4, <1>5 DEF Next

\* No snapshot shows phantom jobs, for any number of callers and scrapers, and
\* any number of jobs that start and finish while it is taken.
THEOREM ScrapesShowNoPhantoms == Spec => []NoPhantomJobs
<1>1. ScrapeInv /\ CollectorInv => NoPhantomJobs
  <2> SUFFICES ASSUME ScrapeInv, CollectorInv, NEW s \in Scrapers, next[s] > 6
               PROVE  LET finished == seen[s]["succeeded"] + seen[s]["failed"] IN
                      /\ seen[s]["started"] - finished <= N
                      /\ finished - seen[s]["durationCount"] <= N
    BY LoadOrderFacts DEF NoPhantomJobs, N
  <2>1. SnapshotOK(s) /\ next[s] \in Int
    BY LoadOrderFacts DEF ScrapeInv, CollectorInv, TypeOK
  <2>2. /\ seen[s]["started"] \in Nat /\ seen[s]["succeeded"] \in Nat
        /\ seen[s]["failed"] \in Nat /\ seen[s]["durationCount"] \in Nat
    BY DEF CollectorInv, TypeOK, Fields
  <2>3. N \in Nat
    BY FS_CardinalityType, MetricsAssumption DEF N
  <2> QED
    BY <2>1, <2>2, <2>3 DEF SnapshotOK, View
<1>2. Spec => []ScrapeInv
  BY ScrapeInit, ScrapeNext, CollectorInit, CollectorStep, JobsWithinN, PTL DEF Spec
<1> QED
  BY <1>1, <1>2, CollectorCorrect, PTL
-----------------------------------------------------------------------------
(***************************************************************************)
(* Growth from scrape to scrape.  The counts only grow anyway; the sum of  *)
(* durations does as long as it stays below the sign bit, which takes a    *)
(* bound on the jobs and on how long one takes: each job adds to the sum   *)
(* once, after it was counted.                                             *)
(***************************************************************************)

\* Calls of JobFinished that have counted their duration but not added it.
Unsummed == {c \in Callers : at[c] = Summing}

\* The sum is that of the jobs counted, but for those still to be added.
SumOK(longest) ==
  /\ counters["started"] + strays <= MaxJobs
  /\ \A c \in Callers : duration[c] <= longest
  /\ counters["durationNanos"] + longest * Cardinality(Unsummed)
       <= longest * counters["durationCount"]

\* No job takes longer than this, and so many jobs do not fill 63 bits.
NoOverflow(longest) ==
  /\ longest \in Nat /\ \A d \in Durations : d <= longest
  /\ 2 * (longest * MaxJobs) < Width

LEMMA Times ==
  ASSUME NEW a \in Nat, NEW b \in Nat, NEW c \in Nat
  PROVE  /\ a * b \in Nat /\ a * (b + 1) = a * b + a
         /\ b > 0 => a * (b - 1) = a * b - a
         /\ b <= c => a * b <= a * c
OBVIOUS

\* While it holds, the sum, with or without one more duration, has no sign bit.
LEMMA SumFits ==
  ASSUME CollectorInv, NEW longest, NoOverflow(longest), SumOK(longest)
  PROVE  /\ 2 * counters["durationNanos"] < Width
         /\ Unsummed # {} => 2 * (counters["durationNanos"] + longest) < Width
<1>1. /\ counters["durationNanos"] \in Nat /\ counters["durationCount"] \in Nat
      /\ counters["succeeded"] \in Nat /\ counters["failed"] \in Nat
      /\ counters["started"] \in Nat /\ strays \in Nat
  BY DEF CollectorInv, TypeOK, Fields
<1>2. PICK sum, timed, k, most :
        /\ sum = counters["durationNanos"] /\ timed = counters["durationCount"]
        /\ k = Cardinality(Unsummed) /\ most = longest * MaxJobs
  OBVIOUS
<1>3. /\ Unsummed \in SUBSET Callers /\ k \in Nat /\ (Unsummed # {} => k > 0)
      /\ Cardinality(Unfinished) \in Nat /\ Cardinality(Untimed) \in Nat
  <2>1. /\ Unsummed \in SUBSET Callers
        /\ Cardinality(Unfinished) \in Nat /\ Cardinality(Untimed) \in Nat
    BY PartsFinite DEF CollectorInv, Unsummed
  <2>2. IsFiniteSet(Unsummed) /\ k \in Nat
    BY <1>2, <2>1, PartsFinite DEF CollectorInv
  <2> QED
    BY <1>2, <2>1, <2>2, FS_EmptySet
<1>4. timed <= MaxJobs
  BY <1>1, <1>2, <1>3, MetricsAssumption DEF CollectorInv, JobsOK, SumOK
<1>5. longest \in Nat /\ MaxJobs \in Nat /\ Width \in Nat /\ 2 * most < Width
  BY <1>2, MetricsAssumption DEF NoOverflow
<1>6. longest * timed <= most /\ longest * timed \in Nat /\ most \in Nat
  BY <1>1, <1>2, <1>4, <1>5, Times
<1>7. /\ longest * k \in Nat
      /\ k > 0 => longest <= longest * k
  <2>1. longest * k \in Nat
    BY <1>3, <1>5, Times
  <2>2. ASSUME k > 0 PROVE longest <= longest * k
    <3>1. longest * 1 <= longest * k
      BY <1>3, <1>5, <2>2, Times
    <3> QED
      BY <1>5, <3>1
  <2> QED
    BY <2>1, <2>2
<1>8. sum + longest * k <= longest * timed
  BY <1>2 DEF SumOK
<1>9. PICK p, q : p = longest * k /\ q = longest * timed
  OBVIOUS
<1>10. /\ p \in Nat /\ q \in Nat /\ sum \in Nat /\ sum + p <= q /\ q <= most
       /\ (k > 0 => longest <= p)
  BY <1>1, <1>2, <1>6, <1>7, <1>8, <1>9
<1>11. /\ 2 * sum < Width
       /\ k > 0 => 2 * (sum + longest) < Width
  BY <1>5, <1>6, <1>10
<1> QED
  BY <1>2, <1>3, <1>11

LEMMA SumInit ==
  ASSUME NEW longest, NoOverflow(longest), Init
  PROVE  SumOK(longest)
<1>1. Unsummed = {} /\ Cardinality(Unsummed) = 0
  BY FS_EmptySet DEF Init, Unsummed, Out, Summing
<1>2. longest \in Nat /\ longest * 0 = 0 /\ MaxJobs \in Nat
  BY MetricsAssumption DEF NoOverflow
<1>3. /\ counters["started"] = 0 /\ strays = 0 /\ counters["durationNanos"] = 0
      /\ counters["durationCount"] = 0 /\ \A c \in Callers : duration[c] = 0
  BY DEF Init, Zeros, Fields
<1> QED
  BY <1>1, <1>2, <1>3 DEF SumOK

\* An addition to the sum is one of natural numbers.
LEMMA SumAdds ==
  ASSUME CollectorInv, NEW longest, NoOverflow(longest), SumOK(longest),
         NEW c \in Callers, AddDurationNanos(c)
  PROVE  /\ counters' = [counters EXCEPT
              !["durationNanos"] = counters["durationNanos"] + Clipped(duration[c])]
         /\ Clipped(duration[c]) \in Nat /\ Clipped(duration[c]) <= longest
<1>1. /\ counters["durationNanos"] \in Nat /\ duration[c] \in Int
      /\ duration[c] <= longest /\ longest \in Nat /\ Width \in Nat
  BY MetricsAssumption DEF CollectorInv, TypeOK, Fields, SumOK, NoOverflow
<1>2. PICK sum, d : sum = counters["durationNanos"] /\ d = Clipped(duration[c])
  OBVIOUS
<1>3. d \in Nat /\ d <= longest
  BY <1>1, <1>2 DEF Clipped
<1>4. 2 * (sum + longest) < Width
  <2>1. c \in Unsummed
    BY DEF AddDurationNanos, Unsummed
  <2> QED
    BY <1>2, <2>1, SumFits
<1>5. sum + d \in Nat /\ sum + d < Width
  BY <1>1, <1>2, <1>3, <1>4
<1>6. (sum + d) % Width = sum + d
  BY <1>1, <1>5
<1> QED
  BY <1>2, <1>3, <1>6 DEF AddDurationNanos
LEMMA SumStep ==
  ASSUME CollectorInv, NEW longest, NoOverflow(longest), SumOK(longest),
         NEW c \in Callers, CallerStep(c)
  PROVE  SumOK(longest)'
<1>1. TypeOK /\ TypeOK'
  BY CallerTypes DEF CollectorInv
<1>2. longest \in Nat /\ MaxJobs \in Nat /\ \A d \in Durations : d \in Int /\ d <= longest
  BY MetricsAssumption DEF NoOverflow
<1>3. counters["started"]' + strays' <= MaxJobs
  <2>1. /\ counters \in [Fields -> Nat] /\ strays \in Nat
        /\ counters["started"] \in Nat /\ "started" \in Fields
        /\ counters["started"] + strays <= MaxJobs
    BY <1>1 DEF TypeOK, Fields, SumOK
  <2>2. CASE counters'["started"] = counters["started"] /\ strays' = strays
    BY <2>1, <2>2
  <2>3. CASE AddStarted(c) \/ \E field \in {"succeeded", "failed"}, d \in Durations :
                               AddStrayOutcome(c, field, d)
    BY <1>2, <2>1, <2>3 DEF AddStarted, AddStrayOutcome, Increment, strayVars
  <2> QED
    BY <2>1, <2>2, <2>3 DEF CallerStep, AddActive, AddOutcome, LoadActive, SwapActive, Swap,
       RetryActive, AddDurationCount, AddDurationNanos, Increment, strayVars
<1>4. \A d \in Callers : duration'[d] <= longest
  <2>1. duration \in [Callers -> Int] /\ \A d \in Callers : duration[d] <= longest
    BY <1>1 DEF TypeOK, SumOK
  <2>2. CASE duration' = duration
    BY <2>1, <2>2
  <2>3. ASSUME NEW d \in Durations \cup {0}, duration' = [duration EXCEPT ![c] = d]
        PROVE  \A e \in Callers : duration'[e] <= longest
    BY <1>2, <2>1, <2>3
  <2> QED
    BY <2>2, <2>3 DEF CallerStep, AddStarted, AddActive, AddOutcome, AddStrayOutcome,
       LoadActive, SwapActive, Swap, RetryActive, AddDurationCount, AddDurationNanos
<1>5. \A d \in Callers \ {c} : at'[d] = at[d]
  BY OthersStay
<1>6. /\ (c \in Unsummed <=> c \in Unsummed') => Unsummed' = Unsummed
      /\ c \notin Unsummed /\ c \in Unsummed' => Unsummed' = Unsummed \cup {c}
      /\ c \in Unsummed /\ c \notin Unsummed' => Unsummed' = Unsummed \ {c}
  <2> \A d : d # c => (d \in Unsummed <=> d \in Unsummed')
    BY <1>5 DEF Unsummed
  <2> QED
    BY OneMoves
<1>7. /\ c \in Unsummed <=> at[c] = Summing
      /\ c \in Unsummed' <=> at'[c] = Summing
  BY DEF Unsummed
<1>8. PICK sum, timed, k :
        /\ sum = counters["durationNanos"] /\ timed = counters["durationCount"]
        /\ k = Cardinality(Unsummed)
  OBVIOUS
<1>9. /\ sum \in Nat /\ timed \in Nat /\ k \in Nat
      /\ c \notin Unsummed => Cardinality(Unsummed \cup {c}) = k + 1
      /\ c \in Unsummed => Cardinality(Unsummed \ {c}) = k - 1 /\ k > 0
      /\ sum + longest * k <= longest * timed
      /\ longest * k \in Nat /\ longest * timed \in Nat
  <2>1. sum \in Nat /\ timed \in Nat
    BY <1>1, <1>8 DEF TypeOK, Fields
  <2>2. Unsummed \in SUBSET Callers
    BY DEF Unsummed
  <2>3. /\ k \in Nat
        /\ c \notin Unsummed => Cardinality(Unsummed \cup {c}) = k + 1
        /\ c \in Unsummed => Cardinality(Unsummed \ {c}) = k - 1
    BY <1>1, <1>8, <2>2, PartsFinite
  <2>4. c \in Unsummed => k - 1 \in Nat
    BY <1>1, <1>8, <2>2, <2>3, PartsFinite
  <2>5. sum + longest * k <= longest * timed
    BY <1>8 DEF SumOK
  <2> QED
    BY <1>2, <2>1, <2>3, <2>4, <2>5, Times
<1>10. SUFFICES counters'["durationNanos"] + longest * Cardinality(Unsummed')
                  <= longest * counters'["durationCount"]
  BY <1>3, <1>4 DEF SumOK
<1> USE DEF Out, Starting, Working, Loading, Swapping, Counting, Summing
<1>11. CASE AddDurationCount(c)
  <2>1. /\ counters'["durationNanos"] = sum /\ counters'["durationCount"] = timed + 1
        /\ at[c] = Counting /\ at'[c] = Summing
    BY <1>1, <1>8, <1>11 DEF AddDurationCount, Increment, Goto, TypeOK, Fields
  <2>2. Cardinality(Unsummed') = k + 1
    BY <1>6, <1>7, <1>9, <2>1
  <2>3. /\ longest * (k + 1) = longest * k + longest
        /\ longest * (timed + 1) = longest * timed + longest
    BY <1>2, <1>9, Times
  <2> QED
    BY <1>2, <1>9, <2>1, <2>2, <2>3
<1>12. CASE AddDurationNanos(c)
  <2>1. PICK d : d = Clipped(duration[c])
    OBVIOUS
  <2>2. /\ counters' = [counters EXCEPT !["durationNanos"] = sum + d]
        /\ d \in Nat /\ d <= longest
    BY <1>8, <1>12, <2>1, SumAdds
  <2>3. /\ counters'["durationNanos"] = sum + d /\ counters'["durationCount"] = timed
        /\ at[c] = Summing /\ at'[c] = Out
    BY <1>1, <1>8, <1>12, <2>2 DEF AddDurationNanos, Goto, TypeOK, Fields
  <2>4. Cardinality(Unsummed') = k - 1 /\ k > 0
    BY <1>6, <1>7, <1>9, <2>3
  <2>5. longest * (k - 1) = longest * k - longest
    BY <1>2, <1>9, <2>4, Times
  <2> QED
    BY <1>2, <1>9, <2>2, <2>3, <2>4, <2>5
<1>13. CASE /\ counters'["durationNanos"] = sum /\ counters'["durationCount"] = timed
            /\ at[c] # Summing /\ at'[c] # Summing
  <2>1. Cardinality(Unsummed') = k
    BY <1>6, <1>7, <1>8, <1>13
  <2> QED
    BY <1>9, <1>13, <2>1
<1>14. CASE ~ AddDurationCount(c) /\ ~ AddDurationNanos(c)
  <2>1. counters'["durationNanos"] = sum /\ counters'["durationCount"] = timed
    BY <1>1, <1>8, <1>14 DEF CallerStep, AddStarted, AddActive, AddOutcome, AddStrayOutcome,
       LoadActive, SwapActive, Swap, RetryActive, Increment, TypeOK, Fields
  <2>2. at[c] # Summing /\ at'[c] # Summing
    BY <1>1, <1>14 DEF CallerStep, AddStarted, AddActive, AddOutcome, AddStrayOutcome,
       LoadActive, SwapActive, Swap, RetryActive, Goto, TypeOK
  <2> QED
    BY <1>13, <2>1, <2>2
<1> QED
  BY <1>11, <1>12, <1>14

LEMMA SumNext ==
  ASSUME CollectorInv, NEW longest, NoOverflow(longest), SumOK(longest), [Next]_vars
  PROVE  SumOK(longest)'
<1>1. ASSUME UNCHANGED <<counters, at, duration, stray, strays>> PROVE SumOK(longest)'
  <2>1. Unsummed' = Unsummed
    BY <1>1 DEF Unsummed
  <2> QED
    BY <1>1, <2>1 DEF SumOK
<1>2. ASSUME NEW s \in Scrapers, BeginSnapshot(s) \/ LoadCounter(s) PROVE SumOK(longest)'
  BY <1>1, <1>2 DEF BeginSnapshot, LoadCounter, strayVars
<1>3. CASE UNCHANGED vars
  BY <1>1, <1>3 DEF vars, strayVars
<1> QED
  BY <1>2, <1>3, SumStep DEF Next

\* Everything but the gauge grows, the sum of durations included.
LEMMA CountersGrow ==
  ASSUME CollectorInv, NEW longest, NoOverflow(longest), SumOK(longest), [Next]_vars
  PROVE  counters["durationNanos"] <= counters'["durationNanos"]
<1>1. counters \in [Fields -> Nat] /\ counters["durationNanos"] \in Nat
  BY DEF CollectorInv, TypeOK, Fields
<1>2. ASSUME NEW c \in Callers, AddDurationNanos(c)
      PROVE  counters["durationNanos"] <= counters'["durationNanos"]
  <2>1. PICK d : d = Clipped(duration[c])
    OBVIOUS
  <2>2. /\ counters' = [counters EXCEPT !["durationNanos"] = counters["durationNanos"] + d]
        /\ d \in Nat
    BY <1>2, <2>1, SumAdds
  <2> QED
    BY <1>1, <2>2 DEF Fields
<1>3. ASSUME NEW c \in Callers, CallerStep(c), ~ AddDurationNanos(c)
      PROVE  counters["durationNanos"] <= counters'["durationNanos"]
  BY <1>1, <1>3 DEF CallerStep, AddStarted, AddActive, AddOutcome, AddStrayOutcome, LoadActive,
     SwapActive, Swap, RetryActive, AddDurationCount, Increment, Fields
<1>4. CASE counters' = counters
  BY <1>1, <1>4
<1> QED
  BY <1>2, <1>3, <1>4 DEF Next, BeginSnapshot, LoadCounter, vars

\* What a scraper has seen of the sum is not above it.
SumSeen == \A s \in Scrapers : seen[s]["durationNanos"] <= counters["durationNanos"]

LEMMA SumSeenNext ==
  ASSUME CollectorInv, NEW longest, NoOverflow(longest), SumOK(longest), SumSeen, [Next]_vars
  PROVE  /\ SumSeen'
         /\ \A s \in Scrapers : seen[s]["durationNanos"] <= seen'[s]["durationNanos"]
<1>1. /\ seen \in [Scrapers -> [Fields -> Int]] /\ counters \in [Fields -> Nat]
      /\ counters' \in [Fields -> Nat] /\ "durationNanos" \in Fields
      /\ \A s \in Scrapers : seen[s]["durationNanos"] \in Int
      /\ counters["durationNanos"] \in Nat /\ counters'["durationNanos"] \in Nat
  BY CollectorStep DEF CollectorInv, TypeOK, Fields
<1>2. counters["durationNanos"] <= counters'["durationNanos"]
  BY CountersGrow
<1>3. CASE seen' = seen
  BY <1>1, <1>2, <1>3 DEF SumSeen
<1>4. ASSUME NEW s \in Scrapers, LoadCounter(s)
      PROVE  /\ SumSeen'
             /\ \A r \in Scrapers : seen[r]["durationNanos"] <= seen'[r]["durationNanos"]
  <2> DEFINE f == LoadOrder[next[s]]
  <2>1. seen' = [seen EXCEPT ![s][f] = Loaded(f)] /\ counters' = counters
    BY <1>4 DEF LoadCounter
  <2>2. f \in Fields
    BY <1>4, LoadOrderFacts DEF LoadCounter, CollectorInv, TypeOK, Fields
  <2>3. Loaded("durationNanos") = counters["durationNanos"]
    <3>1. 2 * counters["durationNanos"] < Width
      BY SumFits
    <3> QED
      BY <1>1, <3>1, MetricsAssumption DEF Loaded
  <2> HIDE DEF f
  <2>4. CASE f = "durationNanos"
    BY <1>1, <2>1, <2>2, <2>3, <2>4 DEF SumSeen
  <2>5. CASE f # "durationNanos"
    BY <1>1, <2>1, <2>2, <2>5 DEF SumSeen
  <2> QED
    BY <2>4, <2>5
<1> QED
  BY <1>3, <1>4 DEF Next, CallerStep, AddStarted, AddActive, AddOutcome, AddStrayOutcome,
     LoadActive, SwapActive, Swap, RetryActive, AddDurationCount, AddDurationNanos,
     BeginSnapshot, vars, scrapeVars

\* A load of a count shows no less than the last one did.
LEMMA CountsSeenNext ==
  ASSUME CollectorInv, ScrapeInv, [Next]_vars
  PROVE  \A s \in Scrapers, f \in Fields \ {"active", "durationNanos"} :
           seen[s][f] <= seen'[s][f]
<1>1. /\ seen \in [Scrapers -> [Fields -> Int]]
      /\ next \in [Scrapers -> 1 .. 7]
  BY LoadOrderFacts DEF CollectorInv, TypeOK
<1>2. Fields \ {"active", "durationNanos"} = Counts
  BY DEF Fields, Counts
<1>3. \A s \in Scrapers, f \in Counts : seen[s][f] \in Int /\ seen[s][f] <= counters[f]
  BY <1>1, <1>2 DEF ScrapeInv, SnapshotOK
<1>4. CASE seen' = seen
  BY <1>2, <1>3, <1>4
<1>5. ASSUME NEW s \in Scrapers, LoadCounter(s)
      PROVE  \A r \in Scrapers, f \in Counts : seen[r][f] <= seen'[r][f]
  <2> DEFINE loaded == LoadOrder[next[s]]
  <2>1. seen' = [seen EXCEPT ![s][loaded] = Loaded(loaded)]
    BY <1>5 DEF LoadCounter
  <2>2. \A f \in Counts : Loaded(f) = counters[f]
    BY <1>2, LoadedIs DEF CollectorInv
  <2> HIDE DEF loaded
  <2> QED
    BY <1>1, <1>2, <1>3, <2>1, <2>2
<1> QED
  BY <1>2, <1>4, <1>5 DEF Next, CallerStep, AddStarted, AddActive, AddOutcome,
     AddStrayOutcome, LoadActive, SwapActive, Swap, RetryActive, AddDurationCount,
     AddDurationNanos, BeginSnapshot, vars, scrapeVars

(***************************************************************************)
(* No counter falls from one scrape to the next (CountersOnlyGrow), for    *)
(* any number of callers and scrapers, as long as the jobs, at the length  *)
(* of the longest, do not add up to the 292 years a time.Duration can      *)
(* tell.  Without that bound the sum would fall.                           *)
(***************************************************************************)
THEOREM ScrapesOnlyGrow ==
  ASSUME NEW longest, NoOverflow(longest)
  PROVE  Spec => CountersOnlyGrow
<1>1. CollectorInv /\ ScrapeInv /\ SumOK(longest) /\ SumSeen /\ [Next]_vars =>
        [\A s \in Scrapers, f \in Fields \ {"active"} : seen[s][f] <= seen'[s][f]]_vars
  BY CountsSeenNext, SumSeenNext
<1>2. Spec => []ScrapeInv
  BY ScrapeInit, ScrapeNext, CollectorInit, CollectorStep, JobsWithinN, PTL DEF Spec
<1>3. Init => SumOK(longest) /\ SumSeen
  BY SumInit DEF Init, Zeros, Fields, SumSeen
<1>4. CollectorInv /\ SumOK(longest) /\ SumSeen /\ [Next]_vars
        => SumOK(longest)' /\ SumSeen'
  BY SumNext, SumSeenNext
<1> QED
  BY <1>1, <1>2, <1>3, <1>4, CollectorCorrect, PTL DEF Spec, CountersOnlyGrow
=============================================================================
