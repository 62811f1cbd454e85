------------------------------- MODULE Metrics -------------------------------
(***************************************************************************)
(* pkg/metrics/metrics.go: the collector that runners report their jobs to *)
(* and that the worker's HTTP server reads whenever it is scraped.  Every  *)
(* counter is atomic, nothing joins them: JobStarted, JobFinished and      *)
(* Snapshot are cut at every atomic operation.  The worker's loop is one   *)
(* caller; the package is made for any number of runners.                  *)
(***************************************************************************)
EXTENDS Integers, Sequences, FiniteSets

CONSTANTS
  Callers,     \* goroutines that report jobs
  Scrapers,    \* goroutines that take snapshots
  Durations,   \* of jobs; negative when the clock is set back
  Width,       \* 2^64: durationNanos is an unsigned integer, a duration a signed one
  MaxJobs,     \* bound: jobs, and calls of JobFinished that have none
  MaxStrays    \* bound: calls of JobFinished that have no job

ASSUME MetricsAssumption ==
  /\ IsFiniteSet(Callers)
  /\ Durations \subseteq Int
  /\ Width \in Nat \ {0}
  /\ MaxJobs \in Nat /\ MaxStrays \in Nat

VARIABLES
  counters,  \* the six fields of Collector
  at,        \* caller -> where it is
  current,   \* caller -> what decrementActive loaded, 0 outside of it
  duration,  \* caller -> the duration of its JobFinished, 0 outside of it
  next,      \* scraper -> the counter its Snapshot loads next
  seen,      \* scraper -> the counters as it has loaded them
  stray,     \* history: callers whose JobFinished has no job
  strays     \* history: how many such calls there were

scrapeVars == <<next, seen>>
strayVars == <<stray, strays>>
vars == <<counters, at, current, duration, scrapeVars, strayVars>>

Out == "out"              \* in no call, without a job
Starting == "starting"    \* started was added to
Working == "working"      \* in no call, with a job
Loading == "loading"      \* decrementActive, before its load
Swapping == "swapping"    \* decrementActive, before its compare-and-swap
Counting == "counting"    \* before durationCount is added to
Summing == "summing"      \* before durationNanos is added to

Fields == {"started", "succeeded", "failed", "active", "durationCount", "durationNanos"}

\* Mutant of LoadOrder: what has finished is read before what was started.
LoadOrderFinishedFirst ==
  <<"succeeded", "failed", "started", "active", "durationCount", "durationNanos">>

\* The order in which Snapshot loads the counters.
LoadOrder ==
  <<"started", "succeeded", "failed", "active", "durationCount", "durationNanos">>

Zeros == [f \in Fields |-> 0]

Init ==
  /\ counters = Zeros
  /\ at = [c \in Callers |-> Out]
  /\ current = [c \in Callers |-> 0]
  /\ duration = [c \in Callers |-> 0]
  /\ next = [s \in Scrapers |-> Len(LoadOrder) + 1]
  /\ seen = [s \in Scrapers |-> Zeros]
  /\ stray = {}
  /\ strays = 0

-----------------------------------------------------------------------------
Goto(c, place) == at' = [at EXCEPT ![c] = place]

\* Atomic addition of one.
Increment(field) == counters' = [counters EXCEPT ![field] = @ + 1]

\* JobStarted, its first half ...
AddStarted(c) ==
  /\ at[c] = Out
  /\ counters["started"] + strays < MaxJobs
  /\ Increment("started")
  /\ Goto(c, Starting)
  /\ UNCHANGED <<current, duration, scrapeVars, strayVars>>

\* ... and its second.
AddActive(c) ==
  /\ at[c] = Starting
  /\ Increment("active")
  /\ Goto(c, Working)
  /\ UNCHANGED <<current, duration, scrapeVars, strayVars>>

\* JobFinished up to its first addition, for the caller's job ...
AddOutcome(c, field, d) ==
  /\ at[c] = Working
  /\ Increment(field)
  /\ duration' = [duration EXCEPT ![c] = d]
  /\ Goto(c, Loading)
  /\ UNCHANGED <<current, scrapeVars, strayVars>>

\* ... or without JobStarted before it.
AddStrayOutcome(c, field, d) ==
  /\ at[c] = Out
  /\ strays < MaxStrays /\ counters["started"] + strays < MaxJobs
  /\ Increment(field)
  /\ duration' = [duration EXCEPT ![c] = d]
  /\ Goto(c, Loading)
  /\ stray' = stray \cup {c}
  /\ strays' = strays + 1
  /\ UNCHANGED <<current, scrapeVars>>

\* Mutant of LoadActive: the gauge is decremented at zero, too.
LoadAnyActive(c) ==
  /\ at[c] = Loading
  /\ current' = [current EXCEPT ![c] = counters["active"]]
  /\ Goto(c, Swapping)
  /\ UNCHANGED <<counters, duration, scrapeVars, strayVars>>

\* decrementActive loads the gauge, and is done when there is nothing to take.
LoadActive(c) ==
  /\ at[c] = Loading
  /\ current' = [current EXCEPT ![c] = counters["active"]]
  /\ Goto(c, IF counters["active"] <= 0 THEN Counting ELSE Swapping)
  /\ UNCHANGED <<counters, duration, scrapeVars, strayVars>>

Swap(c) ==
  /\ at[c] = Swapping
  /\ counters' = [counters EXCEPT !["active"] = current[c] - 1]
  /\ Goto(c, Counting)
  /\ current' = [current EXCEPT ![c] = 0]
  /\ UNCHANGED <<duration, scrapeVars, strayVars>>

\* Mutant of SwapActive: the value loaded is stored without a comparison.
StoreActive(c) == Swap(c)

\* The compare-and-swap succeeds ...
SwapActive(c) == counters["active"] = current[c] /\ Swap(c)

\* ... or fails, and the loop begins again.
RetryActive(c) ==
  /\ at[c] = Swapping
  /\ counters["active"] # current[c]
  /\ Goto(c, Loading)
  /\ current' = [current EXCEPT ![c] = 0]
  /\ UNCHANGED <<counters, duration, scrapeVars, strayVars>>

AddDurationCount(c) ==
  /\ at[c] = Counting
  /\ Increment("durationCount")
  /\ Goto(c, Summing)
  /\ UNCHANGED <<current, duration, scrapeVars, strayVars>>

\* Mutant of Clipped: a negative duration becomes a huge unsigned one.
Unclipped(d) == d

Clipped(d) == IF d < 0 THEN 0 ELSE d

\* The last addition of JobFinished, modulo 2^64; the caller returns.
AddDurationNanos(c) ==
  /\ at[c] = Summing
  /\ counters' = [counters EXCEPT
       !["durationNanos"] = (@ + Clipped(duration[c])) % Width]
  /\ Goto(c, Out)
  /\ duration' = [duration EXCEPT ![c] = 0]
  /\ stray' = stray \ {c}
  /\ UNCHANGED <<current, scrapeVars, strays>>

\* Snapshot begins.
BeginSnapshot(s) ==
  /\ next[s] > Len(LoadOrder)
  /\ next' = [next EXCEPT ![s] = 1]
  /\ UNCHANGED <<counters, at, current, duration, seen, strayVars>>

\* A counter as Snapshot gives it: time.Duration has a sign bit.
Loaded(field) ==
  LET value == counters[field] IN
  IF field = "durationNanos" /\ 2 * value >= Width THEN value - Width ELSE value

\* Snapshot loads one counter; it returns when it has loaded all.
LoadCounter(s) ==
  /\ next[s] <= Len(LoadOrder)
  /\ seen' = [seen EXCEPT ![s][LoadOrder[next[s]]] = Loaded(LoadOrder[next[s]])]
  /\ next' = [next EXCEPT ![s] = @ + 1]
  /\ UNCHANGED <<counters, at, current, duration, strayVars>>

CallerStep(c) ==
  \/ AddStarted(c) \/ AddActive(c)
  \/ \E field \in {"succeeded", "failed"}, d \in Durations :
       AddOutcome(c, field, d) \/ AddStrayOutcome(c, field, d)
  \/ LoadActive(c) \/ SwapActive(c) \/ RetryActive(c)
  \/ AddDurationCount(c) \/ AddDurationNanos(c)

Next ==
  \/ \E c \in Callers : CallerStep(c)
  \/ \E s \in Scrapers : BeginSnapshot(s) \/ LoadCounter(s)

Spec == Init /\ [][Next]_vars

-----------------------------------------------------------------------------
\* The type invariant: counters are natural numbers, the gauge too.
TypeOK ==
  /\ counters \in [Fields -> Nat]
  /\ at \in [Callers -> {Out, Starting, Working, Loading, Swapping, Counting, Summing}]
  /\ current \in [Callers -> Nat]
  /\ duration \in [Callers -> Int]
  /\ next \in [Scrapers -> 1 .. Len(LoadOrder) + 1]
  /\ seen \in [Scrapers -> [Fields -> Int]]
  /\ \A s \in Scrapers, f \in Fields \ {"durationNanos"} : seen[s][f] \in Nat
  /\ stray \subseteq Callers
  /\ strays \in Nat

\* Callers whose job is on the gauge, or was before a stray call took it off.
Holding == {c \in Callers \ stray : at[c] \in {Working, Loading, Swapping}}

(***************************************************************************)
(* The gauge tracks the jobs.  However loads and swaps of several callers  *)
(* interleave, the gauge never shows more than the jobs in progress, and   *)
(* falls short of them by no more than there were calls of JobFinished     *)
(* without a job; when there was none, it is exact.                        *)
(***************************************************************************)
GaugeTracks ==
  /\ counters["active"] <= Cardinality(Holding)
  /\ Cardinality(Holding) - strays <= counters["active"]

(***************************************************************************)
(* A scrape shows no phantom jobs.  The counters of a snapshot are of      *)
(* different moments, and jobs may start and finish between two loads; but *)
(* since `started` is loaded first and the durations last, never more jobs *)
(* look unfinished, or finished without a duration, than there are callers *)
(* to run them.                                                            *)
(***************************************************************************)
NoPhantomJobs ==
  \A s \in Scrapers :
    next[s] > Len(LoadOrder) =>
      LET finished == seen[s]["succeeded"] + seen[s]["failed"] IN
      /\ seen[s]["started"] - finished <= Cardinality(Callers)
      /\ finished - seen[s]["durationCount"] <= Cardinality(Callers)

(***************************************************************************)
(* Counters only grow from one scrape to the next, as Prometheus takes a   *)
(* counter that falls for a restart; a job of negative duration included.  *)
(***************************************************************************)
CountersOnlyGrow ==
  [][\A s \in Scrapers, f \in Fields \ {"active"} : seen[s][f] <= seen'[s][f]]_vars
=============================================================================
