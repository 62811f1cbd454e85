----------------------------- MODULE Runner_proofs -----------------------------
(***************************************************************************)
(* Proofs about RunOnce, for every set of workers and of offers, and for   *)
(* any number of claims and crashes.  A worker's action changes what is at *)
(* that worker and may append to the log, so the invariant is one about    *)
(* each worker (WorkerOK) and one about the log (LogOK).                   *)
(***************************************************************************)
EXTENDS Runner, FiniteSetTheorems, TLAPS

LogEntry == [step : STRING, by : Workers]

Bundles ==
  [job : STRING, enq : 1 .. MaxSubmitted, status : Status, steps : Seq(StepResults),
   app : {signed.job.plan.app : signed \in Offers},
   env : {signed.job.plan.env : signed \in Offers}]

TypesInv ==
  /\ wpc \in [Workers -> Working \cup {Idle, Claiming}]
  /\ held \in [Workers -> Offers \cup {None}]
  /\ result \in [Workers -> WorkerResults \cup {None}]
  /\ recorder \in [Workers -> Seq(Bundles)]
  /\ refused \in [Workers -> [succeeded : Nat, failed : Nat]]
  /\ metrics \in [Workers -> Counts]
  /\ now \in [Workers -> 0 .. MaxTime]
  /\ ran \in [1 .. MaxSubmitted -> Seq(LogEntry)]

\* What worker w has made sure of before it executes an envelope.
Trusted(w, signed) ==
  /\ signed.key = KeyOf[w]
  /\ Matches(Info[w], signed.job.selector)
  /\ ValidJob(signed.job)

\* Worker w has called the executor of the i-th step, if there is one.
Called(w, signed, i) ==
  signed.job.plan.steps[i].executor \in Registered =>
    \E n \in DOMAIN ran[signed.enq] :
      /\ ran[signed.enq][n].step = signed.job.plan.steps[i].id
      /\ ran[signed.enq][n].by = w

\* A step result carries the ID of its plan step, or one its executor chose.
Named(step, planned) ==
  \/ step.id = planned.id
  \/ planned.executor \in Registered /\ step.id \in ExecStepIDs

\* How far RunOnce has come with the envelope it holds.
ProgressOK(w) ==
  LET steps == result[w].steps
      plan == held[w].job.plan.steps IN
  /\ wpc[w] = Verifying => steps = << >>
  /\ wpc[w] \in {Executing, InStep} \/ steps # << >> => Trusted(w, held[w])
  /\ wpc[w] \in {Executing, InStep} =>
       /\ Len(steps) < Len(plan)
       /\ \A i \in DOMAIN steps : steps[i].status = Succeeded
  /\ wpc[w] = InStep =>
       Called(w, held[w], Len(steps) + 1) /\ plan[Len(steps) + 1].executor \in Registered
  /\ Len(steps) <= Len(plan)
  /\ \A i \in DOMAIN steps :
       /\ Named(steps[i], plan[i])
       /\ Called(w, held[w], i)
       /\ i < Len(steps) => steps[i].status = Succeeded
  /\ wpc[w] \in Recording \cup {Completing} =>
       (result[w].status = Succeeded <=>
          /\ steps # << >> /\ Len(steps) = Len(plan)
          /\ steps[Len(steps)].status = Succeeded)

HeldOK(w) ==
  IF wpc[w] \in Working
    THEN held[w] \in Offers /\ result[w] \in WorkerResults /\ ProgressOK(w)
    ELSE held[w] = None /\ result[w] = None

CountsOK(w) ==
  LET m == metrics[w] IN
  /\ m.started = m.succeeded + m.failed + m.active
  /\ m.active = IF wpc[w] \in Working THEN 1 ELSE 0

\* Each job counted, or about to be, has its bundle, recorded or refused.
EvidenceOK(w) ==
  /\ Outcomes(recorder[w], TRUE) + refused[w].succeeded =
       metrics[w].succeeded + Reporting(w, TRUE)
  /\ Outcomes(recorder[w], FALSE) + refused[w].failed =
       metrics[w].failed + Reporting(w, FALSE)

WorkerOK(w) == HeldOK(w) /\ CountsOK(w) /\ EvidenceOK(w)

LogOK ==
  \A signed \in Offers : \A i \in DOMAIN ran[signed.enq] :
    Trusted(ran[signed.enq][i].by, signed)

\* The inductive invariant.
RunnerInv == TypesInv /\ LogOK /\ \A w \in Workers : WorkerOK(w)

USE DEF Idle, Claiming, Verifying, Executing, InStep, Unverified, Unmatched, Executed,
        Recording, Completing, Working

\* What is at worker w, and the log, stay as they are.
Untouched(w) ==
  /\ wpc'[w] = wpc[w] /\ held'[w] = held[w] /\ result'[w] = result[w]
  /\ recorder'[w] = recorder[w] /\ refused'[w] = refused[w] /\ metrics'[w] = metrics[w]

-----------------------------------------------------------------------------
\* What the proofs use of RunnerAssumption.
LEMMA Bounds == MaxTime \in Nat /\ MaxSubmitted \in Nat
  BY RunnerAssumption

\* No bundle, no outcome.
LEMMA NoOutcomes == Outcomes(<< >>, TRUE) = 0 /\ Outcomes(<< >>, FALSE) = 0
<1>1. \A ok : {n \in DOMAIN << >> : (<< >>[n].status = Succeeded) = ok} = {}
  OBVIOUS
<1> QED
  BY <1>1, FS_EmptySet DEF Outcomes

\* The outcomes of a worker's bundles can be counted, and one more bundle adds
\* one to its own outcome.
LEMMA OutcomesAppended ==
  ASSUME NEW bundles \in Seq(Bundles), NEW bundle \in Bundles, NEW ok \in BOOLEAN
  PROVE  /\ Outcomes(bundles, ok) \in Nat
         /\ Outcomes(Append(bundles, bundle), ok) =
              Outcomes(bundles, ok)
                + (IF (bundle.status = Succeeded) = ok THEN 1 ELSE 0)
<1> DEFINE more == Append(bundles, bundle)
           Of(seq) == {n \in DOMAIN seq : (seq[n].status = Succeeded) = ok}
           last == Len(bundles) + 1
<1>1. /\ Len(bundles) \in Nat /\ DOMAIN bundles = 1 .. Len(bundles)
      /\ DOMAIN more = 1 .. Len(bundles) + 1
      /\ \A n \in 1 .. Len(bundles) : more[n] = bundles[n]
      /\ more[last] = bundle
  OBVIOUS
<1>2. /\ DOMAIN more = DOMAIN bundles \cup {last} /\ last \notin DOMAIN bundles
      /\ \A n \in DOMAIN bundles : more[n] = bundles[n]
  <2> HIDE DEF more
  <2> QED
    BY <1>1
<1>3. IsFiniteSet(DOMAIN bundles)
  BY <1>1, FS_Interval
<1>4. IsFiniteSet(Of(bundles)) /\ last \notin Of(bundles)
  BY <1>2, <1>3, FS_Subset
<1>5. Cardinality(Of(bundles)) \in Nat
  BY <1>4, FS_CardinalityType
<1>8. Outcomes(bundles, ok) = Cardinality(Of(bundles)) /\ Outcomes(more, ok) = Cardinality(Of(more))
  BY DEF Outcomes
<1> HIDE DEF more, last, Of
<1>6. CASE (bundle.status = Succeeded) = ok
  <2>1. Of(more) = Of(bundles) \cup {last}
    BY <1>1, <1>2, <1>6, ZenonT(30) DEF Of
  <2>2. Cardinality(Of(more)) = Cardinality(Of(bundles)) + 1
    BY <1>4, <2>1, FS_AddElement
  <2> QED
    BY <1>5, <1>6, <1>8, <2>2 DEF more
<1>7. CASE (bundle.status = Succeeded) # ok
  <2>1. Of(more) = Of(bundles)
    BY <1>1, <1>2, <1>7, ZenonT(30) DEF Of
  <2> QED
    BY <1>5, <1>7, <1>8, <2>1 DEF more
<1> QED
  BY <1>6, <1>7

\* A worker's bundles can be counted.
LEMMA OutcomesCounted ==
  ASSUME NEW bundles \in Seq(Bundles)
  PROVE  Outcomes(bundles, TRUE) \in Nat /\ Outcomes(bundles, FALSE) \in Nat
<1>1. /\ DOMAIN bundles = 1 .. Len(bundles) /\ Len(bundles) \in Nat
  OBVIOUS
<1>2. IsFiniteSet(DOMAIN bundles)
  BY <1>1, FS_Interval
<1> QED
  BY <1>2, FS_Subset, FS_CardinalityType DEF Outcomes

\* One more bundle adds one to its own outcome.
LEMMA BundleCounted ==
  ASSUME NEW bundles \in Seq(Bundles), NEW bundle \in Bundles
  PROVE  /\ Outcomes(Append(bundles, bundle), TRUE) =
              Outcomes(bundles, TRUE) + (IF bundle.status = Succeeded THEN 1 ELSE 0)
         /\ Outcomes(Append(bundles, bundle), FALSE) =
              Outcomes(bundles, FALSE) + (IF bundle.status = Succeeded THEN 0 ELSE 1)
<1>1. CASE bundle.status = Succeeded
  <2>1. (bundle.status = Succeeded) = TRUE /\ (bundle.status = Succeeded) # FALSE
    BY <1>1
  <2> QED
    BY <1>1, <2>1, OutcomesAppended, OutcomesCounted
<1>2. CASE bundle.status # Succeeded
  <2>1. (bundle.status = Succeeded) = FALSE /\ (bundle.status = Succeeded) # TRUE
    BY <1>2
  <2> QED
    BY <1>2, <2>1, OutcomesAppended, OutcomesCounted
<1> QED
  BY <1>1, <1>2

\* The processes have just been started.
LEMMA RunnerInitOK == RunnerInit => RunnerInv
<1> SUFFICES ASSUME RunnerInit PROVE RunnerInv
  OBVIOUS
<1> USE DEF RunnerInit
<1>1. TypesInv
  BY Bounds DEF TypesInv, ZeroMetrics, ZeroRefused, Counts
<1>2. LogOK
  BY OffersAssumption DEF LogOK
<1>3. ASSUME NEW w \in Workers PROVE WorkerOK(w)
  <2>1. HeldOK(w) /\ CountsOK(w)
    BY DEF HeldOK, CountsOK, ZeroMetrics
  <2>2. /\ recorder[w] = << >> /\ wpc[w] = Idle
        /\ refused[w] = ZeroRefused /\ metrics[w] = ZeroMetrics
    OBVIOUS
  <2>3. EvidenceOK(w)
    BY <2>2, NoOutcomes DEF EvidenceOK, Reporting, ZeroMetrics, ZeroRefused
  <2> QED
    BY <2>1, <2>3 DEF WorkerOK
<1> QED
  BY <1>1, <1>2, <1>3 DEF RunnerInv

\* A worker at which nothing changes keeps its invariant while logs only grow.
LEMMA OthersKeepOK ==
  ASSUME NEW w, WorkerOK(w), Untouched(w),
         \A signed \in Offers, i \in Nat : Called(w, signed, i) => Called(w, signed, i)'
  PROVE  WorkerOK(w)'
<1>1. CountsOK(w)'
  BY DEF WorkerOK, CountsOK, Untouched
<1>2. EvidenceOK(w)'
  BY DEF WorkerOK, EvidenceOK, Reporting, Untouched
<1>3. HeldOK(w)'
  <2>1. CASE wpc[w] \in Working
    <3>1. /\ held[w] \in Offers /\ result[w] \in WorkerResults /\ ProgressOK(w)
          /\ result[w].steps \in Seq(StepResults)
      BY <2>1 DEF WorkerOK, HeldOK, WorkerResults
    <3>2. /\ Len(result[w].steps) + 1 \in Nat
          /\ \A i \in DOMAIN result[w].steps : i \in Nat
      BY <3>1
    <3>3. ProgressOK(w)'
      BY <3>1, <3>2 DEF ProgressOK, Untouched, Trusted
    <3> QED
      BY <2>1, <3>1, <3>3 DEF HeldOK, Untouched
  <2>2. CASE wpc[w] \notin Working
    BY <2>2 DEF WorkerOK, HeldOK, Untouched
  <2> QED
    BY <2>1, <2>2
<1> QED
  BY <1>1, <1>2, <1>3 DEF WorkerOK

\* A step of worker w that leaves the log as it is keeps the invariant if it
\* keeps the types and what is at w.
LEMMA QuietStep ==
  ASSUME RunnerInv, NEW w \in Workers, TypesInv', WorkerOK(w)', ran' = ran,
         \A v \in Workers \ {w} : Untouched(v)
  PROVE  RunnerInv'
<1>1. LogOK'
  BY DEF RunnerInv, LogOK, Trusted
<1>2. ASSUME NEW v \in Workers \ {w} PROVE WorkerOK(v)'
  <2>1. \A signed \in Offers, i \in Nat : Called(v, signed, i) => Called(v, signed, i)'
    BY DEF Called
  <2> QED
    BY <2>1, OthersKeepOK DEF RunnerInv
<1> QED
  BY <1>1, <1>2 DEF RunnerInv

-----------------------------------------------------------------------------
\* Between two jobs.
LEMMA PollKeepsInv ==
  ASSUME RunnerInv, NEW w \in Workers, Poll(w) \/ ClaimFailed(w)
  PROVE  RunnerInv'
<1> USE DEF Poll, ClaimFailed, Goto, localVars
<1>1. TypesInv'
  BY DEF RunnerInv, TypesInv
<1>2. \A v \in Workers \ {w} : Untouched(v)
  BY DEF RunnerInv, TypesInv, Untouched
<1>3. wpc[w] \notin Working /\ wpc'[w] \notin Working
  BY DEF RunnerInv, TypesInv
<1>4. WorkerOK(w)'
  BY <1>3 DEF RunnerInv, WorkerOK, HeldOK, CountsOK, EvidenceOK, Reporting
<1> QED
  BY <1>1, <1>2, <1>4, QuietStep

\* The counters after JobStarted, and after JobFinished with a job in progress.
LEMMA JobStartedCounts ==
  ASSUME NEW m \in Counts
  PROVE  JobStarted(m) = [started |-> m.started + 1, succeeded |-> m.succeeded,
                          failed |-> m.failed, active |-> m.active + 1]
<1> DEFINE n == [m EXCEPT !.started = m.started + 1]
<1>1. /\ n \in Counts /\ n.started = m.started + 1 /\ n.succeeded = m.succeeded
      /\ n.failed = m.failed /\ n.active = m.active
  BY DEF Counts
<1>2. JobStarted(m) = [n EXCEPT !.active = n.active + 1]
  BY <1>1 DEF JobStarted
<1> HIDE DEF n
<1> QED
  BY <1>1, <1>2 DEF Counts

\* What JobFinished adds while the job it ends is on the gauge.
LEMMA JobFinishedCounts ==
  ASSUME NEW m \in Counts, m.active > 0, NEW status
  PROVE  JobFinished(m, status) =
           [started |-> m.started,
            succeeded |-> IF status = Succeeded THEN m.succeeded + 1 ELSE m.succeeded,
            failed |-> IF status = Succeeded THEN m.failed ELSE m.failed + 1,
            active |-> m.active - 1]
<1> DEFINE n == [m EXCEPT !.succeeded = IF status = Succeeded THEN m.succeeded + 1
                                                            ELSE m.succeeded]
           p == [n EXCEPT !.failed = IF status = Succeeded THEN n.failed ELSE n.failed + 1]
<1>1. /\ n \in Counts /\ n.started = m.started /\ n.failed = m.failed
      /\ n.succeeded = IF status = Succeeded THEN m.succeeded + 1 ELSE m.succeeded
      /\ n.active = m.active
  BY DEF Counts
<1>2. /\ p \in Counts /\ p.started = m.started /\ p.succeeded = n.succeeded
      /\ p.failed = IF status = Succeeded THEN m.failed ELSE m.failed + 1
      /\ p.active = m.active
  <2> HIDE DEF n
  <2> QED
    BY <1>1 DEF Counts
<1>3. JobFinished(m, status) =
        [p EXCEPT !.active = IF p.active <= 0 THEN p.active ELSE p.active - 1]
  BY <1>1, <1>2 DEF JobFinished
<1> HIDE DEF n, p
<1> QED
  BY <1>1, <1>2, <1>3 DEF Counts

\* What one more refused bundle adds.
LEMMA RefusedCounts ==
  ASSUME NEW r \in [succeeded : Nat, failed : Nat], NEW status
  PROVE  /\ RefusedOne(r, status) \in [succeeded : Nat, failed : Nat]
         /\ RefusedOne(r, status).succeeded =
              IF status = Succeeded THEN r.succeeded + 1 ELSE r.succeeded
         /\ RefusedOne(r, status).failed =
              IF status = Succeeded THEN r.failed ELSE r.failed + 1
<1> DEFINE n == [r EXCEPT !.succeeded = IF status = Succeeded THEN r.succeeded + 1
                                                            ELSE r.succeeded]
<1>1. /\ n \in [succeeded : Nat, failed : Nat] /\ n.failed = r.failed
      /\ n.succeeded = IF status = Succeeded THEN r.succeeded + 1 ELSE r.succeeded
  OBVIOUS
<1>2. RefusedOne(r, status) =
        [n EXCEPT !.failed = IF status = Succeeded THEN n.failed ELSE n.failed + 1]
  BY <1>1 DEF RefusedOne
<1> HIDE DEF n
<1> QED
  BY <1>1, <1>2

\* The types of a worker's counters.
LEMMA MetricsTypes ==
  ASSUME RunnerInv, NEW w \in Workers
  PROVE  /\ metrics[w] \in Counts
         /\ metrics[w].started \in Nat /\ metrics[w].succeeded \in Nat
         /\ metrics[w].failed \in Nat /\ metrics[w].active \in Nat
         /\ refused[w] \in [succeeded : Nat, failed : Nat]
         /\ recorder[w] \in Seq(Bundles)
BY DEF RunnerInv, TypesInv, Counts

\* A claim succeeds: the job is on the gauge, its report is empty.
LEMMA ClaimedKeepsInv ==
  ASSUME RunnerInv, NEW w \in Workers, NEW signed \in Offers, Claimed(w, signed)
  PROVE  RunnerInv'
<1> DEFINE fresh == [job |-> ClaimedID(signed), enq |-> signed.enq, status |-> Running,
                     steps |-> << >>]
           m == metrics[w]
<1>1. /\ wpc[w] = Claiming /\ wpc' = [wpc EXCEPT ![w] = Verifying]
      /\ held' = [held EXCEPT ![w] = signed]
      /\ result' = [result EXCEPT ![w] = fresh]
      /\ metrics' = [metrics EXCEPT ![w] = JobStarted(m)]
      /\ recorder' = recorder /\ refused' = refused /\ now' = now /\ ran' = ran
  BY DEF Claimed, Goto
<1>2. fresh \in WorkerResults
  <2>1. ClaimedID(signed) \in STRING
    <3>1. signed.job.id \in STRING
      BY OffersAssumption
    <3> QED
      BY <3>1, RunnerAssumption DEF ClaimedID
  <2> QED
    BY <2>1, OffersAssumption DEF WorkerResults, Status
<1>3. /\ JobStarted(m) \in Counts
      /\ JobStarted(m).started = m.started + 1 /\ JobStarted(m).active = m.active + 1
      /\ JobStarted(m).succeeded = m.succeeded /\ JobStarted(m).failed = m.failed
  BY MetricsTypes, JobStartedCounts DEF Counts
<1>4. TypesInv'
  BY <1>1, <1>2, <1>3 DEF RunnerInv, TypesInv
<1>5. \A v \in Workers \ {w} : Untouched(v)
  BY <1>1 DEF RunnerInv, TypesInv, Untouched
<1>6. /\ wpc'[w] = Verifying /\ held'[w] = signed /\ result'[w] = fresh
      /\ metrics'[w] = JobStarted(m) /\ recorder'[w] = recorder[w]
      /\ refused'[w] = refused[w]
  BY <1>1 DEF RunnerInv, TypesInv
<1>7. HeldOK(w)'
  BY <1>2, <1>6, OffersAssumption DEF HeldOK, ProgressOK
<1>8. CountsOK(w)'
  <2>1. CountsOK(w) /\ wpc[w] = Claiming
    BY <1>1 DEF RunnerInv, WorkerOK
  <2> QED
    BY <1>3, <1>6, <2>1, MetricsTypes DEF CountsOK
<1>9. EvidenceOK(w)'
  <2>1. EvidenceOK(w) /\ wpc[w] = Claiming
    BY <1>1 DEF RunnerInv, WorkerOK
  <2> QED
    BY <1>3, <1>6, <2>1 DEF EvidenceOK, Reporting
<1> QED
  BY <1>1, <1>4, <1>5, <1>7, <1>8, <1>9, QuietStep DEF WorkerOK

\* The indices of a sequence.
LEMMA Lengths ==
  ASSUME NEW S, NEW s \in Seq(S)
  PROVE  DOMAIN s = 1 .. Len(s) /\ Len(s) \in Nat
OBVIOUS

\* Worker w works on an offer: what is known of it.
LEMMA WorkingTypes ==
  ASSUME RunnerInv, NEW w \in Workers, wpc[w] \in Working
  PROVE  /\ held[w] \in Offers /\ held[w].enq \in 1 .. MaxSubmitted
         /\ held[w].job.plan.steps \in Seq([id : STRING, executor : STRING, timeout : Int])
         /\ result[w] \in WorkerResults /\ result[w].steps \in Seq(StepResults)
         /\ result[w].status \in Status
         /\ ProgressOK(w) /\ CountsOK(w) /\ EvidenceOK(w)
BY OffersAssumption DEF RunnerInv, WorkerOK, HeldOK, WorkerResults

\* The envelope is verified, or the job denied.
LEMMA VerifyKeepsInv ==
  ASSUME RunnerInv, NEW w \in Workers,
         DenyUnverified(w) \/ DenyUnmatched(w) \/ Accept(w)
  PROVE  RunnerInv'
<1>1. /\ wpc[w] = Verifying
      /\ \/ /\ Accepts(w) /\ result' = result
            /\ wpc' = [wpc EXCEPT ![w] = Executing]
         \/ /\ result' = [result EXCEPT ![w] = [result[w] EXCEPT !.status = Denied]]
            /\ \E place \in {Unverified, Unmatched} : wpc' = [wpc EXCEPT ![w] = place]
      /\ held' = held /\ metrics' = metrics /\ recorder' = recorder
      /\ refused' = refused /\ now' = now /\ ran' = ran
  BY DEF DenyUnverified, DenyUnmatched, DenyAt, Accept, Goto, localVars
<1>2. [result[w] EXCEPT !.status = Denied] \in WorkerResults
  BY <1>1, WorkingTypes DEF WorkerResults, Status
<1>3. TypesInv'
  BY <1>1, <1>2, ZenonT(40) DEF RunnerInv, TypesInv
<1>4. \A v \in Workers \ {w} : Untouched(v)
  BY <1>1 DEF RunnerInv, TypesInv, Untouched
<1>5. /\ result[w].steps = << >> /\ result'[w].steps = << >>
      /\ held[w] \in Offers /\ result'[w] \in WorkerResults
      /\ Len(held[w].job.plan.steps) \in Nat
  <2>1. /\ result[w].steps = << >> /\ held[w] \in Offers /\ result[w] \in WorkerResults
        /\ Len(held[w].job.plan.steps) \in Nat
    BY <1>1, WorkingTypes, SMTT(30) DEF ProgressOK
  <2>2. result'[w] = result[w] \/ result'[w] = [result[w] EXCEPT !.status = Denied]
    BY <1>1 DEF RunnerInv, TypesInv
  <2>3. [result[w] EXCEPT !.status = Denied].steps = result[w].steps
    BY <2>1 DEF WorkerResults
  <2> QED
    BY <1>2, <2>1, <2>2, <2>3
<1>6. ProgressOK(w)'
  <2>1. CASE Accepts(w) /\ result' = result /\ wpc' = [wpc EXCEPT ![w] = Executing]
    <3>1. Trusted(w, held[w]) /\ Len(held[w].job.plan.steps) > 0
      <4>1. Trusted(w, held[w])
        BY <2>1, SMTT(30) DEF Accepts, Verifies, Authentic, Trusted
      <4>2. held[w].job.plan.steps # << >>
        BY <4>1 DEF Trusted, ValidJob, ValidPlan, ValidSteps
      <4>3. held[w].job.plan.steps \in Seq([id : STRING, executor : STRING, timeout : Int])
        BY <1>1, WorkingTypes
      <4> QED
        BY <4>1, <4>2, <4>3
    <3> QED
      BY <1>1, <1>5, <2>1, <3>1 DEF ProgressOK, Trusted, RunnerInv, TypesInv
  <2>2. CASE /\ result' = [result EXCEPT ![w] = [result[w] EXCEPT !.status = Denied]]
             /\ \E place \in {Unverified, Unmatched} : wpc' = [wpc EXCEPT ![w] = place]
    <3>1. wpc'[w] \in Recording /\ result'[w].status = Denied
      BY <1>1, <2>2, WorkingTypes DEF RunnerInv, TypesInv, WorkerResults
    <3> QED
      BY <1>1, <1>5, <3>1 DEF ProgressOK, Denied, Succeeded
  <2> QED
    BY <1>1, <2>1, <2>2
<1>7. /\ wpc'[w] \in {Executing} \cup Recording /\ held'[w] = held[w]
      /\ recorder'[w] = recorder[w] /\ metrics'[w] = metrics[w] /\ refused'[w] = refused[w]
  BY <1>1 DEF RunnerInv, TypesInv
<1>8. CountsOK(w)' /\ EvidenceOK(w)'
  BY <1>1, <1>7, WorkingTypes DEF CountsOK, EvidenceOK, Reporting
<1> QED
  BY <1>1, <1>3, <1>4, <1>5, <1>6, <1>7, <1>8, QuietStep DEF WorkerOK, HeldOK

-----------------------------------------------------------------------------
\* A sequence with one more element.
LEMMA AppendedTo ==
  ASSUME NEW X, NEW seq \in Seq(X), NEW x \in X
  PROVE  /\ Append(seq, x) \in Seq(X)
         /\ Len(Append(seq, x)) = Len(seq) + 1 /\ Len(seq) \in Nat
         /\ \A n \in 1 .. Len(seq) : Append(seq, x)[n] = seq[n]
         /\ Append(seq, x)[Len(seq) + 1] = x
         /\ DOMAIN seq = 1 .. Len(seq)
         /\ DOMAIN Append(seq, x) = 1 .. Len(seq) + 1
         /\ Append(seq, x) # << >>
OBVIOUS

\* The step after the n-th one, when there is one.
LEMMA NextOf ==
  ASSUME NEW X, NEW seq \in Seq(X), NEW n \in Nat, n < Len(seq)
  PROVE  seq[n + 1] \in X /\ Len(seq) \in Nat /\ n + 1 <= Len(seq)
OBVIOUS

\* While steps are left there is a current one.
LEMMA CurrentTypes ==
  ASSUME RunnerInv, NEW w \in Workers, wpc[w] \in {Executing, InStep}
  PROVE  /\ Current(w) \in [id : STRING, executor : STRING, timeout : Int]
         /\ Len(result[w].steps) \in Nat
         /\ Len(result[w].steps) < Len(held[w].job.plan.steps)
<1>1. /\ held[w].job.plan.steps \in Seq([id : STRING, executor : STRING, timeout : Int])
      /\ Len(result[w].steps) \in Nat
      /\ Len(result[w].steps) < Len(held[w].job.plan.steps)
  BY WorkingTypes DEF ProgressOK
<1> QED
  BY <1>1, NextOf, Zenon DEF Current

\* The executor is called: the log gains an entry, of a trusted envelope.
LEMMA StartStepKeepsInv ==
  ASSUME RunnerInv, NEW w \in Workers, StartStep(w)
  PROVE  RunnerInv'
<1> DEFINE e == held[w].enq
           entry == [step |-> Current(w).id, by |-> w]
<1>1. /\ wpc[w] = Executing /\ wpc' = [wpc EXCEPT ![w] = InStep]
      /\ ran' = [ran EXCEPT ![e] = Append(ran[e], entry)]
      /\ held' = held /\ result' = result /\ recorder' = recorder
      /\ refused' = refused /\ metrics' = metrics /\ now' = now
  BY DEF StartStep, Goto, localVars
<1>2. /\ held[w] \in Offers /\ e \in 1 .. MaxSubmitted
      /\ ran \in [1 .. MaxSubmitted -> Seq(LogEntry)] /\ ran[e] \in Seq(LogEntry)
      /\ entry \in LogEntry /\ Trusted(w, held[w])
  <2> QED
    BY <1>1, CurrentTypes, WorkingTypes DEF RunnerInv, TypesInv, LogEntry, ProgressOK
<1>3. /\ ran'[e] = Append(ran[e], entry) /\ ran'[e] \in Seq(LogEntry)
      /\ \A d \in 1 .. MaxSubmitted \ {e} : ran'[d] = ran[d]
  BY <1>1, <1>2, AppendedTo
<1>4. /\ Len(ran[e]) \in Nat
      /\ DOMAIN ran[e] = 1 .. Len(ran[e]) /\ DOMAIN ran'[e] = 1 .. Len(ran[e]) + 1
      /\ \A n \in 1 .. Len(ran[e]) : ran'[e][n] = ran[e][n]
      /\ ran'[e][Len(ran[e]) + 1] = entry
  BY <1>2, <1>3, AppendedTo
<1>5. TypesInv'
  <2>1. ran' \in [1 .. MaxSubmitted -> Seq(LogEntry)]
    BY <1>1, <1>2, <1>3
  <2> QED
    BY <1>1, <2>1 DEF RunnerInv, TypesInv
<1>6. LogOK'
  <2> SUFFICES ASSUME NEW signed \in Offers, NEW i \in DOMAIN ran'[signed.enq]
               PROVE  Trusted(ran'[signed.enq][i].by, signed)
    BY DEF LogOK, Trusted
  <2>1. CASE signed.enq # e
    BY <1>3, <2>1, OffersAssumption DEF RunnerInv, LogOK
  <2>2. CASE signed.enq = e
    <3>1. signed = held[w]
      BY <1>2, <2>2, OffersAssumption
    <3>2. i \in 1 .. Len(ran[e]) \/ i = Len(ran[e]) + 1
      BY <1>4, <2>2, SMTT(30)
    <3>3. CASE i \in 1 .. Len(ran[e])
      BY <1>4, <2>2, <3>3 DEF RunnerInv, LogOK
    <3>4. CASE i = Len(ran[e]) + 1
      BY <1>2, <1>4, <2>2, <3>1, <3>4
    <3> QED
      BY <3>2, <3>3, <3>4
  <2> QED
    BY <2>1, <2>2
<1>7. \A v \in Workers, signed \in Offers, i \in Nat :
        Called(v, signed, i) => Called(v, signed, i)'
  <2> SUFFICES ASSUME NEW v \in Workers, NEW signed \in Offers, NEW i \in Nat,
                      NEW n \in DOMAIN ran[signed.enq],
                      ran[signed.enq][n].step = signed.job.plan.steps[i].id,
                      ran[signed.enq][n].by = v
               PROVE  /\ n \in DOMAIN ran'[signed.enq]
                      /\ ran'[signed.enq][n] = ran[signed.enq][n]
    BY DEF Called
  <2>1. signed.enq \in 1 .. MaxSubmitted
    BY OffersAssumption
  <2>2. CASE signed.enq = e
    BY <1>4, <2>2, SMTT(30)
  <2>3. CASE signed.enq # e
    BY <1>3, <2>1, <2>3
  <2> QED
    BY <2>2, <2>3
<1>8. \A v \in Workers \ {w} : Untouched(v)
  BY <1>1 DEF RunnerInv, TypesInv, Untouched
<1>9. ASSUME NEW v \in Workers \ {w} PROVE WorkerOK(v)'
  BY <1>7, <1>8, OthersKeepOK DEF RunnerInv
<1>10. WorkerOK(w)'
  <2>1. /\ wpc'[w] = InStep /\ held'[w] = held[w] /\ result'[w] = result[w]
        /\ recorder'[w] = recorder[w] /\ refused'[w] = refused[w]
        /\ metrics'[w] = metrics[w]
    <3>1. wpc \in [Workers -> Working \cup {Idle, Claiming}]
      BY DEF RunnerInv, TypesInv
    <3> QED
      BY <1>1, <3>1
  <2>2. /\ result[w] \in WorkerResults /\ ProgressOK(w) /\ CountsOK(w) /\ EvidenceOK(w)
        /\ \A i \in DOMAIN result[w].steps : i \in Nat
    BY <1>1, WorkingTypes, SMTT(30)
  <2>3. Called(w, held[w], Len(result[w].steps) + 1)'
    <3> DEFINE n == Len(ran[e]) + 1
    <3>1. n \in DOMAIN ran'[e] /\ ran'[e][n].step = Current(w).id /\ ran'[e][n].by = w
      BY <1>4, SMTT(30)
    <3> HIDE DEF n
    <3> QED
      BY <2>1, <3>1 DEF Called, Current
  <2>4. ProgressOK(w)'
    <3> DEFINE steps == result[w].steps
               plan == held[w].job.plan.steps
    <3>1. /\ Len(steps) < Len(plan) /\ Len(steps) <= Len(plan) /\ wpc[w] = Executing
          /\ \A i \in DOMAIN steps :
               /\ Named(steps[i], plan[i]) /\ Called(w, held[w], i)
               /\ steps[i].status = Succeeded
      BY <1>1, <2>2 DEF ProgressOK
    <3>2. \A i \in DOMAIN steps : Called(w, held[w], i)'
      BY <1>2, <1>7, <2>1, <2>2, <3>1
    <3>3. plan[Len(steps) + 1].executor \in Registered
      BY <1>1 DEF StartStep, Current
    <3>4. Trusted(w, held[w])'
      BY <1>2, <2>1 DEF Trusted
    <3> QED
      BY <2>1, <2>3, <3>1, <3>2, <3>3, <3>4, <1>1 DEF ProgressOK, Named
  <2>5. CountsOK(w)' /\ EvidenceOK(w)'
    BY <1>1, <2>1, <2>2 DEF CountsOK, EvidenceOK, Reporting
  <2> QED
    BY <1>2, <2>1, <2>2, <2>4, <2>5 DEF WorkerOK, HeldOK
<1> QED
  BY <1>5, <1>6, <1>9, <1>10 DEF RunnerInv
-----------------------------------------------------------------------------
\* A status that is in Status, whatever the executor said.
LEMMA NormalizedIsStatus ==
  ASSUME NEW status \in ExecStatuses, NEW err \in BOOLEAN
  PROVE  Normalized(status, err) \in Status
<1>1. status \in Status \cup {""}
  BY RunnerAssumption, Zenon
<1> QED
  BY <1>1 DEF Normalized, Status

\* A step of the plan ends: the report gains its result, and the loop goes on
\* only after a success and with a step left.
LEMMA StepEndsKeepsInv ==
  ASSUME RunnerInv, NEW w \in Workers, NEW id \in STRING, NEW status \in Status,
         NEW outputs \in StepOutputs \cup {NoOutput},
         wpc[w] \in {Executing, InStep}, StepEnds(w, id, status, outputs),
         \/ id = Current(w).id
         \/ Current(w).executor \in Registered /\ id \in ExecStepIDs,
         Called(w, held[w], Len(result[w].steps) + 1)
  PROVE  RunnerInv'
<1> DEFINE steps == result[w].steps
           plan == held[w].job.plan.steps
           step == [id |-> id, status |-> status, outputs |-> outputs]
           next == AfterStep(w, status)
           ended == [result[w] EXCEPT !.status = next.status, !.steps = Append(steps, step)]
<1>1. /\ held[w] \in Offers /\ result[w] \in WorkerResults
      /\ steps \in Seq(StepResults) /\ Len(steps) \in Nat /\ Len(plan) \in Nat
      /\ Len(steps) < Len(plan) /\ Trusted(w, held[w])
      /\ \A i \in DOMAIN steps : /\ Named(steps[i], plan[i]) /\ Called(w, held[w], i)
                                 /\ steps[i].status = Succeeded
  <2>1. /\ held[w] \in Offers /\ result[w] \in WorkerResults /\ ProgressOK(w)
        /\ steps \in Seq(StepResults)
        /\ plan \in Seq([id : STRING, executor : STRING, timeout : Int])
    BY WorkingTypes
  <2>2. Len(steps) \in Nat /\ Len(plan) \in Nat
    BY <2>1, Lengths
  <2>3. /\ Len(steps) < Len(plan) /\ Trusted(w, held[w])
        /\ \A i \in DOMAIN steps : /\ Named(steps[i], plan[i]) /\ Called(w, held[w], i)
                                   /\ steps[i].status = Succeeded
    BY <2>1 DEF ProgressOK
  <2> QED
    BY <2>1, <2>2, <2>3
<1>2. step \in StepResults
  BY CurrentTypes DEF StepResults
<1>3. /\ next.place \in {Executed, Executing} /\ next.status \in Status
      /\ next.place = Executing => status = Succeeded /\ Len(steps) + 1 # Len(plan)
      /\ next.place = Executed =>
           next.status = status /\ (status = Succeeded => Len(steps) + 1 = Len(plan))
  BY DEF AfterStep, Status
<1>4. /\ wpc' = [wpc EXCEPT ![w] = next.place]
      /\ result' = [result EXCEPT ![w] = ended]
      /\ held' = held /\ recorder' = recorder /\ refused' = refused
      /\ metrics' = metrics /\ now' = now /\ ran' = ran
  BY DEF StepEnds, Goto
<1>5. /\ Append(steps, step) \in Seq(StepResults)
      /\ Len(Append(steps, step)) = Len(steps) + 1
      /\ DOMAIN steps = 1 .. Len(steps)
      /\ DOMAIN Append(steps, step) = 1 .. Len(steps) + 1
      /\ \A i \in 1 .. Len(steps) : Append(steps, step)[i] = steps[i]
      /\ Append(steps, step)[Len(steps) + 1] = step
      /\ Append(steps, step) # << >>
  BY <1>1, <1>2, AppendedTo
<1>6. /\ ended \in WorkerResults /\ ended.steps = Append(steps, step)
      /\ ended.status = next.status
  <2> DEFINE more == Append(steps, step)
  <2>1. more \in Seq(StepResults)
    BY <1>5
  <2> HIDE DEF more, next
  <2>2. [result[w] EXCEPT !.status = next.status, !.steps = more] \in WorkerResults
    BY <1>1, <1>3, <2>1 DEF WorkerResults
  <2>3. /\ [result[w] EXCEPT !.status = next.status, !.steps = more].steps = more
        /\ [result[w] EXCEPT !.status = next.status, !.steps = more].status = next.status
    BY <1>1 DEF WorkerResults
  <2> QED
    BY <2>2, <2>3 DEF more
<1> HIDE DEF next, ended
<1>7. TypesInv'
  BY <1>3, <1>4, <1>6 DEF RunnerInv, TypesInv
<1>8. \A v \in Workers \ {w} : Untouched(v)
  BY <1>4 DEF RunnerInv, TypesInv, Untouched
<1>9. /\ wpc'[w] = next.place /\ held'[w] = held[w] /\ result'[w] = ended
      /\ recorder'[w] = recorder[w] /\ refused'[w] = refused[w]
      /\ metrics'[w] = metrics[w]
  BY <1>4 DEF RunnerInv, TypesInv
<1>10. ASSUME NEW i \in DOMAIN ended.steps
       PROVE  /\ Named(ended.steps[i], plan[i]) /\ Called(w, held[w], i)
              /\ i < Len(ended.steps) => ended.steps[i].status = Succeeded
  <2>1. i \in 1 .. Len(steps) \/ i = Len(steps) + 1
    BY <1>1, <1>5, <1>6
  <2>2. CASE i \in 1 .. Len(steps)
    BY <1>1, <1>5, <1>6, <2>2
  <2>3. CASE i = Len(steps) + 1
    <3>1. ended.steps[i] = step /\ step.id = id /\ Len(ended.steps) = i
      BY <1>5, <1>6, <2>3
    <3>2. plan[i] = Current(w)
      BY <2>3 DEF Current
    <3>3. Named(ended.steps[i], plan[i])
      BY <3>1, <3>2 DEF Named
    <3> QED
      BY <2>3, <3>1, <3>3
  <2> QED
    BY <2>1, <2>2, <2>3
<1>11. ProgressOK(w)'
  <2>1. /\ Len(ended.steps) = Len(steps) + 1 /\ Len(ended.steps) <= Len(plan)
        /\ ended.steps # << >> /\ ended.steps[Len(ended.steps)].status = status
    <3>1. Len(ended.steps) = Len(steps) + 1 /\ ended.steps # << >>
      BY <1>5, <1>6
    <3>2. Len(steps) + 1 <= Len(plan)
      BY <1>1, SMTT(30)
    <3>3. ended.steps[Len(steps) + 1] = step /\ step.status = status
      BY <1>5, <1>6
    <3> HIDE DEF steps, plan, step
    <3> QED
      BY <3>1, <3>2, <3>3
  <2>2. \A i \in DOMAIN ended.steps :
          /\ Named(ended.steps[i], plan[i]) /\ Called(w, held[w], i)'
          /\ i < Len(ended.steps) => ended.steps[i].status = Succeeded
    BY <1>4, <1>10 DEF Called
  <2>3. next.place = Executing =>
          /\ Len(ended.steps) < Len(plan)
          /\ \A i \in DOMAIN ended.steps : ended.steps[i].status = Succeeded
    <3> SUFFICES ASSUME next.place = Executing PROVE
                   /\ Len(ended.steps) < Len(plan)
                   /\ \A i \in DOMAIN ended.steps : ended.steps[i].status = Succeeded
      OBVIOUS
    <3>1. Len(ended.steps) < Len(plan)
      BY <1>1, <1>3, <2>1
    <3>2. \A i \in DOMAIN ended.steps : i < Len(ended.steps) \/ i = Len(ended.steps)
      BY <1>1, <1>5, <1>6
    <3> QED
      BY <1>3, <2>1, <2>2, <3>1, <3>2
  <2>4. next.place = Executed =>
          (ended.status = Succeeded <=>
             /\ ended.steps # << >> /\ Len(ended.steps) = Len(plan)
             /\ ended.steps[Len(ended.steps)].status = Succeeded)
    BY <1>1, <1>3, <1>6, <2>1
  <2>5. Trusted(w, held[w])' /\ plan' = plan
    BY <1>1, <1>4 DEF Trusted
  <2> QED
    BY <1>3, <1>9, <2>1, <2>2, <2>3, <2>4, <2>5 DEF ProgressOK
<1>12. CountsOK(w)' /\ EvidenceOK(w)'
  BY <1>3, <1>9, WorkingTypes DEF CountsOK, EvidenceOK, Reporting
<1> QED
  BY <1>1, <1>3, <1>4, <1>6, <1>7, <1>8, <1>9, <1>11, <1>12, QuietStep
     DEF WorkerOK, HeldOK

\* A step ends because it has no executor, or because its executor returns.
LEMMA StepsKeepInv ==
  ASSUME RunnerInv, NEW w \in Workers,
         \/ Unregistered(w)
         \/ \E id \in ExecStepIDs, status \in ExecStatuses, err \in BOOLEAN,
               o \in StepOutputs : FinishStep(w, id, status, err, o)
  PROVE  RunnerInv'
<1>1. CASE Unregistered(w)
  <2>1. /\ wpc[w] = Executing /\ StepEnds(w, Current(w).id, Failed, NoOutput)
        /\ Called(w, held[w], Len(result[w].steps) + 1)
    BY <1>1 DEF Unregistered, Called, Current
  <2>2. /\ Failed \in Status /\ NoOutput \in StepOutputs \cup {NoOutput}
        /\ Current(w).id \in STRING
    BY <2>1, CurrentTypes DEF Status
  <2> QED
    BY <2>1, <2>2, StepEndsKeepsInv, SMTT(30)
<1>2. ASSUME NEW id \in ExecStepIDs, NEW status \in ExecStatuses, NEW err \in BOOLEAN,
             NEW o \in StepOutputs, FinishStep(w, id, status, err, o)
      PROVE  RunnerInv'
  <2>1. wpc[w] = InStep /\ StepEnds(w, ReportedID(w, id), Normalized(status, err), o)
    BY <1>2 DEF FinishStep
  <2>4. /\ ReportedID(w, id) \in STRING
        /\ \/ ReportedID(w, id) = Current(w).id
           \/ Current(w).executor \in Registered /\ ReportedID(w, id) \in ExecStepIDs
    <3>1. id \in STRING /\ Current(w).id \in STRING
      BY <2>1, CurrentTypes, RunnerAssumption
    <3>2. Current(w).executor \in Registered
      BY <2>1, WorkingTypes DEF ProgressOK, Current
    <3> QED
      BY <3>1, <3>2 DEF ReportedID
  <2>2. Called(w, held[w], Len(result[w].steps) + 1)
    BY <2>1, WorkingTypes DEF ProgressOK
  <2>3. Normalized(status, err) \in Status
    BY NormalizedIsStatus
  <2> QED
    BY <2>1, <2>2, <2>3, <2>4, StepEndsKeepsInv
<1> QED
  BY <1>1, <1>2

-----------------------------------------------------------------------------
\* The bundle is recorded before the result is sent.
LEMMA ReportKeepsInv ==
  ASSUME RunnerInv, NEW w \in Workers, Report(w)
  PROVE  RunnerInv'
<1> DEFINE bundle == Evidence(w)
<1>1. /\ wpc[w] \in Recording /\ wpc' = [wpc EXCEPT ![w] = Completing]
      /\ recorder' = [recorder EXCEPT ![w] = Append(recorder[w], bundle)]
      /\ held' = held /\ result' = result /\ refused' = refused /\ metrics' = metrics
      /\ now' = now /\ ran' = ran
  BY DEF Report, ReportUnverified, ReportUnmatched, ReportExecuted, RecordAndComplete,
         Recorded, Goto
<1>2. /\ bundle \in Bundles /\ recorder[w] \in Seq(Bundles)
      /\ held[w] \in Offers /\ result[w] \in WorkerResults /\ ProgressOK(w)
      /\ CountsOK(w) /\ EvidenceOK(w) /\ bundle.status = result[w].status
  <2>1. /\ held[w] \in Offers /\ result[w] \in WorkerResults /\ ProgressOK(w)
        /\ CountsOK(w) /\ EvidenceOK(w)
    BY <1>1, WorkingTypes
  <2>2. bundle \in Bundles /\ bundle.status = result[w].status
    BY <2>1 DEF Evidence, Bundles, WorkerResults
  <2> QED
    BY <2>1, <2>2, MetricsTypes
<1> HIDE DEF bundle
<1>3. Append(recorder[w], bundle) \in Seq(Bundles)
  BY <1>2, AppendedTo
<1>4. TypesInv'
  BY <1>1, <1>3 DEF RunnerInv, TypesInv
<1>5. \A v \in Workers \ {w} : Untouched(v)
  BY <1>1 DEF RunnerInv, TypesInv, Untouched
<1>6. /\ wpc'[w] = Completing /\ held'[w] = held[w] /\ result'[w] = result[w]
      /\ recorder'[w] = Append(recorder[w], bundle) /\ metrics'[w] = metrics[w]
      /\ refused'[w] = refused[w]
  BY <1>1, SMTT(30) DEF RunnerInv, TypesInv
<1>7. ProgressOK(w)'
  BY <1>1, <1>2, <1>6 DEF ProgressOK, Trusted, Called
<1>8. CountsOK(w)'
  BY <1>1, <1>2, <1>6 DEF CountsOK
<1>9. EvidenceOK(w)'
  <2>1. /\ refused[w].succeeded \in Nat /\ refused[w].failed \in Nat
        /\ metrics[w].succeeded \in Nat /\ metrics[w].failed \in Nat
    BY MetricsTypes
  <2>2. Reporting(w, TRUE) = 0 /\ Reporting(w, FALSE) = 0
    BY <1>1 DEF Reporting
  <2> DEFINE one == IF result[w].status = Succeeded THEN 1 ELSE 0
             more == Append(recorder[w], bundle)
  <2>3. Reporting(w, TRUE)' = one /\ Reporting(w, FALSE)' = 1 - one
    <3>1. result'[w].status = result[w].status /\ wpc'[w] = Completing
      BY <1>6
    <3>2. CASE result[w].status = Succeeded
      BY <3>1, <3>2 DEF Reporting
    <3>3. CASE result[w].status # Succeeded
      BY <3>1, <3>3 DEF Reporting
    <3> QED
      BY <3>2, <3>3
  <2>4. /\ Outcomes(more, TRUE) = Outcomes(recorder[w], TRUE) + one
        /\ Outcomes(more, FALSE) = Outcomes(recorder[w], FALSE) + (1 - one)
        /\ Outcomes(recorder[w], TRUE) \in Nat /\ Outcomes(recorder[w], FALSE) \in Nat
        /\ one \in {0, 1}
    <3>1. (IF bundle.status = Succeeded THEN 0 ELSE 1) = 1 - one
      BY <1>2
    <3>2. (IF bundle.status = Succeeded THEN 1 ELSE 0) = one
      BY <1>2
    <3> QED
      BY <1>2, <3>1, <3>2, BundleCounted, OutcomesCounted
  <2>5. Outcomes(recorder[w], TRUE)' = Outcomes(more, TRUE)
        /\ Outcomes(recorder[w], FALSE)' = Outcomes(more, FALSE)
    BY <1>6 DEF Outcomes
  <2> HIDE DEF one, more
  <2> QED
    <3>1. /\ Outcomes(recorder[w], TRUE) + refused[w].succeeded = metrics[w].succeeded + 0
          /\ Outcomes(recorder[w], FALSE) + refused[w].failed = metrics[w].failed + 0
      BY <1>2, <2>2 DEF EvidenceOK
    <3>3. one \in Nat /\ 1 - one \in Nat
      BY <2>4
    <3> DEFINE good == Outcomes(recorder[w], TRUE)
               bad == Outcomes(recorder[w], FALSE)
    <3>4. /\ good + refused[w].succeeded = metrics[w].succeeded + 0 /\ good \in Nat
          /\ bad + refused[w].failed = metrics[w].failed + 0 /\ bad \in Nat
      BY <2>4, <3>1
    <3>5. /\ (good + one) + refused[w].succeeded = metrics[w].succeeded + one
          /\ (bad + (1 - one)) + refused[w].failed = metrics[w].failed + (1 - one)
      <4> HIDE DEF good, bad
      <4> QED
        BY <2>1, <3>3, <3>4
    <3>2. /\ Outcomes(more, TRUE) + refused[w].succeeded = metrics[w].succeeded + one
          /\ Outcomes(more, FALSE) + refused[w].failed = metrics[w].failed + (1 - one)
      BY <2>4, <3>5, Zenon
    <3> QED
      BY <1>6, <2>3, <2>5, <3>2 DEF EvidenceOK
<1> QED
  BY <1>1, <1>2, <1>4, <1>5, <1>6, <1>7, <1>8, <1>9, QuietStep DEF WorkerOK, HeldOK

\* RunOnce returns: the deferred JobFinished takes the job off the gauge.
LEMMA ReturnKeepsInv ==
  ASSUME RunnerInv, NEW w \in Workers, RecordFails(w) \/ CompleteReturns(w)
  PROVE  RunnerInv'
<1> DEFINE m == metrics[w]
           n == JobFinished(m, result[w].status)
           r == refused[w]
           more == RefusedOne(r, result[w].status)
<1>1. /\ \/ wpc[w] \in Recording /\ refused' = [refused EXCEPT ![w] = more]
         \/ wpc[w] = Completing /\ refused' = refused
      /\ wpc' = [wpc EXCEPT ![w] = Idle] /\ held' = [held EXCEPT ![w] = None]
      /\ result' = [result EXCEPT ![w] = None]
      /\ metrics' = [metrics EXCEPT ![w] = n]
      /\ recorder' = recorder /\ now' = now /\ ran' = ran
  BY DEF RecordFails, CompleteReturns, Return, Goto
<1>2. /\ CountsOK(w) /\ m \in Counts /\ m.active = 1
      /\ r \in [succeeded : Nat, failed : Nat] /\ EvidenceOK(w)
  BY <1>1, WorkingTypes, MetricsTypes DEF CountsOK
<1>3. n = [started |-> m.started,
           succeeded |-> IF result[w].status = Succeeded THEN m.succeeded + 1
                                                         ELSE m.succeeded,
           failed |-> IF result[w].status = Succeeded THEN m.failed ELSE m.failed + 1,
           active |-> m.active - 1]
  BY <1>2, JobFinishedCounts
<1>4. /\ more \in [succeeded : Nat, failed : Nat]
      /\ more.succeeded = IF result[w].status = Succeeded THEN r.succeeded + 1
                                                          ELSE r.succeeded
      /\ more.failed = IF result[w].status = Succeeded THEN r.failed ELSE r.failed + 1
  BY <1>2, RefusedCounts
<1> HIDE DEF n, more
<1>5. /\ m.started \in Nat /\ m.succeeded \in Nat /\ m.failed \in Nat
      /\ m.active - 1 = 0
  BY <1>2, MetricsTypes
<1>6. /\ n \in Counts /\ n.started = m.started /\ n.active = 0
      /\ n.succeeded = IF result[w].status = Succeeded THEN m.succeeded + 1
                                                       ELSE m.succeeded
      /\ n.failed = IF result[w].status = Succeeded THEN m.failed ELSE m.failed + 1
  BY <1>3, <1>5 DEF Counts
<1>7. TypesInv'
  BY <1>1, <1>4, <1>6 DEF RunnerInv, TypesInv
<1>8. \A v \in Workers \ {w} : Untouched(v)
  BY <1>1 DEF RunnerInv, TypesInv, Untouched
<1>9. /\ wpc'[w] = Idle /\ held'[w] = None /\ result'[w] = None
      /\ recorder'[w] = recorder[w] /\ metrics'[w] = n
      /\ \/ wpc[w] \in Recording /\ refused'[w] = more
         \/ wpc[w] = Completing /\ refused'[w] = r
  BY <1>1 DEF RunnerInv, TypesInv
<1>10. CountsOK(w)'
  <2>1. m.started = m.succeeded + m.failed + 1
    BY <1>2 DEF CountsOK
  <2>2. n.started = n.succeeded + n.failed + n.active
    BY <1>5, <1>6, <2>1
  <2> QED
    BY <1>6, <1>9, <2>2 DEF CountsOK
<1>11. EvidenceOK(w)'
  <2> DEFINE good == Outcomes(recorder[w], TRUE)
             bad == Outcomes(recorder[w], FALSE)
  <2>1. r.succeeded \in Nat /\ r.failed \in Nat
    BY <1>2
  <2>2. good \in Nat /\ bad \in Nat
    BY MetricsTypes, OutcomesCounted
  <2>3. Reporting(w, TRUE)' = 0 /\ Reporting(w, FALSE)' = 0
    BY <1>9 DEF Reporting
  <2>4. /\ good + r.succeeded = m.succeeded + Reporting(w, TRUE)
        /\ bad + r.failed = m.failed + Reporting(w, FALSE)
    BY <1>2 DEF EvidenceOK
  <2>7. ASSUME good + refused'[w].succeeded = n.succeeded,
               bad + refused'[w].failed = n.failed
        PROVE  EvidenceOK(w)'
    <3>1. /\ Outcomes(recorder[w], TRUE)' = good /\ Outcomes(recorder[w], FALSE)' = bad
          /\ metrics'[w] = n
      BY <1>9 DEF Outcomes
    <3> HIDE DEF good, bad
    <3>2. n.succeeded + 0 = n.succeeded /\ n.failed + 0 = n.failed
      BY <1>6 DEF Counts
    <3> QED
      BY <2>3, <2>7, <3>1, <3>2 DEF EvidenceOK
  <2>5. CASE wpc[w] \in Recording /\ refused'[w] = more
    <3>1. Reporting(w, TRUE) = 0 /\ Reporting(w, FALSE) = 0
      BY <2>5 DEF Reporting
    <3>2. good + more.succeeded = n.succeeded /\ bad + more.failed = n.failed
      <4>1. good + r.succeeded = m.succeeded /\ bad + r.failed = m.failed
        <5>1. good + r.succeeded = m.succeeded + 0 /\ bad + r.failed = m.failed + 0
          BY <2>4, <3>1, Zenon
        <5> HIDE DEF good, bad
        <5> QED
          BY <1>5, <2>1, <2>2, <5>1
      <4> HIDE DEF good, bad, r, m
      <4>2. CASE result[w].status = Succeeded
        BY <1>4, <1>5, <1>6, <2>1, <2>2, <4>1, <4>2
      <4>3. CASE result[w].status # Succeeded
        BY <1>4, <1>5, <1>6, <2>1, <2>2, <4>1, <4>3
      <4> QED
        BY <4>2, <4>3
    <3> QED
      BY <1>9, <2>5, <3>2, <2>7
  <2>6. CASE wpc[w] = Completing /\ refused'[w] = r
    <3>2. good + r.succeeded = n.succeeded /\ bad + r.failed = n.failed
      <4>1. CASE result[w].status = Succeeded
        <5>1. Reporting(w, TRUE) = 1 /\ Reporting(w, FALSE) = 0
          BY <2>6, <4>1 DEF Reporting
        <5>4. good + r.succeeded = m.succeeded + 1 /\ bad + r.failed = m.failed + 0
          BY <2>4, <5>1, Zenon
        <5>2. good + r.succeeded = m.succeeded + 1 /\ bad + r.failed = m.failed
          <6> HIDE DEF good, bad
          <6> QED
            BY <1>5, <2>1, <2>2, <5>4
        <5>3. n.succeeded = m.succeeded + 1 /\ n.failed = m.failed
          BY <1>6, <4>1, Zenon
        <5> QED
          BY <5>2, <5>3, Zenon
      <4>2. CASE result[w].status # Succeeded
        <5>1. Reporting(w, TRUE) = 0 /\ Reporting(w, FALSE) = 1
          BY <2>6, <4>2 DEF Reporting
        <5>4. good + r.succeeded = m.succeeded + 0 /\ bad + r.failed = m.failed + 1
          BY <2>4, <5>1, Zenon
        <5>2. good + r.succeeded = m.succeeded /\ bad + r.failed = m.failed + 1
          <6> HIDE DEF good, bad
          <6> QED
            BY <1>5, <2>1, <2>2, <5>4
        <5>3. n.succeeded = m.succeeded /\ n.failed = m.failed + 1
          BY <1>6, <4>2, Zenon
        <5> QED
          BY <5>2, <5>3, Zenon
      <4> QED
        BY <4>1, <4>2
    <3> QED
      BY <1>9, <2>6, <3>2, <2>7
  <2> QED
    BY <1>9, <2>5, <2>6
<1> QED
  BY <1>1, <1>7, <1>8, <1>9, <1>10, <1>11, QuietStep DEF WorkerOK, HeldOK

\* A crash empties everything at the worker, and nothing else.
LEMMA CrashKeepsInv ==
  ASSUME RunnerInv, NEW w \in Workers, Crash(w)
  PROVE  RunnerInv'
<1>1. /\ wpc' = [wpc EXCEPT ![w] = Idle] /\ held' = [held EXCEPT ![w] = None]
      /\ result' = [result EXCEPT ![w] = None]
      /\ recorder' = [recorder EXCEPT ![w] = << >>]
      /\ refused' = [refused EXCEPT ![w] = ZeroRefused]
      /\ metrics' = [metrics EXCEPT ![w] = ZeroMetrics]
      /\ now' = now /\ ran' = ran
  BY DEF Crash, Goto
<1>2. /\ ZeroMetrics \in Counts /\ << >> \in Seq(Bundles)
      /\ ZeroRefused \in [succeeded : Nat, failed : Nat]
  BY DEF ZeroMetrics, Counts, ZeroRefused
<1>3. TypesInv'
  BY <1>1, <1>2 DEF RunnerInv, TypesInv
<1>4. \A v \in Workers \ {w} : Untouched(v)
  BY <1>1 DEF RunnerInv, TypesInv, Untouched
<1>5. /\ wpc'[w] = Idle /\ held'[w] = None /\ result'[w] = None
      /\ recorder'[w] = << >> /\ refused'[w] = ZeroRefused /\ metrics'[w] = ZeroMetrics
  BY <1>1 DEF RunnerInv, TypesInv
<1>6. HeldOK(w)' /\ CountsOK(w)'
  BY <1>5 DEF HeldOK, CountsOK, ZeroMetrics
<1>7. EvidenceOK(w)'
  <2>1. /\ Outcomes(recorder[w], TRUE)' = 0 /\ Outcomes(recorder[w], FALSE)' = 0
        /\ Reporting(w, TRUE)' = 0 /\ Reporting(w, FALSE)' = 0
    BY <1>5, NoOutcomes DEF Reporting, Outcomes
  <2>2. /\ refused'[w].succeeded = 0 /\ refused'[w].failed = 0
        /\ metrics'[w].succeeded = 0 /\ metrics'[w].failed = 0
    BY <1>5 DEF ZeroMetrics, ZeroRefused
  <2> QED
    BY <2>1, <2>2, Zenon DEF EvidenceOK
<1> QED
  BY <1>1, <1>3, <1>4, <1>6, <1>7, QuietStep DEF WorkerOK

\* A clock, or nothing, moves.
LEMMA SetClockKeepsInv ==
  ASSUME RunnerInv,
         \/ \E w \in Workers, time \in 0 .. MaxTime : SetClock(w, time)
         \/ UNCHANGED runnerVars
  PROVE  RunnerInv'
<1>1. /\ UNCHANGED <<wpc, held, result, recorder, refused, metrics, ran>>
      /\ now' \in [Workers -> 0 .. MaxTime]
  BY DEF SetClock, localVars, runnerVars, RunnerInv, TypesInv
<1>2. TypesInv' /\ LogOK'
  BY <1>1 DEF RunnerInv, TypesInv, LogOK, Trusted
<1>3. ASSUME NEW w \in Workers PROVE WorkerOK(w)'
  <2>1. Untouched(w) /\ WorkerOK(w)
    BY <1>1 DEF Untouched, RunnerInv
  <2>2. \A signed \in Offers, i \in Nat : Called(w, signed, i) => Called(w, signed, i)'
    BY <1>1 DEF Called
  <2> QED
    BY <2>1, <2>2, OthersKeepOK
<1> QED
  BY <1>2, <1>3 DEF RunnerInv

\* Every step of RunnerSpec keeps the invariant.
LEMMA RunnerStep == RunnerInv /\ [RunnerNext]_runnerVars => RunnerInv'
<1> SUFFICES ASSUME RunnerInv, [RunnerNext]_runnerVars PROVE RunnerInv'
  OBVIOUS
<1>1. ASSUME NEW w \in Workers, Poll(w) \/ ClaimFailed(w) PROVE RunnerInv'
  BY <1>1, PollKeepsInv
<1>2. ASSUME NEW w \in Workers, DenyUnverified(w) \/ DenyUnmatched(w) \/ Accept(w)
      PROVE  RunnerInv'
  BY <1>2, VerifyKeepsInv
<1>3. ASSUME NEW w \in Workers, StartStep(w) PROVE RunnerInv'
  BY <1>3, StartStepKeepsInv
<1>4. ASSUME NEW w \in Workers,
             \/ Unregistered(w)
             \/ \E id \in ExecStepIDs, status \in ExecStatuses, err \in BOOLEAN,
                   o \in StepOutputs : FinishStep(w, id, status, err, o)
      PROVE  RunnerInv'
  BY <1>4, StepsKeepInv
<1>5. ASSUME NEW w \in Workers, Report(w) PROVE RunnerInv'
  BY <1>5, ReportKeepsInv
<1>6. ASSUME NEW w \in Workers, RecordFails(w) \/ CompleteReturns(w) PROVE RunnerInv'
  BY <1>6, ReturnKeepsInv
<1>7. ASSUME NEW w \in Workers, Crash(w) PROVE RunnerInv'
  BY <1>7, CrashKeepsInv
<1>8. ASSUME NEW w \in Workers, NEW signed \in Offers, Offered(w, signed)
      PROVE  RunnerInv'
  BY <1>8, ClaimedKeepsInv DEF Offered
<1>9. CASE \/ \E w \in Workers, time \in 0 .. MaxTime : SetClock(w, time)
           \/ UNCHANGED runnerVars
  BY <1>9, SetClockKeepsInv
<1> QED
  BY <1>1, <1>2, <1>3, <1>4, <1>5, <1>6, <1>7, <1>8, <1>9 DEF RunnerNext

\* The runner's inductive invariant holds.
THEOREM RunnerCorrect == RunnerSpec => []RunnerInv
  BY RunnerInitOK, RunnerStep, PTL DEF RunnerSpec

-----------------------------------------------------------------------------
\* A worker has an envelope and a result exactly while RunOnce works on them.
THEOREM RunnerTypesOK == RunnerSpec => []RunnerTypeOK
<1>1. RunnerInv => RunnerTypeOK
  <2> SUFFICES ASSUME RunnerInv PROVE RunnerTypeOK
    OBVIOUS
  <2>1. ASSUME NEW w \in Workers
        PROVE  IF wpc[w] \in Working
                 THEN /\ held[w].enq \in 1 .. MaxSubmitted
                      /\ result[w] \in WorkerResults
                      /\ Len(result[w].steps) <= Len(held[w].job.plan.steps)
                 ELSE held[w] = None /\ result[w] = None
    <3>1. CASE wpc[w] \in Working
      BY <3>1, WorkingTypes DEF ProgressOK
    <3>2. CASE wpc[w] \notin Working
      BY <3>2 DEF RunnerInv, WorkerOK, HeldOK
    <3> QED
      BY <3>1, <3>2
  <2> QED
    BY <2>1 DEF RunnerTypeOK, RunnerInv, TypesInv
<1> QED
  BY <1>1, RunnerCorrect, PTL

\* Whatever a source hands out, only jobs that verify with the worker's secret
\* and match its selector have a step started.
THEOREM UntrustedJobsNeverRun == RunnerSpec => []OnlyTrustedJobsRun
<1>1. RunnerInv => OnlyTrustedJobsRun
  BY DEF RunnerInv, LogOK, OnlyTrustedJobsRun, Trusted
<1> QED
  BY <1>1, RunnerCorrect, PTL

\* No step runs of a plan with an open required gate or a failed required check.
THEOREM GatesAreHeld == RunnerSpec => []GatesHeld
<1>1. RunnerInv => GatesHeld
  <2> SUFFICES ASSUME RunnerInv, NEW signed \in Offers, ran[signed.enq] # << >>
               PROVE  ValidJob(signed.job)
    BY DEF GatesHeld, ValidJob, ValidPlan, ValidGates, ValidChecks
  <2>1. ran[signed.enq] \in Seq(LogEntry)
    BY OffersAssumption DEF RunnerInv, TypesInv
  <2>2. 1 \in DOMAIN ran[signed.enq]
    BY <2>1, SMTT(30)
  <2> QED
    BY <2>2 DEF RunnerInv, LogOK, Trusted
<1> QED
  BY <1>1, RunnerCorrect, PTL

\* Two step results of a report share an ID only if executors chose it.
THEOREM ReportsNameSteps == RunnerSpec => []ReportNamesSteps
<1>1. RunnerInv => ReportNamesSteps
  <2> SUFFICES ASSUME RunnerInv, NEW w \in Workers, wpc[w] \in Working,
                      NEW i \in DOMAIN result[w].steps, NEW k \in DOMAIN result[w].steps,
                      result[w].steps[i].id = result[w].steps[k].id,
                      result[w].steps[i].id \notin ExecStepIDs
               PROVE  i = k
    BY DEF ReportNamesSteps
  <2> DEFINE plan == held[w].job.plan.steps
             steps == result[w].steps
  <2>1. /\ plan \in Seq([id : STRING, executor : STRING, timeout : Int])
        /\ steps \in Seq(StepResults) /\ ProgressOK(w)
    BY WorkingTypes
  <2>2. /\ Len(steps) <= Len(plan)
        /\ Named(steps[i], plan[i]) /\ Named(steps[k], plan[k])
    BY <2>1 DEF ProgressOK
  <2>3. plan[i].id = plan[k].id
    BY <2>2 DEF Named
  <2> HIDE DEF steps, plan
  <2>4. /\ DOMAIN steps = 1 .. Len(steps) /\ Len(steps) \in Nat
        /\ DOMAIN plan = 1 .. Len(plan) /\ Len(plan) \in Nat
    BY <2>1, Lengths
  <2>5. i \in 1 .. Len(steps) /\ k \in 1 .. Len(steps)
    BY <2>4 DEF steps
  <2>6. i \in DOMAIN plan /\ k \in DOMAIN plan /\ steps # << >>
    BY <2>2, <2>4, <2>5
  <2>7. ValidSteps(plan)
    BY <2>1, <2>6 DEF ProgressOK, Trusted, ValidJob, ValidPlan, steps, plan
  <2>8. UniqueIDs(plan) /\ \A n \in DOMAIN plan : IsToken(plan[n].id)
    BY <2>7 DEF ValidSteps, ValidIDs
  <2> QED
    BY <2>3, <2>6, <2>8 DEF UniqueIDs
<1> QED
  BY <1>1, RunnerCorrect, PTL

(***************************************************************************)
(* On every way through RunOnce, a job is counted under the outcome of the *)
(* bundle recorded for it, or refused by the recorder, crashes included.   *)
(***************************************************************************)
THEOREM EvidenceIsBalanced == RunnerSpec => []EvidenceBalanced
<1>1. RunnerInv => EvidenceBalanced
  BY DEF RunnerInv, WorkerOK, EvidenceOK, EvidenceBalanced
<1> QED
  BY <1>1, RunnerCorrect, PTL

\* The counters add up at every moment, crashes and failing recorders included.
THEOREM CollectorBalanced == RunnerSpec => []MetricsBalanced
<1>1. RunnerInv => MetricsBalanced
  BY DEF RunnerInv, WorkerOK, CountsOK, MetricsBalanced
<1> QED
  BY <1>1, RunnerCorrect, PTL

\* The i-th step result of a report is of the plan's i-th step, which was really
\* executed, and success means that all of them succeeded.
THEOREM ReportsAreTrue == RunnerSpec => []ReportIsTrue
<1>1. RunnerInv => ReportIsTrue
  <2> SUFFICES ASSUME RunnerInv, NEW w \in Workers, wpc[w] \in Recording \cup {Completing}
               PROVE  ProgressOK(w)
    BY DEF ReportIsTrue, ProgressOK, Called, Named
  <2> QED
    BY WorkingTypes
<1> QED
  BY <1>1, RunnerCorrect, PTL

-----------------------------------------------------------------------------
\* A job that is over at worker w has a terminal status.
Ended(w) ==
  wpc[w] \in Recording \cup {Completing} => result[w].status \notin {Pending, Running}

LEMMA StepKeepsEnded ==
  ASSUME Pending \notin ExecStatuses, Running \notin ExecStatuses,
         RunnerInv, [RunnerNext]_runnerVars, \A w \in Workers : Ended(w)
  PROVE  \A w \in Workers : Ended(w)'
<1>1. /\ wpc = [w \in Workers |-> wpc[w]] /\ result = [w \in Workers |-> result[w]]
      /\ \A w \in Workers : wpc[w] \in Working => result[w] \in WorkerResults
  BY WorkingTypes DEF RunnerInv, TypesInv
<1>2. ASSUME NEW w \in Workers, NEW place, NEW status, Goto(w, place),
             place \in Recording \cup {Completing} => status \notin {Pending, Running},
             \A v \in Workers : result'[v] = result[v] \/ v = w,
             result'[w].status = status
      PROVE  \A v \in Workers : Ended(v)'
  <2>1. \A v \in Workers : wpc'[v] = IF v = w THEN place ELSE wpc[v]
    BY <1>1, <1>2 DEF Goto
  <2> QED
    BY <1>2, <2>1 DEF Ended
<1>3. ASSUME NEW w \in Workers, NEW place, place \notin Recording \cup {Completing},
             Goto(w, place),
             \A v \in Workers : result'[v] = result[v] \/ v = w
      PROVE  \A v \in Workers : Ended(v)'
  BY <1>2, <1>3
<1>4. ASSUME NEW w \in Workers,
             \/ Poll(w) \/ ClaimFailed(w) \/ Accept(w) \/ StartStep(w) \/ RecordFails(w)
             \/ CompleteReturns(w) \/ Crash(w)
             \/ \E signed \in Offers : Offered(w, signed)
      PROVE  \A v \in Workers : Ended(v)'
  <2>1. \A v \in Workers : result'[v] = result[v] \/ v = w
    BY <1>1, <1>4 DEF Poll, ClaimFailed, Accept, StartStep, RecordFails, CompleteReturns,
                      Crash, Offered, Claimed, Return, localVars
  <2>2. \E place : Goto(w, place) /\ place \notin Recording \cup {Completing}
    BY <1>4 DEF Poll, ClaimFailed, Accept, StartStep, RecordFails, CompleteReturns,
                Crash, Offered, Claimed, Return
  <2> QED
    BY <1>3, <2>1, <2>2
<1>5. ASSUME NEW w \in Workers, DenyUnverified(w) \/ DenyUnmatched(w)
      PROVE  \A v \in Workers : Ended(v)'
  <2>1. PICK place : DenyAt(w, place) /\ wpc[w] = Verifying
    BY <1>5 DEF DenyUnverified, DenyUnmatched
  <2>2. /\ Goto(w, place) /\ result'[w].status = Denied
        /\ \A v \in Workers : result'[v] = result[v] \/ v = w
    BY <1>1, <2>1 DEF DenyAt, WorkerResults
  <2> QED
    BY <1>2, <2>2 DEF Denied, Pending, Running
<1>6. ASSUME NEW w \in Workers, Report(w) PROVE \A v \in Workers : Ended(v)'
  <2>1. wpc[w] \in Recording /\ Goto(w, Completing) /\ result' = result
    BY <1>6 DEF Report, ReportUnverified, ReportUnmatched, ReportExecuted, RecordAndComplete
  <2>2. result[w].status \notin {Pending, Running}
    BY <2>1 DEF Ended
  <2> QED
    BY <1>2, <2>1, <2>2
<1>7. ASSUME NEW w \in Workers, NEW id, NEW status, NEW outputs,
             StepEnds(w, id, status, outputs), wpc[w] \in Working, status \notin {Pending, Running}
      PROVE  \A v \in Workers : Ended(v)'
  <2>1. PICK next : next = AfterStep(w, status)
    OBVIOUS
  <2>2. /\ Goto(w, next.place) /\ result'[w].status = next.status
        /\ \A v \in Workers : result'[v] = result[v] \/ v = w
    BY <1>1, <1>7, <2>1 DEF StepEnds, WorkerResults
  <2>3. next.place \in Recording \cup {Completing} => next.status \notin {Pending, Running}
    BY <1>7, <2>1 DEF AfterStep
  <2> QED
    BY <1>2, <2>2, <2>3
<1>8. ASSUME NEW w \in Workers, Unregistered(w) PROVE \A v \in Workers : Ended(v)'
  BY <1>7, <1>8 DEF Unregistered, Failed, Pending, Running
<1>9. ASSUME NEW w \in Workers, NEW id \in ExecStepIDs, NEW status \in ExecStatuses,
             NEW err \in BOOLEAN, NEW o \in StepOutputs, FinishStep(w, id, status, err, o)
      PROVE  \A v \in Workers : Ended(v)'
  <2>1. Normalized(status, err) \notin {Pending, Running}
    <3>1. Failed \notin {Pending, Running} /\ Succeeded \notin {Pending, Running}
      BY DEF Failed, Succeeded, Pending, Running
    <3>2. Normalized(status, err) \in {Failed, Succeeded, status}
      BY DEF Normalized
    <3> QED
      BY <3>1, <3>2
  <2> QED
    BY <1>7, <1>9, <2>1 DEF FinishStep
<1>10. CASE \/ \E w \in Workers, time \in 0 .. MaxTime : SetClock(w, time)
            \/ UNCHANGED runnerVars
  BY <1>10 DEF SetClock, runnerVars, localVars, Ended
<1> QED
  BY <1>4, <1>5, <1>6, <1>8, <1>9, <1>10 DEF RunnerNext

(***************************************************************************)
(* A worker sends terminal results only, provided executors do not answer  *)
(* "pending" or "running": RunOnce itself, on each of its paths, makes no  *)
(* such result.  The proviso is needed (finding TerminalResult).           *)
(***************************************************************************)
THEOREM ReportsAreTerminal ==
  ASSUME Pending \notin ExecStatuses, Running \notin ExecStatuses
  PROVE  RunnerSpec => []TerminalResult
<1>1. RunnerInit => \A w \in Workers : Ended(w)
  BY DEF RunnerInit, Ended
<1>2. RunnerInv /\ (\A w \in Workers : Ended(w)) /\ [RunnerNext]_runnerVars
        => (\A w \in Workers : Ended(w))'
  BY StepKeepsEnded
<1>3. (\A w \in Workers : Ended(w)) => TerminalResult
  BY DEF Ended, TerminalResult
<1> QED
  BY <1>1, <1>2, <1>3, RunnerCorrect, PTL DEF RunnerSpec
=============================================================================
