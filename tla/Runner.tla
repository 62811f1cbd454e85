------------------------------- MODULE Runner -------------------------------
(***************************************************************************)
(* pkg/worker/runner.go as cmd/pk-deploy-worker wires it: worker processes *)
(* that, one job at a time, claim a job from a source, verify it, execute  *)
(* its plan step by step, record evidence locally and report the result to *)
(* the source.  RunOnce is cut at every point where the worker waits for   *)
(* something else (the source, an executor) or reads the clock.            *)
(***************************************************************************)
EXTENDS Deploy, SequencesExt

CONSTANTS
  Workers,          \* worker processes
  Info,             \* worker -> [capabilities, labels], as configured
  KeyOf,            \* worker -> the secret it is configured with
  Registered,       \* executor names in the workers' registry
  ExecStatuses,     \* statuses executors put in their step results, "" for none
  ExecStepIDs,      \* step IDs executors put in their step results, "" for none
  MadeUpID,         \* the job ID claimedJobID makes up when there is none
  StepOutputs,      \* what executors put under the "components" output
  RecorderMayFail,  \* whether the evidence recorder can return an error
  Offers,           \* the envelopes an arbitrary source may hand out
  None,             \* no envelope, no result
  NoOutput,         \* a step result without a readable "components" output
  MaxTime,          \* bound: the last instant of the clocks
  MaxSubmitted,     \* bound: submissions in one behaviour
  MaxClaims         \* bound: jobs one worker process claims from that source

ASSUME RunnerAssumption ==
  /\ RecorderMayFail \in BOOLEAN
  /\ ExecStatuses \subseteq Status \cup {""} /\ ExecStepIDs \subseteq STRING
  /\ MadeUpID \in STRING
  /\ MaxTime \in Nat /\ MaxSubmitted \in Nat /\ MaxClaims \in Nat

\* Offers are numbered: `enq` tells two envelopes apart that the code cannot.
ASSUME OffersAssumption ==
  /\ \A signed \in Offers :
       /\ signed.enq \in 1 .. MaxSubmitted
       /\ signed.job.id \in STRING
       /\ signed.job.plan.steps \in Seq([id : STRING, executor : STRING, timeout : Int])
  /\ \A s, t \in Offers : s.enq = t.enq => s = t

VARIABLES
  wpc,       \* where each worker's RunOnce is
  held,      \* the envelope RunOnce works on, or None
  result,    \* RunOnce's result so far, or None
  recorder,  \* the bundles of each worker's MemoryRecorder
  refused,   \* history: the bundles its recorder refused, by the job's outcome
  metrics,   \* each worker's metrics.Collector
  now,       \* the clock of each worker's host
  ran        \* history: submission -> the steps started for it, in order

runnerVars == <<wpc, held, result, recorder, refused, metrics, now, ran>>
localVars == <<held, result, recorder, refused, metrics>>

Idle == "idle"              \* between two RunOnce
Claiming == "claiming"      \* in Source.Claim
Verifying == "verifying"    \* has an envelope, not yet verified
Executing == "executing"    \* between two steps of the plan
InStep == "instep"          \* in Executor.Execute
Unverified == "unverified"  \* denied by the verifier, not yet recorded
Unmatched == "unmatched"    \* denied by the selector, not yet recorded
Executed == "executed"      \* the plan has ended, not yet recorded
Completing == "completing"  \* in Source.Complete

Recording == {Unverified, Unmatched, Executed}

ZeroRefused == [succeeded |-> 0, failed |-> 0]
ZeroMetrics == [started |-> 0, succeeded |-> 0, failed |-> 0, active |-> 0]

RunnerInit ==
  /\ wpc = [w \in Workers |-> Idle]
  /\ held = [w \in Workers |-> None]
  /\ result = [w \in Workers |-> None]
  /\ recorder = [w \in Workers |-> << >>]
  /\ refused = [w \in Workers |-> ZeroRefused]
  /\ metrics = [w \in Workers |-> ZeroMetrics]
  /\ now = [w \in Workers |-> 0]
  /\ ran = [e \in 1 .. MaxSubmitted |-> << >>]

-----------------------------------------------------------------------------
(* metrics.Collector, by its one writer. *)

JobStarted(m) == [m EXCEPT !.started = @ + 1, !.active = @ + 1]

\* Mutant of JobFinished: a denied job is neither a success nor a failure.
JobFinishedUndenied(m, status) ==
  [m EXCEPT !.succeeded = IF status = Succeeded THEN @ + 1 ELSE @,
            !.failed = IF status \in {Succeeded, Denied} THEN @ ELSE @ + 1,
            !.active = IF @ <= 0 THEN @ ELSE @ - 1]

\* JobFinished: everything but a success counts as failed; the gauge stops at 0.
JobFinished(m, status) ==
  [m EXCEPT !.succeeded = IF status = Succeeded THEN @ + 1 ELSE @,
            !.failed = IF status = Succeeded THEN @ ELSE @ + 1,
            !.active = IF @ <= 0 THEN @ ELSE @ - 1]

-----------------------------------------------------------------------------
(* RunOnce. *)

Goto(w, place) == wpc' = [wpc EXCEPT ![w] = place]

\* The deferred call of RunOnce: on every return after a successful claim.
Return(w) ==
  /\ Goto(w, Idle)
  /\ held' = [held EXCEPT ![w] = None]
  /\ result' = [result EXCEPT ![w] = None]
  /\ metrics' = [metrics EXCEPT ![w] = JobFinished(@, result[w].status)]

\* The ticker fires, RunOnce calls Source.Claim.
Poll(w) ==
  /\ wpc[w] = Idle
  /\ Goto(w, Claiming)
  /\ UNCHANGED <<localVars, now, ran>>

\* Claim returns ErrNoJob or another error: RunOnce returns at once.
ClaimFailed(w) ==
  /\ wpc[w] = Claiming
  /\ Goto(w, Idle)
  /\ UNCHANGED <<localVars, now, ran>>

\* claimedJobID: an envelope without a job ID is reported under one made up for it.
ClaimedID(signed) == IF signed.job.id # "" THEN signed.job.id ELSE MadeUpID

\* Claim returns an envelope.
Claimed(w, signed) ==
  /\ wpc[w] = Claiming
  /\ Goto(w, Verifying)
  /\ held' = [held EXCEPT ![w] = signed]
  /\ result' = [result EXCEPT ![w] =
       [job |-> ClaimedID(signed), enq |-> signed.enq, status |-> Running, steps |-> << >>]]
  /\ metrics' = [metrics EXCEPT ![w] = JobStarted(@)]
  /\ UNCHANGED <<recorder, refused, now, ran>>

\* Mutant of Accepts: a verified envelope is not matched against this worker.
AcceptsVerified(w) == Verifies(held[w], KeyOf[w], now[w])

\* The verifier of cmd/pk-deploy-worker, then the selector check of RunOnce.
Accepts(w) ==
  /\ Verifies(held[w], KeyOf[w], now[w])
  /\ Matches(Info[w], held[w].job.selector)

\* A denied job: its result waits to be recorded.
DenyAt(w, place) ==
  /\ Goto(w, place)
  /\ result' = [result EXCEPT ![w].status = Denied]
  /\ UNCHANGED <<held, recorder, refused, metrics, now, ran>>

\* Mutant of DenyUnverified: RunOnce returns the verification error at once.
DenyUnreported(w) ==
  /\ wpc[w] = Verifying
  /\ ~ Verifies(held[w], KeyOf[w], now[w])
  /\ Return(w)
  /\ UNCHANGED <<recorder, refused, now, ran>>

\* The verifier refuses the envelope.
DenyUnverified(w) ==
  /\ wpc[w] = Verifying
  /\ ~ Verifies(held[w], KeyOf[w], now[w])
  /\ DenyAt(w, Unverified)

\* The verifier accepts it, but the job is for other workers.
DenyUnmatched(w) ==
  /\ wpc[w] = Verifying
  /\ Verifies(held[w], KeyOf[w], now[w])
  /\ ~ Accepts(w)
  /\ DenyAt(w, Unmatched)

Accept(w) ==
  /\ wpc[w] = Verifying
  /\ Accepts(w)
  /\ Goto(w, Executing)
  /\ UNCHANGED <<localVars, now, ran>>

\* The step of the plan the worker has come to.
Current(w) == held[w].job.plan.steps[Len(result[w].steps) + 1]

\* executeStep calls the executor, which may act on the cluster from here on.
StartStep(w) ==
  /\ wpc[w] = Executing
  /\ Current(w).executor \in Registered
  /\ Goto(w, InStep)
  /\ ran' = [ran EXCEPT ![held[w].enq] =
       Append(@, [step |-> Current(w).id, by |-> w])]
  /\ UNCHANGED <<localVars, now>>

\* Mutant of AfterStep: the loop goes on after a step that did not succeed.
AfterAnyStep(w, status) ==
  LET steps == Len(result[w].steps) + 1
      done == steps = Len(held[w].job.plan.steps) IN
  IF done THEN [place |-> Executed, status |-> status]
          ELSE [place |-> Executing, status |-> Running]

\* The loop of execute: it ends at the first step that did not succeed.
AfterStep(w, status) ==
  LET done == Len(result[w].steps) + 1 = Len(held[w].job.plan.steps) IN
  IF status # Succeeded \/ done
    THEN [place |-> Executed, status |-> status]
    ELSE [place |-> Executing, status |-> Running]

\* Mutant of StepEnds: a step that did not succeed leaves no step result.
StepEndsSucceededOnly(w, id, status, outputs) ==
  LET next == AfterStep(w, status)
      step == [id |-> id, status |-> status, outputs |-> outputs] IN
  /\ Goto(w, next.place)
  /\ result' = [result EXCEPT
       ![w].status = next.status,
       ![w].steps = IF status = Succeeded THEN Append(@, step) ELSE @]
  /\ UNCHANGED <<held, recorder, refused, metrics, now, ran>>

\* A step has ended: its result is kept, whatever its status.
StepEnds(w, id, status, outputs) ==
  LET next == AfterStep(w, status) IN
  /\ Goto(w, next.place)
  /\ result' = [result EXCEPT
       ![w].status = next.status,
       ![w].steps = Append(@, [id |-> id, status |-> status, outputs |-> outputs])]
  /\ UNCHANGED <<held, recorder, refused, metrics, now, ran>>

\* executeStep without such an executor: the step fails, nothing is called.
Unregistered(w) ==
  /\ wpc[w] = Executing
  /\ Current(w).executor \notin Registered
  /\ StepEnds(w, Current(w).id, Failed, NoOutput)

\* The ID of the step result: the executor's, or else the plan's.
ReportedID(w, id) == IF id = "" THEN Current(w).id ELSE id

\* Mutant of Normalized: a missing status stays missing.
NormalizedErrors(status, err) == IF err THEN Failed ELSE status

\* An error is a failure; a missing status is a success; any other status the
\* executor chose is kept.
Normalized(status, err) ==
  CASE err -> Failed
    [] ~ err /\ status = "" -> Succeeded
    [] OTHER -> status

\* The executor returns, or its context timed out and it returns the error.
FinishStep(w, id, status, err, outputs) ==
  /\ wpc[w] = InStep
  /\ StepEnds(w, ReportedID(w, id), Normalized(status, err), outputs)

\* record: the job's evidence goes to the worker's own recorder.
Evidence(w) ==
  [job |-> result[w].job, enq |-> result[w].enq, status |-> result[w].status,
   steps |-> result[w].steps,
   app |-> held[w].job.plan.app, env |-> held[w].job.plan.env]

\* Mutant of Recorded: Complete is called without the recorder.
RecordedNothing(w) == recorder[w]

Recorded(w) == Append(recorder[w], Evidence(w))

\* record succeeds, RunOnce calls Source.Complete with result[w].
RecordAndComplete(w) ==
  /\ recorder' = [recorder EXCEPT ![w] = Recorded(w)]
  /\ Goto(w, Completing)
  /\ UNCHANGED <<held, result, refused, metrics, now, ran>>

\* RunOnce records and completes at three places of its own.
ReportUnverified(w) == wpc[w] = Unverified /\ RecordAndComplete(w)

\* Mutant of ReportUnmatched: this denial is completed, but not recorded.
ReportUnmatchedOnly(w) ==
  /\ wpc[w] = Unmatched
  /\ Goto(w, Completing)
  /\ UNCHANGED <<localVars, now, ran>>

ReportUnmatched(w) == wpc[w] = Unmatched /\ RecordAndComplete(w)

ReportExecuted(w) == wpc[w] = Executed /\ RecordAndComplete(w)

Report(w) == ReportUnverified(w) \/ ReportUnmatched(w) \/ ReportExecuted(w)

\* One more bundle refused, of a job with this status.
RefusedOne(r, status) ==
  [r EXCEPT !.succeeded = IF status = Succeeded THEN @ + 1 ELSE @,
            !.failed = IF status = Succeeded THEN @ ELSE @ + 1]

\* record fails: RunOnce returns and the source is never told.
RecordFails(w) ==
  /\ wpc[w] \in Recording
  /\ RecorderMayFail
  /\ Return(w)
  /\ refused' = [refused EXCEPT ![w] = RefusedOne(@, result[w].status)]
  /\ UNCHANGED <<recorder, now, ran>>

\* Source.Complete returns, with or without an error: it is not called again.
CompleteReturns(w) ==
  /\ wpc[w] = Completing
  /\ Return(w)
  /\ UNCHANGED <<recorder, refused, now, ran>>

\* The process dies and is started again: nothing of it was on disk.
Crash(w) ==
  /\ Goto(w, Idle)
  /\ held' = [held EXCEPT ![w] = None]
  /\ result' = [result EXCEPT ![w] = None]
  /\ recorder' = [recorder EXCEPT ![w] = << >>]
  /\ refused' = [refused EXCEPT ![w] = ZeroRefused]
  /\ metrics' = [metrics EXCEPT ![w] = ZeroMetrics]
  /\ UNCHANGED <<now, ran>>

\* The wall clock of w's host goes on, or is set, forward or back.
SetClock(w, time) ==
  /\ now' = [now EXCEPT ![w] = time]
  /\ UNCHANGED <<wpc, localVars, ran>>

-----------------------------------------------------------------------------
\* The source of RunnerSpec is any implementation of worker.Source: it may hand
\* out any envelope, and the same one again.  It is asked at most MaxClaims
\* times by one process, and no job starts more than MaxClaims steps.
Offered(w, signed) ==
  /\ metrics[w].started < MaxClaims
  /\ Len(ran[signed.enq]) < MaxClaims
  /\ Claimed(w, signed)

RunnerNext ==
  \E w \in Workers :
    \/ Poll(w) \/ ClaimFailed(w)
    \/ DenyUnverified(w) \/ DenyUnmatched(w) \/ Accept(w)
    \/ StartStep(w) \/ Unregistered(w)
    \/ Report(w) \/ RecordFails(w) \/ CompleteReturns(w) \/ Crash(w)
    \/ \E signed \in Offers : Offered(w, signed)
    \/ \E id \in ExecStepIDs, status \in ExecStatuses, err \in BOOLEAN,
          o \in StepOutputs : FinishStep(w, id, status, err, o)
    \/ \E time \in 0 .. MaxTime : SetClock(w, time)

RunnerSpec == RunnerInit /\ [][RunnerNext]_runnerVars

-----------------------------------------------------------------------------
Working == {Verifying, Executing, InStep, Completing} \cup Recording

Counts == [started : Nat, succeeded : Nat, failed : Nat, active : Nat]
StepResults == [id : STRING, status : Status, outputs : StepOutputs \cup {NoOutput}]
WorkerResults ==
  [job : STRING, enq : 1 .. MaxSubmitted, status : Status, steps : Seq(StepResults)]

(***************************************************************************)
(* Type invariant.  A worker has an envelope and a result exactly while    *)
(* RunOnce works on them, and never more step results than plan steps.     *)
(***************************************************************************)
RunnerTypeOK ==
  /\ wpc \in [Workers -> Working \cup {Idle, Claiming}]
  /\ \A w \in Workers :
       IF wpc[w] \in Working
         THEN /\ held[w].enq \in 1 .. MaxSubmitted
              /\ result[w] \in WorkerResults
              /\ Len(result[w].steps) <= Len(held[w].job.plan.steps)
         ELSE held[w] = None /\ result[w] = None
  /\ metrics \in [Workers -> Counts]
  /\ now \in [Workers -> 0 .. MaxTime]

(***************************************************************************)
(* Only trusted jobs run.  Whatever a source hands out, and whatever       *)
(* happened to the worker before, a step starts only for an envelope whose *)
(* signature verifies with the secret of the worker that runs it and whose *)
(* selector that worker matches (RunOnce checks both again, although the   *)
(* control plane already chose the worker).                                *)
(***************************************************************************)
OnlyTrustedJobsRun ==
  \A signed \in Offers : \A i \in DOMAIN ran[signed.enq] :
    LET w == ran[signed.enq][i].by IN
    /\ signed.key = KeyOf[w]
    /\ Matches(Info[w], signed.job.selector)

(***************************************************************************)
(* Gates hold, as the comment of Gate in pkg/deploy/types.go says ("it     *)
(* verifies that required gates are satisfied before executing the plan"). *)
(* Whoever signed it, a plan of which some step was started had all its    *)
(* required gates passed and no required check failed when it was signed.  *)
(***************************************************************************)
GatesHeld ==
  \A signed \in Offers :
    LET plan == signed.job.plan IN
    ran[signed.enq] # << >> =>
      /\ \A n \in DOMAIN plan.gates :
           plan.gates[n].required => plan.gates[n].status = Succeeded
      /\ \A n \in DOMAIN plan.checks :
           plan.checks[n].required => plan.checks[n].status \in {Succeeded, ""}

(***************************************************************************)
(* A report names each step once.  The store finds a step's plan entry by  *)
(* the ID in its result (isKubernetesInventory), so two results under one  *)
(* ID would be taken for each other.  Where executors leave the ID to      *)
(* executeStep, what keeps them apart is a validation that only the worker *)
(* is sure to have made; so two results of one report share an ID only if  *)
(* it is one that executors put there themselves.                          *)
(***************************************************************************)
ReportNamesSteps ==
  \A w \in Workers :
    wpc[w] \in Working =>
      LET steps == result[w].steps IN
      \A i, k \in DOMAIN steps :
        steps[i].id = steps[k].id => i = k \/ steps[i].id \in ExecStepIDs

(***************************************************************************)
(* The collector is balanced.  Every return of RunOnce after a claim       *)
(* passes the deferred JobFinished exactly once: the jobs started are the  *)
(* ones that succeeded, the ones that failed and the one in progress.      *)
(***************************************************************************)
MetricsBalanced ==
  \A w \in Workers :
    LET m == metrics[w] IN
    /\ m.started = m.succeeded + m.failed + m.active
    /\ m.active = IF wpc[w] \in Working THEN 1 ELSE 0

\* How many of these bundles are of jobs that succeeded (ok), or did not.
Outcomes(bundles, ok) ==
  Cardinality({n \in DOMAIN bundles : (bundles[n].status = Succeeded) = ok})

\* Worker w is about to learn what the source says to a result of this outcome.
Reporting(w, ok) ==
  IF wpc[w] = Completing /\ (result[w].status = Succeeded) = ok THEN 1 ELSE 0

(***************************************************************************)
(* Evidence and metrics tell the same story.  RunOnce records at three     *)
(* places and returns at six; on each way through it, denials and failing  *)
(* recorders included, a finished job is counted under the outcome of the  *)
(* bundle that was recorded for it, or that the recorder refused; and no   *)
(* result is reported before that.                                         *)
(***************************************************************************)
EvidenceBalanced ==
  \A w \in Workers :
    /\ Outcomes(recorder[w], TRUE) + refused[w].succeeded =
         metrics[w].succeeded + Reporting(w, TRUE)
    /\ Outcomes(recorder[w], FALSE) + refused[w].failed =
         metrics[w].failed + Reporting(w, FALSE)

(***************************************************************************)
(* What is reported is what was done.  The i-th step result is of the      *)
(* plan's i-th step, under its ID or one its executor chose; all but the   *)
(* last succeeded; success means that every step of the plan succeeded;    *)
(* and a registered executor was really called for each of them.           *)
(***************************************************************************)
ReportIsTrue ==
  \A w \in Workers :
    wpc[w] \in Recording \cup {Completing} =>
      LET steps == result[w].steps
          plan == held[w].job.plan.steps
          log == ran[held[w].enq]
      IN  /\ \A i \in DOMAIN steps :
               /\ \/ steps[i].id = plan[i].id
                  \/ plan[i].executor \in Registered /\ steps[i].id \in ExecStepIDs
               /\ i < Len(steps) => steps[i].status = Succeeded
               /\ plan[i].executor \in Registered =>
                    \E n \in DOMAIN log : log[n].step = plan[i].id /\ log[n].by = w
          /\ result[w].status = Succeeded <=>
               /\ steps # << >> /\ Len(steps) = Len(plan)
               /\ steps[Len(steps)].status = Succeeded

(***************************************************************************)
(* A worker sends terminal results only, as pkg/worker/types.go says of    *)
(* Result and docs/ARCHITECTURE.md of the worker contract ("no half-state  *)
(* escapes").  It holds while executors report nothing but success and     *)
(* failure; execute keeps any other status an executor puts in its step    *)
(* result, so "running" can become the status of the job.                  *)
(***************************************************************************)
TerminalResult ==
  \A w \in Workers :
    wpc[w] = Completing => result[w].status \notin {Pending, Running}
=============================================================================
