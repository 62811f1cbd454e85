------------------------------- MODULE Dispatch -------------------------------
(***************************************************************************)
(* The deployed system: one control plane (Store) and its workers          *)
(* (Runner), which reach it over HTTP (internal/workerclient against       *)
(* internal/controlplane/server.go).  A request is one message to the      *)
(* control plane and one back.  The client gives up after 15 seconds or    *)
(* when the connection breaks, and never repeats a request; a handler that *)
(* has started does not look at the request's context, so it claims a job  *)
(* for a client that is gone.  Both processes may die and come back with   *)
(* nothing but their configuration.                                        *)
(***************************************************************************)
EXTENDS Deploy, SequencesExt

CONSTANTS
  Jobs,          \* the job payloads operators submit
  ServerKey,     \* the secret the control plane signs with
  Workers,       \* worker processes
  Info,          \* worker -> [capabilities, labels]
  KeyOf,         \* worker -> its secret
  Registered,    \* executor names in the workers' registry
  ExecStatuses,  \* statuses executors report
  ExecStepIDs,   \* step IDs executors report, "" for none
  MadeUpID,      \* the job ID a worker makes up when there is none
  StepOutputs,   \* component reports executors make
  InventoryApp,  \* the application ID of inventory jobs
  None,          \* nothing
  NoJob,         \* the 404 answer to a claim
  NoOutput,      \* a step result without a component report
  MaxSteps,      \* no plan has more steps
  MaxSubmitted,  \* bound: jobs submitted
  MaxTime,       \* bound: the last instant of the clocks
  MaxFaults,     \* bound: broken requests and worker crashes
  MaxRestarts,   \* bound: restarts of the control plane
  MaxTrouble     \* bound: both together

ASSUME PlansAssumption ==
  /\ MaxSteps \in Nat
  /\ \A j \in Jobs :
       /\ j.id \in STRING /\ j.expiresAt \in Int
       /\ j.plan.steps \in Seq([id : STRING, executor : STRING, timeout : Int])
       /\ Len(j.plan.steps) <= MaxSteps

\* A component report is a list.
ASSUME OutputsAssumption ==
  \A o \in StepOutputs : o = NoOutput \/ o \in Seq(Range(o))

ASSUME WorkersAssumption == IsFiniteSet(Workers)

ASSUME DispatchBounds ==
  /\ MaxSubmitted \in Nat /\ MaxTime \in Nat
  /\ MaxFaults \in Nat /\ MaxRestarts \in Nat /\ MaxTrouble \in Nat

VARIABLES
  pending, claimed, completed, evidence, components, submitted,  \* see Store
  wpc, held, result, recorder, metrics, now, ran,                \* see Runner
  request,    \* workers whose claim is on its way to the control plane
  abandoned,  \* worker -> claims it gave up that the server will still handle
  reply,      \* worker -> the answer to its claim on its way back, or None
  posted,     \* results on their way to the control plane
  acked,      \* workers whose result was taken and who are about to learn it
  faults,     \* history: broken requests and worker crashes so far
  restarts    \* history: restarts of the control plane so far

R == INSTANCE Runner WITH
       RecorderMayFail <- FALSE, Offers <- {}, MaxClaims <- MaxSubmitted,
       refused <- [w \in Workers |-> [succeeded |-> 0, failed |-> 0]]

S == INSTANCE Store WITH
       Keys <- {ServerKey}, Infos <- {Info[w] : w \in Workers},
       Results <- R!WorkerResults, Reports <- {}, Bundles <- {},
       MaxRecorded <- MaxSubmitted

ASSUME NothingAssumption ==
  /\ None # NoJob
  /\ None \notin S!Envelopes(Jobs, {ServerKey})
  /\ None \notin Jobs /\ None \notin R!WorkerResults
  /\ NoJob \notin S!Envelopes(Jobs, {ServerKey})
  /\ ExecStatuses \subseteq Status \cup {""} /\ ExecStepIDs \subseteq STRING
  /\ MadeUpID \in STRING

storeVars == <<pending, claimed, completed, evidence, components, submitted>>
runnerVars == <<wpc, held, result, recorder, metrics, now, ran>>
netVars == <<request, abandoned, reply, posted, acked>>
faultVars == <<faults, restarts>>
vars == <<storeVars, runnerVars, netVars, faultVars>>

Init ==
  /\ S!StoreInit
  /\ R!RunnerInit
  /\ request = {}
  /\ abandoned = [w \in Workers |-> 0]
  /\ reply = [w \in Workers |-> None]
  /\ posted = {}
  /\ acked = {}
  /\ faults = 0
  /\ restarts = 0

\* One more fault, or one more restart, is within the bounds.
Trouble == faults + restarts < MaxTrouble
FaultAllowed == Trouble /\ faults < MaxFaults
RestartAllowed == Trouble /\ restarts < MaxRestarts

-----------------------------------------------------------------------------
(* Operators. *)

\* handleCreateJob: the payload is signed, if it is valid, and queued; nothing is
\* compared with earlier submissions.
CreateJob(job) ==
  /\ Signable(job)
  /\ S!Enqueue(job, ServerKey)
  /\ UNCHANGED <<runnerVars, netVars, faultVars>>

-----------------------------------------------------------------------------
(* Claims. *)

SendClaim(w) ==
  /\ R!Poll(w)
  /\ request' = request \cup {w}
  /\ UNCHANGED <<storeVars, abandoned, reply, posted, acked, faultVars>>

\* handleClaim, with a job.
HandleClaim(w) ==
  /\ w \in request
  /\ \E i \in DOMAIN pending :
       /\ S!Claim(Info[w], i)
       /\ reply' = [reply EXCEPT ![w] = pending[i]]
  /\ request' = request \ {w}
  /\ UNCHANGED <<runnerVars, abandoned, posted, acked, faultVars>>

\* handleClaim, with 404.
HandleClaimNoJob(w) ==
  /\ w \in request
  /\ S!ClaimNothing(Info[w])
  /\ reply' = [reply EXCEPT ![w] = NoJob]
  /\ request' = request \ {w}
  /\ UNCHANGED <<runnerVars, abandoned, posted, acked, faultVars>>

\* handleClaim for a client that is gone: Store.Claim ignores its context and
\* the response goes nowhere.
HandleAbandonedClaim(w) ==
  /\ abandoned[w] > 0
  /\ \/ \E i \in DOMAIN pending : S!Claim(Info[w], i)
     \/ S!ClaimNothing(Info[w])
  /\ abandoned' = [abandoned EXCEPT ![w] = @ - 1]
  /\ UNCHANGED <<runnerVars, request, reply, posted, acked, faultVars>>

\* Source.Claim returns the envelope.
ReceiveJob(w) ==
  /\ reply[w] \notin {None, NoJob}
  /\ R!Claimed(w, reply[w])
  /\ reply' = [reply EXCEPT ![w] = None]
  /\ UNCHANGED <<storeVars, request, abandoned, posted, acked, faultVars>>

\* Source.Claim returns ErrNoJob.
ReceiveNoJob(w) ==
  /\ reply[w] = NoJob
  /\ R!ClaimFailed(w)
  /\ reply' = [reply EXCEPT ![w] = None]
  /\ UNCHANGED <<storeVars, request, abandoned, posted, acked, faultVars>>

\* The connection or the client's patience breaks while the claim is under way:
\* the request is lost or becomes an abandoned one, the reply is lost.
BreakClaim(w) ==
  /\ FaultAllowed
  /\ w \in request \/ reply[w] # None
  /\ R!ClaimFailed(w)
  /\ \/ UNCHANGED abandoned
     \/ w \in request /\ abandoned' = [abandoned EXCEPT ![w] = @ + 1]
  /\ request' = request \ {w}
  /\ reply' = [reply EXCEPT ![w] = None]
  /\ faults' = faults + 1
  /\ UNCHANGED <<storeVars, posted, acked, restarts>>

\* The control plane died with the request: the client sees an error.
ClaimUnanswered(w) ==
  /\ w \notin request /\ reply[w] = None
  /\ R!ClaimFailed(w)
  /\ UNCHANGED <<storeVars, netVars, faultVars>>

-----------------------------------------------------------------------------
(* RunOnce between the claim and the report. *)

Verify(w) ==
  /\ R!DenyUnverified(w) \/ R!DenyUnmatched(w) \/ R!Accept(w)
  /\ UNCHANGED <<storeVars, netVars, faultVars>>

StartStep(w) ==
  /\ R!StartStep(w) \/ R!Unregistered(w)
  /\ UNCHANGED <<storeVars, netVars, faultVars>>

FinishStep(w) ==
  /\ \E id \in ExecStepIDs, status \in ExecStatuses, err \in BOOLEAN, o \in StepOutputs :
       R!FinishStep(w, id, status, err, o)
  /\ UNCHANGED <<storeVars, netVars, faultVars>>

-----------------------------------------------------------------------------
(* Results. *)

SendResult(w) ==
  /\ R!Report(w)
  /\ posted' = posted \cup {result[w]}
  /\ UNCHANGED <<storeVars, request, abandoned, reply, acked, faultVars>>

Awaits(w, r) == wpc[w] = R!Completing /\ result[w] = r

\* handleComplete: the store takes the result; the worker learns it if it waits.
HandleComplete(r) ==
  /\ r \in posted
  /\ S!Complete(r)
  /\ posted' = posted \ {r}
  /\ acked' = acked \cup {w \in Workers : Awaits(w, r)}
  /\ UNCHANGED <<runnerVars, request, abandoned, reply, faultVars>>

\* Source.Complete returns nil.
ReceiveAck(w) ==
  /\ w \in acked
  /\ R!CompleteReturns(w)
  /\ acked' = acked \ {w}
  /\ UNCHANGED <<storeVars, request, abandoned, reply, posted, faultVars>>

\* The report breaks: the result is lost, or is handled later, or was handled.
\* Either way RunOnce returns the error and the loop only logs it.
BreakComplete(w) ==
  /\ FaultAllowed
  /\ w \in acked \/ result[w] \in posted
  /\ R!CompleteReturns(w)
  /\ posted' \in {posted, posted \ {result[w]}}
  /\ acked' = acked \ {w}
  /\ faults' = faults + 1
  /\ UNCHANGED <<storeVars, request, abandoned, reply, restarts>>

\* Mutant of CompleteUnanswered: the client has no timeout.
CompleteWaits(w) ==
  /\ w \in acked
  /\ R!CompleteReturns(w)
  /\ acked' = acked \ {w}
  /\ UNCHANGED <<storeVars, request, abandoned, reply, posted, faultVars>>

\* The control plane died with the report: the client sees an error.
CompleteUnanswered(w) ==
  /\ w \notin acked /\ result[w] \notin posted
  /\ R!CompleteReturns(w)
  /\ UNCHANGED <<storeVars, netVars, faultVars>>

-----------------------------------------------------------------------------
(* Crashes, and the clocks. *)

\* A worker process dies and restarts; a request it had under way is lost, or
\* reaches the server all the same.
WorkerCrash(w) ==
  /\ FaultAllowed
  /\ R!Crash(w)
  /\ \/ UNCHANGED abandoned
     \/ w \in request /\ abandoned' = [abandoned EXCEPT ![w] = @ + 1]
  /\ request' = request \ {w}
  /\ reply' = [reply EXCEPT ![w] = None]
  /\ posted' \in {posted, posted \ {result[w]}}
  /\ acked' = acked \ {w}
  /\ faults' = faults + 1
  /\ UNCHANGED <<storeVars, restarts>>

\* The control plane dies and restarts with an empty store; requests it had not
\* answered are lost, or reach the new process.
ControlPlaneRestart ==
  /\ RestartAllowed
  /\ pending' = << >>
  /\ claimed' = [id \in S!JobIDs |-> None]
  /\ completed' = << >>
  /\ evidence' = << >>
  /\ components' = << >>
  /\ request' \in SUBSET request
  /\ posted' \in SUBSET posted
  /\ abandoned' = [w \in Workers |-> 0]
  /\ restarts' = restarts + 1
  /\ UNCHANGED <<submitted, runnerVars, reply, acked, faults>>

\* The clocks of the workers' hosts go forward, each at its own pace.
Tick(w) ==
  /\ now[w] < MaxTime
  /\ R!SetClock(w, now[w] + 1)
  /\ UNCHANGED <<storeVars, netVars, faultVars>>

-----------------------------------------------------------------------------
WorkerStep(w) ==
  \/ SendClaim(w) \/ ReceiveJob(w) \/ ReceiveNoJob(w) \/ ClaimUnanswered(w)
  \/ Verify(w) \/ StartStep(w) \/ FinishStep(w)
  \/ SendResult(w) \/ ReceiveAck(w) \/ CompleteUnanswered(w)

ServerStep(w) ==
  HandleClaim(w) \/ HandleClaimNoJob(w) \/ HandleAbandonedClaim(w)

Fault(w) == BreakClaim(w) \/ BreakComplete(w) \/ WorkerCrash(w)

Next ==
  \/ \E j \in Jobs : CreateJob(j)
  \/ \E w \in Workers : WorkerStep(w) \/ ServerStep(w) \/ Fault(w) \/ Tick(w)
  \/ \E r \in posted : HandleComplete(r)
  \/ ControlPlaneRestart

Spec == Init /\ [][Next]_vars

-----------------------------------------------------------------------------
(* Safety. *)

Job(e) == submitted[e].job

\* Type invariant of the composition.
TypeOK ==
  /\ S!StoreTypeOK
  /\ R!RunnerTypeOK
  /\ request \subseteq {w \in Workers : wpc[w] = R!Claiming}
  /\ abandoned \in [Workers -> Nat]
  /\ reply \in [Workers -> S!Envelopes(Jobs, {ServerKey}) \cup {None, NoJob}]
  /\ \A w \in Workers : reply[w] # None => wpc[w] = R!Claiming /\ w \notin request
  /\ posted \subseteq R!WorkerResults
  /\ acked \subseteq {w \in Workers : wpc[w] = R!Completing}
  /\ faults \in 0 .. MaxFaults /\ restarts \in 0 .. MaxRestarts

(***************************************************************************)
(* Executed once.  Each step of a submission is started at most once, the  *)
(* steps in the plan's order and all by one worker, although claims are    *)
(* answered late or to nobody, workers and the control plane crash in the  *)
(* middle of a plan, and neither side remembers nonces.  It rests on the   *)
(* queue giving each submission away once and on nobody giving it back.    *)
(***************************************************************************)
ExecutedOnce ==
  \A e \in DOMAIN submitted :
    /\ Len(ran[e]) <= Len(Job(e).plan.steps)
    /\ \A i \in DOMAIN ran[e] :
         /\ ran[e][i].step = Job(e).plan.steps[i].id
         /\ ran[e][i].by = ran[e][1].by

(***************************************************************************)
(* What the control plane believes was executed, was.  Of every result it  *)
(* has taken or will take, the plan steps that it covers and that have a   *)
(* registered executor are exactly those started for that submission: none *)
(* ran beyond what is reported, and a denied job ran none.  A step result  *)
(* carries the ID of its plan step, or one that its executor chose.        *)
(***************************************************************************)
ReportedIsWhatRan ==
  \A r \in posted \cup {completed[n] : n \in DOMAIN completed} :
    LET plan == Job(r.enq).plan.steps
        called == {i \in DOMAIN r.steps : plan[i].executor \in Registered}
    IN  /\ {plan[i].id : i \in called} =
             {ran[r.enq][n].step : n \in DOMAIN ran[r.enq]}
        /\ \A i \in DOMAIN r.steps :
             \/ r.steps[i].id = plan[i].id
             \/ i \in called /\ r.steps[i].id \in ExecStepIDs
        /\ r.status = Succeeded <=>
             Len(r.steps) = Len(plan) /\ Len(ran[r.enq]) = Len(plan)
               /\ r.steps[Len(plan)].status = Succeeded

\* Submission e is on its way to a worker, or a worker works on it.
HandedOut(e) ==
  \E w \in Workers :
    \/ reply[w] \notin {None, NoJob} /\ reply[w].enq = e
    \/ wpc[w] \in R!Working \ {R!Completing} /\ held[w].enq = e

\* Its result is on its way to the store, or there.
ResultOut(e) ==
  \/ \E r \in posted : r.enq = e
  \/ \E n \in DOMAIN completed : completed[n].enq = e

Accounted(e) == S!IsPending(e) \/ HandedOut(e) \/ ResultOut(e)

Lost == {e \in DOMAIN submitted : ~ Accounted(e)}

(***************************************************************************)
(* One fault loses at most one job.  Nothing re-queues a claimed job, so a *)
(* broken request or a crashed worker loses the job it concerned for good; *)
(* but without a restart of the control plane it never loses another one,  *)
(* and without any fault no job is lost.                                   *)
(***************************************************************************)
OneFaultLosesOneJob == restarts = 0 => Cardinality(Lost) <= faults

(***************************************************************************)
(* A denial means that the job expired.  The control plane signs only what *)
(* it could verify itself, with the key the workers have, and hands a job  *)
(* only to a worker it matches; so where all have one key no denial is     *)
(* left for a worker but the one for expiry, by the clock of its own host. *)
(***************************************************************************)
DeniedMeansExpired ==
  \A n \in DOMAIN completed :
    completed[n].status = Denied =>
      \E w \in Workers : Expired(Job(completed[n].enq), now[w])

Sum(f) == FoldFunction(LAMBDA x, y : x + y, 0, f)

(***************************************************************************)
(* The counters agree.  While nothing has failed, what the workers count   *)
(* as succeeded and failed jobs is what the control plane counts or is     *)
(* about to: the two classify denied, unregistered and failed jobs alike.  *)
(***************************************************************************)
CountersAgree ==
  faults = 0 /\ restarts = 0 =>
    LET unreturned(ok) == Cardinality({w \in Workers :
          wpc[w] = R!Completing /\ (result[w].status = Succeeded) = ok})
        underWay(ok) == Cardinality({r \in posted : (r.status = Succeeded) = ok})
    IN  /\ Sum([w \in Workers |-> metrics[w].succeeded]) + unreturned(TRUE)
             = S!Metrics.succeeded + underWay(TRUE)
        /\ Sum([w \in Workers |-> metrics[w].failed]) + unreturned(FALSE)
             = S!Metrics.failed + underWay(FALSE)

SharesID(e) == \E f \in DOMAIN submitted : f # e /\ Job(f).id = Job(e).id

(***************************************************************************)
(* Evidence is attributed.  The store's bundle for a submission carries    *)
(* that submission's application and environment, unless another one was   *)
(* submitted under the same ID (finding EvidenceNamesItsJob) or a restart  *)
(* made the store forget the claim, when it carries none.                  *)
(***************************************************************************)
EvidenceAttributed ==
  \A n \in DOMAIN evidence :
    LET e == evidence[n].enq
        plan == Job(e).plan IN
    SharesID(e) \/
      \/ evidence[n].app = plan.app /\ evidence[n].env = plan.env
      \/ restarts > 0 /\ evidence[n].app = "" /\ evidence[n].env = ""

(***************************************************************************)
(* Evidence names its job, as pkg/evidence/evidence.go says ("Bundle is    *)
(* the audit record for one job execution").  Not so when two jobs share   *)
(* an ID: the second claim replaces the first one's entry and the first    *)
(* result is filed under the second job's application.                     *)
(***************************************************************************)
EvidenceNamesItsJob ==
  \A n \in DOMAIN evidence :
    evidence[n].app \in {"", Job(evidence[n].enq).plan.app}

(***************************************************************************)
(* The two records agree.  Of one submission there is at most one bundle   *)
(* with any worker; what the control plane files for it has the same       *)
(* status and steps, and the same application unless it carries none or    *)
(* the submission shares its ID; and while nothing has failed the control  *)
(* plane files nothing that the worker has not recorded.                   *)
(***************************************************************************)
RecordsAgree ==
  /\ \A v, w \in Workers : \A i \in DOMAIN recorder[v], k \in DOMAIN recorder[w] :
       recorder[v][i].enq = recorder[w][k].enq => v = w /\ i = k
  /\ \A n \in DOMAIN evidence, w \in Workers : \A i \in DOMAIN recorder[w] :
       LET filed == evidence[n]
           local == recorder[w][i] IN
       filed.enq = local.enq =>
         /\ filed.job = local.job
         /\ filed.status = local.status /\ filed.steps = local.steps
         /\ filed.app \in {"", local.app} \/ SharesID(local.enq)
  /\ faults = 0 =>
       \A n \in DOMAIN evidence : \E w \in Workers : \E i \in DOMAIN recorder[w] :
         recorder[w][i].enq = evidence[n].enq

(***************************************************************************)
(* A job that expires in the queue never runs.  Claim does not look at the *)
(* expiry and hands it out; but no worker by whose clock it has expired    *)
(* then runs it, however long the answer was under way: its own            *)
(* verification stops the job.                                             *)
(***************************************************************************)
ExpiredInQueueNeverRuns ==
  \A e \in 1 .. MaxSubmitted, w \in Workers :
    [](e \in DOMAIN submitted /\ S!IsPending(e) /\ Expired(Job(e), now[w])
         => [](\A n \in DOMAIN ran[e] : ran[e][n].by # w))

-----------------------------------------------------------------------------
(***************************************************************************)
(* The inductive invariant behind ExecutedOnce.  A submission is in at     *)
(* most one place: the queue, one answer on its way, or one worker.  As    *)
(* long as it may still be executed, its log has exactly the steps the     *)
(* worker that has it knows of.                                            *)
(***************************************************************************)
Envelope == S!Envelopes(Jobs, {ServerKey})
LogEntry == [step : STRING, by : Workers]

\* The types the argument needs: the queue, the answers, the workers, the log.
FlowTypeOK ==
  /\ pending \in Seq(Envelope)
  /\ submitted \in Seq(Envelope) /\ Len(submitted) <= MaxSubmitted
  /\ reply \in [Workers -> Envelope \cup {None, NoJob}]
  /\ wpc \in [Workers -> R!Working \cup {R!Idle, R!Claiming}]
  /\ held \in [Workers -> Envelope \cup {None}]
  /\ result \in [Workers -> R!WorkerResults \cup {None}]
  /\ ran \in [1 .. MaxSubmitted -> Seq(LogEntry)]
  /\ now \in [Workers -> Nat]

\* e is the submission this envelope came from, unchanged, and was submitted.
Genuine(signed) ==
  signed.enq \in DOMAIN submitted /\ signed = submitted[signed.enq]

QueueOK ==
  /\ \A i \in DOMAIN pending : Genuine(pending[i]) /\ ran[pending[i].enq] = << >>
  /\ \A i, j \in DOMAIN pending : pending[i].enq = pending[j].enq => i = j

Answered(w) == reply[w] \notin {None, NoJob}

Carries(w, e) ==
  \/ Answered(w) /\ reply[w].enq = e
  \/ wpc[w] \in R!Working /\ held[w].enq = e

Exclusive ==
  /\ \A w \in Workers, e \in 1 .. MaxSubmitted : Carries(w, e) => ~ S!IsPending(e)
  /\ \A v, w \in Workers, e \in 1 .. MaxSubmitted :
       Carries(v, e) /\ Carries(w, e) => v = w

\* What the log of the job worker w works on has, at each place of RunOnce.
LogMatches(w) ==
  LET log == ran[held[w].enq]
      reported == Len(result[w].steps)
      planned == Len(held[w].job.plan.steps)
  IN  /\ \A n \in DOMAIN log : log[n].by = w
      /\ wpc[w] = R!Verifying => Len(log) = 0 /\ reported = 0
      /\ wpc[w] = R!Executing => Len(log) = reported /\ reported < planned
      /\ wpc[w] = R!InStep => Len(log) = reported + 1 /\ reported < planned

WorkerOK(w) ==
  /\ Answered(w) =>
       wpc[w] = R!Claiming /\ Genuine(reply[w]) /\ ran[reply[w].enq] = << >>
  /\ wpc[w] \in R!Working =>
       /\ held[w] \in Envelope /\ result[w] \in R!WorkerResults
       /\ Genuine(held[w]) /\ LogMatches(w)

\* A claim or its answer is under way, never both, only for a worker that waits.
Requesting ==
  /\ request \subseteq {w \in Workers : wpc[w] = R!Claiming}
  /\ \A w \in Workers : reply[w] # None => wpc[w] = R!Claiming /\ w \notin request

NothingRanBefore ==
  \A e \in 1 .. MaxSubmitted : e \notin DOMAIN submitted => ran[e] = << >>

FlowInv ==
  /\ FlowTypeOK
  /\ QueueOK
  /\ Exclusive
  /\ \A w \in Workers : WorkerOK(w)
  /\ Requesting
  /\ NothingRanBefore
  /\ ExecutedOnce

-----------------------------------------------------------------------------
(***************************************************************************)
(* Liveness.  A worker's loop is driven by a ticker and bounded waits (the *)
(* HTTP client's 15 seconds, the deadline of a step that has one, which    *)
(* the executors hand on to their requests), and net/http runs a handler   *)
(* for every request that arrives: each of these steps, once possible, is  *)
(* taken.  A step without a deadline may never end, nobody must submit     *)
(* jobs, nothing must fail, and the clocks may stop.                       *)
(***************************************************************************)
HasDeadline(w) == R!Current(w).timeout > 0

\* Worker w is in a step that nothing ends but the service it waits for.
Unbounded(w) == wpc[w] = R!InStep /\ ~ HasDeadline(w)

Fairness ==
  /\ \A w \in Workers :
       WF_vars(~ Unbounded(w) /\ WorkerStep(w)) /\ WF_vars(ServerStep(w))
  /\ WF_vars(\E r \in posted : HandleComplete(r))

FairSpec == Spec /\ Fairness

Matched(e) ==
  e \in DOMAIN submitted /\ \E w \in Workers : Matches(Info[w], Job(e).selector)

Done(e) == \E n \in DOMAIN completed : completed[n].enq = e

\* Some worker stays in a step without a deadline for ever.
SomeWorkerHangs == \E w \in Workers : <>[]Unbounded(w)

(***************************************************************************)
(* Without faults every job is finished: a submission that some worker     *)
(* matches gets a result in the store, in spite of the other submissions   *)
(* and of workers that match others, unless a request breaks, a worker     *)
(* crashes, the control plane restarts or a step without a deadline hangs. *)
(***************************************************************************)
JobsFinish ==
  SomeWorkerHangs \/
    \A e \in 1 .. MaxSubmitted :
      Matched(e) ~> Done(e) \/ faults > 0 \/ restarts > 0

(***************************************************************************)
(* Workers keep polling: whatever was lost, crashed or restarted, a worker *)
(* waits forever in a step without a deadline, and in nothing else: no     *)
(* claim, no report, and no step that has one.                             *)
(***************************************************************************)
WorkersKeepPolling ==
  \A w \in Workers : []<>(w \in request) \/ <>[]Unbounded(w)

-----------------------------------------------------------------------------
(***************************************************************************)
(* Dispatch implements JobLifecycle: the phase of a submission is where    *)
(* its envelope or its result is.                                          *)
(***************************************************************************)
Phase(e) ==
  IF e \notin DOMAIN submitted THEN "absent"
  ELSE IF S!IsPending(e) THEN "queued"
  ELSE IF HandedOut(e) THEN "handed"
  ELSE IF ResultOut(e) THEN "finished"
  ELSE "gone"

L == INSTANCE JobLifecycle WITH
       Submissions <- 1 .. MaxSubmitted,
       phase <- [e \in 1 .. MaxSubmitted |-> Phase(e)],
       started <- [e \in 1 .. MaxSubmitted |-> Len(ran[e])]

\* A job lives as JobLifecycle says: no way back to the queue, no step before
\* it is handed out, none after its result was sent or it was lost.
ImplementsLifecycle == L!Spec
=============================================================================
