---------------------------- MODULE Accounts_proofs ----------------------------
(***************************************************************************)
(* What the composed system keeps account of, for every set of jobs and    *)
(* workers: how many jobs its faults lose, whose evidence is whose, the    *)
(* types of all variables, and the counters of both sides.  All follow one *)
(* submission through the places it can be in, on top of LifeInv and of    *)
(* how one step can change it (Dispatch_proofs).                           *)
(***************************************************************************)
EXTENDS Dispatch_proofs

USE DEF R!Idle, R!Claiming, R!Verifying, R!Executing, R!InStep, R!Unverified,
        R!Unmatched, R!Executed, R!Recording, R!Completing, R!Working

(* One fault loses one job. *)

\* The rest of the types; a worker between two jobs has neither job nor result.
NetOK ==
  /\ abandoned \in [Workers -> Nat]
  /\ acked \subseteq {w \in Workers : wpc[w] = R!Completing}
  /\ faults \in 0 .. MaxFaults /\ restarts \in 0 .. MaxRestarts
  /\ now \in [Workers -> 0 .. MaxTime]
  /\ \A w \in Workers : wpc[w] \notin R!Working => held[w] = None /\ result[w] = None

LEMMA StepKeepsNet ==
  ASSUME LifeInv, NetOK, [Next]_vars
  PROVE  NetOK'
<1>1. abandoned' \in [Workers -> Nat]
  <2>1. abandoned \in [Workers -> Nat]
    BY DEF NetOK
  <2>2. CASE abandoned' = abandoned \/ abandoned' = [w \in Workers |-> 0]
    BY <2>1, <2>2
  <2>3. ASSUME NEW w \in Workers, abandoned' = [abandoned EXCEPT ![w] = @ + 1]
        PROVE  abandoned' \in [Workers -> Nat]
    BY <2>1, <2>3
  <2>4. ASSUME NEW w \in Workers, abandoned' = [abandoned EXCEPT ![w] = @ - 1], abandoned[w] > 0
        PROVE  abandoned' \in [Workers -> Nat]
    BY <2>1, <2>4
  <2> QED
    BY <2>2, <2>3, <2>4
    DEF Next, WorkerStep, ServerStep, Fault, CreateJob, SendClaim, HandleClaim,
      HandleClaimNoJob, HandleAbandonedClaim, ReceiveJob, ReceiveNoJob, BreakClaim,
      ClaimUnanswered, Verify, StartStep, FinishStep, SendResult, HandleComplete, ReceiveAck,
      BreakComplete, CompleteUnanswered, WorkerCrash, ControlPlaneRestart, Tick, vars, netVars
<1>2. faults' \in 0 .. MaxFaults /\ restarts' \in 0 .. MaxRestarts
  BY DispatchBounds
  DEF NetOK, Next, WorkerStep, ServerStep, Fault, CreateJob, SendClaim, HandleClaim,
      HandleClaimNoJob, HandleAbandonedClaim, ReceiveJob, ReceiveNoJob, BreakClaim,
      ClaimUnanswered, Verify, StartStep, FinishStep, SendResult, HandleComplete, ReceiveAck,
      BreakComplete, CompleteUnanswered, WorkerCrash, ControlPlaneRestart, Tick, vars,
      faultVars, FaultAllowed, RestartAllowed
<1>3. now' \in [Workers -> 0 .. MaxTime]
  <2>1. now \in [Workers -> 0 .. MaxTime]
    BY DEF NetOK
  <2>2. ASSUME NEW w \in Workers, Tick(w) PROVE now' \in [Workers -> 0 .. MaxTime]
    <3>1. now[w] + 1 \in 0 .. MaxTime
      BY <2>1, <2>2, DispatchBounds DEF Tick
    <3> QED
      BY <2>1, <2>2, <3>1 DEF Tick, R!SetClock
  <2> QED
    BY <2>1, <2>2, NowMoves
<1>4. ASSUME NEW w \in Workers, wpc'[w] \notin R!Working
      PROVE  held'[w] = None /\ result'[w] = None
  <2>1. CASE Stays(w)
    BY <1>4, <2>1, SMTT(30) DEF Stays, NetOK
  <2>2. CASE ReceiveJob(w) \/ Verify(w) \/ StartStep(w) \/ FinishStep(w) \/ SendResult(w)
    <3>1. ASSUME NEW x \in R!Working, R!Goto(w, x) PROVE FALSE
      BY <1>4, <3>1, Functions DEF R!Goto
    <3>2. \A status : R!AfterStep(w, status).place \in R!Working
      BY DEF R!AfterStep
    <3>3. CASE SendResult(w)
      BY <3>1, <3>3, ReportIs DEF SendResult
    <3>4. CASE R!DenyUnverified(w) \/ R!DenyUnmatched(w)
      BY <3>1, <3>4, DenyIs
    <3> QED
      BY <2>2, <3>1, <3>2, <3>3, <3>4
      DEF ReceiveJob, Verify, StartStep, FinishStep, R!Claimed, R!Accept,
          R!StartStep, R!Unregistered, R!FinishStep, R!StepEnds
  <2>3. CASE \/ SendClaim(w) \/ ReceiveNoJob(w) \/ ClaimUnanswered(w) \/ BreakClaim(w)
    <3>1. held' = held /\ result' = result /\ wpc[w] \in {R!Idle, R!Claiming}
      BY <2>3
      DEF SendClaim, ReceiveNoJob, ClaimUnanswered, BreakClaim, R!Poll, R!ClaimFailed,
          R!localVars
    <3>2. wpc[w] \notin R!Working
      BY <3>1
    <3> QED
      BY <3>1, <3>2 DEF NetOK
  <2>4. CASE \/ ReceiveAck(w) \/ CompleteUnanswered(w) \/ BreakComplete(w) \/ WorkerCrash(w)
    <3>1. held' = [held EXCEPT ![w] = None] /\ result' = [result EXCEPT ![w] = None]
      BY <2>4
      DEF ReceiveAck, CompleteUnanswered, BreakComplete, WorkerCrash, R!CompleteReturns,
          R!Return, R!Crash
    <3> QED
      BY <3>1, Functions
  <2>5. CASE \E v \in Workers : WorkerStep(v) \/ ServerStep(v) \/ Fault(v)
    <3>1. PICK v \in Workers : WorkerStep(v) \/ ServerStep(v) \/ Fault(v)
      BY <2>5
    <3>2. CASE v # w
      BY <2>1, <3>1, <3>2, OthersStay
    <3>3. CASE v = w /\ ServerStep(v)
      BY <2>1, <3>3 DEF ServerStep, HandleClaim, HandleClaimNoJob, HandleAbandonedClaim,
                        runnerVars, Stays
    <3>4. CASE v = w /\ (WorkerStep(v) \/ Fault(v))
      BY <2>2, <2>3, <2>4, <3>4 DEF WorkerStep, Fault
    <3> QED
      BY <3>1, <3>2, <3>3, <3>4
  <2> QED
    BY <2>1, <2>5
    DEF Next, Stays, CreateJob, HandleComplete, ControlPlaneRestart, Tick, vars, runnerVars,
        R!SetClock, R!localVars
<1>5. ASSUME NEW w \in acked' PROVE w \in Workers /\ wpc'[w] = R!Completing
  <2>1. \A v \in acked : v \in Workers /\ wpc[v] = R!Completing
    BY DEF NetOK
  <2>2. CASE UNCHANGED <<acked, wpc>>
    BY <2>1, <2>2
  <2>3. ASSUME NEW r \in posted, HandleComplete(r)
        PROVE  w \in Workers /\ wpc'[w] = R!Completing
    BY <2>1, <2>3 DEF HandleComplete, Awaits, runnerVars
  <2>4. ASSUME NEW v \in Workers, WorkerStep(v) \/ Fault(v)
        PROVE  w \in Workers /\ wpc'[w] = R!Completing
    <3>1. w \in acked /\ w # v
      BY <1>5, <2>1, <2>4, ReportIs, DenyIs
      DEF WorkerStep, Fault, SendClaim, ReceiveJob, ReceiveNoJob, BreakClaim, ClaimUnanswered,
          Verify, StartStep, FinishStep, SendResult, ReceiveAck, BreakComplete,
          CompleteUnanswered, WorkerCrash, netVars, R!Poll, R!Claimed, R!ClaimFailed,
          R!Accept, R!StartStep, R!Unregistered, R!FinishStep
    <3> QED
      BY <2>1, <2>4, <3>1, OthersStay DEF Stays
  <2> QED
    BY <2>2, <2>3, <2>4
    DEF Next, ServerStep, CreateJob, HandleClaim, HandleClaimNoJob, HandleAbandonedClaim,
        ControlPlaneRestart, Tick, vars, netVars, runnerVars, R!SetClock, R!localVars
<1> QED
  BY <1>1, <1>2, <1>3, <1>4, <1>5 DEF NetOK

LEMMA NetHolds == Spec => []NetOK
<1>1. Init => NetOK
  BY DispatchBounds DEF Init, R!RunnerInit, NetOK
<1> QED
  BY <1>1, StepKeepsNet, ResultsAreFinal, PTL DEF Spec

\* A step of one worker, or of the server for it, that leaves the queue and the
\* store's results alone loses nothing but what it says it lets go.
LEMMA LocalKeeps ==
  ASSUME LifeInv, NEW w \in Workers, WorkerStep(w) \/ ServerStep(w) \/ Fault(w),
         UNCHANGED <<pending, completed>>, NEW X,
         \A e : Answered(w) /\ reply[w].enq = e /\ e \notin X => HandedOut(e)',
         \A e : wpc[w] \in R!Working \ {R!Completing} /\ held[w].enq = e /\ e \notin X =>
                  HandedOut(e)' \/ ResultOut(e)',
         \A r \in posted : r \in posted' \/ r.enq \in X
  PROVE  \A e : Accounted(e) /\ e \notin X => Accounted(e)'
<1> SUFFICES ASSUME NEW e, Accounted(e), e \notin X PROVE Accounted(e)'
  OBVIOUS
<1>1. CASE S!IsPending(e)
  BY <1>1 DEF S!IsPending, Accounted
<1>2. CASE ResultOut(e)
  BY <1>2 DEF ResultOut, Accounted
<1>3. CASE HandedOut(e)
  <2>1. PICK v \in Workers :
          \/ Answered(v) /\ reply[v].enq = e
          \/ wpc[v] \in R!Working \ {R!Completing} /\ held[v].enq = e
    BY <1>3 DEF HandedOut, Answered
  <2>2. CASE v # w
    <3>1. Stays(v) /\ reply'[v] = reply[v]
      BY <2>2, OthersStay
    <3> QED
      BY <2>1, <3>1 DEF Stays, HandedOut, Answered, Accounted
  <2>3. CASE v = w
    BY <2>1, <2>3 DEF Accounted
  <2> QED
    BY <2>2, <2>3
<1> QED
  BY <1>1, <1>2, <1>3 DEF Accounted

\* No worker's own step loses a job.
LEMMA WorkerLosesNothing ==
  ASSUME LifeInv, NEW w \in Workers, WorkerStep(w) \/ HandleClaimNoJob(w)
  PROVE  \A e : Accounted(e) => Accounted(e)'
<1>1. UNCHANGED <<pending, completed>> /\ \A r \in posted : r \in posted'
  BY DEF WorkerStep, HandleClaimNoJob, SendClaim, ReceiveJob, ReceiveNoJob, ClaimUnanswered,
         Verify, StartStep, FinishStep, SendResult, ReceiveAck, CompleteUnanswered,
         storeVars, netVars, S!ClaimNothing, S!storeVars
<1>2. ASSUME Answered(w), NEW e, reply[w].enq = e PROVE HandedOut(e)'
  <2>1. wpc[w] = R!Claiming /\ w \notin request
    BY <1>2, Functions DEF Answered, Requesting
  <2>2. CASE ReceiveJob(w)
    <3>1. wpc'[w] = R!Verifying /\ held'[w] = reply[w]
      BY <2>2, Functions DEF ReceiveJob, R!Claimed, R!Goto
    <3> QED
      BY <1>2, <3>1 DEF HandedOut
  <2>3. CASE ~ ReceiveJob(w)
    BY <1>2, <2>1, <2>3, ReportIs, DenyIs
    DEF WorkerStep, HandleClaimNoJob, SendClaim, ReceiveNoJob, ClaimUnanswered, Verify,
        StartStep, FinishStep, SendResult, ReceiveAck, CompleteUnanswered, Answered,
        R!Poll, R!Accept, R!StartStep, R!Unregistered, R!FinishStep, R!CompleteReturns
  <2> QED
    BY <2>2, <2>3
<1>3. ASSUME wpc[w] \in R!Working \ {R!Completing}, NEW e, held[w].enq = e
      PROVE  HandedOut(e)' \/ ResultOut(e)'
  <2>1. CASE SendResult(w)
    <3>1. result[w] \in posted' /\ result[w].enq = e
      BY <1>3, <2>1, Functions DEF SendResult
    <3> QED
      BY <3>1 DEF ResultOut
  <2>2. CASE Verify(w) \/ StartStep(w) \/ FinishStep(w)
    <3>1. ASSUME NEW x \in R!Working \ {R!Completing}, R!Goto(w, x), held' = held
          PROVE  HandedOut(e)'
      <4>1. wpc'[w] = x
        BY <3>1, Functions DEF R!Goto
      <4> QED
        BY <1>3, <3>1, <4>1 DEF HandedOut
    <3>2. \A status : R!AfterStep(w, status).place \in R!Working \ {R!Completing}
      BY DEF R!AfterStep
    <3>3. CASE R!DenyUnverified(w) \/ R!DenyUnmatched(w)
      BY <3>1, <3>3, DenyIs
    <3> QED
      BY <2>2, <3>1, <3>2, <3>3
      DEF Verify, StartStep, FinishStep, R!Accept, R!StartStep, R!Unregistered,
          R!FinishStep, R!StepEnds, R!localVars
  <2>3. CASE ~ (SendResult(w) \/ Verify(w) \/ StartStep(w) \/ FinishStep(w))
    <3>1. wpc[w] \notin {R!Idle, R!Claiming, R!Completing} /\ w \notin request
      BY <1>3, Functions DEF Requesting
    <3> QED
      BY <2>3, <3>1
      DEF WorkerStep, HandleClaimNoJob, SendClaim, ReceiveJob, ReceiveNoJob, ClaimUnanswered,
          ReceiveAck, CompleteUnanswered, R!Poll, R!Claimed, R!ClaimFailed, R!CompleteReturns
  <2> QED
    BY <2>1, <2>2, <2>3
<1> HIDE DEF Accounted
<1>4. WorkerStep(w) \/ ServerStep(w) \/ Fault(w)
  BY DEF ServerStep
<1>5. PICK X : X = {}
  OBVIOUS
<1> QED
  BY <1>1, <1>2, <1>3, <1>4, <1>5, LocalKeeps

\* A fault of one worker loses only what that worker carries.
LEMMA FaultLosesItsOwn ==
  ASSUME LifeInv, NetOK, NEW w \in Workers, Fault(w)
  PROVE  \A e : Accounted(e) /\ e \notin {d \in 1 .. MaxSubmitted : Carries(w, d)}
           => Accounted(e)'
<1>1. PICK X : X = {d \in 1 .. MaxSubmitted : Carries(w, d)}
  OBVIOUS
<1>2. UNCHANGED <<pending, completed>>
  BY DEF Fault, BreakClaim, BreakComplete, WorkerCrash, storeVars
<1>3. Answered(w) => reply[w].enq \in X
  <2>1. Answered(w) => reply[w].enq \in 1 .. MaxSubmitted
    <3>1. Answered(w) => reply[w].enq \in DOMAIN submitted
      BY DEF LifeInv, FlowInv, WorkerOK, Genuine
    <3>2. DOMAIN submitted \subseteq 1 .. MaxSubmitted
      BY DispatchBounds DEF LifeInv, FlowInv, FlowTypeOK
    <3> QED
      BY <3>1, <3>2
  <2> QED
    BY <1>1, <2>1 DEF Carries
<1>4. wpc[w] \in R!Working => held[w].enq \in X /\ result[w].enq = held[w].enq
  BY <1>1, JobOfWorker DEF Carries
<1>5. \A r \in posted : r \in posted' \/ r.enq \in X
  <2>1. wpc[w] \notin R!Working => result[w] \notin posted
    BY NothingAssumption DEF NetOK, LifeInv, ResultsOK
  <2> QED
    BY <1>4, <2>1 DEF Fault, BreakClaim, BreakComplete, WorkerCrash
<1>6. \A e : Accounted(e) /\ e \notin X => Accounted(e)'
  BY <1>2, <1>3, <1>4, <1>5, LocalKeeps
<1> QED
  BY <1>1, <1>6

\* That is one job at most, and none while its claim is under way.
LEMMA CarriesOne ==
  ASSUME LifeInv, NEW w \in Workers
  PROVE  /\ \E x : {d \in 1 .. MaxSubmitted : Carries(w, d)} \subseteq {x}
         /\ w \in request => {d \in 1 .. MaxSubmitted : Carries(w, d)} = {}
<1>1. Answered(w) => wpc[w] \notin R!Working
  BY Functions DEF Requesting, Answered
<1>2. w \in request => wpc[w] \notin R!Working /\ ~ Answered(w)
  BY Functions DEF Requesting, Answered
<1> QED
  BY <1>1, <1>2 DEF Carries

\* What the server does loses a job only when it handles a claim for nobody.
LEMMA HandleClaimLosesNothing ==
  ASSUME LifeInv, NEW w \in Workers, HandleClaim(w)
  PROVE  \A e : Accounted(e) => Accounted(e)'
<1> SUFFICES ASSUME NEW e, Accounted(e) PROVE Accounted(e)'
  OBVIOUS
<1>1. PICK i \in DOMAIN pending :
        S!Claim(Info[w], i) /\ reply' = [reply EXCEPT ![w] = pending[i]]
  BY DEF HandleClaim
<1>2. /\ w \in request /\ UNCHANGED <<wpc, held, posted, completed>>
  BY <1>1 DEF HandleClaim, runnerVars, S!Claim
<1>3. pending[i] \in Envelope /\ pending[i] \notin {None, NoJob}
  <2>1. pending[i] \in Envelope
    BY DEF LifeInv, FlowInv, FlowTypeOK
  <2> QED
    BY <2>1, NothingAssumption DEF Envelope
<1>4. reply[w] = None /\ reply'[w] = pending[i] /\ \A v \in Workers \ {w} : reply'[v] = reply[v]
  BY <1>1, <1>2, Functions DEF Requesting
<1>5. CASE S!IsPending(e)
  <2>1. e = pending[i].enq \/ S!IsPending(e)'
    BY <1>1, <1>5, ClaimLeaves DEF LifeInv
  <2>2. CASE e = pending[i].enq
    BY <1>3, <1>4, <2>2 DEF HandedOut, Accounted
  <2> QED
    BY <2>1, <2>2 DEF Accounted
<1>6. CASE HandedOut(e)
  BY <1>2, <1>4, <1>6 DEF HandedOut, Accounted
<1>7. CASE ResultOut(e)
  BY <1>2, <1>7 DEF ResultOut, Accounted
<1> QED
  BY <1>5, <1>6, <1>7 DEF Accounted

LEMMA AbandonedClaimLosesOne ==
  ASSUME LifeInv, NEW w \in Workers, HandleAbandonedClaim(w)
  PROVE  \E x : \A e : Accounted(e) /\ e \notin {x} => Accounted(e)'
<1>1. UNCHANGED <<wpc, held, reply, posted, completed>>
  BY DEF HandleAbandonedClaim, runnerVars, S!Claim, S!ClaimNothing, S!storeVars
<1>2. \A e : (HandedOut(e) => HandedOut(e)') /\ (ResultOut(e) => ResultOut(e)')
  BY <1>1 DEF HandedOut, ResultOut
<1>3. \E x : \A e : S!IsPending(e) /\ e \notin {x} => S!IsPending(e)'
  <2>1. CASE S!ClaimNothing(Info[w])
    BY <2>1 DEF S!ClaimNothing, S!storeVars, S!IsPending
  <2>2. ASSUME NEW i \in DOMAIN pending, S!Claim(Info[w], i)
        PROVE  \A e : S!IsPending(e) /\ e \notin {pending[i].enq} => S!IsPending(e)'
    BY <2>2, ClaimLeaves DEF LifeInv
  <2> QED
    BY <2>1, <2>2 DEF HandleAbandonedClaim
<1> QED
  BY <1>2, <1>3 DEF Accounted

LEMMA CompleteLosesNothing ==
  ASSUME LifeInv, NEW r \in posted, HandleComplete(r)
  PROVE  \A e : Accounted(e) => Accounted(e)'
<1>1. /\ UNCHANGED <<pending, wpc, held, reply>> /\ posted' = posted \ {r}
      /\ completed' = Append(completed, r)
  BY DEF HandleComplete, S!Complete, runnerVars
<1>2. completed \in Seq(R!WorkerResults) /\ r \in R!WorkerResults
  BY DEF LifeInv, ResultsOK
<1>3. PICK X : X = R!WorkerResults
  OBVIOUS
<1>4. /\ \A n \in DOMAIN completed : n \in DOMAIN completed' /\ completed'[n] = completed[n]
      /\ \E n \in DOMAIN completed' : completed'[n] = r
  <2>1. /\ DOMAIN completed' = 1 .. Len(completed) + 1
        /\ DOMAIN completed = 1 .. Len(completed) /\ Len(completed) \in Nat
        /\ \A n \in 1 .. Len(completed) : completed'[n] = completed[n]
        /\ completed'[Len(completed) + 1] = r
    BY <1>1, <1>2, <1>3, AppendedTo
  <2>2. Len(completed) + 1 \in DOMAIN completed'
    BY <2>1
  <2> QED
    BY <2>1, <2>2
<1>5. \A e : ResultOut(e) => ResultOut(e)'
  BY <1>1, <1>4 DEF ResultOut
<1> QED
  BY <1>1, <1>5 DEF Accounted, S!IsPending, HandedOut

LEMMA CreateLosesNothing ==
  ASSUME LifeInv, NEW job \in Jobs, CreateJob(job)
  PROVE  /\ \A e : Accounted(e) => Accounted(e)'
         /\ \A e \in DOMAIN submitted' : e \in DOMAIN submitted \/ Accounted(e)'
<1>1. pending \in Seq(Envelope) /\ submitted \in Seq(Envelope)
  BY DEF LifeInv, FlowInv, FlowTypeOK
<1>2. PICK signed : signed = [job |-> job, key |-> ServerKey, enq |-> Len(submitted) + 1]
  OBVIOUS
<1>3. /\ pending' = Append(pending, signed) /\ submitted' = Append(submitted, signed)
      /\ UNCHANGED <<wpc, held, reply, posted, completed>>
  BY <1>2 DEF CreateJob, S!Enqueue, runnerVars, netVars
<1>4. /\ \A i \in DOMAIN pending : i \in DOMAIN pending' /\ pending'[i] = pending[i]
      /\ Len(pending) + 1 \in DOMAIN pending' /\ pending'[Len(pending) + 1] = signed
      /\ \A e \in DOMAIN submitted' : e \in DOMAIN submitted \/ e = Len(submitted) + 1
  BY <1>1, <1>3
<1>5. /\ \A e : S!IsPending(e) => S!IsPending(e)'
      /\ \A e : e = Len(submitted) + 1 => S!IsPending(e)'
  BY <1>2, <1>4 DEF S!IsPending
<1>6. \A e : (HandedOut(e) => HandedOut(e)') /\ (ResultOut(e) => ResultOut(e)')
  BY <1>3 DEF HandedOut, ResultOut
<1> QED
  BY <1>4, <1>5, <1>6 DEF Accounted

\* The claims the server has still to handle for nobody, one by one.
Strays == UNION {{w} \X (1 .. abandoned[w]) : w \in Workers}

\* Each of those will cost a job of its own: the faults pay for both.
LossesOK ==
  restarts = 0 =>
    /\ IsFiniteSet(Lost) /\ IsFiniteSet(Strays)
    /\ Cardinality(Lost) + Cardinality(Strays) <= faults

\* What is not accounted for after a step was not before, or is let go.
LEMMA LostFrom ==
  ASSUME LifeInv, [Next]_vars, NEW X,
         \A e : Accounted(e) /\ e \notin X => Accounted(e)',
         \A e \in DOMAIN submitted' : e \in DOMAIN submitted \/ Accounted(e)'
  PROVE  Lost' \subseteq Lost \cup X
BY DEF Lost

LEMMA StraysMove ==
  ASSUME NetOK, NEW w \in Workers
  PROVE  /\ abandoned' = abandoned => Strays' = Strays
         /\ abandoned' = [abandoned EXCEPT ![w] = @ + 1] =>
              \E x : Strays' \subseteq Strays \cup {x}
         /\ abandoned' = [abandoned EXCEPT ![w] = @ - 1] /\ abandoned[w] > 0 =>
              \E x \in Strays : Strays' \subseteq Strays \ {x}
<1>1. /\ abandoned \in [Workers -> Nat]
      /\ \A v \in Workers : abandoned[v] \in Nat
  BY DEF NetOK
<1>2. /\ \A p \in Strays : \E v \in Workers : \E n \in 1 .. abandoned[v] : p = <<v, n>>
      /\ \A v \in Workers : \A n \in 1 .. abandoned[v] : <<v, n>> \in Strays
  BY DEF Strays
<1>3. \A p \in Strays' : \E v \in Workers : \E n \in 1 .. abandoned'[v] : p = <<v, n>>
  BY DEF Strays
<1> HIDE DEF Strays
<1>4. PICK k \in Nat : k = abandoned[w]
  BY <1>1
<1>5. abandoned' = abandoned => Strays' = Strays
  BY DEF Strays
<1>6. ASSUME abandoned' = [abandoned EXCEPT ![w] = @ + 1]
      PROVE  Strays' \subseteq Strays \cup {<<w, k + 1>>}
  <2> SUFFICES ASSUME NEW v \in Workers, NEW n \in 1 .. abandoned'[v]
               PROVE  <<v, n>> \in Strays \/ <<v, n>> = <<w, k + 1>>
    BY <1>3
  <2>1. abandoned'[v] = IF v = w THEN k + 1 ELSE abandoned[v]
    BY <1>1, <1>4, <1>6
  <2>2. n \in 1 .. abandoned[v] \/ (v = w /\ n = k + 1)
    BY <1>1, <1>4, <2>1
  <2> QED
    BY <1>2, <2>2
<1>7. ASSUME abandoned' = [abandoned EXCEPT ![w] = @ - 1], abandoned[w] > 0
      PROVE  <<w, k>> \in Strays /\ Strays' \subseteq Strays \ {<<w, k>>}
  <2>1. <<w, k>> \in Strays
    BY <1>2, <1>4, <1>7
  <2>2. ASSUME NEW v \in Workers, NEW n \in 1 .. abandoned'[v]
        PROVE  <<v, n>> \in Strays /\ <<v, n>> # <<w, k>>
    <3>1. abandoned'[v] = IF v = w THEN k - 1 ELSE abandoned[v]
      BY <1>1, <1>4, <1>7
    <3>2. n \in 1 .. abandoned[v] /\ ~ (v = w /\ n = k)
      BY <1>1, <1>4, <3>1
    <3> QED
      BY <1>2, <3>2
  <2> QED
    BY <1>3, <2>1, <2>2
<1> QED
  BY <1>5, <1>6, <1>7

\* Counting.
LEMMA Counted ==
  ASSUME NEW A, IsFiniteSet(A), NEW B, NEW x
  PROVE  /\ Cardinality(A) \in Nat
         /\ IsFiniteSet(B) => Cardinality(B) \in Nat
         /\ B \subseteq A => IsFiniteSet(B) /\ Cardinality(B) <= Cardinality(A)
         /\ B \subseteq A \cup {x} => IsFiniteSet(B) /\ Cardinality(B) <= Cardinality(A) + 1
         /\ x \in A /\ B \subseteq A \ {x} =>
              IsFiniteSet(B) /\ Cardinality(B) <= Cardinality(A) - 1
<1>1. Cardinality(A) \in Nat /\ (IsFiniteSet(B) => Cardinality(B) \in Nat)
  BY FS_CardinalityType
<1>2. ASSUME B \subseteq A PROVE IsFiniteSet(B) /\ Cardinality(B) <= Cardinality(A)
  BY <1>2, FS_Subset
<1>3. ASSUME B \subseteq A \cup {x}
      PROVE  IsFiniteSet(B) /\ Cardinality(B) <= Cardinality(A) + 1
  <2>1. PICK C : C = A \cup {x}
    OBVIOUS
  <2>2. IsFiniteSet(C) /\ Cardinality(C) \in {Cardinality(A), Cardinality(A) + 1}
    BY <2>1, FS_AddElement
  <2>3. IsFiniteSet(B) /\ Cardinality(B) <= Cardinality(C)
    BY <1>3, <2>1, <2>2, FS_Subset
  <2>4. Cardinality(B) \in Nat
    BY <2>3, FS_CardinalityType
  <2> QED
    BY <1>1, <2>2, <2>3, <2>4
<1>4. ASSUME x \in A, B \subseteq A \ {x}
      PROVE  IsFiniteSet(B) /\ Cardinality(B) <= Cardinality(A) - 1
  <2>1. PICK C : C = A \ {x}
    OBVIOUS
  <2>2. IsFiniteSet(C) /\ Cardinality(C) = Cardinality(A) - 1
    BY <1>4, <2>1, FS_RemoveElement
  <2>3. IsFiniteSet(B) /\ Cardinality(B) <= Cardinality(C)
    BY <1>4, <2>1, <2>2, FS_Subset
  <2> QED
    BY <2>2, <2>3
<1> QED
  BY <1>1, <1>2, <1>3, <1>4

LEMMA StepKeepsLosses ==
  ASSUME LifeInv, NetOK, LossesOK, [Next]_vars
  PROVE  LossesOK'
<1> SUFFICES ASSUME restarts' = 0 PROVE LossesOK'
  BY DEF LossesOK
<1>1. restarts = 0 /\ ~ ControlPlaneRestart
  <2>1. restarts \in Nat
    BY DispatchBounds DEF NetOK
  <2>2. ~ ControlPlaneRestart
    BY <2>1 DEF ControlPlaneRestart
  <2>3. restarts' = restarts
    BY <2>2
    DEF Next, WorkerStep, ServerStep, Fault, CreateJob, SendClaim, HandleClaim,
      HandleClaimNoJob, HandleAbandonedClaim, ReceiveJob, ReceiveNoJob, BreakClaim,
      ClaimUnanswered, Verify, StartStep, FinishStep, SendResult, HandleComplete, ReceiveAck,
      BreakComplete, CompleteUnanswered, WorkerCrash, Tick, vars, faultVars
  <2> QED
    BY <2>2, <2>3
<1>2. /\ IsFiniteSet(Lost) /\ IsFiniteSet(Strays) /\ faults \in Nat
      /\ Cardinality(Lost) + Cardinality(Strays) <= faults
      /\ Cardinality(Lost) \in Nat /\ Cardinality(Strays) \in Nat
  BY <1>1, FS_CardinalityType, DispatchBounds DEF LossesOK, NetOK
\* One more fault, or one stray claim less, pays for one lost job.
<1>3. ASSUME Lost' \subseteq Lost, Strays' = Strays, faults' = faults PROVE LossesOK'
  <2>1. /\ IsFiniteSet(Lost') /\ Cardinality(Lost') <= Cardinality(Lost)
        /\ Cardinality(Lost') \in Nat
    BY <1>2, <1>3, Counted
  <2> QED
    BY <1>2, <1>3, <2>1 DEF LossesOK
<1>4. ASSUME NEW x, Lost' \subseteq Lost \cup {x}, Strays' = Strays, faults' = faults + 1
      PROVE  LossesOK'
  <2>1. /\ IsFiniteSet(Lost') /\ Cardinality(Lost') <= Cardinality(Lost) + 1
        /\ Cardinality(Lost') \in Nat
    BY <1>2, <1>4, Counted
  <2> QED
    BY <1>2, <1>4, <2>1 DEF LossesOK
<1>5. ASSUME NEW x, Strays' \subseteq Strays \cup {x}, Lost' \subseteq Lost, faults' = faults + 1
      PROVE  LossesOK'
  <2>1. /\ IsFiniteSet(Strays') /\ Cardinality(Strays') <= Cardinality(Strays) + 1
        /\ Cardinality(Strays') \in Nat
    BY <1>2, <1>5, Counted
  <2>2. /\ IsFiniteSet(Lost') /\ Cardinality(Lost') <= Cardinality(Lost)
        /\ Cardinality(Lost') \in Nat
    BY <1>2, <1>5, Counted
  <2> QED
    BY <1>2, <1>5, <2>1, <2>2 DEF LossesOK
<1>6. ASSUME NEW x, Lost' \subseteq Lost \cup {x}, NEW y \in Strays, Strays' \subseteq Strays \ {y},
             faults' = faults
      PROVE  LossesOK'
  <2>1. /\ IsFiniteSet(Strays') /\ Cardinality(Strays') <= Cardinality(Strays) - 1
        /\ Cardinality(Strays') \in Nat
    BY <1>2, <1>6, Counted
  <2>2. /\ IsFiniteSet(Lost') /\ Cardinality(Lost') <= Cardinality(Lost) + 1
        /\ Cardinality(Lost') \in Nat
    BY <1>2, <1>6, Counted
  <2> QED
    BY <1>2, <1>6, <2>1, <2>2 DEF LossesOK
<1>7. \A e \in DOMAIN submitted' :
        e \in DOMAIN submitted \/ (\E job \in Jobs : CreateJob(job))
  BY NewIsSignable
<1>8. ASSUME \A e : Accounted(e) => Accounted(e)', abandoned' = abandoned, faults' = faults,
             \A e \in DOMAIN submitted' : e \in DOMAIN submitted \/ Accounted(e)'
      PROVE  LossesOK'
  <2>1. Lost' \subseteq Lost
    BY <1>8, LostFrom DEF Lost
  <2>2. Strays' = Strays
    BY <1>8 DEF Strays
  <2> QED
    BY <1>3, <1>8, <2>1, <2>2
<1>9. ASSUME NEW job \in Jobs, CreateJob(job) PROVE LossesOK'
  BY <1>8, <1>9, CreateLosesNothing DEF CreateJob, netVars, faultVars
<1>10. ASSUME NEW w \in Workers, HandleAbandonedClaim(w) PROVE LossesOK'
  <2>1. PICK x : \A e : Accounted(e) /\ e \notin {x} => Accounted(e)'
    BY <1>10, AbandonedClaimLosesOne
  <2>2. /\ abandoned[w] > 0 /\ abandoned' = [abandoned EXCEPT ![w] = @ - 1]
        /\ faults' = faults /\ submitted' = submitted
    BY <1>10 DEF HandleAbandonedClaim, faultVars, S!Claim, S!ClaimNothing, S!storeVars
  <2>3. Lost' \subseteq Lost \cup {x}
    BY <2>1, <2>2 DEF Lost
  <2>4. PICK y \in Strays : Strays' \subseteq Strays \ {y}
    BY <2>2, StraysMove
  <2> QED
    BY <1>6, <2>2, <2>3, <2>4
<1>11. ASSUME NEW w \in Workers, Fault(w) PROVE LossesOK'
  <2>1. PICK X : X = {d \in 1 .. MaxSubmitted : Carries(w, d)}
    OBVIOUS
  <2>2. /\ faults' = faults + 1 /\ submitted' = submitted
        /\ \/ abandoned' = abandoned
           \/ w \in request /\ abandoned' = [abandoned EXCEPT ![w] = @ + 1]
    BY <1>11 DEF Fault, BreakClaim, BreakComplete, WorkerCrash, storeVars
  <2>3. \A e : Accounted(e) /\ e \notin X => Accounted(e)'
    BY <1>11, <2>1, FaultLosesItsOwn
  <2>4. Lost' \subseteq Lost \cup X
    BY <2>2, <2>3 DEF Lost
  <2>5. CASE abandoned' = abandoned
    <3>1. PICK x : X \subseteq {x}
      BY <2>1, CarriesOne
    <3>2. Strays' = Strays
      BY <2>5 DEF Strays
    <3> QED
      BY <1>4, <2>2, <2>4, <3>1, <3>2
  <2>6. CASE w \in request /\ abandoned' = [abandoned EXCEPT ![w] = @ + 1]
    <3>1. X = {}
      BY <2>1, <2>6, CarriesOne
    <3>2. PICK x : Strays' \subseteq Strays \cup {x}
      BY <2>6, StraysMove
    <3> QED
      BY <1>5, <2>2, <2>4, <3>1, <3>2
  <2> QED
    BY <2>2, <2>5, <2>6
<1>12. ASSUME \A e : Accounted(e) => Accounted(e)',
              UNCHANGED <<abandoned, faults, submitted>>
       PROVE  LossesOK'
  BY <1>8, <1>12
<1>13. ASSUME NEW w \in Workers, WorkerStep(w) \/ HandleClaim(w) \/ HandleClaimNoJob(w)
       PROVE  LossesOK'
  <2>1. \A e : Accounted(e) => Accounted(e)'
    BY <1>13, WorkerLosesNothing, HandleClaimLosesNothing
  <2>2. UNCHANGED <<abandoned, faults, submitted>>
    BY <1>13
    DEF WorkerStep, SendClaim, HandleClaim, HandleClaimNoJob, ReceiveJob, ReceiveNoJob,
        ClaimUnanswered, Verify, StartStep, FinishStep, SendResult, ReceiveAck,
        CompleteUnanswered, storeVars, netVars, faultVars, S!Claim, S!ClaimNothing, S!storeVars
  <2> QED
    BY <1>12, <2>1, <2>2
<1>14. ASSUME NEW r \in posted, HandleComplete(r) PROVE LossesOK'
  BY <1>12, <1>14, CompleteLosesNothing DEF HandleComplete, S!Complete, faultVars
<1>15. CASE (\E w \in Workers : Tick(w)) \/ UNCHANGED vars
  <2>1. /\ UNCHANGED <<abandoned, faults, submitted>>
        /\ UNCHANGED <<pending, wpc, held, reply, posted, completed>>
    BY <1>15 DEF Tick, R!SetClock, R!localVars, vars, storeVars, runnerVars, netVars, faultVars
  <2> QED
    BY <1>12, <2>1 DEF Accounted, S!IsPending, HandedOut, ResultOut
<1> QED
  BY <1>1, <1>9, <1>10, <1>11, <1>13, <1>14, <1>15 DEF Next, ServerStep

(***************************************************************************)
(* One fault loses at most one job, and no fault none, as long as the      *)
(* control plane does not restart.  A fault that does not lose a job at    *)
(* once may leave a claim at the server that Store.Claim answers for a     *)
(* client that is gone, and that one loses the job.                        *)
(***************************************************************************)
THEOREM FaultsBoundLosses == Spec => []OneFaultLosesOneJob
<1>1. Init => LossesOK
  <2> SUFFICES ASSUME Init PROVE LossesOK
    OBVIOUS
  <2>1. Lost = {} /\ Strays = {}
    BY DEF Init, S!StoreInit, Lost, Strays
  <2>2. faults = 0
    BY DEF Init
  <2> QED
    BY <2>1, <2>2, FS_EmptySet DEF LossesOK
<1>2. LifeInv /\ NetOK /\ LossesOK /\ [Next]_vars => LossesOK'
  BY StepKeepsLosses
<1>3. NetOK /\ LossesOK => OneFaultLosesOneJob
  <2> SUFFICES ASSUME NetOK, LossesOK, restarts = 0 PROVE Cardinality(Lost) <= faults
    BY DEF OneFaultLosesOneJob
  <2>1. Cardinality(Strays) \in Nat /\ Cardinality(Lost) \in Nat /\ faults \in Nat
    BY FS_CardinalityType, DispatchBounds DEF LossesOK, NetOK
  <2> QED
    BY <2>1 DEF LossesOK
<1> QED
  BY <1>1, <1>2, <1>3, ResultsAreFinal, NetHolds, PTL DEF Spec

-----------------------------------------------------------------------------
(* Evidence is attributed. *)

Bundles == {S!Bundle(job, r) : job \in Jobs \cup {None}, r \in R!WorkerResults}

\* The store will yet need to know which job e was.
Owing(e) == HandedOut(e) \/ \E r \in posted : r.enq = e

\* What the store remembers under the ID of e is e's job, unless somebody else
\* claimed or finished that ID, or it forgot everything.
Remembered(e) ==
  \/ SharesID(e)
  \/ claimed[Job(e).id] = Job(e)
  \/ restarts > 0 /\ claimed[Job(e).id] = None

Attributed(bundle) ==
  LET plan == Job(bundle.enq).plan IN
  \/ SharesID(bundle.enq)
  \/ bundle.app = plan.app /\ bundle.env = plan.env
  \/ restarts > 0 /\ bundle.app = "" /\ bundle.env = ""

Named == \A w \in Workers : wpc[w] \in R!Working => result[w].job = held[w].job.id

PostedOK ==
  /\ \A r \in posted : r.job = Job(r.enq).id
  /\ \A r, s \in posted : r.enq = s.enq => r = s

EvidenceOK ==
  /\ claimed \in [S!JobIDs -> Jobs \cup {None}]
  /\ evidence \in Seq(Bundles)
  /\ \A e \in DOMAIN submitted : Owing(e) => Remembered(e)
  /\ \A n \in DOMAIN evidence :
       evidence[n].enq \in DOMAIN submitted /\ Attributed(evidence[n])

\* A result is on its way because it was, or because its worker sends it.
LEMMA PostedFrom ==
  ASSUME LifeInv, [Next]_vars, NEW r \in posted', r \notin posted
  PROVE  \E w \in Workers : SendResult(w) /\ r = result[w]
<1>1. ASSUME NEW w \in Workers, SendResult(w) PROVE r = result[w]
  BY <1>1 DEF SendResult
<1>2. CASE posted' \subseteq posted
  BY <1>2
<1> QED
  BY <1>1, <1>2
  DEF Next, WorkerStep, ServerStep, Fault, CreateJob, SendClaim, HandleClaim, HandleClaimNoJob,
      HandleAbandonedClaim, ReceiveJob, ReceiveNoJob, BreakClaim, ClaimUnanswered, Verify,
      StartStep, FinishStep, ReceiveAck, BreakComplete, HandleComplete,
      CompleteUnanswered, WorkerCrash, ControlPlaneRestart, Tick, vars, netVars

\* A submission is owed because it was, or because it is handed out now.
LEMMA OwedFrom ==
  ASSUME LifeInv, [Next]_vars, NEW e, Owing(e)'
  PROVE  \/ Owing(e)
         \/ \E w \in Workers : HandleClaim(w) /\ \E i \in DOMAIN pending :
              S!Claim(Info[w], i) /\ e = pending[i].enq
<1>1. ASSUME NEW w \in Workers, Answered(w)', reply'[w].enq = e
      PROVE  \/ Owing(e)
             \/ HandleClaim(w) /\ \E i \in DOMAIN pending :
                  S!Claim(Info[w], i) /\ e = pending[i].enq
  <2>1. CASE reply'[w] = reply[w]
    BY <1>1, <2>1 DEF Owing, HandedOut, Answered
  <2>2. CASE HandleClaim(w)
    <3>1. PICK i \in DOMAIN pending :
            S!Claim(Info[w], i) /\ reply' = [reply EXCEPT ![w] = pending[i]]
      BY <2>2 DEF HandleClaim
    <3>2. reply'[w] = pending[i]
      BY <3>1, Functions
    <3> QED
      BY <1>1, <2>2, <3>1, <3>2
  <2> QED
    BY <1>1, <2>1, <2>2, AnswerFrom
<1>2. ASSUME NEW w \in Workers, wpc'[w] \in R!Working \ {R!Completing}, held'[w].enq = e
      PROVE  Owing(e)
  <2>1. CASE Stays(w)
    BY <1>2, <2>1 DEF Owing, HandedOut, Stays
  <2>2. CASE ReceiveJob(w)
    BY <1>2, <2>2, Functions DEF Owing, HandedOut, ReceiveJob, R!Claimed
  <2>3. CASE Verify(w) \/ StartStep(w) \/ FinishStep(w)
    <3>1. held' = held /\ wpc[w] \in R!Working \ {R!Completing}
      BY <2>3, DenyIs
      DEF Verify, StartStep, FinishStep, R!Accept, R!StartStep,
          R!Unregistered, R!FinishStep, R!StepEnds, R!localVars
    <3> QED
      BY <1>2, <3>1 DEF Owing, HandedOut
  <2>4. CASE SendResult(w)
    BY <1>2, <2>4, ReportIs, Functions DEF SendResult, R!Goto
  <2> QED
    BY <1>2, <2>1, <2>2, <2>3, <2>4, WorkerMoves
<1>3. ASSUME NEW r \in posted', r.enq = e PROVE Owing(e)
  <2>1. CASE r \in posted
    BY <1>3, <2>1 DEF Owing
  <2>2. ASSUME NEW w \in Workers, SendResult(w), r = result[w] PROVE Owing(e)
    <3>1. wpc[w] \in R!Working \ {R!Completing}
      BY <2>2, ReportIs DEF SendResult
    <3> QED
      BY <1>3, <2>2, <3>1, AtWork DEF Owing
  <2> QED
    BY <2>1, <2>2, PostedFrom
<1> QED
  BY <1>1, <1>2, <1>3 DEF Owing, HandedOut, Answered

\* What is owed was submitted.
LEMMA OwedIsSubmitted ==
  ASSUME LifeInv, NEW e, Owing(e)
  PROVE  e \in DOMAIN submitted
<1>1. ASSUME NEW w \in Workers, Answered(w) PROVE reply[w].enq \in DOMAIN submitted
  BY <1>1 DEF LifeInv, FlowInv, WorkerOK, Genuine
<1>2. ASSUME NEW w \in Workers, wpc[w] \in R!Working PROVE held[w].enq \in DOMAIN submitted
  BY <1>2, JobOfWorker
<1>3. ASSUME NEW r \in posted PROVE r.enq \in DOMAIN submitted
  <2>1. r.enq \in 1 .. MaxSubmitted
    BY DEF LifeInv, ResultsOK, R!WorkerResults
  <2> QED
    BY <2>1 DEF LifeInv, ResultsOK, ResultOut
<1> QED
  BY <1>1, <1>2, <1>3 DEF Owing, HandedOut, Answered

\* What has once been shared or forgotten stays so.
LEMMA SharingStays ==
  ASSUME LifeInv, NetOK, [Next]_vars, NEW e \in DOMAIN submitted
  PROVE  /\ SharesID(e) => SharesID(e)'
         /\ e \in DOMAIN submitted' /\ Job(e)' = Job(e) /\ Job(e) \in Jobs
         /\ restarts > 0 => restarts' > 0
         /\ ControlPlaneRestart => restarts' > 0
<1>1. SharesID(e) => SharesID(e)'
  BY SubmittedKept DEF SharesID, Job
<1>2. e \in DOMAIN submitted' /\ Job(e)' = Job(e)
  BY SubmittedKept DEF Job
<1>3. Job(e) \in Jobs
  <2>1. submitted \in Seq(Envelope)
    BY DEF LifeInv, FlowInv, FlowTypeOK
  <2>2. submitted[e] \in Envelope
    BY <2>1
  <2> QED
    BY <2>2 DEF Envelope, S!Envelopes, Job
<1>4. restarts \in Nat
  BY DispatchBounds DEF NetOK
<1>5. restarts' = restarts \/ restarts' = restarts + 1
  BY DEF Next, WorkerStep, ServerStep, Fault, CreateJob, SendClaim, HandleClaim,
      HandleClaimNoJob, HandleAbandonedClaim, ReceiveJob, ReceiveNoJob, BreakClaim,
      ClaimUnanswered, Verify, StartStep, FinishStep, SendResult, HandleComplete, ReceiveAck,
      BreakComplete, CompleteUnanswered, WorkerCrash, ControlPlaneRestart, Tick, vars, faultVars
<1>6. ControlPlaneRestart => restarts' = restarts + 1
  BY DEF ControlPlaneRestart
<1> QED
  BY <1>1, <1>2, <1>3, <1>4, <1>5, <1>6

\* The results name the job they are of, and there is one for each.
LEMMA StepKeepsNamed ==
  ASSUME LifeInv, SubmissionsValid, Named, [Next]_vars
  PROVE  Named'
<1> SUFFICES ASSUME NEW w \in Workers, wpc'[w] \in R!Working
             PROVE  result'[w].job = held'[w].job.id
  BY DEF Named
<1>1. CASE Stays(w)
  BY <1>1 DEF Stays, Named
<1>2. CASE ReceiveJob(w)
  <2>1. PICK r : r = [job |-> R!ClaimedID(reply[w]), enq |-> reply[w].enq, status |-> R!Running,
                      steps |-> << >>]
    OBVIOUS
  <2>2. result' = [result EXCEPT ![w] = r] /\ held' = [held EXCEPT ![w] = reply[w]]
    BY <1>2, <2>1 DEF ReceiveJob, R!Claimed
  <2>3. result'[w] = r /\ held'[w] = reply[w]
    BY <2>2, Functions
  <2>4. reply[w].enq \in DOMAIN submitted /\ reply[w] = submitted[reply[w].enq]
    BY <1>2 DEF ReceiveJob, Answered, LifeInv, FlowInv, WorkerOK, Genuine
  <2>5. R!ClaimedID(reply[w]) = reply[w].job.id
    BY <2>4 DEF SubmissionsValid, Job, ValidJob, IsToken, R!ClaimedID
  <2> QED
    BY <2>1, <2>3, <2>5
<1>3. CASE Verify(w) \/ StartStep(w) \/ FinishStep(w) \/ SendResult(w)
  <2>1. held' = held /\ wpc[w] \in R!Working
    BY <1>3, ReportIs, DenyIs
    DEF Verify, StartStep, FinishStep, SendResult, R!Accept, R!StartStep,
        R!Unregistered, R!FinishStep, R!StepEnds, R!localVars
  <2>2. result[w] \in R!WorkerResults
    BY <2>1, JobOfWorker
  <2>3. result'[w].job = result[w].job
    <3>1. CASE R!DenyUnverified(w) \/ R!DenyUnmatched(w)
      <4>1. result' = [result EXCEPT ![w].status = R!Denied]
        BY <3>1, DenyIs
      <4>2. result'[w] = [result[w] EXCEPT !.status = R!Denied]
        BY <2>2, <4>1, Functions DEF R!WorkerResults
      <4> QED
        BY <2>2, <4>2 DEF R!WorkerResults
    <3>2. ASSUME NEW id, NEW status, NEW o, R!StepEnds(w, id, status, o)
          PROVE  result'[w].job = result[w].job
      <4>1. PICK more, next :
              result' = [result EXCEPT ![w].status = next, ![w].steps = more]
        BY <3>2 DEF R!StepEnds
      <4>2. result'[w] = [result[w] EXCEPT !.status = next, !.steps = more]
        BY <2>2, <4>1, Functions DEF R!WorkerResults
      <4> QED
        BY <2>2, <4>2 DEF R!WorkerResults
    <3>3. CASE R!Accept(w) \/ R!StartStep(w) \/ SendResult(w)
      BY <3>3, ReportIs DEF R!Accept, R!StartStep, SendResult, R!localVars
    <3> QED
      BY <1>3, <3>1, <3>2, <3>3 DEF Verify, StartStep, FinishStep, R!Unregistered, R!FinishStep
  <2> QED
    BY <2>1, <2>3 DEF Named
<1> QED
  BY <1>1, <1>2, <1>3, WorkerMoves

LEMMA StepKeepsPosted ==
  ASSUME LifeInv, Named, PostedOK, [Next]_vars
  PROVE  PostedOK'
<1>1. ASSUME NEW r \in posted', r \notin posted
      PROVE  /\ \E w \in Workers : r = result[w] /\ SendResult(w)
             /\ r.enq \in DOMAIN submitted /\ r.job = Job(r.enq).id
             /\ \A s \in posted : s.enq # r.enq
  <2>1. PICK w \in Workers : SendResult(w) /\ r = result[w]
    BY <1>1, PostedFrom
  <2>2. wpc[w] \in R!Recording
    BY <2>1, ReportIs DEF SendResult
  <2>3. PICK e \in 1 .. MaxSubmitted : e = held[w].enq
    BY <2>2, JobOfWorker
  <2>4. /\ HandedOut(e) /\ r.enq = e /\ e \in DOMAIN submitted /\ submitted[e] = held[w]
    BY <2>1, <2>2, <2>3, AtWork, JobOfWorker
  <2>5. ~ ResultOut(e)
    BY <2>4 DEF LifeInv, ResultsOK
  <2>6. r.job = Job(e).id
    BY <2>1, <2>2, <2>4 DEF Named, Job
  <2> QED
    BY <2>1, <2>4, <2>5, <2>6 DEF ResultOut
<1>2. \A r \in posted : r.enq \in DOMAIN submitted
  BY OwedIsSubmitted DEF Owing
<1>3. \A e \in DOMAIN submitted : Job(e)' = Job(e)
  BY SubmittedKept DEF Job
<1>4. ASSUME NEW r \in posted' PROVE r.job = (Job(r.enq).id)'
  <2>1. r.enq \in DOMAIN submitted /\ r.job = Job(r.enq).id
    BY <1>1, <1>2 DEF PostedOK
  <2> QED
    BY <2>1, <1>3 DEF Job
<1>5. ASSUME NEW r \in posted', NEW s \in posted', r.enq = s.enq PROVE r = s
  <2>1. CASE r \in posted /\ s \in posted
    BY <1>5, <2>1 DEF PostedOK
  <2>2. CASE r \in posted /\ s \notin posted
    BY <1>1, <1>5, <2>2
  <2>3. CASE r \notin posted /\ s \in posted
    BY <1>1, <1>5, <2>3
  <2>4. CASE r \notin posted /\ s \notin posted
    <3>1. PICK v, w : /\ v \in Workers /\ SendResult(v) /\ r = result[v]
                      /\ w \in Workers /\ SendResult(w) /\ s = result[w]
      BY <1>1, <2>4
    <3>2. wpc[v] \in R!Recording /\ wpc[w] \in R!Recording
      BY <3>1, ReportIs DEF SendResult
    <3>3. PICK e \in 1 .. MaxSubmitted : e = held[v].enq
      BY <3>1, <3>2, JobOfWorker
    <3>4. Carries(v, e) /\ Carries(w, e)
      BY <1>5, <3>1, <3>2, <3>3, JobOfWorker DEF Carries
    <3>5. v = w
      BY <3>1, <3>4 DEF LifeInv, FlowInv, Exclusive
    <3> QED
      BY <3>1, <3>5
  <2> QED
    BY <2>1, <2>2, <2>3, <2>4
<1> QED
  BY <1>4, <1>5 DEF PostedOK

\* The entry of an ID changes when a job with that ID is claimed or finished, or
\* when everything is forgotten.
LEMMA ClaimedFrom ==
  ASSUME LifeInv, [Next]_vars
  PROVE  \/ claimed' = claimed
         \/ \E w \in Workers : \E i \in DOMAIN pending : S!Claim(Info[w], i)
         \/ \E r \in posted : HandleComplete(r)
         \/ ControlPlaneRestart
BY DEF Next, WorkerStep, ServerStep, Fault, CreateJob, SendClaim, HandleClaim,
      HandleClaimNoJob, HandleAbandonedClaim, ReceiveJob, ReceiveNoJob, BreakClaim,
      ClaimUnanswered, Verify, StartStep, FinishStep, SendResult, ReceiveAck,
      BreakComplete, CompleteUnanswered, WorkerCrash, Tick, vars, storeVars,
      S!Enqueue, S!ClaimNothing, S!storeVars

\* A claim sets the entry of the job that is claimed.
LEMMA ClaimSets ==
  ASSUME LifeInv, claimed \in [S!JobIDs -> Jobs \cup {None}], NEW w \in Workers,
         NEW i \in DOMAIN pending, S!Claim(Info[w], i)
  PROVE  /\ pending[i].enq \in DOMAIN submitted
         /\ Job(pending[i].enq) \in Jobs
         /\ claimed' = [claimed EXCEPT ![Job(pending[i].enq).id] = Job(pending[i].enq)]
<1>1. /\ pending[i].enq \in DOMAIN submitted /\ pending[i] = submitted[pending[i].enq]
  BY DEF LifeInv, FlowInv, QueueOK, Genuine
<1>2. claimed' = [claimed EXCEPT ![pending[i].job.id] = pending[i].job]
  BY DEF S!Claim
<1>3. pending[i] \in Envelope
  BY DEF LifeInv, FlowInv, FlowTypeOK
<1> QED
  BY <1>1, <1>2, <1>3 DEF Job, Envelope, S!Envelopes

LEMMA StepRemembers ==
  ASSUME LifeInv, NetOK, PostedOK, EvidenceOK, [Next]_vars, NEW e \in DOMAIN submitted,
         Owing(e)'
  PROVE  Remembered(e)'
<1>1. /\ SharesID(e) => SharesID(e)'
      /\ Job(e)' = Job(e) /\ Job(e) \in Jobs
      /\ restarts > 0 => restarts' > 0
      /\ ControlPlaneRestart => restarts' > 0
  BY SharingStays
<1>2. /\ claimed \in [S!JobIDs -> Jobs \cup {None}] /\ Job(e).id \in S!JobIDs
  BY <1>1 DEF EvidenceOK, S!JobIDs
<1>3. ASSUME NEW w \in Workers, NEW i \in DOMAIN pending, S!Claim(Info[w], i),
             e = pending[i].enq
      PROVE  Remembered(e)'
  BY <1>1, <1>2, <1>3, ClaimSets DEF Remembered
<1>4. ASSUME Owing(e) PROVE Remembered(e)'
  <2>1. Remembered(e)
    BY <1>4 DEF EvidenceOK
  <2>2. CASE claimed'[Job(e).id] = claimed[Job(e).id]
    BY <1>1, <2>1, <2>2 DEF Remembered
  <2>3. ASSUME NEW f \in DOMAIN submitted, f # e, Job(f).id = Job(e).id PROVE Remembered(e)'
    BY <1>1, <2>3 DEF Remembered, SharesID
  <2>4. ASSUME NEW w \in Workers, NEW i \in DOMAIN pending, S!Claim(Info[w], i)
        PROVE  Remembered(e)'
    <3>1. PICK f : f = pending[i].enq
      OBVIOUS
    <3>2. /\ f \in DOMAIN submitted
          /\ claimed' = [claimed EXCEPT ![Job(f).id] = Job(f)]
      BY <1>2, <2>4, <3>1, ClaimSets
    <3>3. CASE f = e
      BY <1>3, <2>4, <3>1, <3>3
    <3>4. CASE f # e /\ Job(f).id # Job(e).id
      BY <1>2, <2>2, <3>2, <3>4
    <3> QED
      BY <2>3, <3>2, <3>3, <3>4
  <2>5. ASSUME NEW r \in posted, HandleComplete(r) PROVE Remembered(e)'
    <3>1. PICK f : f = r.enq
      OBVIOUS
    <3>2. /\ f \in DOMAIN submitted /\ r.job = Job(f).id
      BY <3>1, OwedIsSubmitted DEF PostedOK, Owing
    <3>3. /\ claimed' = S!Settle(r) /\ posted' = posted \ {r}
          /\ UNCHANGED <<wpc, held, reply>>
      BY <2>5 DEF HandleComplete, S!Complete, runnerVars
    <3>4. f # e
      <4>1. SUFFICES ASSUME f = e PROVE FALSE
        OBVIOUS
      <4>2. ~ HandedOut(e)
        <5>1. ResultOut(e) /\ e \in 1 .. MaxSubmitted
          <6>1. submitted \in Seq(Envelope) /\ Len(submitted) <= MaxSubmitted
            BY DEF LifeInv, FlowInv, FlowTypeOK
          <6>2. e \in 1 .. MaxSubmitted
            BY <6>1, DispatchBounds
          <6> QED
            BY <3>1, <4>1, <6>2 DEF ResultOut
        <5> QED
          BY <5>1 DEF LifeInv, ResultsOK
      <4>3. \A s \in posted' : s.enq # e
        BY <3>1, <3>3, <4>1 DEF PostedOK
      <4> QED
        BY <3>3, <4>2, <4>3 DEF Owing, HandedOut
    <3>5. CASE Job(f).id # Job(e).id
      BY <1>2, <2>2, <3>2, <3>3, <3>5 DEF S!Settle
    <3> QED
      BY <2>3, <3>2, <3>4, <3>5
  <2>6. CASE ControlPlaneRestart
    <3>1. claimed'[Job(e).id] = None
      BY <1>2, <2>6 DEF ControlPlaneRestart
    <3> QED
      BY <1>1, <2>6, <3>1 DEF Remembered
  <2>7. CASE claimed' = claimed
    BY <2>2, <2>7
  <2> QED
    BY <2>4, <2>5, <2>6, <2>7, ClaimedFrom
<1> QED
  BY <1>3, <1>4, OwedFrom

\* A bundle stays attributed, and the new one is.
LEMMA AttributionStays ==
  ASSUME LifeInv, NetOK, [Next]_vars, NEW b, b.enq \in DOMAIN submitted, Attributed(b)
  PROVE  b.enq \in DOMAIN submitted' /\ Attributed(b)'
<1>1. PICK e : e = b.enq
  OBVIOUS
<1>2. /\ SharesID(e) => SharesID(e)'
      /\ e \in DOMAIN submitted' /\ Job(e)' = Job(e)
      /\ restarts > 0 => restarts' > 0
  BY <1>1, SharingStays
<1> QED
  BY <1>1, <1>2 DEF Attributed

LEMMA NewBundle ==
  ASSUME LifeInv, PostedOK, EvidenceOK, NEW r \in posted
  PROVE  /\ S!Bundle(S!Context(r), r) \in Bundles
         /\ S!Bundle(S!Context(r), r).enq \in DOMAIN submitted
         /\ Attributed(S!Bundle(S!Context(r), r))
<1>1. PICK e : e = r.enq
  OBVIOUS
<1>2. e \in DOMAIN submitted /\ r.job = Job(e).id /\ Remembered(e) /\ r \in R!WorkerResults
  BY <1>1, OwedIsSubmitted DEF PostedOK, EvidenceOK, Owing, LifeInv, ResultsOK
<1>3. Job(e) \in Jobs /\ r.job \in S!JobIDs
  <2>1. submitted \in Seq(Envelope)
    BY DEF LifeInv, FlowInv, FlowTypeOK
  <2>2. submitted[e] \in Envelope
    BY <1>2, <2>1
  <2> QED
    BY <1>2, <2>2 DEF Envelope, S!Envelopes, Job, S!JobIDs
<1>4. PICK c : c = S!Context(r)
  OBVIOUS
<1>5. c = claimed[Job(e).id] /\ c \in Jobs \cup {None}
  BY <1>2, <1>3, <1>4 DEF S!Context, EvidenceOK
<1>6. Job(e) # None
  BY <1>3, NothingAssumption
<1>7. PICK b : b = S!Bundle(c, r)
  OBVIOUS
<1>8. b \in Bundles /\ b.enq = e
  <2>1. b \in Bundles
    BY <1>2, <1>5, <1>7 DEF Bundles
  <2>2. b.enq = r.enq
    BY <1>7 DEF S!Bundle
  <2> QED
    BY <1>1, <2>1, <2>2
<1>9. Attributed(b)
  BY <1>2, <1>5, <1>6, <1>7, <1>8 DEF Attributed, S!Bundle, Remembered
<1> QED
  BY <1>2, <1>4, <1>7, <1>8, <1>9

LEMMA StepKeepsEvidence ==
  ASSUME LifeInv, NetOK, PostedOK, EvidenceOK, [Next]_vars
  PROVE  EvidenceOK'
<1>1. claimed' \in [S!JobIDs -> Jobs \cup {None}]
  <2>1. claimed \in [S!JobIDs -> Jobs \cup {None}]
    BY DEF EvidenceOK
  <2>2. ASSUME NEW w \in Workers, NEW i \in DOMAIN pending, S!Claim(Info[w], i)
        PROVE  claimed' \in [S!JobIDs -> Jobs \cup {None}]
    BY <2>1, <2>2, ClaimSets
  <2>3. ASSUME NEW r \in posted, HandleComplete(r)
        PROVE  claimed' \in [S!JobIDs -> Jobs \cup {None}]
    BY <2>1, <2>3 DEF HandleComplete, S!Complete, S!Settle
  <2>4. CASE ControlPlaneRestart
    BY <2>4 DEF ControlPlaneRestart
  <2> QED
    BY <2>1, <2>2, <2>3, <2>4, ClaimedFrom
<1>2. ASSUME NEW e \in DOMAIN submitted', Owing(e)' PROVE Remembered(e)'
  <2>1. e \in DOMAIN submitted
    BY <1>2, OwedFrom, OwedIsSubmitted DEF LifeInv, FlowInv, QueueOK, Genuine
  <2> QED
    BY <1>2, <2>1, StepRemembers
<1>3. /\ evidence' \in Seq(Bundles)
      /\ (\A n \in DOMAIN evidence :
           evidence[n].enq \in DOMAIN submitted /\ Attributed(evidence[n]))'
  <2>1. evidence \in Seq(Bundles)
    BY DEF EvidenceOK
  <2>2. \A b : b.enq \in DOMAIN submitted /\ Attributed(b) =>
                 b.enq \in DOMAIN submitted' /\ Attributed(b)'
    BY AttributionStays
  <2>3. ASSUME NEW r \in posted, HandleComplete(r)
        PROVE  /\ evidence' \in Seq(Bundles)
               /\ \A n \in DOMAIN evidence' :
                    evidence'[n].enq \in DOMAIN submitted /\ Attributed(evidence'[n])
    <3>1. PICK b : b = S!Bundle(S!Context(r), r)
      OBVIOUS
    <3>2. evidence' = Append(evidence, b)
      BY <2>3, <3>1 DEF HandleComplete, S!Complete
    <3>3. b \in Bundles /\ b.enq \in DOMAIN submitted /\ Attributed(b)
      BY <3>1, NewBundle
    <3>4. PICK X : X = Bundles
      OBVIOUS
    <3>5. /\ DOMAIN evidence' = 1 .. Len(evidence) + 1 /\ Len(evidence) \in Nat
          /\ DOMAIN evidence = 1 .. Len(evidence)
          /\ \A n \in 1 .. Len(evidence) : evidence'[n] = evidence[n]
          /\ evidence'[Len(evidence) + 1] = b
      BY <2>1, <3>2, <3>3, <3>4, AppendedTo
    <3>6. \A n \in DOMAIN evidence' :
            evidence'[n] = b \/ (n \in DOMAIN evidence /\ evidence'[n] = evidence[n])
      BY <3>5
    <3>7. evidence' \in Seq(Bundles)
      BY <2>1, <3>2, <3>3
    <3> QED
      BY <3>3, <3>6, <3>7 DEF EvidenceOK
  <2>4. ASSUME evidence' = evidence \/ evidence' = << >>
        PROVE  /\ evidence' \in Seq(Bundles)
               /\ \A n \in DOMAIN evidence' :
                    evidence'[n].enq \in DOMAIN submitted /\ Attributed(evidence'[n])
    <3>1. CASE evidence' = evidence
      BY <3>1 DEF EvidenceOK
    <3>2. CASE evidence' = << >>
      BY <3>2
    <3> QED
      BY <2>4, <3>1, <3>2
  <2>5. evidence' = evidence \/ evidence' = << >> \/ \E r \in posted : HandleComplete(r)
    BY DEF Next, WorkerStep, ServerStep, Fault, CreateJob, SendClaim, HandleClaim,
      HandleClaimNoJob, HandleAbandonedClaim, ReceiveJob, ReceiveNoJob, BreakClaim,
      ClaimUnanswered, Verify, StartStep, FinishStep, SendResult, ReceiveAck,
      BreakComplete, CompleteUnanswered, WorkerCrash, ControlPlaneRestart, Tick, vars,
      storeVars, S!Enqueue, S!Claim, S!ClaimNothing, S!storeVars
  <2>6. /\ evidence' \in Seq(Bundles)
        /\ \A n \in DOMAIN evidence' :
             evidence'[n].enq \in DOMAIN submitted /\ Attributed(evidence'[n])
    BY <2>3, <2>4, <2>5
  <2>7. ASSUME NEW n \in DOMAIN evidence'
        PROVE  (evidence[n].enq \in DOMAIN submitted /\ Attributed(evidence[n]))'
    <3>1. PICK b : b = evidence'[n]
      OBVIOUS
    <3>2. b.enq \in DOMAIN submitted' /\ Attributed(b)'
      BY <2>2, <2>6, <2>7, <3>1
    <3> QED
      BY <3>1, <3>2 DEF Attributed
  <2> QED
    BY <2>6, <2>7
<1> QED
  BY <1>1, <1>2, <1>3 DEF EvidenceOK

LEMMA EvidenceHolds == Spec => []EvidenceOK
<1>1. Init => Named /\ PostedOK /\ EvidenceOK
  <2>1. Init => Named /\ PostedOK
    BY DEF Init, R!RunnerInit, Named, PostedOK
  <2>2. Init => EvidenceOK
    BY DEF Init, S!StoreInit, EvidenceOK, S!JobIDs
  <2> QED
    BY <2>1, <2>2
<1>2. LifeInv /\ SubmissionsValid /\ NetOK /\ Named /\ PostedOK /\ EvidenceOK /\ [Next]_vars
        => Named' /\ PostedOK' /\ EvidenceOK'
  BY StepKeepsNamed, StepKeepsPosted, StepKeepsEvidence
<1> QED
  BY <1>1, <1>2, ResultsAreFinal, ValidSubmissions, NetHolds, PTL DEF Spec

(***************************************************************************)
(* A bundle names the application and the environment of its submission,   *)
(* unless the ID was submitted twice or a restart made the store forget    *)
(* the claim, when it names none (evidenceFromClaimedJob and the claimed   *)
(* map of store.go).                                                       *)
(***************************************************************************)
THEOREM EvidenceIsAttributed == Spec => []EvidenceAttributed
<1>1. EvidenceOK => EvidenceAttributed
  BY DEF EvidenceOK, Attributed, EvidenceAttributed
<1> QED
  BY <1>1, EvidenceHolds, PTL

(***************************************************************************)
(* Evidence names its job, or none, as long as all the jobs that were      *)
(* filed have IDs of their own: what finding EvidenceNamesItsJob needs is  *)
(* a shared ID and nothing else, neither restart nor loss nor reordering.  *)
(***************************************************************************)
THEOREM EvidenceNamesUniqueJobs ==
  Spec => []((\A e \in DOMAIN submitted : ~ SharesID(e)) => EvidenceNamesItsJob)
<1>1. EvidenceOK => ((\A e \in DOMAIN submitted : ~ SharesID(e)) => EvidenceNamesItsJob)
  BY DEF EvidenceOK, Attributed, EvidenceNamesItsJob
<1> QED
  BY <1>1, EvidenceHolds, PTL

-----------------------------------------------------------------------------
(* Types. *)

\* The table is keyed by each component's own, non-empty ID.
KeyedByID(table) == \A id \in DOMAIN table : id # "" /\ table[id].id = id

ObserveIn(context, known, component) == S!Observe(known, component)

Upserts == INSTANCE SequenceLemmas WITH op <- ObserveIn

\* Reporting a component, or several, keeps the table keyed by their IDs.
LEMMA ObserveKeyed ==
  ASSUME NEW known, KeyedByID(known), NEW c
  PROVE  KeyedByID(S!Observe(known, c))
<1>1. PICK table : table = S!With(known, c)
  OBVIOUS
<1>2. /\ DOMAIN table = DOMAIN known \cup {c.id}
      /\ \A id \in DOMAIN table : table[id] = IF id = c.id THEN c ELSE known[id]
  BY <1>1 DEF S!With
<1>3. c.id # "" => KeyedByID(table)
  BY <1>2 DEF KeyedByID
<1> QED
  BY <1>1, <1>3 DEF S!Observe

LEMMA UpsertKeyed ==
  ASSUME NEW known, KeyedByID(known), NEW T, NEW reported \in Seq(T)
  PROVE  KeyedByID(S!Upsert(known, reported))
<1>1. S!Upsert(known, reported) = Upserts!Fold(0, known, reported)
  BY DEF S!Upsert, Upserts!Fold, S!FoldLeft, Upserts!FoldLeft, S!MapThenFoldSet,
         Upserts!MapThenFoldSet, S!Max, Upserts!Max, ObserveIn
<1>2. PICK u :
        /\ u[0] = known
        /\ \A i \in 1 .. Len(reported) : u[i] = ObserveIn(0, u[i - 1], reported[i])
        /\ Upserts!Fold(0, known, reported) = u[Len(reported)]
  BY Upserts!FoldLeftIs, SMTT(30)
<1>3. PICK n \in Nat : n = Len(reported)
  OBVIOUS
<1> DEFINE A == {k \in Nat : k <= n => KeyedByID(u[k])}
<1>4. 0 \in A
  BY <1>2
<1>5. ASSUME NEW k \in Nat, k \in A PROVE k + 1 \in A
  <2> SUFFICES ASSUME k + 1 <= n PROVE KeyedByID(u[k + 1])
    OBVIOUS
  <2>1. KeyedByID(u[k])
    BY <1>5
  <2>2. k + 1 \in 1 .. Len(reported) /\ (k + 1) - 1 = k
    BY <1>3
  <2>3. u[k + 1] = S!Observe(u[k], reported[k + 1])
    BY <1>2, <2>2 DEF ObserveIn
  <2> QED
    BY <2>1, <2>3, ObserveKeyed
<1> HIDE DEF A
<1>6. \A k \in Nat : k \in A
  BY <1>4, <1>5, Upserts!InductionInSet
<1> QED
  BY <1>1, <1>2, <1>3, <1>6 DEF A

\* So does one step of a result, whatever job it belongs to.
LEMMA IngestKeyed ==
  ASSUME NEW known, KeyedByID(known), NEW job, NEW step,
         step.outputs \in StepOutputs \cup {NoOutput}
  PROVE  KeyedByID(S!Ingest(job, known, step))
<1>1. CASE step.outputs = NoOutput
  BY <1>1 DEF S!Ingest
<1>2. CASE step.outputs # NoOutput
  <2>1. PICK T : step.outputs \in Seq(T)
    BY <1>2, OutputsAssumption
  <2>2. KeyedByID(S!Upsert(known, step.outputs))
    BY <2>1, UpsertKeyed
  <2>3. ASSUME NEW kept \in SUBSET DOMAIN known
        PROVE  KeyedByID(S!Upsert(S!Restrict(known, kept), step.outputs))
    <3>1. KeyedByID(S!Restrict(known, kept))
      BY DEF KeyedByID, S!Restrict
    <3> QED
      BY <2>1, <3>1, UpsertKeyed
  <2>4. \A env : KeyedByID(S!Replaced(known, env, step.outputs))
    BY <2>3 DEF S!Replaced
  <2> QED
    BY <1>2, <2>2, <2>4 DEF S!Ingest
<1> QED
  BY <1>1, <1>2

\* And so does the whole result.
LEMMA IngestedKeyed ==
  ASSUME NEW known, KeyedByID(known), NEW job, NEW r \in R!WorkerResults
  PROVE  KeyedByID(S!Ingested(known, job, r.steps))
<1>1. r.steps \in Seq(R!StepResults)
  BY DEF R!WorkerResults
<1>2. S!Ingested(known, job, r.steps) = Seqs!Fold(job, known, r.steps)
  BY DEF S!Ingested, Seqs!Fold, S!FoldLeft, Seqs!FoldLeft, S!MapThenFoldSet,
         Seqs!MapThenFoldSet, S!Max, Seqs!Max
<1>3. PICK u :
        /\ u[0] = known
        /\ \A i \in 1 .. Len(r.steps) : u[i] = S!Ingest(job, u[i - 1], r.steps[i])
        /\ Seqs!Fold(job, known, r.steps) = u[Len(r.steps)]
  BY <1>1, Seqs!FoldLeftIs, SMTT(30)
<1>4. PICK n \in Nat : n = Len(r.steps)
  BY <1>1
<1> DEFINE A == {k \in Nat : k <= n => KeyedByID(u[k])}
<1>5. 0 \in A
  BY <1>3
<1>6. ASSUME NEW k \in Nat, k \in A PROVE k + 1 \in A
  <2> SUFFICES ASSUME k + 1 <= n PROVE KeyedByID(u[k + 1])
    OBVIOUS
  <2>1. KeyedByID(u[k])
    BY <1>6
  <2>2. k + 1 \in 1 .. Len(r.steps) /\ (k + 1) - 1 = k
    BY <1>4
  <2>3. u[k + 1] = S!Ingest(job, u[k], r.steps[k + 1])
    BY <1>3, <2>2
  <2>4. r.steps[k + 1] \in R!StepResults
    BY <1>1, <2>2
  <2>5. r.steps[k + 1].outputs \in StepOutputs \cup {NoOutput}
    BY <2>4 DEF R!StepResults
  <2> QED
    BY <2>1, <2>3, <2>5, IngestKeyed
<1> HIDE DEF A
<1>7. \A k \in Nat : k \in A
  BY <1>5, <1>6, Seqs!InductionInSet
<1> QED
  BY <1>2, <1>3, <1>4, <1>7 DEF A

Fits(w) == Len(result[w].steps) <= Len(held[w].job.plan.steps)

\* The rest of the types of the store and of the workers.
TypesOK ==
  /\ Len(completed) = Len(evidence)
  /\ KeyedByID(components)
  /\ metrics \in [Workers -> R!Counts]
  /\ \A w \in Workers : wpc[w] = R!Completing => Fits(w)

LEMMA StepKeepsTable ==
  ASSUME LifeInv, EvidenceOK, TypesOK, [Next]_vars
  PROVE  Len(completed)' = Len(evidence)' /\ KeyedByID(components)'
<1>1. completed \in Seq(R!WorkerResults) /\ posted \subseteq R!WorkerResults
  BY DEF LifeInv, ResultsOK
<1>2. evidence \in Seq(Bundles)
  BY DEF EvidenceOK
<1>3. Len(completed) = Len(evidence) /\ KeyedByID(components)
  BY DEF TypesOK
<1>4. ASSUME NEW r \in posted, HandleComplete(r)
      PROVE  Len(completed') = Len(evidence') /\ KeyedByID(components')
  <2>1. PICK b : b = S!Bundle(S!Context(r), r)
    OBVIOUS
  <2>2. /\ completed' = Append(completed, r) /\ evidence' = Append(evidence, b)
        /\ components' = S!Ingested(components, S!Context(r), r.steps)
    BY <1>4, <2>1 DEF HandleComplete, S!Complete
  <2>3. Len(completed') = Len(completed) + 1
    BY <1>1, <2>2
  <2>4. Len(evidence') = Len(evidence) + 1
    BY <1>2, <2>2
  <2>5. KeyedByID(components')
    BY <1>1, <1>3, <2>2, IngestedKeyed
  <2> QED
    BY <1>3, <2>3, <2>4, <2>5
<1>5. CASE UNCHANGED <<completed, evidence, components>>
  BY <1>3, <1>5
<1>6. CASE ControlPlaneRestart
  BY <1>6 DEF ControlPlaneRestart, KeyedByID
<1> QED
  BY <1>4, <1>5, <1>6
  DEF Next, WorkerStep, ServerStep, Fault, CreateJob, SendClaim, HandleClaim,
      HandleClaimNoJob, HandleAbandonedClaim, ReceiveJob, ReceiveNoJob, BreakClaim,
      ClaimUnanswered, Verify, StartStep, FinishStep, SendResult, ReceiveAck,
      BreakComplete, CompleteUnanswered, WorkerCrash, Tick, vars,
      storeVars, S!Enqueue, S!Claim, S!ClaimNothing, S!storeVars

\* What the collector counts when a job starts, and when it has finished.
LEMMA JobStartedCounts ==
  ASSUME NEW m \in R!Counts
  PROVE  /\ R!JobStarted(m) \in R!Counts
         /\ R!JobStarted(m).succeeded = m.succeeded /\ R!JobStarted(m).failed = m.failed
<1> DEFINE n == [m EXCEPT !.started = m.started + 1]
<1>1. /\ n \in R!Counts /\ n.started = m.started + 1 /\ n.succeeded = m.succeeded
      /\ n.failed = m.failed /\ n.active = m.active
  BY DEF R!Counts
<1>2. R!JobStarted(m) = [n EXCEPT !.active = n.active + 1]
  BY <1>1 DEF R!JobStarted
<1> HIDE DEF n
<1> QED
  BY <1>1, <1>2 DEF R!Counts

LEMMA JobFinishedCounts ==
  ASSUME NEW m \in R!Counts, NEW status
  PROVE  /\ R!JobFinished(m, status) \in R!Counts
         /\ R!JobFinished(m, status).succeeded
              = IF status = Succeeded THEN m.succeeded + 1 ELSE m.succeeded
         /\ R!JobFinished(m, status).failed
              = IF status = Succeeded THEN m.failed ELSE m.failed + 1
<1> DEFINE s == IF status = Succeeded THEN m.succeeded + 1 ELSE m.succeeded
           f == IF status = Succeeded THEN m.failed ELSE m.failed + 1
           a == IF m.active <= 0 THEN m.active ELSE m.active - 1
<1>1. /\ m.succeeded \in Nat /\ m.failed \in Nat /\ m.active \in Nat
      /\ m = [started |-> m.started, succeeded |-> m.succeeded, failed |-> m.failed,
              active |-> m.active]
      /\ m.started \in Nat
  BY DEF R!Counts
<1>2. s \in Nat /\ f \in Nat /\ a \in Nat
  BY <1>1
<1>3. R!JobFinished(m, status) = [m EXCEPT !.succeeded = s, !.failed = f, !.active = a]
  BY DEF R!JobFinished, R!Succeeded, Succeeded
<1> HIDE DEF s, f, a
<1>4. R!JobFinished(m, status) = [started |-> m.started, succeeded |-> s, failed |-> f, active |-> a]
  BY <1>1, <1>3
<1>5. /\ R!JobFinished(m, status) \in R!Counts
      /\ R!JobFinished(m, status).succeeded = s /\ R!JobFinished(m, status).failed = f
  BY <1>1, <1>2, <1>4 DEF R!Counts
<1> QED
  BY <1>5 DEF s, f

LEMMA StepKeepsCounts ==
  ASSUME TypesOK, [Next]_vars
  PROVE  metrics' \in [Workers -> R!Counts]
<1>1. metrics \in [Workers -> R!Counts]
  BY DEF TypesOK
<1>2. ASSUME NEW w \in Workers, NEW c \in R!Counts, metrics' = [metrics EXCEPT ![w] = c]
      PROVE  metrics' \in [Workers -> R!Counts]
  BY <1>1, <1>2
<1>3. \A w \in Workers : R!JobStarted(metrics[w]) \in R!Counts
  BY <1>1, JobStartedCounts
<1>4. \A w \in Workers : \A status : R!JobFinished(metrics[w], status) \in R!Counts
  BY <1>1, JobFinishedCounts
<1>5. R!ZeroMetrics \in R!Counts
  BY DEF R!ZeroMetrics, R!Counts
<1>6. metrics' = metrics \/ \E w \in Workers : \E c \in R!Counts : metrics' = [metrics EXCEPT ![w] = c]
  <2>1. ASSUME NEW w \in Workers, metrics' = [metrics EXCEPT ![w] = R!JobStarted(@)]
        PROVE  \E c \in R!Counts : metrics' = [metrics EXCEPT ![w] = c]
    BY <1>3, <2>1
  <2>2. ASSUME NEW w \in Workers,
               metrics' = [metrics EXCEPT ![w] = R!JobFinished(@, result[w].status)]
        PROVE  \E c \in R!Counts : metrics' = [metrics EXCEPT ![w] = c]
    BY <1>4, <2>2
  <2>3. ASSUME NEW w \in Workers, metrics' = [metrics EXCEPT ![w] = R!ZeroMetrics]
        PROVE  \E c \in R!Counts : metrics' = [metrics EXCEPT ![w] = c]
    BY <1>5, <2>3
  <2> QED
    BY <2>1, <2>2, <2>3, ReportIs, DenyIs, ZenonT(40)
    DEF Next, WorkerStep, ServerStep, Fault, CreateJob, SendClaim, HandleClaim,
      HandleClaimNoJob, HandleAbandonedClaim, ReceiveJob, ReceiveNoJob, BreakClaim,
      ClaimUnanswered, Verify, StartStep, FinishStep, SendResult, HandleComplete, ReceiveAck,
      BreakComplete, CompleteUnanswered, WorkerCrash, ControlPlaneRestart, Tick, vars,
      runnerVars, R!Poll, R!Claimed, R!ClaimFailed, R!Accept, R!StartStep,
      R!Unregistered, R!FinishStep, R!StepEnds, R!CompleteReturns, R!Return,
      R!Crash, R!SetClock, R!localVars
<1> QED
  BY <1>1, <1>2, <1>6

\* A report has no more steps than its plan.
LEMMA StepKeepsFits ==
  ASSUME LifeInv, ReportsOK, TypesOK, [Next]_vars, NEW w \in Workers,
         wpc'[w] = R!Completing
  PROVE  Fits(w)'
<1>1. CASE Stays(w)
  BY <1>1 DEF Stays, TypesOK, Fits
<1>2. CASE SendResult(w)
  <2>1. wpc[w] \in R!Recording /\ held' = held /\ result' = result
    BY <1>2, ReportIs DEF SendResult
  <2>2. Truthful(result[w])
    BY <2>1 DEF ReportsOK
  <2>3. /\ result[w].enq = held[w].enq
        /\ submitted[held[w].enq] = held[w]
    BY <2>1, JobOfWorker
  <2> QED
    BY <2>1, <2>2, <2>3 DEF Truthful, SaysTruly, Fits
<1>3. CASE ReceiveJob(w) \/ Verify(w) \/ StartStep(w) \/ FinishStep(w)
  <2>1. ASSUME NEW x, R!Goto(w, x), x # R!Completing PROVE FALSE
    BY <2>1, Functions DEF R!Goto
  <2>2. \A status : R!AfterStep(w, status).place # R!Completing
    BY DEF R!AfterStep
  <2>3. CASE R!DenyUnverified(w) \/ R!DenyUnmatched(w)
    BY <2>1, <2>3, DenyIs
  <2> QED
    BY <1>3, <2>1, <2>2, <2>3
    DEF ReceiveJob, Verify, StartStep, FinishStep, R!Claimed, R!Accept,
        R!StartStep, R!Unregistered, R!FinishStep, R!StepEnds
<1> QED
  BY <1>1, <1>2, <1>3, WorkerMoves

LEMMA TypesHold == Spec => []TypesOK
<1>1. Init => TypesOK
  BY DEF Init, S!StoreInit, R!RunnerInit, R!ZeroMetrics, R!Counts, TypesOK, KeyedByID
<1>2. LifeInv /\ ReportsOK /\ EvidenceOK /\ TypesOK /\ [Next]_vars => TypesOK'
  <2> SUFFICES ASSUME LifeInv, ReportsOK, EvidenceOK, TypesOK, [Next]_vars PROVE TypesOK'
    OBVIOUS
  <2>1. (\A w \in Workers : wpc[w] = R!Completing => Fits(w))'
    BY StepKeepsFits
  <2> QED
    BY <2>1, StepKeepsTable, StepKeepsCounts DEF TypesOK
<1> QED
  BY <1>1, <1>2, ResultsAreFinal, ReportsHold, EvidenceHolds, PTL DEF Spec

(***************************************************************************)
(* Types of the composition: the store and the workers keep theirs, and    *)
(* what is under way between them fits the place of the worker it is for.  *)
(***************************************************************************)
THEOREM TypesKept == Spec => []TypeOK
<1>1. LifeInv /\ NetOK /\ ReportsOK /\ EvidenceOK /\ TypesOK => TypeOK
  <2> SUFFICES ASSUME LifeInv, NetOK, ReportsOK, EvidenceOK, TypesOK PROVE TypeOK
    OBVIOUS
  <2>1. S!StoreTypeOK
    <3>1. pending \in Seq(S!Envelopes(Jobs, {ServerKey})) /\ submitted \in Seq(S!Envelopes(Jobs, {ServerKey}))
      BY DEF LifeInv, FlowInv, FlowTypeOK, Envelope
    <3>2. claimed \in [S!JobIDs -> Jobs \cup {None}] /\ completed \in Seq(R!WorkerResults)
      BY DEF LifeInv, ResultsOK, EvidenceOK
    <3>3. Len(completed) <= Len(evidence)
      <4>1. Len(completed) = Len(evidence) /\ Len(completed) \in Nat
        BY <3>2 DEF TypesOK
      <4> QED
        BY <4>1
    <3> QED
      BY <3>1, <3>2, <3>3 DEF S!StoreTypeOK, TypesOK, KeyedByID
  <2>2. R!RunnerTypeOK
    <3>1. ASSUME NEW w \in Workers, wpc[w] \in R!Working
          PROVE  /\ held[w].enq \in 1 .. MaxSubmitted
                 /\ result[w] \in R!WorkerResults
                 /\ Fits(w)
      <4>1. /\ held[w].enq \in 1 .. MaxSubmitted /\ result[w] \in R!WorkerResults
            /\ submitted[held[w].enq] = held[w] /\ result[w].enq = held[w].enq
            /\ LogMatches(w)
            /\ Len(result[w].steps) \in Nat /\ Len(held[w].job.plan.steps) \in Nat
        <5>1. wpc[w] \in R!Working
          BY <3>1
        <5>2. /\ held[w].enq \in 1 .. MaxSubmitted /\ result[w] \in R!WorkerResults
              /\ submitted[held[w].enq] = held[w] /\ result[w].enq = held[w].enq
              /\ LogMatches(w)
          BY <5>1, JobOfWorker
        <5>3. Len(result[w].steps) \in Nat
          <6>1. result[w].steps \in Seq(R!StepResults)
            BY <5>1, JobOfWorker
          <6> QED
            BY <6>1
        <5>4. Len(held[w].job.plan.steps) \in Nat
          <6>1. held[w].job.plan.steps
                  \in Seq([id : STRING, executor : STRING, timeout : Int])
            BY <5>1, JobOfWorker
          <6> QED
            BY <6>1, SMTT(30)
        <5> QED
          BY <5>2, <5>3, <5>4
      <4>2. CASE wpc[w] \in {R!Verifying, R!Executing, R!InStep}
        BY <4>1, <4>2, SMTT(30) DEF LogMatches, Fits
      <4>3. CASE wpc[w] \in R!Recording
        BY <4>1, <4>3 DEF ReportsOK, Truthful, SaysTruly, Fits
      <4>4. CASE wpc[w] = R!Completing
        <5>1. \A v \in Workers : wpc[v] = R!Completing => Fits(v)
          BY DEF TypesOK
        <5> QED
          BY <4>1, <4>4, <5>1
      <4> QED
        BY <3>1, <4>1, <4>2, <4>3, <4>4
    <3>2. \A w \in Workers : wpc[w] \notin R!Working => held[w] = None /\ result[w] = None
      BY DEF NetOK
    <3>3. metrics \in [Workers -> R!Counts] /\ now \in [Workers -> 0 .. MaxTime]
      BY DEF TypesOK, NetOK
    <3>4. wpc \in [Workers -> R!Working \cup {R!Idle, R!Claiming}]
      BY Functions
    <3> QED
      BY <3>1, <3>2, <3>3, <3>4 DEF R!RunnerTypeOK, Fits
  <2>3. reply \in [Workers -> S!Envelopes(Jobs, {ServerKey}) \cup {None, NoJob}]
    BY Functions DEF Envelope
  <2>4. /\ request \subseteq {w \in Workers : wpc[w] = R!Claiming}
        /\ \A w \in Workers : reply[w] # None => wpc[w] = R!Claiming /\ w \notin request
    BY Functions DEF Requesting
  <2> QED
    BY <2>1, <2>2, <2>3, <2>4 DEF TypeOK, NetOK, LifeInv, ResultsOK
<1> QED
  BY <1>1, TypesHold, ResultsAreFinal, NetHolds, ReportsHold, EvidenceHolds, PTL

-----------------------------------------------------------------------------
(* The counters agree. *)

\* A status counts as a success (ok) or as a failure.
CountsAs(status, ok) == (status = Succeeded) = ok

\* Jobs that count as ok: in the workers' collectors, with workers that wait for
\* the answer to their report, in reports under way, and in the store.
InCollectors(ok) ==
  Sum([w \in Workers |-> IF ok THEN metrics[w].succeeded ELSE metrics[w].failed])
Unreturned(ok) == {w \in Workers : wpc[w] = R!Completing /\ CountsAs(result[w].status, ok)}
UnderWay(ok) == {r \in posted : CountsAs(r.status, ok)}
Stored(ok) == {n \in DOMAIN completed : CountsAs(completed[n].status, ok)}

Balanced(ok) ==
  /\ InCollectors(ok) \in Nat
  /\ InCollectors(ok) + Cardinality(Unreturned(ok))
       = Cardinality(Stored(ok)) + Cardinality(UnderWay(ok))

CountersOK ==
  /\ IsFiniteSet(posted)
  /\ faults = 0 /\ restarts = 0 => \A ok \in BOOLEAN : Balanced(ok)

LEMMA SumIsSumOf ==
  ASSUME NEW f
  PROVE  Sum(f) = Seqs!SumOf(f)
BY DEF Sum, Seqs!SumOf, FoldFunction, Seqs!FoldFunction, FoldFunctionOnSet,
       Seqs!FoldFunctionOnSet, MapThenFoldSet, Seqs!MapThenFoldSet

LEMMA FiniteWorkers == Seqs!IsFiniteSet(Workers)
BY WorkersAssumption DEF IsFiniteSet, Seqs!IsFiniteSet

LEMMA FiniteCounts ==
  ASSUME LifeInv, CountersOK, NEW ok
  PROVE  /\ IsFiniteSet(Unreturned(ok)) /\ IsFiniteSet(UnderWay(ok)) /\ IsFiniteSet(Stored(ok))
         /\ Cardinality(Unreturned(ok)) \in Nat /\ Cardinality(UnderWay(ok)) \in Nat
         /\ Cardinality(Stored(ok)) \in Nat
<1>1. Unreturned(ok) \in SUBSET Workers /\ UnderWay(ok) \in SUBSET posted
      /\ Stored(ok) \in SUBSET (1 .. Len(completed)) /\ Len(completed) \in Nat
  BY DEF Unreturned, UnderWay, Stored, LifeInv, ResultsOK
<1>2. IsFiniteSet(1 .. Len(completed))
  BY <1>1, FS_Interval
<1>3. IsFiniteSet(Unreturned(ok)) /\ IsFiniteSet(UnderWay(ok)) /\ IsFiniteSet(Stored(ok))
  BY <1>1, <1>2, WorkersAssumption, FS_Subset DEF CountersOK
<1> QED
  BY <1>3, FS_CardinalityType

\* A finite set with one element more, or one less.
LEMMA OneMore ==
  ASSUME NEW A, IsFiniteSet(A), Cardinality(A) \in Nat, NEW x, x \notin A, NEW B, B = A \cup {x}
  PROVE  Cardinality(B) = Cardinality(A) + 1
BY FS_AddElement

LEMMA OneLess ==
  ASSUME NEW A, IsFiniteSet(A), Cardinality(A) \in Nat, NEW x, x \in A, NEW B, B = A \ {x}
  PROVE  Cardinality(B) = Cardinality(A) - 1
BY FS_RemoveElement

\* A worker sends its report: it waits for the answer, and the report is under way.
LEMMA SendResultBalances ==
  ASSUME LifeInv, CountersOK, NEW w \in Workers, SendResult(w), NEW ok \in BOOLEAN, Balanced(ok)
  PROVE  Balanced(ok)'
<1>1. /\ wpc[w] \in R!Recording /\ wpc' = [wpc EXCEPT ![w] = R!Completing]
      /\ posted' = posted \cup {result[w]}
      /\ UNCHANGED <<result, metrics, completed>>
  BY ReportIs DEF SendResult, R!Goto, storeVars
<1>2. result[w] \notin posted
  <2>1. HandedOut(held[w].enq) /\ result[w].enq = held[w].enq /\ held[w].enq \in 1 .. MaxSubmitted
    BY <1>1, AtWork, JobOfWorker
  <2> QED
    BY <2>1 DEF LifeInv, ResultsOK, ResultOut
<1>3. w \notin Unreturned(ok) /\ result[w] \notin UnderWay(ok)
  BY <1>1, <1>2 DEF Unreturned, UnderWay
<1>4. InCollectors(ok)' = InCollectors(ok) /\ Stored(ok)' = Stored(ok)
  BY <1>1 DEF InCollectors, Stored
<1>5. CASE CountsAs(result[w].status, ok)
  <2>1. Unreturned(ok)' = Unreturned(ok) \cup {w}
    BY <1>1, <1>5, Functions DEF Unreturned
  <2>2. UnderWay(ok)' = UnderWay(ok) \cup {result[w]}
    BY <1>1, <1>5 DEF UnderWay
  <2>3. /\ Cardinality(Unreturned(ok)') = Cardinality(Unreturned(ok)) + 1
        /\ Cardinality(UnderWay(ok)') = Cardinality(UnderWay(ok)) + 1
    BY <1>3, <2>1, <2>2, FiniteCounts, OneMore
  <2> QED
    BY <1>4, <2>3, FiniteCounts DEF Balanced
<1>6. CASE ~ CountsAs(result[w].status, ok)
  <2>1. Unreturned(ok)' = Unreturned(ok)
    BY <1>1, <1>6, Functions DEF Unreturned
  <2>2. UnderWay(ok)' = UnderWay(ok)
    BY <1>1, <1>6 DEF UnderWay
  <2> QED
    BY <1>4, <2>1, <2>2 DEF Balanced
<1> QED
  BY <1>5, <1>6

\* The store takes a result: it is no longer under way.
LEMMA CompleteBalances ==
  ASSUME LifeInv, CountersOK, NEW r \in posted, HandleComplete(r), NEW ok \in BOOLEAN, Balanced(ok)
  PROVE  Balanced(ok)'
<1>1. /\ completed' = Append(completed, r) /\ posted' = posted \ {r}
      /\ UNCHANGED <<wpc, result, metrics>>
  BY DEF HandleComplete, S!Complete, runnerVars
<1>2. InCollectors(ok)' = InCollectors(ok) /\ Unreturned(ok)' = Unreturned(ok)
  BY <1>1 DEF InCollectors, Unreturned
<1>3. PICK n \in Nat : n = Len(completed) /\ DOMAIN completed = 1 .. n
  BY DEF LifeInv, ResultsOK
<1>4. /\ DOMAIN completed' = 1 .. n + 1
      /\ \A i \in 1 .. n : completed'[i] = completed[i]
      /\ completed'[n + 1] = r
  <2>1. completed \in Seq(R!WorkerResults) /\ r \in R!WorkerResults
    BY DEF LifeInv, ResultsOK
  <2>2. PICK X : X = R!WorkerResults
    OBVIOUS
  <2> QED
    BY <1>1, <1>3, <2>1, <2>2, AppendedTo
<1>5. n + 1 \notin Stored(ok)
  BY <1>3 DEF Stored
<1>6. CASE CountsAs(r.status, ok)
  <2>1. Stored(ok)' = Stored(ok) \cup {n + 1}
    BY <1>3, <1>4, <1>6 DEF Stored
  <2>2. UnderWay(ok)' = UnderWay(ok) \ {r} /\ r \in UnderWay(ok)
    BY <1>1, <1>6 DEF UnderWay
  <2>3. Cardinality(Stored(ok)') = Cardinality(Stored(ok)) + 1
    BY <1>5, <2>1, FiniteCounts, OneMore
  <2>4. Cardinality(UnderWay(ok)') = Cardinality(UnderWay(ok)) - 1
    BY <2>2, FiniteCounts, OneLess
  <2> QED
    BY <1>2, <2>3, <2>4, FiniteCounts DEF Balanced
<1>7. CASE ~ CountsAs(r.status, ok)
  <2>1. Stored(ok)' = Stored(ok)
    BY <1>3, <1>4, <1>7 DEF Stored
  <2>2. UnderWay(ok)' = UnderWay(ok)
    BY <1>1, <1>7 DEF UnderWay
  <2> QED
    BY <1>2, <2>1, <2>2 DEF Balanced
<1> QED
  BY <1>6, <1>7

\* RunOnce returns: the deferred JobFinished counts what the store was told.
LEMMA ReturnBalances ==
  ASSUME LifeInv, TypesOK, CountersOK, NEW w \in Workers, ReceiveAck(w) \/ CompleteUnanswered(w),
         NEW ok \in BOOLEAN, Balanced(ok)
  PROVE  Balanced(ok)'
<1> DEFINE status == result[w].status
           count(m) == IF ok THEN m.succeeded ELSE m.failed
<1>1. /\ wpc[w] = R!Completing /\ wpc' = [wpc EXCEPT ![w] = R!Idle]
      /\ result' = [result EXCEPT ![w] = None]
      /\ metrics' = [metrics EXCEPT ![w] = R!JobFinished(metrics[w], status)]
      /\ posted' = posted /\ completed' = completed
  BY DEF ReceiveAck, CompleteUnanswered, R!CompleteReturns, R!Return, R!Goto, netVars, storeVars
<1>2. UnderWay(ok)' = UnderWay(ok) /\ Stored(ok)' = Stored(ok)
  BY <1>1 DEF UnderWay, Stored
<1>3. metrics \in [Workers -> R!Counts]
  BY DEF TypesOK
<1>4. /\ \A v \in Workers : count(metrics[v]) \in Nat
      /\ count(R!JobFinished(metrics[w], status)) \in Nat
      /\ count(R!JobFinished(metrics[w], status))
           = IF CountsAs(status, ok) THEN count(metrics[w]) + 1 ELSE count(metrics[w])
  <2>1. \A v \in Workers : metrics[v].succeeded \in Nat /\ metrics[v].failed \in Nat
    BY <1>3 DEF R!Counts
  <2> QED
    BY <1>3, <2>1, JobFinishedCounts DEF CountsAs
<1>5. \A v \in Workers \ {w} : wpc'[v] = wpc[v] /\ result'[v] = result[v] /\ metrics'[v] = metrics[v]
  BY <1>1, <1>3, Functions
<1>6. wpc'[w] = R!Idle /\ metrics'[w] = R!JobFinished(metrics[w], status)
  BY <1>1, <1>3, Functions
<1> DEFINE f == [v \in Workers |-> count(metrics[v])]
           g == [v \in Workers |-> count(metrics'[v])]
<1>7. InCollectors(ok) = Seqs!SumOf(f) /\ InCollectors(ok)' = Seqs!SumOf(g)
  BY SumIsSumOf DEF InCollectors
<1>8. f \in [Workers -> Nat] /\ \A v \in Workers \ {w} : g[v] = f[v]
  BY <1>4, <1>5
<1>9. g[w] = IF CountsAs(status, ok) THEN f[w] + 1 ELSE f[w]
  BY <1>4, <1>6
<1> HIDE DEF f
<1>10. CASE CountsAs(status, ok)
  <2>1. Unreturned(ok)' = Unreturned(ok) \ {w} /\ w \in Unreturned(ok)
    BY <1>1, <1>5, <1>6, <1>10 DEF Unreturned
  <2>2. Cardinality(Unreturned(ok)') = Cardinality(Unreturned(ok)) - 1
    BY <2>1, FiniteCounts, OneLess
  <2>3. g \in [Workers -> Nat]
    BY <1>4, <1>5, <1>6
  <2> HIDE DEF g
  <2>4. g[w] = f[w] + 1
    BY <1>9, <1>10
  <2>5. Seqs!SumOf(g) = Seqs!SumOf(f) + 1
    BY <1>8, <2>3, <2>4, FiniteWorkers, Seqs!SumRaised
  <2> QED
    BY <1>2, <1>7, <2>2, <2>5, FiniteCounts DEF Balanced
<1>11. CASE ~ CountsAs(status, ok)
  <2>1. Unreturned(ok)' = Unreturned(ok)
    BY <1>1, <1>5, <1>6, <1>11 DEF Unreturned
  <2>2. g = f
    BY <1>8, <1>9, <1>11 DEF f
  <2> QED
    BY <1>2, <1>7, <2>1, <2>2 DEF Balanced
<1> QED
  BY <1>10, <1>11

\* Nothing else moves a job that counts.
LEMMA OthersBalance ==
  ASSUME LifeInv, TypesOK, CountersOK, NEW ok \in BOOLEAN, Balanced(ok),
         UNCHANGED <<posted, completed>>,
         metrics' = metrics
           \/ \E w \in Workers : metrics' = [metrics EXCEPT ![w] = R!JobStarted(metrics[w])],
         \A w \in Workers : wpc'[w] = R!Completing <=> wpc[w] = R!Completing,
         \A w \in Workers : wpc[w] = R!Completing => result'[w] = result[w]
  PROVE  Balanced(ok)'
<1>1. /\ UnderWay(ok)' = UnderWay(ok) /\ Stored(ok)' = Stored(ok)
      /\ Unreturned(ok)' = Unreturned(ok)
  <2>1. UnderWay(ok)' = UnderWay(ok) /\ Stored(ok)' = Stored(ok)
    BY DEF UnderWay, Stored
  <2>2. \A w \in Workers : w \in Unreturned(ok)' <=> w \in Unreturned(ok)
    BY DEF Unreturned
  <2>3. Unreturned(ok)' = Unreturned(ok)
    BY <2>2 DEF Unreturned
  <2> QED
    BY <2>1, <2>3
<1>2. metrics \in [Workers -> R!Counts]
  BY DEF TypesOK
<1>3. ASSUME NEW v \in Workers
      PROVE  metrics'[v].succeeded = metrics[v].succeeded /\ metrics'[v].failed = metrics[v].failed
  <2>1. ASSUME NEW w \in Workers, metrics' = [metrics EXCEPT ![w] = R!JobStarted(metrics[w])]
        PROVE  metrics'[v] = metrics[v] \/ metrics'[v] = R!JobStarted(metrics[v])
    BY <1>2, <2>1
  <2> QED
    BY <1>2, <2>1, JobStartedCounts
<1>4. InCollectors(ok)' = InCollectors(ok)
  BY <1>3 DEF InCollectors
<1> QED
  BY <1>1, <1>4 DEF Balanced

LEMMA StepKeepsCounters ==
  ASSUME LifeInv, NetOK, TypesOK, CountersOK, [Next]_vars
  PROVE  CountersOK'
<1>1. IsFiniteSet(posted)'
  <2>1. IsFiniteSet(posted)
    BY DEF CountersOK
  <2>2. posted' \subseteq posted \/ \E w \in Workers : posted' = posted \cup {result[w]}
    BY DEF Next, WorkerStep, ServerStep, Fault, CreateJob, SendClaim, HandleClaim,
      HandleClaimNoJob, HandleAbandonedClaim, ReceiveJob, ReceiveNoJob, BreakClaim,
      ClaimUnanswered, Verify, StartStep, FinishStep, SendResult, HandleComplete, ReceiveAck,
      BreakComplete, CompleteUnanswered, WorkerCrash, ControlPlaneRestart, Tick, vars, netVars
  <2>3. CASE posted' \subseteq posted
    BY <2>1, <2>3, FS_Subset
  <2>4. ASSUME NEW w \in Workers, posted' = posted \cup {result[w]} PROVE IsFiniteSet(posted')
    BY <2>1, <2>4, FS_AddElement
  <2> QED
    BY <2>2, <2>3, <2>4
<1>2. ASSUME NEW ok \in BOOLEAN, Balanced(ok), faults' = 0, restarts' = 0
      PROVE  Balanced(ok)'
  <2>1. CASE \E w \in Workers : SendResult(w)
    BY <1>2, <2>1, SendResultBalances
  <2>2. CASE \E r \in posted : HandleComplete(r)
    BY <1>2, <2>2, CompleteBalances
  <2>3. CASE \E w \in Workers : ReceiveAck(w) \/ CompleteUnanswered(w)
    BY <1>2, <2>3, ReturnBalances
  <2>4. ASSUME NEW v \in Workers,
               \/ SendClaim(v) \/ ReceiveJob(v) \/ ReceiveNoJob(v) \/ ClaimUnanswered(v)
               \/ Verify(v) \/ StartStep(v) \/ FinishStep(v) \/ ServerStep(v)
        PROVE  Balanced(ok)'
    <3>1. UNCHANGED <<posted, completed>>
      BY <2>4
      DEF ServerStep, SendClaim, HandleClaim, HandleClaimNoJob, HandleAbandonedClaim,
          ReceiveJob, ReceiveNoJob, ClaimUnanswered, Verify, StartStep, FinishStep, storeVars,
          netVars, S!Claim, S!ClaimNothing, S!storeVars
    <3>2. \/ metrics' = metrics
          \/ \E w \in Workers : metrics' = [metrics EXCEPT ![w] = R!JobStarted(metrics[w])]
      BY <2>4, DenyIs
      DEF ServerStep, SendClaim, HandleClaim, HandleClaimNoJob, HandleAbandonedClaim,
          ReceiveJob, ReceiveNoJob, ClaimUnanswered, Verify, StartStep, FinishStep, runnerVars,
          R!Poll, R!Claimed, R!ClaimFailed, R!Accept, R!StartStep, R!Unregistered,
          R!FinishStep, R!StepEnds, R!localVars
    <3>3. WorkerStep(v) \/ ServerStep(v)
      BY <2>4 DEF WorkerStep
    <3>4. \/ wpc'[v] # R!Completing /\ wpc[v] # R!Completing
          \/ wpc' = wpc /\ result' = result
      <4>1. CASE ServerStep(v)
        BY <4>1 DEF ServerStep, HandleClaim, HandleClaimNoJob, HandleAbandonedClaim, runnerVars
      <4>2. CASE ~ ServerStep(v)
        <5>1. ASSUME NEW x, R!Goto(v, x), x # R!Completing
              PROVE  wpc'[v] # R!Completing
          BY <5>1, Functions DEF R!Goto
        <5>2. \A status : R!AfterStep(v, status).place # R!Completing
          BY DEF R!AfterStep
        <5>3. wpc[v] # R!Completing
          BY <2>4, <4>2, DenyIs
          DEF SendClaim, ReceiveJob, ReceiveNoJob, ClaimUnanswered, Verify, StartStep,
              FinishStep, R!Poll, R!Claimed, R!ClaimFailed, R!Accept, R!StartStep,
              R!Unregistered, R!FinishStep
        <5>4. wpc'[v] # R!Completing
          <6>1. CASE R!DenyUnverified(v) \/ R!DenyUnmatched(v)
            BY <5>1, <6>1, DenyIs
          <6> QED
            BY <2>4, <4>2, <5>1, <5>2, <6>1
            DEF SendClaim, ReceiveJob, ReceiveNoJob, ClaimUnanswered, Verify, StartStep,
                FinishStep, R!Poll, R!Claimed, R!ClaimFailed, R!Accept, R!StartStep,
                R!Unregistered, R!FinishStep, R!StepEnds
        <5> QED
          BY <5>3, <5>4
      <4> QED
        BY <4>1, <4>2
    <3>5. ASSUME NEW w \in Workers
          PROVE  /\ (wpc'[w] = R!Completing <=> wpc[w] = R!Completing)
                 /\ (wpc[w] = R!Completing => result'[w] = result[w])
      <4>1. CASE w = v
        BY <3>4, <4>1
      <4>2. CASE w # v
        BY <3>3, <4>2, OthersStay DEF Stays
      <4> QED
        BY <4>1, <4>2
    <3> QED
      BY <1>2, <3>1, <3>2, <3>5, OthersBalance
  <2>5. CASE (\E j \in Jobs : CreateJob(j)) \/ (\E w \in Workers : Tick(w)) \/ UNCHANGED vars
    <3>1. UNCHANGED <<posted, completed, metrics, wpc, result>>
      BY <2>5 DEF CreateJob, Tick, vars, S!Enqueue, runnerVars, netVars, storeVars, R!SetClock,
                  R!localVars
    <3> QED
      BY <1>2, <3>1, OthersBalance
  <2>6. CASE ControlPlaneRestart \/ \E w \in Workers : Fault(w)
    <3>1. faults \in Nat /\ restarts \in Nat
      BY DispatchBounds DEF NetOK
    <3> QED
      BY <1>2, <2>6, <3>1
      DEF ControlPlaneRestart, Fault, BreakClaim, BreakComplete, WorkerCrash
  <2> QED
    BY <2>1, <2>2, <2>3, <2>4, <2>5, <2>6 DEF Next, WorkerStep
<1>3. faults' = 0 /\ restarts' = 0 => faults = 0 /\ restarts = 0
  <2>1. faults \in Nat /\ restarts \in Nat
    BY DispatchBounds DEF NetOK
  <2> QED
    BY <2>1
    DEF Next, WorkerStep, ServerStep, Fault, CreateJob, SendClaim, HandleClaim,
      HandleClaimNoJob, HandleAbandonedClaim, ReceiveJob, ReceiveNoJob, BreakClaim,
      ClaimUnanswered, Verify, StartStep, FinishStep, SendResult, HandleComplete, ReceiveAck,
      BreakComplete, CompleteUnanswered, WorkerCrash, ControlPlaneRestart, Tick, vars,
      faultVars
<1> QED
  BY <1>1, <1>2, <1>3 DEF CountersOK

(***************************************************************************)
(* While nothing has failed, the workers' counters and the store's agree,  *)
(* up to the reports under way and those whose answer is: both classify a  *)
(* result by the same rule (metrics.Collector.JobFinished against          *)
(* Store.Metrics), and each is counted once on both sides.                 *)
(***************************************************************************)
THEOREM CountersTellTheSame == Spec => []CountersAgree
<1>1. Init => CountersOK
  <2> SUFFICES ASSUME Init PROVE CountersOK
    OBVIOUS
  <2>1. posted = {} /\ completed = << >>
    BY DEF Init, S!StoreInit
  <2>2. IsFiniteSet(posted)
    BY <2>1, FS_EmptySet
  <2>3. ASSUME NEW ok \in BOOLEAN PROVE Balanced(ok)
    <3>1. Stored(ok) = {} /\ UnderWay(ok) = {}
      BY <2>1 DEF Stored, UnderWay
    <3>2. Unreturned(ok) = {}
      BY DEF Init, R!RunnerInit, Unreturned
    <3> DEFINE f == [w \in Workers |-> IF ok THEN metrics[w].succeeded ELSE metrics[w].failed]
    <3>3. f \in [Workers -> {0}]
      BY DEF Init, R!RunnerInit, R!ZeroMetrics
    <3>4. InCollectors(ok) = Seqs!SumOf(f)
      BY SumIsSumOf DEF InCollectors
    <3> HIDE DEF f
    <3>5. InCollectors(ok) = 0
      BY <3>3, <3>4, FiniteWorkers, Seqs!SumZero
    <3>6. Cardinality({}) = 0
      BY FS_EmptySet
    <3> QED
      BY <3>1, <3>2, <3>5, <3>6 DEF Balanced
  <2> QED
    BY <2>2, <2>3 DEF CountersOK
<1>2. CountersOK => CountersAgree
  <2> SUFFICES ASSUME CountersOK, faults = 0, restarts = 0,
                      Balanced(TRUE), Balanced(FALSE)
               PROVE  CountersAgree
    BY DEF CountersOK, CountersAgree
  <2>1. /\ S!Metrics.succeeded = Cardinality(Stored(TRUE))
        /\ S!Metrics.failed = Cardinality(Stored(FALSE))
    <3>1. S!Metrics =
            [pending |-> Len(pending), succeeded |-> Cardinality(Stored(TRUE)),
             failed |-> Cardinality(Stored(FALSE)), evidence |-> Len(evidence)]
      BY DEF S!Metrics, Stored, CountsAs, S!Succeeded, Succeeded, S!Cardinality, Cardinality, S!IsFiniteSet, IsFiniteSet
    <3> QED
      BY <3>1
  <2>2. /\ InCollectors(TRUE) = Sum([w \in Workers |-> metrics[w].succeeded])
        /\ InCollectors(FALSE) = Sum([w \in Workers |-> metrics[w].failed])
    BY DEF InCollectors
  <2> QED
    BY <2>1, <2>2 DEF CountersAgree, Balanced, Unreturned, UnderWay, CountsAs
<1> QED
  BY <1>1, <1>2, StepKeepsCounters, ResultsAreFinal, NetHolds, TypesHold, PTL DEF Spec

-----------------------------------------------------------------------------
(* The two records agree. *)

\* A bundle with a worker, or in the store, says what this result says.
Says(bundle, r) ==
  bundle.job = r.job /\ bundle.status = r.status /\ bundle.steps = r.steps

\* A worker's bundle: its submission is done with, and nothing else is told of it.
LocalOK(bundle) ==
  /\ bundle.enq \in DOMAIN submitted
  /\ ~ S!IsPending(bundle.enq) /\ ~ HandedOut(bundle.enq)
  /\ bundle.app = Job(bundle.enq).plan.app
  /\ \A r \in Reported : r.enq = bundle.enq => Says(bundle, r)

RecordersOK ==
  /\ \E Locals : recorder \in [Workers -> Seq(Locals)]
  /\ \A w \in Workers : \A i \in DOMAIN recorder[w] : LocalOK(recorder[w][i])
  /\ \A v, w \in Workers : \A i \in DOMAIN recorder[v], k \in DOMAIN recorder[w] :
       recorder[v][i].enq = recorder[w][k].enq => v = w /\ i = k
  /\ faults = 0 =>
       \A r \in Reported : \E w \in Workers : \E i \in DOMAIN recorder[w] :
         recorder[w][i].enq = r.enq

\* The store has one bundle for each result it has taken.
FiledOK ==
  /\ DOMAIN evidence = DOMAIN completed
  /\ \A n \in DOMAIN evidence :
       evidence[n].enq = completed[n].enq /\ Says(evidence[n], completed[n])

\* What is neither in the queue nor handed out never is again.
LEMMA GoneStays ==
  ASSUME LifeInv, [Next]_vars, NEW e \in DOMAIN submitted, ~ S!IsPending(e), ~ HandedOut(e)
  PROVE  ~ S!IsPending(e)' /\ ~ HandedOut(e)'
<1>1. e \in 1 .. MaxSubmitted
  <2>1. submitted \in Seq(Envelope) /\ Len(submitted) <= MaxSubmitted
    BY DEF LifeInv, FlowInv, FlowTypeOK
  <2> QED
    BY <2>1, DispatchBounds
<1>2. Phase(e) \in {"finished", "gone"}
  BY DEF Phase
<1>3. Phase(e)' \in {"finished", "gone"}
  <2>1. ASSUME NEW f \in 1 .. MaxSubmitted, NEW from \in {"absent", "queued", "handed"}, NEW to,
               L!Move(f, from, to)
        PROVE  Phase(e)' = Phase(e)
    BY <1>1, <1>2, <2>1 DEF L!Move
  <2>2. ASSUME NEW es, L!Vanish(es) PROVE Phase(e)' \in {"gone", Phase(e)}
    BY <1>1, <2>2 DEF L!Vanish, L!Gone
  <2>3. ASSUME NEW f \in 1 .. MaxSubmitted, L!Start(f) \/ UNCHANGED L!vars
        PROVE  Phase(e)' = Phase(e)
    BY <1>1, <2>3 DEF L!Start, L!vars
  <2>4. [L!Next]_L!vars
    BY StepImplements DEF AbstractStep
  <2> QED
    BY <1>1, <1>2, <2>1, <2>2, <2>3, <2>4
    DEF L!Next, L!Submit, L!HandOut, L!Finish, L!Absent, L!Queued, L!Handed
<1> QED
  BY <1>3 DEF Phase

\* The recorders change when a worker reports, or when its process dies.
LEMMA RecorderFrom ==
  ASSUME [Next]_vars
  PROVE  \/ recorder' = recorder
         \/ \E w \in Workers : SendResult(w)
         \/ \E w \in Workers : WorkerCrash(w)
<1>1. ASSUME NEW w \in Workers, Verify(w) \/ StartStep(w) \/ FinishStep(w)
      PROVE  recorder' = recorder
  BY <1>1, DenyIs DEF Verify, StartStep, FinishStep, R!Accept, R!StartStep, R!Unregistered,
                      R!FinishStep, R!StepEnds, R!localVars
<1> QED
  BY <1>1
  DEF Next, WorkerStep, ServerStep, Fault, CreateJob, SendClaim, HandleClaim,
      HandleClaimNoJob, HandleAbandonedClaim, ReceiveJob, ReceiveNoJob, BreakClaim,
      ClaimUnanswered, HandleComplete, ReceiveAck, BreakComplete, CompleteUnanswered,
      ControlPlaneRestart, Tick, vars, runnerVars, R!Poll, R!Claimed, R!ClaimFailed,
      R!CompleteReturns, R!SetClock, R!localVars

\* A bundle stays what it is, unless a result of its submission is sent now.
LEMMA LocalStays ==
  ASSUME LifeInv, [Next]_vars, NEW b, LocalOK(b),
         \A w \in Workers : SendResult(w) => result[w].enq # b.enq
  PROVE  LocalOK(b)'
<1>1. PICK e : e = b.enq
  OBVIOUS
<1>2. /\ e \in DOMAIN submitted /\ ~ S!IsPending(e) /\ ~ HandedOut(e)
      /\ b.app = Job(e).plan.app
  BY <1>1 DEF LocalOK
<1>3. ~ S!IsPending(e)' /\ ~ HandedOut(e)'
  BY <1>2, GoneStays
<1>4. e \in DOMAIN submitted' /\ submitted'[e] = submitted[e]
  BY <1>2, SubmittedKept
<1>5. ASSUME NEW r \in Reported', r.enq = e PROVE Says(b, r)
  <2>1. r \in Reported
    BY <1>1, <1>5, ReportedFrom
  <2> QED
    BY <1>1, <1>5, <2>1 DEF LocalOK
<1> QED
  BY <1>1, <1>2, <1>3, <1>4, <1>5 DEF LocalOK, Job, Says

\* A worker reports: its bundle is a new one, and of a submission of its own.
LEMMA SendResultRecords ==
  ASSUME LifeInv, RecordersOK, [Next]_vars, NEW w \in Workers, SendResult(w)
  PROVE  RecordersOK'
<1>1. PICK b, e, k : b = R!Evidence(w) /\ e = held[w].enq /\ k = Len(recorder[w]) + 1
  OBVIOUS
<1>2. /\ wpc[w] \in R!Recording /\ recorder' = [recorder EXCEPT ![w] = Append(recorder[w], b)]
      /\ posted' = posted \cup {result[w]} /\ faults' = faults
  BY <1>1, ReportIs DEF SendResult, faultVars
<1>3. /\ e \in DOMAIN submitted /\ e \in 1 .. MaxSubmitted /\ submitted[e] = held[w]
      /\ result[w].enq = e /\ HandedOut(e)
  BY <1>1, <1>2, AtWork, JobOfWorker
<1>4. b.enq = e /\ b.app = Job(e).plan.app /\ Says(b, result[w])
  BY <1>1, <1>3 DEF R!Evidence, Job, Says
<1>5. PICK Locals : recorder \in [Workers -> Seq(Locals)]
  BY DEF RecordersOK
<1>6. PICK X : X = Locals \cup {b}
  OBVIOUS
<1>7. /\ recorder \in [Workers -> Seq(X)] /\ b \in X
  BY <1>5, <1>6
<1>8. recorder' \in [Workers -> Seq(X)]
  BY <1>2, <1>7
<1>9. /\ DOMAIN recorder[w] = 1 .. Len(recorder[w]) /\ Len(recorder[w]) \in Nat
      /\ DOMAIN recorder'[w] = 1 .. k
      /\ \A i \in 1 .. Len(recorder[w]) : recorder'[w][i] = recorder[w][i]
      /\ recorder'[w][k] = b
  <2>1. recorder[w] \in Seq(X) /\ recorder'[w] = Append(recorder[w], b)
    BY <1>2, <1>7
  <2> QED
    BY <1>1, <1>7, <2>1, AppendedTo
<1>10. \A v \in Workers \ {w} : recorder'[v] = recorder[v]
  BY <1>2, <1>7
\* What is in the recorders is what was, and one bundle more.
<1>11. /\ \A v \in Workers : \A i \in DOMAIN recorder'[v] :
            \/ i \in DOMAIN recorder[v] /\ recorder'[v][i] = recorder[v][i]
            \/ v = w /\ i = k /\ recorder'[v][i] = b
       /\ \A v \in Workers : \A i \in DOMAIN recorder[v] :
            i \in DOMAIN recorder'[v] /\ recorder'[v][i] = recorder[v][i]
       /\ k \in DOMAIN recorder'[w] /\ recorder'[w][k] = b
  <2>1. \A i \in 1 .. k : i \in 1 .. Len(recorder[w]) \/ i = k
    BY <1>1, <1>9
  <2>2. k \in 1 .. k /\ 1 .. Len(recorder[w]) \subseteq 1 .. k
    BY <1>1, <1>9
  <2> QED
    BY <1>9, <1>10, <2>1, <2>2
<1>12. \A v \in Workers : \A i \in DOMAIN recorder[v] :
         LocalOK(recorder[v][i]) /\ recorder[v][i].enq # e
  BY <1>3 DEF RecordersOK, LocalOK
<1>13. \A r \in Reported : r.enq # e
  BY <1>3 DEF LifeInv, ResultsOK, ResultOut, Reported
<1>14. \A r \in Reported' : r \in Reported \/ r = result[w]
  <2>1. completed' = completed
    BY DEF SendResult, storeVars
  <2> QED
    BY <1>2, <2>1 DEF Reported
<1>15. LocalOK(b)'
  <2>1. e \in DOMAIN submitted' /\ submitted'[e] = submitted[e]
    BY <1>3, SubmittedKept
  <2>2. ResultOut(e)'
    BY <1>2, <1>3 DEF ResultOut, SendResult
  <2>3. ~ S!IsPending(e)' /\ ~ HandedOut(e)'
    BY <1>3, <2>2, StepImplements DEF ResultsOK
  <2>4. \A r \in Reported' : r.enq = e => Says(b, r)
    BY <1>4, <1>13, <1>14
  <2> QED
    BY <1>4, <2>1, <2>3, <2>4 DEF LocalOK, Job, Says
<1>16. ASSUME NEW v \in Workers, NEW i \in DOMAIN recorder'[v] PROVE LocalOK(recorder[v][i])'
  <2>1. CASE i \in DOMAIN recorder[v] /\ recorder'[v][i] = recorder[v][i]
    <3>1. PICK c : c = recorder[v][i]
      OBVIOUS
    <3>2. LocalOK(c) /\ c.enq # e
      BY <1>12, <2>1, <3>1
    <3>3. ASSUME NEW u \in Workers, SendResult(u) PROVE result[u].enq # c.enq
      <4>1. HandedOut(held[u].enq) /\ result[u].enq = held[u].enq
        BY <3>3, ReportIs, AtWork, JobOfWorker DEF SendResult
      <4> QED
        BY <3>2, <4>1 DEF LocalOK
    <3>4. LocalOK(c)'
      BY <3>2, <3>3, LocalStays
    <3> QED
      BY <2>1, <3>1, <3>4 DEF LocalOK, Says
  <2>2. CASE recorder'[v][i] = b
    BY <1>15, <2>2 DEF LocalOK, Says
  <2> QED
    BY <1>11, <2>1, <2>2
<1>17. ASSUME NEW u \in Workers, NEW v \in Workers, NEW i \in DOMAIN recorder'[u],
              NEW n \in DOMAIN recorder'[v], recorder'[u][i].enq = recorder'[v][n].enq
       PROVE  u = v /\ i = n
  <2>1. CASE /\ i \in DOMAIN recorder[u] /\ recorder'[u][i] = recorder[u][i]
             /\ n \in DOMAIN recorder[v] /\ recorder'[v][n] = recorder[v][n]
    <3>1. recorder[u][i].enq = recorder[v][n].enq
      BY <1>17, <2>1
    <3> QED
      BY <2>1, <3>1 DEF RecordersOK
  <2>2. CASE i \in DOMAIN recorder[u] /\ recorder'[u][i] = recorder[u][i] /\ recorder'[v][n] = b
    <3>1. recorder[u][i].enq = e
      BY <1>4, <1>17, <2>2
    <3> QED
      BY <1>12, <2>2, <3>1
  <2>3. CASE n \in DOMAIN recorder[v] /\ recorder'[v][n] = recorder[v][n] /\ recorder'[u][i] = b
    <3>1. recorder[v][n].enq = e
      BY <1>4, <1>17, <2>3
    <3> QED
      BY <1>12, <2>3, <3>1
  <2>4. CASE u = w /\ i = k /\ v = w /\ n = k
    BY <2>4
  <2>5. /\ \/ i \in DOMAIN recorder[u] /\ recorder'[u][i] = recorder[u][i]
           \/ u = w /\ i = k /\ recorder'[u][i] = b
        /\ \/ n \in DOMAIN recorder[v] /\ recorder'[v][n] = recorder[v][n]
           \/ v = w /\ n = k /\ recorder'[v][n] = b
    BY <1>11
  <2> QED
    BY <2>1, <2>2, <2>3, <2>4, <2>5
<1>18. ASSUME faults' = 0, NEW r \in Reported'
       PROVE  \E v \in Workers : \E i \in DOMAIN recorder'[v] : recorder'[v][i].enq = r.enq
  <2>1. CASE r \in Reported
    <3>1. PICK v \in Workers : \E i \in DOMAIN recorder[v] : recorder[v][i].enq = r.enq
      BY <1>2, <1>18, <2>1 DEF RecordersOK
    <3>2. PICK i \in DOMAIN recorder[v] : recorder[v][i].enq = r.enq
      BY <3>1
    <3> QED
      BY <1>11, <3>1, <3>2
  <2>2. CASE r = result[w]
    BY <1>3, <1>4, <1>11, <2>2
  <2> QED
    BY <1>14, <2>1, <2>2
<1> QED
  BY <1>8, <1>16, <1>17, <1>18 DEF RecordersOK

\* Anything else adds nothing; a crash takes away one worker's bundles.
LEMMA StepKeepsRecorders ==
  ASSUME LifeInv, NetOK, RecordersOK, [Next]_vars
  PROVE  RecordersOK'
<1>1. CASE \E w \in Workers : SendResult(w)
  BY <1>1, SendResultRecords
<1>2. CASE ~ \E w \in Workers : SendResult(w)
  <2>1. PICK Locals : recorder \in [Workers -> Seq(Locals)]
    BY DEF RecordersOK
  <2>2. Reported' \subseteq Reported
    BY <1>2, ReportedFrom
  <2>3. \A b : LocalOK(b) => LocalOK(b)'
    BY <1>2, LocalStays
  <2>4. faults \in Nat /\ (faults' = 0 => faults = 0)
    <3>1. faults \in Nat
      BY DispatchBounds DEF NetOK
    <3> QED
      BY <3>1
      DEF Next, WorkerStep, ServerStep, Fault, CreateJob, SendClaim, HandleClaim,
          HandleClaimNoJob, HandleAbandonedClaim, ReceiveJob, ReceiveNoJob, BreakClaim,
          ClaimUnanswered, Verify, StartStep, FinishStep, SendResult, HandleComplete,
          ReceiveAck, BreakComplete, CompleteUnanswered, WorkerCrash, ControlPlaneRestart,
          Tick, vars, faultVars
  <2>5. CASE recorder' = recorder
    <3>1. ASSUME NEW w \in Workers, NEW i \in DOMAIN recorder'[w] PROVE LocalOK(recorder[w][i])'
      <4>1. PICK b : b = recorder[w][i]
        OBVIOUS
      <4>2. LocalOK(b) /\ recorder'[w][i] = b
        BY <2>5, <3>1, <4>1 DEF RecordersOK
      <4> QED
        BY <2>3, <4>2 DEF LocalOK, Says
    <3>2. faults' = 0 => \A r \in Reported' : \E w \in Workers : \E i \in DOMAIN recorder'[w] :
                           recorder'[w][i].enq = r.enq
      BY <2>2, <2>4, <2>5 DEF RecordersOK
    <3> QED
      BY <2>1, <2>5, <3>1, <3>2 DEF RecordersOK
  <2>6. ASSUME NEW w \in Workers, WorkerCrash(w) PROVE RecordersOK'
    <3>1. recorder' = [recorder EXCEPT ![w] = << >>] /\ faults' = faults + 1
      BY <2>6 DEF WorkerCrash, R!Crash
    <3>2. /\ recorder' \in [Workers -> Seq(Locals)] /\ DOMAIN recorder'[w] = {}
          /\ \A v \in Workers \ {w} : recorder'[v] = recorder[v]
      BY <2>1, <3>1
    <3>3. ASSUME NEW v \in Workers, NEW i \in DOMAIN recorder'[v] PROVE LocalOK(recorder[v][i])'
      <4>1. PICK b : b = recorder[v][i]
        OBVIOUS
      <4>2. LocalOK(b) /\ recorder'[v][i] = b
        BY <3>2, <3>3, <4>1 DEF RecordersOK
      <4> QED
        BY <2>3, <4>2 DEF LocalOK, Says
    <3>4. \A u, v \in Workers : \A i \in DOMAIN recorder'[u], k \in DOMAIN recorder'[v] :
            recorder'[u][i].enq = recorder'[v][k].enq => u = v /\ i = k
      <4>1. \A v \in Workers : \A i \in DOMAIN recorder'[v] :
              i \in DOMAIN recorder[v] /\ recorder'[v][i] = recorder[v][i]
        BY <3>2
      <4>2. ASSUME NEW u \in Workers, NEW v \in Workers, NEW i \in DOMAIN recorder'[u],
                   NEW k \in DOMAIN recorder'[v], recorder'[u][i].enq = recorder'[v][k].enq
            PROVE  u = v /\ i = k
        <5>1. /\ i \in DOMAIN recorder[u] /\ k \in DOMAIN recorder[v]
              /\ recorder[u][i].enq = recorder[v][k].enq
          BY <4>1, <4>2
        <5> QED
          BY <5>1 DEF RecordersOK
      <4> QED
        BY <4>2
    <3>5. faults' # 0
      BY <2>4, <3>1
    <3> QED
      BY <3>2, <3>3, <3>4, <3>5 DEF RecordersOK
  <2> QED
    BY <1>2, <2>5, <2>6, RecorderFrom
<1> QED
  BY <1>1, <1>2

LEMMA StepKeepsFiled ==
  ASSUME LifeInv, EvidenceOK, FiledOK, [Next]_vars
  PROVE  FiledOK'
<1>1. completed \in Seq(R!WorkerResults) /\ posted \subseteq R!WorkerResults /\ evidence \in Seq(Bundles)
  BY DEF LifeInv, ResultsOK, EvidenceOK
<1>2. ASSUME NEW r \in posted, HandleComplete(r) PROVE FiledOK'
  <2>1. PICK b : b = S!Bundle(S!Context(r), r)
    OBVIOUS
  <2>2. completed' = Append(completed, r) /\ evidence' = Append(evidence, b)
    BY <1>2, <2>1 DEF HandleComplete, S!Complete
  <2>3. b.enq = r.enq /\ Says(b, r)
    BY <2>1 DEF S!Bundle, Says
  <2>4. PICK X, Y : X = R!WorkerResults /\ Y = Bundles \cup {b}
    OBVIOUS
  <2>5. completed \in Seq(X) /\ r \in X /\ evidence \in Seq(Y) /\ b \in Y
    BY <1>1, <2>4
  <2>6. PICK m \in Nat : /\ m = Len(completed) /\ m = Len(evidence)
                         /\ DOMAIN completed = 1 .. m /\ DOMAIN evidence = 1 .. m
    BY <2>5 DEF FiledOK
  <2>7. /\ DOMAIN completed' = 1 .. m + 1 /\ completed'[m + 1] = r
        /\ \A n \in 1 .. m : completed'[n] = completed[n]
    BY <2>2, <2>5, <2>6, AppendedTo
  <2>8. /\ DOMAIN evidence' = 1 .. m + 1 /\ evidence'[m + 1] = b
        /\ \A n \in 1 .. m : evidence'[n] = evidence[n]
    BY <2>2, <2>5, <2>6, AppendedTo
  <2>9. \A n \in 1 .. m + 1 : n \in 1 .. m \/ n = m + 1
    BY <2>6
  <2> QED
    BY <2>3, <2>6, <2>7, <2>8, <2>9 DEF FiledOK, Says
<1>3. CASE UNCHANGED <<completed, evidence>>
  BY <1>3 DEF FiledOK, Says
<1>4. CASE ControlPlaneRestart
  BY <1>4 DEF ControlPlaneRestart, FiledOK
<1> QED
  BY <1>2, <1>3, <1>4
  DEF Next, WorkerStep, ServerStep, Fault, CreateJob, SendClaim, HandleClaim,
      HandleClaimNoJob, HandleAbandonedClaim, ReceiveJob, ReceiveNoJob, BreakClaim,
      ClaimUnanswered, Verify, StartStep, FinishStep, SendResult, ReceiveAck,
      BreakComplete, CompleteUnanswered, WorkerCrash, Tick, vars,
      storeVars, S!Enqueue, S!Claim, S!ClaimNothing, S!storeVars

(***************************************************************************)
(* The worker's recorder and the control plane's evidence agree: at most   *)
(* one bundle with any worker for a submission; the same status and steps  *)
(* on both sides; and, without faults, nothing in the store that the       *)
(* worker has not recorded (RunOnce records at three places before it      *)
(* completes, and Store.Complete files what it is told).                   *)
(***************************************************************************)
THEOREM RecordsTellTheSame == Spec => []RecordsAgree
<1>1. Init => RecordersOK /\ FiledOK
  <2> SUFFICES ASSUME Init PROVE RecordersOK /\ FiledOK
    OBVIOUS
  <2>1. /\ recorder = [w \in Workers |-> << >>] /\ posted = {}
        /\ completed = << >> /\ evidence = << >>
    BY DEF Init, S!StoreInit, R!RunnerInit
  <2>2. recorder \in [Workers -> Seq({})]
    BY <2>1
  <2>3. Reported = {} /\ \A w \in Workers : DOMAIN recorder[w] = {}
    BY <2>1 DEF Reported
  <2>4. FiledOK
    BY <2>1 DEF FiledOK
  <2> QED
    BY <2>2, <2>3, <2>4 DEF RecordersOK
<1>2. LifeInv /\ NetOK /\ EvidenceOK /\ RecordersOK /\ FiledOK /\ [Next]_vars
        => RecordersOK' /\ FiledOK'
  BY StepKeepsRecorders, StepKeepsFiled
<1>3. ASSUME RecordersOK, FiledOK, EvidenceOK PROVE RecordsAgree
  <2>1. ASSUME NEW n \in DOMAIN evidence
        PROVE  completed[n] \in Reported /\ evidence[n].enq = completed[n].enq
               /\ Says(evidence[n], completed[n])
    BY <1>3, <2>1 DEF FiledOK, Reported
  <2>2. ASSUME NEW n \in DOMAIN evidence, NEW w \in Workers, NEW i \in DOMAIN recorder[w],
               evidence[n].enq = recorder[w][i].enq
        PROVE  /\ evidence[n].job = recorder[w][i].job
               /\ evidence[n].status = recorder[w][i].status
               /\ evidence[n].steps = recorder[w][i].steps
               /\ evidence[n].app \in {"", recorder[w][i].app} \/ SharesID(recorder[w][i].enq)
    <3>1. PICK b, f, r : b = recorder[w][i] /\ f = evidence[n] /\ r = completed[n]
      OBVIOUS
    <3>2. LocalOK(b) /\ r \in Reported /\ r.enq = b.enq /\ Says(f, r)
      BY <1>3, <2>1, <2>2, <3>1 DEF RecordersOK
    <3>3. Says(b, r) /\ b.app = Job(b.enq).plan.app
      BY <3>2 DEF LocalOK
    <3>4. Attributed(f) /\ f.enq = b.enq
      BY <1>3, <2>2, <3>1 DEF EvidenceOK
    <3>5. f.app \in {"", b.app} \/ SharesID(b.enq)
      BY <3>3, <3>4 DEF Attributed
    <3> QED
      BY <3>1, <3>2, <3>3, <3>5 DEF Says
  <2>3. ASSUME faults = 0, NEW n \in DOMAIN evidence
        PROVE  \E w \in Workers : \E i \in DOMAIN recorder[w] : recorder[w][i].enq = evidence[n].enq
    BY <1>3, <2>1, <2>3 DEF RecordersOK
  <2>4. \A v, w \in Workers : \A i \in DOMAIN recorder[v], k \in DOMAIN recorder[w] :
          recorder[v][i].enq = recorder[w][k].enq => v = w /\ i = k
    BY <1>3 DEF RecordersOK
  <2>5. \A n \in DOMAIN evidence, w \in Workers : \A i \in DOMAIN recorder[w] :
          LET filed == evidence[n]
              local == recorder[w][i] IN
          filed.enq = local.enq =>
            /\ filed.job = local.job
            /\ filed.status = local.status /\ filed.steps = local.steps
            /\ filed.app \in {"", local.app} \/ SharesID(local.enq)
    BY <2>2
  <2>6. faults = 0 => \A n \in DOMAIN evidence :
                        \E w \in Workers : \E i \in DOMAIN recorder[w] :
                          recorder[w][i].enq = evidence[n].enq
    BY <2>3
  <2> QED
    BY <2>4, <2>5, <2>6, ZenonT(40) DEF RecordsAgree
<1> QED
  BY <1>1, <1>2, <1>3, ResultsAreFinal, NetHolds, EvidenceHolds, PTL DEF Spec
=============================================================================
