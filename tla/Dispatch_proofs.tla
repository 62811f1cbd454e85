---------------------------- MODULE Dispatch_proofs ----------------------------
(***************************************************************************)
(* Proofs about the composed system, for every set of jobs and workers and *)
(* any number of faults and restarts.  FlowInv (in Dispatch) is inductive. *)
(* Most actions only let go of a job or move on with it: QuietStep covers  *)
(* them.  The four others create a submission, hand one out, take it over  *)
(* from an answer, or start one of its steps.  Then the refinement of      *)
(* JobLifecycle, and what the control plane is told.                       *)
(***************************************************************************)
EXTENDS Dispatch, FiniteSetTheorems, TLAPS

\* What is known of the store's queue and of its loops.
Seqs == INSTANCE SequenceLemmas WITH op <- S!Ingest

USE DEF R!Idle, R!Claiming, R!Verifying, R!Executing, R!InStep, R!Unverified,
        R!Unmatched, R!Executed, R!Recording, R!Completing, R!Working

\* RunOnce records and reports at three places; this is what they do.
LEMMA ReportIs ==
  ASSUME NEW w, R!Report(w)
  PROVE  /\ wpc[w] \in R!Recording /\ R!Goto(w, R!Completing)
         /\ recorder' = [recorder EXCEPT ![w] = Append(recorder[w], R!Evidence(w))]
         /\ UNCHANGED <<held, result, metrics, now, ran>>
BY DEF R!Report, R!ReportUnverified, R!ReportUnmatched, R!ReportExecuted,
       R!RecordAndComplete, R!Recorded

\* It denies at two.
LEMMA DenyIs ==
  ASSUME NEW w, R!DenyUnverified(w) \/ R!DenyUnmatched(w)
  PROVE  /\ wpc[w] = R!Verifying /\ ~ R!Accepts(w)
         /\ \E place \in R!Recording : R!Goto(w, place)
         /\ result' = [result EXCEPT ![w].status = R!Denied]
         /\ UNCHANGED <<held, recorder, metrics, now, ran>>
BY DEF R!DenyUnverified, R!DenyUnmatched, R!DenyAt, R!Accepts

LEMMA InitFlowInv == Init => FlowInv
<1> SUFFICES ASSUME Init PROVE FlowInv
  OBVIOUS
<1> USE DEF Init, S!StoreInit, R!RunnerInit
<1>1. FlowTypeOK
  BY DispatchBounds DEF FlowTypeOK
<1>2. QueueOK /\ Exclusive
  BY DEF QueueOK, Exclusive, Carries, Answered, S!IsPending
<1>3. /\ \A w \in Workers : WorkerOK(w)
      /\ Requesting /\ NothingRanBefore /\ ExecutedOnce
  BY DEF WorkerOK, Answered, Requesting, NothingRanBefore, ExecutedOnce
<1> QED
  BY <1>1, <1>2, <1>3 DEF FlowInv

-----------------------------------------------------------------------------
\* A step that starts nothing and gives no worker a job it did not have keeps
\* the invariant, if the job's log still fits the place of its worker.
LEMMA QuietStep ==
  ASSUME FlowInv, FlowTypeOK', QueueOK', Requesting',
         submitted' = submitted, ran' = ran,
         \A e \in 1 .. MaxSubmitted : S!IsPending(e)' => S!IsPending(e),
         \A w \in Workers :
           Answered(w)' => reply'[w] = reply[w] /\ wpc'[w] = wpc[w],
         \A w \in Workers :
           wpc'[w] \in R!Working =>
             /\ wpc[w] \in R!Working /\ held'[w] = held[w]
             /\ result'[w] \in R!WorkerResults /\ LogMatches(w)'
  PROVE  FlowInv'
<1>1. \A w \in Workers, e \in 1 .. MaxSubmitted : Carries(w, e)' => Carries(w, e)
  BY DEF Carries, Answered
<1>2. Exclusive'
  BY <1>1 DEF FlowInv, Exclusive
<1>3. ASSUME NEW w \in Workers PROVE WorkerOK(w)'
  <2>1. Answered(w)' => /\ wpc'[w] = R!Claiming
                        /\ Genuine(reply[w])' /\ ran'[reply'[w].enq] = << >>
    BY DEF FlowInv, WorkerOK, Answered, Genuine
  <2>2. wpc'[w] \in R!Working => held'[w] \in Envelope /\ Genuine(held[w])'
    BY DEF FlowInv, WorkerOK, Genuine
  <2> QED
    BY <2>1, <2>2 DEF WorkerOK, Genuine
<1>4. NothingRanBefore'
  BY DEF FlowInv, NothingRanBefore
<1>5. ExecutedOnce'
  BY DEF FlowInv, ExecutedOnce, Job
<1> QED
  BY <1>2, <1>3, <1>4, <1>5 DEF FlowInv

\* Taking the i-th job out of the queue leaves the others in it, and no second
\* copy of the one taken.
LEMMA ClaimTakesOut ==
  ASSUME FlowInv, ran' = ran, NEW info, NEW i \in DOMAIN pending, S!Claim(info, i)
  PROVE  /\ pending' \in Seq(Envelope) /\ QueueOK'
         /\ submitted' = submitted
         /\ pending[i] \in Envelope
         /\ \A e : S!IsPending(e)' => S!IsPending(e)
         /\ \A e : e = pending[i].enq => ~ S!IsPending(e)'
<1> DEFINE from(j) == IF j < i THEN j ELSE j + 1
<1>1. /\ pending' = Seqs!RemoveAt(pending, i) /\ submitted' = submitted
      /\ pending \in Seq(Envelope) /\ i \in 1 .. Len(pending)
      /\ DOMAIN pending = 1 .. Len(pending) /\ Len(pending) \in Nat
  <2>1. pending \in Seq(Envelope)
    BY DEF FlowInv, FlowTypeOK
  <2>2. pending' = Seqs!RemoveAt(pending, i) /\ submitted' = submitted
    BY DEF S!Claim, S!RemoveAt, Seqs!RemoveAt
  <2>3. /\ i \in 1 .. Len(pending) /\ DOMAIN pending = 1 .. Len(pending)
        /\ Len(pending) \in Nat
    BY <2>1, SMTT(30)
  <2> QED
    BY <2>1, <2>2, <2>3
<1>2. /\ pending' \in Seq(Envelope)
      /\ Len(pending') = Len(pending) - 1
      /\ \A j \in 1 .. Len(pending) - 1 :
           pending'[j] = IF j < i THEN pending[j] ELSE pending[j + 1]
  BY <1>1, Seqs!RemoveAtIs
<1>3. DOMAIN pending' = 1 .. Len(pending) - 1
  BY <1>2
<1>4. /\ \A j \in DOMAIN pending' :
           from(j) \in DOMAIN pending /\ from(j) # i /\ pending'[j] = pending[from(j)]
      /\ \A j, k \in DOMAIN pending' : from(j) = from(k) => j = k
  BY <1>1, <1>2, <1>3
<1> HIDE DEF from
<1>5. QueueOK'
  <2>1. \A j \in DOMAIN pending :
          Genuine(pending[j]) /\ ran[pending[j].enq] = << >>
    BY DEF FlowInv, QueueOK
  <2>2. ASSUME NEW j \in DOMAIN pending'
        PROVE  Genuine(pending[j])' /\ ran'[pending'[j].enq] = << >>
    BY <1>1, <1>4, <2>1 DEF Genuine
  <2>3. ASSUME NEW j \in DOMAIN pending', NEW k \in DOMAIN pending',
               pending'[j].enq = pending'[k].enq
        PROVE  j = k
    BY <1>4, <2>3 DEF FlowInv, QueueOK
  <2> QED
    BY <2>2, <2>3 DEF QueueOK
<1>6. \A e : S!IsPending(e)' => S!IsPending(e)
  BY <1>4 DEF S!IsPending
<1>7. \A e : e = pending[i].enq => ~ S!IsPending(e)'
  BY <1>4 DEF S!IsPending, FlowInv, QueueOK
<1> QED
  BY <1>1, <1>2, <1>5, <1>6, <1>7

\* And it takes out only that one.
LEMMA ClaimLeaves ==
  ASSUME FlowInv, NEW info, NEW i \in DOMAIN pending, S!Claim(info, i)
  PROVE  \A e : S!IsPending(e) => e = pending[i].enq \/ S!IsPending(e)'
<1>0. pending \in Seq(Envelope)
  BY DEF FlowInv, FlowTypeOK
<1>1. pending' = Seqs!RemoveAt(pending, i) /\ pending \in Seq(Envelope)
  BY <1>0 DEF S!Claim, S!RemoveAt, Seqs!RemoveAt
<1>2. /\ i \in 1 .. Len(pending) /\ Len(pending) \in Nat
      /\ DOMAIN pending = 1 .. Len(pending)
  BY <1>1, SMTT(30)
<1>3. /\ pending' \in Seq(Envelope) /\ Len(pending') = Len(pending) - 1
      /\ \A j \in 1 .. Len(pending) - 1 :
           pending'[j] = IF j < i THEN pending[j] ELSE pending[j + 1]
  BY <1>1, <1>2, Seqs!RemoveAtIs
<1>4. DOMAIN pending' = 1 .. Len(pending) - 1
  BY <1>3
<1>5. ASSUME NEW j \in DOMAIN pending, j # i
      PROVE  \E k \in DOMAIN pending' : pending'[k] = pending[j]
  <2>1. CASE j < i
    BY <1>2, <1>3, <1>4, <2>1
  <2>2. CASE j > i
    <3>1. j - 1 \in DOMAIN pending' /\ ~ (j - 1 < i) /\ j - 1 + 1 = j
      BY <1>2, <1>4, <2>2
    <3> QED
      BY <1>3, <1>4, <3>1
  <2> QED
    BY <1>2, <1>5, <2>1, <2>2
<1> QED
  BY <1>5 DEF S!IsPending

-----------------------------------------------------------------------------
\* Operators: a new submission is queued; no worker has it and nothing of it ran.
LEMMA CreateJobKeepsFlowInv ==
  ASSUME FlowInv, NEW job \in Jobs, CreateJob(job)
  PROVE  FlowInv'
<1> DEFINE n == Len(submitted) + 1
           signed == [job |-> job, key |-> ServerKey, enq |-> n]
<1>0. /\ pending \in Seq(Envelope) /\ submitted \in Seq(Envelope)
      /\ Len(submitted) \in Nat /\ DOMAIN submitted = 1 .. Len(submitted)
      /\ Len(pending) \in Nat /\ DOMAIN pending = 1 .. Len(pending)
  BY DEF FlowInv, FlowTypeOK
<1>1. /\ pending' = Append(pending, signed) /\ submitted' = Append(submitted, signed)
      /\ Len(submitted) < MaxSubmitted
      /\ UNCHANGED <<runnerVars, netVars>>
  BY DEF CreateJob, S!Enqueue
<1>2. signed \in Envelope /\ signed.enq = n
  BY <1>0 DEF Envelope, S!Envelopes
<1> HIDE DEF signed
<1>3. /\ pending' \in Seq(Envelope) /\ submitted' \in Seq(Envelope)
      /\ DOMAIN pending' = 1 .. Len(pending) + 1
      /\ DOMAIN submitted' = 1 .. n /\ Len(submitted') = n
      /\ \A i \in DOMAIN pending : pending'[i] = pending[i]
      /\ pending'[Len(pending) + 1] = signed
      /\ \A e \in DOMAIN submitted : submitted'[e] = submitted[e]
      /\ submitted'[n] = signed
  BY <1>0, <1>1, <1>2
<1>4. /\ n \in 1 .. MaxSubmitted /\ n \notin DOMAIN submitted /\ n \in Nat
      /\ DOMAIN submitted \subseteq 1 .. MaxSubmitted
      /\ DOMAIN submitted' = DOMAIN submitted \cup {n}
  BY <1>0, <1>1, <1>3, DispatchBounds
<1>5. UNCHANGED <<wpc, held, result, now, ran, reply>>
  BY <1>1 DEF runnerVars, netVars
<1>6. ran[n] = << >>
  BY <1>4 DEF FlowInv, NothingRanBefore
<1> HIDE DEF n
<1>7. FlowTypeOK'
  <2>1. Len(submitted') <= MaxSubmitted
    BY <1>3, <1>4
  <2> QED
    BY <1>3, <1>5, <2>1 DEF FlowInv, FlowTypeOK
<1>8. \A i \in DOMAIN pending : pending[i].enq \in DOMAIN submitted
  BY DEF FlowInv, QueueOK, Genuine
<1>9. QueueOK'
  <2>1. ASSUME NEW i \in DOMAIN pending'
        PROVE  Genuine(pending[i])' /\ ran'[pending'[i].enq] = << >>
    <3>1. CASE i \in DOMAIN pending
      <4>1. Genuine(pending[i]) /\ ran[pending[i].enq] = << >>
        BY <3>1 DEF FlowInv, QueueOK
      <4>2. pending'[i] = pending[i] /\ ran' = ran
        BY <1>3, <1>5, <3>1
      <4> QED
        BY <1>3, <1>4, <4>1, <4>2 DEF Genuine
    <3>2. CASE i = Len(pending) + 1
      BY <1>2, <1>3, <1>4, <1>5, <1>6, <3>2 DEF Genuine
    <3> QED
      BY <1>0, <1>3, <3>1, <3>2
  <2>2. ASSUME NEW i \in DOMAIN pending', NEW j \in DOMAIN pending',
               pending'[i].enq = pending'[j].enq
        PROVE  i = j
    <3>1. CASE i \in DOMAIN pending /\ j \in DOMAIN pending
      BY <1>3, <2>2, <3>1 DEF FlowInv, QueueOK
    <3>2. CASE i \in DOMAIN pending /\ j = Len(pending) + 1
      BY <1>2, <1>3, <1>4, <1>8, <2>2, <3>2
    <3>3. CASE j \in DOMAIN pending /\ i = Len(pending) + 1
      BY <1>2, <1>3, <1>4, <1>8, <2>2, <3>3
    <3> QED
      BY <1>0, <1>3, <3>1, <3>2, <3>3
  <2> QED
    BY <2>1, <2>2 DEF QueueOK
<1>10. \A w \in Workers : \A e : Carries(w, e)' <=> Carries(w, e)
  BY <1>5 DEF Carries, Answered
<1>11. \A w \in Workers : ~ Carries(w, n)
  BY <1>4 DEF FlowInv, WorkerOK, Genuine, Carries
<1>12. \A e : S!IsPending(e)' => S!IsPending(e) \/ e = n
  BY <1>0, <1>2, <1>3, SMTT(30) DEF S!IsPending
<1>13. Exclusive'
  BY <1>10, <1>11, <1>12 DEF FlowInv, Exclusive
<1>14. ASSUME NEW w \in Workers PROVE WorkerOK(w)'
  <2>1. Answered(w)' =>
          /\ wpc'[w] = R!Claiming /\ Genuine(reply[w])'
          /\ ran'[reply'[w].enq] = << >>
    BY <1>3, <1>4, <1>5 DEF FlowInv, WorkerOK, Answered, Genuine
  <2>2. wpc'[w] \in R!Working =>
          /\ held'[w] \in Envelope /\ result'[w] \in R!WorkerResults
          /\ Genuine(held[w])' /\ LogMatches(w)'
    BY <1>3, <1>4, <1>5 DEF FlowInv, WorkerOK, Genuine, LogMatches
  <2> QED
    BY <2>1, <2>2 DEF WorkerOK
<1>15. NothingRanBefore'
  BY <1>4, <1>5 DEF FlowInv, NothingRanBefore
<1>16. ExecutedOnce'
  <2> SUFFICES ASSUME NEW e \in DOMAIN submitted'
               PROVE  /\ Len(ran'[e]) <= Len(submitted'[e].job.plan.steps)
                      /\ \A i \in DOMAIN ran'[e] :
                           /\ ran'[e][i].step = submitted'[e].job.plan.steps[i].id
                           /\ ran'[e][i].by = ran'[e][1].by
    BY DEF ExecutedOnce, Job
  <2>1. CASE e \in DOMAIN submitted
    BY <1>3, <1>5, <2>1, SMTT(30) DEF FlowInv, ExecutedOnce, Job
  <2>2. CASE e = n
    <3>1. signed.job.plan.steps \in Seq([id : STRING, executor : STRING, timeout : Int])
      BY <1>2, PlansAssumption DEF Envelope, S!Envelopes
    <3> QED
      BY <1>3, <1>5, <1>6, <2>2, <3>1
  <2> QED
    BY <1>4, <2>1, <2>2
<1>17. Requesting'
  BY <1>1, <1>5 DEF FlowInv, Requesting, netVars
<1> QED
  BY <1>7, <1>9, <1>13, <1>14, <1>15, <1>16, <1>17 DEF FlowInv

-----------------------------------------------------------------------------
\* The control plane.

\* handleClaim with a job: the answer carries it, and nothing else does.
LEMMA HandleClaimKeepsFlowInv ==
  ASSUME FlowInv, NEW w \in Workers, HandleClaim(w)
  PROVE  FlowInv'
<1>1. PICK i \in DOMAIN pending :
        /\ S!Claim(Info[w], i)
        /\ reply' = [reply EXCEPT ![w] = pending[i]]
  BY DEF HandleClaim
<1>2. /\ request' = request \ {w} /\ w \in request
      /\ UNCHANGED <<wpc, held, result, now, ran>>
  BY DEF HandleClaim, runnerVars
<1>3. /\ pending' \in Seq(Envelope) /\ QueueOK'
      /\ submitted' = submitted /\ pending[i] \in Envelope
      /\ \A e : S!IsPending(e)' => S!IsPending(e)
      /\ \A e : e = pending[i].enq => ~ S!IsPending(e)'
  BY <1>1, <1>2, ClaimTakesOut
<1>4. /\ wpc[w] = R!Claiming /\ reply'[w] = pending[i]
      /\ \A v \in Workers \ {w} : reply'[v] = reply[v]
  BY <1>1, <1>2 DEF FlowInv, Requesting, FlowTypeOK
<1>5. /\ Genuine(pending[i]) /\ ran[pending[i].enq] = << >>
      /\ S!IsPending(pending[i].enq)
  BY DEF FlowInv, QueueOK, S!IsPending
<1>6. FlowTypeOK'
  BY <1>1, <1>2, <1>3 DEF FlowInv, FlowTypeOK
<1>7. \A v \in Workers, e \in 1 .. MaxSubmitted :
        Carries(v, e)' => Carries(v, e) \/ (v = w /\ e = pending[i].enq)
  BY <1>2, <1>4 DEF Carries, Answered
<1>8. \A v \in Workers, e \in 1 .. MaxSubmitted : e = pending[i].enq => ~ Carries(v, e)
  BY <1>5 DEF FlowInv, Exclusive
<1>9. Exclusive'
  BY <1>3, <1>7, <1>8 DEF FlowInv, Exclusive
<1>10. ASSUME NEW v \in Workers PROVE WorkerOK(v)'
  <2>1. Answered(v)' => /\ wpc'[v] = R!Claiming
                        /\ Genuine(reply[v])' /\ ran'[reply'[v].enq] = << >>
    BY <1>2, <1>3, <1>4, <1>5 DEF FlowInv, WorkerOK, Answered, Genuine
  <2>2. wpc'[v] \in R!Working =>
          /\ held'[v] \in Envelope /\ result'[v] \in R!WorkerResults
          /\ Genuine(held[v])' /\ LogMatches(v)'
    BY <1>2, <1>3 DEF FlowInv, WorkerOK, Genuine, LogMatches
  <2> QED
    BY <2>1, <2>2 DEF WorkerOK
<1>11. NothingRanBefore' /\ ExecutedOnce'
  BY <1>2, <1>3 DEF FlowInv, NothingRanBefore, ExecutedOnce, Job
<1>12. Requesting'
  BY <1>2, <1>4 DEF FlowInv, Requesting
<1> QED
  BY <1>3, <1>6, <1>9, <1>10, <1>11, <1>12 DEF FlowInv

\* handleClaim for a client that is gone: the job has left the queue for good.
LEMMA HandleAbandonedClaimKeepsFlowInv ==
  ASSUME FlowInv, NEW w \in Workers, HandleAbandonedClaim(w)
  PROVE  FlowInv'
<1>1. UNCHANGED <<wpc, held, result, now, ran, request, reply>>
  BY DEF HandleAbandonedClaim, runnerVars
<1>2. /\ pending' \in Seq(Envelope) /\ QueueOK'
      /\ submitted' = submitted
      /\ \A e : S!IsPending(e)' => S!IsPending(e)
  <2>1. CASE \E i \in DOMAIN pending : S!Claim(Info[w], i)
    BY <1>1, <2>1, ClaimTakesOut
  <2>2. CASE S!ClaimNothing(Info[w])
    BY <1>1, <2>2
       DEF S!ClaimNothing, S!storeVars, S!IsPending, FlowInv, FlowTypeOK, QueueOK, Genuine
  <2> QED
    BY <2>1, <2>2 DEF HandleAbandonedClaim
<1>3. FlowTypeOK' /\ Requesting'
  BY <1>1, <1>2 DEF FlowInv, FlowTypeOK, Requesting
<1>4. \A v \in Workers :
        /\ Answered(v)' => reply'[v] = reply[v] /\ wpc'[v] = wpc[v]
        /\ wpc'[v] \in R!Working =>
             /\ wpc[v] \in R!Working /\ held'[v] = held[v]
             /\ result'[v] \in R!WorkerResults /\ LogMatches(v)'
  BY <1>1 DEF FlowInv, WorkerOK, LogMatches
<1> QED
  BY <1>1, <1>2, <1>3, <1>4, QuietStep

-----------------------------------------------------------------------------
\* The workers.

\* A step of one worker that leaves the queue, the submissions and the logs
\* alone keeps the invariant, if its own place still fits its log.
LEMMA LocalStep ==
  ASSUME FlowInv, FlowTypeOK', NEW w \in Workers,
         UNCHANGED <<pending, submitted, ran>>,
         request' \subseteq request \cup {w},
         w \in request' => wpc'[w] = R!Claiming,
         reply'[w] # None => wpc'[w] = R!Claiming /\ w \notin request',
         \A v \in Workers \ {w} : /\ wpc'[v] = wpc[v] /\ held'[v] = held[v]
                                /\ result'[v] = result[v] /\ reply'[v] = reply[v],
         Answered(w)' => reply'[w] = reply[w] /\ wpc'[w] = wpc[w],
         wpc'[w] \in R!Working =>
           /\ wpc[w] \in R!Working /\ held'[w] = held[w]
           /\ result'[w] \in R!WorkerResults /\ LogMatches(w)'
  PROVE  FlowInv'
<1>2. QueueOK' /\ \A e : S!IsPending(e)' => S!IsPending(e)
  BY DEF FlowInv, QueueOK, Genuine, S!IsPending
<1>3. ASSUME NEW v \in Workers, v # w
      PROVE  /\ wpc'[v] = wpc[v] /\ held'[v] = held[v]
             /\ result'[v] = result[v] /\ reply'[v] = reply[v]
  BY <1>3
<1>4. \A v \in Workers :
        /\ Answered(v)' => reply'[v] = reply[v] /\ wpc'[v] = wpc[v]
        /\ wpc'[v] \in R!Working =>
             /\ wpc[v] \in R!Working /\ held'[v] = held[v]
             /\ result'[v] \in R!WorkerResults /\ LogMatches(v)'
  <2> SUFFICES ASSUME NEW v \in Workers
               PROVE  /\ Answered(v)' => reply'[v] = reply[v] /\ wpc'[v] = wpc[v]
                      /\ wpc'[v] \in R!Working =>
                           /\ wpc[v] \in R!Working /\ held'[v] = held[v]
                           /\ result'[v] \in R!WorkerResults /\ LogMatches(v)'
    OBVIOUS
  <2>1. CASE v = w
    BY <2>1
  <2>2. CASE v # w
    <3>1. LogMatches(v) => LogMatches(v)'
      BY <1>3, <2>2 DEF LogMatches
    <3> QED
      BY <1>3, <2>2, <3>1 DEF FlowInv, WorkerOK
  <2> QED
    BY <2>1, <2>2
<1>5. Requesting'
  BY <1>3 DEF FlowInv, Requesting
<1> QED
  BY <1>2, <1>4, <1>5, QuietStep

\* What is known of a worker's job and of its report while it works on them.
LEMMA WorkerTypes ==
  ASSUME FlowInv, NEW w \in Workers, wpc[w] \in R!Working
  PROVE  /\ held[w] \in Envelope /\ held[w].enq \in 1 .. MaxSubmitted
         /\ held[w].job.plan.steps \in Seq([id : STRING, executor : STRING, timeout : Int])
         /\ result[w] \in R!WorkerResults
         /\ result[w].steps \in Seq(R!StepResults)
         /\ ran[held[w].enq] \in Seq(LogEntry)
         /\ LogMatches(w)
<1>1. held[w] \in Envelope /\ result[w] \in R!WorkerResults /\ LogMatches(w)
  BY DEF FlowInv, WorkerOK
<1>2. held[w].enq \in 1 .. MaxSubmitted
  BY DispatchBounds DEF FlowInv, FlowTypeOK, WorkerOK, Genuine
<1>3. held[w].job.plan.steps \in Seq([id : STRING, executor : STRING, timeout : Int])
  BY <1>1, PlansAssumption DEF Envelope, S!Envelopes
<1>4. result[w].steps \in Seq(R!StepResults)
  BY <1>1 DEF R!WorkerResults
<1>5. ran[held[w].enq] \in Seq(LogEntry)
  BY <1>2 DEF FlowInv, FlowTypeOK
<1> QED
  BY <1>1, <1>2, <1>3, <1>4, <1>5

\* Claims that bring no job, and reports that come back: the worker is idle
\* again, or waits on.
LEMMA ReturningKeepsFlowInv ==
  ASSUME FlowInv, NEW w \in Workers,
         \/ SendClaim(w) \/ HandleClaimNoJob(w) \/ ReceiveNoJob(w)
         \/ ClaimUnanswered(w) \/ BreakClaim(w)
         \/ ReceiveAck(w) \/ CompleteUnanswered(w) \/ BreakComplete(w)
         \/ WorkerCrash(w)
  PROVE  FlowInv'
<1>1. UNCHANGED <<pending, submitted, ran, now>>
  BY DEF SendClaim, HandleClaimNoJob, ReceiveNoJob, ClaimUnanswered, BreakClaim,
         ReceiveAck, CompleteUnanswered, BreakComplete, WorkerCrash, storeVars,
         runnerVars, S!ClaimNothing, S!storeVars, R!Poll, R!ClaimFailed,
         R!CompleteReturns, R!Return, R!Crash
<1>2. CASE SendClaim(w)
  <2>1. /\ UNCHANGED <<held, result, reply>> /\ request' = request \cup {w}
        /\ wpc' = [wpc EXCEPT ![w] = R!Claiming] /\ wpc[w] = R!Idle
    BY <1>2 DEF SendClaim, R!Poll, R!Goto, R!localVars
  <2>2. FlowTypeOK'
    BY <1>1, <2>1 DEF FlowInv, FlowTypeOK
  <2>3. wpc'[w] = R!Claiming /\ reply'[w] = None
    BY <2>1 DEF FlowInv, FlowTypeOK, Requesting
  <2> QED
    BY <1>1, <2>1, <2>2, <2>3, LocalStep DEF FlowInv, FlowTypeOK, Answered
<1>3. CASE ReceiveNoJob(w) \/ ClaimUnanswered(w) \/ BreakClaim(w)
  <2>1. /\ held' = held /\ result' = result
        /\ wpc' = [wpc EXCEPT ![w] = R!Idle] /\ wpc[w] = R!Claiming
    BY <1>3 DEF ReceiveNoJob, ClaimUnanswered, BreakClaim,
                R!ClaimFailed, R!Goto, R!localVars
  <2>2. /\ \/ reply' = reply /\ reply[w] = None
           \/ reply' = [reply EXCEPT ![w] = None]
        /\ \/ request' = request /\ (w \notin request \/ reply[w] # None)
           \/ request' = request \ {w}
    BY <1>3, NothingAssumption
       DEF ReceiveNoJob, ClaimUnanswered, BreakClaim, netVars
  <2>3. FlowTypeOK'
    BY <1>1, <2>1, <2>2 DEF FlowInv, FlowTypeOK
  <2>4. reply'[w] = None /\ w \notin request' /\ request' \subseteq request
    BY <2>2 DEF FlowInv, FlowTypeOK, Requesting
  <2>5. wpc'[w] \notin R!Working
    BY <2>1 DEF FlowInv, FlowTypeOK
  <2> QED
    BY <1>1, <2>1, <2>2, <2>3, <2>4, <2>5, LocalStep DEF FlowInv, FlowTypeOK, Answered
<1>4. CASE HandleClaimNoJob(w)
  <2>1. /\ UNCHANGED <<wpc, held, result>>
        /\ reply' = [reply EXCEPT ![w] = NoJob] /\ request' = request \ {w}
        /\ wpc[w] = R!Claiming
    BY <1>4 DEF HandleClaimNoJob, runnerVars, FlowInv, Requesting
  <2>2. FlowTypeOK'
    BY <1>1, <2>1 DEF FlowInv, FlowTypeOK
  <2>3. /\ wpc'[w] = R!Claiming /\ reply'[w] = NoJob
        /\ ~ Answered(w)' /\ w \notin request'
    BY <2>1 DEF FlowInv, FlowTypeOK, Answered
  <2> QED
    BY <1>1, <2>1, <2>2, <2>3, LocalStep DEF FlowInv, FlowTypeOK
<1>5. CASE \/ ReceiveAck(w) \/ CompleteUnanswered(w) \/ BreakComplete(w)
           \/ WorkerCrash(w)
  <2>1. /\ wpc' = [wpc EXCEPT ![w] = R!Idle]
        /\ held' = [held EXCEPT ![w] = None] /\ result' = [result EXCEPT ![w] = None]
    BY <1>5 DEF ReceiveAck, CompleteUnanswered, BreakComplete, WorkerCrash,
         R!CompleteReturns, R!Return, R!Goto, R!Crash
  <2>2. \/ wpc[w] = R!Completing /\ request' = request /\ reply' = reply
        \/ request' = request \ {w} /\ reply' = [reply EXCEPT ![w] = None]
    BY <1>5 DEF ReceiveAck, CompleteUnanswered, BreakComplete, WorkerCrash,
         R!CompleteReturns, netVars
  <2>3. FlowTypeOK'
    BY <1>1, <2>1, <2>2 DEF FlowInv, FlowTypeOK
  <2>4. wpc'[w] \notin R!Working
    BY <2>1 DEF FlowInv, FlowTypeOK
  <2>5. /\ reply'[w] = None /\ ~ Answered(w)'
        /\ w \notin request' /\ request' \subseteq request
    BY <2>1, <2>2 DEF FlowInv, FlowTypeOK, WorkerOK, Requesting, Answered
  <2> QED
    BY <1>1, <2>1, <2>2, <2>3, <2>4, <2>5, LocalStep DEF FlowInv, FlowTypeOK
<1> QED
  BY <1>2, <1>4, <1>5, <1>3

\* Source.Claim returns a job: the worker takes it over from the answer.
LEMMA ReceiveJobKeepsFlowInv ==
  ASSUME FlowInv, NEW w \in Workers, ReceiveJob(w)
  PROVE  FlowInv'
<1>1. /\ UNCHANGED <<pending, submitted, ran, now, request>>
      /\ Answered(w) /\ wpc[w] = R!Claiming
      /\ wpc' = [wpc EXCEPT ![w] = R!Verifying]
      /\ held' = [held EXCEPT ![w] = reply[w]]
      /\ reply' = [reply EXCEPT ![w] = None]
      /\ result' = [result EXCEPT ![w] =
           [job |-> R!ClaimedID(reply[w]), enq |-> reply[w].enq, status |-> R!Running,
            steps |-> << >>]]
  BY DEF ReceiveJob, Answered, storeVars, R!Claimed, R!Goto
<1>2. /\ reply[w] \in Envelope /\ Genuine(reply[w]) /\ ran[reply[w].enq] = << >>
      /\ reply[w].enq \in 1 .. MaxSubmitted
  BY <1>1, DispatchBounds
     DEF FlowInv, FlowTypeOK, WorkerOK, Answered, Genuine
<1>3. result'[w] \in R!WorkerResults /\ result'[w].steps = << >>
  <2>1. R!ClaimedID(reply[w]) \in STRING
    <3>1. reply[w].job.id \in STRING
      BY <1>2, PlansAssumption DEF Envelope, S!Envelopes
    <3> QED
      BY <3>1, NothingAssumption DEF R!ClaimedID
  <2> QED
    BY <1>1, <1>2, <2>1 DEF FlowInv, FlowTypeOK, R!WorkerResults, R!Status, R!Running
<1>4. FlowTypeOK'
  BY <1>1, <1>2, <1>3 DEF FlowInv, FlowTypeOK
<1>5. /\ wpc'[w] = R!Verifying /\ held'[w] = reply[w] /\ reply'[w] = None
      /\ \A v \in Workers \ {w} : /\ wpc'[v] = wpc[v] /\ held'[v] = held[v]
                                /\ result'[v] = result[v] /\ reply'[v] = reply[v]
  BY <1>1 DEF FlowInv, FlowTypeOK
<1>6. QueueOK' /\ \A e : S!IsPending(e)' <=> S!IsPending(e)
  BY <1>1 DEF FlowInv, QueueOK, Genuine, S!IsPending
<1>7. \A v \in Workers, e \in 1 .. MaxSubmitted : Carries(v, e)' => Carries(v, e)
  BY <1>1, <1>5 DEF Carries, Answered
<1>8. Exclusive'
  BY <1>6, <1>7 DEF FlowInv, Exclusive
<1>9. ASSUME NEW v \in Workers PROVE WorkerOK(v)'
  <2>1. CASE v = w
    <3>1. LogMatches(w)'
      BY <1>1, <1>2, <1>3, <1>5 DEF LogMatches
    <3> QED
      BY <1>1, <1>2, <1>3, <1>5, <2>1, <3>1 DEF WorkerOK, Answered, Genuine
  <2>2. CASE v # w
    <3>1. LogMatches(v) => LogMatches(v)'
      BY <1>1, <1>5, <2>2 DEF LogMatches
    <3> QED
      BY <1>1, <1>5, <2>2, <3>1 DEF FlowInv, WorkerOK, Answered, Genuine
  <2> QED
    BY <2>1, <2>2
<1>10. Requesting' /\ NothingRanBefore' /\ ExecutedOnce'
  <2>1. Requesting'
    BY <1>1, <1>5 DEF FlowInv, Requesting, Answered
  <2>2. NothingRanBefore' /\ ExecutedOnce'
    BY <1>1 DEF FlowInv, NothingRanBefore, ExecutedOnce, Job
  <2> QED
    BY <2>1, <2>2
<1> QED
  BY <1>4, <1>6, <1>8, <1>9, <1>10 DEF FlowInv

\* RunOnce verifies, or reports: the log stays and its length still fits.
LEMMA VerifyAndSendKeepFlowInv ==
  ASSUME FlowInv, NEW w \in Workers, Verify(w) \/ SendResult(w)
  PROVE  FlowInv'
<1>1. /\ UNCHANGED <<pending, submitted, ran, now, request, reply, held>>
      /\ wpc[w] \in R!Working
      /\ \/ /\ wpc[w] = R!Verifying /\ result' = result /\ R!Accepts(w)
            /\ wpc' = [wpc EXCEPT ![w] = R!Executing]
         \/ /\ wpc[w] = R!Verifying /\ result' = [result EXCEPT ![w].status = R!Denied]
            /\ \E place \in R!Recording : wpc' = [wpc EXCEPT ![w] = place]
         \/ /\ wpc[w] \in R!Recording /\ result' = result
            /\ wpc' = [wpc EXCEPT ![w] = R!Completing]
  BY DenyIs, ReportIs
     DEF Verify, SendResult, R!Accept, R!Goto, R!localVars, storeVars, netVars
<1>2. /\ held[w].job.plan.steps \in Seq([id : STRING, executor : STRING, timeout : Int])
      /\ result[w] \in R!WorkerResults /\ LogMatches(w)
  BY <1>1, WorkerTypes
<1>3. result'[w] \in R!WorkerResults /\ result'[w].steps = result[w].steps
  <2>1. result'[w] = result[w] \/ result'[w] = [result[w] EXCEPT !.status = R!Denied]
    BY <1>1 DEF FlowInv, FlowTypeOK
  <2>2. R!Denied \in R!Status
    BY DEF R!Status
  <2> QED
    BY <1>2, <2>1, <2>2 DEF R!WorkerResults
<1>4. FlowTypeOK'
  BY <1>1, <1>3 DEF FlowInv, FlowTypeOK
<1>5. \A v \in Workers \ {w} : /\ wpc'[v] = wpc[v] /\ held'[v] = held[v]
                               /\ result'[v] = result[v] /\ reply'[v] = reply[v]
  BY <1>1 DEF FlowInv, FlowTypeOK
<1>6. LogMatches(w)'
  <2>1. R!Accepts(w) => Len(held[w].job.plan.steps) > 0
    BY <1>2 DEF R!Accepts, R!Verifies, R!ValidJob, R!ValidPlan, R!ValidSteps
  <2> QED
    BY <1>1, <1>2, <1>3, <2>1, SMTT(30) DEF LogMatches, FlowInv, FlowTypeOK
<1>7. ~ Answered(w)' /\ reply'[w] = None /\ w \notin request'
  BY <1>1 DEF FlowInv, Requesting, Answered
<1> QED
  BY <1>1, <1>3, <1>4, <1>5, <1>6, <1>7, LocalStep

\* A sequence with one more element.
LEMMA AppendedTo ==
  ASSUME NEW X, NEW seq \in Seq(X), NEW x \in X
  PROVE  /\ Len(Append(seq, x)) = Len(seq) + 1 /\ Len(seq) \in Nat
         /\ \A n \in 1 .. Len(seq) : Append(seq, x)[n] = seq[n]
         /\ Append(seq, x)[Len(seq) + 1] = x
         /\ DOMAIN seq = 1 .. Len(seq)
         /\ DOMAIN Append(seq, x) = 1 .. Len(seq) + 1
OBVIOUS

\* The step after the n-th one, when there is one.
LEMMA NextOf ==
  ASSUME NEW X, NEW seq \in Seq(X), NEW n \in Nat, n < Len(seq)
  PROVE  seq[n + 1] \in X /\ Len(seq) \in Nat /\ n + 1 <= Len(seq)
OBVIOUS

\* A step of the plan ends, or has no executor: the report gains its result,
\* and the loop goes on only with a step left.
LEMMA StepEndsKeepsFlowInv ==
  ASSUME FlowInv, NEW w \in Workers,
         UNCHANGED <<storeVars, netVars, faultVars>>,
         \/ R!Unregistered(w)
         \/ \E id \in ExecStepIDs, status \in ExecStatuses, err \in BOOLEAN,
               o \in StepOutputs : R!FinishStep(w, id, status, err, o)
  PROVE  FlowInv'
<1>1. PICK id \in {R!Current(w).id} \cup ExecStepIDs, status \in R!Status,
           o \in StepOutputs \cup {NoOutput} :
        /\ R!StepEnds(w, id, status, o)
        /\ \/ wpc[w] = R!Executing /\ status = R!Failed
           \/ wpc[w] = R!InStep
  <2>1. CASE R!Unregistered(w)
    BY <2>1 DEF R!Unregistered, R!Status
  <2>2. ASSUME NEW id \in ExecStepIDs, NEW status \in ExecStatuses, NEW err \in BOOLEAN,
               NEW o \in StepOutputs, R!FinishStep(w, id, status, err, o)
        PROVE  /\ R!Normalized(status, err) \in R!Status
               /\ R!ReportedID(w, id) \in {R!Current(w).id} \cup ExecStepIDs
               /\ R!StepEnds(w, R!ReportedID(w, id), R!Normalized(status, err), o)
               /\ wpc[w] = R!InStep
    <3>1. R!Normalized(status, err) \in R!Status
      BY NothingAssumption
         DEF R!Normalized, R!Status, R!Failed, R!Succeeded, R!Pending, R!Running,
             R!Skipped, R!Denied, Status, Pending, Running, Succeeded, Failed,
             Skipped, Denied
    <3>2. R!ReportedID(w, id) \in {R!Current(w).id} \cup ExecStepIDs
      BY DEF R!ReportedID
    <3> QED
      BY <2>2, <3>1, <3>2 DEF R!FinishStep
  <2> QED
    BY <2>1, <2>2
<1> DEFINE reported == Len(result[w].steps)
           planned == Len(held[w].job.plan.steps)
           stepResult == [id |-> id, status |-> status, outputs |-> o]
           next == R!AfterStep(w, status)
<1>2. /\ held[w] \in Envelope
      /\ held[w].job.plan.steps \in Seq([id : STRING, executor : STRING, timeout : Int])
      /\ result[w] \in R!WorkerResults /\ result[w].steps \in Seq(R!StepResults)
      /\ reported < planned /\ LogMatches(w)
      /\ wpc[w] = R!InStep => Len(ran[held[w].enq]) = reported + 1
  BY <1>1, WorkerTypes DEF LogMatches
<1>3. stepResult \in R!StepResults
  <2>1. reported \in Nat
    BY <1>2
  <2>2. R!Current(w) \in [id : STRING, executor : STRING, timeout : Int]
    BY <1>2, <2>1, NextOf, Zenon DEF R!Current
  <2> QED
    BY <1>1, <2>2, NothingAssumption DEF R!StepResults
<1>4. /\ next.place \in {R!Executed, R!Executing} /\ next.status \in R!Status
      /\ next.place = R!Executing => status = R!Succeeded /\ reported + 1 # planned
  BY DEF R!AfterStep, R!Status
<1>5. /\ UNCHANGED <<pending, submitted, ran, now, request, reply, held>>
      /\ wpc' = [wpc EXCEPT ![w] = next.place]
      /\ result' = [result EXCEPT ![w] =
           [result[w] EXCEPT !.status = next.status,
                             !.steps = Append(result[w].steps, stepResult)]]
  <2>1. UNCHANGED <<pending, submitted, request, reply>>
    BY DEF storeVars, netVars
  <2>2. UNCHANGED <<ran, now, held>> /\ wpc' = [wpc EXCEPT ![w] = next.place]
    BY <1>1 DEF R!StepEnds, R!Goto
  <2>3. result' = [result EXCEPT ![w].status = next.status,
                                 ![w].steps = Append(@, stepResult)]
    BY <1>1 DEF R!StepEnds
  <2>4. result' = [result EXCEPT ![w] =
           [result[w] EXCEPT !.status = next.status,
                             !.steps = Append(result[w].steps, stepResult)]]
    BY <1>2, <2>3 DEF R!WorkerResults, FlowInv, FlowTypeOK
  <2> QED
    BY <2>1, <2>2, <2>4
<1> HIDE DEF next, stepResult
<1>6. /\ result'[w] = [result[w] EXCEPT !.status = next.status,
                                       !.steps = Append(result[w].steps, stepResult)]
      /\ wpc'[w] = next.place /\ held'[w] = held[w]
      /\ \A v \in Workers \ {w} : /\ wpc'[v] = wpc[v] /\ held'[v] = held[v]
                                /\ result'[v] = result[v] /\ reply'[v] = reply[v]
  BY <1>5 DEF FlowInv, FlowTypeOK
<1>7. /\ result'[w] \in R!WorkerResults
      /\ Len(result'[w].steps) = reported + 1
  <2>1. /\ Append(result[w].steps, stepResult) \in Seq(R!StepResults)
        /\ Len(Append(result[w].steps, stepResult)) = reported + 1
    BY <1>2, <1>3
  <2>2. result'[w].steps = Append(result[w].steps, stepResult)
    BY <1>2, <1>6 DEF R!WorkerResults
  <2>3. result'[w] \in R!WorkerResults
    BY <1>2, <1>4, <1>6, <2>1 DEF R!WorkerResults
  <2> QED
    BY <2>1, <2>2, <2>3
<1>8. FlowTypeOK'
  BY <1>4, <1>5, <1>7 DEF FlowInv, FlowTypeOK
<1>9. LogMatches(w)'
  <2>1. reported \in Nat /\ planned \in Nat
    BY <1>2, SMTT(30)
  <2>2. wpc'[w] = R!Executing => reported + 1 < planned
    BY <1>2, <1>4, <1>6, <2>1, SMTT(30)
  <2>3. wpc'[w] = R!Executing => wpc[w] = R!InStep
    BY <1>1, <1>4, <1>6 DEF R!Failed, R!Succeeded
  <2> QED
    BY <1>2, <1>4, <1>5, <1>6, <1>7, <2>2, <2>3 DEF LogMatches
<1>10. ~ Answered(w)' /\ reply'[w] = None /\ w \notin request'
  BY <1>1, <1>5 DEF FlowInv, Requesting, Answered
<1> QED
  BY <1>1, <1>5, <1>6, <1>7, <1>8, <1>9, <1>10, LocalStep

\* An executor is called: the submission's log grows by the step its worker has
\* come to, and nobody else has that submission.
LEMMA ExecutorCalledKeepsFlowInv ==
  ASSUME FlowInv, NEW w \in Workers, R!StartStep(w),
         UNCHANGED <<storeVars, netVars, faultVars>>
  PROVE  FlowInv'
<1> DEFINE e0 == held[w].enq
           reported == Len(result[w].steps)
           planned == Len(held[w].job.plan.steps)
           entry == [step |-> R!Current(w).id, by |-> w]
<1>1. /\ UNCHANGED <<pending, submitted, now, request, reply, held, result>>
      /\ wpc[w] = R!Executing /\ wpc' = [wpc EXCEPT ![w] = R!InStep]
      /\ ran' = [ran EXCEPT ![e0] = Append(@, entry)]
  BY DEF R!StartStep, R!Goto, R!localVars, storeVars, netVars
<1>2. /\ held[w] \in Envelope /\ e0 \in 1 .. MaxSubmitted
      /\ held[w].job.plan.steps \in Seq([id : STRING, executor : STRING, timeout : Int])
      /\ result[w].steps \in Seq(R!StepResults)
      /\ ran[e0] \in Seq(LogEntry) /\ Len(ran[e0]) = reported
      /\ reported < planned
      /\ \A n \in DOMAIN ran[e0] : ran[e0][n].by = w
      /\ Genuine(held[w])
  BY <1>1, WorkerTypes DEF LogMatches, FlowInv, WorkerOK
<1>3. reported \in Nat
  BY <1>2
<1>4. R!Current(w) \in [id : STRING, executor : STRING, timeout : Int]
  BY <1>2, <1>3, NextOf, Zenon DEF R!Current
<1>5. entry \in LogEntry
  BY <1>4 DEF LogEntry, FlowInv, FlowTypeOK
<1> HIDE DEF entry, e0
<1>6. /\ ran'[e0] = Append(ran[e0], entry)
      /\ \A e \in 1 .. MaxSubmitted \ {e0} : ran'[e] = ran[e]
      /\ ran' \in [1 .. MaxSubmitted -> Seq(LogEntry)]
      /\ wpc'[w] = R!InStep
      /\ \A v \in Workers \ {w} : wpc'[v] = wpc[v]
  BY <1>1, <1>2, <1>5 DEF FlowInv, FlowTypeOK
<1>7. /\ Len(ran'[e0]) = reported + 1
      /\ \A n \in 1 .. reported : ran'[e0][n] = ran[e0][n]
      /\ ran'[e0][reported + 1] = entry
      /\ DOMAIN ran[e0] = 1 .. reported /\ DOMAIN ran'[e0] = 1 .. reported + 1
  BY <1>2, <1>5, <1>6, AppendedTo, SMTT(30)
<1>8. entry.by = w /\ entry.step = held[w].job.plan.steps[reported + 1].id
  BY DEF entry, R!Current
<1>9. FlowTypeOK'
  BY <1>1, <1>6 DEF FlowInv, FlowTypeOK
<1>10. Carries(w, e0) /\ \A v \in Workers : Carries(v, e0) => v = w
  BY <1>1, <1>2 DEF Carries, FlowInv, Exclusive, e0
<1>11. \A i \in DOMAIN pending :
         /\ pending[i].enq \in DOMAIN submitted /\ pending[i].enq # e0
         /\ pending[i].enq \in 1 .. MaxSubmitted
  <2>1. ~ S!IsPending(e0)
    BY <1>2, <1>10 DEF FlowInv, Exclusive
  <2> QED
    BY <2>1, DispatchBounds DEF FlowInv, QueueOK, FlowTypeOK, Genuine, S!IsPending
<1>12. QueueOK'
  BY <1>1, <1>6, <1>11 DEF FlowInv, QueueOK, Genuine
<1>13. Exclusive' /\ Requesting'
  BY <1>1, <1>6 DEF FlowInv, FlowTypeOK, Exclusive, Requesting, Carries, Answered,
                    S!IsPending
<1>14. ASSUME NEW v \in Workers PROVE WorkerOK(v)'
  <2>1. CASE v = w
    <3>1. ~ Answered(w)'
      BY <1>1 DEF FlowInv, WorkerOK, Answered
    <3>2. ASSUME NEW n \in 1 .. reported + 1 PROVE ran'[e0][n].by = w
      <4>1. CASE n \in 1 .. reported
        BY <1>2, <1>7, <4>1
      <4>2. CASE n = reported + 1
        BY <1>7, <1>8, <4>2
      <4> QED
        BY <1>3, <4>1, <4>2
    <3>3. LogMatches(w)'
      BY <1>1, <1>2, <1>6, <1>7, <3>2 DEF LogMatches, e0
    <3> QED
      BY <1>1, <2>1, <3>1, <3>3 DEF FlowInv, WorkerOK, Genuine
  <2>2. CASE v # w
    <3>1. Answered(v) => reply[v].enq # e0 /\ reply[v].enq \in 1 .. MaxSubmitted
      BY <1>10, <2>2, DispatchBounds
         DEF Carries, FlowInv, FlowTypeOK, WorkerOK, Genuine
    <3>2. wpc[v] \in R!Working =>
            held[v].enq # e0 /\ held[v].enq \in 1 .. MaxSubmitted
      BY <1>10, <2>2, WorkerTypes DEF Carries
    <3>3. wpc[v] \in R!Working => LogMatches(v)'
      <4> SUFFICES ASSUME wpc[v] \in R!Working PROVE LogMatches(v)'
        OBVIOUS
      <4>1. LogMatches(v) /\ ran'[held[v].enq] = ran[held[v].enq]
        BY <1>6, <3>2 DEF FlowInv, WorkerOK
      <4>2. wpc'[v] = wpc[v] /\ held' = held /\ result' = result
        BY <1>1, <1>6, <2>2
      <4> QED
        BY <4>1, <4>2 DEF LogMatches
    <3>4. Answered(v) => ran'[reply[v].enq] = ran[reply[v].enq]
      BY <1>6, <3>1
    <3> QED
      BY <1>1, <1>6, <2>2, <3>3, <3>4 DEF FlowInv, WorkerOK, Answered, Genuine
  <2> QED
    BY <2>1, <2>2
<1>15. NothingRanBefore'
  BY <1>1, <1>2, <1>6 DEF FlowInv, NothingRanBefore, Genuine, e0
<1>16. ExecutedOnce'
  <2> SUFFICES ASSUME NEW e \in DOMAIN submitted
               PROVE  /\ Len(ran'[e]) <= Len(submitted[e].job.plan.steps)
                      /\ \A i \in DOMAIN ran'[e] :
                           /\ ran'[e][i].step = submitted[e].job.plan.steps[i].id
                           /\ ran'[e][i].by = ran'[e][1].by
    BY <1>1 DEF ExecutedOnce, Job
  <2>1. /\ Len(ran[e]) <= Len(submitted[e].job.plan.steps)
        /\ \A i \in DOMAIN ran[e] :
             /\ ran[e][i].step = submitted[e].job.plan.steps[i].id
             /\ ran[e][i].by = ran[e][1].by
    BY DEF FlowInv, ExecutedOnce, Job
  <2>2. CASE e # e0
    <3>1. e \in 1 .. MaxSubmitted
      BY DispatchBounds DEF FlowInv, FlowTypeOK
    <3> QED
      BY <1>6, <2>1, <2>2, <3>1
  <2>3. CASE e = e0
    <3>1. submitted[e] = held[w]
      BY <1>2, <2>3 DEF Genuine, e0
    <3>2. planned \in Nat /\ reported + 1 <= planned
      BY <1>2, <1>3, NextOf, Zenon
    <3>3. ASSUME NEW i \in 1 .. reported + 1
          PROVE  /\ ran'[e0][i].step = held[w].job.plan.steps[i].id
                 /\ ran'[e0][i].by = w
      <4>1. CASE i \in 1 .. reported
        BY <1>2, <1>7, <2>1, <2>3, <3>1, <4>1
      <4>2. CASE i = reported + 1
        BY <1>7, <1>8, <4>2
      <4> QED
        BY <1>3, <4>1, <4>2
    <3>4. 1 \in 1 .. reported + 1
      BY <1>3
    <3> QED
      BY <1>7, <2>3, <3>1, <3>2, <3>3, <3>4
  <2> QED
    BY <2>2, <2>3
<1> QED
  BY <1>9, <1>12, <1>13, <1>14, <1>15, <1>16 DEF FlowInv

\* A result is taken, the control plane restarts, the clock ticks, or nothing
\* happens: nobody is given a job and nothing is executed.
LEMMA OthersKeepFlowInv ==
  ASSUME FlowInv,
         \/ \E r \in posted : HandleComplete(r)
         \/ ControlPlaneRestart \/ \E w \in Workers : Tick(w)
         \/ UNCHANGED vars
  PROVE  FlowInv'
<1>1. /\ UNCHANGED <<submitted, wpc, held, result, ran, reply>>
      /\ pending' = pending \/ pending' = << >>
      /\ request' \subseteq request
      /\ now' = now \/ \E w \in Workers : now' = [now EXCEPT ![w] = now[w] + 1]
  BY DEF HandleComplete, ControlPlaneRestart, Tick, vars, storeVars, runnerVars,
         netVars, S!Complete, R!SetClock, R!localVars
<1>2. /\ FlowTypeOK' /\ QueueOK' /\ Requesting'
      /\ \A e : S!IsPending(e)' => S!IsPending(e)
  <2>1. now' \in [Workers -> Nat] /\ Requesting'
    <3>1. now \in [Workers -> Nat] /\ Requesting
      BY DEF FlowInv, FlowTypeOK
    <3>2. now' \in [Workers -> Nat]
      BY <1>1, <3>1
    <3>3. Requesting'
      BY <1>1, <3>1 DEF Requesting
    <3> QED
      BY <3>2, <3>3
  <2>2. CASE pending' = pending
    BY <1>1, <2>1, <2>2 DEF FlowInv, FlowTypeOK, QueueOK, Genuine, S!IsPending
  <2>3. CASE pending' = << >>
    BY <1>1, <2>1, <2>3 DEF FlowInv, FlowTypeOK, QueueOK, S!IsPending
  <2> QED
    BY <1>1, <2>1, <2>2, <2>3
<1>3. \A v \in Workers :
        wpc'[v] \in R!Working => result'[v] \in R!WorkerResults /\ LogMatches(v)'
  BY <1>1 DEF FlowInv, WorkerOK, LogMatches
<1> QED
  BY <1>1, <1>2, <1>3, QuietStep

-----------------------------------------------------------------------------
(***************************************************************************)
(* A submission is in one place at a time: in the queue, in one answer or  *)
(* with one worker; and its log says no more than that worker did.         *)
(***************************************************************************)
THEOREM FlowCorrect == Spec => []FlowInv
<1>1. ASSUME FlowInv, [Next]_vars PROVE FlowInv'
  <2>1. CASE \E j \in Jobs : CreateJob(j)
    BY <1>1, <2>1, CreateJobKeepsFlowInv
  <2>2. ASSUME NEW w \in Workers, WorkerStep(w) PROVE FlowInv'
    <3>1. CASE \/ SendClaim(w) \/ ReceiveNoJob(w) \/ ClaimUnanswered(w)
               \/ ReceiveAck(w) \/ CompleteUnanswered(w)
      BY <1>1, <3>1, ReturningKeepsFlowInv
    <3>2. CASE ReceiveJob(w)
      BY <1>1, <3>2, ReceiveJobKeepsFlowInv
    <3>3. CASE Verify(w) \/ SendResult(w)
      BY <1>1, <3>3, VerifyAndSendKeepFlowInv
    <3>4. CASE StartStep(w)
      <4>1. CASE R!StartStep(w)
        BY <1>1, <3>4, <4>1, ExecutorCalledKeepsFlowInv DEF StartStep
      <4>2. CASE R!Unregistered(w)
        BY <1>1, <3>4, <4>2, StepEndsKeepsFlowInv DEF StartStep
      <4> QED
        BY <3>4, <4>1, <4>2 DEF StartStep
    <3>5. CASE FinishStep(w)
      BY <1>1, <3>5, StepEndsKeepsFlowInv DEF FinishStep
    <3> QED
      BY <2>2, <3>1, <3>2, <3>3, <3>4, <3>5 DEF WorkerStep
  <2>3. ASSUME NEW w \in Workers, ServerStep(w) PROVE FlowInv'
    BY <1>1, <2>3, HandleClaimKeepsFlowInv, HandleAbandonedClaimKeepsFlowInv,
       ReturningKeepsFlowInv DEF ServerStep
  <2>4. ASSUME NEW w \in Workers, Fault(w) PROVE FlowInv'
    BY <1>1, <2>4, ReturningKeepsFlowInv DEF Fault
  <2>5. CASE \/ \E r \in posted : HandleComplete(r)
             \/ ControlPlaneRestart \/ (\E w \in Workers : Tick(w)) \/ UNCHANGED vars
    BY <1>1, <2>5, OthersKeepFlowInv
  <2> QED
    BY <1>1, <2>1, <2>2, <2>3, <2>4, <2>5 DEF Next
<1> QED
  BY InitFlowInv, <1>1, PTL DEF Spec

(***************************************************************************)
(* Every step of a submission is started at most once, in the plan's       *)
(* order, by one worker: for every number of workers, jobs, broken         *)
(* requests, crashes and restarts.                                         *)
(***************************************************************************)
THEOREM JobsExecutedOnce == Spec => []ExecutedOnce
BY FlowCorrect, PTL DEF FlowInv
-----------------------------------------------------------------------------
(***************************************************************************)
(* Dispatch implements JobLifecycle.  FlowInv says where an envelope can   *)
(* be; ResultsOK adds the results: a submission with a result under way or *)
(* in the store is in no queue and with no worker that could execute it.   *)
(* Then every step lets go of submissions (LettingGo) or is one of the     *)
(* four that submit, hand out, start and finish one.                       *)
(***************************************************************************)

ResultsOK ==
  /\ posted \subseteq R!WorkerResults
  /\ completed \in Seq(R!WorkerResults)
  /\ \A w \in Workers : wpc[w] \in R!Working => result[w].enq = held[w].enq
  /\ \A e \in 1 .. MaxSubmitted :
       ResultOut(e) => e \in DOMAIN submitted /\ ~ S!IsPending(e) /\ ~ HandedOut(e)

LifeInv == FlowInv /\ ResultsOK

\* One step of the abstract specification, or none.
AbstractStep == [L!Next]_L!vars

-----------------------------------------------------------------------------
\* Whoever is handed a submission carries it, and carries it alone.
LEMMA HandedIsCarried ==
  ASSUME FlowInv, NEW e \in 1 .. MaxSubmitted, HandedOut(e)
  PROVE  ~ S!IsPending(e) /\ \E w \in Workers : Carries(w, e)
<1>1. \E w \in Workers : Carries(w, e)
  BY DEF HandedOut, Carries, Answered
<1> QED
  BY <1>1 DEF FlowInv, Exclusive

\* One submission moves, the others stay where they are.
LEMMA OneMoves ==
  ASSUME NEW e \in 1 .. MaxSubmitted, NEW from, NEW to, Phase(e) = from,
         Phase(e)' = to, \A f \in 1 .. MaxSubmitted \ {e} : Phase(f)' = Phase(f),
         ran' = ran
  PROVE  L!Move(e, from, to)
BY DEF L!Move

\* A step that lets go of submissions, of any number of them, and does nothing else.
LEMMA LettingGo ==
  ASSUME LifeInv, submitted' = submitted, ran' = ran,
         posted' \subseteq R!WorkerResults, completed' \in Seq(R!WorkerResults),
         \A w \in Workers : wpc'[w] \in R!Working => result'[w].enq = held'[w].enq,
         \A e \in 1 .. MaxSubmitted :
           /\ S!IsPending(e)' => S!IsPending(e)
           /\ HandedOut(e)' => HandedOut(e)
           /\ ResultOut(e)' => ResultOut(e)
  PROVE  ResultsOK' /\ AbstractStep
<1>1. ResultsOK'
  BY DEF LifeInv, ResultsOK
<1>2. \A e \in 1 .. MaxSubmitted :
        /\ S!IsPending(e) => ~ HandedOut(e) /\ ~ ResultOut(e)
        /\ ResultOut(e) => ~ HandedOut(e)
  BY HandedIsCarried DEF LifeInv, ResultsOK
<1>3. \A e \in 1 .. MaxSubmitted :
        \/ Phase(e)' = Phase(e)
        \/ Phase(e) # "absent" /\ Phase(e)' = "gone"
  BY <1>2 DEF Phase
<1> DEFINE es == {e \in 1 .. MaxSubmitted : Phase(e)' # Phase(e)}
<1>4. L!Vanish(es)
  BY <1>3 DEF L!Vanish, L!Absent, L!Gone
<1>5. es \in SUBSET (1 .. MaxSubmitted)
  OBVIOUS
<1> QED
  BY <1>1, <1>4, <1>5 DEF AbstractStep, L!Next

\* LettingGo for the steps of one worker that leave the store alone.
LEMMA LocalLettingGo ==
  ASSUME LifeInv, NEW w \in Workers,
         UNCHANGED <<pending, submitted, completed, ran>>, posted' \subseteq posted,
         \A v \in Workers \ {w} : /\ wpc'[v] = wpc[v] /\ held'[v] = held[v]
                                /\ result'[v] = result[v] /\ reply'[v] = reply[v],
         wpc'[w] \in R!Working => result'[w].enq = held'[w].enq,
         Answered(w)' => HandedOut(reply'[w].enq),
         wpc'[w] \in R!Working \ {R!Completing} => HandedOut(held'[w].enq)
  PROVE  ResultsOK' /\ AbstractStep
<1>1. /\ posted' \subseteq R!WorkerResults /\ completed' \in Seq(R!WorkerResults)
      /\ \A v \in Workers : wpc'[v] \in R!Working => result'[v].enq = held'[v].enq
  BY DEF LifeInv, ResultsOK
<1>2. ASSUME NEW e \in 1 .. MaxSubmitted
      PROVE  /\ S!IsPending(e)' => S!IsPending(e)
             /\ HandedOut(e)' => HandedOut(e)
             /\ ResultOut(e)' => ResultOut(e)
  <2>1. S!IsPending(e)' => S!IsPending(e)
    BY DEF S!IsPending
  <2>2. HandedOut(e)' => HandedOut(e)
    BY DEF HandedOut, Answered
  <2>3. ResultOut(e)' => ResultOut(e)
    BY DEF ResultOut
  <2> QED
    BY <2>1, <2>2, <2>3
<1> QED
  BY <1>1, <1>2, LettingGo

\* What the steps below need to know of the state.
LEMMA Functions ==
  ASSUME LifeInv
  PROVE  /\ wpc \in [Workers -> R!Working \cup {R!Idle, R!Claiming}]
         /\ reply \in [Workers -> Envelope \cup {None, NoJob}]
         /\ held \in [Workers -> Envelope \cup {None}]
         /\ result \in [Workers -> R!WorkerResults \cup {None}]
         /\ FlowInv /\ Requesting /\ ResultsOK
         /\ \A w \in Workers : wpc[w] \in R!Working => result[w].enq = held[w].enq
         /\ \A w \in Workers :
              wpc[w] \in R!Working => result[w] \in R!WorkerResults
BY DEF LifeInv, FlowInv, FlowTypeOK, ResultsOK, WorkerOK

\* A worker that works on a job, and has not reported it, is handed that job.
LEMMA AtWork ==
  ASSUME LifeInv, NEW w \in Workers, wpc[w] \in R!Working \ {R!Completing}
  PROVE  /\ HandedOut(held[w].enq) /\ reply[w] = None
         /\ result[w] \in R!WorkerResults /\ result[w].enq = held[w].enq
<1>1. HandedOut(held[w].enq)
  BY DEF HandedOut
<1>2. wpc[w] # R!Claiming /\ wpc[w] \in R!Working
  OBVIOUS
<1>3. reply[w] = None
  BY <1>2, Functions DEF Requesting
<1> QED
  BY <1>1, <1>2, <1>3, Functions

-----------------------------------------------------------------------------
\* Claims that bring no job, reports that come back, broken requests, crashes.
LEMMA ReturningLetsGo ==
  ASSUME LifeInv, NEW w \in Workers,
         \/ SendClaim(w) \/ HandleClaimNoJob(w) \/ ReceiveNoJob(w)
         \/ ClaimUnanswered(w) \/ BreakClaim(w)
         \/ ReceiveAck(w) \/ CompleteUnanswered(w) \/ BreakComplete(w)
         \/ WorkerCrash(w)
  PROVE  ResultsOK' /\ AbstractStep
<1>1. /\ UNCHANGED <<pending, submitted, completed, ran>>
      /\ posted' \subseteq posted
  BY DEF SendClaim, HandleClaimNoJob, ReceiveNoJob, ClaimUnanswered, BreakClaim,
         ReceiveAck, CompleteUnanswered, BreakComplete, WorkerCrash, storeVars,
         netVars, runnerVars, S!ClaimNothing, S!storeVars, R!Poll, R!ClaimFailed,
         R!CompleteReturns, R!Return, R!Crash
<1>2. ASSUME wpc' = [wpc EXCEPT ![w] = R!Idle],
             reply' = reply \/ reply' = [reply EXCEPT ![w] = None],
             \A v \in Workers \ {w} : held'[v] = held[v] /\ result'[v] = result[v]
      PROVE  ResultsOK' /\ AbstractStep
  <2>1. /\ wpc'[w] = R!Idle
        /\ reply'[w] = reply[w] \/ reply'[w] = None
        /\ \A v \in Workers \ {w} : wpc'[v] = wpc[v] /\ reply'[v] = reply[v]
    BY <1>2, Functions
  <2>2. Answered(w)' => HandedOut(reply'[w].enq)
    BY <2>1 DEF HandedOut, Answered
  <2>3. wpc'[w] \notin R!Working
    BY <2>1
  <2>4. \A v \in Workers \ {w} : /\ wpc'[v] = wpc[v] /\ held'[v] = held[v]
                                 /\ result'[v] = result[v] /\ reply'[v] = reply[v]
    BY <1>2, <2>1
  <2> QED
    BY <1>1, <2>2, <2>3, <2>4, LocalLettingGo
<1>3. CASE SendClaim(w) \/ HandleClaimNoJob(w)
  <2>1. /\ held' = held /\ result' = result
        /\ \/ /\ wpc' = [wpc EXCEPT ![w] = R!Claiming] /\ reply' = reply
           \/ /\ wpc' = wpc /\ reply' = [reply EXCEPT ![w] = NoJob]
        /\ wpc[w] \in {R!Idle, R!Claiming}
    BY <1>3, Functions
       DEF SendClaim, HandleClaimNoJob, runnerVars, R!Poll, R!Goto, R!localVars, Requesting
  <2>2. /\ wpc'[w] \in {R!Idle, R!Claiming}
        /\ reply'[w] = reply[w] \/ reply'[w] = NoJob
        /\ \A v \in Workers \ {w} : /\ wpc'[v] = wpc[v] /\ held'[v] = held[v]
                                   /\ result'[v] = result[v] /\ reply'[v] = reply[v]
    BY <2>1, Functions
  <2>3. Answered(w)' => HandedOut(reply'[w].enq)
    BY <2>2 DEF HandedOut, Answered
  <2>4. wpc'[w] \notin R!Working
    BY <2>2
  <2> QED
    BY <1>1, <2>2, <2>3, <2>4, LocalLettingGo
<1>4. CASE ReceiveNoJob(w) \/ ClaimUnanswered(w) \/ BreakClaim(w)
  <2>1. /\ held' = held /\ result' = result
        /\ wpc' = [wpc EXCEPT ![w] = R!Idle]
        /\ reply' = reply \/ reply' = [reply EXCEPT ![w] = None]
    BY <1>4 DEF ReceiveNoJob, ClaimUnanswered, BreakClaim, netVars,
                R!ClaimFailed, R!Goto, R!localVars
  <2> QED
    BY <1>1, <1>2, <2>1
<1>5. CASE \/ ReceiveAck(w) \/ CompleteUnanswered(w) \/ BreakComplete(w)
           \/ WorkerCrash(w)
  <2>1. /\ wpc' = [wpc EXCEPT ![w] = R!Idle]
        /\ held' = [held EXCEPT ![w] = None] /\ result' = [result EXCEPT ![w] = None]
        /\ reply' = reply \/ reply' = [reply EXCEPT ![w] = None]
    BY <1>5 DEF ReceiveAck, CompleteUnanswered, BreakComplete, WorkerCrash, netVars,
         R!CompleteReturns, R!Return, R!Goto, R!Crash
  <2> QED
    BY <1>1, <1>2, <2>1
<1> QED
  BY <1>3, <1>4, <1>5

\* The job is taken over from the answer, verified or denied; a step ends.
LEMMA WorkingLetsGo ==
  ASSUME LifeInv, NEW w \in Workers,
         \/ ReceiveJob(w) \/ Verify(w) \/ FinishStep(w)
         \/ R!Unregistered(w) /\ UNCHANGED <<storeVars, netVars, faultVars>>
  PROVE  ResultsOK' /\ AbstractStep
<1>1. CASE ReceiveJob(w)
  <2>1. /\ UNCHANGED <<pending, submitted, completed, ran, posted>>
        /\ reply[w] \notin {None, NoJob}
        /\ wpc' = [wpc EXCEPT ![w] = R!Verifying]
        /\ held' = [held EXCEPT ![w] = reply[w]]
        /\ reply' = [reply EXCEPT ![w] = None]
        /\ result' = [result EXCEPT ![w] =
             [job |-> R!ClaimedID(reply[w]), enq |-> reply[w].enq, status |-> R!Running,
              steps |-> << >>]]
    BY <1>1 DEF ReceiveJob, storeVars, R!Claimed, R!Goto
  <2>2. /\ result'[w].enq = reply[w].enq /\ held'[w] = reply[w]
        /\ wpc'[w] = R!Verifying /\ reply'[w] = None
        /\ \A v \in Workers \ {w} : /\ wpc'[v] = wpc[v] /\ held'[v] = held[v]
                                   /\ result'[v] = result[v] /\ reply'[v] = reply[v]
    BY <2>1, Functions
  <2>3. ~ Answered(w)' /\ HandedOut(held'[w].enq)
    BY <2>1, <2>2 DEF HandedOut, Answered
  <2> QED
    BY <2>1, <2>2, <2>3, LocalLettingGo
<1>2. CASE Verify(w)
  <2>1. /\ UNCHANGED <<pending, submitted, completed, ran, posted, held, reply>>
        /\ wpc[w] = R!Verifying
        /\ \/ wpc' = [wpc EXCEPT ![w] = R!Executing] /\ result' = result
           \/ /\ \E place \in R!Recording : wpc' = [wpc EXCEPT ![w] = place]
              /\ result' = [result EXCEPT ![w].status = R!Denied]
    BY <1>2, DenyIs DEF Verify, R!Accept, R!Goto, R!localVars, storeVars, netVars
  <2>2. \A v \in Workers \ {w} : /\ wpc'[v] = wpc[v] /\ held'[v] = held[v]
                                 /\ result'[v] = result[v] /\ reply'[v] = reply[v]
    BY <2>1, Functions
  <2>3. result'[w].enq = held'[w].enq
    <3>1. result'[w] = result[w] \/ result'[w] = [result[w] EXCEPT !.status = R!Denied]
      BY <2>1, Functions
    <3>2. result[w] \in R!WorkerResults /\ result[w].enq = held[w].enq
      BY <2>1, AtWork
    <3> QED
      BY <2>1, <3>1, <3>2 DEF R!WorkerResults
  <2>4. ~ Answered(w)' /\ HandedOut(held'[w].enq)
    BY <2>1, AtWork DEF Answered
  <2> QED
    BY <2>1, <2>2, <2>3, <2>4, LocalLettingGo
<1>3. CASE \/ FinishStep(w)
           \/ R!Unregistered(w) /\ UNCHANGED <<storeVars, netVars, faultVars>>
  <2>1. PICK id, status, o :
          R!StepEnds(w, id, status, o) /\ wpc[w] \in {R!Executing, R!InStep}
    BY <1>3 DEF FinishStep, R!FinishStep, R!Unregistered
  <2>2. UNCHANGED <<pending, submitted, completed, posted, reply>>
    BY <1>3 DEF FinishStep, storeVars, netVars
  <2>3. UNCHANGED <<ran, held>> /\ wpc' = [wpc EXCEPT ![w] = R!AfterStep(w, status).place]
    BY <2>1 DEF R!StepEnds, R!Goto
  <2>4. \A v \in Workers \ {w} : /\ wpc'[v] = wpc[v] /\ held'[v] = held[v]
                                 /\ result'[v] = result[v] /\ reply'[v] = reply[v]
    BY <2>1, <2>2, <2>3, Functions DEF R!StepEnds
  <2>5. result'[w].enq = held'[w].enq
    <3> DEFINE more == Append(result[w].steps, [id |-> id, status |-> status,
                                              outputs |-> o])
               next == R!AfterStep(w, status).status
    <3>1. result' = [result EXCEPT ![w].status = next, ![w].steps = more]
      BY <2>1 DEF R!StepEnds
    <3> HIDE DEF more, next
    <3>2. result[w] \in R!WorkerResults /\ result[w].enq = held[w].enq
      BY <2>1, AtWork
    <3>3. result'[w] = [result[w] EXCEPT !.status = next, !.steps = more]
      BY <3>1, <3>2, Functions DEF R!WorkerResults
    <3> QED
      BY <2>3, <3>2, <3>3 DEF R!WorkerResults
  <2>6. ~ Answered(w)' /\ HandedOut(held'[w].enq)
    BY <2>1, <2>2, <2>3, AtWork DEF Answered
  <2> QED
    BY <2>1, <2>2, <2>3, <2>4, <2>5, <2>6, LocalLettingGo
<1> QED
  BY <1>1, <1>2, <1>3

\* A claim without a client, a result that is taken, a restart, a tick.
LEMMA OthersLetGo ==
  ASSUME LifeInv,
         \/ \E w \in Workers : HandleAbandonedClaim(w)
         \/ \E r \in posted : HandleComplete(r)
         \/ ControlPlaneRestart \/ (\E w \in Workers : Tick(w)) \/ UNCHANGED vars
  PROVE  ResultsOK' /\ AbstractStep
<1> USE DEF LifeInv, FlowInv, FlowTypeOK
<1>1. UNCHANGED <<submitted, wpc, held, result, ran, reply>>
  BY DEF HandleAbandonedClaim, HandleComplete, ControlPlaneRestart, Tick, vars, storeVars,
         runnerVars, netVars, S!Claim, S!ClaimNothing, S!storeVars, S!Complete,
         R!SetClock, R!localVars
<1>2. /\ \A w \in Workers : wpc'[w] \in R!Working => result'[w].enq = held'[w].enq
      /\ \A e : HandedOut(e)' => HandedOut(e)
  BY <1>1 DEF ResultsOK, HandedOut
<1>3. CASE \E w \in Workers : HandleAbandonedClaim(w)
  <2>1. PICK w \in Workers : HandleAbandonedClaim(w)
    BY <1>3
  <2>2. UNCHANGED <<completed, posted>>
    BY <2>1 DEF HandleAbandonedClaim, S!Claim, S!ClaimNothing, S!storeVars
  <2>3. \A e : S!IsPending(e)' => S!IsPending(e)
    <3>1. CASE \E i \in DOMAIN pending : S!Claim(Info[w], i)
      BY <1>1, <3>1, ClaimTakesOut
    <3>2. CASE S!ClaimNothing(Info[w])
      BY <3>2 DEF S!ClaimNothing, S!storeVars, S!IsPending
    <3> QED
      BY <2>1, <3>1, <3>2 DEF HandleAbandonedClaim
  <2> QED
    BY <1>1, <1>2, <2>2, <2>3, LettingGo DEF ResultsOK, ResultOut
<1>4. CASE \E r \in posted : HandleComplete(r)
  <2>1. PICK r \in posted : HandleComplete(r)
    BY <1>4
  <2>2. /\ pending' = pending /\ posted' = posted \ {r}
        /\ completed' = Append(completed, r)
    BY <2>1 DEF HandleComplete, S!Complete
  <2>3. r \in R!WorkerResults /\ completed \in Seq(R!WorkerResults)
    BY DEF ResultsOK
  <2>4. /\ completed' \in Seq(R!WorkerResults)
        /\ DOMAIN completed' = 1 .. Len(completed) + 1
        /\ DOMAIN completed = 1 .. Len(completed) /\ Len(completed) \in Nat
        /\ \A n \in 1 .. Len(completed) : completed'[n] = completed[n]
        /\ completed'[Len(completed) + 1] = r
    BY <2>2, <2>3, AppendedTo
  <2>5. \A n \in DOMAIN completed' : completed'[n] = r \/ n \in DOMAIN completed
    BY <2>4
  <2>6. ASSUME NEW e, ResultOut(e)' PROVE ResultOut(e)
    BY <2>2, <2>4, <2>5, <2>6 DEF ResultOut
  <2> QED
    BY <1>1, <1>2, <2>2, <2>4, <2>6, LettingGo DEF ResultsOK, S!IsPending
<1>5. CASE ControlPlaneRestart
  <2>1. pending' = << >> /\ completed' = << >> /\ posted' \subseteq posted
    BY <1>5 DEF ControlPlaneRestart
  <2> QED
    BY <1>1, <1>2, <2>1, LettingGo DEF ResultsOK, ResultOut, S!IsPending
<1>6. CASE (\E w \in Workers : Tick(w)) \/ UNCHANGED vars
  <2>1. UNCHANGED <<pending, completed, posted>>
    BY <1>6 DEF Tick, vars, storeVars, netVars
  <2> QED
    BY <1>1, <1>2, <2>1, LettingGo DEF ResultsOK, ResultOut, S!IsPending
<1> QED
  BY <1>3, <1>4, <1>5, <1>6

-----------------------------------------------------------------------------
(* The four steps of JobLifecycle that do not let go. *)

\* Submit: the new submission is queued, and all before it have been submitted.
LEMMA CreateJobSubmits ==
  ASSUME LifeInv, NEW job \in Jobs, CreateJob(job)
  PROVE  ResultsOK' /\ AbstractStep
<1>1. /\ pending \in Seq(Envelope) /\ submitted \in Seq(Envelope)
      /\ Len(submitted) \in Nat /\ DOMAIN submitted = 1 .. Len(submitted)
      /\ Len(pending) \in Nat /\ DOMAIN pending = 1 .. Len(pending)
  BY DEF LifeInv, FlowInv, FlowTypeOK
<1>n. PICK n \in Nat : n = Len(submitted) + 1
  BY <1>1
<1> DEFINE signed == [job |-> job, key |-> ServerKey, enq |-> n]
<1>2. /\ pending' = Append(pending, signed) /\ submitted' = Append(submitted, signed)
      /\ Len(submitted) < MaxSubmitted
      /\ UNCHANGED <<completed, wpc, held, result, ran, reply, posted>>
  BY <1>n DEF CreateJob, S!Enqueue, runnerVars, netVars
<1>3. signed \in Envelope /\ signed.enq = n
  BY <1>n DEF Envelope, S!Envelopes
<1> HIDE DEF signed
<1>4. /\ DOMAIN pending' = 1 .. Len(pending) + 1
      /\ DOMAIN submitted' = 1 .. n
      /\ \A i \in DOMAIN pending : pending'[i] = pending[i]
      /\ pending'[Len(pending) + 1] = signed
  BY <1>n, <1>1, <1>2, <1>3
<1>5. /\ n \in 1 .. MaxSubmitted /\ n \notin DOMAIN submitted /\ n \in Nat
      /\ DOMAIN submitted' = DOMAIN submitted \cup {n}
      /\ \A f \in 1 .. MaxSubmitted : f < n => f \in DOMAIN submitted
  BY <1>n, <1>1, <1>2, <1>4, DispatchBounds
<1>6. /\ S!IsPending(n)'
      /\ \A f : f # n => (S!IsPending(f)' <=> S!IsPending(f))
  <2>1. \A i \in DOMAIN pending : i \in DOMAIN pending'
    BY <1>1, <1>4
  <2>2. Len(pending) + 1 \in DOMAIN pending'
    BY <1>1, <1>4
  <2>3. \A i \in DOMAIN pending' : i \in DOMAIN pending \/ i = Len(pending) + 1
    BY <1>1, <1>4
  <2> QED
    BY <1>3, <1>4, <2>1, <2>2, <2>3 DEF S!IsPending
<1>7. \A f : (HandedOut(f)' <=> HandedOut(f)) /\ (ResultOut(f)' <=> ResultOut(f))
  BY <1>2 DEF HandedOut, ResultOut
<1>8. ResultsOK'
  <2>1. ASSUME NEW e \in 1 .. MaxSubmitted, ResultOut(e)'
        PROVE  e \in DOMAIN submitted' /\ ~ S!IsPending(e)' /\ ~ HandedOut(e)'
    <3>1. ResultOut(e)
      BY <1>7, <2>1
    <3>2. e \in DOMAIN submitted /\ ~ S!IsPending(e) /\ ~ HandedOut(e)
      BY <3>1 DEF LifeInv, ResultsOK
    <3> QED
      BY <1>5, <1>6, <1>7, <3>2
  <2>2. /\ posted' \subseteq R!WorkerResults /\ completed' \in Seq(R!WorkerResults)
        /\ \A w \in Workers : wpc'[w] \in R!Working => result'[w].enq = held'[w].enq
    BY <1>2, Functions DEF ResultsOK
  <2> QED
    BY <2>1, <2>2 DEF ResultsOK
<1>9. /\ Phase(n) = "absent" /\ Phase(n)' = "queued"
      /\ \A f \in 1 .. MaxSubmitted \ {n} : Phase(f)' = Phase(f)
  BY <1>5, <1>6, <1>7 DEF Phase
<1>10. \A f \in 1 .. MaxSubmitted : f < n => Phase(f) # "absent"
  BY <1>5 DEF Phase
<1>11. L!Move(n, "absent", "queued")
  BY <1>2, <1>5, <1>9, OneMoves
<1>12. L!Submit(n)
  BY <1>10, <1>11 DEF L!Submit, L!Absent, L!Queued
<1> QED
  BY <1>5, <1>8, <1>12 DEF AbstractStep, L!Next

\* HandOut: the submission leaves the queue for an answer.
LEMMA HandleClaimHandsOut ==
  ASSUME LifeInv, NEW w \in Workers, HandleClaim(w)
  PROVE  ResultsOK' /\ AbstractStep
<1>1. PICK i \in DOMAIN pending :
        /\ S!Claim(Info[w], i)
        /\ reply' = [reply EXCEPT ![w] = pending[i]]
  BY DEF HandleClaim
<1>2. /\ w \in request
      /\ UNCHANGED <<wpc, held, result, ran, posted, completed>>
  BY <1>1 DEF HandleClaim, runnerVars, S!Claim
<1>e. PICK e0 \in 1 .. MaxSubmitted : e0 = pending[i].enq /\ e0 \in DOMAIN submitted
  <2>1. pending[i].enq \in DOMAIN submitted
    BY DEF LifeInv, FlowInv, QueueOK, Genuine
  <2>2. submitted \in Seq(Envelope) /\ Len(submitted) <= MaxSubmitted
    BY DEF LifeInv, FlowInv, FlowTypeOK
  <2> QED
    BY <2>1, <2>2, DispatchBounds
<1>3. /\ submitted' = submitted /\ pending[i] \in Envelope
      /\ \A e : S!IsPending(e)' => S!IsPending(e)
      /\ ~ S!IsPending(e0)'
  BY <1>e, <1>1, <1>2, ClaimTakesOut DEF LifeInv
<1>4. \A e : S!IsPending(e) => e = e0 \/ S!IsPending(e)'
  BY <1>e, <1>1, ClaimLeaves DEF LifeInv
<1>5. S!IsPending(e0) /\ e0 \in 1 .. MaxSubmitted /\ e0 \in DOMAIN submitted
  BY <1>e DEF S!IsPending
<1>6. /\ reply[w] = None /\ reply'[w] = pending[i]
      /\ \A v \in Workers \ {w} : reply'[v] = reply[v]
  BY <1>1, <1>2, Functions DEF Requesting
<1>7. pending[i] \notin {None, NoJob}
  BY <1>3, NothingAssumption DEF Envelope
<1>8. /\ HandedOut(e0)'
      /\ \A e : e # e0 => (HandedOut(e)' <=> HandedOut(e))
      /\ \A e : ResultOut(e)' <=> ResultOut(e)
  <2>1. HandedOut(e0)'
    BY <1>e, <1>6, <1>7 DEF HandedOut
  <2>2. ASSUME NEW e, e # e0 PROVE HandedOut(e)' <=> HandedOut(e)
    BY <1>e, <1>2, <1>6, <2>2 DEF HandedOut
  <2> QED
    BY <1>2, <2>1, <2>2 DEF ResultOut
<1>9. ~ HandedOut(e0) /\ ~ ResultOut(e0)
  BY <1>5, HandedIsCarried DEF LifeInv, ResultsOK
<1>10. ResultsOK'
  <2>1. ASSUME NEW e \in 1 .. MaxSubmitted, ResultOut(e)'
        PROVE  e \in DOMAIN submitted' /\ ~ S!IsPending(e)' /\ ~ HandedOut(e)'
    <3>1. ResultOut(e) /\ e # e0
      BY <1>8, <1>9, <2>1
    <3>2. e \in DOMAIN submitted /\ ~ S!IsPending(e) /\ ~ HandedOut(e)
      BY <3>1 DEF LifeInv, ResultsOK
    <3> QED
      BY <1>3, <1>8, <3>1, <3>2
  <2>2. /\ posted' \subseteq R!WorkerResults /\ completed' \in Seq(R!WorkerResults)
        /\ \A v \in Workers : wpc'[v] \in R!Working => result'[v].enq = held'[v].enq
    BY <1>2, Functions DEF ResultsOK
  <2> QED
    BY <2>1, <2>2 DEF ResultsOK
<1>11. /\ Phase(e0) = "queued" /\ Phase(e0)' = "handed"
       /\ \A f \in 1 .. MaxSubmitted \ {e0} : Phase(f)' = Phase(f)
  BY <1>3, <1>4, <1>5, <1>8 DEF Phase
<1>12. L!Move(e0, "queued", "handed")
  BY <1>2, <1>5, <1>11, OneMoves
<1> QED
  BY <1>5, <1>10, <1>12 DEF AbstractStep, L!Next, L!HandOut, L!Queued, L!Handed

\* Finish: the result is posted, and the worker no longer executes the job.
LEMMA SendResultFinishes ==
  ASSUME LifeInv, NEW w \in Workers, SendResult(w)
  PROVE  ResultsOK' /\ AbstractStep
<1>1. /\ UNCHANGED <<pending, submitted, completed, held, result, ran, reply>>
      /\ wpc[w] \in R!Recording /\ wpc' = [wpc EXCEPT ![w] = R!Completing]
      /\ posted' = posted \cup {result[w]}
  BY ReportIs DEF SendResult, R!Goto, storeVars
<1>e. PICK e0 \in 1 .. MaxSubmitted : e0 = held[w].enq
  BY <1>1, WorkerTypes DEF LifeInv
<1>2. /\ HandedOut(e0) /\ reply[w] = None
      /\ result[w] \in R!WorkerResults /\ result[w].enq = e0
      /\ e0 \in 1 .. MaxSubmitted /\ e0 \in DOMAIN submitted
      /\ Carries(w, e0)
  <2>1. e0 \in 1 .. MaxSubmitted /\ e0 \in DOMAIN submitted /\ Carries(w, e0)
    BY <1>e, <1>1 DEF LifeInv, FlowInv, WorkerOK, Genuine, Carries
  <2> QED
    BY <1>e, <1>1, <2>1, AtWork
<1>3. /\ ~ S!IsPending(e0) /\ ~ ResultOut(e0)
      /\ \A v \in Workers : Carries(v, e0) => v = w
  BY <1>2, HandedIsCarried DEF LifeInv, ResultsOK, FlowInv, Exclusive
<1>4. wpc'[w] = R!Completing /\ \A v \in Workers \ {w} : wpc'[v] = wpc[v]
  BY <1>1, Functions
<1>5. \A e : S!IsPending(e)' <=> S!IsPending(e)
  BY <1>1 DEF S!IsPending
<1>6. \A e : e # e0 => (HandedOut(e)' <=> HandedOut(e))
  BY <1>e, <1>1, <1>4 DEF HandedOut
<1>7. ~ HandedOut(e0)'
  <2>1. \A v \in Workers : v # w => ~ Carries(v, e0)
    BY <1>3
  <2> QED
    BY <1>1, <1>2, <1>4, <2>1 DEF HandedOut, Carries, Answered
<1>8. ResultOut(e0)' /\ \A e : e # e0 => (ResultOut(e)' <=> ResultOut(e))
  BY <1>1, <1>2 DEF ResultOut
<1>9. ResultsOK'
  <2>1. ASSUME NEW e \in 1 .. MaxSubmitted, ResultOut(e)'
        PROVE  e \in DOMAIN submitted' /\ ~ S!IsPending(e)' /\ ~ HandedOut(e)'
    <3>1. CASE e = e0
      BY <1>1, <1>2, <1>3, <1>5, <1>7, <3>1
    <3>2. CASE e # e0
      <4>1. ResultOut(e)
        BY <1>8, <2>1, <3>2
      <4> QED
        BY <1>1, <1>5, <1>6, <3>2, <4>1 DEF LifeInv, ResultsOK
    <3> QED
      BY <3>1, <3>2
  <2>2. /\ posted' \subseteq R!WorkerResults /\ completed' \in Seq(R!WorkerResults)
    BY <1>1, <1>2 DEF LifeInv, ResultsOK
  <2>3. \A v \in Workers : wpc'[v] \in R!Working => result'[v].enq = held'[v].enq
    BY <1>e, <1>1, <1>2, <1>4, Functions
  <2> QED
    BY <2>1, <2>2, <2>3 DEF ResultsOK
<1>10. /\ Phase(e0) = "handed" /\ Phase(e0)' = "finished"
       /\ \A f \in 1 .. MaxSubmitted \ {e0} : Phase(f)' = Phase(f)
  BY <1>1, <1>2, <1>3, <1>5, <1>6, <1>7, <1>8 DEF Phase
<1>11. L!Move(e0, "handed", "finished")
  BY <1>1, <1>2, <1>10, OneMoves
<1> QED
  BY <1>2, <1>9, <1>11 DEF AbstractStep, L!Next, L!Finish, L!Handed, L!Finished

\* Start: an executor is called for a step that the plan still has.
LEMMA ExecutorCalledStarts ==
  ASSUME LifeInv, NEW w \in Workers, R!StartStep(w),
         UNCHANGED <<storeVars, netVars, faultVars>>
  PROVE  ResultsOK' /\ AbstractStep
<1>e. PICK e0 \in 1 .. MaxSubmitted : e0 = held[w].enq
  BY WorkerTypes DEF LifeInv, R!StartStep
<1> DEFINE entry == [step |-> R!Current(w).id, by |-> w]
<1>1. /\ UNCHANGED <<pending, submitted, completed, posted, held, result, reply>>
      /\ wpc[w] = R!Executing /\ wpc' = [wpc EXCEPT ![w] = R!InStep]
      /\ ran' = [ran EXCEPT ![e0] = Append(ran[e0], entry)]
  BY <1>e DEF R!StartStep, R!Goto, R!localVars, storeVars, netVars
<1>2. /\ HandedOut(e0) /\ e0 \in 1 .. MaxSubmitted /\ e0 \in DOMAIN submitted
      /\ ~ S!IsPending(e0)
  <2>1. e0 \in 1 .. MaxSubmitted /\ e0 \in DOMAIN submitted
    BY <1>e, <1>1 DEF LifeInv, FlowInv, WorkerOK, Genuine
  <2> QED
    BY <1>e, <1>1, <2>1, AtWork, HandedIsCarried DEF LifeInv
<1>3. Len(ran[e0]) < MaxSteps
  <2>1. /\ LogMatches(w) /\ held[w] \in Envelope
        /\ held[w].job.plan.steps \in Seq([id : STRING, executor : STRING, timeout : Int])
        /\ result[w].steps \in Seq(R!StepResults)
    BY <1>1, WorkerTypes DEF LifeInv
  <2>2. /\ Len(ran[e0]) = Len(result[w].steps)
        /\ Len(result[w].steps) < Len(held[w].job.plan.steps)
    BY <1>e, <1>1, <2>1 DEF LogMatches
  <2>3. Len(held[w].job.plan.steps) <= MaxSteps
    BY <2>1, PlansAssumption DEF Envelope, S!Envelopes
  <2> QED
    BY <2>1, <2>2, <2>3, PlansAssumption, SMTT(30)
<1>4. wpc'[w] = R!InStep /\ \A v \in Workers \ {w} : wpc'[v] = wpc[v]
  BY <1>1, Functions
<1>5. /\ ran \in [1 .. MaxSubmitted -> Seq(LogEntry)] /\ ran[e0] \in Seq(LogEntry)
  BY <1>2 DEF LifeInv, FlowInv, FlowTypeOK
<1>6. Len(Append(ran[e0], entry)) = Len(ran[e0]) + 1
  BY <1>5
<1> HIDE DEF entry
<1>7. \A f \in 1 .. MaxSubmitted :
        Len(ran'[f]) = IF f = e0 THEN Len(ran[f]) + 1 ELSE Len(ran[f])
  BY <1>1, <1>2, <1>5, <1>6
<1>8. \A e : /\ S!IsPending(e)' <=> S!IsPending(e)
             /\ HandedOut(e)' <=> HandedOut(e)
             /\ ResultOut(e)' <=> ResultOut(e)
  BY <1>1, <1>4 DEF S!IsPending, HandedOut, ResultOut
<1>9. ResultsOK'
  <2>1. \A v \in Workers : wpc'[v] \in R!Working => result'[v].enq = held'[v].enq
    BY <1>1, <1>4, Functions
  <2> QED
    BY <1>1, <1>8, <2>1 DEF LifeInv, ResultsOK
<1>10. Phase(e0) = "handed" /\ \A f \in 1 .. MaxSubmitted : Phase(f)' = Phase(f)
  BY <1>1, <1>2, <1>8 DEF Phase
<1>11. L!Start(e0)
  <2>1. [e \in 1 .. MaxSubmitted |-> Len(ran[e])]' =
          [[e \in 1 .. MaxSubmitted |-> Len(ran[e])] EXCEPT
             ![e0] = [e \in 1 .. MaxSubmitted |-> Len(ran[e])][e0] + 1]
    BY <1>2, <1>7
  <2> QED
    BY <1>2, <1>3, <1>10, <2>1 DEF L!Start, L!Handed
<1> QED
  BY <1>2, <1>9, <1>11 DEF AbstractStep, L!Next

-----------------------------------------------------------------------------
\* Every step keeps what is known of results, and is one step of JobLifecycle
\* or none.
LEMMA StepImplements ==
  ASSUME LifeInv, [Next]_vars
  PROVE  ResultsOK' /\ AbstractStep
<1>1. CASE \E j \in Jobs : CreateJob(j)
  BY <1>1, CreateJobSubmits
<1>2. ASSUME NEW w \in Workers, WorkerStep(w) PROVE ResultsOK' /\ AbstractStep
  <2>1. CASE \/ SendClaim(w) \/ ReceiveNoJob(w) \/ ClaimUnanswered(w)
             \/ ReceiveAck(w) \/ CompleteUnanswered(w)
    BY <2>1, ReturningLetsGo
  <2>2. CASE ReceiveJob(w) \/ Verify(w) \/ FinishStep(w)
    BY <2>2, WorkingLetsGo
  <2>3. CASE StartStep(w)
    BY <2>3, ExecutorCalledStarts, WorkingLetsGo DEF StartStep
  <2>4. CASE SendResult(w)
    BY <2>4, SendResultFinishes
  <2> QED
    BY <1>2, <2>1, <2>2, <2>3, <2>4 DEF WorkerStep
<1>3. ASSUME NEW w \in Workers, ServerStep(w) PROVE ResultsOK' /\ AbstractStep
  BY <1>3, HandleClaimHandsOut, OthersLetGo, ReturningLetsGo DEF ServerStep
<1>4. ASSUME NEW w \in Workers, Fault(w) PROVE ResultsOK' /\ AbstractStep
  BY <1>4, ReturningLetsGo DEF Fault
<1>5. CASE \/ \E r \in posted : HandleComplete(r)
           \/ ControlPlaneRestart \/ (\E w \in Workers : Tick(w)) \/ UNCHANGED vars
  BY <1>5, OthersLetGo
<1> QED
  BY <1>1, <1>2, <1>3, <1>4, <1>5 DEF Next

\* The system starts with nothing submitted and nothing executed.
LEMMA InitImplements == Init => ResultsOK /\ L!Init
<1> SUFFICES ASSUME Init PROVE ResultsOK /\ L!Init
  OBVIOUS
<1> USE DEF Init, S!StoreInit, R!RunnerInit
<1>1. ResultsOK
  BY DEF ResultsOK, ResultOut
<1>2. \A e \in 1 .. MaxSubmitted : Phase(e) = "absent" /\ Len(ran[e]) = 0
  BY DEF Phase
<1> QED
  BY <1>1, <1>2 DEF L!Init, L!Absent

(***************************************************************************)
(* A result is under way or in the store only for a submission that has    *)
(* left the queue and that no worker can execute any more: nothing runs of *)
(* a job after its result was sent.                                        *)
(***************************************************************************)
THEOREM ResultsAreFinal == Spec => []LifeInv
<1>1. Init => LifeInv
  BY InitFlowInv, InitImplements DEF LifeInv
<1>2. FlowInv /\ FlowInv' /\ LifeInv /\ [Next]_vars => LifeInv'
  BY StepImplements DEF LifeInv
<1> QED
  BY <1>1, <1>2, FlowCorrect, PTL DEF Spec

(***************************************************************************)
(* The deployed system implements JobLifecycle: whatever is lost, crashes  *)
(* or restarts, a job goes from the queue to one worker and to its result  *)
(* or is gone, and its steps start only while it is handed out.            *)
(***************************************************************************)
THEOREM LifecycleImplemented == Spec => ImplementsLifecycle
<1>1. Init => L!Init
  BY InitImplements
<1>2. LifeInv /\ [Next]_vars => [L!Next]_L!vars
  BY StepImplements DEF AbstractStep
<1> QED
  BY <1>1, <1>2, ResultsAreFinal, PTL DEF Spec, ImplementsLifecycle, L!Spec

-----------------------------------------------------------------------------
(***************************************************************************)
(* What the results say: that the control plane is told what was executed, *)
(* that a denial means expiry and expiry a denial.  Each property has an   *)
(* invariant that follows one job from its claim, or its result to the     *)
(* store, on top of LifeInv; the lemmas that come first say how one step   *)
(* changes what those invariants speak of.                                 *)
(***************************************************************************)

\* The results the store has taken or will take.
Reported == posted \cup {completed[n] : n \in DOMAIN completed}

\* Nothing of worker w's RunOnce changes.
Stays(w) == wpc'[w] = wpc[w] /\ held'[w] = held[w] /\ result'[w] = result[w]

-----------------------------------------------------------------------------
(* One step. *)

\* Submissions are never changed.
LEMMA SubmittedKept ==
  ASSUME LifeInv, [Next]_vars, NEW e \in DOMAIN submitted
  PROVE  e \in DOMAIN submitted' /\ submitted'[e] = submitted[e]
<1>1. submitted \in Seq(Envelope)
  BY DEF LifeInv, FlowInv, FlowTypeOK
<1>2. ASSUME NEW job \in Jobs, CreateJob(job)
      PROVE  e \in DOMAIN submitted' /\ submitted'[e] = submitted[e]
  <2>1. PICK n, signed : n = Len(submitted) + 1 /\ signed = [job |-> job, key |-> ServerKey, enq |-> n]
    OBVIOUS
  <2>2. submitted' = Append(submitted, signed)
    BY <1>2, <2>1 DEF CreateJob, S!Enqueue
  <2> QED
    BY <1>1, <2>2
<1>3. CASE submitted' = submitted
  BY <1>3
<1> QED
  BY <1>2, <1>3
  DEF Next, WorkerStep, ServerStep, Fault, SendClaim, HandleClaim, HandleClaimNoJob,
      HandleAbandonedClaim, ReceiveJob, ReceiveNoJob, BreakClaim, ClaimUnanswered, Verify,
      StartStep, FinishStep, SendResult, HandleComplete, ReceiveAck, BreakComplete,
      CompleteUnanswered, WorkerCrash, ControlPlaneRestart, Tick, vars, storeVars,
      S!Claim, S!ClaimNothing, S!storeVars, S!Complete

\* A result is new to the control plane only when a worker sends it.
LEMMA ReportedFrom ==
  ASSUME LifeInv, [Next]_vars, NEW r \in Reported', r \notin Reported
  PROVE  \E w \in Workers : SendResult(w) /\ r = result[w]
<1>1. completed \in Seq(R!WorkerResults) /\ posted \subseteq R!WorkerResults
  BY DEF LifeInv, ResultsOK
<1>2. ASSUME NEW s \in posted, HandleComplete(s) PROVE FALSE
  <2>1. completed' = Append(completed, s) /\ posted' \subseteq posted
    BY <1>2 DEF HandleComplete, S!Complete
  <2>2. \A n \in DOMAIN completed' :
          completed'[n] = s \/ (n \in DOMAIN completed /\ completed'[n] = completed[n])
    <3>1. s \in R!WorkerResults
      BY <1>1
    <3>2. PICK X : X = R!WorkerResults
      OBVIOUS
    <3> QED
      BY <1>1, <2>1, <3>1, <3>2, AppendedTo
  <2> QED
    BY <2>1, <2>2 DEF Reported
<1>3. ASSUME NEW w \in Workers, SendResult(w) PROVE r = result[w]
  BY <1>3 DEF SendResult, storeVars, Reported
<1>4. CASE posted' \subseteq posted /\ (completed' = completed \/ completed' = << >>)
  BY <1>4 DEF Reported
<1> QED
  BY <1>2, <1>3, <1>4
  DEF Next, WorkerStep, ServerStep, Fault, CreateJob, SendClaim, HandleClaim, HandleClaimNoJob,
      HandleAbandonedClaim, ReceiveJob, ReceiveNoJob, BreakClaim, ClaimUnanswered, Verify,
      StartStep, FinishStep, ReceiveAck, BreakComplete,
      CompleteUnanswered, WorkerCrash, ControlPlaneRestart, Tick, vars, storeVars, netVars,
      S!Enqueue, S!Claim, S!ClaimNothing, S!storeVars

\* A log grows only when its submission's worker calls an executor.
LEMMA RanFrom ==
  ASSUME LifeInv, [Next]_vars, NEW e \in 1 .. MaxSubmitted, ran'[e] # ran[e]
  PROVE  \E w \in Workers : R!StartStep(w) /\ StartStep(w) /\ e = held[w].enq
<1>1. ASSUME NEW w \in Workers, StartStep(w)
      PROVE  R!StartStep(w) /\ e = held[w].enq
  <2>1. CASE R!Unregistered(w)
    BY <2>1 DEF R!Unregistered, R!StepEnds
  <2>2. CASE R!StartStep(w)
    <3>1. ran \in [1 .. MaxSubmitted -> Seq(LogEntry)]
      BY DEF LifeInv, FlowInv, FlowTypeOK
    <3> QED
      BY <2>2, <3>1 DEF R!StartStep
  <2> QED
    BY <1>1, <2>1, <2>2 DEF StartStep
<1>2. CASE ran' = ran
  BY <1>2
<1> QED
  BY <1>1, <1>2, ReportIs, DenyIs, ZenonT(40)
  DEF Next, WorkerStep, ServerStep, Fault, CreateJob, SendClaim, HandleClaim, HandleClaimNoJob,
      HandleAbandonedClaim, ReceiveJob, ReceiveNoJob, BreakClaim, ClaimUnanswered, Verify,
      FinishStep, SendResult, HandleComplete, ReceiveAck, BreakComplete,
      CompleteUnanswered, WorkerCrash, ControlPlaneRestart, Tick, vars, runnerVars,
      R!Poll, R!Claimed, R!ClaimFailed, R!Accept, R!FinishStep, R!StepEnds,
      R!CompleteReturns, R!Crash, R!SetClock

\* What an action of one worker leaves to the others.
LEMMA OthersStay ==
  ASSUME LifeInv, NEW v \in Workers, WorkerStep(v) \/ ServerStep(v) \/ Fault(v),
         NEW w \in Workers \ {v}
  PROVE  Stays(w) /\ reply'[w] = reply[w]
<1>1. ASSUME NEW x, wpc' = [wpc EXCEPT ![v] = x] \/ wpc' = wpc PROVE wpc'[w] = wpc[w]
  BY <1>1, Functions
<1>2. ASSUME NEW x, held' = [held EXCEPT ![v] = x] \/ held' = held PROVE held'[w] = held[w]
  BY <1>2, Functions
<1>3. ASSUME NEW x, reply' = [reply EXCEPT ![v] = x] \/ reply' = reply PROVE reply'[w] = reply[w]
  BY <1>3, Functions
<1>4. ASSUME NEW x, result' = [result EXCEPT ![v] = x] \/ result' = result PROVE result'[w] = result[w]
  BY <1>4, Functions
<1>5. wpc'[w] = wpc[w]
  <2>1. CASE SendResult(v)
    BY <2>1, ReportIs, Functions DEF SendResult, R!Goto
  <2>2. ASSUME R!DenyUnverified(v) \/ R!DenyUnmatched(v) PROVE wpc'[w] = wpc[w]
    BY <2>2, DenyIs, Functions DEF R!Goto
  <2>3. CASE Verify(v)
    BY <1>1, <2>2, <2>3 DEF Verify, R!Accept, R!Goto
  <2> QED
    BY <1>1, <2>1, <2>3
    DEF WorkerStep, ServerStep, Fault, SendClaim, HandleClaim, HandleClaimNoJob,
        HandleAbandonedClaim, ReceiveJob, ReceiveNoJob, BreakClaim, ClaimUnanswered,
        StartStep, FinishStep, ReceiveAck, BreakComplete,
        CompleteUnanswered, WorkerCrash, runnerVars,
        R!Poll, R!Claimed, R!ClaimFailed, R!StartStep, R!Unregistered,
        R!FinishStep, R!StepEnds, R!CompleteReturns, R!Return, R!Crash, R!Goto
<1>6. held'[w] = held[w]
  BY <1>2, ReportIs, DenyIs
  DEF WorkerStep, ServerStep, Fault, SendClaim, HandleClaim, HandleClaimNoJob,
      HandleAbandonedClaim, ReceiveJob, ReceiveNoJob, BreakClaim, ClaimUnanswered, Verify,
      StartStep, FinishStep, SendResult, ReceiveAck, BreakComplete,
      CompleteUnanswered, WorkerCrash, runnerVars,
      R!Poll, R!Claimed, R!ClaimFailed, R!Accept, R!StartStep, R!Unregistered,
      R!FinishStep, R!StepEnds, R!CompleteReturns, R!Return, R!Crash, R!localVars
<1>7. reply'[w] = reply[w]
  BY <1>3
  DEF WorkerStep, ServerStep, Fault, SendClaim, HandleClaim, HandleClaimNoJob,
      HandleAbandonedClaim, ReceiveJob, ReceiveNoJob, BreakClaim, ClaimUnanswered, Verify,
      StartStep, FinishStep, SendResult, ReceiveAck, BreakComplete,
      CompleteUnanswered, WorkerCrash, netVars
<1>8. result'[w] = result[w]
  <2>1. ASSUME NEW id, NEW status, NEW o, R!StepEnds(v, id, status, o)
        PROVE  result'[w] = result[w]
    BY <2>1, Functions DEF R!StepEnds
  <2>2. ASSUME R!DenyUnverified(v) \/ R!DenyUnmatched(v) PROVE result'[w] = result[w]
    BY <2>2, DenyIs, Functions
  <2>3. CASE Verify(v) \/ StartStep(v) \/ FinishStep(v)
    BY <2>1, <2>2, <2>3
    DEF Verify, StartStep, FinishStep, R!Accept, R!StartStep, R!Unregistered, R!FinishStep,
        R!localVars
  <2> QED
    BY <1>4, <2>3, ReportIs
    DEF WorkerStep, ServerStep, Fault, SendClaim, HandleClaim, HandleClaimNoJob,
        HandleAbandonedClaim, ReceiveJob, ReceiveNoJob, BreakClaim, ClaimUnanswered,
        SendResult, ReceiveAck, BreakComplete,
        CompleteUnanswered, WorkerCrash, runnerVars,
        R!Poll, R!Claimed, R!ClaimFailed, R!CompleteReturns, R!Return, R!Crash,
        R!localVars
<1> QED
  BY <1>5, <1>6, <1>7, <1>8 DEF Stays

\* A worker's RunOnce stays as it is, returns, or makes one of its five moves.
LEMMA WorkerMoves ==
  ASSUME LifeInv, [Next]_vars, NEW w \in Workers
  PROVE  \/ Stays(w) \/ wpc'[w] \in {R!Idle, R!Claiming}
         \/ ReceiveJob(w) \/ Verify(w) \/ StartStep(w) \/ FinishStep(w) \/ SendResult(w)
<1>1. CASE UNCHANGED <<wpc, held, result>>
  BY <1>1 DEF Stays
<1>2. ASSUME NEW v \in Workers \ {w}, WorkerStep(v) \/ ServerStep(v) \/ Fault(v)
      PROVE  Stays(w)
  BY <1>2, OthersStay
<1>3. ASSUME NEW x \in {R!Idle, R!Claiming}, wpc' = [wpc EXCEPT ![w] = x]
      PROVE  wpc'[w] \in {R!Idle, R!Claiming}
  BY <1>3, Functions
<1>4. CASE WorkerStep(w) \/ Fault(w)
  BY <1>3, <1>4
  DEF WorkerStep, Fault, SendClaim, ReceiveNoJob, BreakClaim, ClaimUnanswered,
      ReceiveAck, BreakComplete, CompleteUnanswered, WorkerCrash,
      R!Poll, R!ClaimFailed, R!CompleteReturns, R!Return, R!Crash, R!Goto
<1> QED
  BY <1>1, <1>2, <1>4
  DEF Next, ServerStep, CreateJob, HandleClaim, HandleClaimNoJob, HandleAbandonedClaim,
      HandleComplete, ControlPlaneRestart, Tick, vars, runnerVars, R!SetClock, R!localVars

\* An answer stays as it is or is taken away, unless a claim is handled.
LEMMA AnswerFrom ==
  ASSUME LifeInv, [Next]_vars, NEW w \in Workers, Answered(w)', reply'[w] # reply[w]
  PROVE  HandleClaim(w)
<1>1. CASE reply' = reply
  BY <1>1
<1>2. ASSUME NEW v \in Workers \ {w}, WorkerStep(v) \/ ServerStep(v) \/ Fault(v)
      PROVE  FALSE
  BY <1>2, OthersStay
<1>3. ASSUME NEW x \in {None, NoJob}, reply' = [reply EXCEPT ![w] = x]
      PROVE  FALSE
  BY <1>3, Functions DEF Answered
<1>4. CASE WorkerStep(w) \/ ServerStep(w) \/ Fault(w)
  BY <1>1, <1>3, <1>4
  DEF WorkerStep, ServerStep, Fault, SendClaim, HandleClaimNoJob,
      HandleAbandonedClaim, ReceiveJob, ReceiveNoJob, BreakClaim, ClaimUnanswered, Verify,
      StartStep, FinishStep, SendResult, ReceiveAck, BreakComplete,
      CompleteUnanswered, WorkerCrash, netVars
<1> QED
  BY <1>1, <1>2, <1>4
  DEF Next, CreateJob, HandleComplete, ControlPlaneRestart, Tick, vars, netVars

\* What is new among the submissions was signed, so it is valid.
LEMMA NewIsSignable ==
  ASSUME LifeInv, [Next]_vars, NEW e \in DOMAIN submitted', e \notin DOMAIN submitted
  PROVE  \E job \in Jobs : CreateJob(job) /\ submitted'[e].job = job /\ Signable(job)
<1>1. submitted \in Seq(Envelope)
  BY DEF LifeInv, FlowInv, FlowTypeOK
<1>2. ASSUME NEW job \in Jobs, CreateJob(job) PROVE submitted'[e].job = job /\ Signable(job)
  <2>1. PICK signed : signed = [job |-> job, key |-> ServerKey, enq |-> Len(submitted) + 1]
    OBVIOUS
  <2>2. submitted' = Append(submitted, signed)
    BY <1>2, <2>1 DEF CreateJob, S!Enqueue
  <2>3. submitted'[e] = signed
    BY <1>1, <2>2
  <2> QED
    BY <1>2, <2>1, <2>3 DEF CreateJob
<1>3. CASE submitted' = submitted
  BY <1>3
<1> QED
  BY <1>2, <1>3
  DEF Next, WorkerStep, ServerStep, Fault, SendClaim, HandleClaim, HandleClaimNoJob,
      HandleAbandonedClaim, ReceiveJob, ReceiveNoJob, BreakClaim, ClaimUnanswered, Verify,
      StartStep, FinishStep, SendResult, HandleComplete, ReceiveAck, BreakComplete,
      CompleteUnanswered, WorkerCrash, ControlPlaneRestart, Tick, vars, storeVars,
      S!Claim, S!ClaimNothing, S!storeVars, S!Complete

\* Only valid jobs are ever in the system: Sign refuses the others.
SubmissionsValid == \A e \in DOMAIN submitted : ValidJob(Job(e))

LEMMA StepKeepsValid ==
  ASSUME LifeInv, SubmissionsValid, [Next]_vars
  PROVE  SubmissionsValid'
<1> SUFFICES ASSUME NEW e \in DOMAIN submitted' PROVE ValidJob(submitted'[e].job)
  BY DEF SubmissionsValid, Job
<1>1. CASE e \in DOMAIN submitted
  BY <1>1, SubmittedKept DEF SubmissionsValid, Job
<1>2. CASE e \notin DOMAIN submitted
  BY <1>2, NewIsSignable DEF Signable
<1> QED
  BY <1>1, <1>2

LEMMA ValidSubmissions == Spec => []SubmissionsValid
<1>1. Init => SubmissionsValid
  BY DEF Init, S!StoreInit, SubmissionsValid
<1> QED
  BY <1>1, StepKeepsValid, ResultsAreFinal, PTL DEF Spec

-----------------------------------------------------------------------------
(* What is reported is what ran. *)

\* While the plan is executed: the steps so far are the plan's first ones, and an
\* executor was called for each, for the loop ends at one without an executor.  It
\* may have put an ID of its own in the result.
InProgress(w) ==
  LET plan == held[w].job.plan.steps
      steps == result[w].steps
  IN  /\ \A i \in 1 .. Len(steps) :
           /\ steps[i].id = plan[i].id \/ steps[i].id \in ExecStepIDs
           /\ plan[i].executor \in Registered
      /\ wpc[w] = R!InStep => plan[Len(steps) + 1].executor \in Registered

\* A final result: its steps are the plan's first ones; an executor was called for
\* all of them but the last, which may have had none; and it is a success when the
\* last step of the plan was executed and was one.
SaysTruly(r, plan, log) ==
  /\ Len(r.steps) <= Len(plan) /\ Len(log) <= Len(r.steps)
  /\ \A i \in 1 .. Len(r.steps) :
       /\ r.steps[i].id = plan[i].id \/ (i <= Len(log) /\ r.steps[i].id \in ExecStepIDs)
       /\ plan[i].executor \in Registered <=> i <= Len(log)
  /\ r.status = Succeeded <=>
       /\ Len(r.steps) = Len(plan) /\ Len(log) = Len(plan)
       /\ r.steps[Len(plan)].status = Succeeded

Truthful(r) ==
  r.enq \in DOMAIN submitted /\ SaysTruly(r, submitted[r.enq].job.plan.steps, ran[r.enq])

ReportsOK ==
  /\ \A w \in Workers : wpc[w] \in {R!Verifying, R!Executing, R!InStep} => InProgress(w)
  /\ \A w \in Workers : wpc[w] \in R!Recording => Truthful(result[w])
  /\ \A r \in Reported : Truthful(r)

\* A worker's job is one that was submitted, and its log is the worker's own.
LEMMA JobOfWorker ==
  ASSUME LifeInv, NEW w \in Workers, wpc[w] \in R!Working
  PROVE  /\ held[w].enq \in DOMAIN submitted /\ held[w].enq \in 1 .. MaxSubmitted
         /\ submitted[held[w].enq] = held[w] /\ held[w] \in Envelope
         /\ result[w] \in R!WorkerResults /\ result[w].enq = held[w].enq
         /\ held[w].job.plan.steps \in Seq([id : STRING, executor : STRING, timeout : Int])
         /\ result[w].steps \in Seq(R!StepResults)
         /\ LogMatches(w) /\ ran[held[w].enq] \in Seq(LogEntry)
<1>1. /\ held[w].enq \in DOMAIN submitted /\ submitted[held[w].enq] = held[w]
      /\ LogMatches(w)
  BY DEF LifeInv, FlowInv, WorkerOK, Genuine
<1>2. /\ held[w].enq \in 1 .. MaxSubmitted /\ held[w] \in Envelope
      /\ held[w].job.plan.steps \in Seq([id : STRING, executor : STRING, timeout : Int])
      /\ result[w].steps \in Seq(R!StepResults)
  BY WorkerTypes DEF LifeInv
<1>3. ran[held[w].enq] \in Seq(LogEntry)
  BY <1>2 DEF LifeInv, FlowInv, FlowTypeOK
<1> QED
  BY <1>1, <1>2, <1>3, Functions

\* The log of a job that has a result, or is with a worker that does not call an
\* executor now, does not grow.
LEMMA LogStays ==
  ASSUME LifeInv, [Next]_vars, NEW w \in Workers, wpc[w] \in R!Working,
         wpc[w] = R!Executing => wpc'[w] # R!InStep
  PROVE  ran'[held[w].enq] = ran[held[w].enq]
<1>1. PICK e \in 1 .. MaxSubmitted : e = held[w].enq
  BY JobOfWorker
<1>2. ASSUME NEW v \in Workers, R!StartStep(v), e = held[v].enq PROVE FALSE
  <2>1. Carries(v, e) /\ Carries(w, e)
    BY <1>1, <1>2 DEF R!StartStep, Carries
  <2>2. v = w
    BY <2>1 DEF LifeInv, FlowInv, Exclusive
  <2>3. wpc[v] = R!Executing /\ wpc'[v] = R!InStep
    BY <1>2, Functions DEF R!StartStep, R!Goto
  <2> QED
    BY <2>2, <2>3
<1> QED
  BY <1>1, <1>2, RanFrom

LEMMA ReportedLogStays ==
  ASSUME LifeInv, [Next]_vars, NEW r \in Reported
  PROVE  r.enq \in 1 .. MaxSubmitted /\ ran'[r.enq] = ran[r.enq]
<1>1. r \in R!WorkerResults
  BY DEF LifeInv, ResultsOK, Reported
<1>2. PICK e \in 1 .. MaxSubmitted : e = r.enq
  BY <1>1 DEF R!WorkerResults
<1>3. ResultOut(e)
  BY <1>2 DEF ResultOut, Reported
<1>4. ~ HandedOut(e)
  BY <1>3 DEF LifeInv, ResultsOK
<1>5. ASSUME NEW v \in Workers, R!StartStep(v), e = held[v].enq PROVE FALSE
  BY <1>4, <1>5 DEF R!StartStep, HandedOut
<1> QED
  BY <1>2, <1>5, RanFrom

LEMMA TruthfulStays ==
  ASSUME LifeInv, [Next]_vars, NEW r, Truthful(r), ran'[r.enq] = ran[r.enq]
  PROVE  Truthful(r)'
BY SubmittedKept, SMTT(30) DEF Truthful

\* A step ends: what becomes of the report.
LEMMA StepEndsIs ==
  ASSUME LifeInv, NEW w \in Workers, wpc[w] \in {R!Executing, R!InStep},
         NEW id, NEW status, NEW o, R!StepEnds(w, id, status, o), NEW n, n = Len(result[w].steps),
         NEW plan, plan = held[w].job.plan.steps
  PROVE  /\ n \in Nat /\ Len(plan) \in Nat /\ n < Len(plan)
         /\ Len(result'[w].steps) = n + 1
         /\ \A i \in 1 .. n : result'[w].steps[i] = result[w].steps[i]
         /\ result'[w].steps[n + 1] = [id |-> id, status |-> status, outputs |-> o]
         /\ result'[w].job = result[w].job /\ result'[w].enq = result[w].enq
         /\ result'[w].status = R!AfterStep(w, status).status
         /\ wpc'[w] = R!AfterStep(w, status).place
         /\ held'[w] = held[w]
<1> DEFINE step == [id |-> id, status |-> status, outputs |-> o]
           next == R!AfterStep(w, status)
<1>1. /\ result[w] \in R!WorkerResults /\ result[w].steps \in Seq(R!StepResults)
      /\ plan \in Seq([id : STRING, executor : STRING, timeout : Int]) /\ LogMatches(w)
  BY JobOfWorker
<1>2. n \in Nat /\ Len(plan) \in Nat /\ n < Len(plan)
  <2>1. Len(result[w].steps) < Len(held[w].job.plan.steps)
    BY <1>1 DEF LogMatches
  <2>2. Len(result[w].steps) \in Nat
    BY <1>1
  <2>3. Len(plan) \in Nat
    BY <1>1, SMTT(30)
  <2> QED
    BY <2>1, <2>2, <2>3
<1>3. step = [id |-> id, status |-> status, outputs |-> o]
  OBVIOUS
<1>4. result' = [result EXCEPT ![w].status = next.status, ![w].steps = Append(@, step)]
  BY DEF R!StepEnds
<1>5. wpc'[w] = next.place /\ held'[w] = held[w]
  BY Functions DEF R!StepEnds, R!Goto
<1> HIDE DEF step, next
<1>6. result'[w] = [result[w] EXCEPT !.status = next.status,
                                     !.steps = Append(result[w].steps, step)]
  BY <1>1, <1>4, Functions DEF R!WorkerResults
<1>7. /\ result'[w].steps = Append(result[w].steps, step) /\ result'[w].status = next.status
      /\ result'[w].job = result[w].job /\ result'[w].enq = result[w].enq
  BY <1>1, <1>6 DEF R!WorkerResults
<1>8. PICK X : X = R!StepResults \cup {step}
  OBVIOUS
<1>9. result[w].steps \in Seq(X) /\ step \in X
  BY <1>1, <1>8
<1>10. /\ Len(Append(result[w].steps, step)) = n + 1
       /\ \A i \in 1 .. n : Append(result[w].steps, step)[i] = result[w].steps[i]
       /\ Append(result[w].steps, step)[n + 1] = step
  BY <1>9, AppendedTo
<1> QED
  BY <1>2, <1>3, <1>5, <1>7, <1>10 DEF next

LEMMA StepEndsKeeps ==
  ASSUME LifeInv, NEW w \in Workers, wpc[w] \in {R!Executing, R!InStep},
         NEW id, NEW status, NEW o, R!StepEnds(w, id, status, o)
  PROVE  /\ result'[w].job = result[w].job /\ result'[w].enq = result[w].enq
         /\ result'[w].status = R!AfterStep(w, status).status
<1>1. result[w] \in R!WorkerResults
  BY JobOfWorker
<1>2. PICK more, next : /\ result' = [result EXCEPT ![w].status = next, ![w].steps = more]
                        /\ next = R!AfterStep(w, status).status
  BY DEF R!StepEnds
<1>3. result'[w] = [result[w] EXCEPT !.status = next, !.steps = more]
  BY <1>1, <1>2, Functions DEF R!WorkerResults
<1> QED
  BY <1>1, <1>2, <1>3 DEF R!WorkerResults

\* A step of the plan has ended, or has no executor and so has failed.
LEMMA StepEndsBy ==
  ASSUME NEW w \in Workers, FinishStep(w) \/ R!Unregistered(w)
  PROVE  \E id, status, o :
           /\ R!StepEnds(w, id, status, o)
           /\ \/ /\ wpc[w] = R!Executing /\ status = Failed /\ id = R!Current(w).id
                 /\ R!Current(w).executor \notin Registered
              \/ wpc[w] = R!InStep /\ id \in {R!Current(w).id} \cup ExecStepIDs
BY DEF FinishStep, R!FinishStep, R!Unregistered, R!ReportedID, R!Failed, Failed

LEMMA StepEndsTruly ==
  ASSUME LifeInv, ReportsOK, [Next]_vars, NEW w \in Workers, FinishStep(w) \/ R!Unregistered(w)
  PROVE  /\ wpc'[w] \in {R!Verifying, R!Executing, R!InStep} => InProgress(w)'
         /\ wpc'[w] \in R!Recording => Truthful(result[w])'
<1>1. PICK id, status, o :
        /\ R!StepEnds(w, id, status, o)
        /\ \/ /\ wpc[w] = R!Executing /\ status = Failed /\ id = R!Current(w).id
              /\ R!Current(w).executor \notin Registered
           \/ wpc[w] = R!InStep /\ id \in {R!Current(w).id} \cup ExecStepIDs
  BY StepEndsBy
<1>2. PICK n, plan : n = Len(result[w].steps) /\ plan = held[w].job.plan.steps
  OBVIOUS
<1>3. /\ n \in Nat /\ Len(plan) \in Nat /\ n < Len(plan)
      /\ Len(result'[w].steps) = n + 1
      /\ \A i \in 1 .. n : result'[w].steps[i] = result[w].steps[i]
      /\ result'[w].steps[n + 1] = [id |-> id, status |-> status, outputs |-> o]
      /\ result'[w].enq = result[w].enq
      /\ result'[w].status = R!AfterStep(w, status).status
      /\ wpc'[w] = R!AfterStep(w, status).place
      /\ held'[w] = held[w]
  BY <1>1, <1>2, StepEndsIs, SMTT(30)
<1>4. \/ /\ wpc'[w] = R!Executed /\ result'[w].status = status
         /\ status # Succeeded \/ n + 1 = Len(plan)
      \/ wpc'[w] = R!Executing /\ status = Succeeded /\ n + 1 # Len(plan)
  BY <1>2, <1>3, SMTT(30) DEF R!AfterStep, R!Succeeded, Succeeded
<1>5. /\ \A i \in 1 .. n :
           /\ result[w].steps[i].id = plan[i].id \/ result[w].steps[i].id \in ExecStepIDs
           /\ plan[i].executor \in Registered
      /\ wpc[w] = R!InStep =>
           plan[n + 1].executor \in Registered /\ id \in {plan[n + 1].id} \cup ExecStepIDs
      /\ wpc[w] = R!Executing => plan[n + 1].executor \notin Registered /\ id = plan[n + 1].id
  BY <1>1, <1>2 DEF ReportsOK, InProgress, R!Current, Failed, Succeeded
<1>6. \A i \in 1 .. n + 1 : i \in 1 .. n \/ i = n + 1
  BY <1>3
<1>7. /\ \A i \in 1 .. n : \/ result'[w].steps[i].id = plan[i].id
                           \/ result'[w].steps[i].id \in ExecStepIDs
      /\ result'[w].steps[n + 1].id = id
  BY <1>3, <1>5, SMTT(30)
<1>8. CASE wpc'[w] = R!Executing
  <2>1. wpc[w] = R!InStep
    BY <1>1, <1>4, <1>8 DEF Failed, Succeeded
  <2>2. \A i \in 1 .. n + 1 :
          /\ result'[w].steps[i].id = plan[i].id \/ result'[w].steps[i].id \in ExecStepIDs
          /\ plan[i].executor \in Registered
    BY <1>5, <1>6, <1>7, <2>1
  <2> QED
    BY <1>2, <1>3, <1>8, <2>2 DEF InProgress
<1>9. CASE wpc'[w] = R!Executed
  <2>1. PICK e, log : e = held[w].enq /\ log = ran[e]
    OBVIOUS
  <2>2. /\ e \in DOMAIN submitted /\ submitted[e] = held[w] /\ result[w].enq = e
        /\ log \in Seq(LogEntry)
        /\ Len(log) = IF wpc[w] = R!InStep THEN n + 1 ELSE n
    BY <1>1, <1>2, <2>1, JobOfWorker DEF LogMatches
  <2>3. ran'[e] = log
    BY <1>1, <1>9, <2>1, LogStays
  <2>4. e \in DOMAIN submitted' /\ submitted'[e].job.plan.steps = plan
    BY <1>2, <2>1, <2>2, SubmittedKept
  <2>5. \A i \in 1 .. n + 1 :
          /\ \/ result'[w].steps[i].id = plan[i].id
             \/ i <= Len(log) /\ result'[w].steps[i].id \in ExecStepIDs
          /\ plan[i].executor \in Registered <=> i <= Len(log)
    <3>1. CASE wpc[w] = R!InStep
      BY <1>3, <1>5, <1>6, <1>7, <2>2, <3>1
    <3>2. CASE wpc[w] = R!Executing
      BY <1>3, <1>5, <1>6, <1>7, <2>2, <3>2
    <3> QED
      BY <1>1, <3>1, <3>2
  <2>6. result'[w].status = Succeeded <=>
          /\ Len(result'[w].steps) = Len(plan) /\ Len(log) = Len(plan)
          /\ result'[w].steps[Len(plan)].status = Succeeded
    BY <1>1, <1>3, <1>4, <1>9, <2>2 DEF Succeeded, Failed
  <2>7. SaysTruly(result'[w], plan, log)
    BY <1>3, <2>2, <2>5, <2>6 DEF SaysTruly
  <2>8. result'[w].enq = e
    BY <1>3, <2>2
  <2> QED
    BY <1>9, <2>3, <2>4, <2>7, <2>8 DEF Truthful
<1> QED
  BY <1>4, <1>8, <1>9

\* The other moves of a worker.
LEMMA MovesTruly ==
  ASSUME LifeInv, SubmissionsValid, ReportsOK, [Next]_vars, NEW w \in Workers,
         ReceiveJob(w) \/ Verify(w) \/ R!StartStep(w) \/ SendResult(w)
  PROVE  /\ wpc'[w] \in {R!Verifying, R!Executing, R!InStep} => InProgress(w)'
         /\ wpc'[w] \in R!Recording => Truthful(result[w])'
<1>1. CASE ReceiveJob(w)
  <2>1. wpc'[w] = R!Verifying
    BY <1>1, Functions DEF ReceiveJob, R!Claimed, R!Goto
  <2>2. PICK signed : R!Claimed(w, signed)
    BY <1>1 DEF ReceiveJob
  <2>3. result'[w] = [job |-> R!ClaimedID(signed), enq |-> signed.enq, status |-> R!Running,
                      steps |-> << >>]
    BY <2>2, Functions DEF R!Claimed
  <2>4. 1 .. Len(result'[w].steps) = {}
    BY <2>3, SMTT(30)
  <2> QED
    BY <2>1, <2>4 DEF InProgress
<1>2. CASE R!Accept(w)
  BY <1>2, Functions, SMTT(30) DEF R!Accept, R!Goto, R!localVars, ReportsOK, InProgress
<1>3. CASE R!StartStep(w)
  <2>1. /\ wpc[w] = R!Executing /\ wpc'[w] = R!InStep /\ held' = held /\ result' = result
        /\ R!Current(w).executor \in Registered
    BY <1>3, Functions DEF R!StartStep, R!Goto, R!localVars
  <2> QED
    BY <2>1 DEF ReportsOK, InProgress, R!Current
<1>4. CASE SendResult(w)
  BY <1>4, ReportIs, Functions DEF SendResult, R!Goto
<1>5. CASE R!DenyUnverified(w) \/ R!DenyUnmatched(w)
  <2>1. /\ wpc[w] = R!Verifying /\ wpc'[w] \in R!Recording
        /\ result' = [result EXCEPT ![w].status = R!Denied]
    BY <1>5, DenyIs, Functions DEF R!Goto
  <2>2. PICK e, plan, log : e = held[w].enq /\ plan = held[w].job.plan.steps /\ log = ran[e]
    OBVIOUS
  <2>3. /\ result[w] \in R!WorkerResults /\ result[w].enq = e
        /\ e \in DOMAIN submitted /\ submitted[e] = held[w]
        /\ result[w].steps \in Seq(R!StepResults) /\ Len(result[w].steps) = 0
        /\ Len(log) = 0 /\ plan \in Seq([id : STRING, executor : STRING, timeout : Int])
    BY <2>1, <2>2, JobOfWorker DEF LogMatches
  <2>4. result'[w] = [result[w] EXCEPT !.status = R!Denied]
    BY <2>1, <2>3, Functions DEF R!WorkerResults
  <2>5. result'[w].steps = result[w].steps /\ result'[w].enq = e /\ result'[w].status = R!Denied
    BY <2>3, <2>4 DEF R!WorkerResults
  <2>6. ran'[e] = log
    BY <2>1, <2>2, LogStays
  <2>7. e \in DOMAIN submitted' /\ submitted'[e].job.plan.steps = plan
    BY <2>2, <2>3, SubmittedKept
  <2>8. plan # << >>
    BY <2>2, <2>3 DEF SubmissionsValid, Job, ValidJob, ValidPlan, ValidSteps
  <2>9. Len(plan) \in Nat /\ Len(plan) # 0
    BY <2>3, <2>8
  <2>10. SaysTruly(result'[w], plan, log)
    BY <2>3, <2>5, <2>9 DEF SaysTruly, R!Denied, Succeeded
  <2> QED
    BY <2>1, <2>5, <2>6, <2>7, <2>10 DEF Truthful
<1> QED
  BY <1>1, <1>2, <1>3, <1>4, <1>5 DEF Verify

LEMMA StepKeepsReports ==
  ASSUME LifeInv, SubmissionsValid, ReportsOK, [Next]_vars
  PROVE  ReportsOK'
<1>1. ASSUME NEW w \in Workers
      PROVE  /\ wpc'[w] \in {R!Verifying, R!Executing, R!InStep} => InProgress(w)'
             /\ wpc'[w] \in R!Recording => Truthful(result[w])'
  <2>1. CASE Stays(w)
    <3>1. wpc'[w] \in {R!Verifying, R!Executing, R!InStep} => InProgress(w)'
      BY <2>1 DEF Stays, ReportsOK, InProgress
    <3>2. ASSUME wpc'[w] \in R!Recording PROVE Truthful(result[w])'
      <4>1. PICK r : r = result[w]
        OBVIOUS
      <4>2. Truthful(r) /\ wpc[w] \in R!Recording /\ result'[w] = r
        BY <2>1, <3>2, <4>1 DEF Stays, ReportsOK
      <4>3. ran'[r.enq] = ran[r.enq]
        BY <4>1, <4>2, LogStays, JobOfWorker
      <4>4. Truthful(r)'
        BY <4>2, <4>3, TruthfulStays
      <4> QED
        BY <4>2, <4>4 DEF Truthful
    <3> QED
      BY <3>1, <3>2
  <2>2. CASE wpc'[w] \in {R!Idle, R!Claiming}
    BY <2>2
  <2>3. CASE ReceiveJob(w) \/ Verify(w) \/ SendResult(w)
    BY <2>3, MovesTruly
  <2>4. CASE StartStep(w)
    BY <2>4, MovesTruly, StepEndsTruly DEF StartStep
  <2>5. CASE FinishStep(w)
    BY <2>5, StepEndsTruly
  <2> QED
    BY <2>1, <2>2, <2>3, <2>4, <2>5, WorkerMoves
<1>2. ASSUME NEW r \in Reported' PROVE Truthful(r)'
  <2>1. CASE r \in Reported
    BY <2>1, ReportedLogStays, TruthfulStays DEF ReportsOK
  <2>2. CASE r \notin Reported
    <3>1. PICK w \in Workers : SendResult(w) /\ r = result[w]
      BY <2>2, ReportedFrom
    <3>2. wpc[w] \in R!Recording
      BY <3>1, ReportIs DEF SendResult
    <3>3. Truthful(r)
      BY <3>1, <3>2 DEF ReportsOK
    <3>4. ran'[r.enq] = ran[r.enq]
      BY <3>1, <3>2, LogStays, JobOfWorker
    <3> QED
      BY <3>3, <3>4, TruthfulStays
  <2> QED
    BY <2>1, <2>2
<1> QED
  BY <1>1, <1>2 DEF ReportsOK

LEMMA ReportsHold == Spec => []ReportsOK
<1>1. Init => ReportsOK
  BY DEF Init, S!StoreInit, R!RunnerInit, ReportsOK, Reported
<1> QED
  BY <1>1, StepKeepsReports, ResultsAreFinal, ValidSubmissions, PTL DEF Spec

(***************************************************************************)
(* What the control plane is told was executed, was executed: of every     *)
(* result under way or in the store, the plan steps it covers that have an *)
(* executor are those started, its IDs are theirs or an executor's own     *)
(* choice, and a success is one of every step of the plan (execute,        *)
(* executeStep and Complete, across crashes and broken requests).          *)
(***************************************************************************)
THEOREM ResultsTellWhatRan == Spec => []ReportedIsWhatRan
<1>1. ASSUME LifeInv, ReportsOK, NEW r \in Reported
      PROVE  LET plan == Job(r.enq).plan.steps
                 called == {i \in DOMAIN r.steps : plan[i].executor \in Registered}
             IN  /\ {plan[i].id : i \in called} =
                      {ran[r.enq][n].step : n \in DOMAIN ran[r.enq]}
                 /\ \A i \in DOMAIN r.steps :
                      \/ r.steps[i].id = plan[i].id
                      \/ i \in called /\ r.steps[i].id \in ExecStepIDs
                 /\ r.status = Succeeded <=>
                      Len(r.steps) = Len(plan) /\ Len(ran[r.enq]) = Len(plan)
                        /\ r.steps[Len(plan)].status = Succeeded
  <2>1. PICK plan, log : plan = Job(r.enq).plan.steps /\ log = ran[r.enq]
    OBVIOUS
  <2>2. r.enq \in DOMAIN submitted /\ SaysTruly(r, plan, log)
    BY <1>1, <2>1 DEF ReportsOK, Truthful, Job
  <2>3. /\ r.steps \in Seq(R!StepResults) /\ log \in Seq(LogEntry)
    <3>1. r \in R!WorkerResults
      BY <1>1 DEF LifeInv, ResultsOK, Reported
    <3>2. r.steps \in Seq(R!StepResults) /\ r.enq \in 1 .. MaxSubmitted
      BY <3>1 DEF R!WorkerResults
    <3> QED
      BY <1>1, <2>1, <3>2 DEF LifeInv, FlowInv, FlowTypeOK
  <2>4. \A n \in DOMAIN log : log[n].step = plan[n].id
    BY <1>1, <2>1, <2>2 DEF LifeInv, FlowInv, ExecutedOnce
  <2>5. PICK k \in Nat, m \in Nat : /\ k = Len(log) /\ DOMAIN log = 1 .. k
                                   /\ m = Len(r.steps) /\ DOMAIN r.steps = 1 .. m
    BY <2>3
  <2>6. /\ k <= m
        /\ \A i \in 1 .. m :
             /\ r.steps[i].id = plan[i].id \/ (i <= k /\ r.steps[i].id \in ExecStepIDs)
             /\ plan[i].executor \in Registered <=> i <= k
    BY <2>2, <2>5 DEF SaysTruly
  <2>7. {i \in DOMAIN r.steps : plan[i].executor \in Registered} = 1 .. k
    BY <2>5, <2>6
  <2>8. \A i \in 1 .. m : \/ r.steps[i].id = plan[i].id
                          \/ i \in 1 .. k /\ r.steps[i].id \in ExecStepIDs
    BY <2>6
  <2>9. {plan[i].id : i \in 1 .. k} = {log[n].step : n \in 1 .. k}
    BY <2>4, <2>5
  <2>10. r.status = Succeeded <=>
           /\ Len(r.steps) = Len(plan) /\ Len(log) = Len(plan)
           /\ r.steps[Len(plan)].status = Succeeded
    BY <2>2 DEF SaysTruly
  <2> QED
    BY <2>1, <2>5, <2>7, <2>8, <2>9, <2>10, ZenonT(40)
<1>2. LifeInv /\ ReportsOK => ReportedIsWhatRan
  BY <1>1 DEF ReportedIsWhatRan, Reported
<1> QED
  BY <1>2, ResultsAreFinal, ReportsHold, PTL

-----------------------------------------------------------------------------
(* A denial means that the job expired. *)

\* A job is handed only to a worker that its selector matches.
Suited(w) ==
  /\ Answered(w) => Matches(Info[w], reply[w].job.selector)
  /\ wpc[w] \in R!Working => Matches(Info[w], held[w].job.selector)

Denial(r) ==
  /\ r.enq \in DOMAIN submitted
  /\ r.status = Denied => \E w \in Workers : Expired(submitted[r.enq].job, now[w])

DenialsOK ==
  /\ \A w \in Workers : wpc[w] \in R!Recording => Denial(result[w])
  /\ \A r \in Reported : Denial(r)

LEMMA StepKeepsSuited ==
  ASSUME LifeInv, [Next]_vars, NEW w \in Workers, Suited(w)
  PROVE  Suited(w)'
<1>1. ASSUME Answered(w)' PROVE Matches(Info[w], reply'[w].job.selector)
  <2>1. CASE reply'[w] = reply[w]
    BY <1>1, <2>1 DEF Suited, Answered
  <2>2. CASE HandleClaim(w)
    <3>1. PICK i \in DOMAIN pending :
            S!Claim(Info[w], i) /\ reply' = [reply EXCEPT ![w] = pending[i]]
      BY <2>2 DEF HandleClaim
    <3>2. S!Matches(Info[w], pending[i].job.selector)
      BY <3>1 DEF S!Claim, S!FirstMatch, S!Claimable
    <3>3. Matches(Info[w], pending[i].job.selector)
      BY <3>2 DEF S!Matches, S!LabelOf, Matches, LabelOf
    <3> QED
      BY <3>1, <3>3, Functions
  <2> QED
    BY <1>1, <2>1, <2>2, AnswerFrom
<1>2. ASSUME wpc'[w] \in R!Working PROVE Matches(Info[w], held'[w].job.selector)
  <2>1. CASE Stays(w)
    BY <1>2, <2>1 DEF Suited, Stays
  <2>2. CASE ReceiveJob(w)
    BY <2>2, Functions DEF Suited, ReceiveJob, Answered, R!Claimed
  <2>3. CASE Verify(w) \/ StartStep(w) \/ FinishStep(w) \/ SendResult(w)
    <3>1. held'[w] = held[w] /\ wpc[w] \in R!Working
      BY <2>3, ReportIs, DenyIs
      DEF Verify, StartStep, FinishStep, SendResult, R!Accept, R!StartStep,
          R!Unregistered, R!FinishStep, R!StepEnds, R!localVars
    <3> QED
      BY <3>1 DEF Suited
  <2> QED
    BY <1>2, <2>1, <2>2, <2>3, WorkerMoves
<1> QED
  BY <1>1, <1>2 DEF Suited, Answered

LEMMA JobsSuit == Spec => [](\A w \in Workers : Suited(w))
<1>1. Init => \A w \in Workers : Suited(w)
  BY DEF Init, R!RunnerInit, Suited, Answered
<1>2. LifeInv /\ (\A w \in Workers : Suited(w)) /\ [Next]_vars => (\A w \in Workers : Suited(w))'
  BY StepKeepsSuited
<1> QED
  BY <1>1, <1>2, ResultsAreFinal, PTL DEF Spec

\* Only a clock's own step moves it.
LEMMA NowMoves ==
  ASSUME [Next]_vars
  PROVE  now' = now \/ \E w \in Workers : Tick(w)
<1>1. ASSUME NEW w \in Workers, WorkerStep(w) PROVE now' = now
  <2>1. CASE Verify(w) \/ StartStep(w) \/ FinishStep(w)
    BY <2>1, DenyIs DEF Verify, StartStep, FinishStep, R!Accept, R!StartStep,
                R!Unregistered, R!FinishStep, R!StepEnds
  <2> QED
    BY <1>1, <2>1, ReportIs
    DEF WorkerStep, SendClaim, ReceiveJob, ReceiveNoJob, ClaimUnanswered, SendResult,
        ReceiveAck, CompleteUnanswered, R!Poll, R!Claimed, R!ClaimFailed, R!CompleteReturns
<1>2. ASSUME NEW w \in Workers, ServerStep(w) \/ Fault(w) PROVE now' = now
  BY <1>2
  DEF ServerStep, Fault, HandleClaim, HandleClaimNoJob, HandleAbandonedClaim, BreakClaim,
      BreakComplete, WorkerCrash, runnerVars, R!ClaimFailed, R!CompleteReturns, R!Crash
<1>3. CASE \/ \E j \in Jobs : CreateJob(j)
           \/ \E r \in posted : HandleComplete(r)
           \/ ControlPlaneRestart \/ UNCHANGED vars
  BY <1>3 DEF CreateJob, HandleComplete, ControlPlaneRestart, vars, runnerVars
<1> QED
  BY <1>1, <1>2, <1>3 DEF Next

\* No clock goes back.
LEMMA NowGrows ==
  ASSUME LifeInv, [Next]_vars, NEW v \in Workers
  PROVE  now[v] \in Nat /\ now'[v] \in Nat /\ now[v] <= now'[v]
<1>1. now \in [Workers -> Nat]
  BY DEF LifeInv, FlowInv, FlowTypeOK
<1> QED
  BY <1>1, NowMoves DEF Tick, R!SetClock

LEMMA DenialStays ==
  ASSUME LifeInv, [Next]_vars, NEW r, Denial(r)
  PROVE  Denial(r)'
<1>1. /\ r.enq \in DOMAIN submitted' /\ submitted'[r.enq] = submitted[r.enq]
      /\ submitted[r.enq].job \in Jobs
  <2>1. r.enq \in DOMAIN submitted
    BY DEF Denial
  <2>2. submitted \in Seq(Envelope)
    BY DEF LifeInv, FlowInv, FlowTypeOK
  <2>3. submitted[r.enq] \in Envelope
    BY <2>1, <2>2
  <2> QED
    BY <2>1, <2>3, SubmittedKept DEF Envelope, S!Envelopes
<1>2. \A w \in Workers :
        Expired(submitted[r.enq].job, now[w]) => Expired(submitted[r.enq].job, now'[w])
  BY <1>1, NowGrows, PlansAssumption DEF Expired
<1> QED
  BY <1>1, <1>2 DEF Denial

\* What a worker refuses, for want of any other reason, has expired.
LEMMA RefusedIsExpired ==
  ASSUME LifeInv, SubmissionsValid, NEW w \in Workers, Suited(w), KeyOf[w] = ServerKey,
         wpc[w] \in R!Working, ~ R!Accepts(w)
  PROVE  Expired(held[w].job, now[w])
<1>1. /\ held[w] \in Envelope /\ held[w].enq \in DOMAIN submitted
      /\ submitted[held[w].enq] = held[w]
  BY JobOfWorker
<1>2. ValidJob(held[w].job) /\ held[w].key = ServerKey
  BY <1>1, SMTT(30) DEF SubmissionsValid, Job, Envelope, S!Envelopes
<1>3. R!ValidJob(held[w].job)
  BY <1>2
  DEF ValidJob, ValidPlan, ValidSteps, ValidGates, ValidChecks, ValidArtifacts, ValidRollback,
      ValidIDs, UniqueIDs, IsToken, Unset, Status, Pending, Running, Succeeded, Failed, Skipped,
      Denied, R!ValidJob, R!ValidPlan, R!ValidSteps, R!ValidGates, R!ValidChecks,
      R!ValidArtifacts, R!ValidRollback, R!ValidIDs, R!UniqueIDs, R!IsToken, R!Unset, R!Status,
      R!Pending, R!Running, R!Succeeded, R!Failed, R!Skipped, R!Denied
<1>4. R!Matches(Info[w], held[w].job.selector)
  BY DEF Suited, Matches, LabelOf, R!Matches, R!LabelOf
<1> QED
  BY <1>2, <1>3, <1>4 DEF R!Accepts, R!Verifies, R!Authentic, R!Expired, R!Unset, Expired, Unset

\* Denied is the runner's own word: no step ends with it.
LEMMA NoStepIsDenied ==
  ASSUME Denied \notin ExecStatuses, NEW w \in Workers, FinishStep(w) \/ R!Unregistered(w)
  PROVE  \E id, status, o : R!StepEnds(w, id, status, o) /\ status # Denied
<1>1. CASE R!Unregistered(w)
  BY <1>1 DEF R!Unregistered, R!Failed, Denied
<1>2. ASSUME NEW id \in ExecStepIDs, NEW status \in ExecStatuses, NEW err \in BOOLEAN,
             NEW o \in StepOutputs, R!FinishStep(w, id, status, err, o)
      PROVE  /\ R!StepEnds(w, R!ReportedID(w, id), R!Normalized(status, err), o)
             /\ R!Normalized(status, err) # Denied
  BY <1>2 DEF R!FinishStep, R!Normalized, R!Failed, R!Succeeded, Denied
<1> QED
  BY <1>1, <1>2 DEF FinishStep

LEMMA StepKeepsDenials ==
  ASSUME LifeInv, SubmissionsValid, DenialsOK, [Next]_vars, \A w \in Workers : Suited(w),
         \A w \in Workers : KeyOf[w] = ServerKey, Denied \notin ExecStatuses
  PROVE  DenialsOK'
<1>1. ASSUME NEW w \in Workers, wpc'[w] \in R!Recording PROVE Denial(result[w])'
  <2>1. CASE Stays(w)
    <3>1. PICK r : r = result[w]
      OBVIOUS
    <3>2. Denial(r) /\ result'[w] = r
      BY <1>1, <2>1, <3>1 DEF Stays, DenialsOK
    <3>3. Denial(r)'
      BY <3>2, DenialStays
    <3> QED
      BY <3>2, <3>3 DEF Denial
  <2>2. ASSUME wpc[w] \in R!Working, result'[w].enq = result[w].enq,
               result'[w].status = Denied => Expired(held[w].job, now[w])
        PROVE  Denial(result[w])'
    <3>1. PICK r : r = result'[w]
      OBVIOUS
    <3>2. /\ held[w].enq \in DOMAIN submitted /\ submitted[held[w].enq] = held[w]
          /\ r.enq = held[w].enq
      BY <2>2, <3>1, JobOfWorker
    <3>3. Denial(r)
      BY <2>2, <3>1, <3>2 DEF Denial
    <3>4. Denial(r)'
      BY <3>3, DenialStays
    <3> QED
      BY <3>1, <3>4 DEF Denial
  <2>3. CASE R!DenyUnverified(w) \/ R!DenyUnmatched(w)
    <3>1. /\ wpc[w] = R!Verifying /\ ~ R!Accepts(w)
          /\ result' = [result EXCEPT ![w].status = R!Denied]
      BY <2>3, DenyIs
    <3>2. Expired(held[w].job, now[w])
      BY <3>1, RefusedIsExpired
    <3>3. result[w] \in R!WorkerResults
      BY <3>1, JobOfWorker
    <3>4. result'[w] = [result[w] EXCEPT !.status = R!Denied]
      BY <3>1, <3>3, Functions DEF R!WorkerResults
    <3>5. result'[w].enq = result[w].enq
      BY <3>3, <3>4 DEF R!WorkerResults
    <3> QED
      BY <2>2, <3>1, <3>2, <3>5
  <2>4. CASE FinishStep(w) \/ R!Unregistered(w)
    <3>1. PICK id, status, o : R!StepEnds(w, id, status, o) /\ status # Denied
      BY <2>4, NoStepIsDenied
    <3>2. wpc[w] \in {R!Executing, R!InStep}
      BY <2>4 DEF FinishStep, R!FinishStep, R!Unregistered
    <3>3. result'[w].enq = result[w].enq /\ result'[w].status = R!AfterStep(w, status).status
      BY <3>1, <3>2, StepEndsKeeps
    <3>4. R!AfterStep(w, status).status # Denied
      BY <3>1 DEF R!AfterStep, R!Running, Denied
    <3> QED
      BY <2>2, <3>2, <3>3, <3>4
  <2>5. CASE ReceiveJob(w) \/ SendResult(w) \/ R!StartStep(w) \/ R!Accept(w)
    BY <1>1, <2>5, ReportIs, Functions
    DEF ReceiveJob, SendResult, R!Claimed, R!StartStep, R!Accept, R!Goto
  <2> QED
    BY <1>1, <2>1, <2>3, <2>4, <2>5, WorkerMoves DEF Verify, StartStep
<1>2. ASSUME NEW r \in Reported' PROVE Denial(r)'
  <2>1. CASE r \in Reported
    BY <2>1, DenialStays DEF DenialsOK
  <2>2. CASE r \notin Reported
    <3>1. PICK w \in Workers : SendResult(w) /\ r = result[w]
      BY <2>2, ReportedFrom
    <3>2. wpc[w] \in R!Recording
      BY <3>1, ReportIs DEF SendResult
    <3> QED
      BY <3>1, <3>2, DenialStays DEF DenialsOK
  <2> QED
    BY <2>1, <2>2
<1> QED
  BY <1>1, <1>2 DEF DenialsOK

(***************************************************************************)
(* Where all workers have the control plane's key, and no executor says    *)
(* "denied" itself, a denied job is one that has expired by the clock of   *)
(* some worker's host: the server's choice of a worker and its validation  *)
(* leave no other reason (RunOnce, Claim, handleCreateJob).                *)
(***************************************************************************)
THEOREM DenialsAreExpiries ==
  ASSUME \A w \in Workers : KeyOf[w] = ServerKey, Denied \notin ExecStatuses
  PROVE  Spec => []DeniedMeansExpired
<1>1. Init => DenialsOK
  BY DEF Init, S!StoreInit, R!RunnerInit, DenialsOK, Reported
<1>2. LifeInv /\ SubmissionsValid /\ (\A w \in Workers : Suited(w)) /\ DenialsOK /\ [Next]_vars
        => DenialsOK'
  BY StepKeepsDenials
<1>3. DenialsOK => DeniedMeansExpired
  BY DEF DenialsOK, Denial, DeniedMeansExpired, Reported, Job
<1> QED
  BY <1>1, <1>2, <1>3, ResultsAreFinal, ValidSubmissions, JobsSuit, PTL DEF Spec

-----------------------------------------------------------------------------
(* A job that expires in the queue never runs. *)

\* e has expired by w's clock, w started no step of it, and has not accepted it.
Dead(e, w) ==
  /\ e \in DOMAIN submitted /\ Expired(Job(e), now[w])
  /\ \A n \in DOMAIN ran[e] : ran[e][n].by # w
  /\ wpc[w] \in {R!Executing, R!InStep} => held[w].enq # e

LEMMA QueuedIsDead ==
  ASSUME LifeInv, NEW e \in 1 .. MaxSubmitted, NEW w \in Workers, e \in DOMAIN submitted,
         S!IsPending(e), Expired(Job(e), now[w])
  PROVE  Dead(e, w)
<1>1. ran[e] = << >>
  BY DEF LifeInv, FlowInv, QueueOK, S!IsPending
<1>2. ~ Carries(w, e)
  BY DEF LifeInv, FlowInv, Exclusive
<1> QED
  BY <1>1, <1>2 DEF Dead, Carries

\* Its expiry does not pass, and w's verifier stops it.
LEMMA DeadStays ==
  ASSUME LifeInv, [Next]_vars, NEW e \in 1 .. MaxSubmitted, NEW w \in Workers, Dead(e, w)
  PROVE  Dead(e, w)'
<1>1. e \in DOMAIN submitted' /\ Job(e)' = Job(e)
  BY SubmittedKept DEF Dead, Job
<1>2. Expired(Job(e), now[w])'
  <2>1. /\ e \in DOMAIN submitted /\ submitted'[e] = submitted[e]
        /\ Expired(submitted[e].job, now[w])
    BY SubmittedKept DEF Dead, Job
  <2>2. submitted[e] \in Envelope
    BY <2>1 DEF LifeInv, FlowInv, FlowTypeOK
  <2>3. submitted[e].job.expiresAt \in Int
    BY <2>2, PlansAssumption DEF Envelope, S!Envelopes
  <2>4. Expired(submitted[e].job, now'[w])
    BY <2>1, <2>3, NowGrows DEF Expired
  <2> QED
    BY <2>1, <2>4 DEF Job
<1>3. \A n \in DOMAIN ran'[e] : ran'[e][n].by # w
  <2>1. CASE ran'[e] = ran[e]
    BY <2>1 DEF Dead
  <2>2. CASE ran'[e] # ran[e]
    <3>1. PICK v \in Workers : R!StartStep(v) /\ e = held[v].enq
      BY <2>2, RanFrom
    <3>2. v # w
      BY <3>1 DEF Dead, R!StartStep
    <3>3. PICK entry : entry = [step |-> R!Current(v).id, by |-> v]
      OBVIOUS
    <3>4. ran \in [1 .. MaxSubmitted -> Seq(LogEntry)]
      BY DEF LifeInv, FlowInv, FlowTypeOK
    <3>5. ran'[e] = Append(ran[e], entry)
      BY <3>1, <3>3, <3>4 DEF R!StartStep
    <3>6. PICK X : X = LogEntry \cup {entry}
      OBVIOUS
    <3>7. ran[e] \in Seq(X) /\ entry \in X
      BY <3>4, <3>6
    <3>8. \A n \in DOMAIN ran'[e] :
            ran'[e][n] = entry \/ (n \in DOMAIN ran[e] /\ ran'[e][n] = ran[e][n])
      BY <3>5, <3>7, AppendedTo
    <3> QED
      BY <3>2, <3>3, <3>8 DEF Dead
  <2> QED
    BY <2>1, <2>2
<1>4. ASSUME wpc'[w] \in {R!Executing, R!InStep} PROVE held'[w].enq # e
  <2>1. CASE Stays(w)
    BY <1>4, <2>1 DEF Stays, Dead
  <2>2. CASE ReceiveJob(w) \/ SendResult(w) \/ R!DenyUnverified(w) \/ R!DenyUnmatched(w)
    <3>1. ASSUME NEW x, wpc' = [wpc EXCEPT ![w] = x], x \notin {R!Executing, R!InStep} PROVE FALSE
      BY <1>4, <3>1, Functions
    <3>2. \A x \in R!Recording \cup {R!Completing, R!Verifying} : x \notin {R!Executing, R!InStep}
      OBVIOUS
    <3> QED
      BY <2>2, <3>1, <3>2, ReportIs, DenyIs, ZenonT(40)
      DEF ReceiveJob, SendResult, R!Claimed, R!Goto
  <2>3. CASE R!Accept(w)
    <3>1. wpc[w] = R!Verifying /\ held' = held /\ ~ R!Expired(held[w].job, now[w])
      BY <2>3 DEF R!Accept, R!Accepts, R!Verifies, R!Authentic, R!localVars
    <3>2. submitted[held[w].enq] = held[w]
      BY <3>1, JobOfWorker
    <3> QED
      BY <3>1, <3>2 DEF Dead, Job, Expired, R!Expired, Unset, R!Unset
  <2>4. CASE StartStep(w) \/ FinishStep(w)
    <3>1. held' = held /\ wpc[w] \in {R!Executing, R!InStep}
      BY <2>4 DEF StartStep, FinishStep, R!StartStep, R!Unregistered, R!FinishStep, R!StepEnds, R!localVars
    <3> QED
      BY <3>1, SMTT(30) DEF Dead
  <2> QED
    BY <1>4, <2>1, <2>2, <2>3, <2>4, WorkerMoves DEF Verify
<1> QED
  BY <1>1, <1>2, <1>3, <1>4 DEF Dead

(***************************************************************************)
(* A job that expires while it waits in the queue is never executed by a   *)
(* worker by whose clock it has expired: Claim hands it out without a look *)
(* at its expiry, the answer may be under way for as long as it likes, and *)
(* the verifier of cmd/pk-deploy-worker stops it.                          *)
(***************************************************************************)
THEOREM ExpiredNeverRuns == Spec => ExpiredInQueueNeverRuns
<1>1. ASSUME NEW e \in 1 .. MaxSubmitted, NEW w \in Workers
      PROVE  Spec => [](e \in DOMAIN submitted /\ S!IsPending(e) /\ Expired(Job(e), now[w])
                          => [](\A n \in DOMAIN ran[e] : ran[e][n].by # w))
  <2>1. LifeInv /\ e \in DOMAIN submitted /\ S!IsPending(e) /\ Expired(Job(e), now[w])
          => Dead(e, w)
    BY QueuedIsDead
  <2>2. LifeInv /\ [Next]_vars /\ Dead(e, w) => Dead(e, w)'
    BY DeadStays
  <2>3. Dead(e, w) => \A n \in DOMAIN ran[e] : ran[e][n].by # w
    BY DEF Dead
  <2> QED
    BY <2>1, <2>2, <2>3, ResultsAreFinal, PTL DEF Spec
<1> QED
  BY <1>1 DEF ExpiredInQueueNeverRuns
=============================================================================
