----------------------------- MODULE Store_proofs -----------------------------
(***************************************************************************)
(* Proofs about the store, for every set of jobs and workers and every     *)
(* length of its queue.  QueueInv is the inductive invariant: the queue    *)
(* holds submissions unchanged, in the order of submission, and the        *)
(* submissions with one selector leave it from the front.                  *)
(***************************************************************************)
EXTENDS Store, FiniteSetTheorems, TLAPS

ObserveIn(context, known, component) == Observe(known, component)

\* The two loops over what a completion reports, as instances of one loop.
Upserts == INSTANCE SequenceLemmas WITH op <- ObserveIn
Ingests == INSTANCE SequenceLemmas WITH op <- Ingest

QueueTypeOK ==
  /\ pending \in Seq(Envelopes(Jobs, Keys))
  /\ submitted \in Seq(Envelopes(Jobs, Keys))
  /\ claimed \in [JobIDs -> Jobs \cup {None}]

\* A pending envelope is the submission it says it is.
QueueHoldsSubmissions ==
  \A i \in DOMAIN pending :
    /\ pending[i].enq \in DOMAIN submitted
    /\ pending[i] = submitted[pending[i].enq]

QueueInOrder ==
  \A i, j \in DOMAIN pending : i < j => pending[i].enq < pending[j].enq

QueueInv == QueueTypeOK /\ QueueHoldsSubmissions /\ QueueInOrder /\ NoOvertaking

-----------------------------------------------------------------------------
\* Enqueue puts the new submission behind all others (Store.Enqueue).
LEMMA EnqueueKeepsQueueInv ==
  ASSUME QueueInv, NEW job \in Jobs, NEW key \in Keys, Enqueue(job, key)
  PROVE  QueueInv'
<1> DEFINE signed == [job |-> job, key |-> key, enq |-> Len(submitted) + 1]
<1> USE DEF QueueInv
<1>1. /\ signed \in Envelopes(Jobs, Keys)
      /\ pending' = Append(pending, signed)
      /\ submitted' = Append(submitted, signed)
      /\ claimed' = claimed
      /\ signed.enq = Len(submitted) + 1
  BY DEF Enqueue, Envelopes, QueueTypeOK
<1> HIDE DEF signed
<1>2. QueueTypeOK'
  BY <1>1 DEF QueueTypeOK
<1>3. /\ Len(pending') = Len(pending) + 1
      /\ \A i \in 1 .. Len(pending) : pending'[i] = pending[i]
      /\ pending'[Len(pending) + 1] = signed
      /\ Len(submitted') = Len(submitted) + 1
      /\ \A e \in 1 .. Len(submitted) : submitted'[e] = submitted[e]
      /\ submitted'[Len(submitted) + 1] = signed
  BY <1>1 DEF QueueTypeOK
<1>4. QueueHoldsSubmissions'
  BY <1>1, <1>2, <1>3 DEF QueueTypeOK, QueueHoldsSubmissions
<1>5. QueueInOrder'
  BY <1>1, <1>2, <1>3 DEF QueueTypeOK, QueueHoldsSubmissions, QueueInOrder
<1>6. NoOvertaking'
  <2> SUFFICES ASSUME NEW e \in DOMAIN submitted', NEW f \in DOMAIN submitted', e < f,
                      submitted'[e].job.selector = submitted'[f].job.selector,
                      IsPending(e)'
               PROVE  IsPending(f)'
    BY DEF NoOvertaking
  <2>1. CASE f = Len(submitted) + 1
    BY <1>1, <1>2, <1>3, <2>1, SMTT(30) DEF IsPending, QueueTypeOK
  <2>2. CASE f # Len(submitted) + 1
    <3>1. e \in 1 .. Len(submitted) /\ f \in 1 .. Len(submitted)
      BY <1>2, <1>3, <2>2 DEF QueueTypeOK
    <3>2. IsPending(e)
      BY <1>1, <1>2, <1>3, <3>1 DEF IsPending, QueueTypeOK
    <3>3. IsPending(f)
      BY <1>3, <3>1, <3>2 DEF NoOvertaking, QueueTypeOK
    <3> QED
      BY <1>2, <1>3, <3>3, SMTT(30) DEF IsPending, QueueTypeOK
  <2> QED
    BY <2>1, <2>2
<1> QED
  BY <1>2, <1>4, <1>5, <1>6

\* Claim takes the first match out and leaves the rest in order (Store.Claim).
LEMMA ClaimKeepsQueueInv ==
  ASSUME QueueInv, NEW info, NEW i \in DOMAIN pending, Claim(info, i)
  PROVE  QueueInv'
<1> USE DEF QueueInv
<1>1. /\ i \in 1 .. Len(pending)
      /\ pending[i] \in Envelopes(Jobs, Keys)
      /\ pending' = Ingests!RemoveAt(pending, i)
      /\ submitted' = submitted
      /\ claimed' = [claimed EXCEPT ![pending[i].job.id] = pending[i].job]
  BY DEF Claim, QueueTypeOK, RemoveAt, Ingests!RemoveAt
<1>2. /\ pending' \in Seq(Envelopes(Jobs, Keys))
      /\ Len(pending') = Len(pending) - 1
      /\ \A j \in 1 .. Len(pending) - 1 :
           pending'[j] = IF j < i THEN pending[j] ELSE pending[j + 1]
  BY <1>1, Ingests!RemoveAtIs DEF QueueTypeOK
<1>3. QueueTypeOK'
  BY <1>1, <1>2 DEF QueueTypeOK, Envelopes, JobIDs
<1> DEFINE from(j) == IF j < i THEN j ELSE j + 1
<1>a. /\ DOMAIN pending = 1 .. Len(pending) /\ Len(pending) \in Nat
      /\ DOMAIN pending' = 1 .. Len(pending) - 1
  BY <1>2 DEF QueueTypeOK
<1>b. /\ \A j \in DOMAIN pending' :
           from(j) \in DOMAIN pending /\ pending'[j] = pending[from(j)]
      /\ \A j, k \in DOMAIN pending' : j < k => from(j) < from(k)
  BY <1>1, <1>2, <1>a
<1> HIDE DEF from
<1>4. QueueHoldsSubmissions'
  BY <1>1, <1>b DEF QueueHoldsSubmissions
<1>5. QueueInOrder'
  BY <1>b DEF QueueInOrder
<1>6. NoOvertaking'
  <2> SUFFICES ASSUME NEW e \in DOMAIN submitted, NEW f \in DOMAIN submitted, e < f,
                      submitted[e].job.selector = submitted[f].job.selector,
                      IsPending(e)'
               PROVE  IsPending(f)'
    BY <1>1 DEF NoOvertaking
  <2>a. /\ DOMAIN pending = 1 .. Len(pending) /\ Len(pending) \in Nat
        /\ DOMAIN submitted = 1 .. Len(submitted) /\ Len(submitted) \in Nat
        /\ DOMAIN pending' = 1 .. Len(pending')
    BY <1>2 DEF QueueTypeOK
  <2>1. PICK k \in 1 .. Len(pending) : pending[k].enq = e /\ k # i
    <3>1. PICK m \in 1 .. Len(pending) - 1 : pending'[m].enq = e
      BY <1>2, <2>a DEF IsPending
    <3>2. CASE m < i
      BY <1>2, <2>a, <3>1, <3>2
    <3>3. CASE ~ (m < i)
      <4>1. m + 1 \in 1 .. Len(pending) /\ m + 1 # i
        BY <1>1, <2>a, <3>3
      <4> QED
        BY <1>2, <3>1, <3>3, <4>1
    <3> QED
      BY <3>2, <3>3
  <2>2. PICK l \in 1 .. Len(pending) : pending[l].enq = f
    <3>1. IsPending(e)
      BY <2>1, <2>a DEF IsPending
    <3>2. IsPending(f)
      BY <3>1 DEF NoOvertaking
    <3> QED
      BY <2>a, <3>2 DEF IsPending
  <2>3. k < l
    <3>1. ~ (l < k) /\ l # k
      BY <2>1, <2>2, <2>a, SMTT(30) DEF QueueInOrder
    <3> QED
      BY <2>a, <3>1
  <2>4. pending[k].job.selector = pending[l].job.selector
    BY <2>1, <2>2 DEF QueueHoldsSubmissions, QueueTypeOK
  <2>5. l # i
    <3>1. SUFFICES ASSUME l = i
                   PROVE  FALSE
      OBVIOUS
    <3>2. k \in Claimable(info)
      BY <2>4, <3>1 DEF Claim, FirstMatch, Claimable, QueueTypeOK
    <3>3. i <= k
      BY <3>2 DEF Claim, FirstMatch
    <3> QED
      BY <1>1, <2>3, <3>1, <3>3 DEF QueueTypeOK
  <2>6. CASE l < i
    <3>1. l \in 1 .. Len(pending) - 1
      BY <1>1, <2>6 DEF QueueTypeOK
    <3>2. pending'[l].enq = f
      BY <1>2, <2>2, <2>6, <3>1
    <3> QED
      BY <1>2, <3>1, <3>2 DEF IsPending
  <2>7. CASE l > i
    <3>1. l - 1 \in 1 .. Len(pending) - 1 /\ ~ (l - 1 < i) /\ (l - 1) + 1 = l
      BY <1>1, <2>7 DEF QueueTypeOK
    <3>2. pending'[l - 1].enq = f
      BY <1>2, <2>2, <3>1
    <3> QED
      BY <1>2, <3>1, <3>2 DEF IsPending
  <2> QED
    BY <2>5, <2>6, <2>7 DEF QueueTypeOK
<1> QED
  BY <1>3, <1>4, <1>5, <1>6

\* Complete, Record and UpsertComponents do not touch the queue.
LEMMA OthersKeepQueueInv ==
  ASSUME QueueInv, UNCHANGED <<pending, submitted>>,
         claimed' \in [JobIDs -> Jobs \cup {None}]
  PROVE  QueueInv'
BY DEF QueueInv, QueueTypeOK, QueueHoldsSubmissions, QueueInOrder, NoOvertaking, IsPending

\* The store's queue hands submissions of one selector out in their order and
\* each as it was submitted, in every behaviour.
THEOREM QueueCorrect == StoreSpec => []QueueInv
<1>1. StoreInit => QueueInv
  BY DEF StoreInit, QueueInv, QueueTypeOK, QueueHoldsSubmissions, QueueInOrder,
         NoOvertaking, IsPending
<1>2. QueueInv /\ [StoreNext]_storeVars => QueueInv'
  <2> SUFFICES ASSUME QueueInv, [StoreNext]_storeVars
               PROVE  QueueInv'
    OBVIOUS
  <2>1. ASSUME NEW j \in Jobs, NEW k \in Keys, Enqueue(j, k)
        PROVE  QueueInv'
    BY <2>1, EnqueueKeepsQueueInv
  <2>2. ASSUME NEW info \in Infos, NEW i \in DOMAIN pending, Claim(info, i)
        PROVE  QueueInv'
    BY <2>2, ClaimKeepsQueueInv
  <2>3. ASSUME NEW r \in Results, Complete(r)
        PROVE  QueueInv'
    <3>1. UNCHANGED <<pending, submitted>> /\ claimed' = Settle(r)
      BY <2>3 DEF Complete
    <3>2. claimed' \in [JobIDs -> Jobs \cup {None}]
      BY <3>1 DEF Settle, QueueInv, QueueTypeOK
    <3> QED
      BY <3>1, <3>2, OthersKeepQueueInv
  <2>4. CASE UNCHANGED <<pending, submitted, claimed>>
    <3>1. claimed' \in [JobIDs -> Jobs \cup {None}]
      BY <2>4 DEF QueueInv, QueueTypeOK
    <3> QED
      BY <2>4, <3>1, OthersKeepQueueInv
  <2> QED
    BY <2>1, <2>2, <2>3, <2>4
    DEF StoreNext, storeVars, ClaimNothing, Record, UpsertComponents
<1> QED
  BY <1>1, <1>2, PTL DEF StoreSpec

\* Store.Claim never lets a later submission overtake an earlier one with the
\* same selector.
THEOREM ClaimsInOrder == StoreSpec => []NoOvertaking
<1>1. QueueInv => NoOvertaking
  BY DEF QueueInv
<1> QED
  BY <1>1, QueueCorrect, PTL
-----------------------------------------------------------------------------
(* What a completion does to the table of components. *)

\* One component in the table (upsertComponentsLocked, one round of its loop).
LEMMA ObserveIs ==
  ASSUME NEW known, NEW c
  PROVE  /\ c.id = "" => Observe(known, c) = known
         /\ c.id # "" =>
              /\ DOMAIN Observe(known, c) = DOMAIN known \cup {c.id}
              /\ \A id \in DOMAIN known \cup {c.id} :
                   Observe(known, c)[id] = IF id = c.id THEN c ELSE known[id]
BY DEF Observe, With

\* The table after the first k components of a report: for each ID the last
\* one of them, or what was known before.
AfterFirst(k, known, reported, table) ==
  /\ DOMAIN known \subseteq DOMAIN table
  /\ \A j \in 1 .. k : reported[j].id # "" => reported[j].id \in DOMAIN table
  /\ \A id \in DOMAIN table :
       \/ /\ id \in DOMAIN known /\ table[id] = known[id]
          /\ \A j \in 1 .. k : reported[j].id # "" => reported[j].id # id
       \/ \E i \in 1 .. k :
            /\ reported[i].id = id /\ id # "" /\ table[id] = reported[i]
            /\ \A j \in i + 1 .. k : reported[j].id # id

LEMMA UpsertIs ==
  ASSUME NEW known, NEW T, NEW reported \in Seq(T)
  PROVE  AfterFirst(Len(reported), known, reported, Upsert(known, reported))
<1>1. Upsert(known, reported) = Upserts!Fold(0, known, reported)
  BY DEF Upsert, Upserts!Fold, FoldLeft, Upserts!FoldLeft, MapThenFoldSet,
         Upserts!MapThenFoldSet, Max, Upserts!Max, ObserveIn
<1>2. \E u :
        /\ u[0] = known
        /\ \A i \in 1 .. Len(reported) : u[i] = ObserveIn(0, u[i - 1], reported[i])
        /\ Upserts!Fold(0, known, reported) = u[Len(reported)]
  BY Upserts!FoldLeftIs
<1>3. PICK u : /\ u[0] = known
               /\ \A i \in 1 .. Len(reported) : u[i] = Observe(u[i - 1], reported[i])
               /\ Upsert(known, reported) = u[Len(reported)]
  BY <1>1, <1>2 DEF ObserveIn
<1>n. PICK n \in Nat : n = Len(reported)
  OBVIOUS
<1> DEFINE A == {k \in Nat : k <= n => AfterFirst(k, known, reported, u[k])}
<1>4. 0 \in A
  <2>1. AfterFirst(0, known, reported, known)
    BY DEF AfterFirst
  <2> QED
    BY <1>3, <2>1
<1>5. ASSUME NEW k \in Nat, k \in A PROVE k + 1 \in A
  <2> SUFFICES ASSUME k + 1 <= n
               PROVE  AfterFirst(k + 1, known, reported, u[k + 1])
    OBVIOUS
  <2>0. PICK c : c = reported[k + 1]
    OBVIOUS
  <2>1. /\ DOMAIN known \subseteq DOMAIN u[k]
        /\ \A j \in 1 .. k : reported[j].id # "" => reported[j].id \in DOMAIN u[k]
        /\ \A id \in DOMAIN u[k] :
             \/ /\ id \in DOMAIN known /\ u[k][id] = known[id]
                /\ \A j \in 1 .. k : reported[j].id # "" => reported[j].id # id
             \/ \E i \in 1 .. k :
                  /\ reported[i].id = id /\ id # "" /\ u[k][id] = reported[i]
                  /\ \A j \in i + 1 .. k : reported[j].id # id
    <3>1. AfterFirst(k, known, reported, u[k])
      BY <1>5
    <3> QED
      BY <3>1 DEF AfterFirst
  <2> HIDE DEF A
  <2>2. u[k + 1] = Observe(u[k], c)
    BY <1>n, <1>3, <2>0
  <2>3. /\ c.id = "" => u[k + 1] = u[k]
        /\ c.id # "" =>
             /\ DOMAIN u[k + 1] = DOMAIN u[k] \cup {c.id}
             /\ \A id \in DOMAIN u[k] \cup {c.id} :
                  u[k + 1][id] = IF id = c.id THEN c ELSE u[k][id]
    <3>1. PICK table : table = u[k]
      OBVIOUS
    <3>2. /\ c.id = "" => Observe(table, c) = table
          /\ c.id # "" =>
               /\ DOMAIN Observe(table, c) = DOMAIN table \cup {c.id}
               /\ \A id \in DOMAIN table \cup {c.id} :
                    Observe(table, c)[id] = IF id = c.id THEN c ELSE table[id]
      BY ObserveIs, ZenonT(40)
    <3> QED
      BY <2>2, <3>1, <3>2
  <2>4. /\ 1 .. k + 1 = 1 .. k \cup {k + 1}
        /\ \A i \in 1 .. k : i + 1 .. k + 1 = (i + 1 .. k) \cup {k + 1}
        /\ k + 1 + 1 .. k + 1 = {} /\ k + 1 \in 1 .. k + 1
    OBVIOUS
  <2>5. /\ DOMAIN known \subseteq DOMAIN u[k + 1]
        /\ \A j \in 1 .. k + 1 : reported[j].id # "" => reported[j].id \in DOMAIN u[k + 1]
    BY <2>0, <2>1, <2>3, <2>4
  <2>6. ASSUME NEW id \in DOMAIN u[k + 1]
        PROVE  \/ /\ id \in DOMAIN known /\ u[k + 1][id] = known[id]
                  /\ \A j \in 1 .. k + 1 : reported[j].id # "" => reported[j].id # id
               \/ \E i \in 1 .. k + 1 :
                    /\ reported[i].id = id /\ id # "" /\ u[k + 1][id] = reported[i]
                    /\ \A j \in i + 1 .. k + 1 : reported[j].id # id
    <3>1. CASE id = c.id /\ c.id # ""
      <4>1. u[k + 1][id] = reported[k + 1] /\ reported[k + 1].id = id
        BY <2>0, <2>3, <3>1
      <4> QED
        BY <2>4, <3>1, <4>1
    <3>2. CASE id # c.id \/ c.id = ""
      <4>1. /\ id \in DOMAIN u[k] /\ u[k + 1][id] = u[k][id]
            /\ c.id # "" => c.id # id
        BY <2>3, <3>2
      <4>2. CASE /\ id \in DOMAIN known /\ u[k][id] = known[id]
                 /\ \A j \in 1 .. k : reported[j].id # "" => reported[j].id # id
        BY <2>0, <2>4, <4>1, <4>2
      <4>3. ASSUME NEW i \in 1 .. k, reported[i].id = id, id # "", u[k][id] = reported[i],
                   \A j \in i + 1 .. k : reported[j].id # id
            PROVE  /\ i \in 1 .. k + 1 /\ u[k + 1][id] = reported[i]
                   /\ \A j \in i + 1 .. k + 1 : reported[j].id # id
        <5>1. i \in 1 .. k + 1 /\ u[k + 1][id] = reported[i]
          BY <2>4, <4>1, <4>3
        <5>2. \A j \in (i + 1 .. k) \cup {k + 1} : reported[j].id # id
          BY <2>0, <4>1, <4>3
        <5> QED
          BY <2>4, <5>1, <5>2
      <4> QED
        BY <2>1, <4>1, <4>2, <4>3
    <3> QED
      BY <3>1, <3>2
  <2> QED
    BY <2>5, <2>6 DEF AfterFirst
<1> HIDE DEF A
<1>6. \A k \in Nat : k \in A
  BY <1>4, <1>5, Upserts!InductionInSet
<1> QED
  BY <1>n, <1>3, <1>6 DEF A
LEMMA AfterNone == \A known, told : AfterFirst(0, known, told, known)
<1>1. \A i \in 1 .. 0 : FALSE
  OBVIOUS
<1> QED
  BY <1>1, Zenon DEF AfterFirst

\* No job, or one whose plan names an environment, as Plan.Validate demands.
NamesEnv(job) == job # None => job.plan.env # ""

\* What step tells of components, nothing if it has no such output.
Told(step) == IF step.outputs = NoOutput THEN << >> ELSE step.outputs

ToldOK(step) == step.outputs # NoOutput => IsASequence(step.outputs)

\* The step forgets this component before it stores what it reports.
Forgets(job, step, component) ==
  /\ step.outputs # NoOutput /\ IsInventory(job, step.id)
  /\ component.runtime = Kubernetes /\ component.env = job.plan.env

\* The table when the step has forgotten what it forgets.
IsRemaining(base, job, step, known) ==
  /\ DOMAIN base = {id \in DOMAIN known : ~ Forgets(job, step, known[id])}
  /\ \A id \in DOMAIN base : base[id] = known[id]

\* One step of a result in the table (ingestComponentState, one round of its
\* loop), for a job whose plan names an environment, or for none.
LEMMA IngestIs ==
  ASSUME NEW job, NEW known, NEW step,
         ToldOK(step), NamesEnv(job)
  PROVE  \E base :
           /\ IsRemaining(base, job, step, known)
           /\ AfterFirst(Len(Told(step)), base, Told(step), Ingest(job, known, step))
<1>1. CASE step.outputs = NoOutput
  <2>1. Ingest(job, known, step) = known
    BY <1>1 DEF Ingest
  <2>2. IsRemaining(known, job, step, known)
    BY <1>1 DEF IsRemaining, Forgets
  <2>3. Len(Told(step)) = 0
    BY <1>1 DEF Told
  <2> QED
    BY <2>1, <2>2, <2>3, AfterNone
<1>2. CASE step.outputs # NoOutput
  <2>1. PICK told : told = step.outputs /\ IsASequence(told)
    BY <1>2 DEF ToldOK
  <2>2. PICK base : /\ IsRemaining(base, job, step, known)
                    /\ Ingest(job, known, step) = Upsert(base, told)
    <3>1. CASE IsInventory(job, step.id)
      <4>1. Ingest(job, known, step) = Replaced(known, job.plan.env, told)
        BY <1>2, <2>1, <3>1 DEF Ingest
      <4>2. job.plan.env # ""
        BY <3>1 DEF IsInventory, NamesEnv
      <4> DEFINE base == Restrict(known, {id \in DOMAIN known :
              ~ (known[id].env = job.plan.env /\ known[id].runtime = Kubernetes)})
      <4>3. IsRemaining(base, job, step, known)
        BY <1>2, <3>1 DEF IsRemaining, Forgets, Restrict
      <4>4. Replaced(known, job.plan.env, told) = Upsert(base, told)
        BY <4>2 DEF Replaced
      <4> QED
        BY <4>1, <4>3, <4>4
    <3>2. CASE ~ IsInventory(job, step.id)
      <4>1. IsRemaining(known, job, step, known)
        BY <3>2 DEF IsRemaining, Forgets
      <4> QED
        BY <1>2, <2>1, <3>2, <4>1 DEF Ingest
    <3> QED
      BY <3>1, <3>2
  <2>3. AfterFirst(Len(told), base, told, Upsert(base, told))
    BY <2>1, UpsertIs DEF IsASequence
  <2>4. Told(step) = told
    BY <1>2, <2>1 DEF Told
  <2> QED
    BY <2>1, <2>2, <2>3, <2>4
<1> QED
  BY <1>1, <1>2
\* A result whose outputs are sequences of components.
Readable(result) ==
  /\ IsASequence(result.steps)
  /\ \A i \in DOMAIN result.steps : ToldOK(result.steps[i])

LEMMA ToldIsSequence ==
  ASSUME NEW step, ToldOK(step)
  PROVE  Told(step) \in Seq(Range(Told(step)))
<1>1. CASE step.outputs = NoOutput
  <2>1. \A T : << >> \in Seq(T)
    OBVIOUS
  <2> QED
    BY <1>1, <2>1 DEF Told
<1>2. CASE step.outputs # NoOutput
  BY <1>2 DEF Told, ToldOK, IsASequence
<1> QED
  BY <1>1, <1>2

\* The tables a result leads through, one step after the other.
LeadsThrough(u, job, known, steps) ==
  /\ u[0] = known
  /\ \A i \in 1 .. Len(steps) : u[i] = Ingest(job, u[i - 1], steps[i])
  /\ Ingested(known, job, steps) = u[Len(steps)]

LEMMA IngestedIs ==
  ASSUME NEW job, NEW known, NEW steps, IsASequence(steps)
  PROVE  \E u : LeadsThrough(u, job, known, steps)
<1>1. Ingested(known, job, steps) = Ingests!Fold(job, known, steps)
  BY DEF Ingested, Ingests!Fold, FoldLeft, Ingests!FoldLeft, MapThenFoldSet,
         Ingests!MapThenFoldSet, Max, Ingests!Max
<1>2. \E u :
        /\ u[0] = known
        /\ \A i \in 1 .. Len(steps) : u[i] = Ingest(job, u[i - 1], steps[i])
        /\ Ingests!Fold(job, known, steps) = u[Len(steps)]
  BY Ingests!FoldLeftIs DEF IsASequence
<1> QED
  BY <1>1, <1>2 DEF LeadsThrough

\* One round of ingestComponentState, as IngestIs says it.
LEMMA Round ==
  ASSUME NEW result, Readable(result), NEW job, NamesEnv(job),
         NEW known, NEW u, LeadsThrough(u, job, known, result.steps),
         NEW k \in Nat, k < Len(result.steps)
  PROVE  /\ k + 1 \in DOMAIN result.steps
         /\ \E base :
              /\ IsRemaining(base, job, result.steps[k + 1], u[k])
              /\ AfterFirst(Len(Told(result.steps[k + 1])), base,
                            Told(result.steps[k + 1]), u[k + 1])
<1>1. PICK n \in Nat : n = Len(result.steps) /\ DOMAIN result.steps = 1 .. n
  BY DEF Readable, IsASequence
<1>2. k + 1 \in 1 .. n /\ k + 1 - 1 = k
  BY <1>1
<1>3. u[k + 1] = Ingest(job, u[k], result.steps[k + 1])
  BY <1>1, <1>2 DEF LeadsThrough
<1>4. ToldOK(result.steps[k + 1])
  BY <1>1, <1>2 DEF Readable
<1> QED
  BY <1>1, <1>2, <1>3, <1>4, IngestIs

\* The table is keyed by each component's own, non-empty ID.
KeyedByID(table) == \A id \in DOMAIN table : id # "" /\ table[id].id = id

LEMMA AfterFirstKeyed ==
  ASSUME NEW k, NEW known, NEW told, NEW table, AfterFirst(k, known, told, table),
         KeyedByID(known)
  PROVE  KeyedByID(table)
BY DEF AfterFirst, KeyedByID

LEMMA IngestedKeyed ==
  ASSUME NEW result, Readable(result), NEW job, NamesEnv(job),
         NEW known, KeyedByID(known)
  PROVE  KeyedByID(Ingested(known, job, result.steps))
<1>1. PICK n \in Nat : n = Len(result.steps)
  BY DEF Readable, IsASequence
<1>2. PICK u : LeadsThrough(u, job, known, result.steps)
  BY IngestedIs DEF Readable
<1> DEFINE A == {k \in Nat : k <= n => KeyedByID(u[k])}
<1>3. 0 \in A
  BY <1>2 DEF LeadsThrough
<1>4. ASSUME NEW k \in Nat, k \in A PROVE k + 1 \in A
  <2> SUFFICES ASSUME k + 1 <= n PROVE KeyedByID(u[k + 1])
    OBVIOUS
  <2>1. KeyedByID(u[k]) /\ k < Len(result.steps)
    BY <1>1, <1>4
  <2>2. PICK base : /\ IsRemaining(base, job, result.steps[k + 1], u[k])
                    /\ AfterFirst(Len(Told(result.steps[k + 1])), base,
                                  Told(result.steps[k + 1]), u[k + 1])
    BY <1>2, <2>1, Round
  <2>3. KeyedByID(base)
    BY <2>1, <2>2 DEF KeyedByID, IsRemaining
  <2> QED
    BY <2>2, <2>3, AfterFirstKeyed
<1> HIDE DEF A
<1>5. \A k \in Nat : k \in A
  BY <1>3, <1>4, Ingests!InductionInSet
<1> QED
  BY <1>1, <1>2, <1>5 DEF A, LeadsThrough

\* A component that is told of is a mention.
LEMMA ToldIsMentioned ==
  ASSUME NEW result, Readable(result), NEW s \in DOMAIN result.steps,
         NEW i \in 1 .. Len(Told(result.steps[s]))
  PROVE  /\ result.steps[s].outputs # NoOutput
         /\ i \in DOMAIN result.steps[s].outputs
         /\ <<s, i>> \in Mentions(result)
         /\ Told(result.steps[s])[i] = Mentioned(result, <<s, i>>)
<1>1. result.steps[s].outputs # NoOutput
  <2>1. SUFFICES ASSUME Told(result.steps[s]) = << >> PROVE FALSE
    BY DEF Told
  <2>2. 1 .. Len(Told(result.steps[s])) = {}
    BY <2>1
  <2> QED
    BY <2>2
<1>2. PICK told : told = result.steps[s].outputs /\ Told(result.steps[s]) = told
  BY <1>1 DEF Told
<1>3. told \in Seq(Range(told))
  BY <1>1, <1>2 DEF Readable, IsASequence, ToldOK
<1>4. i \in DOMAIN told
  BY <1>2, <1>3
<1>5. <<s, i>> \in Mentions(result)
  BY <1>1, <1>2, <1>4 DEF Mentions
<1> QED
  BY <1>1, <1>2, <1>4, <1>5 DEF Mentioned

\* What a result makes the store forget, an inventory of its environment forgot.
LEMMA ForgottenByInventory ==
  ASSUME NEW result, Readable(result), NEW job, NamesEnv(job),
         NEW id \in DOMAIN components,
         id \notin DOMAIN Ingested(components, job, result.steps)
  PROVE  \E component \in SaidOf(result, id) :
           /\ component.runtime = Kubernetes /\ component.env = job.plan.env
           /\ job # None /\ job.plan.app = InventoryApp
<1>1. PICK n \in Nat : n = Len(result.steps)
  BY DEF Readable, IsASequence
<1>2. PICK u : LeadsThrough(u, job, components, result.steps)
  BY IngestedIs DEF Readable
<1> SUFFICES ASSUME \A component \in SaidOf(result, id) :
                      ~ /\ component.runtime = Kubernetes /\ component.env = job.plan.env
                        /\ job # None /\ job.plan.app = InventoryApp
             PROVE  FALSE
  OBVIOUS
<1> DEFINE A == {k \in Nat : k <= n => id \in DOMAIN u[k] /\ u[k][id] \in SaidOf(result, id)}
<1>3. 0 \in A
  BY <1>2 DEF LeadsThrough, SaidOf
<1>4. ASSUME NEW k \in Nat, k \in A PROVE k + 1 \in A
  <2> SUFFICES ASSUME k + 1 <= n
               PROVE  id \in DOMAIN u[k + 1] /\ u[k + 1][id] \in SaidOf(result, id)
    OBVIOUS
  <2>1. /\ id \in DOMAIN u[k] /\ u[k][id] \in SaidOf(result, id)
        /\ k < Len(result.steps)
    BY <1>1, <1>4
  <2> HIDE DEF A
  <2>2. k + 1 \in DOMAIN result.steps
    BY <1>2, <2>1, Round
  <2>3. PICK base : /\ IsRemaining(base, job, result.steps[k + 1], u[k])
                    /\ AfterFirst(Len(Told(result.steps[k + 1])), base,
                                  Told(result.steps[k + 1]), u[k + 1])
    BY <1>2, <2>1, Round
  <2>4. id \in DOMAIN base /\ base[id] = u[k][id]
    BY <2>1, <2>3 DEF IsRemaining, Forgets, IsInventory
  <2>5. /\ id \in DOMAIN u[k + 1]
        /\ \/ u[k + 1][id] = base[id]
           \/ \E i \in 1 .. Len(Told(result.steps[k + 1])) :
                /\ Told(result.steps[k + 1])[i].id = id
                /\ u[k + 1][id] = Told(result.steps[k + 1])[i]
    BY <2>3, <2>4 DEF AfterFirst
  <2>6. ASSUME NEW i \in 1 .. Len(Told(result.steps[k + 1])),
               Told(result.steps[k + 1])[i].id = id
        PROVE  Told(result.steps[k + 1])[i] \in SaidOf(result, id)
    <3>1. \E m \in Mentions(result) : Told(result.steps[k + 1])[i] = Mentioned(result, m)
      BY <2>2, ToldIsMentioned
    <3> QED
      BY <2>6, <3>1 DEF SaidOf
  <2> QED
    BY <2>1, <2>4, <2>5, <2>6
<1> HIDE DEF A
<1>5. \A k \in Nat : k \in A
  BY <1>3, <1>4, Ingests!InductionInSet
<1> QED
  BY <1>1, <1>2, <1>5 DEF A, LeadsThrough
-----------------------------------------------------------------------------
(* The whole store. *)

BundlesMade ==
  Bundles \cup {Bundle(job, r) : job \in Jobs \cup {None}, r \in Results}

\* The inductive invariant: QueueInv, and the rest of what StoreTypeOK and
\* AttributedOnce need.
StoreInv ==
  /\ QueueInv
  /\ completed \in Seq(Results)
  /\ evidence \in Seq(BundlesMade)
  /\ Len(completed) <= Len(evidence)
  /\ KeyedByID(components)
  /\ AttributedOnce

\* The bundles that took the claimed entry of an ID, and the submissions under
\* it that were handed out.
AttributedTo(id) ==
  {b \in DOMAIN evidence :
     evidence[b].job = id /\ evidence[b].enq > 0 /\ evidence[b].app # ""}
HandedOutUnder(id) ==
  {e \in DOMAIN submitted : submitted[e].job.id = id /\ ~ IsPending(e)}

AttributedOnceFor(id) ==
  Cardinality(AttributedTo(id)) + (IF claimed[id] = None THEN 0 ELSE 1)
    <= Cardinality(HandedOutUnder(id))

LEMMA PositionsFinite ==
  ASSUME NEW T, NEW s \in Seq(T), NEW P \in SUBSET DOMAIN s
  PROVE  IsFiniteSet(P) /\ Cardinality(P) \in Nat
<1>1. DOMAIN s = 1 .. Len(s) /\ Len(s) \in Nat
  OBVIOUS
<1>2. IsFiniteSet(DOMAIN s)
  BY <1>1, FS_Interval
<1> QED
  BY <1>2, FS_Subset, FS_CardinalityType

LEMMA AttributedOnceIs ==
  AttributedOnce <=> \A id \in JobIDs : AttributedOnceFor(id)
BY DEF AttributedOnce, AttributedOnceFor, AttributedTo, HandedOutUnder

LEMMA Counts ==
  ASSUME StoreInv, NEW id
  PROVE  /\ IsFiniteSet(AttributedTo(id)) /\ Cardinality(AttributedTo(id)) \in Nat
         /\ IsFiniteSet(HandedOutUnder(id)) /\ Cardinality(HandedOutUnder(id)) \in Nat
<1>1. evidence \in Seq(BundlesMade) /\ submitted \in Seq(Envelopes(Jobs, Keys))
  BY DEF StoreInv, QueueInv, QueueTypeOK
<1>2. AttributedTo(id) \subseteq DOMAIN evidence /\ HandedOutUnder(id) \subseteq DOMAIN submitted
  BY DEF AttributedTo, HandedOutUnder
<1> QED
  BY <1>1, <1>2, PositionsFinite

\* A step that adds no attributed bundle and no claim, and puts nothing back into
\* the queue.
LEMMA NothingAttributed ==
  ASSUME StoreInv, QueueInv', NEW id \in JobIDs,
         AttributedTo(id)' = AttributedTo(id),
         claimed[id] = None => claimed'[id] = None,
         HandedOutUnder(id) \subseteq HandedOutUnder(id)'
  PROVE  AttributedOnceFor(id)'
<1>1. IsFiniteSet(HandedOutUnder(id)') /\ Cardinality(HandedOutUnder(id)') \in Nat
  <2>1. submitted' \in Seq(Envelopes(Jobs, Keys))
    BY DEF QueueInv, QueueTypeOK
  <2>2. HandedOutUnder(id)' \subseteq DOMAIN submitted'
    BY DEF HandedOutUnder
  <2> QED
    BY <2>1, <2>2, PositionsFinite
<1>2. Cardinality(HandedOutUnder(id)) <= Cardinality(HandedOutUnder(id)')
  BY <1>1, FS_Subset
<1>3. AttributedOnceFor(id)
  BY AttributedOnceIs DEF StoreInv
<1> QED
  BY <1>1, <1>2, <1>3, Counts DEF AttributedOnceFor

\* Enqueue: what was handed out still was.
LEMMA EnqueueKeepsStoreInv ==
  ASSUME StoreInv, NEW job \in Jobs, NEW key \in Keys, Enqueue(job, key)
  PROVE  StoreInv'
<1> DEFINE signed == [job |-> job, key |-> key, enq |-> Len(submitted) + 1]
<1>1. QueueInv'
  BY EnqueueKeepsQueueInv DEF StoreInv
<1>2. /\ pending' = Append(pending, signed) /\ submitted' = Append(submitted, signed)
      /\ UNCHANGED <<claimed, completed, evidence, components>>
      /\ signed.enq = Len(submitted) + 1
  BY DEF Enqueue
<1> HIDE DEF signed
<1>3. /\ pending \in Seq(Envelopes(Jobs, Keys)) /\ submitted \in Seq(Envelopes(Jobs, Keys))
      /\ pending' \in Seq(Envelopes(Jobs, Keys)) /\ submitted' \in Seq(Envelopes(Jobs, Keys))
  BY <1>1 DEF StoreInv, QueueInv, QueueTypeOK
<1>4. /\ DOMAIN submitted \subseteq DOMAIN submitted'
      /\ \A e \in DOMAIN submitted : submitted'[e] = submitted[e] /\ e # signed.enq
      /\ \A i \in DOMAIN pending' :
           \/ i \in DOMAIN pending /\ pending'[i] = pending[i]
           \/ pending'[i] = signed
  BY <1>2, <1>3
<1>5. \A e \in DOMAIN submitted : IsPending(e)' => IsPending(e)
  BY <1>4 DEF IsPending
<1>6. ASSUME NEW id \in JobIDs PROVE AttributedOnceFor(id)'
  <2>1. HandedOutUnder(id) \subseteq HandedOutUnder(id)'
    BY <1>4, <1>5 DEF HandedOutUnder
  <2>2. AttributedTo(id)' = AttributedTo(id)
    BY <1>2 DEF AttributedTo
  <2> QED
    BY <1>1, <1>2, <2>1, <2>2, NothingAttributed
<1>7. AttributedOnce'
  BY <1>2, <1>6 DEF AttributedOnce, AttributedOnceFor, AttributedTo, HandedOutUnder
<1> QED
  BY <1>1, <1>2, <1>7 DEF StoreInv, KeyedByID

\* What the queue loses to a claim, and nothing else.
LEMMA ClaimTakesOne ==
  ASSUME QueueInv, NEW info, NEW i \in DOMAIN pending, Claim(info, i)
  PROVE  \A e : IsPending(e)' => IsPending(e) /\ e # pending[i].enq
<1>1. /\ pending \in Seq(Envelopes(Jobs, Keys)) /\ i \in 1 .. Len(pending)
      /\ pending' = Ingests!RemoveAt(pending, i)
  BY DEF Claim, QueueInv, QueueTypeOK, RemoveAt, Ingests!RemoveAt
<1>2. /\ pending' \in Seq(Envelopes(Jobs, Keys))
      /\ Len(pending') = Len(pending) - 1
      /\ \A j \in 1 .. Len(pending) - 1 :
           pending'[j] = IF j < i THEN pending[j] ELSE pending[j + 1]
  BY <1>1, Ingests!RemoveAtIs
<1>3. \A j \in DOMAIN pending' :
        \E k \in DOMAIN pending : k # i /\ pending'[j] = pending[k]
  <2> TAKE j \in DOMAIN pending'
  <2>1. j \in 1 .. Len(pending) - 1 /\ Len(pending) \in Nat /\ j \in Nat
    BY <1>1, <1>2
  <2>2. CASE j < i
    BY <1>1, <1>2, <2>1, <2>2
  <2>3. CASE ~ (j < i)
    <3>1. j + 1 \in DOMAIN pending /\ j + 1 # i
      BY <1>1, <2>1, <2>3
    <3> QED
      BY <1>2, <2>1, <2>3, <3>1
  <2> QED
    BY <2>2, <2>3
<1>4. \A k \in DOMAIN pending : k # i => pending[k].enq # pending[i].enq
  <2>1. \A k \in DOMAIN pending : pending[k].enq \in Nat /\ k \in Nat
    <3>1. DOMAIN pending = 1 .. Len(pending) /\ Len(pending) \in Nat
      BY <1>1
    <3>2. \A k \in DOMAIN pending : pending[k] \in Envelopes(Jobs, Keys)
      BY <1>1, <3>1
    <3>3. \A signed \in Envelopes(Jobs, Keys) : signed.enq \in Nat
      BY DEF Envelopes
    <3> QED
      BY <3>1, <3>2, <3>3
  <2>2. \A k \in DOMAIN pending : k < i \/ k = i \/ i < k
    BY <1>1, <2>1
  <2> QED
    BY <2>1, <2>2 DEF QueueInv, QueueInOrder
<1> QED
  BY <1>3, <1>4 DEF IsPending

\* Claim: one more submission is handed out, for at most one more entry.
LEMMA ClaimKeepsStoreInv ==
  ASSUME StoreInv, NEW info, NEW i \in DOMAIN pending, Claim(info, i)
  PROVE  StoreInv'
<1>1. QueueInv'
  BY ClaimKeepsQueueInv DEF StoreInv
<1>2. /\ UNCHANGED <<completed, evidence, components, submitted>>
      /\ claimed' = [claimed EXCEPT ![pending[i].job.id] = pending[i].job]
      /\ claimed \in [JobIDs -> Jobs \cup {None}]
  BY DEF Claim, StoreInv, QueueInv, QueueTypeOK
<1>3. PICK e0 \in DOMAIN submitted : pending[i].enq = e0 /\ pending[i] = submitted[e0]
  BY DEF StoreInv, QueueInv, QueueHoldsSubmissions
<1>4. /\ IsPending(e0)
      /\ \A e : IsPending(e)' => IsPending(e) /\ e # e0
  BY <1>3, ClaimTakesOne DEF StoreInv, IsPending
<1>5. ASSUME NEW id \in JobIDs PROVE AttributedOnceFor(id)'
  <2>1. AttributedTo(id)' = AttributedTo(id)
    BY <1>2 DEF AttributedTo
  <2>2. HandedOutUnder(id) \subseteq HandedOutUnder(id)'
    BY <1>2, <1>4 DEF HandedOutUnder
  <2>3. CASE id # pending[i].job.id
    <3>1. claimed'[id] = claimed[id]
      BY <1>2, <2>3
    <3> QED
      BY <1>1, <2>1, <2>2, <3>1, NothingAttributed
  <2>4. CASE id = pending[i].job.id
    <3>1. e0 \notin HandedOutUnder(id) /\ HandedOutUnder(id) \cup {e0} \subseteq HandedOutUnder(id)'
      BY <1>2, <1>3, <1>4, <2>2, <2>4 DEF HandedOutUnder
    <3>2. IsFiniteSet(HandedOutUnder(id)') /\ Cardinality(HandedOutUnder(id)') \in Nat
      <4>1. submitted' \in Seq(Envelopes(Jobs, Keys))
        BY <1>1 DEF QueueInv, QueueTypeOK
      <4>2. HandedOutUnder(id)' \subseteq DOMAIN submitted'
        BY DEF HandedOutUnder
      <4> QED
        BY <4>1, <4>2, PositionsFinite
    <3>3. Cardinality(HandedOutUnder(id) \cup {e0}) = Cardinality(HandedOutUnder(id)) + 1
      BY <3>1, Counts, FS_AddElement
    <3>4. Cardinality(HandedOutUnder(id) \cup {e0}) <= Cardinality(HandedOutUnder(id)')
      BY <3>1, <3>2, FS_Subset
    <3>5. AttributedOnceFor(id)
      BY AttributedOnceIs DEF StoreInv
    <3> QED
      BY <2>1, <3>2, <3>3, <3>4, <3>5, Counts DEF AttributedOnceFor
  <2> QED
    BY <2>3, <2>4
<1>6. AttributedOnce'
  BY <1>5 DEF AttributedOnce, AttributedOnceFor, AttributedTo, HandedOutUnder
<1> QED
  BY <1>1, <1>2, <1>6 DEF StoreInv, KeyedByID

\* What a completion adds: one result, one bundle, attributed only if the entry
\* of the result's ID was there, which then is gone.
LEMMA CompleteKeepsStoreInv ==
  ASSUME StoreInv, NEW r \in Results, Complete(r)
  PROVE  StoreInv'
<1> DEFINE bundle == Bundle(Context(r), r)
<1>1. /\ UNCHANGED <<pending, submitted>>
      /\ completed' = Append(completed, r)
      /\ evidence' = Append(evidence, bundle)
      /\ claimed' = Settle(r)
      /\ components' = Ingested(components, Context(r), r.steps)
  BY DEF Complete
<1>2. /\ claimed \in [JobIDs -> Jobs \cup {None}]
      /\ completed \in Seq(Results) /\ evidence \in Seq(BundlesMade)
      /\ Len(completed) <= Len(evidence)
  BY DEF StoreInv, QueueInv, QueueTypeOK
<1>3. QueueInv'
  <2>1. claimed' \in [JobIDs -> Jobs \cup {None}]
    BY <1>1, <1>2 DEF Settle
  <2> QED
    BY <1>1, <2>1, OthersKeepQueueInv DEF StoreInv
<1>4. Context(r) \in Jobs \cup {None}
  BY <1>2 DEF Context
<1>5. bundle \in BundlesMade
  BY <1>4 DEF BundlesMade
<1>6. bundle.job = r.job /\ (Context(r) = None => bundle.app = "")
  BY DEF Bundle
<1> HIDE DEF bundle
<1>7. /\ completed' \in Seq(Results) /\ evidence' \in Seq(BundlesMade)
      /\ Len(completed') <= Len(evidence')
  BY <1>1, <1>2, <1>5
<1>8. KeyedByID(components')
  <2>1. Readable(r)
    BY ReportsAssumption DEF Readable, ToldOK
  <2>2. NamesEnv(Context(r))
    BY <1>4, JobsAssumption DEF NamesEnv
  <2>3. KeyedByID(components)
    BY DEF StoreInv
  <2> QED
    BY <1>1, <2>1, <2>2, <2>3, IngestedKeyed
<1>n. PICK n \in Nat : n = Len(evidence) + 1
  BY <1>2
<1>9. /\ n \notin DOMAIN evidence /\ DOMAIN evidence' = DOMAIN evidence \cup {n}
      /\ \A b \in DOMAIN evidence : evidence'[b] = evidence[b]
      /\ evidence'[n] = bundle
  BY <1>1, <1>2, <1>5, <1>n
<1>10. ASSUME NEW id \in JobIDs PROVE AttributedOnceFor(id)'
  <2>1. HandedOutUnder(id)' = HandedOutUnder(id)
    BY <1>1 DEF HandedOutUnder, IsPending
  <2>2. CASE id # r.job \/ claimed[id] = None
    <3>1. id = r.job => bundle.app = ""
      BY <1>6, <2>2 DEF Context
    <3>2. AttributedTo(id)' = AttributedTo(id)
      BY <1>6, <1>9, <3>1, <2>2 DEF AttributedTo
    <3>3. claimed[id] = None => claimed'[id] = None
      BY <1>1 DEF Settle
    <3> QED
      BY <1>3, <2>1, <3>2, <3>3, NothingAttributed
  <2>3. CASE id = r.job /\ claimed[id] # None
    <3>1. AttributedTo(id)' \subseteq AttributedTo(id) \cup {n}
      BY <1>9 DEF AttributedTo
    <3>2. /\ IsFiniteSet(AttributedTo(id) \cup {n})
          /\ Cardinality(AttributedTo(id) \cup {n}) \in Nat
          /\ Cardinality(AttributedTo(id) \cup {n}) <= Cardinality(AttributedTo(id)) + 1
      <4>1. IsFiniteSet(AttributedTo(id)) /\ Cardinality(AttributedTo(id)) \in Nat
        BY Counts
      <4>2. PICK N : N = AttributedTo(id)
        OBVIOUS
      <4>3. /\ IsFiniteSet(N \cup {n})
            /\ Cardinality(N \cup {n}) = IF n \in N THEN Cardinality(N) ELSE Cardinality(N) + 1
        BY <4>1, <4>2, FS_AddElement
      <4> QED
        BY <4>1, <4>2, <4>3
    <3>3. /\ Cardinality(AttributedTo(id)') <= Cardinality(AttributedTo(id) \cup {n})
          /\ Cardinality(AttributedTo(id)') \in Nat
      BY <3>1, <3>2, FS_Subset, FS_CardinalityType
    <3>4. AttributedOnceFor(id)
      BY AttributedOnceIs DEF StoreInv
    <3>5. claimed'[id] = None
      BY <1>1, <2>3 DEF Settle
    <3> QED
      BY <2>1, <2>3, <3>2, <3>3, <3>4, <3>5, Counts DEF AttributedOnceFor
  <2> QED
    BY <2>2, <2>3
<1>11. AttributedOnce'
  BY <1>10 DEF AttributedOnce, AttributedOnceFor, AttributedTo, HandedOutUnder
<1> QED
  BY <1>3, <1>7, <1>8, <1>11 DEF StoreInv

\* Record, UpsertComponents and a claim of nothing.
LEMMA OthersKeepStoreInv ==
  ASSUME StoreInv,
         \/ \E info \in Infos : ClaimNothing(info)
         \/ \E b \in Bundles : Record(b)
         \/ \E reported \in Reports : UpsertComponents(reported)
         \/ UNCHANGED storeVars
  PROVE  StoreInv'
<1>1. UNCHANGED <<pending, claimed, completed, submitted>>
  BY DEF ClaimNothing, Record, UpsertComponents, storeVars
<1>2. QueueInv'
  <2>1. claimed' \in [JobIDs -> Jobs \cup {None}]
    BY <1>1 DEF StoreInv, QueueInv, QueueTypeOK
  <2> QED
    BY <1>1, <2>1, OthersKeepQueueInv DEF StoreInv
<1>3. /\ evidence' \in Seq(BundlesMade) /\ Len(evidence) <= Len(evidence')
      /\ \A id \in JobIDs : AttributedTo(id)' = AttributedTo(id)
  <2>1. CASE evidence' = evidence
    BY <2>1 DEF StoreInv, AttributedTo
  <2>2. ASSUME NEW b \in Bundles, Record(b)
        PROVE  /\ evidence' \in Seq(BundlesMade) /\ Len(evidence) <= Len(evidence')
               /\ \A id \in JobIDs : AttributedTo(id)' = AttributedTo(id)
    <3>1. b \in BundlesMade /\ b.enq = 0
      BY BundlesAssumption DEF BundlesMade
    <3>2. evidence' = Append(evidence, b) /\ evidence \in Seq(BundlesMade)
      BY <2>2 DEF Record, StoreInv
    <3>3. /\ DOMAIN evidence' = DOMAIN evidence \cup {Len(evidence) + 1}
          /\ Len(evidence) + 1 \notin DOMAIN evidence
          /\ \A n \in DOMAIN evidence : evidence'[n] = evidence[n]
          /\ evidence'[Len(evidence) + 1] = b
      BY <3>1, <3>2
    <3>4. ~ (b.enq > 0)
      BY <3>1
    <3>5. \A id \in JobIDs : AttributedTo(id)' = AttributedTo(id)
      BY <3>3, <3>4 DEF AttributedTo
    <3> QED
      BY <3>1, <3>2, <3>5
  <2> QED
    BY <2>1, <2>2 DEF ClaimNothing, UpsertComponents, storeVars
<1>4. KeyedByID(components')
  <2>1. CASE components' = components
    BY <2>1 DEF StoreInv, KeyedByID
  <2>2. ASSUME NEW reported \in Reports, UpsertComponents(reported)
        PROVE  KeyedByID(components')
    <3>1. reported \in Seq(Range(reported))
      BY ReportsAssumption DEF IsASequence
    <3>2. AfterFirst(Len(reported), components, reported, Upsert(components, reported))
      BY <3>1, UpsertIs
    <3> QED
      BY <2>2, <3>2, AfterFirstKeyed DEF UpsertComponents, StoreInv
  <2> QED
    BY <2>1, <2>2 DEF ClaimNothing, Record, storeVars
<1>5. ASSUME NEW id \in JobIDs PROVE AttributedOnceFor(id)'
  <2>1. HandedOutUnder(id)' = HandedOutUnder(id)
    BY <1>1 DEF HandedOutUnder, IsPending
  <2> QED
    BY <1>1, <1>2, <1>3, <2>1, NothingAttributed
<1>6. AttributedOnce'
  BY <1>5 DEF AttributedOnce, AttributedOnceFor, AttributedTo, HandedOutUnder
<1>7. Len(completed') <= Len(evidence')
  BY <1>1, <1>3 DEF StoreInv
<1> QED
  BY <1>1, <1>2, <1>3, <1>4, <1>6, <1>7 DEF StoreInv

\* Every step, and the first state.
LEMMA StoreInvHolds == StoreSpec => []StoreInv
<1>1. StoreInit => StoreInv
  <2> SUFFICES ASSUME StoreInit PROVE StoreInv
    OBVIOUS
  <2>1. QueueInv
    BY DEF StoreInit, QueueInv, QueueTypeOK, QueueHoldsSubmissions, QueueInOrder,
           NoOvertaking, IsPending
  <2>2. AttributedOnce
    <3>1. ASSUME NEW id \in JobIDs PROVE AttributedOnceFor(id)
      <4>1. AttributedTo(id) = {} /\ HandedOutUnder(id) = {} /\ claimed[id] = None
        BY DEF StoreInit, AttributedTo, HandedOutUnder
      <4> QED
        BY <4>1, FS_EmptySet DEF AttributedOnceFor
    <3> QED
      BY <3>1, AttributedOnceIs
  <2>3. KeyedByID(components)
    <3>1. DOMAIN components = {}
      BY DEF StoreInit
    <3> QED
      BY <3>1 DEF KeyedByID
  <2> QED
    BY <2>1, <2>2, <2>3 DEF StoreInit, StoreInv
<1>2. ASSUME StoreInv, [StoreNext]_storeVars PROVE StoreInv'
  BY <1>2, EnqueueKeepsStoreInv, ClaimKeepsStoreInv, CompleteKeepsStoreInv,
     OthersKeepStoreInv DEF StoreNext
<1> QED
  BY <1>1, <1>2, PTL DEF StoreSpec

\* The store keeps its types: in particular its table of components is keyed by
\* each component's own ID, whatever callers report.
THEOREM StoreTypesKept == StoreSpec => []StoreTypeOK
<1>1. StoreInv => StoreTypeOK
  BY DEF StoreInv, StoreTypeOK, QueueInv, QueueTypeOK, KeyedByID
<1> QED
  BY <1>1, StoreInvHolds, PTL

\* No more bundles are attributed under an ID than submissions of it were handed
\* out, whatever is posted to /api/complete (Store.Complete).
THEOREM EvidenceAttributedOnce == StoreSpec => []AttributedOnce
<1>1. StoreInv => AttributedOnce
  BY DEF StoreInv
<1> QED
  BY <1>1, StoreInvHolds, PTL

\* A component is forgotten only by a claimed inventory of the environment it was
\* known or just reported in (replaceKubernetesComponentsLocked).
THEOREM OnlyInventoriesForget == StoreSpec => ForgottenOnlyByInventory
<1> DEFINE Justified(id) ==
             \E job \in JobIDs, component \in SaidOf(Last(completed'), id) :
               /\ component.runtime = Kubernetes
               /\ claimed[job] # None /\ claimed'[job] = None
               /\ claimed[job].plan.app = InventoryApp
               /\ claimed[job].plan.env = component.env
<1>1. ASSUME StoreInv, [StoreNext]_storeVars,
             NEW id \in DOMAIN components \ DOMAIN components'
      PROVE  Justified(id)
  <2>1. CASE components' = components
    BY <1>1, <2>1
  <2>2. ASSUME NEW reported \in Reports, UpsertComponents(reported) PROVE FALSE
    <3>1. reported \in Seq(Range(reported))
      BY ReportsAssumption DEF IsASequence
    <3>2. AfterFirst(Len(reported), components, reported, Upsert(components, reported))
      BY <3>1, UpsertIs
    <3> QED
      BY <1>1, <2>2, <3>2 DEF UpsertComponents, AfterFirst
  <2>3. ASSUME NEW r \in Results, Complete(r) PROVE Justified(id)
    <3>1. /\ components' = Ingested(components, Context(r), r.steps)
          /\ claimed' = Settle(r) /\ completed' = Append(completed, r)
      BY <2>3 DEF Complete
    <3>2. Readable(r)
      BY ReportsAssumption DEF Readable, ToldOK
    <3>3. Context(r) \in Jobs \cup {None}
      BY <1>1 DEF Context, StoreInv, QueueInv, QueueTypeOK
    <3>4. NamesEnv(Context(r))
      BY <3>3, JobsAssumption DEF NamesEnv
    <3>5. PICK component \in SaidOf(r, id) :
            /\ component.runtime = Kubernetes /\ component.env = Context(r).plan.env
            /\ Context(r) # None /\ Context(r).plan.app = InventoryApp
      BY <1>1, <3>1, <3>2, <3>4, ForgottenByInventory
    <3>6. r.job \in JobIDs /\ Context(r) = claimed[r.job]
      BY <3>5 DEF Context
    <3>7. claimed'[r.job] = None
      BY <3>1, <3>6 DEF Settle
    <3>8. Last(completed') = r
      <4>1. completed \in Seq(Results)
        BY <1>1 DEF StoreInv
      <4> QED
        BY <3>1, <4>1 DEF Last
    <3> QED
      BY <3>5, <3>6, <3>7, <3>8
  <2> QED
    BY <1>1, <2>1, <2>2, <2>3
    DEF StoreNext, Enqueue, Claim, ClaimNothing, Record, storeVars
<1>2. StoreInv /\ [StoreNext]_storeVars =>
        [\A id \in DOMAIN components \ DOMAIN components' : Justified(id)]_storeVars
  BY <1>1
<1> QED
  BY <1>2, StoreInvHolds, PTL DEF StoreSpec, ForgottenOnlyByInventory

-----------------------------------------------------------------------------
(* The reference definition of the table. *)

\* After its first k steps a result has left c as what is known of id: it was
\* known before, or is the last of the mentions of id so far; and no inventory
\* since forgot it.
Holds(result, job, known, k, id, c) ==
  \/ /\ id \in DOMAIN known /\ c = known[id]
     /\ \A t \in 1 .. k :
          /\ ~ Forgets(job, result.steps[t], c)
          /\ \A q \in 1 .. Len(Told(result.steps[t])) : Told(result.steps[t])[q].id # id
  \/ /\ id # ""
     /\ \E s \in 1 .. k : \E p \in 1 .. Len(Told(result.steps[s])) :
          /\ c = Told(result.steps[s])[p] /\ c.id = id
          /\ \A q \in p + 1 .. Len(Told(result.steps[s])) : Told(result.steps[s])[q].id # id
          /\ \A t \in s + 1 .. k :
               /\ ~ Forgets(job, result.steps[t], c)
               /\ \A q \in 1 .. Len(Told(result.steps[t])) : Told(result.steps[t])[q].id # id

\* One round: what is said of an ID now, or what was left of what held before.
SaidLast(told, id, c) ==
  \E i \in 1 .. Len(told) :
    /\ c = told[i] /\ told[i].id = id
    /\ \A j \in i + 1 .. Len(told) : told[j].id # id

SaysOf(table, known, told, id, c) ==
  id \in DOMAIN table /\ table[id] = c <=>
    \/ /\ id \in DOMAIN known /\ known[id] = c
       /\ \A j \in 1 .. Len(told) : told[j].id # id
    \/ id # "" /\ SaidLast(told, id, c)

LEMMA AfterFirstSaysLast ==
  ASSUME NEW T, NEW told \in Seq(T), NEW known, KeyedByID(known), NEW table,
         AfterFirst(Len(told), known, told, table), NEW id, NEW c
  PROVE  SaysOf(table, known, told, id, c)
<1>n. PICK n \in Nat : n = Len(told)
  OBVIOUS
<1>1. /\ DOMAIN known \subseteq DOMAIN table
      /\ \A j \in 1 .. n : told[j].id # "" => told[j].id \in DOMAIN table
      /\ \A i \in DOMAIN table :
           \/ /\ i \in DOMAIN known /\ table[i] = known[i]
              /\ \A j \in 1 .. n : told[j].id # "" => told[j].id # i
           \/ \E l \in 1 .. n :
                /\ told[l].id = i /\ i # "" /\ table[i] = told[l]
                /\ \A j \in l + 1 .. n : told[j].id # i
  BY <1>n DEF AfterFirst
<1>2. id \in DOMAIN known => id # ""
  BY DEF KeyedByID
<1>3. ASSUME id \in DOMAIN table, table[id] = c
      PROVE  \/ /\ id \in DOMAIN known /\ known[id] = c
                /\ \A j \in 1 .. n : told[j].id # id
             \/ id # "" /\ SaidLast(told, id, c)
  <2>1. CASE /\ id \in DOMAIN known /\ table[id] = known[id]
             /\ \A j \in 1 .. n : told[j].id # "" => told[j].id # id
    BY <1>2, <1>3, <2>1
  <2>2. CASE \E l \in 1 .. n :
               /\ told[l].id = id /\ id # "" /\ table[id] = told[l]
               /\ \A j \in l + 1 .. n : told[j].id # id
    BY <1>n, <1>3, <2>2 DEF SaidLast
  <2> QED
    BY <1>1, <1>3, <2>1, <2>2
<1>4. ASSUME id \in DOMAIN known, known[id] = c, \A j \in 1 .. n : told[j].id # id
      PROVE  id \in DOMAIN table /\ table[id] = c
  BY <1>1, <1>4
<1>5. ASSUME id # "", SaidLast(told, id, c)
      PROVE  id \in DOMAIN table /\ table[id] = c
  <2>1. PICK i \in 1 .. n : /\ c = told[i] /\ told[i].id = id
                            /\ \A j \in i + 1 .. n : told[j].id # id
    BY <1>n, <1>5 DEF SaidLast
  <2>2. id \in DOMAIN table
    BY <1>1, <1>5, <2>1
  <2>3. PICK l \in 1 .. n : /\ told[l].id = id /\ table[id] = told[l]
                            /\ \A j \in l + 1 .. n : told[j].id # id
    BY <1>1, <1>5, <2>1, <2>2
  <2>4. l = i
    <3>1. ~ (l < i)
      <4>1. l < i => i \in l + 1 .. n
        OBVIOUS
      <4> QED
        BY <2>1, <2>3, <4>1
    <3>2. ~ (i < l)
      <4>1. i < l => l \in i + 1 .. n
        OBVIOUS
      <4> QED
        BY <2>1, <2>3, <4>1
    <3> QED
      BY <3>1, <3>2
  <2> QED
    BY <2>1, <2>2, <2>3, <2>4
<1> QED
  BY <1>n, <1>3, <1>4, <1>5 DEF SaysOf

LEMMA HoldsNext ==
  ASSUME NEW result, NEW job, NEW known, KeyedByID(known), NEW k \in Nat, NEW id, NEW c
  PROVE  Holds(result, job, known, k + 1, id, c) <=>
           \/ /\ Holds(result, job, known, k, id, c)
              /\ ~ Forgets(job, result.steps[k + 1], c)
              /\ \A q \in 1 .. Len(Told(result.steps[k + 1])) :
                   Told(result.steps[k + 1])[q].id # id
           \/ id # "" /\ SaidLast(Told(result.steps[k + 1]), id, c)
<1> DEFINE told(t) == Told(result.steps[t])
           Passes(t) == /\ ~ Forgets(job, result.steps[t], c)
                        /\ \A q \in 1 .. Len(told(t)) : told(t)[q].id # id
           Known(n) == /\ id \in DOMAIN known /\ c = known[id]
                       /\ \A t \in 1 .. n : Passes(t)
           Said(n) == \E s \in 1 .. n : SaidLast(told(s), id, c) /\ \A t \in s + 1 .. n : Passes(t)
<1>1. \A n : Holds(result, job, known, n, id, c) <=> Known(n) \/ (id # "" /\ Said(n))
  BY DEF Holds, SaidLast
<1> HIDE DEF Passes, told
<1>2. /\ 1 .. k + 1 = 1 .. k \cup {k + 1}
      /\ \A s \in 1 .. k : s + 1 .. k + 1 = (s + 1 .. k) \cup {k + 1}
      /\ k + 1 + 1 .. k + 1 = {}
  OBVIOUS
<1>3. Known(k + 1) <=> Known(k) /\ Passes(k + 1)
  BY <1>2
<1>4. Said(k + 1) <=> (Said(k) /\ Passes(k + 1)) \/ SaidLast(told(k + 1), id, c)
  BY <1>2
<1>5. Holds(result, job, known, k + 1, id, c) <=>
        \/ Holds(result, job, known, k, id, c) /\ Passes(k + 1)
        \/ id # "" /\ SaidLast(told(k + 1), id, c)
  <2> HIDE DEF Known, Said
  <2> QED
    BY <1>1, <1>3, <1>4
<1> QED
  BY <1>5 DEF Passes, told

\* After a result the table has what holds after all its steps.
LEMMA TableHolds ==
  ASSUME NEW result, Readable(result), NEW job, NamesEnv(job),
         NEW known, KeyedByID(known), NEW id, NEW c
  PROVE  LET table == Ingested(known, job, result.steps) IN
         id \in DOMAIN table /\ table[id] = c <=>
           Holds(result, job, known, Len(result.steps), id, c)
<1>1. PICK n \in Nat : n = Len(result.steps)
  BY DEF Readable, IsASequence
<1>2. PICK u : LeadsThrough(u, job, known, result.steps)
  BY IngestedIs DEF Readable
<1> DEFINE A == {k \in Nat : k <= n =>
                   /\ KeyedByID(u[k])
                   /\ id \in DOMAIN u[k] /\ u[k][id] = c <=> Holds(result, job, known, k, id, c)}
<1>3. 0 \in A
  <2>1. u[0] = known
    BY <1>2 DEF LeadsThrough
  <2>2. Holds(result, job, known, 0, id, c) <=> id \in DOMAIN known /\ c = known[id]
    <3>1. \A i \in 1 .. 0 : FALSE
      OBVIOUS
    <3> QED
      BY <3>1 DEF Holds
  <2> QED
    BY <2>1, <2>2
<1>4. ASSUME NEW k \in Nat, k \in A PROVE k + 1 \in A
  <2> SUFFICES ASSUME k + 1 <= n
               PROVE  /\ KeyedByID(u[k + 1])
                      /\ id \in DOMAIN u[k + 1] /\ u[k + 1][id] = c <=>
                           Holds(result, job, known, k + 1, id, c)
    OBVIOUS
  <2>1. /\ KeyedByID(u[k]) /\ k < Len(result.steps)
        /\ id \in DOMAIN u[k] /\ u[k][id] = c <=> Holds(result, job, known, k, id, c)
    BY <1>1, <1>4
  <2> HIDE DEF A
  <2>t. PICK told : told = Told(result.steps[k + 1])
    OBVIOUS
  <2>2. PICK base : /\ IsRemaining(base, job, result.steps[k + 1], u[k])
                    /\ AfterFirst(Len(told), base, told, u[k + 1])
    BY <1>2, <2>1, <2>t, Round
  <2>3. KeyedByID(base)
    BY <2>1, <2>2 DEF KeyedByID, IsRemaining
  <2>4. KeyedByID(u[k + 1])
    BY <2>2, <2>3, AfterFirstKeyed
  <2>5. told \in Seq(Range(told))
    <3>1. k + 1 \in DOMAIN result.steps
      BY <1>2, <2>1, Round
    <3>2. ToldOK(result.steps[k + 1])
      BY <3>1 DEF Readable
    <3> QED
      BY <2>t, <3>2, ToldIsSequence
  <2>6. id \in DOMAIN base /\ base[id] = c <=>
          /\ id \in DOMAIN u[k] /\ u[k][id] = c
          /\ ~ Forgets(job, result.steps[k + 1], c)
    BY <2>2 DEF IsRemaining
  <2>7. id \in DOMAIN u[k + 1] /\ u[k + 1][id] = c <=>
          \/ /\ id \in DOMAIN base /\ base[id] = c
             /\ \A j \in 1 .. Len(told) : told[j].id # id
          \/ id # "" /\ SaidLast(told, id, c)
    <3>1. PICK table : table = u[k + 1]
      OBVIOUS
    <3>2. PICK T : T = Range(told)
      OBVIOUS
    <3>3. told \in Seq(T) /\ KeyedByID(base) /\ AfterFirst(Len(told), base, told, table)
      BY <2>2, <2>3, <2>5, <3>1, <3>2
    <3>4. SaysOf(table, base, told, id, c)
      BY <3>3, AfterFirstSaysLast
    <3> QED
      BY <3>1, <3>4 DEF SaysOf
  <2>8. Holds(result, job, known, k + 1, id, c) <=>
           \/ /\ Holds(result, job, known, k, id, c)
              /\ ~ Forgets(job, result.steps[k + 1], c)
              /\ \A q \in 1 .. Len(told) : told[q].id # id
           \/ id # "" /\ SaidLast(told, id, c)
    BY <2>t, HoldsNext
  <2> QED
    BY <2>1, <2>4, <2>6, <2>7, <2>8
<1> HIDE DEF A
<1>5. \A k \in Nat : k \in A
  BY <1>3, <1>4, Ingests!InductionInSet
<1>6. n \in A
  BY <1>5
<1> QED
  BY <1>1, <1>2, <1>6 DEF A, LeadsThrough

\* The p-th component of step s's report exists.
IsMention(result, s, p) ==
  s \in 1 .. Len(result.steps) /\ p \in 1 .. Len(Told(result.steps[s]))

\* Nothing after it mentions id.
IsLastMention(result, s, p, id) ==
  /\ IsMention(result, s, p) /\ Told(result.steps[s])[p].id = id
  /\ \A q \in p + 1 .. Len(Told(result.steps[s])) : Told(result.steps[s])[q].id # id
  /\ \A t \in s + 1 .. Len(result.steps) : \A q \in 1 .. Len(Told(result.steps[t])) :
       Told(result.steps[t])[q].id # id

LEMMA MentionIs ==
  ASSUME NEW result, Readable(result)
  PROVE  /\ \A m : m \in Mentions(result) <=> \E s, p : IsMention(result, s, p) /\ m = <<s, p>>
         /\ \A s, p : IsMention(result, s, p) =>
              Mentioned(result, <<s, p>>) = Told(result.steps[s])[p]
<1>1. PICK n \in Nat : n = Len(result.steps) /\ DOMAIN result.steps = 1 .. n
  BY DEF Readable, IsASequence
<1>2. ASSUME NEW s, NEW p, IsMention(result, s, p)
      PROVE  /\ <<s, p>> \in Mentions(result)
             /\ Mentioned(result, <<s, p>>) = Told(result.steps[s])[p]
  <2>1. s \in DOMAIN result.steps /\ p \in 1 .. Len(Told(result.steps[s]))
    BY <1>1, <1>2 DEF IsMention
  <2> QED
    BY <2>1, ToldIsMentioned
<1>3. ASSUME NEW m \in Mentions(result)
      PROVE  \E s, p : IsMention(result, s, p) /\ m = <<s, p>>
  <2>1. PICK s \in DOMAIN result.steps :
          /\ result.steps[s].outputs # NoOutput
          /\ \E p \in DOMAIN result.steps[s].outputs : m = <<s, p>>
    BY <1>3 DEF Mentions
  <2>0. PICK p \in DOMAIN result.steps[s].outputs : m = <<s, p>>
    BY <2>1
  <2>2. PICK told : told = result.steps[s].outputs /\ Told(result.steps[s]) = told
    BY <2>1 DEF Told
  <2>3. told \in Seq(Range(told))
    BY <2>1, <2>2 DEF Readable, IsASequence, ToldOK
  <2>4. p \in 1 .. Len(told)
    BY <2>0, <2>2, <2>3
  <2> QED
    BY <1>1, <2>0, <2>1, <2>2, <2>4 DEF IsMention
<1> QED
  BY <1>2, <1>3

LEMMA LastMentionIs ==
  ASSUME NEW result, Readable(result), NEW id
  PROVE  \A m : m \in LastMention(result, id) <=>
                  \E s, p : IsLastMention(result, s, p, id) /\ m = <<s, p>>
<1> DEFINE told(t) == Told(result.steps[t])
<1>1. PICK n \in Nat : n = Len(result.steps)
  BY DEF Readable, IsASequence
<1>2. \A s \in 1 .. n : Len(told(s)) \in Nat
  <2> SUFFICES ASSUME NEW s \in 1 .. n PROVE Len(told(s)) \in Nat
    OBVIOUS
  <2>1. ToldOK(result.steps[s])
    BY <1>1 DEF Readable, IsASequence
  <2>2. PICK T : T = Range(told(s))
    OBVIOUS
  <2>3. told(s) \in Seq(T)
    BY <2>1, <2>2, ToldIsSequence
  <2> QED
    BY <2>3
<1> HIDE DEF told
<1>3. \A s, p : IsMention(result, s, p) <=> s \in 1 .. n /\ p \in 1 .. Len(told(s))
  BY <1>1 DEF IsMention, told
<1>4. \A s, p : IsLastMention(result, s, p, id) <=>
        /\ s \in 1 .. n /\ p \in 1 .. Len(told(s)) /\ told(s)[p].id = id
        /\ \A q \in p + 1 .. Len(told(s)) : told(s)[q].id # id
        /\ \A t \in s + 1 .. n : \A q \in 1 .. Len(told(t)) : told(t)[q].id # id
  BY <1>1, <1>3 DEF IsLastMention, told
<1>5. \A s, p : IsMention(result, s, p) => Mentioned(result, <<s, p>>) = told(s)[p]
  BY MentionIs DEF told
<1>6. \A m : m \in Mentions(result) <=> \E s, p : IsMention(result, s, p) /\ m = <<s, p>>
  BY MentionIs
<1>7. ASSUME NEW s, NEW p, IsLastMention(result, s, p, id)
      PROVE  <<s, p>> \in LastMention(result, id)
  <2>1. /\ <<s, p>> \in Mentions(result) /\ Mentioned(result, <<s, p>>).id = id
        /\ s \in Nat /\ p \in Nat
    BY <1>2, <1>3, <1>4, <1>5, <1>6, <1>7
  <2>2. ASSUME NEW o \in Mentions(result), Mentioned(result, o).id = id
        PROVE  o[1] < s \/ (o[1] = s /\ o[2] <= p)
    <3>1. PICK t, q : IsMention(result, t, q) /\ o = <<t, q>>
      BY <1>6
    <3>2. t \in 1 .. n /\ q \in 1 .. Len(told(t)) /\ told(t)[q].id = id /\ Len(told(t)) \in Nat
      BY <1>2, <1>3, <1>5, <2>2, <3>1
    <3>3. ~ (t \in s + 1 .. n)
      BY <1>4, <1>7, <3>2
    <3>4. t = s => ~ (q \in p + 1 .. Len(told(s)))
      BY <1>4, <1>7, <3>2
    <3> QED
      BY <2>1, <3>1, <3>2, <3>3, <3>4
  <2> QED
    BY <2>1, <2>2 DEF LastMention
<1>8. ASSUME NEW m \in LastMention(result, id)
      PROVE  \E s, p : IsLastMention(result, s, p, id) /\ m = <<s, p>>
  <2>1. /\ m \in Mentions(result) /\ Mentioned(result, m).id = id
        /\ \A o \in Mentions(result) : Mentioned(result, o).id = id =>
             o[1] < m[1] \/ (o[1] = m[1] /\ o[2] <= m[2])
    BY <1>8 DEF LastMention
  <2>2. PICK s, p : IsMention(result, s, p) /\ m = <<s, p>>
    BY <1>6, <2>1
  <2>3. s \in 1 .. n /\ p \in 1 .. Len(told(s)) /\ told(s)[p].id = id /\ Len(told(s)) \in Nat
    BY <1>2, <1>3, <1>5, <2>1, <2>2
  <2>4. ASSUME NEW t \in 1 .. n, NEW q \in 1 .. Len(told(t)), told(t)[q].id = id
        PROVE  t < s \/ (t = s /\ q <= p)
    <3>1. IsMention(result, t, q)
      BY <1>3
    <3>2. <<t, q>> \in Mentions(result) /\ Mentioned(result, <<t, q>>).id = id
      BY <1>5, <1>6, <2>4, <3>1
    <3> QED
      BY <2>1, <2>2, <3>2
  <2>5. \A q \in p + 1 .. Len(told(s)) : told(s)[q].id # id
    BY <2>3, <2>4
  <2>6. \A t \in s + 1 .. n : \A q \in 1 .. Len(told(t)) : told(t)[q].id # id
    BY <2>3, <2>4
  <2> QED
    BY <1>4, <2>2, <2>3, <2>5, <2>6
<1> QED
  BY <1>7, <1>8

LEMMA DroppedIs ==
  ASSUME NEW result, Readable(result), NEW c, NEW s \in Nat
  PROVE  DroppedAfter(result, c, s) <=>
           \E t \in s + 1 .. Len(result.steps) : Forgets(Context(result), result.steps[t], c)
<1>1. PICK n \in Nat : n = Len(result.steps) /\ DOMAIN result.steps = 1 .. n
  BY DEF Readable, IsASequence
<1>2. \A t : t \in s + 1 .. n <=> t \in 1 .. n /\ t > s
  OBVIOUS
<1> QED
  BY <1>1, <1>2 DEF DroppedAfter, Forgets

\* What the reference definition keeps is what holds after all steps.
LEMMA ReferenceIs ==
  ASSUME NEW result, Readable(result), KeyedByID(components), NEW c
  PROVE  c \in ReferenceComponents(result) <=>
           \E id : Holds(result, Context(result), components, Len(result.steps), id, c)
<1>1. PICK n \in Nat : n = Len(result.steps)
  BY DEF Readable, IsASequence
<1>2. PICK job : job = Context(result)
  OBVIOUS
<1> DEFINE told(t) == Told(result.steps[t])
           drops(t) == Forgets(job, result.steps[t], c)
           mentioned == {Mentioned(result, m).id : m \in Mentions(result)} \ {""}
           At(id, s, p) == IsLastMention(result, s, p, id)
           Names(id, s, p) == told(s)[p].id = id
           Kept == \E id \in DOMAIN components \ mentioned :
                     c = components[id] /\ ~ DroppedAfter(result, c, 0)
           Lasting == \E id \in mentioned : \E m \in LastMention(result, id) :
                        c = Mentioned(result, m) /\ ~ DroppedAfter(result, c, m[1])
           Left(id) == /\ id \in DOMAIN components /\ c = components[id]
                       /\ \A t \in 1 .. n :
                            ~ drops(t) /\ \A q \in 1 .. Len(told(t)) : ~ Names(id, t, q)
           Told_(id) == \E s, p :
                          /\ At(id, s, p) /\ c = told(s)[p] /\ id # ""
                          /\ \A t \in s + 1 .. n : ~ drops(t)
<1>3. c \in ReferenceComponents(result) <=> Lasting \/ Kept
  BY DEF ReferenceComponents
<1>4. \A id : Holds(result, job, components, n, id, c) <=> Left(id) \/ Told_(id)
  BY <1>1, ZenonT(40) DEF Holds, IsLastMention, IsMention
<1>5. \A s \in Nat : DroppedAfter(result, c, s) <=> \E t \in s + 1 .. n : drops(t)
  BY <1>1, <1>2, DroppedIs
<1>0. \A m : m \in Mentions(result) <=> \E s, p : IsMention(result, s, p) /\ m = <<s, p>>
  BY MentionIs
<1>6. ASSUME NEW id
      PROVE  id \in mentioned <=>
               id # "" /\ \E t \in 1 .. n : \E q \in 1 .. Len(told(t)) : Names(id, t, q)
  <2>1. ASSUME id \in mentioned
        PROVE  id # "" /\ \E t \in 1 .. n : \E q \in 1 .. Len(told(t)) : Names(id, t, q)
    <3>1. PICK m \in Mentions(result) : id = Mentioned(result, m).id /\ id # ""
      BY <2>1
    <3>2. PICK s, p : IsMention(result, s, p) /\ m = <<s, p>>
      BY <1>0, <3>1
    <3>3. Mentioned(result, m) = told(s)[p]
      BY <3>2, MentionIs
    <3> QED
      BY <1>1, <3>1, <3>2, <3>3 DEF IsMention
  <2>2. ASSUME id # "", NEW t \in 1 .. n, NEW q \in 1 .. Len(told(t)), Names(id, t, q)
        PROVE  id \in mentioned
    <3>1. IsMention(result, t, q)
      BY <1>1 DEF IsMention
    <3>2. <<t, q>> \in Mentions(result) /\ Mentioned(result, <<t, q>>) = told(t)[q]
      BY <3>1, MentionIs
    <3> QED
      BY <2>2, <3>2
  <2> QED
    BY <2>1, <2>2
<1>7. ASSUME NEW id, NEW s, NEW p, At(id, s, p)
      PROVE  /\ s \in 1 .. n /\ p \in 1 .. Len(told(s)) /\ Names(id, s, p)
             /\ Mentioned(result, <<s, p>>) = told(s)[p]
  <2>1. IsMention(result, s, p) /\ Names(id, s, p)
    BY <1>7 DEF IsLastMention
  <2>2. Mentioned(result, <<s, p>>) = told(s)[p]
    BY <2>1, MentionIs
  <2> QED
    BY <1>1, <2>1, <2>2 DEF IsMention
<1>8. \A id : \A m : m \in LastMention(result, id) <=> \E s, p : At(id, s, p) /\ m = <<s, p>>
  BY LastMentionIs
<1>9. \A id \in DOMAIN components : id # ""
  BY DEF KeyedByID
<1> HIDE DEF told, drops, mentioned, At, Names
<1>10. ASSUME NEW id
       PROVE  Left(id) <=> /\ id \in DOMAIN components \ mentioned
                           /\ c = components[id] /\ ~ DroppedAfter(result, c, 0)
  <2>1. DroppedAfter(result, c, 0) <=> \E t \in 1 .. n : drops(t)
    BY <1>5
  <2>2. id \in DOMAIN components => id # ""
    BY <1>9
  <2> QED
    BY <1>6, <2>1, <2>2
<1>11. ASSUME NEW id \in mentioned, NEW m \in LastMention(result, id),
              c = Mentioned(result, m), ~ DroppedAfter(result, c, m[1])
       PROVE  Told_(id)
  <2>1. PICK s, p : At(id, s, p) /\ m = <<s, p>>
    BY <1>8
  <2>2. s \in 1 .. n /\ p \in 1 .. Len(told(s)) /\ Mentioned(result, <<s, p>>) = told(s)[p]
    BY <1>7, <2>1
  <2>3. s \in Nat /\ c = told(s)[p]
    BY <1>11, <2>1, <2>2
  <2>4. id # ""
    BY <1>6
  <2>5. ~ DroppedAfter(result, c, s)
    BY <1>11, <2>1
  <2>6. \A t \in s + 1 .. n : ~ drops(t)
    BY <1>5, <2>3, <2>5
  <2> QED
    BY <2>1, <2>3, <2>4, <2>6
<1>12. ASSUME NEW id, Told_(id) PROVE Lasting
  <2>2. PICK s, p : /\ At(id, s, p) /\ c = told(s)[p] /\ id # ""
                    /\ \A t \in s + 1 .. n : ~ drops(t)
    BY <1>12
  <2>3. /\ s \in 1 .. n /\ p \in 1 .. Len(told(s)) /\ Names(id, s, p)
        /\ Mentioned(result, <<s, p>>) = told(s)[p]
    BY <1>7, <2>2
  <2>4. id \in mentioned
    BY <1>6, <2>2, <2>3
  <2>5. <<s, p>> \in LastMention(result, id)
    BY <1>8, <2>2
  <2>6. ~ DroppedAfter(result, c, s)
    <3>1. s \in Nat
      BY <2>3
    <3> QED
      BY <1>5, <2>2, <3>1
  <2>7. c = Mentioned(result, <<s, p>>) /\ <<s, p>>[1] = s
    BY <2>2, <2>3
  <2> QED
    BY <2>4, <2>5, <2>6, <2>7
<1>13. Kept <=> \E id : Left(id)
  <2> HIDE DEF Left
  <2> QED
    BY <1>10
<1>14. Lasting <=> \E id : Told_(id)
  <2> HIDE DEF Told_
  <2> QED
    BY <1>11, <1>12
<1> QED
  <2> HIDE DEF Kept, Lasting, Left, Told_
  <2> QED
    BY <1>1, <1>2, <1>3, <1>4, <1>13, <1>14

\* After a completion, of a claimed job or of none, the table is the one the
\* reference definition gives (ingestComponentState).
THEOREM TableIsLastMention == StoreSpec => LastMentionHolds
<1>1. ASSUME StoreInv, NEW r \in Results, Complete(r)
      PROVE  {components'[id] : id \in DOMAIN components'} = ReferenceComponents(r)
  <2>1. components' = Ingested(components, Context(r), r.steps)
    BY <1>1 DEF Complete
  <2>2. Readable(r)
    BY ReportsAssumption DEF Readable, ToldOK
  <2>3. Context(r) \in Jobs \cup {None}
    BY <1>1 DEF Context, StoreInv, QueueInv, QueueTypeOK
  <2>4. NamesEnv(Context(r)) /\ KeyedByID(components)
    BY <1>1, <2>3, JobsAssumption DEF NamesEnv, StoreInv
  <2>5. \A id, c : id \in DOMAIN components' /\ components'[id] = c <=>
                     Holds(r, Context(r), components, Len(r.steps), id, c)
    BY <2>1, <2>2, <2>4, TableHolds
  <2>6. \A c : c \in ReferenceComponents(r) <=>
                 \E id : Holds(r, Context(r), components, Len(r.steps), id, c)
    BY <1>1, <2>2, <2>4, ReferenceIs
  <2> QED
    BY <2>5, <2>6
<1>2. StoreInv /\ [StoreNext]_storeVars =>
        [\A n \in DOMAIN completed' \ DOMAIN completed :
           {components'[id] : id \in DOMAIN components'} =
             ReferenceComponents(completed'[n])]_storeVars
  <2> SUFFICES ASSUME StoreInv, [StoreNext]_storeVars,
                      NEW n \in DOMAIN completed' \ DOMAIN completed
               PROVE  {components'[id] : id \in DOMAIN components'} =
                        ReferenceComponents(completed'[n])
    OBVIOUS
  <2>1. completed \in Seq(Results)
    BY DEF StoreInv
  <2>2. ASSUME NEW r \in Results, Complete(r)
        PROVE  {components'[id] : id \in DOMAIN components'} =
                 ReferenceComponents(completed'[n])
    <3>1. completed'[n] = r
      BY <2>1, <2>2 DEF Complete
    <3> QED
      BY <1>1, <2>2, <3>1
  <2>3. completed' = completed => FALSE
    OBVIOUS
  <2> QED
    BY <2>2, <2>3
    DEF StoreNext, Enqueue, Claim, ClaimNothing, Record, UpsertComponents, storeVars
<1> QED
  BY <1>2, StoreInvHolds, PTL DEF StoreSpec, LastMentionHolds
=============================================================================
