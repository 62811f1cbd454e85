-------------------------------- MODULE Store --------------------------------
(***************************************************************************)
(* internal/controlplane/store.go: the in-memory store of the control      *)
(* plane.  Every operation runs under one mutex, so every operation is one *)
(* action.  The store hands each pending job to the first worker that      *)
(* matches its selector, remembers the claimed job by job ID until a       *)
(* result with that ID arrives, and keeps results, evidence and the        *)
(* components that inventory steps report.                                 *)
(***************************************************************************)
EXTENDS Deploy, SequencesExt

CONSTANTS
  Jobs,          \* the job payloads operators may submit
  Keys,          \* the secrets an envelope may be signed with
  Infos,         \* what workers say of themselves when they claim
  Results,       \* what may be posted to /api/complete
  Reports,       \* the component states callers may upsert without a job
  Bundles,       \* the evidence bundles callers may record themselves, with `enq` 0
  None,          \* "no such entry" in a map of the code
  NoOutput,      \* a step result without a readable "components" output
  InventoryApp,  \* the application ID of the control plane's inventory jobs
  MaxSubmitted,  \* bound: submissions in one behaviour
  MaxRecorded    \* bound: completions and upserts in one behaviour

ASSUME JobsAssumption ==
  \A j \in Jobs :
    /\ j.expiresAt \in Nat
    /\ j.plan.env # ""
    /\ j.plan.steps # << >>
    /\ \A p, q \in DOMAIN j.plan.steps :
         j.plan.steps[p].id = j.plan.steps[q].id => p = q

ASSUME NoneAssumption == None \notin Jobs

IsASequence(s) == s \in Seq(Range(s))

ASSUME ReportsAssumption ==
  /\ \A reported \in Reports : IsASequence(reported)
  /\ \A r \in Results :
       /\ IsASequence(r.steps)
       /\ \A i \in DOMAIN r.steps :
            r.steps[i].outputs # NoOutput => IsASequence(r.steps[i].outputs)

ASSUME BundlesAssumption == \A b \in Bundles : b.enq = 0

ASSUME StoreBounds == MaxSubmitted \in Nat /\ MaxRecorded \in Nat

KubernetesInventory == "kubernetes.inventory"
Kubernetes == "kubernetes"

VARIABLES
  pending,      \* the queue of signed jobs, oldest first
  claimed,      \* job ID -> the job last claimed under it, or None
  completed,    \* every result posted, in order
  evidence,     \* every evidence bundle, in order
  components,   \* component ID -> the state last observed
  submitted     \* history: every envelope ever enqueued

storeVars == <<pending, claimed, completed, evidence, components, submitted>>

JobIDs == {j.id : j \in Jobs}

StoreInit ==
  /\ pending = << >>
  /\ claimed = [id \in JobIDs |-> None]
  /\ completed = << >>
  /\ evidence = << >>
  /\ components = << >>
  /\ submitted = << >>

-----------------------------------------------------------------------------
(* The queue. *)

\* Enqueue: no look at the ID, the nonce or the expiry of what is queued.
Enqueue(job, key) ==
  LET signed == [job |-> job, key |-> key, enq |-> Len(submitted) + 1] IN
  /\ Len(submitted) < MaxSubmitted
  /\ pending' = Append(pending, signed)
  /\ submitted' = Append(submitted, signed)
  /\ UNCHANGED <<claimed, completed, evidence, components>>

Claimable(info) ==
  {i \in DOMAIN pending : Matches(info, pending[i].job.selector)}

\* Mutant of FirstMatch: the scan ends at any matching job.
AnyMatch(info, i) == i \in Claimable(info)

FirstMatch(info, i) ==
  /\ i \in Claimable(info)
  /\ \A j \in Claimable(info) : i <= j

\* Mutant of Claim: the job stays in the queue.
ClaimKeeping(info, i) ==
  /\ FirstMatch(info, i)
  /\ claimed' = [claimed EXCEPT ![pending[i].job.id] = pending[i].job]
  /\ UNCHANGED <<pending, completed, evidence, components, submitted>>

\* Mutant of Claim: the jobs the scan skipped leave the queue too.
ClaimDroppingSkipped(info, i) ==
  /\ FirstMatch(info, i)
  /\ pending' = SubSeq(pending, i + 1, Len(pending))
  /\ claimed' = [claimed EXCEPT ![pending[i].job.id] = pending[i].job]
  /\ UNCHANGED <<completed, evidence, components, submitted>>

\* Claim, when some pending job matches: the first one leaves the queue and
\* takes the entry of its ID in `claimed`, whatever that entry held.
Claim(info, i) ==
  /\ FirstMatch(info, i)
  /\ pending' = RemoveAt(pending, i)
  /\ claimed' = [claimed EXCEPT ![pending[i].job.id] = pending[i].job]
  /\ UNCHANGED <<completed, evidence, components, submitted>>

\* Claim, when no pending job matches: worker.ErrNoJob.
ClaimNothing(info) ==
  /\ Claimable(info) = {}
  /\ UNCHANGED storeVars

-----------------------------------------------------------------------------
(* What a completion does to the observed components. *)

\* The table with one entry set.
With(known, component) ==
  [id \in DOMAIN known \cup {component.id} |->
     IF id = component.id THEN component ELSE known[id]]

\* Mutant of Observe: a component without an ID is stored too.
ObserveAny(known, component) == With(known, component)

\* upsertComponentsLocked, for one component.
Observe(known, component) ==
  IF component.id = "" THEN known ELSE With(known, component)

Upsert(known, reported) == FoldLeft(Observe, known, reported)

\* Mutant of Replaced: nothing is forgotten.
ReplacedNever(known, env, reported) == Upsert(known, reported)

\* The environment's Kubernetes components are forgotten, then the reported
\* ones are stored.  Without an environment the first component names one.
Replaced(known, env, reported) ==
  LET target == IF env = "" /\ reported # << >> THEN reported[1].env ELSE env
      stale(id) == known[id].env = target /\ known[id].runtime = Kubernetes
  IN  IF target = "" THEN known
      ELSE Upsert(Restrict(known, {id \in DOMAIN known : ~ stale(id)}), reported)

\* Mutant of IsInventory: the application of the job is not looked at.
IsInventoryStep(job, stepID) ==
  /\ job # None
  /\ \E i \in DOMAIN job.plan.steps :
       /\ job.plan.steps[i].id = stepID
       /\ job.plan.steps[i].executor = KubernetesInventory

\* isKubernetesInventory: an inventory job's own inventory step.
IsInventory(job, stepID) ==
  /\ job # None
  /\ job.plan.app = InventoryApp
  /\ \E i \in DOMAIN job.plan.steps :
       /\ job.plan.steps[i].id = stepID
       /\ job.plan.steps[i].executor = KubernetesInventory

\* ingestComponentState, for one step.
Ingest(job, known, step) ==
  CASE step.outputs = NoOutput -> known
    [] step.outputs # NoOutput /\ IsInventory(job, step.id) ->
         Replaced(known, job.plan.env, step.outputs)
    [] OTHER -> Upsert(known, step.outputs)

\* ingestComponentState: step by step, whatever the step's status.
Ingested(known, job, steps) ==
  FoldLeft(LAMBDA sofar, step : Ingest(job, sofar, step), known, steps)

-----------------------------------------------------------------------------
(* Results and evidence. *)

\* evidenceFromClaimedJob and evidenceFromResult: only a claimed job gives the
\* bundle its application and environment.
Bundle(job, result) ==
  [job |-> result.job, enq |-> result.enq, status |-> result.status,
   steps |-> result.steps,
   app |-> IF job = None THEN "" ELSE job.plan.app,
   env |-> IF job = None THEN "" ELSE job.plan.env]

\* Mutant of Context: the claimed entry is deleted before it is read.
ContextAfterDelete(result) == None

\* The job claimed under the result's ID, whichever submission that was.
Context(result) ==
  IF result.job \in JobIDs THEN claimed[result.job] ELSE None

\* Mutant of Settle: the claimed entry stays.
SettleNothing(result) == claimed

Settle(result) ==
  [id \in JobIDs |-> IF id = result.job THEN None ELSE claimed[id]]

\* Complete: any result is taken, also for a job that is not claimed.
Complete(result) ==
  /\ Len(evidence) < MaxRecorded
  /\ completed' = Append(completed, result)
  /\ evidence' = Append(evidence, Bundle(Context(result), result))
  /\ claimed' = Settle(result)
  /\ components' = Ingested(components, Context(result), result.steps)
  /\ UNCHANGED <<pending, submitted>>

\* Mutant of Metrics: what is not a success and not a failure is left out.
MetricsFailed ==
  LET finished(ok) == Cardinality({n \in DOMAIN completed : completed[n].status = ok}) IN
  [pending |-> Len(pending), succeeded |-> finished(Succeeded), failed |-> finished(Failed),
   evidence |-> Len(evidence)]

\* Metrics: everything but a success counts as failed.
Metrics ==
  LET finished(ok) ==
        Cardinality({n \in DOMAIN completed : (completed[n].status = Succeeded) = ok}) IN
  [pending |-> Len(pending), succeeded |-> finished(TRUE), failed |-> finished(FALSE),
   evidence |-> Len(evidence)]

\* Record: a bundle somebody else made, outside any completion.
Record(bundle) ==
  /\ Len(evidence) < MaxRecorded
  /\ evidence' = Append(evidence, bundle)
  /\ UNCHANGED <<pending, claimed, completed, components, submitted>>

\* UpsertComponents: component states observed without a job.
UpsertComponents(reported) ==
  /\ components' = Upsert(components, reported)
  /\ UNCHANGED <<pending, claimed, completed, evidence, submitted>>

-----------------------------------------------------------------------------
StoreNext ==
  \/ \E j \in Jobs, k \in Keys : Enqueue(j, k)
  \/ \E info \in Infos : \E i \in DOMAIN pending : Claim(info, i)
  \/ \E info \in Infos : ClaimNothing(info)
  \/ \E r \in Results : Complete(r)
  \/ \E b \in Bundles : Record(b)
  \/ \E reported \in Reports : UpsertComponents(reported)

StoreSpec == StoreInit /\ [][StoreNext]_storeVars

-----------------------------------------------------------------------------
(***************************************************************************)
(* Type invariant.  The components map is keyed by each component's own,   *)
(* non-empty ID.                                                           *)
(***************************************************************************)
StoreTypeOK ==
  /\ pending \in Seq(Envelopes(Jobs, Keys))
  /\ submitted \in Seq(Envelopes(Jobs, Keys))
  /\ claimed \in [JobIDs -> Jobs \cup {None}]
  /\ completed \in Seq(Results)
  /\ Len(completed) <= Len(evidence)
  /\ \A id \in DOMAIN components : id # "" /\ components[id].id = id

IsPending(e) == \E i \in DOMAIN pending : pending[i].enq = e

(***************************************************************************)
(* No overtaking.  Claim scans the queue from its head and slices.Delete   *)
(* keeps its order, so of two submissions with the same selector the later *)
(* one is never handed out while the earlier one still waits, however      *)
(* claims of workers with other selectors cut pieces out of the queue.     *)
(***************************************************************************)
NoOvertaking ==
  \A e, f \in DOMAIN submitted :
    /\ e < f
    /\ submitted[e].job.selector = submitted[f].job.selector
    /\ IsPending(e)
    => IsPending(f)

(***************************************************************************)
(* Evidence is attributed at most once.  A bundle that carries an          *)
(* application consumed the claimed entry of its job ID, and every entry   *)
(* comes from one claim; so duplicate completions, and submissions that    *)
(* share an ID, never give more attributed bundles for that ID than        *)
(* submissions of it were handed out.                                      *)
(***************************************************************************)
AttributedOnce ==
  \A id \in JobIDs :
    LET attributed == {b \in DOMAIN evidence :
                         /\ evidence[b].job = id
                         /\ evidence[b].enq > 0
                         /\ evidence[b].app # ""}
        handedOut  == {e \in DOMAIN submitted :
                         submitted[e].job.id = id /\ ~ IsPending(e)}
    IN  Cardinality(attributed) + (IF claimed[id] = None THEN 0 ELSE 1)
          <= Cardinality(handedOut)

\* The p-th component of step s's report is mention <<s, p>> of a result.
Mentions(result) ==
  UNION {{<<s, p>> : p \in DOMAIN result.steps[s].outputs} :
           s \in {t \in DOMAIN result.steps : result.steps[t].outputs # NoOutput}}

Mentioned(result, m) == result.steps[m[1]].outputs[m[2]]

\* What was known of a component, or is reported of it by a result.
SaidOf(result, id) ==
  {components[id]} \cup
    {c \in {Mentioned(result, m) : m \in Mentions(result)} : c.id = id}

(***************************************************************************)
(* Components are forgotten only by the inventory of their environment.    *)
(* Whatever is posted to /api/complete, in whatever order and however      *)
(* often, a component disappears only when it was last known, or was just  *)
(* reported in the same result, as a Kubernetes component, and an          *)
(* inventory job of that environment was claimed at that moment.           *)
(***************************************************************************)
ForgottenOnlyByInventory ==
  [][\A id \in DOMAIN components \ DOMAIN components' :
       \E job \in JobIDs, component \in SaidOf(Last(completed'), id) :
         /\ component.runtime = Kubernetes
         /\ claimed[job] # None /\ claimed'[job] = None
         /\ claimed[job].plan.app = InventoryApp
         /\ claimed[job].plan.env = component.env]_storeVars

(***************************************************************************)
(* What is known of a component is what was last said of it.  Reference    *)
(* definition of ingestComponentState, which the code reaches with a       *)
(* sequence of deletes and upserts: the last mention of an ID holds, or    *)
(* else what was known before; and it is dropped if a later step was the   *)
(* inventory of its environment.  Without a claimed entry for the result's *)
(* ID no step is an inventory, and nothing is dropped.                     *)
(***************************************************************************)
DroppedAfter(result, component, s) ==
  /\ component.runtime = Kubernetes
  /\ \E t \in DOMAIN result.steps :
       /\ t > s
       /\ result.steps[t].outputs # NoOutput
       /\ IsInventory(Context(result), result.steps[t].id)
       /\ component.env = Context(result).plan.env

LastMention(result, id) ==
  {m \in Mentions(result) :
     /\ Mentioned(result, m).id = id
     /\ \A o \in Mentions(result) :
          Mentioned(result, o).id = id =>
            o[1] < m[1] \/ (o[1] = m[1] /\ o[2] <= m[2])}

ReferenceComponents(result) ==
  LET mentioned == {Mentioned(result, m).id : m \in Mentions(result)} \ {""}
      lasting == {m \in UNION {LastMention(result, id) : id \in mentioned} :
                    ~ DroppedAfter(result, Mentioned(result, m), m[1])}
      kept == {id \in DOMAIN components \ mentioned :
                 ~ DroppedAfter(result, components[id], 0)}
  IN  {Mentioned(result, m) : m \in lasting} \cup {components[id] : id \in kept}

LastMentionHolds ==
  [][\A n \in DOMAIN completed' \ DOMAIN completed :
       {components'[id] : id \in DOMAIN components'} =
         ReferenceComponents(completed'[n])]_storeVars
=============================================================================
