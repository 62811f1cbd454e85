# A verification of pk-deploy

TLA+ models of pk-deploy's control plane and workers, model-checked with TLC on
small instances and, where it matters most, proved with TLAPS for all of them.
The models follow the Go code under `src/`; `PROJECT.json` maps every definition
to the lines it stands for.

- [The system](#the-system)
- [Modules](#modules)
- [Runs](#runs)
- [Fairness](#fairness)
- [What is proved](#what-is-proved)
- [What the checks found](#what-the-checks-found)
- [What is not modelled](#what-is-not-modelled)
- [Plan](#plan)

## The system

An operator posts deployment jobs to a *control plane*, which signs them and
queues them in memory. *Workers*, usually inside a cluster, poll the control
plane over HTTP, claim a job that matches their capabilities and labels, verify
its signature, run its plan step by step with registered *executors*, record
evidence and report the result. The control plane also makes jobs of its own:
inventories of the cluster, and updates of single components that an inventory
found outdated.

| component | code | state | operations |
|---|---|---|---|
| store | `internal/controlplane/store.go` | queue of signed jobs; claimed jobs by job ID; results; evidence bundles; component table | `Enqueue`, `Claim`, `Complete`, `Record`, `UpsertComponents`; readers |
| HTTP handlers | `internal/controlplane/server.go` | none of its own | create a job, make an inventory job, make an update job, claim, complete |
| HTTP client | `internal/workerclient/source.go` | none | `Claim`, `Complete`: one request each, 15 s, no retry |
| runner | `pkg/worker/runner.go`, loop in `cmd/pk-deploy-worker/main.go` | the job in hand, its result so far | `RunOnce` on every tick |
| signing | `pkg/job` | none | `Sign`, `Verify`, `Expired` |
| recorder, metrics | `pkg/evidence`, `pkg/metrics` | bundles; six atomic counters | `Record`; `JobStarted`, `JobFinished`, `Snapshot` |
| executors | `cmd/pk-deploy-worker/kubernetes.go` | none; they act on the cluster and read the image registry | inventory, set-image, tag ranking |
| plan validation | `pkg/deploy` | none | `Plan.Validate` |
| configuration | `config.go`, `main.go` | none | environment variables, once |

They interact through HTTP only: worker to control plane (claim, complete),
operator to control plane (jobs, refresh, update), worker to cluster and
registry. Inside the control plane all handlers share the store, whose
operations each hold one mutex; handlers that call it twice let others in
between.

**What is hard here.** Nothing is durable and nothing is repeated. A claim takes
the job out of the queue before the answer is written; a client that has given
up is still served; a result is sent once; both processes forget everything when
they die. Results arrive in any order and twice. Job IDs are not unique: those
the control plane makes have the second in them. Inventories read a changing
cluster bit by bit and complete in any order. Updates act on what an inventory
saw a while ago. `PROJECT.json` lists each hazard at its line, with the
properties that would catch it.

**What makes each part correct.** The *store*: jobs of one selector leave the
queue in order, each once; evidence carries the application of its own job or
none; a component is forgotten only by the inventory of its environment, and the
table says what was last reported. The *runner*: only verified, matching,
unexpired jobs run; every report says exactly what ran; on each path the evidence
and the counters tell the same story; the loop never stops. *Together*: no step runs twice,
whatever is lost or restarted; one fault costs one job; without a fault every
job is finished; what the control plane signs a worker can verify; both sides
count alike and keep the same evidence. *Inventories and updates*: after an
inventory the table is the cluster; an update that finds the image its inventory
saw goes to a newer one of the same repository. The
*collector*: a scrape at any moment shows numbers that some jobs explain.

## Modules

```
Plans           statuses, Plan.Validate, Job.Validate
Deploy          jobs, envelopes, Matches, Expired, Sign, Verify; EXTENDS Plans
 +- Store       store.go                             StoreSpec
 +- Runner      runner.go, the worker's loop         RunnerSpec
 +- Dispatch    Store + Runner + HTTP between them   Spec, FairSpec
 |    |- implements JobLifecycle                     (abstract)
 +- ControlPlane  Store + handlers + executors + Tags
Tags            ranking of image tags
Images          image references
Metrics         the collector, one atomic operation at a time
SequenceLemmas                       lists without one element, folds, sums
Store_proofs, Runner_proofs, ControlPlane_proofs, Images_proofs,
Metrics_proofs, Dispatch_proofs <- Accounts_proofs                  theorems
MCStore, MCRunner, MCDispatch, MCControlPlane, MCImages, MCMetrics  instances
```

**Plans** is `pkg/deploy/validation.go` and `Job.Validate` as predicates. A text is
what `strings.TrimSpace` leaves of it, or `""` if `validateToken` refuses it, since
only that and equality matter.

**Deploy** has the shared vocabulary. A signed job is `[job, key, enq]`: `key` is
the secret under which its HMAC verifies, `enq` numbers the submission. The code
has no such number. It is a history variable, carried along so that properties
can tell apart two submissions that the code cannot. `Signable` guards submissions
as `Sign` does; `Verifies` is `ValidJob` and `Authentic`, as in `Verify`.

**Store** has one action per operation of `Store`. `claimed` is a function on job
IDs with `None` for a missing key. A result's steps carry `outputs`: the list of
components that the step reported, or `NoOutput` when the `components` output is
missing or unreadable. `Ingested`, `Replaced` and `Observe` follow
`ingestComponentState` and its callees with folds; `ReferenceComponents` says
the same without an order of execution and is what `LastMentionHolds` compares
with.

**Runner** is a set of workers, each in one place of `RunOnce` (`wpc`): `Claiming`
in `Source.Claim`, `Verifying`, `Executing` between steps, `InStep` in an
executor, `Unverified`, `Unmatched` or `Executed` before one of the three places
where the code records and then completes, `Completing` in `Source.Complete`. The
cuts are where the code waits or reads the clock. `DenyUnverified`,
`DenyUnmatched`, `ReportUnverified`, `ReportUnmatched` and `ReportExecuted` follow
the branches of the code one by one. In `RunnerSpec` the source is arbitrary: it
hands out any envelope of `Offers`, repeatedly. So are the executors: a step
result has any status, error, output and *step ID* of the constants
`ExecStatuses`, `StepOutputs` and `ExecStepIDs`. `executeStep` fills in the plan's
ID only when the executor left it empty (`ReportedID`); the three executors of
`cmd/pk-deploy-worker` leave it empty, others behind the same interface need not.
An envelope without a job ID is reported under an ID made up for it
(`claimedJobID`): which one is told apart by nothing here, so it is a constant,
`MadeUpID`. `ran` is a history variable: for each submission the steps started, in
order and by whom. `refused` counts, by outcome, the bundles a failing recorder
did not take.

**Dispatch** instantiates both and puts HTTP between them. `request` and
`abandoned` are the claims on their way to the server, from a client that waits
or one that has gone; `reply` the answers on their way back; `posted` the results
on their way to the store; `acked` the workers whose result was taken. Handlers
are atomic because each calls the store once. Each worker has the clock of its own
host. `BreakClaim`, `BreakComplete` and
`WorkerCrash` are the faults: whatever was under way is lost, or handled later
all the same. `ControlPlaneRestart` empties the store and keeps any part of what
was on the wire.

**JobLifecycle** is the abstract specification: a submission is absent, queued,
handed out, finished or gone; its steps start only while it is handed out; it
never goes back. `ImplementsLifecycle` is the refinement, with `Phase(e)`
computed from where the envelope or its result is.

**Tags** ranks tags as `parseTagCandidate`, `compareTagCandidate` and `latestTag`
do. A tag is the record that parsing makes of it; `raw` is its place in string
order.

**ControlPlane** is the loop around the store: `handleInventoryJob`,
`handleComponentUpdate` (`ReadComponent` and `EnqueueUpdate`, since the store is
unlocked in between and other handlers may have read the same; `updating` is what
they have in hand), and the two Kubernetes executors, cut at each request:
`ListNamespace` for each namespace, `AskTags` and `AskDigest` for each container,
`SetImage`, whose patch may be applied while its answer is lost, so that the step
fails. Step results carry the plan's step ID, since these executors leave it empty.
Others push tags and delete deployments meanwhile. A worker is
reduced to the job it works on; `Lose` stands for everything that Dispatch says
can go wrong with it. `Restart` empties the store while inventories and updates
are in flight. `Take` asks only for `Authentic`: the jobs of the handlers are
valid by their making.

**Images** is the round trip of an image text: somebody writes it, the inventory
parses it (`ParseImage`), `WithTag` composes the image of another tag, the update
deploys that, and the next inventory parses it. A text is a sequence of words and
of the four characters the code looks for. `written` is a history variable, what
the author or the update meant.

**Metrics** cuts `JobStarted`, `JobFinished`, `decrementActive` and `Snapshot` at
every atomic operation, for any number of goroutines on either side. `stray` marks
calls of `JobFinished` that have no job: the worker makes none, but the loop of
`decrementActive` is there for them. `Loaded` is what a snapshot makes of a counter:
the sum of nanoseconds is unsigned, the duration that `Snapshot` returns is not.

A definition whose comment begins "Mutant of X" is X with a plausible bug; no
action uses it. Every property of a passing run is violated once such a mutant
takes the place of its X (`mutants` in `PROJECT.json`).

## Runs

| run | instance | shows |
|---|---|---|
| `store` | 3 jobs (an inventory, an update, a probe that looks like an inventory), 3 kinds of worker, results of any job | `NoOvertaking`, `AttributedOnce`, `ForgottenOnlyByInventory`, `LastMentionHolds` |
| `runner` | 1 worker, 8 offers (two steps and a short expiry, unregistered executor, other key, other environment, open gate, failed check, a step named twice, no job ID), repeated offers, executors that leave the step ID empty or choose one, failing recorder, crashes, a clock set forward and back | `OnlyTrustedJobsRun`, `GatesHeld`, `ReportNamesSteps`, `MetricsBalanced`, `EvidenceBalanced`, `ReportIsTrue` |
| `runner_statuses` | an executor that returns `running` | violation of `TerminalResult` |
| `dispatch_faults` | 2 workers with a clock each, 2 submissions of 3 payloads (one invalid), an executor that chooses the ID of another step, 2 faults of which one may be a restart, an expiry | `ExecutedOnce`, `FlowInv`, `ReportedIsWhatRan`, `OneFaultLosesOneJob`, `EvidenceAttributed`, `DeniedMeansExpired`, `CountersAgree`, `RecordsAgree` |
| `dispatch_progress` | fairness; workers with different keys, an unregistered executor, a step without a deadline, an expiry, a fault or a restart | `JobsFinish`, `WorkersKeepPolling`, `ExpiredInQueueNeverRuns`, `ImplementsLifecycle` |
| `dispatch_shared_ids` | two jobs with one ID | violation of `EvidenceNamesItsJob` |
| `metrics` | 2 goroutines, 3 calls of `JobFinished` of which one may have no job, 1 scraper, durations of either sign | `GaugeTracks`, `NoPhantomJobs`, `CountersOnlyGrow` |
| `images` | 5 registries (none, `localhost`, with a dot, a port, both), paths of 1 to 3 parts, 3 tags, a digest | `ParsedAsWritten`, `UpdatesStayInRepository` |
| `control_plane` | 2 workers, 2 deployments in 2 namespaces, one of them with an update from the start, 3 jobs, 2 update handlers at once, 1 change by others, 1 fault or restart, an expiry | `FreshTableIsTrue`, `StaleMeansNewer`, `UpdatesGoForward` |
| `control_plane_same_second` | two inventories in one second | violation of `InventoryReplaces` |
| `control_plane_pages` | a registry that answers one page | violation of `StaleMeansNewer` |
| `control_plane_digests` | a tag pushed twice | violation of `EvidencePointsToContent` |

Each passing run of a module with a type invariant checks it too, except the
liveness run, whose states are a smaller instance of `dispatch_faults`.

**Bounds.** `MaxSubmitted`, `MaxRecorded`, `MaxClaims`, `MaxTime`, `MaxFaults`,
`MaxRestarts`, `MaxTrouble`, `MaxHandlers` and `MaxChanges` bound submissions,
results, claims of one process, the clocks, faults, restarts, both of these
together, component states that update handlers have in hand, and changes by
others; `MaxJobs` and `MaxStrays` the calls in Metrics. They are guards of the
actions, so the bounded behaviours are behaviours of the code. ControlPlane's
workers take up nothing when the queue is empty, so its runs stop where the bounds
are used up and have `CHECK_DEADLOCK` off; in the other runs workers poll for ever
and deadlock is checked. Two submissions are enough for everything that concerns a
pair (an overtaking, a shared ID, one worker crossing another); three are used where
an inventory, an update and another inventory matter. Two faults let an abandoned
claim and a lost result meet; a third adds no new pair. One restart divides a
behaviour into before and after; requests of before reach after. The liveness run
has one fault or one restart (`MaxTrouble`): what follows it depends on the state it
leaves, not on how many came before. A clock needs one tick past the shortest expiry. In `control_plane` the
second deployment has a newer tag from the start, so that an update needs no change
by others and one is left to come between; two handlers are a pair. A run of Runner needs three claims: an offer, the same offer again, and one
more. In Metrics three jobs by two goroutines let a load of one be overtaken by a
decrement and an increment of the other; the counters stay far below the width of
the nanosecond sum, whose sign bit stands for 292 years. Where a bound could hide
something, the theorems below have none.

**Clocks.** `RunOnce` and the verifier read the wall clock of their host
(`time.Now().UTC()` has no monotonic part). In Runner the clock of each worker may
be set to any time at any moment. In Dispatch each worker has one that runs by
itself (`Tick`) and need not agree with the others, but is not set back:
`DeniedMeansExpired` and `ExpiredInQueueNeverRuns` compare a job's expiry with a
clock at two moments, and a clock set back is a worker that runs a job it had found
expired. The control plane's clock is in no job of Dispatch (payloads bring their
own times). ControlPlane has one clock: the second that names a job, and the expiry,
which no property there depends on. In Metrics durations have either sign.

**Symmetry.** `control_plane` has interchangeable workers, `metrics`
interchangeable callers; both check invariants and a step property, for which the
reduction is sound. No other run uses it, the liveness run in particular.

## Fairness

`FairSpec` is used by `dispatch_progress` only. It has weak fairness of each
worker's own steps, of the handlers of each worker's claims, and of the handling
of results. This is what the code gives: the loop in `main.go` is driven by a
ticker, the HTTP client waits 15 seconds at most, and `net/http` starts a handler
for each request. A step that has a deadline ends, since the executors hand its
context on to every request they make. A step with `timeoutSeconds: 0` has none,
and neither `http.get` nor the Kubernetes client has a timeout of its own, so the
fairness leaves such a step out (`Unbounded`): it may last for ever, and the
liveness properties say what holds then. There is no fairness of submissions,
faults, restarts or the clock: none of them must happen.

`JobsFinish` is about submissions that some worker matches: the others stay
pending, since nothing sweeps the queue. It lets go of them once there was a
fault or a restart, because the code does not re-queue, and once a worker hangs
in an unbounded step. Denials count as finishing.

## What is proved

TLAPS checks these for every value of the constants that meets the modules'
assumptions, and with no bound beyond the constants themselves (`MaxSubmitted`,
`MaxFaults` and the rest are arbitrary numbers).

- `SequenceLemmas` has what the other proofs need of data: a list without one
  element (`slices.Delete` of one index) is what is before it and what follows; a
  loop over a list goes through a sequence of states, one round from each to the
  next, whatever a round does (`FoldLeftIs`); a sum over a finite set grows by what
  one of its terms grows by; the list of a set has all its members; a finite set
  has a maximal member in any strict order. `FoldLeft`, `FoldFunction`, `SetToSeq`
  and `Cardinality` are used by their definitions; the inductions are over natural
  numbers, for a property given as a set.
- `Store_proofs`: all of Store's properties.
  - `ClaimsInOrder` (`NoOvertaking`) by `QueueInv`. `NoOvertaking` alone is not
    inductive: it speaks of submissions by number, and a claim removes an index.
    `QueueInv` adds that the queue holds each submission unchanged and in
    increasing order of number, so the first match in the queue is the oldest.
  - `EvidenceAttributedOnce` (`AttributedOnce`): each bundle with an application
    and each claimed entry of an ID is paid for by one submission that was handed
    out. A claim adds to the one side at most what it adds to the other; a
    completion turns the entry into a bundle.
  - `TableIsLastMention` (`LastMentionHolds`): the table, computed by three nested
    loops, is `ReferenceComponents`, which speaks of mentions and has no loop. The
    invariant of the inner loop says what the table holds after the first n
    components of a report, that of the outer loop what it holds after the first
    n steps. `OnlyInventoriesForget` (`ForgottenOnlyByInventory`) and
    `StoreTypesKept` follow the same loops.
- `Runner_proofs`: all of Runner's properties. `RunnerInv` has one part per worker
  (`WorkerOK`) and one about the log (`LogOK`). A step of a worker changes what is
  at that worker, so two lemmas do the bookkeeping for the others: `QuietStep` when
  the log stays, `OthersKeepOK` when it grows. What a worker holds says how far it
  has come (`ProgressOK`): it has verified the envelope once it executes, all
  results so far succeeded while steps are left, and an executor is in the log for
  each. `OnlyTrustedJobsRun` and `GatesHeld` speak of logs of the past and follow
  from `LogOK`, which keeps what the worker had verified when it appended.
  An executor may put any ID into its result, so `ProgressOK`
  ties a step result to the plan's step of the same place and says of its ID only
  that it is the plan's or one of `ExecStepIDs`. `ReportsNameSteps` and
  `ReportsAreTrue` follow. `CountsOK` is `MetricsBalanced`; `EvidenceIsBalanced`
  (`EvidenceBalanced`) adds to it how many bundles of each outcome the recorder has
  taken or refused, along each of the three ways to `Complete`. `ReportsAreTerminal` (`TerminalResult`) has a hypothesis, that no
  executor answers `pending` or `running`: no path of `RunOnce` makes such a result
  of its own.
- `Dispatch_proofs`: `JobsExecutedOnce` (`ExecutedOnce` is an invariant of `Spec`)
  by `FlowInv`. The argument is *exclusive custody*: a submission is in the queue,
  or in one answer under way, or with one worker, never in two (`Exclusive`,
  `QueueOK`); while it can still be executed its log has exactly the steps that its
  keeper knows of (`LogMatches`); in the queue and in an answer it has none. A
  request and its answer are never under way at once (`Requesting`), which is why a
  late answer cannot hand a worker a second job. Most actions only let go of a job,
  or touch nothing of this: one lemma, `QuietStep`, covers them all, and the four
  that create, hand out, take over and start have lemmas of their own. `FlowCorrect`
  states the invariant itself, which `dispatch_faults` also checks with TLC.
  `LifecycleImplemented` (`Spec => ImplementsLifecycle`) is the refinement.
  `FlowInv` says where an envelope can be; `ResultsOK` adds that a result under way
  or in the store belongs to a submission that is neither queued nor with a worker
  that could still execute it (`ResultsAreFinal`). With these, whatever only lets go
  of submissions maps to `Vanish`, be it of one, of many or of none (`LettingGo`):
  all faults, restarts, results taken, and the steps that change no phase.
  `CreateJob`, `HandleClaim`, `SendResult` and the call of an executor are `Submit`,
  `HandOut`, `Finish` and `Start`. What the control plane is told comes last.
  `ResultsTellWhatRan` (`ReportedIsWhatRan`) carries what `FlowInv` knows of a
  worker over to the result on the wire and in the store, where the log of the
  submission no longer grows; it speaks of the plan steps a result covers, since
  their IDs in it may be an executor's. `DenialsAreExpiries` (`DeniedMeansExpired`) has two
  hypotheses: every worker has the control plane's key, and no executor answers
  `denied`. Its invariant says that a worker only ever holds jobs that match it
  (`Suited`), across a claim answered late; what `Sign` accepted leaves expiry as
  the only ground. `ExpiredNeverRuns` (`ExpiredInQueueNeverRuns`): a submission that
  expired before a worker verified it stays *dead*, in the queue, in an answer and
  with a worker that has not looked yet, since that worker's clock does not go back.
- `Accounts_proofs`: what is counted. `FaultsBoundLosses` (`OneFaultLosesOneJob`):
  a fault can leave behind more than a lost job, such as an abandoned claim that
  will take a job later. The invariant therefore bounds the lost submissions and
  these strays together by the faults. `EvidenceIsAttributed`
  (`EvidenceAttributed`): while a submission with an ID of its own is with a worker
  or its result under way, the claimed entry of that ID is its job, unless a
  restart removed it; a result is given to the store once. It follows that
  `EvidenceNamesItsJob` holds as long as no two submissions share an ID
  (`EvidenceNamesUniqueJobs`). `TypesKept` (`TypeOK`)
  needs `KeyedByID`: the table's keys, through the folds of every completion.
  `CountersTellTheSame` (`CountersAgree`): the sum of the workers' counters, plus
  the results not handed over, is what the store has counted plus what is on the
  wire; one step moves one job from one of these to the next. `RecordsTellTheSame`
  (`RecordsAgree`): a bundle is in a recorder only when its submission is neither
  queued nor handed out, which stays so (`GoneStays`, from the refinement), and says
  what any result of that submission says (`RecordersOK`); the store has one bundle
  for each result it took, and it says the same (`FiledOK`).
- `ControlPlane_proofs`: all of ControlPlane's properties but `InventoryReplaces`,
  which the code violates.
  - Tags first. `OlderIsStrict`: `compareTagCandidate` is a strict order, total on
    different strings, so a finite list has a best tag. `LatestIsForward`: with the
    current tag in the list, `latestTag` returns it or goes forward, which is to a
    newer tag that is no other build of the same release.
  - `OffersOK` follows an offer from hand to hand: the tag a running inventory has
    found, the component it made of it, the table, the update handler's copy, the
    job. In each the tag is one the repository has, and forward of the tag it was
    found for. Tags are pushed and never withdrawn, so pushes keep this (`Grows`),
    and waiting costs nothing. `OffersAreNewer` (`StaleMeansNewer`) and
    `UpdatesAreForward` (`UpdatesGoForward`) are what it says of the table and of the
    job. Both have the hypothesis `AllListed`: no repository has more tags than
    one answer of the registry holds. Without it the code violates them
    (`control_plane_pages`); the rest of the invariant does without it.
  - `InventoriesTellTheTruth` (`FreshTableIsTrue`). `InventoriesOK` says how far an
    inventory is, as long as no change overtook it: what it has seen or listed is
    what the cluster runs (`ShowsCluster`), and of the namespaces it has been to
    nothing is missing. When it has succeeded none is left. That the store
    recognises it is the second half: while no two inventories share an ID, its
    entry among the claimed jobs is its own (`InventoryAlone`), since a job is in the
    queue or with one worker (`CustodyOK`). Recognised, it replaces the table by
    what it saw, since all entries are of this environment; not recognised, or
    overtaken, it adds entries that are in order all the same (`ReportedTable`).
  - `LoopInv` is the conjunction of these with the types; TLC finds it kept by the
    instance of `control_plane` too. Steps of one worker that leave cluster and
    store alone are cases of `TaskStep`; those that change the cluster, and a
    restart, of `ChangeStep`, where no inventory under way counts any more.
  - `EvidenceIsContent` (`EvidencePointsToContent`), for behaviours in which no tag is
    pushed a second time with other content (`[][TagsKept]_vars`). `PinsOK` follows
    the digest from hand to hand as `OffersOK` follows the tag: the pair on offer, in
    the handler's hands and in the job is one the registry has. So the tag that is
    deployed has the content whose digest is recorded. Lookups that fail, restarts
    and waiting change nothing of this; a second push does (`control_plane_digests`).
- `Metrics_proofs`: `GaugeNeverNegative`, `GaugeIsExact` (`GaugeTracks`) and
  `ScrapesShowNoPhantoms` (`NoPhantomJobs`), for any number of goroutines. The
  inductive invariant `CollectorInv` says of each counter which callers have added
  to it and which have yet to, by where they are in their calls: `started` exceeds
  the outcomes by the callers between the two, the outcomes exceed `durationCount`
  by those still to add it. For a snapshot that is under way a second invariant
  bounds what it has loaded by what the counters are now; the order of its loads
  is what makes the bounds those of `NoPhantomJobs`. `ScrapesOnlyGrow`
  (`CountersOnlyGrow`) has a hypothesis, `NoOverflow`: all jobs, each as long as the
  longest, stay below half the width of the sum. `SumOK` bounds the sum by the calls
  that have added to it; that the clock may be set back does no harm, since
  `Clipped` adds nothing then.
- `Images_proofs`: both of Images' properties. `ParsingInvertsComposing` says that
  `parseImageReference` finds the parts of any image of the grammar, for texts of
  any length. It cuts a text three times, and each cut has a lemma: at the first
  `@`, since no part before the digest has one; at the last colon, if it comes
  after the last slash, since a tag has no slash and the colon of a port is always
  followed by one; at the first slash, if what is before it looks like a host.
  `ImagesAreComposed` is the invariant that `ImagesParsedAsWritten`
  (`ParsedAsWritten`) and `UpdatesKeepRepository` (`UpdatesStayInRepository`) need:
  what an update composes of a parsed image is again an image of the grammar, with
  the default registry written out.

**Assumptions of the proofs**, each an `ASSUME` that TLC evaluates: plans have at
most `MaxSteps` steps, with string IDs (that they have one at least follows from
`Plan.Validate`); a job the store is given names an environment, as
`Plan.Validate` demands; what a step reports is a list or nothing; bundles
recorded by others have no submission number; the sets of goroutines and of
workers are finite; the markers `None` and `NoJob` are distinct and neither
envelopes, jobs nor results; statuses of executors are strings of `deploy.Status`
or empty, their step IDs and the one made up for a job are strings; an envelope that a source offers twice keeps its number, and two
envelopes have two. For ControlPlane: a repository has finitely many tags, each
string once, the one a deployment runs among them, and no empty one; component IDs
are neither empty nor the application of inventories (they have slashes, it has
none); the environment has a name (`config.go` gives it one); components are those of the
namespaces inventoried, since nothing else gets into the table; the marker
`NoOutput` is no list of components. For Images: hosts have a dot or a port and
neither slash nor `@`; paths have none of `.`, `:` and `@` and do not begin like a
host; tags and digests have none of the separators that would end them. A few
theorems have hypotheses besides, named above: `AllListed`, `TagsKept`,
`NoOverflow`, and what executors answer.

**Only model-checked**

- `JobsFinish` and `WorkersKeepPolling`: liveness under fairness.
- What the code violates, each under *What the checks found*: its counterexample.
  The condition under which it holds is the hypothesis of a theorem, but for
  `InventoryReplaces`, which `FreshTableIsTrue` covers when no two inventories share
  an ID.

## What the checks found

Each has a run that shows it, and an entry under `findings` in `PROJECT.json`.

- *Status of a step becomes status of the job.* `execute` keeps any status that an
  executor returns without an error, so `running` can be a worker's final word.
- *Shared job IDs.* Two update jobs of one second whose component IDs have one
  slug (`a/b-c/d`, `a-b/c/d`) share an ID. Claimed by two workers, the first
  result takes the second one's entry: its evidence names the other component,
  and the second evidence names none.
- *Two refreshes in one second.* They share an ID as well. The second to complete
  is no longer recognised as an inventory and forgets nothing, so a deployment
  that was deleted stays in the table until the next refresh.
- *Tags beyond the first page.* The registry client reads one answer. If the
  current tag is not in it, an older one is offered as the update.
- *Digests are recorded, not deployed.* The update job carries the digest as its
  artifact and the tag as its instruction.

`FreshTableIsTrue` and `EvidenceAttributed` exclude shared IDs, and
`StaleMeansNewer` holds in `control_plane` because its registry lists all tags.

## What is not modelled

- HMAC, JSON, base64, HTTP status codes, the admin token: a signature verifies
  under one key or none, a message arrives or does not.
- The bytes of texts: lengths, UTF-8 and white space are what makes a text `""` in
  Plans; no model counts to 128. Clones (`clone.go`) are value semantics.
- `Store.Record` and `Store.UpsertComponents` are actions of Store, but nothing in
  the binaries calls them, so Dispatch and ControlPlane have no such action.
- `Runner.Evidence == nil` and a nil collector: the binary sets both.
- Readers (status page, metrics text, snapshots) change nothing. Of them only the
  worker's scrape takes no lock, and Metrics has it; the counts of the control
  plane's metrics page are `Metrics` in Store.
- In ControlPlane an image is its component plus a tag (Images has the rest);
  replica counts, labels and messages are left out; version numbers are small.
- A re-created deployment, and tags deleted from the registry.
- A promise about the IDs of step results. `executeStep` keeps any step ID that an
  executor fills in, so a step may be reported and filed under an ID that is not its
  own, or that is another step's; `ReportNamesSteps`, `ReportIsTrue` and
  `ReportedIsWhatRan` say what holds all the same. None of the executors in the
  repository fills it in.
- The order of updates. An update job does not say which image it expects to
  replace, so two updates of one component, made from two inventories and executed in
  reverse order, end with the older tag. No doc or test promises otherwise;
  `UpdatesGoForward` is about updates that find the image their inventory saw.
- The example, the repository lint, the deployment manifests.

## Plan

Done, in this order: Store, Runner, Dispatch with JobLifecycle, the proofs about
the queue and about execution, Tags and ControlPlane; then Metrics with its
proofs, Plans and the validity of jobs in Deploy, Runner and Dispatch, unbounded
steps in the fairness, restarts in ControlPlane, Images, the proofs about Runner,
and the refinement; then the proofs about the store's loops, about results,
losses, evidence and counters in Dispatch, and about tags, inventories and
updates in ControlPlane; last, those about image references and the sum of
durations, and the conditions under which the findings do not arise; executors that
choose step IDs, a clock for each host, the three ways to report, concurrent update
handlers and lost answers of the cluster, with evidence that balances and agrees.

Next, a module: ControlPlane with two environments, whose component IDs collide.

Next, a theorem: two inventories of one second, and what the table is when
`OneInventoryASecond` does not hold, which is a part of what both saw and of what
was known before.
