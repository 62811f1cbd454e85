----------------------------- MODULE ControlPlane -----------------------------
(***************************************************************************)
(* The inventory and update loop: the handlers of server.go that make jobs *)
(* of their own, the store between them (Store), and the Kubernetes        *)
(* executors of cmd/pk-deploy-worker/kubernetes.go that observe and change *)
(* the cluster.  A worker is reduced to the job it works on (Runner and    *)
(* Dispatch have the rest of it); an executor is cut at each request to    *)
(* the cluster and to the registry, which others change in between.        *)
(***************************************************************************)
EXTENDS Deploy, Tags, SequencesExt

CONSTANTS
  Workers,        \* workers of the environment, with both executors
  Key,            \* the shared secret
  Components,     \* component IDs: namespace/deployment/container
  Namespaces,     \* the inventory's namespaces, in order
  NamespaceOf,    \* component -> its namespace
  Slug,           \* component -> slug of its ID
  Contents,       \* image contents, by their digest
  Start,          \* component -> [tags, image] at the start
  Published,      \* tags pushed later
  PageSize,       \* the registry lists so many tags, the first in string order
  Environment,    \* the control plane's environment ID
  InventoryApp,   \* the application ID of inventory jobs
  JobTTL,         \* clock ticks a job lives: 15 minutes
  None, NoOutput,
  MaxSubmitted,   \* bound: jobs
  MaxTime,        \* bound: the last second of the clock
  MaxHandlers,    \* bound: component states handlers have in hand at once
  MaxChanges,     \* bound: changes of the cluster and the registry by others
  MaxFaults       \* bound: requests that fail and workers that die

ASSUME ControlPlaneBounds ==
  /\ MaxSubmitted \in Nat /\ MaxTime \in Nat /\ MaxChanges \in Nat /\ MaxFaults \in Nat
  /\ MaxHandlers \in Nat /\ JobTTL \in Nat

\* The tags a component's repository has or will have.
Known(c) == DOMAIN Start[c].tags \cup Published

\* A repository has each string once, and each deployment runs an image it has.
ASSUME RegistryAssumption ==
  /\ PageSize \in Nat \ {0}
  /\ \A c \in Components :
       /\ IsFiniteSet(Known(c)) /\ NoTag \notin Known(c)
       /\ Known(c) \subseteq TagCandidates(Nat, Nat, Nat)
       /\ \A t, u \in Known(c) : t.raw = u.raw => t = u
       /\ Start[c].tags \in [DOMAIN Start[c].tags -> Contents]
       /\ Start[c].image \in DOMAIN Start[c].tags

\* Component IDs have slashes, the application of inventories has none.  The
\* components are those of the namespaces that are inventoried.
ASSUME NamesAssumption ==
  /\ IsFiniteSet(Components) /\ "" \notin Components /\ InventoryApp \notin Components
  /\ Environment # ""
  /\ Namespaces \in Seq(Range(Namespaces))
  /\ \A c \in Components : NamespaceOf[c] \in Range(Namespaces)

VARIABLES
  pending, claimed, completed, evidence, components, submitted,  \* see Store
  updating,   \* what handlers of component updates have read, one or more each
  work,       \* worker -> the job it works on and how far, or None
  image,      \* component -> the tag and content it runs, or None: deleted
  registry,   \* component -> its repository: tag -> content
  now,        \* the clock, in seconds
  changes,    \* history: changes by others so far
  faults,     \* history: failed requests and dead workers so far
  overtaken,  \* history: workers whose inventory began before the last change
  fresh,      \* history: the last inventory completed began after it
  pulled      \* history: update job -> the content its image had when set

storeVars == <<pending, claimed, completed, evidence, components, submitted>>
worldVars == <<image, registry, now, changes>>   \* others' state
historyVars == <<overtaken, fresh, pulled>>
vars == <<storeVars, updating, work, worldVars, historyVars, faults>>

-----------------------------------------------------------------------------
(* The jobs the control plane makes. *)

Selector(executor, env) ==
  [capabilities |-> {executor}, labels |-> [environment |-> env]]

\* inventoryJob: its ID is the second it was made in.
InventoryJob(at) ==
  [id |-> <<"inventory", "", at>>,
   plan |-> [app |-> InventoryApp, env |-> Environment,
             steps |-> <<[id |-> "kubernetes-inventory",
                          executor |-> "kubernetes.inventory"]>>],
   selector |-> Selector("kubernetes.inventory", Environment),
   expiresAt |-> at + JobTTL]

\* updateComponentJob: of the image it sets, the tag is what the executor gets
\* and the digest is what the plan's artifact says.  `from` is history.
UpdateJob(component, at) ==
  [id |-> <<"update", Slug[component.id], at>>,
   plan |-> [app |-> component.id, env |-> component.env,
             steps |-> <<[id |-> "set-image", executor |-> "kubernetes.set-image"]>>],
   selector |-> Selector("kubernetes.set-image", component.env),
   expiresAt |-> at + JobTTL,
   image |-> component.latest, digest |-> component.digest, from |-> component.current]

Made ==
  {[id |-> id] : id \in {"inventory", "update"}
                          \X ({Slug[c] : c \in Components} \cup {""}) \X (0 .. MaxTime)}

Info == [capabilities |-> {"kubernetes.inventory", "kubernetes.set-image"},
         labels |-> [environment |-> Environment]]

S == INSTANCE Store WITH
       Jobs <- Made, Keys <- {Key}, Infos <- {Info}, Results <- {},
       Reports <- {}, Bundles <- {}, MaxRecorded <- MaxSubmitted

Init ==
  /\ S!StoreInit
  /\ updating = {}
  /\ work = [w \in Workers |-> None]
  /\ image = [c \in Components |->
       [tag |-> Start[c].image, content |-> Start[c].tags[Start[c].image]]]
  /\ registry = [c \in Components |-> Start[c].tags]
  /\ now = 0
  /\ changes = 0
  /\ faults = 0
  /\ overtaken = {}
  /\ fresh = FALSE
  /\ pulled = [e \in 1 .. MaxSubmitted |-> None]

-----------------------------------------------------------------------------
(* Operators. *)

\* handleInventoryJob.
RequestInventory ==
  /\ S!Enqueue(InventoryJob(now), Key)
  /\ UNCHANGED <<updating, work, worldVars, historyVars, faults>>

\* handleComponentUpdate reads the component, and refuses it or goes on ...
ReadComponent(id) ==
  /\ id \in DOMAIN components
  /\ components[id].update
  /\ components[id].latest # NoTag
  /\ components[id].digest # None
  /\ Cardinality(updating) < MaxHandlers
  /\ updating' = updating \cup {components[id]}
  /\ UNCHANGED <<storeVars, work, worldVars, historyVars, faults>>

\* ... to make a job of what it read.  Other handlers may have read the same.
EnqueueUpdate ==
  /\ \E component \in updating :
       /\ S!Enqueue(UpdateJob(component, now), Key)
       /\ updating' \in {updating, updating \ {component}}
  /\ UNCHANGED <<work, worldVars, historyVars, faults>>

-----------------------------------------------------------------------------
(* Workers. *)

Fails(failed) ==
  /\ failed => faults < MaxFaults
  /\ faults' = IF failed THEN faults + 1 ELSE faults

IsInventoryJob(job) == job.plan.app = InventoryApp

\* A worker claims a job and verifies it; an expired one is denied.  The jobs made
\* here are valid.
Take(w) ==
  /\ work[w] = None
  /\ \E i \in DOMAIN pending :
       /\ S!Claim(Info, i)
       /\ work' = [work EXCEPT ![w] =
            [signed |-> pending[i], namespaces |-> Namespaces,
             listed |-> << >>, latest |-> NoTag, seen |-> << >>,
             status |-> IF Authentic(pending[i], Key, now) THEN Running ELSE Denied]]
  /\ overtaken' = overtaken \ {w}
  /\ UNCHANGED <<updating, worldVars, fresh, pulled, faults>>

Executes(w) == work[w] # None /\ work[w].status = Running

Ends(w, status) == work' = [work EXCEPT ![w].status = status]

\* kubernetesInventoryExecutor: the deployments of the next namespace.
ListNamespace(w) ==
  /\ Executes(w) /\ IsInventoryJob(work[w].signed.job)
  /\ work[w].listed = << >> /\ work[w].namespaces # << >>
  /\ LET running == {c \in Components :
           NamespaceOf[c] = Head(work[w].namespaces) /\ image[c] # None}
     IN  work' = [work EXCEPT
           ![w].namespaces = Tail(@),
           ![w].listed = SetToSeq({[id |-> c, tag |-> image[c].tag] : c \in running})]
  /\ UNCHANGED <<storeVars, updating, worldVars, historyVars, faults>>

\* What an inventory can report of a container.
Observations ==
  LET tags == UNION {Known(c) : c \in Components} IN
  [id : Components, env : {Environment}, runtime : {S!Kubernetes}, current : tags,
   latest : tags \cup {NoTag}, digest : Contents \cup {None}, update : BOOLEAN]

ASSUME NothingAssumption ==
  /\ \A at \in 0 .. MaxTime : InventoryJob(at) # None
  /\ NoOutput \notin Seq(Observations)

\* Mutant of Observed: a tag is offered without its digest.
ObservedUnpinned(item, latest, digest) ==
  [id |-> item.id, env |-> Environment, runtime |-> S!Kubernetes,
   current |-> item.tag, latest |-> latest,
   digest |-> IF latest = NoTag THEN None ELSE digest,
   update |-> latest # NoTag /\ item.tag # NoTag /\ item.tag # latest]

\* deploymentItem.components: the state of one container.
Observed(item, latest, digest) ==
  [id |-> item.id, env |-> Environment, runtime |-> S!Kubernetes,
   current |-> item.tag, latest |-> latest,
   digest |-> IF latest = NoTag THEN None ELSE digest,
   update |-> /\ latest # NoTag /\ digest # None
              /\ item.tag # NoTag /\ item.tag # latest]

\* The registry's answer: the client follows no link to a next page.
ListedTags(c) ==
  LET tags == DOMAIN registry[c] IN
  {t \in tags : Cardinality({o \in tags : o.raw < t.raw}) < PageSize}

\* The component of a container is complete; the next container is looked up.
Seen(w, component) ==
  work' = [work EXCEPT
    ![w].listed = Tail(@), ![w].latest = NoTag, ![w].seen = Append(@, component)]

\* deploymentItem.components asks the registry for the latest tag.  Without an
\* answer the component has none ...
AskTags(w) ==
  /\ Executes(w) /\ work[w].listed # << >> /\ work[w].latest = NoTag
  /\ LET item == Head(work[w].listed)
         latest == LatestTag(ListedTags(item.id), item.tag)
     IN  \/ work' = [work EXCEPT ![w].latest = latest] /\ Fails(FALSE)
         \/ Seen(w, Observed(item, NoTag, None)) /\ Fails(TRUE)
  /\ UNCHANGED <<storeVars, updating, worldVars, historyVars>>

\* ... and then for what the registry has under that tag by now.
AskDigest(w) ==
  /\ Executes(w) /\ work[w].listed # << >> /\ work[w].latest # NoTag
  /\ LET item == Head(work[w].listed)
         latest == work[w].latest
     IN  \/ Seen(w, Observed(item, latest, registry[item.id][latest])) /\ Fails(FALSE)
         \/ Seen(w, Observed(item, latest, None)) /\ Fails(TRUE)
  /\ UNCHANGED <<storeVars, updating, worldVars, historyVars>>

\* Every namespace is listed: the components are encoded.
EndInventory(w) ==
  /\ Executes(w) /\ IsInventoryJob(work[w].signed.job)
  /\ work[w].listed = << >> /\ work[w].namespaces = << >>
  /\ Ends(w, Succeeded)
  /\ UNCHANGED <<storeVars, updating, worldVars, historyVars, faults>>

\* The inventories that have begun no longer show the cluster as it is.
ClusterChanges ==
  /\ overtaken' = {w \in Workers : work[w] # None}
  /\ fresh' = FALSE

\* kubernetesSetImageExecutor: the deployment is patched with the tag, and runs
\* what the registry has under it.  The answer reaches the executor, or not.
SetImage(w) ==
  /\ Executes(w) /\ ~ IsInventoryJob(work[w].signed.job)
  /\ LET job == work[w].signed.job
         content == registry[job.plan.app][job.image]
     IN  /\ image[job.plan.app] # None
         /\ image' = [image EXCEPT ![job.plan.app] = [tag |-> job.image, content |-> content]]
         /\ pulled' = [pulled EXCEPT ![work[w].signed.enq] = content]
  /\ \/ Ends(w, Succeeded) /\ Fails(FALSE)
     \/ Ends(w, Failed) /\ Fails(TRUE)
  /\ ClusterChanges
  /\ UNCHANGED <<storeVars, updating, registry, now, changes>>

\* The cluster refuses the request under way, or has no such deployment.
ExecutorFails(w) ==
  /\ Executes(w)
  /\ work[w].listed = << >> /\ work[w].namespaces # << >>
  /\ Ends(w, Failed)
  /\ LET job == work[w].signed.job IN
     Fails(IsInventoryJob(job) \/ image[job.plan.app] # None)
  /\ UNCHANGED <<storeVars, updating, worldVars, historyVars>>

StepOf(job) == job.plan.steps[1]

ResultOf(w) ==
  LET job == work[w].signed.job
      reported == IsInventoryJob(job) /\ work[w].status = Succeeded
  IN  [job |-> job.id, enq |-> work[w].signed.enq, status |-> work[w].status,
       steps |-> IF work[w].status = Denied THEN << >>
                 ELSE <<[id |-> StepOf(job).id, status |-> work[w].status,
                         outputs |-> IF reported THEN work[w].seen ELSE NoOutput]>>]

\* The result reaches the store.
Report(w) ==
  /\ work[w] # None /\ work[w].status # Running
  /\ S!Complete(ResultOf(w))
  /\ work' = [work EXCEPT ![w] = None]
  /\ fresh' = IF IsInventoryJob(work[w].signed.job) /\ work[w].status = Succeeded
                THEN w \notin overtaken ELSE fresh
  /\ UNCHANGED <<updating, worldVars, overtaken, pulled, faults>>

\* The worker dies, or its report is lost: see Dispatch.
Lose(w) ==
  /\ work[w] # None
  /\ work' = [work EXCEPT ![w] = None]
  /\ Fails(TRUE)
  /\ UNCHANGED <<storeVars, updating, worldVars, historyVars>>

\* The control plane restarts with an empty store.  The jobs workers work on are
\* no longer claimed, so their inventories add to the table without replacing it.
Restart ==
  /\ pending' = << >> /\ completed' = << >> /\ evidence' = << >>
  /\ claimed' = [id \in S!JobIDs |-> None]
  /\ components' = << >>
  /\ updating' = {}
  /\ overtaken' = {w \in Workers : work[w] # None}
  /\ fresh' = FALSE
  /\ Fails(TRUE)
  /\ UNCHANGED <<submitted, work, worldVars, pulled>>

-----------------------------------------------------------------------------
(* Others. *)

Changing == changes < MaxChanges /\ changes' = changes + 1

\* A build pushes a new tag, or an existing one again with other content.
Push(c, tag, content) ==
  /\ Changing
  /\ registry' = [registry EXCEPT ![c] =
       [t \in DOMAIN @ \cup {tag} |-> IF t = tag THEN content ELSE @[t]]]
  /\ UNCHANGED <<storeVars, updating, work, image, now, historyVars, faults>>

\* Somebody deletes a deployment.
Delete(c) ==
  /\ Changing
  /\ image[c] # None
  /\ image' = [image EXCEPT ![c] = None]
  /\ ClusterChanges
  /\ UNCHANGED <<storeVars, updating, work, registry, now, pulled, faults>>

Tick ==
  /\ now < MaxTime
  /\ now' = now + 1
  /\ UNCHANGED <<storeVars, updating, work, image, registry, changes, historyVars, faults>>

Next ==
  \/ RequestInventory \/ EnqueueUpdate \/ Restart \/ Tick
  \/ \E c \in Components : ReadComponent(c) \/ Delete(c)
  \/ \E c \in Components, t \in Published, x \in Contents : Push(c, t, x)
  \/ \E w \in Workers :
       \/ Take(w) \/ ListNamespace(w) \/ AskTags(w) \/ AskDigest(w) \/ EndInventory(w)
       \/ SetImage(w) \/ ExecutorFails(w) \/ Report(w) \/ Lose(w)

Spec == Init /\ [][Next]_vars

-----------------------------------------------------------------------------
(***************************************************************************)
(* Type invariant.  An observed component never offers an update without a *)
(* tag and a digest to update to, in the table and in the handlers' hands. *)
(***************************************************************************)
ComponentOK(component) ==
  /\ component.id \in Components
  /\ component.update => component.latest # NoTag /\ component.digest \in Contents

TypeOK ==
  /\ pending \in Seq(Range(submitted)) /\ Len(submitted) <= MaxSubmitted
  /\ \A component \in updating : component.update /\ ComponentOK(component)
  /\ \A id \in DOMAIN components : components[id].id = id /\ ComponentOK(components[id])
  /\ \A w \in Workers : work[w] # None =>
       /\ work[w].signed \in Range(submitted)
       /\ work[w].status \in {Running, Succeeded, Failed, Denied}
  /\ now \in 0 .. MaxTime

Inventories == {e \in DOMAIN submitted : IsInventoryJob(submitted[e].job)}

OneInventoryASecond ==
  \A e, f \in Inventories : submitted[e].job.id = submitted[f].job.id => e = f

TableIsTrue ==
  {<<id, components[id].current>> : id \in DOMAIN components} =
    {<<c, image[c].tag>> : c \in {d \in Components : image[d] # None}}

(***************************************************************************)
(* The table is true once an inventory is.  When the last inventory to     *)
(* complete was claimed after the last change of the cluster, the table is *)
(* the cluster: no deleted deployment in it, none missing, each with the   *)
(* tag it runs, although namespaces are listed one by one, updates run in  *)
(* between, and earlier inventories, failed ones and updates complete in   *)
(* any order.  Two inventories of one second are the exception.            *)
(***************************************************************************)
FreshTableIsTrue == fresh /\ OneInventoryASecond => TableIsTrue

(***************************************************************************)
(* An inventory replaces the last one, as TestStoreReplacesKubernetes-     *)
(* InventorySnapshot in internal/controlplane/store_test.go has it.  Not   *)
(* so for two inventories of one second, which share a job ID: the first   *)
(* completion takes the claimed entry of both, and the second one is no    *)
(* longer recognised as an inventory and forgets nothing.                  *)
(***************************************************************************)
InventoryReplaces == fresh => TableIsTrue

(***************************************************************************)
(* A stale component has a newer tag, as the help text of                  *)
(* pk_deploy_control_stale_components in store.go says ("Components with   *)
(* an observed newer image tag").  It holds while the registry lists the   *)
(* tag the component runs.  Of a longer list the client reads one page; a  *)
(* component that runs a tag of a later page is offered an older one.      *)
(***************************************************************************)
StaleMeansNewer ==
  \A id \in DOMAIN components :
    components[id].update => Older(components[id].current, components[id].latest)

(***************************************************************************)
(* Updates go forward.  An update that finds the image its inventory saw   *)
(* replaces it by a newer one, and never by another build of the same      *)
(* release, however long it waited in the handler, the queue and the       *)
(* worker while tags were pushed and other updates ran.                    *)
(***************************************************************************)
UpdatesGoForward ==
  [][\A w \in Workers :
       SetImage(w) =>
         LET job == work[w].signed.job IN
         image[job.plan.app].tag = job.from =>
           /\ Older(job.from, image'[job.plan.app].tag)
           /\ HasReleaseSequence(job.from) =>
                ~ SameTagRank(job.from, image'[job.plan.app].tag)]_vars

(***************************************************************************)
(* Evidence points to immutable content, as the comment of Artifact in     *)
(* pkg/deploy/types.go says: of an update that succeeded, the digest of    *)
(* the job's artifact is the content that was deployed.  Not so when the   *)
(* tag is pushed again after the inventory: the executor gets the tag.     *)
(***************************************************************************)
EvidencePointsToContent ==
  \A n \in DOMAIN evidence :
    LET job == submitted[evidence[n].enq].job IN
    ~ IsInventoryJob(job) /\ evidence[n].status = Succeeded =>
      pulled[evidence[n].enq] = job.digest
=============================================================================
