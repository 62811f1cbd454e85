------------------------------- MODULE MCStore -------------------------------
(***************************************************************************)
(* A small instance of Store: an inventory job that can be submitted twice *)
(* under one ID (IDs have second granularity), an update job, and a raw    *)
(* job with two steps for the same environment and selector as the         *)
(* inventory; three workers of which one matches only by the absence of    *)
(* its environment label.                                                  *)
(***************************************************************************)
EXTENDS Store

Step(id, executor) == [id |-> id, executor |-> executor]
Job(id, app, env, steps, caps, labels) ==
  [id |-> id, plan |-> [app |-> app, env |-> env, steps |-> steps],
   selector |-> [capabilities |-> caps, labels |-> labels], expiresAt |-> 2]

InventoryJob(env) ==
  Job("inventory-1", "pk-deploy-inventory", env,
      <<Step("kubernetes-inventory", "kubernetes.inventory")>>,
      {"kubernetes.inventory"}, [environment |-> "staging"])
UpdateJob ==
  Job("update-1", "ns/web/app", "staging", <<Step("set-image", "kubernetes.set-image")>>,
      {"kubernetes.set-image"}, [environment |-> "staging"])
ProbeJob ==
  Job("probe-1", "shop", "staging",
      <<Step("kubernetes-inventory", "kubernetes.inventory"), Step("get", "http.get")>>,
      {"kubernetes.inventory"}, [environment |-> "staging"])

MCJobs == {InventoryJob("staging"), UpdateJob, ProbeJob}

MCInfos == {
  [capabilities |-> {"kubernetes.inventory", "kubernetes.set-image"},
   labels |-> [environment |-> "staging"]],
  [capabilities |-> {"kubernetes.inventory"}, labels |-> [environment |-> "staging"]],
  [capabilities |-> {"kubernetes.inventory"}, labels |-> [environment |-> "prod"]]}

Component(id, env, runtime, image) ==
  [id |-> id, env |-> env, runtime |-> runtime, image |-> image]
Web1 == Component("web", "staging", "kubernetes", 1)
Web2 == Component("web", "prod", "kubernetes", 2)
Api1 == Component("api", "staging", "kubernetes", 1)
Vm1  == Component("vm", "staging", "vm", 1)
Nameless == Component("", "staging", "kubernetes", 1)

StepResult(id, status, outputs) == [id |-> id, status |-> status, outputs |-> outputs]
Result(job, status, steps) == [job |-> job, enq |-> 1, status |-> status, steps |-> steps]

MCResults == {
  Result(id, "succeeded", <<StepResult("kubernetes-inventory", "succeeded", <<Web1, Api1>>)>>) :
      id \in JobIDs} \cup {
  Result("inventory-1", "failed",
    <<StepResult("kubernetes-inventory", "succeeded", <<Api1>>),
      StepResult("kubernetes-inventory", "failed", <<Nameless, Web2, Web1>>)>>),
  Result("inventory-1", "succeeded",
    <<StepResult("get", "succeeded", <<Web1>>),
      StepResult("kubernetes-inventory", "succeeded", << >>)>>),
  Result("probe-1", "succeeded",
    <<StepResult("kubernetes-inventory", "succeeded", <<Web2>>),
      StepResult("get", "succeeded", NoOutput)>>),
  Result("update-1", "denied", << >>),
  Result("unverified", "denied", << >>)}

MCReports == {<<Vm1, Web2>>}
MCBundles == {[job |-> "probe-1", enq |-> 0, status |-> "succeeded", steps |-> << >>,
               app |-> "shop", env |-> "staging"]}
=============================================================================
