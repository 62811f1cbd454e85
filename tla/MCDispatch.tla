------------------------------ MODULE MCDispatch ------------------------------
(***************************************************************************)
(* Small instances of Dispatch: two workers, of which the second has no    *)
(* capability the two-step job asks for; and for the shared-ID instances   *)
(* two update jobs whose components have the same slug.                    *)
(***************************************************************************)
EXTENDS Dispatch

Step(id, executor) == [id |-> id, executor |-> executor, timeout |-> 30]
NewJob(id, app, steps, caps, labels, expiresAt) ==
  [id |-> id, nonce |-> "nonce",
   plan |-> [app |-> app, components |-> << >>, env |-> "staging", targets |-> << >>,
             createdAt |-> 0, tokens |-> {"plan"}, artifacts |-> << >>,
             gates |-> << >>, checks |-> << >>, steps |-> steps, rollback |-> << >>],
   selector |-> [capabilities |-> caps, labels |-> labels],
   issuedAt |-> 0, expiresAt |-> expiresAt]
Staging == [environment |-> "staging"]

Rollout == NewJob("rollout", "shop",
  <<Step("set-image", "kubernetes.set-image"), Step("probe", "http.get")>>,
  {"kubernetes.set-image"}, Staging, 2)
Probe == NewJob("probe", "shop", <<Step("probe", "http.get")>>, {}, << >>, 1)
Foreign == NewJob("foreign", "shop",
  <<[Step("probe", "http.get") EXCEPT !.timeout = 0], Step("apply", "terraform.apply")>>,
  {}, Staging, 1)
Twice == [Probe EXCEPT !.id = "twice", !.plan.steps = <<@[1], @[1]>>]
Update(app) == NewJob("update-a-b-c-d", app, <<Step("set-image", "kubernetes.set-image")>>,
  {"kubernetes.set-image"}, Staging, 2)

MCInfo == [w \in Workers |->
  [capabilities |-> IF w = "w1" THEN {"http.get", "kubernetes.set-image"} ELSE {"http.get"},
   labels |-> Staging]]
TwinInfo == [w \in Workers |->
  [capabilities |-> {"http.get", "kubernetes.set-image"}, labels |-> Staging]]
MCKeyOf == [w \in Workers |-> "k1"]
MixedKeys == [w \in Workers |-> IF w = "w1" THEN "k1" ELSE "k2"]

MCJobs == {Rollout, Probe, Twice}
ForeignJobs == {Rollout, Foreign}
SharedIDs == {Update("a/b-c/d"), Update("a-b/c/d")}
=============================================================================
