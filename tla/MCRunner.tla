------------------------------- MODULE MCRunner -------------------------------
(***************************************************************************)
(* One worker in front of an arbitrary source.  The source offers a job    *)
(* whose second executor nobody registered, one of two steps that expires  *)
(* at time 1, one signed with another secret, one for another environment, *)
(* one whose gate is open, one that names a step twice, one with a check   *)
(* that has failed, and one without a job ID; each may be offered again.   *)
(* Executors leave the step ID to RunOnce, or put "set-image" there.       *)
(***************************************************************************)
EXTENDS Runner

Step(id, executor) == [id |-> id, executor |-> executor, timeout |-> 30]
Gate(status) == [id |-> "approval", required |-> TRUE, status |-> status]

Plan(gate, steps) ==
  [app |-> "shop", components |-> <<[id |-> "web"], [id |-> "db"]>>,
   env |-> "staging", targets |-> << >>, createdAt |-> 0,
   tokens |-> {"plan"}, artifacts |-> << >>,
   gates |-> <<Gate(gate)>>, checks |-> << >>, steps |-> steps, rollback |-> << >>]

Offer(n, key, plan, labels, expiresAt) ==
  [job |-> [id |-> "job-" \o ToString(n), nonce |-> "nonce", plan |-> plan,
            selector |-> [capabilities |-> {"http.get"}, labels |-> labels],
            issuedAt |-> 0, expiresAt |-> expiresAt],
   key |-> key, enq |-> n]

Staging == [environment |-> "staging"]
Two == Plan(Succeeded, <<Step("get", "http.get"), Step("set-image", "kubernetes.set-image")>>)
Ungated == [Two EXCEPT !.gates = <<Gate(Pending)>>]
Refuted == [Two EXCEPT !.checks = <<[id |-> "smoke", required |-> TRUE, status |-> Failed]>>]
Unready == Plan(Succeeded, <<Step("get", "http.get"), Step("apply", "terraform.apply")>>)
Again == Plan(Succeeded,
  <<Step("get", "http.get"), Step("set-image", "kubernetes.set-image"), Step("get", "http.get")>>)

MCOffers == {
  Offer(1, "k1", Unready, Staging, 2),
  Offer(2, "k1", Two, << >>, 1),
  Offer(3, "k2", Two, Staging, 2),
  Offer(4, "k1", Two, [environment |-> "prod"], 2),
  Offer(5, "k1", Ungated, Staging, 2),
  Offer(6, "k1", Again, Staging, 2),
  Offer(7, "k1", Refuted, Staging, 2),
  [Offer(8, "k1", Two, Staging, 2) EXCEPT !.job.id = ""]}

MCInfo == [w \in {"w1"} |-> [capabilities |-> {"http.get"}, labels |-> Staging]]
MCKeyOf == [w \in {"w1"} |-> "k1"]
=============================================================================
