-------------------------------- MODULE Plans --------------------------------
(***************************************************************************)
(* Plans and their validation (pkg/deploy), and the validation of the jobs *)
(* that carry them (pkg/job).  Validate collects errors; here a plan is    *)
(* valid when there is none.                                               *)
(*                                                                         *)
(* A text is represented by what strings.TrimSpace leaves of it, and every *)
(* text that validateToken refuses (empty, longer than 128 bytes, not      *)
(* UTF-8, with white space inside) by "".  A digest is the sequence of its *)
(* parts between colons.  A plan is [app, components, env, targets,        *)
(* createdAt, tokens, artifacts, gates, checks, steps, rollback], with the *)
(* application and the environment flattened into it: `tokens` are the     *)
(* other required tokens (the plan's ID, kinds, actions, the strategy of a *)
(* rollback), and a rollback target is [id, artifacts], in a sequence that *)
(* is empty when there is none.                                            *)
(***************************************************************************)
EXTENDS Integers, Sequences, FiniteSets

Pending   == "pending"
Running   == "running"
Succeeded == "succeeded"
Failed    == "failed"
Skipped   == "skipped"
Denied    == "denied"

Status == {Pending, Running, Succeeded, Failed, Skipped, Denied}

\* The zero time.Time, before every other.
Unset == -1

IsToken(text) == text # ""

\* Mutant of UniqueIDs: only neighbours are compared.
UniqueNeighbours(items) ==
  \A p, q \in DOMAIN items : q = p + 1 /\ items[p].id = items[q].id => ~ IsToken(items[p].id)

\* validateUnique; items without an ID are skipped, requireToken refuses them.
UniqueIDs(items) ==
  \A p, q \in DOMAIN items : items[p].id = items[q].id /\ IsToken(items[p].id) => p = q

\* What is asked of the IDs of every list in a plan.
ValidIDs(items) == UniqueIDs(items) /\ \A n \in DOMAIN items : IsToken(items[n].id)

ValidArtifacts(artifacts) ==
  /\ ValidIDs(artifacts)
  /\ \A n \in DOMAIN artifacts : artifacts[n].ref # "" /\ Len(artifacts[n].digest) > 1

\* Mutant of ValidGates: a required gate only has to be known.
ValidGatesKnown(gates) ==
  ValidIDs(gates) /\ \A n \in DOMAIN gates : gates[n].status \in Status

\* A required gate has succeeded, any other has a known status.
ValidGates(gates) ==
  /\ ValidIDs(gates)
  /\ \A n \in DOMAIN gates :
       /\ gates[n].status \in Status
       /\ gates[n].required => gates[n].status = Succeeded

\* A check may have no status yet; a required one has no other than success.
ValidChecks(checks) ==
  /\ ValidIDs(checks)
  /\ \A n \in DOMAIN checks :
       /\ checks[n].status \in Status \cup {""}
       /\ checks[n].required => checks[n].status \in {Succeeded, ""}

ValidSteps(steps) ==
  /\ steps # << >>
  /\ ValidIDs(steps)
  /\ \A n \in DOMAIN steps : IsToken(steps[n].executor) /\ steps[n].timeout >= 0

ValidRollback(rollback) ==
  \A n \in DOMAIN rollback : IsToken(rollback[n].id) /\ ValidArtifacts(rollback[n].artifacts)

\* Plan.Validate.
ValidPlan(plan) ==
  /\ plan.createdAt # Unset
  /\ IsToken(plan.app) /\ ValidIDs(plan.components)
  /\ IsToken(plan.env) /\ ValidIDs(plan.targets)
  /\ \A text \in plan.tokens : IsToken(text)
  /\ ValidArtifacts(plan.artifacts)
  /\ ValidGates(plan.gates)
  /\ ValidChecks(plan.checks)
  /\ ValidSteps(plan.steps)
  /\ ValidRollback(plan.rollback)

\* Job.Validate; the nonce is a token like the ID.
ValidJob(job) ==
  /\ IsToken(job.id) /\ IsToken(job.nonce)
  /\ job.issuedAt # Unset /\ job.expiresAt # Unset
  /\ job.expiresAt > job.issuedAt
  /\ ValidPlan(job.plan)
=============================================================================
