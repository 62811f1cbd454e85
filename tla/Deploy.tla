------------------------------- MODULE Deploy -------------------------------
(***************************************************************************)
(* What the control plane and its workers share: signed jobs (pkg/job) and *)
(* the selector by which a worker is matched with a job (pkg/worker).      *)
(*                                                                         *)
(* A job is a record [id, nonce, issuedAt, expiresAt, plan, selector]; a   *)
(* selector and a worker's info are [capabilities, labels], labels being a *)
(* function from keys to values.  Times are natural numbers, or Unset.     *)
(***************************************************************************)
EXTENDS Plans

\* Go reads the zero value "" from a map that has no such key.
LabelOf(labels, key) == IF key \in DOMAIN labels THEN labels[key] ELSE ""

\* Info.Matches: every capability the selector asks for, every label equal.
Matches(info, selector) ==
  /\ selector.capabilities \subseteq info.capabilities
  /\ \A key \in DOMAIN selector.labels :
       LabelOf(info.labels, key) = selector.labels[key]

\* Job.Expired: from expiresAt on, the job is no longer executable.
Expired(job, now) == job.expiresAt # Unset /\ now >= job.expiresAt

(***************************************************************************)
(* A signed job.  `key` stands for the signature: the one secret under     *)
(* which the signature of this very content verifies (HMAC), or any other  *)
(* value when it verifies under none.  `enq` is a history variable's name  *)
(* for the submission the envelope came from; the code has no such field.  *)
(***************************************************************************)
Envelopes(jobs, keys) == [job : jobs, key : keys, enq : Nat]

\* Mutant of Signable: only workers validate.
SignableAny(job) == TRUE

\* Sign refuses a job that is not valid.
Signable(job) == ValidJob(job)

\* Mutant of Verifies: expiry is left to the control plane.
VerifiesUnexpiring(signed, key, now) == ValidJob(signed.job) /\ signed.key = key

\* The expiry, and the key with the signature.
Authentic(signed, key, now) == ~ Expired(signed.job, now) /\ signed.key = key

\* job.Verify behind the worker's key check.
Verifies(signed, key, now) == ValidJob(signed.job) /\ Authentic(signed, key, now)
=============================================================================
