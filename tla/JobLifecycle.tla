----------------------------- MODULE JobLifecycle -----------------------------
(***************************************************************************)
(* What pk-deploy promises of a job, without saying how: a submission is   *)
(* handed out at most once and never comes back to the queue; its steps    *)
(* start only while it is handed out; once its result is on its way, or    *)
(* the system has lost it, nothing of it runs any more.  That jobs may     *)
(* vanish at all is part of the promise: nothing here is durable.          *)
(***************************************************************************)
EXTENDS Naturals

CONSTANTS
  Submissions,  \* 1 .. n: submissions are numbered in their order
  MaxSteps      \* no plan has more steps

VARIABLES
  phase,   \* submission -> where it is
  started  \* submission -> how many of its steps were started

vars == <<phase, started>>

Absent == "absent"      \* not submitted yet
Queued == "queued"      \* waits for a worker
Handed == "handed"      \* on its way to a worker, or worked on
Finished == "finished"  \* its result is on its way to the store, or there
Gone == "gone"          \* forgotten

Init ==
  /\ phase = [e \in Submissions |-> Absent]
  /\ started = [e \in Submissions |-> 0]

Move(e, from, to) ==
  /\ phase[e] = from
  /\ phase' = [phase EXCEPT ![e] = to]
  /\ UNCHANGED started

Submit(e) ==
  /\ \A f \in Submissions : f < e => phase[f] # Absent
  /\ Move(e, Absent, Queued)

HandOut(e) == Move(e, Queued, Handed)

Finish(e) == Move(e, Handed, Finished)

Start(e) ==
  /\ phase[e] = Handed
  /\ started[e] < MaxSteps
  /\ started' = [started EXCEPT ![e] = @ + 1]
  /\ UNCHANGED phase

\* A claim without a client takes one submission; a crash takes many at once.
Vanish(es) ==
  /\ \A e \in es : phase[e] # Absent
  /\ phase' = [e \in Submissions |-> IF e \in es THEN Gone ELSE phase[e]]
  /\ UNCHANGED started

Next ==
  \/ \E e \in Submissions : Submit(e) \/ HandOut(e) \/ Start(e) \/ Finish(e)
  \/ \E es \in SUBSET Submissions : Vanish(es)

Spec == Init /\ [][Next]_vars
=============================================================================
