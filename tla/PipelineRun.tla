---------------------------- MODULE PipelineRun -----------------------------
(***************************************************************************)
(* What a pipeline run promises to its user: jobs are released to the      *)
(* workers in the order that stages and needs prescribe, the run succeeds  *)
(* only when all its jobs have passed, fails only for a job that failed or *)
(* before anything was released, and then keeps its verdict.               *)
(* Orchestrator.tla implements this module as long as the callbacks of a   *)
(* run are handled one at a time and the store, the broker and the         *)
(* callback clients do not fail (PromiseProofs.tla).                       *)
(***************************************************************************)
EXTENDS Integers, Sequences, FiniteSets

CONSTANTS Jobs, NumStages, StageOf, Needs, AllowFailures

VARIABLES
  status,    \* status of the run, as the report shows it
  released,  \* jobs handed to the workers
  outcome    \* outcome[j]: the outcomes reported for j (a job may run again)

vars == <<status, released, outcome>>

Outcomes == {"success", "failed"}

TypeOK ==
  /\ status \in {"none", "queued"} \cup Outcomes
  /\ released \subseteq Jobs
  /\ outcome \in [Jobs -> SUBSET Outcomes]

Init == status = "none" /\ released = {} /\ outcome = [j \in Jobs |-> {}]

\* A failure counts as a pass for a job with failures: true.
Passed(j) == "success" \in outcome[j] \/ (j \in AllowFailures /\ outcome[j] # {})

MayStart(j) ==
  /\ \A k \in Jobs : StageOf[k] < StageOf[j] => Passed(k)
  /\ \A i \in DOMAIN Needs[j] : Passed(Needs[j][i])

Create == status = "none" /\ status' = "queued" /\ UNCHANGED <<released, outcome>>

Release(j) ==
  /\ status # "none" /\ MayStart(j)
  /\ released' = released \cup {j}
  /\ UNCHANGED <<status, outcome>>

Report(j, st) ==
  /\ j \in released
  /\ outcome' = [outcome EXCEPT ![j] = @ \cup {st}]
  /\ UNCHANGED <<status, released>>

Succeed ==
  /\ status = "queued" /\ \A j \in Jobs : Passed(j)
  /\ status' = "success"
  /\ UNCHANGED <<released, outcome>>

Fail ==
  /\ status = "queued"
  /\ released = {} \/ \E j \in Jobs \ AllowFailures : "failed" \in outcome[j]
  /\ status' = "failed"
  /\ UNCHANGED <<released, outcome>>

Next ==
  \/ Create \/ Succeed \/ Fail
  \/ \E j \in Jobs : Release(j)
  \/ \E j \in Jobs, st \in Outcomes : Report(j, st)

Spec == Init /\ [][Next]_vars
====
