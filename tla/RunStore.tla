------------------------------ MODULE RunStore ------------------------------
(***************************************************************************)
(* Run rows of the report store: how concurrent POST /run requests         *)
(* allocate a run number or join a run in flight                           *)
(* (internal/store/write.go), and how runs leave the active set.           *)
(*                                                                         *)
(* A request is one MySQL transaction at the default isolation level,      *)
(* REPEATABLE READ: plain SELECTs see the snapshot of the first one, while *)
(* INSERT and the unique indexes see what is committed now.  The row of    *)
(* pipeline_sequences stays locked from the allocation to the end of the   *)
(* transaction.                                                            *)
(***************************************************************************)
EXTENDS Integers, FiniteSets, FiniteSetsExt

CONSTANTS
  Pipelines, Keys,   \* pipeline names and values of request_key
  NoKey,             \* the empty request_key
  Clients,           \* requests the orchestrator works on at once
  Nobody,            \* holds a lock that is free
  MaxRequests,       \* bound: requests in a behaviour
  MaxFaults          \* bound: lost connections and restarts in a behaviour

ASSUME StoreAssumption ==
  /\ Pipelines # {} /\ Keys # {}
  /\ Nobody \notin Clients
  /\ MaxRequests \in Nat /\ MaxFaults \in Nat

VARIABLES
  runs,      \* committed rows of pipeline_runs
  nextNo,    \* nextNo[p]: next_run_no of pipeline_sequences, 1 when there is no row yet
  lock,      \* lock[p]: the client whose transaction holds that row
  pc,        \* pc[c]: where c is in CreateRunOrGetActive
  want,      \* want[c]: <<pipeline, request_key>> of its request
  snapshot,  \* snapshot[c]: active runs equal to the request, as its snapshot shows them
  no,        \* no[c]: the run number allocated or found
  answer,    \* answer[c]: how its last request ended
  live,      \* <<pipeline, number>> of the runs an orchestrator process works on
  requests, faults

txVars == <<pc, want, snapshot, no, answer>>
vars == <<runs, nextNo, lock, txVars, live, requests, faults>>

Rows == [pipeline : Pipelines, no : Nat \ {0}, key : Keys, active : BOOLEAN]
PCs == {"idle", "select", "allocate", "insert", "reselect", "commit"}

TypeOK ==
  /\ runs \subseteq Rows
  /\ nextNo \in [Pipelines -> Nat \ {0}]
  /\ lock \in [Pipelines -> Clients \cup {Nobody}]
  /\ pc \in [Clients -> PCs]
  /\ want \in [Clients -> Pipelines \X Keys]
  /\ snapshot \in [Clients -> SUBSET Nat]
  /\ no \in [Clients -> Nat]
  /\ answer \in [Clients -> {"none", "created", "reused", "error"}]
  /\ live \subseteq Pipelines \X Nat
  /\ requests \in 0 .. MaxRequests
  /\ faults \in 0 .. MaxFaults

Init ==
  /\ runs = {}
  /\ nextNo = [p \in Pipelines |-> 1]
  /\ lock = [p \in Pipelines |-> Nobody]
  /\ pc = [c \in Clients |-> "idle"]
  /\ want = [c \in Clients |-> CHOOSE w \in Pipelines \X Keys : TRUE]
  /\ snapshot = [c \in Clients |-> {}]
  /\ no = [c \in Clients |-> 0]
  /\ answer = [c \in Clients |-> "none"]
  /\ live = {}
  /\ requests = 0
  /\ faults = 0

-----------------------------------------------------------------------------
\* The rows that active_request_key keeps unique: queued or running, with a key.
Active(p, k) == {r \in runs : r.pipeline = p /\ r.key = k /\ r.active /\ k # NoKey}
ActiveNos(c) == {r.no : r \in Active(want[c][1], want[c][2])}
NewRow(c) == [pipeline |-> want[c][1], no |-> no[c], key |-> want[c][2], active |-> TRUE]

Goto(c, label) == pc' = [pc EXCEPT ![c] = label]

\* The transaction is over, by commit or rollback, and the request answered.
Answer(c, kind) ==
  /\ Goto(c, "idle")
  /\ answer' = [answer EXCEPT ![c] = kind]
  /\ snapshot' = [snapshot EXCEPT ![c] = {}]
  /\ lock' = [p \in Pipelines |-> IF lock[p] = c THEN Nobody ELSE lock[p]]
  /\ UNCHANGED want

Rollback(c) == Answer(c, "error") /\ UNCHANGED <<runs, nextNo, no, live>>

Begin(c) ==
  /\ pc[c] = "idle" /\ requests < MaxRequests
  /\ \E p \in Pipelines, k \in Keys :
       /\ want' = [want EXCEPT ![c] = <<p, k>>]
       /\ Goto(c, IF k = NoKey THEN "allocate" ELSE "select")
  /\ answer' = [answer EXCEPT ![c] = "none"]
  /\ requests' = requests + 1
  /\ UNCHANGED <<runs, nextNo, lock, snapshot, no, live, faults>>

\* The first SELECT fixes the snapshot.
SelectActive(c) ==
  LET found == ActiveNos(c)
  IN /\ pc[c] = "select"
     /\ \/ /\ found # {}
           /\ no' = [no EXCEPT ![c] = Min(found)]
           /\ Answer(c, "reused")
        \/ /\ found = {}
           /\ snapshot' = [snapshot EXCEPT ![c] = found]
           /\ Goto(c, "allocate")
           /\ UNCHANGED <<lock, want, no, answer>>
     /\ UNCHANGED <<runs, nextNo, live, requests, faults>>

\* Mutant: the number below the counter is taken twice too low.
AllocateTooLow(c) ==
  /\ pc[c] = "allocate" /\ lock[want[c][1]] = Nobody
  /\ lock' = [lock EXCEPT ![want[c][1]] = c]
  /\ no' = [no EXCEPT ![c] = nextNo[want[c][1]] - 1]
  /\ Goto(c, "insert")
  /\ UNCHANGED <<runs, nextNo, want, snapshot, answer, live, requests, faults>>

\* createRunTx, first statement: the counter is locked and read; the increment
\* is visible to others only after the commit.
AllocateRunNo(c) ==
  /\ pc[c] = "allocate" /\ lock[want[c][1]] = Nobody
  /\ lock' = [lock EXCEPT ![want[c][1]] = c]
  /\ no' = [no EXCEPT ![c] = nextNo[want[c][1]]]
  /\ Goto(c, "insert")
  /\ UNCHANGED <<runs, nextNo, want, snapshot, answer, live, requests, faults>>

\* Mutant: there is no unique index over the active request keys.
InsertWithoutIndex(c) ==
  /\ pc[c] = "insert"
  /\ Goto(c, IF \E r \in runs : r.pipeline = want[c][1] /\ r.no = no[c]
             THEN "reselect" ELSE "commit")
  /\ UNCHANGED <<runs, nextNo, lock, want, snapshot, no, answer, live, requests, faults>>

\* createRunTx, last statement: error 1062 when the number or the active key is
\* taken.  Without a request_key that error ends the request.
InsertRun(c) ==
  LET p == want[c][1]
      duplicate == ActiveNos(c) # {} \/ \E r \in runs : r.pipeline = p /\ r.no = no[c]
  IN /\ pc[c] = "insert"
     /\ Goto(c, IF duplicate THEN "reselect" ELSE "commit")
     /\ UNCHANGED <<runs, nextNo, lock, want, snapshot, no, answer, live, requests, faults>>

\* Mutant: the error path after the second SELECT leaves the transaction open.
ReselectWithoutRollback(c) ==
  /\ pc[c] = "reselect"
  /\ Goto(c, "idle") /\ answer' = [answer EXCEPT ![c] = "error"]
  /\ UNCHANGED <<runs, nextNo, lock, want, snapshot, no, live, requests, faults>>

\* The second SELECT reads the snapshot of the first.
Reselect(c) ==
  /\ pc[c] = "reselect"
  /\ IF snapshot[c] = {}
     THEN Rollback(c)
     ELSE /\ no' = [no EXCEPT ![c] = Min(snapshot[c])]
          /\ nextNo' = [nextNo EXCEPT ![want[c][1]] = @ + 1]
          /\ Answer(c, "reused")
          /\ UNCHANGED <<runs, live>>
  /\ UNCHANGED <<requests, faults>>

\* Mutant: the counter is not part of the transaction's commit.
StoreWithoutCounter(c) == runs' = runs \cup {NewRow(c)} /\ UNCHANGED nextNo

\* The effect of the transaction.
Store(c) ==
  /\ runs' = runs \cup {NewRow(c)}
  /\ nextNo' = [nextNo EXCEPT ![want[c][1]] = @ + 1]

Commit(c) ==
  /\ pc[c] = "commit"
  /\ Store(c)
  /\ Answer(c, "created")
  /\ live' = live \cup {<<want[c][1], no[c]>>}
  /\ UNCHANGED <<no, requests, faults>>

\* UpdateRun with a terminal status.
FinishRun ==
  /\ \E r \in runs :
       /\ r.active /\ <<r.pipeline, r.no>> \in live
       /\ runs' = (runs \ {r}) \cup {[r EXCEPT !.active = FALSE]}
       /\ live' = live \ {<<r.pipeline, r.no>>}
  /\ UNCHANGED <<nextNo, lock, txVars, requests, faults>>

-----------------------------------------------------------------------------
Spend == faults < MaxFaults /\ faults' = faults + 1

\* The context is cancelled or the connection lost: the server rolls back.
Abort(c) == pc[c] # "idle" /\ Spend /\ Rollback(c) /\ UNCHANGED requests

\* The commit is applied but its answer lost: the row stays, with nobody at work on it.
CommitLost(c) ==
  /\ pc[c] = "commit" /\ Spend
  /\ Store(c)
  /\ Answer(c, "error")
  /\ UNCHANGED <<no, live, requests>>

\* The orchestrator restarts: open transactions roll back, runtimes are gone.
Restart ==
  /\ Spend
  /\ lock' = [p \in Pipelines |-> Nobody]
  /\ pc' = [c \in Clients |-> "idle"]
  /\ snapshot' = [c \in Clients |-> {}]
  /\ answer' = [c \in Clients |-> "none"]
  /\ live' = {}
  /\ UNCHANGED <<runs, nextNo, want, no, requests>>

\* Every request is answered and no run is in progress.
AllDone ==
  /\ requests = MaxRequests /\ live = {}
  /\ \A c \in Clients : pc[c] = "idle"
  /\ UNCHANGED vars

TxStep(c) == SelectActive(c) \/ AllocateRunNo(c) \/ InsertRun(c) \/ Reselect(c) \/ Commit(c)

Next ==
  \/ \E c \in Clients : Begin(c) \/ TxStep(c) \/ Abort(c) \/ CommitLost(c)
  \/ FinishRun \/ Restart \/ AllDone

\* The server runs every statement it has, and InnoDB grants a row lock to those
\* that wait for it in turn.
Fairness ==
  /\ \A c \in Clients : WF_vars(TxStep(c)) /\ SF_vars(AllocateRunNo(c))
  /\ WF_vars(FinishRun)

Spec == Init /\ [][Next]_vars /\ Fairness

-----------------------------------------------------------------------------
\* Equal requests never have two runs in flight, whatever transactions overlap,
\* fail or lose the answer to their commit (CreateRunOrGetActive).
AtMostOneActive == \A p \in Pipelines, k \in Keys : \A r, s \in Active(p, k) : r = s

\* createRunTx numbers the runs of a pipeline 1, 2, 3, ... without a gap and
\* without giving a number twice: a transaction that rolls back takes its
\* increment back.
NumbersAreDense ==
  \A p \in Pipelines :
    LET mine == {r \in runs : r.pipeline = p}
    IN /\ {r.no : r \in mine} = 1 .. nextNo[p] - 1
       /\ \A r, s \in mine : r.no = s.no => r = s

\* No request waits for ever: the lock on the counter is given back on every path
\* of CreateRunOrGetActive, so the requests behind it get their turn.
RequestsAreAnswered == \A c \in Clients : pc[c] # "idle" ~> pc[c] = "idle"

\* The README says that a duplicate of a run in flight "returns the original
\* run_no": without a fault of the store no request ends in an error.
DuplicateGetsOriginal == faults = 0 => \A c \in Clients : answer[c] # "error"
====
