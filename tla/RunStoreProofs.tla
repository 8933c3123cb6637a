--------------------------- MODULE RunStoreProofs ---------------------------
(***************************************************************************)
(* For any number of requests, pipelines and keys, and any faults: equal   *)
(* requests have at most one run in flight and run numbers are dense.      *)
(* The argument is the lock on the counter: whoever has a number holds it, *)
(* so between the check of the unique index and the commit nobody else     *)
(* adds a run to the same pipeline, and the number is still the next one.  *)
(***************************************************************************)
EXTENDS RunStore, TLAPS

\* How long the provers may take over a leaf.
USE SMTT(20), ZenonT(20)

\* A request that has a number holds the lock of its pipeline.
NumberedHoldLock ==
  \A c \in Clients : pc[c] \in {"insert", "reselect", "commit"} =>
    lock[want[c][1]] = c /\ no[c] = nextNo[want[c][1]]

\* Nothing equal is in flight when a request is about to commit.
CommitIsSafe == \A c \in Clients : pc[c] = "commit" => Active(want[c][1], want[c][2]) = {}

\* The snapshot of a request that went on shows nothing to reuse.
SnapshotsAreEmpty == \A c \in Clients : snapshot[c] = {}

IInv ==
  /\ TypeOK /\ NumberedHoldLock /\ CommitIsSafe /\ SnapshotsAreEmpty
  /\ AtMostOneActive /\ NumbersAreDense

-----------------------------------------------------------------------------
\* The tables are empty and every client is idle.
LEMMA InitIInv == Init => IInv
<1> SUFFICES ASSUME Init PROVE IInv
  OBVIOUS
<1>1. (CHOOSE w \in Pipelines \X Keys : TRUE) \in Pipelines \X Keys
  <2>1. PICK p \in Pipelines, k \in Keys : TRUE
    BY StoreAssumption
  <2>2. <<p, k>> \in Pipelines \X Keys
    OBVIOUS
  <2> QED
    BY <2>2
<1>2. TypeOK
  BY <1>1, StoreAssumption DEF Init, TypeOK, Rows, PCs
<1>3. NumberedHoldLock /\ CommitIsSafe /\ SnapshotsAreEmpty
  BY DEF Init, NumberedHoldLock, CommitIsSafe, SnapshotsAreEmpty
<1>4. AtMostOneActive
  BY DEF Init, AtMostOneActive, Active
<1>5. NumbersAreDense
  BY DEF Init, NumbersAreDense
<1> QED
  BY <1>2, <1>3, <1>4, <1>5 DEF IInv

\* The end of a transaction touches only the client itself and the locks it held.
LEMMA AnswerEffect ==
  ASSUME TypeOK, SnapshotsAreEmpty, NEW c \in Clients,
         NEW kind \in {"created", "reused", "error"}, Answer(c, kind)
  PROVE  /\ lock' \in [Pipelines -> Clients \cup {Nobody}]
         /\ pc' \in [Clients -> PCs] /\ want' = want /\ SnapshotsAreEmpty'
         /\ snapshot' \in [Clients -> SUBSET Nat]
         /\ answer' \in [Clients -> {"none", "created", "reused", "error"}]
         /\ pc'[c] = "idle"
         /\ \A d \in Clients \ {c} : pc'[d] = pc[d]
         /\ \A d \in Clients \ {c}, p \in Pipelines : lock[p] = d => lock'[p] = d
<1>1. /\ lock' \in [Pipelines -> Clients \cup {Nobody}]
      /\ pc' \in [Clients -> PCs] /\ pc'[c] = "idle"
      /\ \A d \in Clients \ {c} : pc'[d] = pc[d]
      /\ want' = want
  BY DEF Answer, Goto, TypeOK, PCs
<1>2. SnapshotsAreEmpty' /\ snapshot' \in [Clients -> SUBSET Nat]
  BY DEF Answer, TypeOK, SnapshotsAreEmpty
<1>3. answer' \in [Clients -> {"none", "created", "reused", "error"}]
  BY DEF Answer, TypeOK
<1>4. \A d \in Clients \ {c}, p \in Pipelines : lock[p] = d => lock'[p] = d
  BY DEF Answer
<1> QED
  BY <1>1, <1>2, <1>3, <1>4

\* What the tables must keep when they do not change and a transaction ends.
LEMMA AnswerKeeps ==
  ASSUME IInv, NEW c \in Clients, NEW kind \in {"created", "reused", "error"}, Answer(c, kind),
         UNCHANGED <<runs, nextNo>>, \A d \in Clients \ {c} : no'[d] = no[d]
  PROVE  /\ NumberedHoldLock' /\ CommitIsSafe' /\ SnapshotsAreEmpty'
         /\ AtMostOneActive' /\ NumbersAreDense'
<1>1. /\ want' = want /\ SnapshotsAreEmpty' /\ pc'[c] = "idle"
      /\ \A d \in Clients \ {c} : pc'[d] = pc[d]
      /\ \A d \in Clients \ {c}, p \in Pipelines : lock[p] = d => lock'[p] = d
  BY AnswerEffect DEF IInv
<1>2. \A d \in Clients : want[d][1] \in Pipelines
  BY DEF IInv, TypeOK
<1>3. NumberedHoldLock'
  BY <1>1, <1>2 DEF IInv, NumberedHoldLock
<1>4. CommitIsSafe' /\ AtMostOneActive' /\ NumbersAreDense'
  BY <1>1 DEF IInv, CommitIsSafe, AtMostOneActive, NumbersAreDense, Active
<1> QED
  BY <1>1, <1>3, <1>4

\* A rollback leaves the tables as they were.
LEMMA RollbackStep ==
  ASSUME IInv, NEW c \in Clients, Rollback(c), requests' \in 0 .. MaxRequests,
         faults' \in 0 .. MaxFaults
  PROVE  IInv'
<1>1. Answer(c, "error") /\ UNCHANGED <<runs, nextNo, no, live>>
  BY DEF Rollback
<1>2. TypeOK'
  BY <1>1, AnswerEffect DEF IInv, TypeOK
<1> QED
  BY <1>1, <1>2, AnswerKeeps DEF IInv

\* A statement that only moves the client and leaves the tables alone.
LEMMA QuietStep ==
  ASSUME IInv, TypeOK', NEW c \in Clients, UNCHANGED <<runs, nextNo>>, SnapshotsAreEmpty',
         \A d \in Clients \ {c} : pc'[d] = pc[d] /\ want'[d] = want[d] /\ no'[d] = no[d],
         \A d \in Clients \ {c}, p \in Pipelines : lock[p] = d => lock'[p] = d,
         pc'[c] \in {"insert", "reselect", "commit"} =>
           lock'[want'[c][1]] = c /\ no'[c] = nextNo[want'[c][1]],
         pc'[c] = "commit" => Active(want'[c][1], want'[c][2]) = {}
  PROVE  IInv'
<1>1. \A d \in Clients : want[d][1] \in Pipelines
  BY DEF IInv, TypeOK
<1>2. NumberedHoldLock'
  BY <1>1 DEF IInv, NumberedHoldLock
<1>3. CommitIsSafe' /\ AtMostOneActive' /\ NumbersAreDense'
  BY DEF IInv, CommitIsSafe, AtMostOneActive, NumbersAreDense, Active
<1> QED
  BY <1>2, <1>3 DEF IInv

\* The commit adds the next number and the only run in flight for its key.
LEMMA StoreStep ==
  ASSUME IInv, NEW c \in Clients, NEW kind \in {"created", "error"}, pc[c] = "commit", Store(c),
         Answer(c, kind), no' = no, live' \subseteq Pipelines \X Nat,
         requests' \in 0 .. MaxRequests, faults' \in 0 .. MaxFaults
  PROVE  IInv'
<1> DEFINE p == want[c][1]
           k == want[c][2]
           row == NewRow(c)
<1>1. /\ p \in Pipelines /\ k \in Keys /\ nextNo[p] \in Nat \ {0}
      /\ no[c] = nextNo[p] /\ lock[p] = c /\ Active(p, k) = {}
  BY Zenon DEF IInv, TypeOK, NumberedHoldLock, CommitIsSafe
<1>2. /\ row.pipeline = p /\ row.no = nextNo[p] /\ row.key = k /\ row.active = TRUE
      /\ row \in Rows
  BY <1>1 DEF NewRow, Rows
<1> HIDE DEF row
<1>3. /\ runs' = runs \cup {row}
      /\ nextNo' = [nextNo EXCEPT ![p] = @ + 1]
  BY DEF Store, row
<1>4. /\ want' = want /\ SnapshotsAreEmpty' /\ pc'[c] = "idle"
      /\ \A d \in Clients \ {c} : pc'[d] = pc[d]
      /\ \A d \in Clients \ {c}, q \in Pipelines : lock[q] = d => lock'[q] = d
  BY AnswerEffect DEF IInv
<1>5. TypeOK'
  BY <1>1, <1>2, <1>3, AnswerEffect DEF IInv, TypeOK
<1>6. /\ nextNo'[p] = nextNo[p] + 1
      /\ \A q \in Pipelines \ {p} : nextNo'[q] = nextNo[q]
  BY <1>1, <1>3 DEF IInv, TypeOK
<1>7. ASSUME NEW d \in Clients \ {c}, pc[d] \in {"insert", "reselect", "commit"}
      PROVE  want[d][1] \in Pipelines \ {p}
  <2>1. lock[want[d][1]] = d /\ want[d][1] \in Pipelines
    BY <1>7 DEF IInv, NumberedHoldLock, TypeOK
  <2> QED
    BY <1>1, <2>1
<1>8. NumberedHoldLock'
  BY <1>4, <1>6, <1>7 DEF IInv, NumberedHoldLock
<1>9. CommitIsSafe'
  <2>1. \A q \in Pipelines \ {p}, l \in Keys : Active(q, l)' = Active(q, l)
    BY <1>2, <1>3 DEF Active
  <2>2. \A d \in Clients : want[d][2] \in Keys
    BY DEF IInv, TypeOK
  <2> QED
    BY <1>4, <1>7, <2>1, <2>2 DEF IInv, CommitIsSafe
<1>10. AtMostOneActive'
  <2> SUFFICES ASSUME NEW q \in Pipelines, NEW l \in Keys,
                      NEW r \in Active(q, l)', NEW s \in Active(q, l)'
               PROVE  r = s
    BY DEF AtMostOneActive
  <2>1. \A x \in {r, s} : x = row \/ x \in Active(q, l)
    BY <1>3 DEF Active
  <2>2. r = row \/ s = row => Active(q, l) = {}
    BY <1>1, <1>2 DEF Active
  <2> QED
    BY <2>1, <2>2 DEF IInv, AtMostOneActive
<1>11. NumbersAreDense'
  <2> SUFFICES ASSUME NEW q \in Pipelines
               PROVE  /\ {r.no : r \in {x \in runs' : x.pipeline = q}} = 1 .. nextNo'[q] - 1
                      /\ \A r, s \in {x \in runs' : x.pipeline = q} : r.no = s.no => r = s
    BY DEF NumbersAreDense
  <2>1. /\ {r.no : r \in {x \in runs : x.pipeline = q}} = 1 .. nextNo[q] - 1
        /\ \A r, s \in {x \in runs : x.pipeline = q} : r.no = s.no => r = s
    BY DEF IInv, NumbersAreDense
  <2>2. CASE q # p
    <3>1. {x \in runs' : x.pipeline = q} = {x \in runs : x.pipeline = q}
      BY <1>2, <1>3, <2>2
    <3> QED
      BY <1>6, <2>1, <2>2, <3>1
  <2>3. CASE q = p
    <3>1. {x \in runs' : x.pipeline = q} = {x \in runs : x.pipeline = q} \cup {row}
      BY <1>2, <1>3, <2>3
    <3>2. \A r \in {x \in runs : x.pipeline = q} : r.no \in 1 .. nextNo[p] - 1
      BY <2>1, <2>3
    <3>3. {r.no : r \in {x \in runs' : x.pipeline = q}} = (1 .. nextNo[p] - 1) \cup {nextNo[p]}
      BY <1>2, <2>1, <2>3, <3>1
    <3>4. (1 .. nextNo[p] - 1) \cup {nextNo[p]} = 1 .. (nextNo[p] + 1) - 1
      BY <1>1
    <3>5. \A r \in {x \in runs : x.pipeline = q} : r.no # row.no
      BY <1>1, <1>2, <3>2
    <3> QED
      BY <1>6, <2>1, <2>3, <3>1, <3>3, <3>4, <3>5
  <2> QED
    BY <2>2, <2>3
<1> QED
  BY <1>4, <1>5, <1>8, <1>9, <1>10, <1>11 DEF IInv

\* A run that ends leaves the set of runs in flight and keeps its number.
LEMMA FinishRunStep == IInv /\ FinishRun => IInv'
<1> SUFFICES ASSUME IInv, FinishRun PROVE IInv'
  OBVIOUS
<1>1. PICK r \in runs : /\ r.active
                        /\ runs' = (runs \ {r}) \cup {[r EXCEPT !.active = FALSE]}
                        /\ live' = live \ {<<r.pipeline, r.no>>}
  BY DEF FinishRun
<1> DEFINE ended == [r EXCEPT !.active = FALSE]
<1>2. r \in Rows
  BY <1>1 DEF IInv, TypeOK
<1>3. /\ ended \in Rows /\ ended.pipeline = r.pipeline /\ ended.no = r.no
      /\ ended.key = r.key /\ ended.active = FALSE
  BY Zenon, <1>2 DEF Rows
<1>4. runs' = (runs \ {r}) \cup {ended}
  BY <1>1
<1> HIDE DEF ended
<1>5. UNCHANGED <<nextNo, lock, pc, want, snapshot, no, answer, requests, faults>>
  BY DEF FinishRun, txVars
<1>6. TypeOK'
  BY <1>1, <1>3, <1>4, <1>5 DEF IInv, TypeOK
<1>7. \A p \in Pipelines, k \in Keys : Active(p, k)' \subseteq Active(p, k)
  BY <1>3, <1>4 DEF Active
<1>8. \A c \in Clients : want[c][1] \in Pipelines /\ want[c][2] \in Keys
  BY DEF IInv, TypeOK
<1>9. CommitIsSafe'
  BY <1>5, <1>7, <1>8 DEF IInv, CommitIsSafe
<1>10. AtMostOneActive'
  BY <1>7 DEF IInv, AtMostOneActive
<1>11. NumberedHoldLock' /\ SnapshotsAreEmpty'
  BY <1>5 DEF IInv, NumberedHoldLock, SnapshotsAreEmpty
<1>12. NumbersAreDense'
  <2> SUFFICES ASSUME NEW q \in Pipelines
               PROVE  /\ {x.no : x \in {y \in runs' : y.pipeline = q}} = 1 .. nextNo[q] - 1
                      /\ \A x, z \in {y \in runs' : y.pipeline = q} : x.no = z.no => x = z
    BY <1>5 DEF NumbersAreDense
  <2>1. /\ {x.no : x \in {y \in runs : y.pipeline = q}} = 1 .. nextNo[q] - 1
        /\ \A x, z \in {y \in runs : y.pipeline = q} : x.no = z.no => x = z
    BY DEF IInv, NumbersAreDense
  <2>2. {x.no : x \in {y \in runs' : y.pipeline = q}}
          = {x.no : x \in {y \in runs : y.pipeline = q}}
    BY <1>1, <1>3, <1>4
  <2>3. \A x, z \in {y \in runs' : y.pipeline = q} : x.no = z.no => x = z
    BY <1>1, <1>3, <1>4, <2>1
  <2> QED
    BY <2>1, <2>2, <2>3
<1> QED
  BY <1>6, <1>9, <1>10, <1>11, <1>12 DEF IInv

\* A restart rolls every open transaction back.
LEMMA RestartStep == IInv /\ Restart => IInv'
<1> SUFFICES ASSUME IInv, Restart PROVE IInv'
  OBVIOUS
<1>1. TypeOK'
  BY StoreAssumption DEF IInv, TypeOK, Restart, Spend, PCs
<1>2. NumberedHoldLock' /\ CommitIsSafe' /\ SnapshotsAreEmpty'
  BY DEF Restart, NumberedHoldLock, CommitIsSafe, SnapshotsAreEmpty
<1>3. AtMostOneActive' /\ NumbersAreDense'
  BY DEF IInv, Restart, AtMostOneActive, NumbersAreDense, Active
<1> QED
  BY <1>1, <1>2, <1>3 DEF IInv

\* The first SELECT: at most one run can be found, and one that is found is reused.
LEMMA SelectActiveStep ==
  ASSUME IInv, NEW c \in Clients, SelectActive(c)
  PROVE  IInv'
<1> DEFINE found == ActiveNos(c)
<1>1. want[c][1] \in Pipelines /\ want[c][2] \in Keys
  BY DEF IInv, TypeOK
<1>2. UNCHANGED <<runs, nextNo, live, requests, faults>>
  BY DEF SelectActive
<1>3. CASE found # {} /\ no' = [no EXCEPT ![c] = Min(found)] /\ Answer(c, "reused")
  <2>1. PICK r \in Active(want[c][1], want[c][2]) : TRUE
    BY <1>3 DEF ActiveNos
  <2>2. found = {r.no} /\ r.no \in Nat
    BY <1>1, <2>1 DEF IInv, AtMostOneActive, ActiveNos, Active, TypeOK, Rows
  <2>3. Min(found) = r.no
    <3>1. Min({r.no}) = r.no
      BY <2>2 DEF Min
    <3> QED
      BY <2>2, <3>1
  <2>4. no' \in [Clients -> Nat]
    BY <1>3, <2>2, <2>3 DEF IInv, TypeOK
  <2>5. TypeOK'
    BY <1>2, <1>3, <2>4, AnswerEffect DEF IInv, TypeOK
  <2>6. \A d \in Clients \ {c} : no'[d] = no[d]
    BY <1>3 DEF IInv, TypeOK
  <2> QED
    BY <1>2, <1>3, <2>5, <2>6, AnswerKeeps DEF IInv
<1>4. CASE /\ found = {} /\ snapshot' = [snapshot EXCEPT ![c] = found] /\ Goto(c, "allocate")
           /\ UNCHANGED <<lock, want, no, answer>>
  <2>1. TypeOK' /\ SnapshotsAreEmpty'
    BY <1>2, <1>4 DEF IInv, TypeOK, SnapshotsAreEmpty, Goto, PCs
  <2>2. pc'[c] = "allocate" /\ \A d \in Clients \ {c} : pc'[d] = pc[d]
    BY <1>4 DEF IInv, TypeOK, Goto
  <2> QED
    BY <1>2, <1>4, <2>1, <2>2, QuietStep
<1> QED
  BY <1>3, <1>4 DEF SelectActive

\* The steps of one request.
LEMMA ClientStep ==
  ASSUME IInv, NEW c \in Clients, Begin(c) \/ TxStep(c) \/ Abort(c) \/ CommitLost(c)
  PROVE  IInv'
<1> USE DEF Goto
<1>1. CASE Begin(c)
  <2>1. TypeOK' /\ SnapshotsAreEmpty'
    <3>1. PICK p \in Pipelines, k \in Keys :
            /\ want' = [want EXCEPT ![c] = <<p, k>>]
            /\ Goto(c, IF k = NoKey THEN "allocate" ELSE "select")
      BY Zenon, <1>1 DEF Begin
    <3>2. want' \in [Clients -> Pipelines \X Keys] /\ pc' \in [Clients -> PCs]
      BY <3>1 DEF IInv, TypeOK, PCs
    <3>3. answer' \in [Clients -> {"none", "created", "reused", "error"}]
      BY <1>1 DEF Begin, IInv, TypeOK
    <3>4. requests' \in 0 .. MaxRequests
      BY <1>1, StoreAssumption DEF Begin, IInv, TypeOK
    <3> QED
      BY <1>1, <3>2, <3>3, <3>4 DEF Begin, IInv, TypeOK, SnapshotsAreEmpty
  <2>2. /\ pc'[c] \in {"allocate", "select"}
        /\ \A d \in Clients \ {c} : pc'[d] = pc[d] /\ want'[d] = want[d]
        /\ UNCHANGED <<runs, nextNo, lock, no>>
    BY <1>1 DEF Begin, IInv, TypeOK
  <2> QED
    BY <2>1, <2>2, QuietStep
<1>2. CASE SelectActive(c)
  BY <1>2, SelectActiveStep
<1>3. CASE AllocateRunNo(c)
  <2>1. want[c][1] \in Pipelines
    BY DEF IInv, TypeOK
  <2>2. TypeOK' /\ SnapshotsAreEmpty'
    BY <1>3, <2>1 DEF AllocateRunNo, IInv, TypeOK, SnapshotsAreEmpty, PCs
  <2>3. /\ pc'[c] = "insert" /\ lock'[want[c][1]] = c /\ no'[c] = nextNo[want[c][1]]
        /\ \A d \in Clients \ {c} : pc'[d] = pc[d] /\ no'[d] = no[d]
        /\ UNCHANGED <<runs, nextNo, want>>
    BY <1>3, <2>1 DEF AllocateRunNo, IInv, TypeOK
  <2>4. \A d \in Clients \ {c}, p \in Pipelines : lock[p] = d => lock'[p] = d
    BY <1>3, StoreAssumption DEF AllocateRunNo, IInv, TypeOK
  <2> QED
    BY <2>2, <2>3, <2>4, QuietStep
<1>4. CASE InsertRun(c)
  <2>1. TypeOK' /\ SnapshotsAreEmpty'
    BY <1>4 DEF InsertRun, IInv, TypeOK, SnapshotsAreEmpty, PCs
  <2>2. /\ pc[c] = "insert" /\ \A d \in Clients \ {c} : pc'[d] = pc[d]
        /\ pc'[c] = "commit" => ActiveNos(c) = {}
        /\ UNCHANGED <<runs, nextNo, lock, want, no>>
    BY <1>4 DEF InsertRun, IInv, TypeOK
  <2>3. ActiveNos(c) = {} => Active(want[c][1], want[c][2]) = {}
    BY Zenon DEF ActiveNos
  <2>4. lock[want[c][1]] = c /\ no[c] = nextNo[want[c][1]]
    BY <2>2 DEF IInv, NumberedHoldLock
  <2> QED
    BY <2>1, <2>2, <2>3, <2>4, QuietStep
<1>5. CASE Reselect(c)
  <2>1. Rollback(c) /\ UNCHANGED <<requests, faults>>
    BY <1>5 DEF Reselect, IInv, SnapshotsAreEmpty
  <2> QED
    BY <2>1, RollbackStep DEF IInv, TypeOK
<1>6. CASE Commit(c)
  <2>1. /\ pc[c] = "commit" /\ Store(c) /\ Answer(c, "created") /\ no' = no
        /\ requests' = requests /\ faults' = faults
        /\ live' = live \cup {<<want[c][1], no[c]>>}
    BY <1>6 DEF Commit
  <2>2. live' \subseteq Pipelines \X Nat /\ requests' \in 0 .. MaxRequests /\ faults' \in 0 .. MaxFaults
    BY <2>1 DEF IInv, TypeOK
  <2> QED
    BY <2>1, <2>2, StoreStep
<1>7. CASE Abort(c)
  <2>1. requests' \in 0 .. MaxRequests /\ faults' \in 0 .. MaxFaults
    BY <1>7, StoreAssumption DEF Abort, Spend, IInv, TypeOK
  <2> QED
    BY <1>7, <2>1, RollbackStep DEF Abort
<1>8. CASE CommitLost(c)
  <2>1. /\ requests' \in 0 .. MaxRequests /\ faults' \in 0 .. MaxFaults
        /\ live' \subseteq Pipelines \X Nat
    BY <1>8, StoreAssumption DEF CommitLost, Spend, IInv, TypeOK
  <2>2. pc[c] = "commit" /\ Store(c) /\ Answer(c, "error") /\ no' = no
    BY <1>8 DEF CommitLost
  <2> QED
    BY <2>1, <2>2, StoreStep
<1> QED
  BY <1>1, <1>2, <1>3, <1>4, <1>5, <1>6, <1>7, <1>8 DEF TxStep

\* IInv is inductive.
LEMMA StepIInv == IInv /\ [Next]_vars => IInv'
<1> SUFFICES ASSUME IInv, [Next]_vars PROVE IInv'
  OBVIOUS
<1>1. CASE UNCHANGED vars
  BY <1>1 DEF vars, txVars, IInv, TypeOK, NumberedHoldLock, CommitIsSafe, SnapshotsAreEmpty,
              AtMostOneActive, NumbersAreDense, Active
<1>2. CASE \E c \in Clients : Begin(c) \/ TxStep(c) \/ Abort(c) \/ CommitLost(c)
  BY <1>2, ClientStep
<1>3. CASE FinishRun \/ Restart
  BY <1>3, FinishRunStep, RestartStep
<1> QED
  BY <1>1, <1>2, <1>3 DEF Next, AllDone

-----------------------------------------------------------------------------
\* Every variable of the run tables and of the transactions keeps its type.
THEOREM TypeCorrect == Spec => []TypeOK
<1>1. IInv => TypeOK
  BY DEF IInv
<1> QED
  BY <1>1, InitIInv, StepIInv, PTL DEF Spec

\* CreateRunOrGetActive never lets two equal requests have a run in flight each,
\* for any number of requests, pipelines, keys and faults.
THEOREM EqualRequestsShareARun == Spec => []AtMostOneActive
<1>1. IInv => AtMostOneActive
  BY DEF IInv
<1> QED
  BY <1>1, InitIInv, StepIInv, PTL DEF Spec

\* createRunTx numbers the runs of every pipeline 1, 2, 3, ... whatever
\* transactions roll back or lose the answer to their commit.
THEOREM RunNumbersAreDense == Spec => []NumbersAreDense
<1>1. IInv => NumbersAreDense
  BY DEF IInv
<1> QED
  BY <1>1, InitIInv, StepIInv, PTL DEF Spec
====
