--------------------------- MODULE PromiseProofs -----------------------------
(***************************************************************************)
(* What holds when the callbacks of a run are handled one at a time, for   *)
(* every pipeline and every number of workers: a job is released only      *)
(* after its needs, whatever fails.  The counter remainingNeeds[d] is at   *)
(* least the number of needs of d that have not passed or whose decrement  *)
(* is still to come; the proof has an injection in place of the number.    *)
(* When neither the store nor the broker nor a callback client fails       *)
(* either, Orchestrator implements PipelineRun.                            *)
(***************************************************************************)
EXTENDS OrchestratorProofs

\* How long the provers may take over a leaf.
USE SMTT(20), ZenonT(20)

\* The callbacks of the run are handled one at a time.
Serial == \A g, h \in Handlers : g = h

\* The jobs that have passed, and a job all of whose needs are in P.
AllPassed == {j \in Jobs : Passed(j)}
NeedsIn(P, d) == \A i \in DOMAIN Needs[d] : Needs[d][i] \in P

\* The places in the needs of d that remainingNeeds[d] still has to count, where
\* the jobs in D are dealt with and the decrements in todo are to come.
Owed(D, d, todo) == {i \in DOMAIN Needs[d] : Needs[d][i] \notin D \/ <<d, i>> \in todo}

\* S has at most n members.
Covers(S, n) == \E f \in [S -> 1 .. n] : \A i, k \in S : f[i] = f[k] => i = k

Walking == {"dependents", "load", "store", "release", "queue"}

\* What the request in slot r knows of the maps, where the jobs in P have passed,
\* those in C are completed and rem is remainingNeeds.
Walks(P, C, rem, r) ==
  /\ \A d \in Jobs : Covers(Owed(P \cap C, d, r.todo), rem[d])
  /\ r.todo # {} => r.pc \in Walking
  /\ \A p \in r.todo : p[2] # 0 => p \in Dependents(r.job) /\ r.job \in P \cap C
  /\ r.pc = "lookup" /\ (r.status = "success" \/ r.job \in AllowFailures) => r.job \in P
  /\ r.pc \in {"check", "mark"} => r.job \in P
  /\ r.pc = "mark" => r.job \notin C
  /\ r.pc \in {"load", "store"} => Covers(Owed(P \cap C, r.at, r.todo), rem[r.at] - 1)
  /\ r.pc = "store" => r.value = rem[r.at]
  /\ r.pc = "queue" => NeedsIn(P, r.at)
  /\ \A d \in r.ready : NeedsIn(P, d)

HandlersWalk == \A h \in Handlers : Walks(AllPassed, completed, remainingNeeds, handler[h])

RequestWalks == \A d \in request.ready : NeedsIn(AllPassed, d)

-----------------------------------------------------------------------------
\* Counting by injections.

\* Fewer things are counted by the same number.
LEMMA CoversSubset ==
  ASSUME NEW S, NEW T, T \subseteq S, NEW n, Covers(S, n)
  PROVE  Covers(T, n)
<1>1. PICK f \in [S -> 1 .. n] : \A i, k \in S : f[i] = f[k] => i = k
  BY DEF Covers
<1> DEFINE g == [i \in T |-> f[i]]
<1>2. g \in [T -> 1 .. n] /\ \A i, k \in T : g[i] = g[k] => i = k
  BY <1>1
<1> QED
  BY Zenon, <1>2 DEF Covers

\* One thing less is counted by one less.
LEMMA CoversRemove ==
  ASSUME NEW S, NEW n \in Int, NEW i \in S, Covers(S, n)
  PROVE  Covers(S \ {i}, n - 1)
<1>1. PICK f \in [S -> 1 .. n] : \A j, k \in S : f[j] = f[k] => j = k
  BY DEF Covers
<1> DEFINE g == [k \in S \ {i} |-> IF f[k] = n THEN f[i] ELSE f[k]]
<1>2. ASSUME NEW k \in S \ {i} PROVE g[k] \in 1 .. (n - 1)
  <2>1. f[k] \in 1 .. n /\ f[i] \in 1 .. n /\ f[k] # f[i]
    BY <1>1
  <2> QED
    BY <2>1
<1>3. ASSUME NEW j \in S \ {i}, NEW k \in S \ {i}, g[j] = g[k] PROVE j = k
  BY <1>1, <1>3
<1>4. g \in [S \ {i} -> 1 .. (n - 1)]
  BY <1>2
<1> HIDE DEF g
<1> QED
  BY <1>3, <1>4 DEF Covers

\* Nothing is counted by zero, and places up to n by n.
LEMMA CoversEnds ==
  /\ \A S : Covers(S, 0) => S = {}
  /\ \A n \in Nat : \A S \in SUBSET (1 .. n) : Covers(S, n)
<1>1. ASSUME NEW S, Covers(S, 0) PROVE S = {}
  BY <1>1 DEF Covers
<1>2. ASSUME NEW n \in Nat, NEW S \in SUBSET (1 .. n) PROVE Covers(S, n)
  <2>1. [i \in S |-> i] \in [S -> 1 .. n]
    OBVIOUS
  <2>2. \A i, k \in S : [j \in S |-> j][i] = [j \in S |-> j][k] => i = k
    OBVIOUS
  <2> QED
    BY Zenon, <2>1, <2>2 DEF Covers
<1> QED
  BY <1>1, <1>2

\* What is owed shrinks as jobs are dealt with and decrements are made.
LEMMA OwedShrinks ==
  ASSUME NEW D, NEW E, NEW d, NEW s, NEW t, D \subseteq E, t \subseteq s
  PROVE  Owed(E, d, t) \subseteq Owed(D, d, s)
BY DEF Owed

-----------------------------------------------------------------------------
\* What a request knows stays true while jobs pass, and where it has nothing to do
\* with the maps.

\* Jobs that pass change nothing for a request.
LEMMA WalksGrows ==
  ASSUME NEW P, NEW Q, P \subseteq Q, NEW C, NEW rem, NEW r, Walks(P, C, rem, r)
  PROVE  Walks(Q, C, rem, r)
<1>1. ASSUME NEW d, NEW n, Covers(Owed(P \cap C, d, r.todo), n)
      PROVE  Covers(Owed(Q \cap C, d, r.todo), n)
  <2>1. Owed(Q \cap C, d, r.todo) \subseteq Owed(P \cap C, d, r.todo)
    BY OwedShrinks
  <2> QED
    BY <1>1, <2>1, CoversSubset
<1>2. \A d : NeedsIn(P, d) => NeedsIn(Q, d)
  BY DEF NeedsIn
<1> QED
  BY Zenon, <1>1, <1>2 DEF Walks

\* A request that has no decrement to make and nothing to publish.
Rests(q) ==
  q.todo = {} /\ q.ready = {} /\ q.pc \notin {"lookup", "check", "mark", "load", "store", "queue"}

\* A request that rests relies on the counters only.
LEMMA WalksAtRest ==
  ASSUME NEW P, NEW C, NEW D, C \subseteq D, NEW rem, NEW r, Walks(P, C, rem, r), NEW q, Rests(q)
  PROVE  Walks(P, D, rem, q)
<1>1. ASSUME NEW d \in Jobs PROVE Covers(Owed(P \cap D, d, q.todo), rem[d])
  <2>1. Owed(P \cap D, d, q.todo) \subseteq Owed(P \cap C, d, r.todo)
    BY OwedShrinks DEF Rests
  <2> QED
    BY Zenon, <2>1, CoversSubset DEF Walks
<1> QED
  BY Zenon, <1>1 DEF Walks, Rests

\* At the start, and after a restart, everything is owed and counted.
LEMMA WalksAnew ==
  ASSUME NEW P
  PROVE  Walks(P, {}, InDegree, FreeHandler)
<1>1. ASSUME NEW d \in Jobs PROVE Covers(Owed(P \cap {}, d, {}), InDegree[d])
  <2>1. Len(Needs[d]) \in Nat /\ DOMAIN Needs[d] = 1 .. Len(Needs[d])
    BY PipelineAssumption
  <2>2. Owed(P \cap {}, d, {}) \subseteq 1 .. Len(Needs[d])
    BY <2>1 DEF Owed
  <2> QED
    BY <2>1, <2>2, CoversEnds DEF InDegree
<1>2. FreeHandler.todo = {} /\ FreeHandler.ready = {} /\ FreeHandler.pc = "free"
  BY DEF FreeHandler
<1> QED
  BY <1>1, <1>2 DEF Walks

\* Outcomes are only added.
LEMMA OutcomesStay ==
  TypeOK /\ [Next]_vars => \A j \in Jobs : reported[j] \subseteq reported'[j]
<1> DEFINE Stay == \A j \in Jobs : reported[j] \subseteq reported'[j]
<1> SUFFICES ASSUME TypeOK, [Next]_vars PROVE Stay
  OBVIOUS
<1>1. ASSUME UNCHANGED reported PROVE Stay
  BY <1>1
<1>2. CASE RequestStep \/ LateJobStarted \/ Quiescent \/ UNCHANGED vars \/ Crash
  BY <1>1, <1>2, RequestFrame, IdleFrame DEF Crash, history
<1>3. ASSUME NEW w \in Workers,
             WorkerStep(w) \/ CallbackTimeout(w) \/ ChannelLost(w) \/ WorkerStops(w)
      PROVE  Stay
  BY Zenon, <1>1, <1>3, WorkerFrame
<1>4. ASSUME NEW h \in Handlers, HandleJobFinished(h) PROVE Stay
  <2>1. CASE FinishJob(h)
    BY <2>1 DEF FinishJob, TypeOK, HandlerStates
  <2>2. CASE ~FinishJob(h)
    BY Zenon, <1>1, <1>4, <2>2, HandlerFrame
  <2> QED
    BY <2>1, <2>2
<1> QED
  BY <1>2, <1>3, <1>4 DEF Next, Fault

\* So a job that has passed stays so.
LEMMA PassedStays == TypeOK /\ [Next]_vars => AllPassed \subseteq AllPassed'
<1> SUFFICES ASSUME TypeOK, [Next]_vars PROVE AllPassed \subseteq AllPassed'
  OBVIOUS
<1>1. \A j \in Jobs : reported[j] \subseteq reported'[j]
  BY OutcomesStay
<1> QED
  BY <1>1 DEF AllPassed, Passed

\* The walk of markJobSucceeded over the dependents, and getReadyJobs: a step of a
\* handler on the maps keeps what it knows of them.
LEMMA StageStateWalks ==
  ASSUME TypeOK, NEW P, NEW h \in Handlers, StageStateStep(h),
         Walks(P, completed, remainingNeeds, handler[h]), Knows(reported, handler[h])
  PROVE  Walks(P, completed', remainingNeeds', handler'[h])
<1> DEFINE r0 == handler[h]
           W(q) == Walks(P, completed, remainingNeeds, q)
<1>0. r0 \in HandlerStates /\ W(r0) /\ completed \subseteq Jobs /\ remainingNeeds \in [Jobs -> Int]
  BY DEF TypeOK
<1>a. ASSUME NEW q, Become(h, q), W(q), UNCHANGED <<completed, remainingNeeds>>
      PROVE  Walks(P, completed', remainingNeeds', handler'[h])
  BY <1>a, BecomeEffect
<1>1. CASE MarkJobSucceeded(h) /\ UNCHANGED remainingNeeds
  <2>1. CASE /\ r0.pc = "check" /\ UNCHANGED completed
             /\ Goto(h, IF r0.job \in completed THEN "complete" ELSE "mark")
    <3>1. W([r0 EXCEPT !.pc = IF r0.job \in completed THEN "complete" ELSE "mark"])
      BY <1>0, <2>1 DEF Walks, HandlerStates, Walking
    <3> QED
      BY <1>1, <1>a, <2>1, <3>1 DEF Goto
  <2>2. CASE /\ r0.pc = "mark" /\ completed' = completed \cup {r0.job}
             /\ Become(h, [r0 EXCEPT !.pc = "dependents", !.todo = Dependents(r0.job)])
    <3> DEFINE q == [r0 EXCEPT !.pc = "dependents", !.todo = Dependents(r0.job)]
    <3>1. /\ q.pc = "dependents" /\ q.todo = Dependents(r0.job) /\ q.ready = r0.ready
          /\ q.job = r0.job
      BY <1>0 DEF HandlerStates
    <3> HIDE DEF q
    <3>2. r0.job \in P /\ r0.job \notin completed
      BY <1>0, <2>2 DEF Walks
    <3>3. ASSUME NEW d \in Jobs
          PROVE  Covers(Owed(P \cap completed', d, q.todo), remainingNeeds[d])
      <4>1. \A i : <<d, i>> \in Dependents(r0.job) => Needs[d][i] = r0.job
        BY DEF Dependents
      <4>2. Owed(P \cap completed', d, q.todo) \subseteq Owed(P \cap completed, d, r0.todo)
        BY <2>2, <3>1, <3>2, <4>1 DEF Owed
      <4>3. Covers(Owed(P \cap completed, d, r0.todo), remainingNeeds[d])
        BY Zenon, <1>0 DEF Walks
      <4> QED
        BY Zenon, <4>2, <4>3, CoversSubset
    <3>4. handler'[h] = q
      BY <2>2, BecomeEffect DEF q
    <3> QED
      BY Zenon, <1>0, <1>1, <2>2, <3>1, <3>2, <3>3, <3>4 DEF Walks, Walking
  <2> QED
    BY <1>1, <2>1, <2>2 DEF MarkJobSucceeded
<1>2. CASE NextDependent(h) /\ UNCHANGED maps
  <2> DEFINE q(p) == [r0 EXCEPT
               !.todo = @ \ {p}, !.at = p[1],
               !.pc = IF p[2] # 0 /\ remainingNeeds[p[1]] > 0 THEN "load" ELSE "release"]
  <2>0. r0.pc = "dependents"
    BY Zenon, <1>2 DEF NextDependent
  <2>1. CASE r0.todo = {} /\ Goto(h, "publish")
    <3>1. W([r0 EXCEPT !.pc = "publish"])
      BY Zenon, <1>0, <2>0, <2>1 DEF Walks, HandlerStates, Walking
    <3> QED
      BY <1>2, <1>a, <2>1, <3>1 DEF Goto, maps
  <2>2. ASSUME NEW p \in r0.todo, Become(h, q(p))
        PROVE  Walks(P, completed', remainingNeeds', handler'[h])
    <3>1. /\ q(p).pc = IF p[2] # 0 /\ remainingNeeds[p[1]] > 0 THEN "load" ELSE "release"
          /\ q(p).todo = r0.todo \ {p} /\ q(p).at = p[1] /\ q(p).ready = r0.ready
          /\ q(p).job = r0.job
      BY <1>0 DEF HandlerStates
    <3> HIDE DEF q
    <3>2. p[1] \in Jobs /\ p[2] \in Nat /\ p = <<p[1], p[2]>>
      BY <1>0, <2>2 DEF HandlerStates
    <3>3. ASSUME NEW d \in Jobs
          PROVE  Covers(Owed(P \cap completed, d, q(p).todo), remainingNeeds[d])
      <4>1. Owed(P \cap completed, d, q(p).todo) \subseteq Owed(P \cap completed, d, r0.todo)
        BY <3>1, OwedShrinks
      <4> QED
        BY Zenon, <1>0, <4>1, CoversSubset DEF Walks
    <3>4. ASSUME p[2] # 0
          PROVE  Covers(Owed(P \cap completed, p[1], q(p).todo), remainingNeeds[p[1]] - 1)
      <4>1. p \in Dependents(r0.job) /\ r0.job \in P \cap completed
        BY <1>0, <2>2, <3>4 DEF Walks
      <4>2. p[2] \in DOMAIN Needs[p[1]] /\ Needs[p[1]][p[2]] = r0.job
        BY <4>1 DEF Dependents
      <4>3. p[2] \in Owed(P \cap completed, p[1], r0.todo)
        BY <2>2, <3>2, <4>2 DEF Owed
      <4>4. Owed(P \cap completed, p[1], q(p).todo)
              \subseteq Owed(P \cap completed, p[1], r0.todo) \ {p[2]}
        BY <3>1, <3>2, <4>1, <4>2 DEF Owed
      <4>5. Covers(Owed(P \cap completed, p[1], r0.todo) \ {p[2]}, remainingNeeds[p[1]] - 1)
        BY Zenon, <1>0, <3>2, <4>3, CoversRemove DEF Walks
      <4> DEFINE S == Owed(P \cap completed, p[1], r0.todo) \ {p[2]}
                 T == Owed(P \cap completed, p[1], q(p).todo)
                 n == remainingNeeds[p[1]] - 1
      <4>6. T \subseteq S /\ Covers(S, n)
        BY Zenon, <4>4, <4>5
      <4> HIDE DEF S, T, n
      <4>7. Covers(T, n)
        BY <4>6, CoversSubset
      <4> QED
        BY <4>7 DEF T, n
    <3>5. handler'[h] = q(p) /\ UNCHANGED <<completed, remainingNeeds>>
      BY <1>2, <2>2, BecomeEffect DEF maps
    <3> QED
      BY Zenon, <1>0, <2>0, <3>1, <3>3, <3>4, <3>5 DEF Walks, Walking
  <2> QED
    BY Zenon, <1>2, <2>1, <2>2 DEF NextDependent
<1>3. CASE LoadRemaining(h) /\ UNCHANGED maps
  <2>1. W([r0 EXCEPT !.pc = "store", !.value = remainingNeeds[r0.at]])
    BY Zenon, <1>0, <1>3 DEF Walks, HandlerStates, Walking, LoadRemaining
  <2> QED
    BY <1>3, <1>a, <2>1 DEF LoadRemaining, maps
<1>4. CASE StoreRemaining(h) /\ UNCHANGED <<queued, completed>>
  <2>1. /\ r0.pc = "store" /\ r0.at \in Jobs
        /\ remainingNeeds' = [remainingNeeds EXCEPT ![r0.at] = r0.value - 1]
        /\ handler'[h] = [r0 EXCEPT !.pc = "release"]
    BY <1>0, <1>4, BecomeEffect DEF StoreRemaining, Goto, HandlerStates
  <2>2. /\ Covers(Owed(P \cap completed, r0.at, r0.todo), remainingNeeds[r0.at] - 1)
        /\ r0.value = remainingNeeds[r0.at]
    BY <1>0, <2>1 DEF Walks
  <2>3. \A d \in Jobs : Covers(Owed(P \cap completed, d, r0.todo), remainingNeeds'[d])
    BY Zenon, <1>0, <2>1, <2>2 DEF Walks
  <2>4. /\ handler'[h].pc = "release" /\ handler'[h].todo = r0.todo
        /\ handler'[h].ready = r0.ready /\ handler'[h].job = r0.job
    BY <1>0, <2>1 DEF HandlerStates
  <2> QED
    BY Zenon, <1>0, <1>4, <2>1, <2>3, <2>4 DEF Walks, Walking
<1>5. CASE TestReady(h) /\ UNCHANGED maps
  <2>0. r0.pc = "release" /\ r0.at \in Jobs
    BY <1>0, <1>5 DEF TestReady, HandlerStates
  <2>1. W([r0 EXCEPT !.pc = "dependents"])
    BY <1>0, <2>0 DEF Walks, HandlerStates, Walking
  <2>2. ASSUME remainingNeeds[r0.at] = 0 PROVE W([r0 EXCEPT !.pc = "queue"])
    <3>0. Covers(Owed(P \cap completed, r0.at, r0.todo), remainingNeeds[r0.at])
      BY Zenon, <1>0, <2>0 DEF Walks
    <3>1. Owed(P \cap completed, r0.at, r0.todo) = {}
      BY Zenon, <2>2, <3>0, CoversEnds
    <3>2. NeedsIn(P, r0.at)
      BY Zenon, <3>1 DEF Owed, NeedsIn
    <3> QED
      BY Zenon, <1>0, <2>0, <3>2 DEF Walks, HandlerStates, Walking
  <2> QED
    BY <1>5, <1>a, <2>1, <2>2 DEF TestReady, Goto, maps
<1>6. CASE MarkQueued(h) /\ UNCHANGED <<remainingNeeds, completed>>
  <2>1. W([r0 EXCEPT !.pc = "dependents", !.ready = @ \cup {r0.at}])
    BY Zenon, <1>0, <1>6 DEF Walks, HandlerStates, Walking, MarkQueued
  <2> QED
    BY <1>6, <1>a, <2>1 DEF MarkQueued
<1> QED
  BY Zenon, <1>1, <1>2, <1>3, <1>4, <1>5, <1>6 DEF StageStateStep

\* A step of a handler keeps what its request knows of the maps.
LEMMA HandlerStepWalks ==
  ASSUME TypeOK, AllPassed \subseteq AllPassed', HandlersWalk, HandlersKnow,
         NEW h \in Handlers, HandleJobFinished(h)
  PROVE  Walks(AllPassed', completed', remainingNeeds', handler'[h])
<1> DEFINE r0 == handler[h]
           Kept == Walks(AllPassed', completed', remainingNeeds', handler'[h])
<1>0. /\ r0 \in HandlerStates /\ Knows(reported, r0)
      /\ Walks(AllPassed, completed, remainingNeeds, r0)
      /\ Walks(AllPassed', completed, remainingNeeds, r0)
  BY WalksGrows DEF TypeOK, HandlersKnow, HandlersWalk
<1>a. ASSUME NEW q, Become(h, q), Rests(q), completed \subseteq completed',
             UNCHANGED remainingNeeds
      PROVE  Kept
  <2>1. handler'[h] = q
    BY <1>a, BecomeEffect
  <2> QED
    BY Zenon, <1>0, <1>a, <2>1, WalksAtRest
<1>b. ASSUME NEW ok, Respond(h, ok), UNCHANGED <<completed, remainingNeeds>> PROVE Kept
  <2>1. Become(h, FreeHandler)
    BY Zenon, <1>b DEF Respond
  <2>2. Rests(FreeHandler)
    BY DEF Rests, FreeHandler
  <2> QED
    BY <1>a, <1>b, <2>1, <2>2
<1>c. ASSUME StoreError(h), UNCHANGED <<completed, remainingNeeds>> PROVE Kept
  BY Zenon, <1>b, <1>c DEF StoreError
<1>d. ASSUME NEW q, Become(h, q), UNCHANGED <<completed, remainingNeeds>>,
             Walks(AllPassed', completed, remainingNeeds, q)
      PROVE  Kept
  BY <1>d, BecomeEffect
<1>e. ASSUME NEW label, Goto(h, label), r0.pc \notin Walking, r0.ready = {},
             label \notin {"lookup", "check", "mark", "load", "store", "queue"},
             completed \subseteq completed', UNCHANGED remainingNeeds
      PROVE  Kept
  <2>1. Rests([r0 EXCEPT !.pc = label])
    BY <1>0, <1>e DEF Rests, Walks, HandlerStates
  <2> QED
    BY <1>a, <1>e, <2>1 DEF Goto
<1>1. CASE FinishJob(h)
  <2>0. r0.pc = "finishJob" /\ UNCHANGED <<completed, remainingNeeds>>
    BY Zenon, <1>1 DEF FinishJob, maps
  <2>1. CASE StoreError(h)
    BY <1>c, <2>0, <2>1
  <2>2. CASE Goto(h, "lookup") /\ reported' = [reported EXCEPT ![r0.job] = @ \cup {r0.status}]
    <3>1. r0.status = "success" \/ r0.job \in AllowFailures => r0.job \in AllPassed'
      BY <1>0, <2>2 DEF AllPassed, Passed, HandlerStates, TypeOK
    <3>2. Walks(AllPassed', completed, remainingNeeds, [r0 EXCEPT !.pc = "lookup"])
      BY <1>0, <2>0, <3>1 DEF Walks, HandlerStates, Walking
    <3> QED
      BY <1>d, <2>0, <2>2, <3>2 DEF Goto
  <2> QED
    BY Zenon, <1>1, <2>1, <2>2 DEF FinishJob
<1>2. CASE LookupRuntime(h)
  <2>0. r0.pc = "lookup" /\ r0.ready = {} /\ UNCHANGED <<completed, remainingNeeds>>
    BY <1>0, <1>2 DEF LookupRuntime, maps, Knows
  <2>1. CASE Goto(h, "check") /\ ~(r0.status = "failed" /\ r0.job \notin AllowFailures)
    <3>1. r0.job \in AllPassed'
      BY <1>0, <2>0, <2>1 DEF Walks, HandlerStates, Terminal
    <3>2. Walks(AllPassed', completed, remainingNeeds, [r0 EXCEPT !.pc = "check"])
      BY <1>0, <2>0, <3>1 DEF Walks, HandlerStates, Walking
    <3> QED
      BY Zenon, <1>d, <2>0, <2>1, <3>2 DEF Goto
  <2>2. CASE Goto(h, "terminal")
    BY <1>e, <2>0, <2>2 DEF Walking
  <2> QED
    BY Zenon, <1>2, <1>b, <2>0, <2>1, <2>2 DEF LookupRuntime
<1>3. CASE MarkJobTerminal(h)
  BY <1>0, <1>3, <1>e DEF MarkJobTerminal, Knows, Walking
<1>4. CASE FailStage(h)
  BY <1>0, <1>4, <1>c, <1>e DEF FailStage, FinishStageAs, Knows, Walking, maps, Goto
<1>5. CASE FailRun(h) \/ FinishRun(h)
  BY <1>0, <1>5, <1>c, <1>e DEF FailRun, FinishRun, FinishRunAs, Knows, Walking, maps
<1>6. CASE DeleteRuntime(h)
  BY Zenon, <1>6, <1>b DEF DeleteRuntime, maps
<1>7. CASE StageStateStep(h)
  BY <1>0, <1>7, StageStateWalks
<1>8. CASE EnqueueReadyJobs(h)
  <2>0. r0.pc = "publish" /\ UNCHANGED <<completed, remainingNeeds>>
    BY Zenon, <1>8 DEF EnqueueReadyJobs, maps
  <2>1. CASE r0.ready = {} /\ Goto(h, "complete")
    BY <1>e, <2>0, <2>1 DEF Walking
  <2>2. ASSUME NEW j, Become(h, [r0 EXCEPT !.ready = @ \ {j}]) PROVE Kept
    <3>1. Walks(AllPassed', completed, remainingNeeds, [r0 EXCEPT !.ready = @ \ {j}])
      BY Zenon, <1>0, <2>0 DEF Walks, HandlerStates, Walking
    <3> QED
      BY <1>d, <2>0, <2>2, <3>1
  <2> QED
    BY Zenon, <1>8, <1>b, <2>0, <2>1, <2>2 DEF EnqueueReadyJobs
<1>9. CASE TestComplete(h)
  <2>0. r0.pc = "complete" /\ r0.ready = {} /\ UNCHANGED <<completed, remainingNeeds>>
    BY <1>0, <1>9 DEF TestComplete, maps, Knows
  <2>1. ASSUME NEW label \in {"finishStage", "finishNext"}, Goto(h, label) PROVE Kept
    BY <1>e, <2>0, <2>1 DEF Walking
  <2>2. \/ \E label \in {"finishStage", "finishNext"} : Goto(h, label)
        \/ \E ok : Respond(h, ok)
    BY Zenon, <1>9 DEF TestComplete
  <2> QED
    BY <1>b, <2>0, <2>1, <2>2
<1>10. CASE FinishStage(h)
  <2> DEFINE s == r0.stage
             q == [r0 EXCEPT !.pc = "dependents", !.stage = s + 1, !.todo = StageJobs(s + 1) \X {0}]
  <2>0. r0.pc = "finishStage" /\ r0.ready = {} /\ UNCHANGED <<completed, remainingNeeds>>
    BY <1>0, <1>10 DEF FinishStage, FinishStageAs, maps, Knows
  <2>1. CASE Goto(h, "finishRun")
    BY <1>e, <2>0, <2>1 DEF Walking
  <2>2. CASE Become(h, q)
    <3>1. q.pc = "dependents" /\ q.todo = StageJobs(s + 1) \X {0} /\ q.ready = {} /\ q.job = r0.job
      BY <1>0, <2>0 DEF HandlerStates
    <3> HIDE DEF q
    <3>2. ASSUME NEW d \in Jobs
          PROVE  Covers(Owed(AllPassed' \cap completed, d, q.todo), remainingNeeds[d])
      <4>1. DOMAIN Needs[d] = 1 .. Len(Needs[d])
        BY PipelineAssumption
      <4>2. \A i \in DOMAIN Needs[d] : <<d, i>> \notin q.todo
        BY <3>1, <4>1
      <4>3. Owed(AllPassed' \cap completed, d, q.todo) \subseteq Owed(AllPassed' \cap completed, d, r0.todo)
        BY <4>2 DEF Owed
      <4>4. Covers(Owed(AllPassed' \cap completed, d, r0.todo), remainingNeeds[d])
        BY Zenon, <1>0 DEF Walks
      <4> QED
        BY Zenon, <4>3, <4>4, CoversSubset
    <3>3. Walks(AllPassed', completed, remainingNeeds, q)
      BY Zenon, <3>1, <3>2 DEF Walks, Walking
    <3> QED
      BY <1>d, <2>0, <2>2, <3>3
  <2> QED
    BY Zenon, <1>10, <1>c, <2>0, <2>1, <2>2 DEF FinishStage, FinishStageAs, Goto
<1>11. CASE FinishNextStage(h)
  BY Zenon, <1>11, <1>b, <1>c DEF FinishNextStage, maps
<1> QED
  BY Zenon, <1>1, <1>2, <1>3, <1>4, <1>5, <1>6, <1>7, <1>8, <1>9, <1>10, <1>11
     DEF HandleJobFinished

\* When there is one handler at a time, no other one changes the maps meanwhile.
LEMMA NextHandlersWalk ==
  Serial /\ TypeOK /\ HandlersKnow /\ HandlersWalk /\ [Next]_vars => HandlersWalk'
<1> SUFFICES ASSUME Serial, TypeOK, HandlersKnow, HandlersWalk, [Next]_vars, NEW h \in Handlers
             PROVE  Walks(AllPassed', completed', remainingNeeds', handler'[h])
  BY DEF HandlersWalk
<1>0. AllPassed \subseteq AllPassed'
  BY PassedStays
<1>a. Walks(AllPassed', completed, remainingNeeds, handler[h])
  BY <1>0, WalksGrows DEF HandlersWalk
<1> DEFINE Kept == Walks(AllPassed', completed', remainingNeeds', handler'[h])
<1>1. ASSUME UNCHANGED <<completed, remainingNeeds, handler>> PROVE Kept
  BY <1>1, <1>a
<1>2. CASE RequestStep \/ LateJobStarted \/ Quiescent \/ UNCHANGED vars
  BY <1>1, <1>2, RequestFrame, IdleFrame DEF maps
<1>3. ASSUME NEW g \in Handlers, HandleJobFinished(g) PROVE Kept
  <2>1. g = h
    BY DEF Serial
  <2> QED
    BY <1>0, <1>3, <2>1, HandlerStepWalks
<1>4. ASSUME NEW w \in Workers, Deliver(w) \/ CallbackJobStarted(w) \/ ExecuteJob(w) \/ ChannelLost(w)
      PROVE  Kept
  BY Zenon, <1>1, <1>4 DEF Deliver, CallbackJobStarted, ExecuteJob, ChannelLost, WorkerOnly, maps
<1>5. ASSUME NEW w \in Workers, CallbackJobFinished(w) PROVE Kept
  <2>1. UNCHANGED <<completed, remainingNeeds>>
    BY <1>5 DEF CallbackJobFinished, WorkerOnly, maps
  <2>a. PICK g \in Handlers :
          handler'[g].pc = "finishJob" /\ handler'[g].ready = {} /\ handler'[g].todo = {}
    BY <1>5, RequestEffect
  <2>2. handler'[h].pc = "finishJob" /\ handler'[h].ready = {} /\ handler'[h].todo = {}
    BY <2>a DEF Serial
  <2>3. Rests(handler'[h])
    BY <2>2 DEF Rests
  <2> QED
    BY <1>a, <2>1, <2>3, WalksAtRest
<1>6. ASSUME NEW w \in Workers, CallbackTimeout(w) \/ WorkerStops(w) PROVE Kept
  <2>1. Abandon(w) /\ UNCHANGED <<completed, remainingNeeds>>
    BY <1>6 DEF CallbackTimeout, WorkerStops, WorkerOnly, maps
  <2>2. /\ handler'[h].pc = handler[h].pc /\ handler'[h].job = handler[h].job
        /\ handler'[h].ready = handler[h].ready /\ handler'[h].value = handler[h].value
        /\ handler'[h].todo = handler[h].todo /\ handler'[h].at = handler[h].at
        /\ handler'[h].status = handler[h].status
    BY Zenon, <2>1, AbandonEffect
  <2> QED
    BY Zenon, <1>a, <2>1, <2>2 DEF Walks
<1>7. CASE Crash
  BY <1>7, WalksAnew DEF Crash
<1> QED
  BY <1>2, <1>3, <1>4, <1>5, <1>6, <1>7 DEF Next, Fault, WorkerStep

\* The dispatch goroutine starts with jobs that need nothing.
LEMMA NextRequestWalks ==
  TypeOK /\ RequestKnows /\ RequestWalks /\ [Next]_vars => RequestWalks'
<1> SUFFICES ASSUME TypeOK, RequestKnows, RequestWalks, [Next]_vars PROVE RequestWalks'
  OBVIOUS
<1>0. AllPassed \subseteq AllPassed' /\ request \in RequestStates
  BY PassedStays DEF TypeOK
<1>1. ASSUME request'.ready \subseteq request.ready PROVE RequestWalks'
  BY <1>0, <1>1 DEF RequestWalks, NeedsIn
<1>2. CASE EnqueueFirstReadyStageJobs
  <2> DEFINE ready == ReadyJobs(request.at)
  <2>1. request' = [request EXCEPT !.pc = "publish", !.ready = ready] => request'.ready = ready
    BY <1>0 DEF RequestStates
  <2>2. ASSUME NEW d \in ready PROVE NeedsIn(AllPassed', d)
    <3>1. d \in Jobs /\ InDegree[d] = 0
      BY <1>2 DEF EnqueueFirstReadyStageJobs, ReadyJobs, StageJobs, RequestKnows
    <3>2. DOMAIN Needs[d] = {}
      BY <3>1, PipelineAssumption DEF InDegree
    <3> QED
      BY <3>2 DEF NeedsIn
  <2>3. \/ request' = [request EXCEPT !.pc = "publish", !.ready = ready]
        \/ request' = [request EXCEPT !.at = @ + 1] \/ request' = [request EXCEPT !.pc = "abort"]
    BY <1>2 DEF EnqueueFirstReadyStageJobs
  <2>4. request'.ready = ready \/ request'.ready = request.ready
    BY <1>0, <2>1, <2>3 DEF RequestStates
  <2> QED
    BY <1>1, <2>2, <2>4 DEF RequestWalks
<1>3. CASE DispatchPublish
  BY Zenon, <1>0, <1>1, <1>3 DEF DispatchPublish, RequestStates
<1>4. CASE RequestStep /\ ~EnqueueFirstReadyStageJobs /\ ~DispatchPublish
  <2>1. request' = request \/ \E pc : request' = [request EXCEPT !.pc = pc]
    BY <1>4 DEF RequestStep, StartPipelineRun, PutRuntime, DispatchDone, DispatchAbort,
                DispatchDeleteRuntime, StartStage, StartJob
  <2> QED
    BY <1>0, <1>1, <2>1 DEF RequestStates
<1>5. CASE LateJobStarted \/ Quiescent \/ UNCHANGED vars \/ Crash
  BY <1>1, <1>5, IdleFrame DEF Crash
<1>6. ASSUME NEW w \in Workers,
             WorkerStep(w) \/ CallbackTimeout(w) \/ ChannelLost(w) \/ WorkerStops(w)
      PROVE  RequestWalks'
  <2>1. request' = request
    BY Zenon, <1>6, WorkerFrame
  <2> QED
    BY <1>1, <2>1
<1>7. ASSUME NEW h \in Handlers, HandleJobFinished(h) PROVE RequestWalks'
  <2>1. request' = request
    BY Zenon, <1>7, HandlerFrame
  <2> QED
    BY <1>1, <2>1
<1> QED
  BY <1>2, <1>3, <1>4, <1>5, <1>6, <1>7 DEF Next, Fault

\* Only jobs that the dispatch goroutine or a handler holds ready are published.
LEMMA PublishedWereReady ==
  ASSUME TypeOK, [Next]_vars, NEW j \in Jobs, published'[j] > 0
  PROVE  \/ published[j] > 0
         \/ DispatchPublish /\ j \in request.ready
         \/ \E h \in Handlers : HandleJobFinished(h) /\ j \in handler[h].ready
<1>1. CASE published' = published
  BY <1>1
<1>2. CASE DispatchPublish
  <2>1. PICK k \in request.ready : Route(k, 1) \/ Route(k, 2) \/ UNCHANGED <<broker, published>>
    BY <1>2 DEF DispatchPublish, RouteUnconfirmed
  <2>2. k \in Jobs
    BY DEF TypeOK, RequestStates
  <2> QED
    BY <1>1, <1>2, <2>1, <2>2, RouteGrows
<1>3. CASE /\ RequestStep \/ LateJobStarted \/ Quiescent \/ UNCHANGED vars \/ Crash
           /\ ~DispatchPublish
  BY <1>1, <1>3, RequestFrame, IdleFrame DEF Crash, history
<1>4. ASSUME NEW w \in Workers,
             WorkerStep(w) \/ CallbackTimeout(w) \/ ChannelLost(w) \/ WorkerStops(w)
      PROVE  published' = published
  BY Zenon, <1>4, WorkerFrame
<1>5. ASSUME NEW h \in Handlers, HandleJobFinished(h)
      PROVE  published' = published \/ j \in handler[h].ready \/ published[j] > 0
  <2>1. CASE EnqueueReadyJobs(h)
    <3>1. \/ UNCHANGED published
          \/ \E k \in handler[h].ready : Route(k, 1) \/ Route(k, 2)
      BY Zenon, <2>1 DEF EnqueueReadyJobs, RouteUnconfirmed
    <3>2. handler[h].ready \subseteq Jobs
      BY DEF TypeOK, HandlerStates
    <3> QED
      BY <3>1, <3>2, RouteGrows
  <2>2. CASE ~EnqueueReadyJobs(h)
    BY Zenon, <1>5, <2>2, HandlerFrame
  <2> QED
    BY <2>1, <2>2
<1> QED
  BY <1>1, <1>2, <1>3, <1>4, <1>5 DEF Next, Fault

\* A job that is published has its needs behind it.
LEMMA NextNeeds ==
  TypeOK /\ HandlersWalk /\ RequestWalks /\ NeedsBeforeRelease /\ [Next]_vars
    => NeedsBeforeRelease'
<1> SUFFICES ASSUME TypeOK, HandlersWalk, RequestWalks, NeedsBeforeRelease, [Next]_vars,
                    NEW j \in Jobs, published'[j] > 0, NEW i \in DOMAIN Needs[j]
             PROVE  Passed(Needs[j][i])'
  BY DEF NeedsBeforeRelease
<1>1. Needs[j][i] \in Jobs
  BY PipelineAssumption
<1>2. Needs[j][i] \in AllPassed
  <2>1. CASE published[j] > 0
    BY <1>1, <2>1 DEF NeedsBeforeRelease, AllPassed
  <2>2. CASE j \in request.ready
    BY <2>2 DEF RequestWalks, NeedsIn
  <2>3. ASSUME NEW h \in Handlers, j \in handler[h].ready PROVE Needs[j][i] \in AllPassed
    BY <2>3 DEF HandlersWalk, Walks, NeedsIn
  <2> QED
    BY <2>1, <2>2, <2>3, PublishedWereReady
<1>3. Needs[j][i] \in AllPassed'
  BY <1>2, PassedStays
<1> QED
  BY <1>3 DEF AllPassed

\* The inductive invariant when callbacks are handled one at a time.
SerialInv == IInv /\ HandlersWalk /\ RequestWalks /\ NeedsBeforeRelease

\* It holds at the start, and every step keeps it.
LEMMA InitSerialInv == Init => SerialInv
<1> SUFFICES ASSUME Init PROVE HandlersWalk /\ RequestWalks /\ NeedsBeforeRelease
  BY InitIInv DEF SerialInv
<1>1. HandlersWalk
  BY WalksAnew DEF Init, HandlersWalk
<1>2. RequestWalks
  BY DEF Init, RequestWalks
<1>3. NeedsBeforeRelease
  BY DEF Init, NeedsBeforeRelease
<1> QED
  BY <1>1, <1>2, <1>3

\* Every step keeps the invariant when there is one handler at a time.
LEMMA NextSerialInv == Serial /\ SerialInv /\ [Next]_vars => SerialInv'
BY Zenon, NextIInv, NextHandlersWalk, NextRequestWalks, NextNeeds DEF SerialInv, IInv

\* When the callbacks of a run are handled one at a time, markJobSucceeded and
\* getReadyJobs release a job only after all its needs have passed: for every
\* pipeline, any number of workers, and whatever fails, is delivered twice,
\* reported twice or lost in a restart.
THEOREM NeedsReleaseInOrder ==
  ASSUME Serial
  PROVE  Spec => []NeedsBeforeRelease
<1>1. Init => SerialInv
  BY InitSerialInv
<1>2. SerialInv /\ [Next]_vars => SerialInv'
  BY NextSerialInv
<1>3. SerialInv => NeedsBeforeRelease
  BY DEF SerialInv
<1> QED
  BY <1>1, <1>2, <1>3, PTL DEF Spec

-----------------------------------------------------------------------------
\* The promise of PipelineRun.

\* Nothing but the channel of a worker and the orchestrator process itself fails.
Reliable == FaultKinds \subseteq {"redeliver", "crash"}

AllFailed == {j \in Jobs : "failed" \in reported[j]}

\* The jobs of the stages before s are in P.
Before(P, s) == \A k \in Jobs : StageOf[k] < s => k \in P

\* What the request in slot r keeps of the promise, where rt says whether the
\* runtime is there, row is the status of the run, the jobs in C are completed,
\* those in F have failed and those in P have passed.
Keeps(rt, row, C, F, P, r) ==
  /\ rt /\ r.pc # "delete" => row = "queued"
  /\ rt /\ r.pc \notin {"failStage", "failRun", "delete"} => C \subseteq P
  /\ r.pc # "free" =>
       /\ r.client # NoWorker
       /\ r.pc \notin {"finishJob", "lookup"} => rt
       /\ r.pc = "lookup" /\ r.status = "failed" => r.job \in F
       /\ r.pc \in {"terminal", "failStage", "failRun"} => r.job \in F \ AllowFailures
       /\ Before(P, r.stage)
       /\ r.pc \in {"finishStage", "finishNext", "finishRun"} => Before(P, r.stage + 1)

HandlersKeep ==
  \A h \in Handlers : Keeps(runtime, runRow, completed, AllFailed, AllPassed, handler[h])

RequestKeeps ==
  /\ request.pc \notin {"abort", "delete"}
  /\ request.pc = "create" => runRow = "none" /\ ~runtime
  /\ request.pc = "rows" => runRow = "queued" /\ ~runtime
  /\ request.pc \in {"scan", "publish"} =>
       runRow # "none" /\ \A k \in Jobs : StageOf[k] >= request.at

ReleasedKeep ==
  \A j \in Jobs : published[j] > 0 => runRow # "none" /\ Before(AllPassed, StageOf[j])

PromiseInv == SerialInv /\ HandlersKeep /\ RequestKeeps /\ ReleasedKeep

\* A request goes on keeping the promise while outcomes are added.
LEMMA KeepsGrows ==
  ASSUME NEW P, NEW Q, P \subseteq Q, NEW F, NEW G, F \subseteq G,
         NEW rt, NEW row, NEW C, NEW r, Keeps(rt, row, C, F, P, r)
  PROVE  Keeps(rt, row, C, G, Q, r)
<1>1. \A s : Before(P, s) => Before(Q, s)
  BY DEF Before
<1> QED
  BY <1>1 DEF Keeps

\* So are failures.
LEMMA OutcomesAdd ==
  ASSUME TypeOK, [Next]_vars
  PROVE  AllPassed \subseteq AllPassed' /\ AllFailed \subseteq AllFailed'
<1>1. \A j \in Jobs : reported[j] \subseteq reported'[j]
  BY OutcomesStay
<1> QED
  BY <1>1, PassedStays DEF AllFailed

\* While its client waits, neither the store nor the broker lets a handler down.
LEMMA NothingFails ==
  ASSUME Reliable, NEW h \in Handlers, handler[h].client # NoWorker
  PROVE  ~StoreError(h) /\ ~FailsFor(h, "publish") /\ ~Spend("publish")
BY Zenon DEF Reliable, StoreError, FailsFor, Spend

\* A step of a handler keeps the promise.
LEMMA HandlerStepKeeps ==
  ASSUME Reliable, TypeOK, [Next]_vars, HandlersWalk, HandlersKeep,
         NEW h \in Handlers, HandleJobFinished(h)
  PROVE  Keeps(runtime', runRow', completed', AllFailed', AllPassed', handler'[h])
<1> DEFINE r0 == handler[h]
           K(r) == Keeps(runtime, runRow, completed, AllFailed', AllPassed', r)
           Kept == Keeps(runtime', runRow', completed', AllFailed', AllPassed', handler'[h])
<1>0. /\ r0 \in HandlerStates /\ K(r0) /\ r0.pc # "free" /\ r0.client # NoWorker
      /\ Walks(AllPassed', completed, remainingNeeds, r0)
  <2>1. Keeps(runtime, runRow, completed, AllFailed, AllPassed, r0)
    BY DEF HandlersKeep
  <2>2. AllPassed \subseteq AllPassed' /\ AllFailed \subseteq AllFailed'
    BY OutcomesAdd
  <2>3. K(r0)
    BY Zenon, <2>1, <2>2, KeepsGrows
  <2>4. r0 \in HandlerStates /\ r0.pc # "free"
    BY HandlerEffect DEF TypeOK
  <2>5. Walks(AllPassed', completed, remainingNeeds, r0)
    BY <2>2, WalksGrows DEF HandlersWalk
  <2> QED
    BY <2>3, <2>4, <2>5 DEF Keeps
<1>1. ~StoreError(h) /\ ~FailsFor(h, "publish")
  BY <1>0, NothingFails
<1>a. ASSUME NEW r, Become(h, r), UNCHANGED <<runtime, runRow, completed>>, K(r) PROVE Kept
  BY <1>a, BecomeEffect
<1>b. ASSUME NEW ok, Respond(h, ok), UNCHANGED <<runRow, completed>>,
             ~runtime' \/ (UNCHANGED runtime /\ r0.pc \notin {"failStage", "failRun", "delete"})
      PROVE  Kept
  <2>1. handler'[h].pc = "free"
    BY <1>b, BecomeEffect DEF Respond, FreeHandler
  <2> QED
    BY <1>0, <1>b, <2>1 DEF Keeps
<1>c. ASSUME NEW label, Goto(h, label), UNCHANGED <<runtime, runRow, completed>>,
             K([r0 EXCEPT !.pc = label])
      PROVE  Kept
  BY <1>a, <1>c DEF Goto
<1>2. CASE FinishJob(h)
  <2>1. /\ r0.pc = "finishJob" /\ Goto(h, "lookup") /\ UNCHANGED <<runtime, runRow, completed>>
        /\ reported' = [reported EXCEPT ![r0.job] = @ \cup {r0.status}]
    BY <1>1, <1>2 DEF FinishJob, maps
  <2>2. r0.status = "failed" => r0.job \in AllFailed'
    BY <1>0, <2>1 DEF AllFailed, HandlerStates, TypeOK
  <2>3. K([r0 EXCEPT !.pc = "lookup"])
    BY <1>0, <2>1, <2>2 DEF Keeps, HandlerStates
  <2> QED
    BY <1>c, <2>1, <2>3
<1>3. CASE LookupRuntime(h)
  <2>0. r0.pc = "lookup" /\ UNCHANGED <<runtime, runRow, completed>>
    BY Zenon, <1>3 DEF LookupRuntime, rows, maps
  <2>1. ASSUME runtime, r0.status = "failed", r0.job \notin AllowFailures
        PROVE  K([r0 EXCEPT !.pc = "terminal"])
    BY <1>0, <2>0, <2>1 DEF Keeps, HandlerStates
  <2>2. ASSUME runtime PROVE K([r0 EXCEPT !.pc = "check"])
    BY <1>0, <2>0, <2>2 DEF Keeps, HandlerStates
  <2> QED
    BY Zenon, <1>3, <1>b, <1>c, <2>0, <2>1, <2>2 DEF LookupRuntime
<1>4. CASE MarkJobTerminal(h)
  <2>1. handler'[h] = [r0 EXCEPT !.pc = "failStage"] /\ r0.pc = "terminal"
        /\ UNCHANGED <<runtime, runRow>>
    BY <1>4, BecomeEffect DEF MarkJobTerminal, Goto, rows
  <2> QED
    BY <1>0, <2>1 DEF Keeps, HandlerStates
<1>5. CASE FailStage(h)
  <2>1. /\ r0.pc = "failStage" /\ Become(h, [r0 EXCEPT !.pc = "failRun"])
        /\ UNCHANGED <<runtime, runRow, completed>>
    BY <1>1, <1>5 DEF FailStage, FinishStageAs, maps
  <2>2. K([r0 EXCEPT !.pc = "failRun"])
    BY <1>0, <2>1 DEF Keeps, HandlerStates
  <2> QED
    BY <1>a, <2>1, <2>2
<1>6. CASE FailRun(h) \/ FinishRun(h)
  <2>1. handler'[h] = [r0 EXCEPT !.pc = "delete"] /\ r0.pc \in {"failRun", "finishRun"}
        /\ UNCHANGED <<runtime, completed>>
    BY <1>1, <1>6, BecomeEffect DEF FailRun, FinishRun, FinishRunAs, Goto, maps
  <2> QED
    BY <1>0, <2>1 DEF Keeps, HandlerStates
<1>7. CASE DeleteRuntime(h)
  <2>1. Respond(h, TRUE) /\ runtime' = FALSE /\ UNCHANGED <<runRow, completed>>
    BY Zenon, <1>7 DEF DeleteRuntime, rows, maps
  <2> QED
    BY Zenon, <1>b, <2>1
<1>8. CASE StageStateStep(h)
  <2>0. UNCHANGED <<runtime, runRow>>
    BY <1>8 DEF StageStateStep, rows
  <2>1. CASE MarkJobSucceeded(h)
    <3>1. CASE /\ r0.pc = "check" /\ UNCHANGED completed
               /\ Goto(h, IF r0.job \in completed THEN "complete" ELSE "mark")
      <4>1. K([r0 EXCEPT !.pc = IF r0.job \in completed THEN "complete" ELSE "mark"])
        BY <1>0, <3>1 DEF Keeps, HandlerStates
      <4> QED
        BY <1>c, <2>0, <3>1, <4>1
    <3>2. CASE /\ r0.pc = "mark" /\ completed' = completed \cup {r0.job}
               /\ Become(h, [r0 EXCEPT !.pc = "dependents", !.todo = Dependents(r0.job)])
      <4>1. r0.job \in AllPassed'
        BY <1>0, <3>2 DEF Walks
      <4> DEFINE q == [r0 EXCEPT !.pc = "dependents", !.todo = Dependents(r0.job)]
      <4>a. q.pc = "dependents" /\ q.client = r0.client /\ q.stage = r0.stage
        BY <1>0 DEF HandlerStates
      <4>b. handler'[h] = q
        BY <3>2, BecomeEffect
      <4> HIDE DEF q
      <4>2. /\ handler'[h].pc = "dependents" /\ handler'[h].client = r0.client
            /\ handler'[h].stage = r0.stage
        BY <4>a, <4>b
      <4>3. /\ runtime /\ runRow = "queued" /\ completed \subseteq AllPassed'
            /\ Before(AllPassed', r0.stage)
        BY <1>0, <3>2 DEF Keeps
      <4>4. completed' \subseteq AllPassed'
        BY <3>2, <4>1, <4>3
      <4> QED
        BY <1>0, <2>0, <4>2, <4>3, <4>4 DEF Keeps
    <3> QED
      BY <2>1, <3>1, <3>2 DEF MarkJobSucceeded
  <2>2. CASE ~MarkJobSucceeded(h)
    <3>1. /\ UNCHANGED completed
          /\ r0.pc \in Walking
          /\ handler'[h].pc \in Walking \cup {"publish"}
          /\ handler'[h].client = r0.client /\ handler'[h].stage = r0.stage
      <4>1. CASE NextDependent(h) /\ UNCHANGED maps
        <5> DEFINE q(p) == [r0 EXCEPT
                     !.todo = @ \ {p}, !.at = p[1],
                     !.pc = IF p[2] # 0 /\ remainingNeeds[p[1]] > 0 THEN "load" ELSE "release"]
                   q0 == [r0 EXCEPT !.pc = "publish"]
        <5>1. /\ q0.pc = "publish" /\ q0.client = r0.client /\ q0.stage = r0.stage
              /\ \A p : /\ q(p).pc \in {"load", "release"}
                        /\ q(p).client = r0.client /\ q(p).stage = r0.stage
          BY <1>0 DEF HandlerStates
        <5>2. r0.pc = "dependents" /\ (Become(h, q0) \/ \E p : Become(h, q(p)))
          BY Zenon, <4>1 DEF NextDependent, Goto
        <5> HIDE DEF q, q0
        <5>3. handler'[h] = q0 \/ \E p : handler'[h] = q(p)
          BY <5>2, BecomeEffect
        <5> QED
          BY <4>1, <5>1, <5>2, <5>3 DEF Walking, maps
      <4>2. CASE LoadRemaining(h) /\ UNCHANGED maps
        <5> DEFINE q == [r0 EXCEPT !.pc = "store", !.value = remainingNeeds[r0.at]]
        <5>1. q.pc = "store" /\ q.client = r0.client /\ q.stage = r0.stage
          BY <1>0 DEF HandlerStates
        <5>2. r0.pc = "load" /\ handler'[h] = q
          BY <4>2, BecomeEffect DEF LoadRemaining
        <5> HIDE DEF q
        <5> QED
          BY <4>2, <5>1, <5>2 DEF Walking, maps
      <4>3. CASE StoreRemaining(h) /\ UNCHANGED completed
        BY <1>0, <4>3, BecomeEffect DEF StoreRemaining, Goto, HandlerStates, Walking
      <4>4. CASE TestReady(h) /\ UNCHANGED maps
        BY <1>0, <4>4, BecomeEffect DEF TestReady, Goto, HandlerStates, Walking, maps
      <4>5. CASE MarkQueued(h) /\ UNCHANGED completed
        <5> DEFINE q == [r0 EXCEPT !.pc = "dependents", !.ready = @ \cup {r0.at}]
        <5>1. q.pc = "dependents" /\ q.client = r0.client /\ q.stage = r0.stage
          BY <1>0 DEF HandlerStates
        <5>2. r0.pc = "queue" /\ handler'[h] = q
          BY <4>5, BecomeEffect DEF MarkQueued
        <5> HIDE DEF q
        <5> QED
          BY <4>5, <5>1, <5>2 DEF Walking
      <4> QED
        BY Zenon, <1>8, <2>2, <4>1, <4>2, <4>3, <4>4, <4>5 DEF StageStateStep
    <3> QED
      BY <1>0, <2>0, <3>1 DEF Keeps, Walking
  <2> QED
    BY <2>1, <2>2
<1>9. CASE EnqueueReadyJobs(h)
  <2>0. r0.pc = "publish" /\ UNCHANGED <<runtime, runRow, completed>>
    BY Zenon, <1>9 DEF EnqueueReadyJobs, rows, maps
  <2>1. Goto(h, "complete") \/ \E j : Become(h, [r0 EXCEPT !.ready = @ \ {j}])
    BY Zenon, <1>1, <1>9 DEF EnqueueReadyJobs
  <2>2. K([r0 EXCEPT !.pc = "complete"]) /\ \A j : K([r0 EXCEPT !.ready = @ \ {j}])
    BY <1>0, <2>0 DEF Keeps, HandlerStates
  <2> QED
    BY Zenon, <1>a, <1>c, <2>0, <2>1, <2>2
<1>10. CASE TestComplete(h)
  <2>0. r0.pc = "complete" /\ UNCHANGED <<runtime, runRow, completed>>
    BY Zenon, <1>10 DEF TestComplete, rows, maps
  <2>1. ASSUME StageJobs(r0.stage) \subseteq completed, NEW label \in {"finishStage", "finishNext"}
        PROVE  K([r0 EXCEPT !.pc = label])
    <3>1. completed \subseteq AllPassed' /\ Before(AllPassed', r0.stage)
      BY <1>0, <2>0 DEF Keeps
    <3>2. Before(AllPassed', r0.stage + 1)
      BY <1>0, <2>1, <3>1, PipelineAssumption DEF Before, StageJobs, HandlerStates, Stages
    <3> QED
      BY <1>0, <2>0, <2>1, <3>2 DEF Keeps, HandlerStates
  <2>2. \/ \E ok : Respond(h, ok)
        \/ /\ StageJobs(r0.stage) \subseteq completed
           /\ \E label \in {"finishStage", "finishNext"} : Goto(h, label)
    BY Zenon, <1>10 DEF TestComplete
  <2> QED
    BY <1>b, <1>c, <2>0, <2>1, <2>2
<1>11. CASE FinishStage(h)
  <2> DEFINE s == r0.stage
             q1 == [r0 EXCEPT !.pc = "finishRun"]
             q2 == [r0 EXCEPT !.pc = "dependents", !.stage = s + 1, !.todo = StageJobs(s + 1) \X {0}]
  <2>0. r0.pc = "finishStage" /\ UNCHANGED <<runtime, runRow, completed>>
    BY Zenon, <1>11 DEF FinishStage, FinishStageAs, maps
  <2>1. Become(h, q1) \/ Become(h, q2)
    BY Zenon, <1>1, <1>11 DEF FinishStage, FinishStageAs
  <2>2. K(q1) /\ K(q2)
    BY <1>0, <2>0 DEF Keeps, HandlerStates
  <2> HIDE DEF q1, q2
  <2> QED
    BY <1>a, <2>0, <2>1, <2>2
<1>12. CASE FinishNextStage(h)
  <2>0. r0.pc = "finishNext" /\ UNCHANGED <<runtime, runRow, completed>>
    BY Zenon, <1>12 DEF FinishNextStage, maps
  <2>1. \E ok : Respond(h, ok)
    BY Zenon, <1>1, <1>12 DEF FinishNextStage
  <2> QED
    BY <1>b, <2>0, <2>1
<1> QED
  BY Zenon, <1>2, <1>3, <1>4, <1>5, <1>6, <1>7, <1>8, <1>9, <1>10, <1>11, <1>12
     DEF HandleJobFinished

\* What the request goroutine does to the row of the run and to the runtime.
LEMMA RequestStepKeeps ==
  ASSUME Reliable, RequestKeeps, RequestStep
  PROVE  /\ UNCHANGED <<completed, handler, reported>>
         /\ \/ UNCHANGED <<runRow, runtime>>
            \/ /\ request.pc = "create" /\ runRow = "none" /\ ~runtime
               /\ runRow' = "queued" /\ UNCHANGED runtime
            \/ PutRuntime /\ request.pc = "rows" /\ runRow = "queued" /\ UNCHANGED runRow
<1>0. ~Spend("db") /\ request.pc \notin {"abort", "delete"}
  BY DEF Reliable, Spend, RequestKeeps
<1>1. CASE StartPipelineRun
  BY <1>0, <1>1 DEF StartPipelineRun, RequestKeeps, maps, history
<1>2. CASE PutRuntime
  BY Zenon, <1>2 DEF PutRuntime, RequestKeeps, rows, maps, history
<1>3. CASE EnqueueFirstReadyStageJobs \/ DispatchPublish \/ DispatchDone
  BY <1>3 DEF EnqueueFirstReadyStageJobs, DispatchPublish, DispatchDone, rows, maps, history
<1>4. CASE DispatchAbort \/ DispatchDeleteRuntime
  BY <1>0, <1>4 DEF DispatchAbort, DispatchDeleteRuntime
<1>5. CASE (\E s \in Stages : StartStage(s)) \/ \E j \in Jobs : StartJob(j)
  BY <1>0, <1>5 DEF StartStage, StartJob, maps, history
<1> QED
  BY <1>1, <1>2, <1>3, <1>4, <1>5 DEF RequestStep

\* A worker leaves the run alone, and does not hang up.
LEMMA WorkerStepKeeps ==
  ASSUME Reliable, NEW w \in Workers,
         WorkerStep(w) \/ CallbackTimeout(w) \/ ChannelLost(w) \/ WorkerStops(w)
  PROVE  /\ UNCHANGED <<runRow, runtime, completed, request, published, reported>>
         /\ UNCHANGED handler \/ CallbackJobFinished(w)
<1>1. ~CallbackTimeout(w) /\ ~WorkerStops(w)
  BY DEF Reliable, Spend, CallbackTimeout, WorkerStops
<1>2. CASE CallbackJobStarted(w)
  BY Zenon, <1>2 DEF CallbackJobStarted, maps, history
<1>3. CASE Deliver(w) \/ ExecuteJob(w) \/ CallbackJobFinished(w) \/ ChannelLost(w)
  BY Zenon, <1>3 DEF Deliver, ExecuteJob, CallbackJobFinished, ChannelLost, WorkerOnly, rows, maps,
                history
<1> QED
  BY <1>1, <1>2, <1>3 DEF WorkerStep

\* Every request keeps the promise, whoever takes the step.
LEMMA NextHandlersKeep ==
  ASSUME Serial, Reliable, PromiseInv, [Next]_vars
  PROVE  HandlersKeep'
<1> SUFFICES ASSUME NEW h \in Handlers
             PROVE  Keeps(runtime', runRow', completed', AllFailed', AllPassed', handler'[h])
  BY DEF HandlersKeep
<1> DEFINE r0 == handler[h]
           Kept == Keeps(runtime', runRow', completed', AllFailed', AllPassed', handler'[h])
<1>0. TypeOK /\ MessagesArePublished /\ RequestKnows /\ HandlersWalk
  BY DEF PromiseInv, SerialInv, IInv
<1>a. Keeps(runtime, runRow, completed, AllFailed', AllPassed', r0)
  <2>1. Keeps(runtime, runRow, completed, AllFailed, AllPassed, r0)
    BY DEF PromiseInv, HandlersKeep
  <2> QED
    BY Zenon, <1>0, <2>1, OutcomesAdd, KeepsGrows
<1>1. ASSUME UNCHANGED <<runtime, runRow, completed, handler>> PROVE Kept
  BY <1>1, <1>a
<1>2. CASE RequestStep
  <2>1. UNCHANGED <<completed, handler>>
    BY <1>2, RequestStepKeeps DEF PromiseInv
  <2>2. CASE UNCHANGED <<runRow, runtime>>
    BY <1>1, <2>1, <2>2
  <2>3. CASE request.pc \in {"create", "rows"} /\ runRow' = "queued"
    <3>1. r0.pc = "free" /\ completed = {}
      BY <1>0, <2>3 DEF RequestKnows, MessagesArePublished, TypeOK, HandlerStates
    <3> QED
      BY <2>1, <2>3, <3>1 DEF Keeps
  <2> QED
    BY <1>2, <2>1, <2>2, <2>3, RequestStepKeeps DEF PromiseInv
<1>3. CASE LateJobStarted \/ Quiescent \/ UNCHANGED vars
  BY <1>1, <1>3, IdleFrame DEF rows, maps
<1>4. CASE Crash
  <2>1. handler'[h].pc = "free" /\ ~runtime'
    BY <1>4 DEF Crash, FreeHandler
  <2> QED
    BY <2>1 DEF Keeps
<1>5. ASSUME NEW g \in Handlers, HandleJobFinished(g) PROVE Kept
  <2>1. g = h
    BY DEF Serial
  <2> QED
    BY <1>0, <1>5, <2>1, HandlerStepKeeps DEF PromiseInv
<1>6. ASSUME NEW w \in Workers,
             WorkerStep(w) \/ CallbackTimeout(w) \/ ChannelLost(w) \/ WorkerStops(w)
      PROVE  Kept
  <2>1. UNCHANGED <<runRow, runtime, completed>>
    BY <1>6, WorkerStepKeeps
  <2>2. CASE UNCHANGED handler
    BY <1>1, <2>1, <2>2
  <2>3. CASE CallbackJobFinished(w)
    <3>1. PICK g \in Handlers :
            /\ handler[g].pc = "free"
            /\ handler'[g].pc = "finishJob" /\ handler'[g].client = w
            /\ handler'[g].stage = StageOf[worker[w].job]
      BY <1>0, <2>3, RequestEffect
    <3>2. g = h
      BY DEF Serial
    <3>3. published[worker[w].job] > 0 /\ worker[w].job \in Jobs
      BY <1>0, <2>3 DEF CallbackJobFinished, MessagesArePublished, TypeOK, WorkerStates
    <3>4. Before(AllPassed', StageOf[worker[w].job])
      <4>1. Before(AllPassed, StageOf[worker[w].job])
        BY <3>3 DEF PromiseInv, ReleasedKeep
      <4> QED
        BY <1>0, <4>1, PassedStays DEF Before
    <3>5. w # NoWorker
      BY PipelineAssumption
    <3> QED
      BY Zenon, <1>a, <2>1, <3>1, <3>2, <3>4, <3>5 DEF Keeps
  <2> QED
    BY <1>6, <2>2, <2>3, WorkerStepKeeps
<1> QED
  BY <1>2, <1>3, <1>4, <1>5, <1>6 DEF Next, Fault

\* What a handler does to the row of the run: a verdict is written over "queued".
LEMMA HandlerRow ==
  ASSUME Reliable, PromiseInv, NEW h \in Handlers, HandleJobFinished(h)
  PROVE  \/ UNCHANGED runRow
         \/ /\ runRow = "queued" /\ UNCHANGED history
            /\ \/ FailRun(h) /\ runRow' = "failed" /\ handler[h].job \in AllFailed \ AllowFailures
               \/ FinishRun(h) /\ runRow' = "success" /\ AllPassed = Jobs
<1> DEFINE r0 == handler[h]
<1>0. /\ r0 \in HandlerStates /\ r0.pc # "free" /\ Knows(reported, r0)
      /\ Keeps(runtime, runRow, completed, AllFailed, AllPassed, r0)
  BY Zenon, HandlerEffect DEF PromiseInv, SerialInv, IInv, TypeOK, HandlersKeep, HandlersKnow
<1>1. ~StoreError(h)
  BY Zenon, <1>0, NothingFails DEF Keeps
<1>2. CASE FailRun(h)
  BY <1>0, <1>1, <1>2 DEF FailRun, FinishRunAs, Keeps
<1>3. CASE FinishRun(h)
  <2>1. /\ r0.pc = "finishRun" /\ runRow = "queued" /\ runRow' = "success" /\ UNCHANGED history
        /\ r0.stage = NumStages /\ Before(AllPassed, r0.stage + 1)
    BY <1>0, <1>1, <1>3 DEF FinishRun, FinishRunAs, Keeps, Knows
  <2>2. AllPassed = Jobs
    BY <2>1, PipelineAssumption DEF Before, AllPassed, Stages
  <2> QED
    BY Zenon, <1>3, <2>1, <2>2
<1>4. CASE ~FailRun(h) /\ ~FinishRun(h)
  BY Zenon, <1>4, HandlerFrame
<1> QED
  BY <1>2, <1>3, <1>4

\* The request goroutine does its part: nothing makes it give up the run.
LEMMA NextRequestKeeps ==
  ASSUME Reliable, PromiseInv, [Next]_vars
  PROVE  RequestKeeps'
<1>0. /\ TypeOK /\ MessagesArePublished /\ RequestKnows /\ RequestKeeps
      /\ request \in RequestStates /\ request.at \in Nat /\ \A j \in Jobs : StageOf[j] \in Stages
  BY Zenon, PipelineAssumption DEF PromiseInv, SerialInv, IInv, TypeOK, RequestStates
<1>a. ASSUME request' = request, UNCHANGED <<runRow, runtime>> PROVE RequestKeeps'
  BY <1>0, <1>a DEF RequestKeeps
<1>b. ASSUME request' = request, request.pc \notin {"create", "rows"},
             runRow # "none" => runRow' # "none"
      PROVE  RequestKeeps'
  BY <1>0, <1>b DEF RequestKeeps
<1>1. CASE RequestStep
  <2>0. ~Spend("db") /\ ~Spend("publish") /\ request.pc \notin {"abort", "delete"}
    BY <1>0 DEF Reliable, Spend, RequestKeeps
  <2>1. CASE StartPipelineRun
    <3>1. request' = [request EXCEPT !.pc = "rows"] /\ runRow' = "queued" /\ ~runtime'
      BY <1>0, <2>0, <2>1 DEF StartPipelineRun, RequestKeeps
    <3> QED
      BY <1>0, <3>1 DEF RequestKeeps, RequestStates
  <2>2. CASE PutRuntime
    <3>1. request'.pc = "scan" /\ request'.at = 1 /\ runRow' = "queued"
      BY <1>0, <2>2 DEF PutRuntime, RequestStates, RequestKnows, RequestKeeps, rows
    <3> QED
      BY <1>0, <3>1 DEF RequestKeeps, Stages
  <2>3. CASE EnqueueFirstReadyStageJobs
    <3>1. \/ request'.pc = "publish" /\ request'.at = request.at
          \/ /\ request'.pc = "scan" /\ request'.at = request.at + 1
             /\ ReadyJobs(request.at) = {}
      BY Zenon, <1>0, <2>0, <2>3 DEF EnqueueFirstReadyStageJobs, RequestStates
    <3>2. request.pc = "scan" /\ UNCHANGED runRow
      BY <2>3 DEF EnqueueFirstReadyStageJobs
    <3>3. ReadyJobs(request.at) = {} => \A k \in Jobs : StageOf[k] # request.at
      BY <1>0, <3>2, NothingReady DEF StageJobs
    <3> QED
      BY <1>0, <3>1, <3>2, <3>3 DEF RequestKeeps, Stages
  <2>4. CASE DispatchPublish
    <3>1. /\ request'.pc = "publish" /\ request'.at = request.at /\ request.pc = "publish"
          /\ UNCHANGED runRow
      BY <1>0, <2>0, <2>4 DEF DispatchPublish, RequestStates, rows
    <3> QED
      BY <1>0, <3>1 DEF RequestKeeps
  <2>5. CASE DispatchDone
    <3>1. request'.pc = "done"
      BY <1>0, <2>5 DEF DispatchDone, RequestStates
    <3> QED
      BY <3>1 DEF RequestKeeps
  <2>6. CASE DispatchAbort \/ DispatchDeleteRuntime
    BY <2>0, <2>6 DEF DispatchAbort, DispatchDeleteRuntime
  <2>7. CASE (\E s \in Stages : StartStage(s)) \/ \E j \in Jobs : StartJob(j)
    BY <1>a, <2>0, <2>7 DEF StartStage, StartJob
  <2> QED
    BY <1>1, <2>1, <2>2, <2>3, <2>4, <2>5, <2>6, <2>7 DEF RequestStep
<1>2. CASE LateJobStarted \/ Quiescent \/ UNCHANGED vars
  BY <1>a, <1>2, IdleFrame DEF rows
<1>3. CASE Crash
  BY <1>3 DEF Crash, RequestKeeps
<1>4. ASSUME NEW h \in Handlers, HandleJobFinished(h) PROVE RequestKeeps'
  <2>1. request' = request
    BY Zenon, <1>4, HandlerFrame
  <2>2. published[handler[h].job] > 0 /\ handler[h].job \in Jobs
    BY <1>0, <1>4, HandlerEffect DEF MessagesArePublished, TypeOK, HandlerStates
  <2>3. runRow # "none" => runRow' # "none"
    BY <1>4, HandlerRow
  <2> QED
    BY <1>0, <1>b, <2>1, <2>2, <2>3 DEF RequestKnows
<1>5. ASSUME NEW w \in Workers,
             WorkerStep(w) \/ CallbackTimeout(w) \/ ChannelLost(w) \/ WorkerStops(w)
      PROVE  RequestKeeps'
  BY <1>a, <1>5, WorkerStepKeeps
<1> QED
  BY <1>1, <1>2, <1>3, <1>4, <1>5 DEF Next, Fault

\* Every job is published when its turn has come, in a run that has a row.
LEMMA NextReleasedKeep ==
  ASSUME Reliable, PromiseInv, [Next]_vars
  PROVE  ReleasedKeep'
<1> SUFFICES ASSUME NEW j \in Jobs, published'[j] > 0
             PROVE  runRow' # "none" /\ Before(AllPassed', StageOf[j])
  BY DEF ReleasedKeep
<1>0. TypeOK /\ RequestKnows /\ HandlersKnow /\ \A k \in Jobs : StageOf[k] \in Int
  BY PipelineAssumption DEF PromiseInv, SerialInv, IInv, Stages
<1>1. runRow # "none" => runRow' # "none"
  <2>1. CASE RequestStep
    BY <2>1, RequestStepKeeps DEF PromiseInv
  <2>2. ASSUME NEW h \in Handlers, HandleJobFinished(h) PROVE runRow # "none" => runRow' # "none"
    BY <2>2, HandlerRow
  <2>3. ASSUME NEW w \in Workers,
               WorkerStep(w) \/ CallbackTimeout(w) \/ ChannelLost(w) \/ WorkerStops(w)
        PROVE  UNCHANGED runRow
    BY <2>3, WorkerStepKeeps
  <2>4. CASE LateJobStarted \/ Quiescent \/ UNCHANGED vars \/ Crash
    BY <2>4, IdleFrame DEF Crash, rows
  <2> QED
    BY <2>1, <2>2, <2>3, <2>4 DEF Next, Fault
<1>2. runRow # "none" /\ Before(AllPassed, StageOf[j])
  <2>1. CASE published[j] > 0
    BY <2>1 DEF PromiseInv, ReleasedKeep
  <2>2. CASE DispatchPublish /\ j \in request.ready
    <3>1. request.pc = "publish" /\ StageOf[j] = request.at
      BY <1>0, <2>2 DEF DispatchPublish, RequestKnows, StageJobs
    <3>2. \A k \in Jobs : ~(StageOf[k] < StageOf[j])
      BY <1>0, <3>1 DEF PromiseInv, RequestKeeps
    <3> QED
      BY <3>1, <3>2 DEF PromiseInv, RequestKeeps, Before
  <2>3. ASSUME NEW h \in Handlers, HandleJobFinished(h), j \in handler[h].ready
        PROVE  runRow # "none" /\ Before(AllPassed, StageOf[j])
    <3>1. handler[h].pc # "free" /\ Knows(reported, handler[h])
          /\ Keeps(runtime, runRow, completed, AllFailed, AllPassed, handler[h])
      BY Zenon, <1>0, <2>3, HandlerEffect DEF HandlersKnow, PromiseInv, HandlersKeep
    <3>2. StageOf[j] = handler[h].stage
      BY Zenon, <2>3, <3>1 DEF Knows, StageJobs
    <3>3. handler[h].pc \in Walking \cup {"publish"}
      BY <2>3, <3>1 DEF Knows, Walking
    <3> QED
      BY <3>1, <3>2, <3>3 DEF Keeps, Walking
  <2> QED
    BY <1>0, <2>1, <2>2, <2>3, PublishedWereReady
<1>3. Before(AllPassed', StageOf[j])
  BY <1>0, <1>2, PassedStays DEF Before
<1> QED
  BY <1>1, <1>2, <1>3

\* The invariant holds at the start, and every step keeps it.
LEMMA InitPromiseInv == Init => PromiseInv
<1> SUFFICES ASSUME Init PROVE HandlersKeep /\ RequestKeeps /\ ReleasedKeep
  BY InitSerialInv DEF PromiseInv
<1>1. HandlersKeep
  BY DEF Init, HandlersKeep, Keeps, FreeHandler
<1>2. RequestKeeps /\ ReleasedKeep
  BY DEF Init, RequestKeeps, ReleasedKeep
<1> QED
  BY <1>1, <1>2

\* Every step keeps the invariant in a reliable setting with one handler at a time.
LEMMA NextPromiseInv ==
  ASSUME Serial, Reliable, PromiseInv, [Next]_vars
  PROVE  PromiseInv'
<1>1. SerialInv'
  BY NextSerialInv DEF PromiseInv
<1> QED
  BY <1>1, NextHandlersKeep, NextRequestKeeps, NextReleasedKeep DEF PromiseInv

-----------------------------------------------------------------------------
\* The steps of the promise.

\* A job whose turn has come may start.
LEMMA TurnHasCome ==
  ASSUME NEW j \in Jobs, Before(AllPassed, StageOf[j]), NeedsIn(AllPassed, j)
  PROVE  Promise!MayStart(j)
BY DEF Before, NeedsIn, AllPassed, Passed, Promise!MayStart, Promise!Passed

\* Publishing a job releases it.
LEMMA RouteReleases ==
  ASSUME TypeOK, TypeOK', NEW j \in Jobs, published'[j] > 0, UNCHANGED <<runRow, reported>>,
         \A k \in Jobs : published[k] > 0 => published'[k] > 0,
         \A k \in Jobs : published'[k] > 0 => published[k] > 0 \/ k = j,
         runRow # "none", Promise!MayStart(j)
  PROVE  Promise!Release(j)
BY DEF Promise!Release

\* What is published by a step is released, or was before.
LEMMA PublishReleases ==
  ASSUME Reliable, PromiseInv, PromiseInv', [Next]_vars, NEW j \in Jobs, NEW n \in Nat \ {0},
         Route(j, n), UNCHANGED <<runRow, reported>>
  PROVE  Promise!Next
<1>0. TypeOK /\ TypeOK'
  BY DEF PromiseInv, SerialInv, IInv
<1>1. /\ published'[j] > 0
      /\ \A k \in Jobs : published[k] > 0 => published'[k] > 0
      /\ \A k \in Jobs : published'[k] > 0 => published[k] > 0 \/ k = j
  BY <1>0, RouteGrows
<1>2. runRow' # "none" /\ Before(AllPassed', StageOf[j]) /\ NeedsIn(AllPassed', j)
  <2>1. runRow' # "none" /\ Before(AllPassed', StageOf[j])
    BY <1>1 DEF PromiseInv, ReleasedKeep
  <2>2. \A i \in DOMAIN Needs[j] : Passed(Needs[j][i])'
    BY <1>1 DEF PromiseInv, SerialInv, NeedsBeforeRelease
  <2>3. \A i \in DOMAIN Needs[j] : Needs[j][i] \in Jobs
    BY PipelineAssumption
  <2> QED
    BY <2>1, <2>2, <2>3 DEF NeedsIn, AllPassed
<1>3. AllPassed' = AllPassed
  BY DEF AllPassed, Passed
<1>4. Promise!MayStart(j)
  BY <1>2, <1>3, TurnHasCome
<1>5. Promise!Release(j)
  BY <1>0, <1>1, <1>2, <1>4, RouteReleases
<1> QED
  BY <1>5 DEF Promise!Next

\* Every step of the system is a step of the promise, or changes nothing of it.
LEMMA PromiseStep ==
  ASSUME Serial, Reliable, PromiseInv, [Next]_vars
  PROVE  Promise!Next \/ UNCHANGED <<runRow, published, reported>>
<1>0. PromiseInv' /\ TypeOK /\ ~Spend("db") /\ ~Spend("publish")
  BY NextPromiseInv DEF PromiseInv, SerialInv, IInv, Reliable, Spend
<1> DEFINE Stutter == UNCHANGED <<runRow, published, reported>>
<1>1. CASE RequestStep
  <2>1. CASE DispatchPublish
    <3>1. PICK j \in request.ready : Route(j, 1) /\ UNCHANGED <<runRow, reported>>
      BY <1>0, <2>1 DEF DispatchPublish, rows
    <3>2. j \in Jobs /\ 1 \in Nat \ {0}
      BY <1>0 DEF TypeOK, RequestStates
    <3> QED
      BY <1>0, <3>1, <3>2, PublishReleases, Zenon
  <2>2. CASE StartPipelineRun
    <3>1. runRow = "none" /\ runRow' = "queued" /\ UNCHANGED <<published, reported>>
      BY <1>0, <2>2 DEF StartPipelineRun, PromiseInv, RequestKeeps, history
    <3>2. Promise!Create
      BY <3>1 DEF Promise!Create
    <3> QED
      BY <3>2 DEF Promise!Next
  <2>3. CASE ~DispatchPublish /\ ~StartPipelineRun
    <3>1. UNCHANGED <<published, reported>>
      BY <1>1, <2>3 DEF RequestStep, PutRuntime, EnqueueFirstReadyStageJobs, DispatchDone,
                    DispatchAbort, DispatchDeleteRuntime, StartStage, StartJob, history
    <3>2. UNCHANGED runRow
      <4>1. request.pc # "abort"
        BY DEF PromiseInv, RequestKeeps
      <4> QED
        BY <1>0, <1>1, <2>3, <4>1
           DEF RequestStep, PutRuntime, EnqueueFirstReadyStageJobs, DispatchDone, DispatchAbort,
               DispatchDeleteRuntime, StartStage, StartJob, rows
    <3> QED
      BY <3>1, <3>2
  <2> QED
    BY <2>1, <2>2, <2>3
<1>2. CASE LateJobStarted \/ Quiescent \/ UNCHANGED vars \/ Crash
  BY <1>2, IdleFrame DEF Crash, rows, history
<1>3. ASSUME NEW w \in Workers,
             WorkerStep(w) \/ CallbackTimeout(w) \/ ChannelLost(w) \/ WorkerStops(w)
      PROVE  Stutter
  BY <1>3, WorkerStepKeeps
<1>4. ASSUME NEW h \in Handlers, HandleJobFinished(h) PROVE Promise!Next \/ Stutter
  <2> DEFINE j == handler[h].job
  <2>0. /\ j \in Jobs /\ handler[h].status \in Terminal /\ handler[h].ready \subseteq Jobs
        /\ published[j] > 0 /\ handler[h].client # NoWorker
    BY Zenon, <1>0, <1>4, HandlerEffect
       DEF PromiseInv, SerialInv, IInv, MessagesArePublished, HandlersKeep, Keeps, TypeOK,
           HandlerStates
  <2>1. ~StoreError(h) /\ ~FailsFor(h, "publish")
    BY <2>0, NothingFails
  <2>2. CASE FinishJob(h)
    <3>1. /\ reported' = [reported EXCEPT ![j] = @ \cup {handler[h].status}]
          /\ UNCHANGED <<runRow, published>>
      BY Zenon, <2>1, <2>2 DEF FinishJob
    <3>2. Promise!Report(j, handler[h].status)
      BY <2>0, <3>1 DEF Promise!Report
    <3> QED
      BY Zenon, <2>0, <3>2 DEF Promise!Next, Promise!Outcomes, Terminal
  <2>3. CASE EnqueueReadyJobs(h)
    <3>1. /\ UNCHANGED <<runRow, reported>>
          /\ UNCHANGED published \/ \E k \in handler[h].ready : Route(k, 1)
      BY Zenon, <1>0, <2>1, <2>3 DEF EnqueueReadyJobs, rows
    <3>2. CASE UNCHANGED published
      BY <3>1, <3>2, Zenon
    <3>3. ASSUME NEW k \in handler[h].ready, Route(k, 1) PROVE Promise!Next
      <4>1. k \in Jobs /\ 1 \in Nat \ {0}
        BY <2>0
      <4> QED
        BY <1>0, <3>1, <3>3, <4>1, PublishReleases, Zenon
    <3> QED
      BY <3>1, <3>2, <3>3, Zenon
  <2>4. CASE FailRun(h) \/ FinishRun(h)
    <3>1. UNCHANGED <<published, reported>>
      BY <2>4 DEF FailRun, FinishRun, FinishRunAs, history
    <3>2. CASE UNCHANGED runRow
      BY <3>1, <3>2
    <3>3. CASE runRow = "queued" /\ runRow' = "failed" /\ j \in AllFailed \ AllowFailures
      <4>1. Promise!Fail
        BY <2>0, <3>1, <3>3 DEF Promise!Fail, AllFailed
      <4> QED
        BY <4>1 DEF Promise!Next
    <3>4. CASE runRow = "queued" /\ runRow' = "success" /\ AllPassed = Jobs
      <4>1. \A k \in Jobs : Promise!Passed(k)
        BY <3>4 DEF AllPassed, Passed, Promise!Passed
      <4>2. Promise!Succeed
        BY <3>1, <3>4, <4>1 DEF Promise!Succeed
      <4> QED
        BY <4>2 DEF Promise!Next
    <3> QED
      BY <1>4, <3>2, <3>3, <3>4, HandlerRow
  <2>5. CASE ~FinishJob(h) /\ ~EnqueueReadyJobs(h) /\ ~FailRun(h) /\ ~FinishRun(h)
    BY Zenon, <1>4, <2>5, HandlerFrame
  <2> QED
    BY Zenon, <2>2, <2>3, <2>4, <2>5
<1> QED
  BY <1>1, <1>2, <1>3, <1>4 DEF Next, Fault

\* Orchestrator implements PipelineRun when the callbacks of a run are handled one
\* at a time and nothing fails but channels of workers and the process itself: for
\* every pipeline and any number of workers, jobs are released in their order, a
\* verdict is earned, and it stays.
THEOREM PromiseIsKept ==
  ASSUME Serial, Reliable
  PROVE  Spec => KeepsPromise
<1>1. Init => PromiseInv
  BY InitPromiseInv
<1>2. PromiseInv /\ [Next]_vars => PromiseInv'
  BY NextPromiseInv
<1>3. Init => Promise!Init
  BY DEF Init, Promise!Init
<1>4. PromiseInv /\ [Next]_vars => [Promise!Next]_(Promise!vars)
  BY PromiseStep DEF Promise!vars
<1> QED
  BY <1>1, <1>2, <1>3, <1>4, PTL DEF Spec, KeepsPromise, Promise!Spec
====
