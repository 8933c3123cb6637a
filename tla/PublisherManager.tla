-------------------------- MODULE PublisherManager --------------------------
(***************************************************************************)
(* The reference-counted RabbitMQ publisher sets of the orchestrator       *)
(* (internal/services/orchestrator/publisher.go) and the loop of           *)
(* enqueueJob (dispatch.go) that acquires, uses, rebuilds and releases     *)
(* them.  A publisher set is identified by its generation number.          *)
(*                                                                         *)
(* m.mu is not a variable: a section under m.mu is one action, because     *)
(* every other access to m.current and m.stale is under the same lock.     *)
(* What happens outside the lock is a step of its own: refs.Add(-1), the   *)
(* first retired.Load() of releaseSet, and the closing loop of Close().    *)
(***************************************************************************)
EXTENDS Integers, Functions

CONSTANTS
  Callers,              \* goroutines that call enqueueJob
  MaxGen,               \* bound: the broker refuses to dial beyond this generation
  MaxPublishAttempts    \* maxPublishAttempts of dispatch.go

ASSUME ConstantsAssumption ==
  /\ MaxGen \in Nat
  /\ MaxPublishAttempts \in Nat \ {0}

Gens == 0 .. MaxGen
NoSet == -1             \* m.current = nil

VARIABLES
  current,      \* m.current: the generation in use, or NoSet
  stale,        \* the keys of m.stale
  retired,      \* retired[g]: set.retired of generation g
  refs,         \* refs[g]: set.refs of generation g
  closed,       \* generations on which publisherSet.Close has run
  pc,           \* pc[c]: where caller c is in enqueueJob
  held,         \* held[c]: the set caller c works with
  attempt,      \* attempt[c]: the loop counter of enqueueJob
  doomed        \* setsToClose of Close(): collected under the lock, closed after it

managerVars == <<current, stale, retired, refs, closed, doomed>>
callerVars == <<pc, held, attempt>>
vars == <<managerVars, callerVars>>

\* "publish" holds a reference; "rebuild" too; "release" is about to drop it;
\* "load" and "lock" have dropped it and are on the way to closing the set.
PCs == {"idle", "acquire", "publish", "rebuild", "release", "load", "lock"}

\* The callers that own one of the references counted by refs[g].
Holders(g) == {c \in Callers : held[c] = g /\ pc[c] \in {"publish", "rebuild", "release"}}

TypeOK ==
  /\ current \in Gens \cup {NoSet}
  /\ stale \subseteq Gens
  /\ retired \in [Gens -> BOOLEAN]
  /\ refs \in [Gens -> Int]
  /\ closed \subseteq Gens
  /\ pc \in [Callers -> PCs]
  /\ held \in [Callers -> Gens]
  /\ attempt \in [Callers -> 0 .. MaxPublishAttempts]
  /\ doomed \subseteq Gens

\* newPublisherManager: one open set of generation 0, no caller at work.
Init ==
  /\ current = 0
  /\ stale = {}
  /\ retired = [g \in Gens |-> FALSE]
  /\ refs = [g \in Gens |-> 0]
  /\ closed = {}
  /\ pc = [c \in Callers |-> "idle"]
  /\ held = [c \in Callers |-> 0]
  /\ attempt = [c \in Callers |-> 0]
  /\ doomed = {}

-----------------------------------------------------------------------------
Goto(c, label) == pc' = [pc EXCEPT ![c] = label]

EnqueueJob(c) ==
  /\ pc[c] = "idle"
  /\ attempt' = [attempt EXCEPT ![c] = 1]
  /\ Goto(c, "acquire")
  /\ UNCHANGED <<managerVars, held>>

\* A nil current set ends enqueueJob with "job publisher is not initialized".
AcquireCurrentSet(c) ==
  /\ pc[c] = "acquire"
  /\ \/ /\ current = NoSet
        /\ Goto(c, "idle")
        /\ UNCHANGED <<refs, held>>
     \/ /\ current # NoSet
        /\ refs' = [refs EXCEPT ![current] = @ + 1]
        /\ held' = [held EXCEPT ![c] = current]
        /\ Goto(c, "publish")
  /\ UNCHANGED <<current, stale, retired, closed, doomed, attempt>>

\* An outcome that ends the loop of enqueueJob is remembered as attempt 0.
LastAttempt(c) == attempt' = [attempt EXCEPT ![c] = 0]

\* PublishJob returns nil or an error other than ErrConnectionClosed: the loop
\* ends after the release.  ErrConnectionClosed asks for a rebuild first.
PublishJob(c) ==
  /\ pc[c] = "publish"
  /\ \/ Goto(c, "release") /\ LastAttempt(c)
     \/ Goto(c, "rebuild") /\ UNCHANGED attempt
  /\ UNCHANGED <<managerVars, held>>

AdoptNewSet(g) ==
  /\ retired' = [retired EXCEPT ![g] = TRUE]
  /\ stale' = stale \cup {g}
  /\ current' = g + 1

\* Mutant of RebuildIfCurrent: m.current != failed is not checked.
RebuildAlways(c) ==
  /\ pc[c] = "rebuild"
  /\ \/ LastAttempt(c) /\ UNCHANGED <<current, stale, retired>>
     \/ /\ held[c] < MaxGen
        /\ AdoptNewSet(held[c])
        /\ UNCHANGED attempt
  /\ Goto(c, "release")
  /\ UNCHANGED <<refs, closed, doomed, held>>

RebuildIfCurrent(c) ==
  /\ pc[c] = "rebuild"
  /\ \/ /\ current # held[c]
        /\ UNCHANGED <<current, stale, retired, attempt>>
     \/ /\ current = held[c]               \* newPublisherSet fails
        /\ LastAttempt(c)
        /\ UNCHANGED <<current, stale, retired>>
     \/ /\ current = held[c]
        /\ held[c] < MaxGen
        /\ AdoptNewSet(held[c])
        /\ UNCHANGED attempt
  /\ Goto(c, "release")
  /\ UNCHANGED <<refs, closed, doomed, held>>

\* enqueueJob goes on after a release: the next attempt, or the end.
NextAttempt(c) ==
  IF attempt[c] # 0 /\ attempt[c] < MaxPublishAttempts
  THEN Goto(c, "acquire") /\ attempt' = [attempt EXCEPT ![c] = @ + 1]
  ELSE Goto(c, "idle") /\ attempt' = [attempt EXCEPT ![c] = 0]

ReleaseSet(c) ==
  /\ pc[c] = "release"
  /\ refs' = [refs EXCEPT ![held[c]] = @ - 1]
  /\ IF refs[held[c]] = 1 THEN Goto(c, "load") /\ UNCHANGED attempt
                          ELSE NextAttempt(c)
  /\ UNCHANGED <<current, stale, retired, closed, doomed, held>>

ReleaseLoadRetired(c) ==
  /\ pc[c] = "load"
  /\ IF retired[held[c]] THEN Goto(c, "lock") /\ UNCHANGED attempt
                         ELSE NextAttempt(c)
  /\ UNCHANGED <<managerVars, held>>

\* Mutant of ReleaseUnderLock: the conditions are not checked again.
ReleaseWithoutRecheck(c) ==
  /\ pc[c] = "lock"
  /\ stale' = stale \ {held[c]}
  /\ closed' = closed \cup {held[c]}
  /\ NextAttempt(c)
  /\ UNCHANGED <<current, retired, refs, doomed, held>>

\* The section of releaseSet under m.mu re-checks both conditions.
ReleaseUnderLock(c) ==
  /\ pc[c] = "lock"
  /\ IF retired[held[c]] /\ refs[held[c]] = 0
     THEN stale' = stale \ {held[c]} /\ closed' = closed \cup {held[c]}
     ELSE UNCHANGED <<stale, closed>>
  /\ NextAttempt(c)
  /\ UNCHANGED <<current, retired, refs, doomed, held>>

-----------------------------------------------------------------------------
\* publisherManager.Close, under the lock: retire the current set and collect
\* the stale sets nobody references.
Close ==
  LET tracked == IF current = NoSet THEN stale ELSE stale \cup {current}
      unused == {g \in tracked : refs[g] = 0}
  IN /\ retired' = [g \in Gens |-> retired[g] \/ g = current]
     /\ current' = NoSet
     /\ stale' = tracked \ unused
     /\ doomed' = doomed \cup unused
     /\ UNCHANGED <<refs, closed, callerVars>>

\* ... and after the unlock, close what was collected, one set at a time.
CloseCollected ==
  \E g \in doomed :
     /\ closed' = closed \cup {g}
     /\ doomed' = doomed \ {g}
     /\ UNCHANGED <<current, stale, retired, refs, callerVars>>

CallerStep(c) ==
  \/ AcquireCurrentSet(c)
  \/ PublishJob(c)
  \/ RebuildIfCurrent(c)
  \/ ReleaseSet(c)
  \/ ReleaseLoadRetired(c)
  \/ ReleaseUnderLock(c)

Next ==
  \/ \E c \in Callers : EnqueueJob(c) \/ CallerStep(c)
  \/ Close
  \/ CloseCollected

\* A goroutine inside enqueueJob, or inside Close, keeps running; nobody is
\* obliged to call either.
Fairness ==
  /\ \A c \in Callers : WF_vars(CallerStep(c))
  /\ WF_vars(CloseCollected)

Spec == Init /\ [][Next]_vars /\ Fairness

-----------------------------------------------------------------------------
\* refs counts exactly the goroutines between acquireCurrentSet and the
\* refs.Add(-1) of releaseSet: no path of enqueueJob leaks or drops a reference.
RefsCountHolders ==
  \A g \in Gens : refs[g] \in Nat /\ ExistsBijection(1 .. refs[g], Holders(g))

\* A goroutine never publishes on, or rebuilds from, a set whose publishers and
\* connection have been closed, whatever releases and Close() calls race with it.
NoUseAfterClose == \A g \in closed : Holders(g) = {}

\* The strengthening under which NoUseAfterClose is inductive: a set that is
\* closed or about to be is retired and unreferenced, the current set and the
\* ones after it are not retired, so acquireCurrentSet can never hand one out.
SetLifecycle ==
  /\ \A g \in closed \cup doomed : retired[g] /\ Holders(g) = {}
  /\ current # NoSet => \A g \in Gens : g >= current => ~retired[g]

\* A retired set is never lost: m.stale still names it, or a goroutine that saw
\* it unused has closed it or is about to.
RetiredSetsAreTracked == \A g \in Gens : retired[g] <=> g \in stale \cup doomed \cup closed

\* Only the goroutine whose failed set is still current replaces it, so the
\* generation in use never goes back, and after Close() it stays nil.
CurrentOnlyAdvances ==
  [][current' # current => current # NoSet /\ (current' = NoSet \/ current' > current)]_vars

\* No connection leaks: a set that is retired is closed once its users are done
\* (the last releaseSet or Close() does it).
RetiredSetsGetClosed == \A g \in Gens : retired[g] ~> g \in closed

=============================================================================
