------------------------- MODULE PublisherProofs --------------------------
(* Proofs about PublisherManager and JobPublisher: a publisher set is closed   *)
(* only when nobody uses it, a publish that returned nil reached the broker,   *)
(* and the copies a call can make are bounded.  All of it holds for any        *)
(* callers, any number of attempts and any number of faults.                   *)
EXTENDS JobPublisher, TLAPS

\* How long the provers may take over a leaf.
USE SMTT(20), ZenonT(20)

\* The inductive invariant of PublisherManager.
IInv == TypeOK /\ RefsCountHolders /\ SetLifecycle /\ RetiredSetsAreTracked

\* The copies that the attempts of enqueueJob before attempt k may have made.
Rounds(k) == (k - 1) * (MaxTries - 1)

\* A call is inside Publish only while enqueueJob waits for it.
Control(c) ==
  /\ step[c] # "none" => pc[c] = "publish"
  /\ step[c] = "none" => tries[c] = 1
  /\ step[c] \in {"reconnect", "sleep"} => tries[c] < MaxTries
  /\ pc[c] \in {"acquire", "publish", "rebuild"} => attempt[c] # 0

\* How many copies there are where: each round of Publish adds one at most, and a
\* new attempt begins only after a reconnect, so not after a last round.
CopiesSoFar(c) ==
  /\ copies[c] <= Rounds(MaxPublishAttempts) + MaxTries
  /\ pc[c] = "acquire" \/ (pc[c] = "publish" /\ step[c] = "none")
       => copies[c] <= Rounds(attempt[c])
  /\ step[c] \in {"publish", "confirm"} => copies[c] <= Rounds(attempt[c]) + tries[c] - 1
  /\ step[c] \in {"failed", "reconnect", "sleep"} => copies[c] <= Rounds(attempt[c]) + tries[c]
  /\ pc[c] \in {"rebuild", "release", "load", "lock"} /\ attempt[c] # 0
       => copies[c] <= Rounds(attempt[c]) + MaxTries - 1

\* The fault that a cancelled context, or a channel lost in this round, is.
Cancelled(c) == IF c \in gone THEN 1 ELSE 0
Broke(c) == IF held[c] \in lost \/ ChannelOf(c) \in broken THEN 1 ELSE 0

\* Each copy is charged to a fault.  A cancelled context pays for one copy: the
\* sleep that follows ends the call, unless the connection is lost as well.
CopiesCharged(c) ==
  /\ copies[c] <= 1 + faults
  /\ step[c] = "publish" => copies[c] + Cancelled(c) <= faults
  /\ step[c] = "confirm" => copies[c] + Broke(c) + Cancelled(c) <= faults
  /\ step[c] \in {"failed", "reconnect", "sleep"} => copies[c] <= faults
  /\ step[c] \in {"failed", "reconnect"} /\ held[c] \in lost
       => copies[c] + Cancelled(c) <= faults
  /\ step[c] = "none" /\ pc[c] # "idle" /\ attempt[c] # 0
       => copies[c] + Cancelled(c) <= faults

\* rebuildIfCurrent is called for a lost connection.
RebuildsLost(c) == pc[c] = "rebuild" => held[c] \in lost

CallInv(c) == Control(c) /\ CopiesSoFar(c) /\ CopiesCharged(c) /\ RebuildsLost(c)

\* The inductive invariant of JobPublisher.
PInv ==
  /\ IInv /\ PublisherTypeOK
  /\ \A c \in Callers : CallInv(c)
  /\ NilMeansTaken

-----------------------------------------------------------------------------
\* Each step keeps the invariant of every call.

\* Where a step leaves a call alone and no fault changes what it is charged, or one
\* fault does and is counted, the invariant of the call is kept.
LEMMA CallFrame ==
  ASSUME PublisherTypeOK, NEW c \in Callers, CallInv(c),
         pc'[c] = pc[c], held'[c] = held[c], attempt'[c] = attempt[c], step'[c] = step[c],
         client'[c] = client[c], tries'[c] = tries[c], copies'[c] = copies[c],
         lost \subseteq lost',
         \/ faults' = faults /\ (c \in gone' => c \in gone) /\ lost' = lost /\ broken' \subseteq broken
         \/ faults' = faults + 1 /\ gone' = gone
         \/ faults' = faults + 1 /\ lost' = lost /\ broken' = broken
  PROVE  CallInv(c)'
<1>1. copies[c] \in Nat /\ faults \in Nat
  BY DEF PublisherTypeOK
<1>2. Control(c)' /\ CopiesSoFar(c)' /\ RebuildsLost(c)'
  BY DEF CallInv, Control, CopiesSoFar, RebuildsLost, Rounds
<1>3. ChannelOf(c)' = ChannelOf(c)
  BY DEF ChannelOf
<1>4. Cancelled(c) \in 0 .. 1 /\ Cancelled(c)' \in 0 .. 1 /\ Broke(c) \in 0 .. 1 /\ Broke(c)' \in 0 .. 1
  BY DEF Cancelled, Broke
<1>5. \/ faults' = faults /\ Cancelled(c)' <= Cancelled(c) /\ Broke(c)' <= Broke(c) /\ lost' = lost
      \/ faults' = faults + 1 /\ Cancelled(c)' = Cancelled(c)
      \/ faults' = faults + 1 /\ Broke(c)' = Broke(c) /\ lost' = lost
  <2>1. CASE faults' = faults /\ (c \in gone' => c \in gone) /\ lost' = lost /\ broken' \subseteq broken
    BY <1>3, <2>1 DEF Cancelled, Broke
  <2>2. CASE faults' = faults + 1 /\ gone' = gone
    BY <2>2 DEF Cancelled
  <2>3. CASE faults' = faults + 1 /\ lost' = lost /\ broken' = broken
    BY <1>3, <2>3 DEF Broke
  <2> QED BY <2>1, <2>2, <2>3
<1>6. CopiesCharged(c)'
  <2>1. CopiesCharged(c)
    BY DEF CallInv
  <2>2. CASE faults' = faults /\ Cancelled(c)' <= Cancelled(c) /\ Broke(c)' <= Broke(c) /\ lost' = lost
    BY <1>1, <1>4, <2>1, <2>2 DEF CopiesCharged
  <2>3. CASE faults' = faults + 1 /\ Cancelled(c)' = Cancelled(c)
    BY <1>1, <1>4, <2>1, <2>3 DEF CopiesCharged
  <2>4. CASE faults' = faults + 1 /\ Broke(c)' = Broke(c) /\ lost' = lost
    BY <1>1, <1>4, <2>1, <2>4 DEF CopiesCharged
  <2> QED BY <1>5, <2>2, <2>3, <2>4
<1> QED BY <1>2, <1>6 DEF CallInv

\* The steps of one call keep the invariant of the others.
LEMMA OthersKeep ==
  ASSUME IInv, PublisherTypeOK, NEW c \in Callers, NEW d \in Callers \ {c}, CallInv(d),
         StartCall(c) \/ CallStep(c)
  PROVE  CallInv(d)'
<1>0. TypeOK
  BY DEF IInv
<1>1. CASE StartCall(c)
  BY <1>0, <1>1, CallFrame
     DEF StartCall, EnqueueJob, Goto, brokerVars, TypeOK, PublisherTypeOK
<1>2. CASE NextPublisher(c) \/ PublishOnce(c)
  BY <1>0, <1>2, CallFrame
     DEF NextPublisher, PublishOnce, Advance, brokerVars, vars, callerVars, TypeOK, PublisherTypeOK
<1>3. ASSUME Ends(c)
      PROVE  /\ pc'[d] = pc[d] /\ held'[d] = held[d] /\ attempt'[d] = attempt[d]
             /\ step'[d] = step[d] /\ tries'[d] = tries[d]
  BY <1>0, <1>3 DEF Ends, Goto, LastAttempt, Leave, Advance, TypeOK, PublisherTypeOK
<1>4. CASE WaitPublishConfirm(c)
  <2>1. /\ pc'[d] = pc[d] /\ held'[d] = held[d] /\ attempt'[d] = attempt[d]
        /\ step'[d] = step[d] /\ tries'[d] = tries[d]
    BY <1>0, <1>3, <1>4 DEF WaitPublishConfirm, Advance, vars, callerVars, PublisherTypeOK
  <2>2. /\ copies'[d] = copies[d] /\ faults' \in {faults, faults + 1}
        /\ UNCHANGED <<lost, broken, gone, client>>
    BY <1>4 DEF WaitPublishConfirm, Fault, brokerVars, PublisherTypeOK
  <2> QED BY <2>1, <2>2, CallFrame
<1>5. CASE PublishFails(c) \/ SleepWithContext(c)
  <2>1. /\ pc'[d] = pc[d] /\ held'[d] = held[d] /\ attempt'[d] = attempt[d]
        /\ step'[d] = step[d] /\ tries'[d] = tries[d]
    BY <1>0, <1>3, <1>5
       DEF PublishFails, SleepWithContext, Advance, vars, callerVars, PublisherTypeOK
  <2> QED BY <1>5, <2>1, CallFrame DEF PublishFails, SleepWithContext, brokerVars
<1>6. CASE Reconnect(c)
  <2>1. /\ pc'[d] = pc[d] /\ held'[d] = held[d] /\ attempt'[d] = attempt[d]
        /\ step'[d] = step[d] /\ tries'[d] = tries[d]
    BY <1>0, <1>6 DEF Reconnect, Goto, Leave, Advance, vars, callerVars, TypeOK, PublisherTypeOK
  <2>2. /\ UNCHANGED <<lost, gone, client, copies>>
        /\ (faults' = faults /\ broken' \subseteq broken) \/ faults' = faults + 1
    BY <1>6 DEF Reconnect, Fault
  <2> QED BY <2>1, <2>2, CallFrame
<1>7. CASE ManagerStep(c)
  <2>1. pc'[d] = pc[d] /\ held'[d] = held[d] /\ attempt'[d] = attempt[d]
    BY <1>0, <1>7 DEF ManagerStep, AcquireCurrentSet, RebuildIfCurrent, ReleaseSet,
       ReleaseLoadRetired, ReleaseUnderLock, NextAttempt, LastAttempt, Goto, TypeOK
  <2> QED BY <1>7, <2>1, CallFrame DEF ManagerStep, clientVars, brokerVars, callVars
<1> QED BY <1>1, <1>2, <1>4, <1>5, <1>6, <1>7 DEF CallStep, PublishStep

\* Arithmetic of the two loops: an attempt adds MaxTries - 1 to the budget, and the
\* budget of an attempt is within that of the last.
LEMMA RoundsGrow ==
  /\ Rounds(1) = 0
  /\ \A k \in 1 .. MaxPublishAttempts :
       /\ Rounds(k) \in Nat
       /\ Rounds(k + 1) = Rounds(k) + MaxTries - 1
       /\ Rounds(k) <= Rounds(MaxPublishAttempts)
       /\ k < MaxPublishAttempts
            => Rounds(k) + MaxTries - 1 <= Rounds(MaxPublishAttempts)
<1> DEFINE r == MaxTries - 1
<1>0. r \in Nat /\ MaxPublishAttempts \in Nat \ {0} /\ MaxTries = r + 1
  BY ClientsAssumption, ConstantsAssumption
<1>1. ASSUME NEW a \in Nat, NEW b \in Nat, a <= b PROVE a * r <= b * r /\ a * r \in Nat
  BY <1>0, <1>1
<1>2. ASSUME NEW a \in Nat PROVE (a + 1) * r = a * r + r
  BY <1>0
<1>3. Rounds(1) = 0
  BY <1>0 DEF Rounds
<1>4. ASSUME NEW k \in 1 .. MaxPublishAttempts
      PROVE  /\ Rounds(k) \in Nat
             /\ Rounds(k + 1) = Rounds(k) + MaxTries - 1
             /\ Rounds(k) <= Rounds(MaxPublishAttempts)
             /\ k < MaxPublishAttempts
                  => Rounds(k) + MaxTries - 1 <= Rounds(MaxPublishAttempts)
  <2> DEFINE a == k - 1
             b == MaxPublishAttempts - 1
  <2>1. a \in Nat /\ b \in Nat /\ a <= b /\ k - 1 = a /\ (k + 1) - 1 = a + 1
    BY <1>0
  <2>2. Rounds(k) = a * r /\ Rounds(k + 1) = (a + 1) * r /\ Rounds(MaxPublishAttempts) = b * r
    BY <2>1 DEF Rounds
  <2>3. k < MaxPublishAttempts => a + 1 <= b
    BY <1>0
  <2>4. a * r <= b * r /\ a * r \in Nat /\ b * r \in Nat
    BY <1>1, <2>1
  <2>5. (a + 1) * r = a * r + r
    BY <1>2, <2>1
  <2>6. a + 1 <= b => (a + 1) * r <= b * r
    BY <1>1, <2>1
  <2> HIDE DEF a, b, r
  <2> QED BY <1>0, <2>2, <2>3, <2>4, <2>5, <2>6
<1> QED BY <1>3, <1>4

\* A goroutine inside Publish, or about to rebuild, holds an open set.
LEMMA HeldIsOpen ==
  ASSUME IInv, NEW c \in Callers, pc[c] \in {"publish", "rebuild"}
  PROVE  held[c] \notin closed
BY DEF IInv, SetLifecycle, Holders

\* The bounds of the two loops, for a call inside Publish.
LEMMA InsidePublish ==
  ASSUME TypeOK, PublisherTypeOK, NEW c \in Callers, CallInv(c), step[c] # "none"
  PROVE  /\ copies[c] \in Nat /\ faults \in Nat /\ tries[c] \in 1 .. MaxTries /\ MaxTries \in Nat
         /\ pc[c] = "publish" /\ attempt[c] \in 1 .. MaxPublishAttempts
         /\ Rounds(attempt[c]) \in Nat
         /\ Rounds(attempt[c]) <= Rounds(MaxPublishAttempts) /\ Rounds(MaxPublishAttempts) \in Nat
         /\ Cancelled(c) \in 0 .. 1 /\ Broke(c) \in 0 .. 1
<1>1. pc[c] = "publish" /\ attempt[c] \in 1 .. MaxPublishAttempts
  BY ConstantsAssumption DEF CallInv, Control, TypeOK
<1>2. MaxTries \in Nat /\ MaxPublishAttempts \in 1 .. MaxPublishAttempts
  BY ClientsAssumption, ConstantsAssumption
<1>3. copies[c] \in Nat /\ faults \in Nat /\ tries[c] \in 1 .. MaxTries
  BY DEF PublisherTypeOK
<1>4. Cancelled(c) \in 0 .. 1 /\ Broke(c) \in 0 .. 1
  BY DEF Cancelled, Broke
<1> QED BY <1>1, <1>2, <1>3, <1>4, RoundsGrow

\* A step that stays inside Publish keeps the invariant of its call, where the copies
\* stay within the budget of the round and are charged to faults.
LEMMA RoundKeeps ==
  ASSUME NEW c \in Callers, TypeOK, PublisherTypeOK, CallInv(c), pc[c] = "publish",
         pc'[c] = pc[c], attempt'[c] = attempt[c], copies'[c] \in Nat, faults' \in Nat,
         step'[c] \in {"publish", "confirm", "failed", "reconnect", "sleep"},
         tries'[c] \in 1 .. MaxTries, step'[c] \in {"reconnect", "sleep"} => tries'[c] < MaxTries,
         copies'[c] <= Rounds(attempt[c]) + tries'[c], copies'[c] <= faults',
         step'[c] \in {"publish", "confirm"} => copies'[c] <= Rounds(attempt[c]) + tries'[c] - 1,
         step'[c] = "publish" => copies'[c] + Cancelled(c)' <= faults',
         step'[c] = "confirm" => copies'[c] + Broke(c)' + Cancelled(c)' <= faults',
         step'[c] \in {"failed", "reconnect"} /\ held'[c] \in lost'
           => copies'[c] + Cancelled(c)' <= faults'
  PROVE  CallInv(c)'
<1>1. attempt[c] # 0 /\ attempt[c] \in 0 .. MaxPublishAttempts
  BY DEF CallInv, Control, TypeOK
<1>2. /\ Rounds(attempt[c])' = Rounds(attempt[c])
      /\ Rounds(MaxPublishAttempts)' = Rounds(MaxPublishAttempts)
  BY DEF Rounds
<1>3. Control(c)' /\ RebuildsLost(c)'
  BY <1>1 DEF Control, RebuildsLost
<1>4. CopiesSoFar(c)'
  <2>1. /\ Rounds(attempt[c]) \in Nat /\ Rounds(MaxPublishAttempts) \in Nat /\ MaxTries \in Nat
        /\ Rounds(attempt[c]) <= Rounds(MaxPublishAttempts)
    BY <1>1, ConstantsAssumption, ClientsAssumption, RoundsGrow
  <2> QED BY <1>2, <2>1 DEF CopiesSoFar
<1>5. CopiesCharged(c)'
  BY DEF CopiesCharged
<1> QED BY <1>3, <1>4, <1>5 DEF CallInv

\* Publish returns nil or an error that ends enqueueJob.
LEMMA EndsKeeps ==
  ASSUME TypeOK, PublisherTypeOK, NEW c \in Callers, Ends(c),
         copies'[c] <= Rounds(MaxPublishAttempts) + MaxTries, copies'[c] <= 1 + faults'
  PROVE  CallInv(c)'
<1>1. pc'[c] = "release" /\ attempt'[c] = 0 /\ step'[c] = "none" /\ tries'[c] = 1
  BY DEF Ends, Goto, LastAttempt, Leave, Advance, TypeOK, PublisherTypeOK
<1>2. Rounds(MaxPublishAttempts)' = Rounds(MaxPublishAttempts)
  BY DEF Rounds
<1>3. Control(c)'
  BY <1>1, <1>2 DEF Control
<1>4. CopiesSoFar(c)'
  BY <1>1, <1>2 DEF CopiesSoFar
<1>5. CopiesCharged(c)'
  BY <1>1, <1>2 DEF CopiesCharged
<1>6. RebuildsLost(c)'
  BY <1>1, <1>2 DEF RebuildsLost
<1> QED BY <1>3, <1>4, <1>5, <1>6 DEF CallInv

\* nextPublisher, and publishOnce up to the confirm.
LEMMA SendingKeeps ==
  ASSUME IInv, PublisherTypeOK, NEW c \in Callers, CallInv(c), NextPublisher(c) \/ PublishOnce(c)
  PROVE  CallInv(c)'
<1>0. TypeOK
  BY DEF IInv
<1>1. /\ pc'[c] = pc[c] /\ held' = held /\ attempt'[c] = attempt[c] /\ lost' = lost
      /\ broken' = broken /\ tries'[c] = tries[c] /\ copies'[c] = copies[c] /\ faults' = faults
      /\ Cancelled(c)' = Cancelled(c)
  BY DEF NextPublisher, PublishOnce, vars, callerVars, brokerVars, Cancelled
<1>2. copies[c] \in Nat /\ faults \in Nat /\ tries[c] \in 1 .. MaxTries
  BY DEF PublisherTypeOK
<1>3. CASE NextPublisher(c)
  <2>1. step'[c] = "publish" /\ step[c] = "none" /\ pc[c] = "publish"
    BY <1>3 DEF NextPublisher, Advance, PublisherTypeOK
  <2>2. tries[c] = 1 /\ attempt[c] # 0 /\ attempt[c] \in 0 .. MaxPublishAttempts
    BY <1>0, <2>1 DEF CallInv, Control, TypeOK
  <2>3. copies[c] <= Rounds(attempt[c]) /\ copies[c] + Cancelled(c) <= faults
    BY <2>1, <2>2 DEF CallInv, CopiesSoFar, CopiesCharged
  <2>4. Rounds(attempt[c]) \in Nat /\ Cancelled(c) \in 0 .. 1
    BY <2>2, ConstantsAssumption, RoundsGrow DEF Cancelled
  <2> QED BY <1>0, <1>1, <1>2, <2>1, <2>2, <2>3, <2>4, RoundKeeps
<1>4. CASE PublishOnce(c)
  <2>1. step[c] = "publish" /\ step'[c] = (IF ChannelWorks(c) THEN "confirm" ELSE "failed")
    BY <1>4 DEF PublishOnce, Advance, PublisherTypeOK
  <2>2. pc[c] = "publish" /\ Rounds(attempt[c]) \in Nat /\ Cancelled(c) \in 0 .. 1
    BY <1>0, <2>1, InsidePublish
  <2>3. ChannelWorks(c) => Broke(c)' = 0
    BY <1>1, <1>4 DEF ChannelWorks, ConnectionClosed, Broke, ChannelOf, PublishOnce
  <2>4. copies[c] <= Rounds(attempt[c]) + tries[c] - 1 /\ copies[c] + Cancelled(c) <= faults
    BY <2>1 DEF CallInv, CopiesSoFar, CopiesCharged
  <2> QED BY <1>0, <1>1, <1>2, <2>1, <2>2, <2>3, <2>4, RoundKeeps
<1> QED BY <1>3, <1>4

\* A call begins with no copies, no attempt behind it and a context of its own.
LEMMA StartKeeps ==
  ASSUME IInv, PublisherTypeOK, NEW c \in Callers, CallInv(c), StartCall(c)
  PROVE  CallInv(c)'
<1>0. TypeOK
  BY DEF IInv
<1>1. /\ pc[c] = "idle" /\ pc'[c] = "acquire" /\ attempt'[c] = 1 /\ copies'[c] = 0
      /\ c \notin gone' /\ UNCHANGED <<step, tries, faults>>
  BY <1>0, ConstantsAssumption
     DEF StartCall, EnqueueJob, Goto, TypeOK, PublisherTypeOK
<1>2. step[c] = "none" /\ tries[c] = 1 /\ faults \in Nat /\ Cancelled(c)' = 0
  BY <1>1 DEF CallInv, Control, PublisherTypeOK, Cancelled
<1>3. Rounds(attempt[c])' = Rounds(1) /\ Rounds(1) = 0
      /\ Rounds(MaxPublishAttempts)' \in Nat /\ MaxTries \in Nat
  BY <1>1, RoundsGrow, ConstantsAssumption, ClientsAssumption DEF Rounds
<1>4. Control(c)' /\ RebuildsLost(c)'
  BY <1>1, <1>2 DEF Control, RebuildsLost
<1>5. CopiesSoFar(c)'
  BY <1>1, <1>2, <1>3 DEF CopiesSoFar
<1>6. CopiesCharged(c)'
  BY <1>1, <1>2 DEF CopiesCharged
<1> QED BY <1>4, <1>5, <1>6 DEF CallInv

\* reconnect: a lost connection asks for a rebuild, a channel is opened again.
LEMMA ReconnectKeeps ==
  ASSUME IInv, PublisherTypeOK, NEW c \in Callers, CallInv(c),
         Reconnect(c)
  PROVE  CallInv(c)'
<1>0. TypeOK /\ step[c] = "reconnect"
  BY DEF IInv, Reconnect
<1>1. /\ copies[c] \in Nat /\ faults \in Nat /\ tries[c] \in 1 .. MaxTries /\ MaxTries \in Nat
      /\ pc[c] = "publish" /\ attempt[c] \in 1 .. MaxPublishAttempts /\ Rounds(attempt[c]) \in Nat
      /\ Rounds(attempt[c]) <= Rounds(MaxPublishAttempts) /\ Rounds(MaxPublishAttempts) \in Nat
      /\ Cancelled(c) \in 0 .. 1 /\ Broke(c) \in 0 .. 1
  BY <1>0, InsidePublish
<1>2. copies[c] <= Rounds(attempt[c]) + tries[c] /\ copies[c] <= faults
  BY <1>0 DEF CallInv, CopiesSoFar, CopiesCharged
<1>3. /\ copies' = copies /\ lost' = lost /\ faults' \in {faults, faults + 1}
      /\ Cancelled(c)' = Cancelled(c)
  BY DEF Reconnect, Fault, Cancelled
<1>4. CASE Reconnect(c) /\ ConnectionClosed(held[c])
  <2>1. /\ step[c] = "reconnect" /\ step'[c] = "none" /\ pc'[c] = "rebuild" /\ tries'[c] = 1
        /\ held'[c] = held[c] /\ attempt'[c] = attempt[c] /\ faults' = faults
    BY <1>0, <1>4 DEF Reconnect, Goto, Leave, Advance, TypeOK, PublisherTypeOK
  <2>2. held[c] \in lost
    BY <1>1, <1>4, HeldIsOpen DEF ConnectionClosed
  <2>3. /\ Rounds(attempt[c])' = Rounds(attempt[c])
        /\ Rounds(MaxPublishAttempts)' = Rounds(MaxPublishAttempts)
    BY <2>1 DEF Rounds
  <2>4. tries[c] < MaxTries /\ copies[c] + Cancelled(c) <= faults
    BY <2>1, <2>2 DEF CallInv, Control, CopiesCharged
  <2>5. Control(c)' /\ RebuildsLost(c)'
    BY <1>1, <1>3, <2>1, <2>2 DEF Control, RebuildsLost
  <2>6. CopiesSoFar(c)'
    BY <1>1, <1>2, <1>3, <2>1, <2>3, <2>4 DEF CopiesSoFar
  <2>7. CopiesCharged(c)'
    BY <1>1, <1>2, <1>3, <2>1, <2>4 DEF CopiesCharged
  <2> QED BY <2>5, <2>6, <2>7 DEF CallInv
<1>5. CASE Reconnect(c) /\ ~ConnectionClosed(held[c])
  <2>1. /\ step[c] = "reconnect" /\ step'[c] = "sleep"
        /\ pc' = pc /\ attempt' = attempt /\ tries' = tries
    BY <1>5 DEF Reconnect, Advance, vars, callerVars, PublisherTypeOK
  <2>2. tries[c] < MaxTries
    BY <2>1 DEF CallInv, Control
  <2> QED BY <1>0, <1>1, <1>2, <1>3, <2>1, <2>2, RoundKeeps
<1> QED BY <1>4, <1>5

\* Where the steps of enqueueJob around Publish go: a set acquired or refused, a rebuild
\* that succeeds or fails, a release and the attempt or the return after it.
Moves(c) ==
  \/ pc[c] = "acquire" /\ pc'[c] \in {"idle", "publish"} /\ attempt'[c] = attempt[c]
  \/ pc[c] = "rebuild" /\ pc'[c] = "release" /\ attempt'[c] \in {0, attempt[c]}
  \/ /\ pc[c] \in {"release", "load", "lock"}
     /\ \/ pc'[c] \in {"load", "lock"} /\ attempt'[c] = attempt[c]
        \/ pc'[c] = "idle"
        \/ /\ pc'[c] = "acquire" /\ attempt'[c] = attempt[c] + 1
           /\ attempt[c] # 0 /\ attempt[c] < MaxPublishAttempts

\* enqueueJob around Publish: a new attempt has the budget of one attempt more.
LEMMA ManagerKeeps ==
  ASSUME IInv, PublisherTypeOK, NEW c \in Callers, CallInv(c), ManagerStep(c)
  PROVE  CallInv(c)'
<1>0. /\ TypeOK /\ attempt[c] \in 0 .. MaxPublishAttempts /\ MaxPublishAttempts \in Nat \ {0}
      /\ MaxTries \in Nat \ {0}
  BY ConstantsAssumption, ClientsAssumption DEF IInv, TypeOK
<1>1. /\ lost' = lost /\ step' = step /\ tries' = tries /\ copies' = copies /\ faults' = faults
      /\ Cancelled(c)' = Cancelled(c)
  <2>1. UNCHANGED clientVars
    BY DEF ManagerStep
  <2> QED BY <2>1 DEF clientVars, brokerVars, callVars, Cancelled
<1>2. Moves(c)
  <2>1. CASE AcquireCurrentSet(c)
    BY <1>0, <2>1 DEF AcquireCurrentSet, Goto, TypeOK, Moves
  <2>2. CASE RebuildIfCurrent(c)
    BY <1>0, <2>2 DEF RebuildIfCurrent, Goto, LastAttempt, TypeOK, Moves
  <2>3. ASSUME NextAttempt(c)
        PROVE  \/ pc'[c] = "idle"
               \/ /\ pc'[c] = "acquire" /\ attempt'[c] = attempt[c] + 1
                  /\ attempt[c] # 0 /\ attempt[c] < MaxPublishAttempts
    BY <1>0, <2>3 DEF NextAttempt, Goto, TypeOK
  <2>4. CASE ReleaseSet(c)
    BY <1>0, <2>3, <2>4 DEF ReleaseSet, Goto, TypeOK, Moves
  <2>5. CASE ReleaseLoadRetired(c)
    BY <1>0, <2>3, <2>5 DEF ReleaseLoadRetired, Goto, TypeOK, Moves
  <2>6. CASE ReleaseUnderLock(c)
    BY <2>3, <2>6 DEF ReleaseUnderLock, Moves
  <2> QED BY <2>1, <2>2, <2>4, <2>5, <2>6 DEF ManagerStep
<1>3. /\ step[c] = "none" /\ tries[c] = 1 /\ CopiesSoFar(c) /\ CopiesCharged(c)
      /\ pc[c] = "acquire" => attempt[c] # 0
  BY <1>2 DEF CallInv, Control, Moves
<1>4. copies[c] \in Nat /\ faults \in Nat /\ Cancelled(c) \in 0 .. 1
  BY DEF PublisherTypeOK, Cancelled
<1>5. Control(c)' /\ RebuildsLost(c)'
  BY <1>0, <1>1, <1>2, <1>3 DEF Control, RebuildsLost, Moves
<1>6. CopiesSoFar(c)'
  <2>1. attempt[c] # 0 => /\ Rounds(attempt[c]) \in Nat
                          /\ Rounds(attempt[c] + 1) = Rounds(attempt[c]) + MaxTries - 1
    BY <1>0, RoundsGrow
  <2>2. /\ Rounds(MaxPublishAttempts)' = Rounds(MaxPublishAttempts)
        /\ Rounds(attempt[c])' = Rounds(attempt'[c])
    BY DEF Rounds
  <2> QED BY <1>0, <1>1, <1>2, <1>3, <1>4, <2>1, <2>2 DEF CopiesSoFar, Moves
<1>7. CopiesCharged(c)'
  BY <1>0, <1>1, <1>2, <1>3, <1>4 DEF CopiesCharged, Moves
<1> QED BY <1>5, <1>6, <1>7 DEF CallInv

\* waitPublishConfirm: the copy of this round is confirmed, or charged to the fault
\* that ended the wait.
LEMMA ConfirmKeeps ==
  ASSUME IInv, PublisherTypeOK, NEW c \in Callers, CallInv(c), WaitPublishConfirm(c)
  PROVE  CallInv(c)'
<1>0. TypeOK /\ step[c] = "confirm"
  BY DEF IInv, WaitPublishConfirm
<1>1. /\ copies[c] \in Nat /\ faults \in Nat /\ tries[c] \in 1 .. MaxTries /\ MaxTries \in Nat
      /\ pc[c] = "publish" /\ attempt[c] \in 1 .. MaxPublishAttempts /\ Rounds(attempt[c]) \in Nat
      /\ Rounds(attempt[c]) <= Rounds(MaxPublishAttempts) /\ Rounds(MaxPublishAttempts) \in Nat
      /\ Cancelled(c) \in 0 .. 1 /\ Broke(c) \in 0 .. 1
  BY <1>0, InsidePublish
<1>2. /\ copies[c] <= Rounds(attempt[c]) + tries[c] - 1
      /\ copies[c] + Broke(c) + Cancelled(c) <= faults
  BY <1>0 DEF CallInv, CopiesSoFar, CopiesCharged
<1>3. CASE Ends(c)
  <2>1. copies'[c] <= copies[c] + 1 /\ faults' >= faults
    BY <1>1, <1>3 DEF WaitPublishConfirm, PublisherTypeOK, Fault
  <2>2. /\ copies'[c] <= Rounds(MaxPublishAttempts) + MaxTries
        /\ copies'[c] <= 1 + faults'
    BY <1>1, <1>2, <2>1 DEF WaitPublishConfirm, PublisherTypeOK, Fault
  <2> QED BY <1>0, <1>3, <2>2, EndsKeeps
<1>4. CASE ~Ends(c)
  <2>1. /\ step'[c] = "failed" /\ pc'[c] = pc[c] /\ held' = held /\ attempt'[c] = attempt[c]
        /\ tries'[c] = tries[c] /\ lost' = lost /\ Cancelled(c)' = Cancelled(c)
        /\ \/ faults' = faults + 1 /\ copies'[c] = copies[c]
           \/ /\ ~ChannelWorks(c) \/ c \in gone
              /\ copies'[c] \in {copies[c], copies[c] + 1} /\ faults' = faults
    BY <1>4 DEF WaitPublishConfirm, Advance, Fault, vars, callerVars, brokerVars, PublisherTypeOK,
       Cancelled
  <2>2. /\ c \in gone => Cancelled(c) = 1
        /\ ~ChannelWorks(c) => Broke(c) = 1
        /\ held[c] \in lost => Broke(c) = 1
    BY <1>1, HeldIsOpen DEF Cancelled, Broke, ChannelWorks, ConnectionClosed
  <2>3. /\ copies'[c] \in Nat /\ faults' \in Nat /\ copies'[c] <= Rounds(attempt[c]) + tries[c]
        /\ copies'[c] <= faults'
        /\ held[c] \in lost => copies'[c] + Cancelled(c) <= faults'
    BY <1>1, <1>2, <2>1, <2>2
  <2> QED BY <1>0, <1>1, <2>1, <2>3, RoundKeeps
<1> QED BY <1>3, <1>4

\* A round that failed: the last one ends Publish, and the sleep ends with a cancelled
\* context.
LEMMA RetryKeeps ==
  ASSUME IInv, PublisherTypeOK, NEW c \in Callers, CallInv(c),
         PublishFails(c) \/ SleepWithContext(c)
  PROVE  CallInv(c)'
<1>0. TypeOK /\ step[c] \in {"failed", "sleep"}
  BY DEF IInv, PublishFails, SleepWithContext
<1>1. /\ copies[c] \in Nat /\ faults \in Nat /\ tries[c] \in 1 .. MaxTries /\ MaxTries \in Nat
      /\ pc[c] = "publish" /\ attempt[c] \in 1 .. MaxPublishAttempts /\ Rounds(attempt[c]) \in Nat
      /\ Rounds(attempt[c]) <= Rounds(MaxPublishAttempts) /\ Rounds(MaxPublishAttempts) \in Nat
      /\ Cancelled(c) \in 0 .. 1 /\ Broke(c) \in 0 .. 1
  BY <1>0, InsidePublish
<1>2. copies[c] <= Rounds(attempt[c]) + tries[c] /\ copies[c] <= faults
  BY <1>0 DEF CallInv, CopiesSoFar, CopiesCharged
<1>3. /\ copies' = copies /\ lost' = lost /\ faults' = faults /\ Cancelled(c)' = Cancelled(c)
  BY DEF PublishFails, SleepWithContext, brokerVars, Cancelled
<1>4. CASE Ends(c)
  BY <1>0, <1>1, <1>2, <1>3, <1>4, EndsKeeps
<1>5. CASE PublishFails(c) /\ ~Ends(c)
  <2>1. /\ step[c] = "failed" /\ step'[c] = "reconnect" /\ tries[c] < MaxTries /\ tries' = tries
        /\ pc' = pc /\ held' = held /\ attempt' = attempt
    BY <1>5 DEF PublishFails, Advance, vars, callerVars, PublisherTypeOK
  <2>2. held[c] \in lost => copies[c] + Cancelled(c) <= faults
    BY <2>1 DEF CallInv, CopiesCharged
  <2> QED BY <1>0, <1>1, <1>2, <1>3, <2>1, <2>2, RoundKeeps
<1>6. CASE SleepWithContext(c) /\ ~Ends(c)
  <2>1. /\ step[c] = "sleep" /\ step'[c] = "publish" /\ tries'[c] = tries[c] + 1 /\ c \notin gone
        /\ pc' = pc /\ attempt' = attempt
    BY <1>6 DEF SleepWithContext, Advance, vars, callerVars, PublisherTypeOK
  <2>2. Cancelled(c) = 0 /\ tries[c] < MaxTries
    BY <2>1 DEF Cancelled, CallInv, Control
  <2> QED BY <1>0, <1>1, <1>2, <1>3, <2>1, <2>2, RoundKeeps
<1> QED BY <1>4, <1>5, <1>6

-----------------------------------------------------------------------------
\* What a step of the publish loop may change, and what it is to the manager.

\* Only waitPublishConfirm decides what a call has sent and returns.
LEMMA OnlyConfirmCounts ==
  ASSUME NEW c \in Callers, CallStep(c), ~WaitPublishConfirm(c)
  PROVE  UNCHANGED <<copies, returned>>
<1>1. CASE NextPublisher(c) \/ PublishOnce(c)
  BY Zenon, <1>1 DEF NextPublisher, PublishOnce
<1>2. CASE PublishFails(c) \/ SleepWithContext(c)
  BY <1>2 DEF PublishFails, SleepWithContext
<1>3. CASE Reconnect(c)
  BY <1>3 DEF Reconnect
<1>4. CASE ManagerStep(c)
  BY <1>4 DEF ManagerStep, clientVars, callVars
<1> QED BY Zenon, <1>1, <1>2, <1>3, <1>4 DEF CallStep, PublishStep

\* Only rebuildIfCurrent puts another set in the place of the current one.
LEMMA OnlyRebuildsReplace ==
  ASSUME PublisherNext, current' # current, current' # NoSet
  PROVE  \E c \in Callers : RebuildIfCurrent(c)
<1>1. ASSUME NEW c \in Callers PROVE ~StartCall(c)
  BY DEF StartCall, EnqueueJob, managerVars
<1>2. ASSUME NEW c \in Callers, ManagerStep(c) PROVE RebuildIfCurrent(c)
  <2>1. ~AcquireCurrentSet(c) /\ ~ReleaseSet(c) /\ ~ReleaseLoadRetired(c) /\ ~ReleaseUnderLock(c)
    BY DEF AcquireCurrentSet, ReleaseSet, ReleaseLoadRetired, ReleaseUnderLock, managerVars
  <2> QED BY <1>2, <2>1 DEF ManagerStep
<1>3. ASSUME NEW c \in Callers PROVE ~PublishStep(c)
  <2>1. ~Ends(c) /\ ~UNCHANGED vars
    BY DEF Ends, vars, managerVars
  <2>2. ~NextPublisher(c) /\ ~PublishOnce(c)
    BY <2>1 DEF NextPublisher, PublishOnce
  <2>3. ~WaitPublishConfirm(c) /\ ~PublishFails(c) /\ ~SleepWithContext(c)
    BY Zenon, <2>1 DEF WaitPublishConfirm, PublishFails, SleepWithContext
  <2>4. ~Reconnect(c)
    BY Zenon, <2>1 DEF Reconnect, managerVars
  <2> QED BY <2>2, <2>3, <2>4 DEF PublishStep
<1>4. ~CloseManager /\ ~CloseSets /\ ~LoseConnection /\ ~LoseChannel /\ ~CancelContext
  <2>1. ~Close /\ ~CloseCollected
    BY DEF Close, CloseCollected
  <2>2. ~LoseConnection /\ ~LoseChannel /\ ~CancelContext
    BY DEF LoseConnection, LoseChannel, CancelContext, vars, managerVars
  <2> QED BY <2>1, <2>2 DEF CloseManager, CloseSets
<1> QED BY <1>1, <1>2, <1>3, <1>4 DEF PublisherNext, CallStep

\* Every step of the publish loop is a step of PublisherManager, or none of its own.
LEMMA PublisherStepsRefine ==
  ASSUME \A c \in Callers : Control(c), [PublisherNext]_publisherVars
  PROVE  [Next]_vars
<1>1. ASSUME NEW c \in Callers, StartCall(c) PROVE Next
  BY <1>1 DEF StartCall, Next
<1>2. ASSUME NEW c \in Callers, Ends(c), pc[c] = "publish" PROVE Next
  BY <1>2 DEF Ends, Next, CallerStep, PublishJob
<1>3. ASSUME NEW c \in Callers, NextPublisher(c) \/ PublishOnce(c) PROVE UNCHANGED vars
  BY <1>3 DEF NextPublisher, PublishOnce
<1>4. ASSUME NEW c \in Callers, WaitPublishConfirm(c) \/ PublishFails(c) \/ SleepWithContext(c)
      PROVE  [Next]_vars
  <2>1. step[c] # "none"
    BY <1>4 DEF WaitPublishConfirm, PublishFails, SleepWithContext
  <2>2. pc[c] = "publish"
    BY <2>1 DEF Control
  <2>3. Ends(c) \/ UNCHANGED vars
    BY <1>4 DEF WaitPublishConfirm, PublishFails, SleepWithContext
  <2> QED BY <1>2, <2>2, <2>3
<1>5. ASSUME NEW c \in Callers, Reconnect(c) PROVE [Next]_vars
  <2>1. pc[c] = "publish"
    BY <1>5 DEF Reconnect, Control
  <2>2. \/ Goto(c, "rebuild") /\ UNCHANGED <<managerVars, held, attempt>>
        \/ UNCHANGED vars
    BY <1>5 DEF Reconnect
  <2> QED BY <2>1, <2>2 DEF Next, CallerStep, PublishJob
<1>6. ASSUME NEW c \in Callers, ManagerStep(c) PROVE Next
  BY <1>6 DEF ManagerStep, Next, CallerStep
<1>7. CASE CloseManager \/ CloseSets
  BY <1>7 DEF CloseManager, CloseSets, Next
<1>8. CASE LoseConnection \/ LoseChannel \/ CancelContext
  BY <1>8 DEF LoseConnection, LoseChannel, CancelContext
<1>9. CASE UNCHANGED publisherVars
  BY <1>9 DEF publisherVars
<1>10. ASSUME NEW c \in Callers, CallStep(c) PROVE [Next]_vars
  BY Zenon, <1>3, <1>4, <1>5, <1>6, <1>10 DEF CallStep, PublishStep
<1> QED BY <1>1, <1>7, <1>8, <1>9, <1>10 DEF PublisherNext

\* Type correctness of the client state is kept.
LEMMA PublisherTypes ==
  ASSUME PublisherTypeOK, TypeOK, \A c \in Callers : Control(c), [PublisherNext]_publisherVars
  PROVE  PublisherTypeOK'
<1> USE DEF PublisherTypeOK
<1>0. /\ MaxTries \in Nat \ {0} /\ Clients \in Nat \ {0}
      /\ \A s \in {"none", "publish", "confirm", "failed", "reconnect", "sleep"} : s \in Steps
  BY ClientsAssumption DEF Steps
<1>1. ASSUME NEW c \in Callers, StartCall(c) PROVE PublisherTypeOK'
  BY <1>1 DEF StartCall, brokerVars
<1>2. ASSUME NEW c \in Callers, NextPublisher(c) PROVE PublisherTypeOK'
  <2>1. held[c] \in Gens /\ idx[held[c]] \in Indices
    BY DEF TypeOK
  <2>2. (idx[held[c]] + 1) % Clients \in Indices
    BY <1>0, <2>1 DEF Indices
  <2> QED BY <1>0, <1>2, <2>1, <2>2 DEF NextPublisher, Advance, brokerVars
<1>3. ASSUME NEW c \in Callers, PublishOnce(c) PROVE PublisherTypeOK'
  BY <1>0, <1>3 DEF PublishOnce, Advance, brokerVars
<1>4. ASSUME NEW c \in Callers, WaitPublishConfirm(c) PROVE PublisherTypeOK'
  <2>0. /\ \/ step' = [step EXCEPT ![c] = "none"] /\ tries' = [tries EXCEPT ![c] = 1]
           \/ step' = [step EXCEPT ![c] = "failed"] /\ tries' = tries
        /\ returned' = [returned EXCEPT ![c] = TRUE] \/ returned' = returned
    BY <1>4 DEF WaitPublishConfirm, Advance, Ends, Leave
  <2>1. step' \in [Callers -> Steps] /\ tries' \in [Callers -> 1 .. MaxTries]
    BY <1>0, <2>0
  <2>2. returned' \in [Callers -> BOOLEAN]
    BY <2>0, Zenon
  <2>3. copies' \in [Callers -> Nat] /\ faults' \in Nat
    BY <1>4 DEF WaitPublishConfirm, Fault
  <2> QED BY <1>4, <2>1, <2>2, <2>3 DEF WaitPublishConfirm, brokerVars
<1>5. ASSUME NEW c \in Callers, PublishFails(c) PROVE PublisherTypeOK'
  BY <1>0, <1>5 DEF PublishFails, Advance, Ends, Leave, brokerVars
<1>6. ASSUME NEW c \in Callers, Reconnect(c) PROVE PublisherTypeOK'
  <2>1. step' \in [Callers -> Steps] /\ tries' \in [Callers -> 1 .. MaxTries] /\ faults' \in Nat
    BY <1>0, <1>6 DEF Reconnect, Advance, Leave, Fault
  <2>2. broken' \subseteq Gens \X Indices
    BY <1>6 DEF Reconnect, ChannelOf, TypeOK
  <2> QED BY <1>6, <2>1, <2>2 DEF Reconnect
<1>7. ASSUME NEW c \in Callers, SleepWithContext(c) PROVE PublisherTypeOK'
  <2>1. tries[c] + 1 \in 1 .. MaxTries
    BY <1>0, <1>7 DEF SleepWithContext, Control
  <2>2. step' \in [Callers -> Steps] /\ tries' \in [Callers -> 1 .. MaxTries]
    BY <1>0, <1>7, <2>1 DEF SleepWithContext, Advance, Ends, Leave
  <2> QED BY <1>7, <2>2 DEF SleepWithContext, brokerVars
<1>8. ASSUME UNCHANGED clientVars PROVE PublisherTypeOK'
  BY <1>8 DEF clientVars, brokerVars, callVars
<1>9. CASE LoseConnection
  BY <1>9 DEF LoseConnection, Dialled, Fault, callVars
<1>10. CASE LoseChannel
  BY <1>10 DEF LoseChannel, Dialled, Fault, callVars
<1>11. CASE CancelContext
  BY <1>11 DEF CancelContext, Fault, callVars, brokerVars
<1>12. ASSUME NEW c \in Callers, ManagerStep(c) PROVE UNCHANGED clientVars
  BY <1>12 DEF ManagerStep
<1>13. CASE CloseManager \/ CloseSets \/ UNCHANGED publisherVars
  BY <1>8, <1>13 DEF CloseManager, CloseSets, publisherVars
<1> QED BY Zenon, <1>1, <1>2, <1>3, <1>4, <1>5, <1>6, <1>7, <1>8, <1>9, <1>10, <1>11, <1>12, <1>13
        DEF PublisherNext, CallStep, PublishStep

-----------------------------------------------------------------------------
\* The publisher sets.

\* A set and a number are matched by numbering the members of the set from 1 on.
Numbered(n, S) == n \in Nat /\ ExistsBijection(1 .. n, S)

\* A numbering, spelled out.
LEMMA Numbering ==
  ASSUME NEW n \in Nat, NEW S
  PROVE  ExistsBijection(1 .. n, S)
           <=> \E f \in [1 .. n -> S] : /\ \A i, k \in 1 .. n : f[i] = f[k] => i = k
                                        /\ \A x \in S : \E i \in 1 .. n : f[i] = x
BY DEF ExistsBijection, Bijection, Injection, Surjection, IsInjective

\* Nothing is numbered up to 0.
LEMMA NumberedEmpty == \A S : Numbered(0, S) <=> S = {}
<1> SUFFICES ASSUME NEW S PROVE Numbered(0, S) <=> S = {}
  OBVIOUS
<1>1. ASSUME Numbered(0, S) PROVE S = {}
  <2>1. 0 \in Nat /\ ExistsBijection(1 .. 0, S)
    BY <1>1 DEF Numbered
  <2>2. \A i : i \notin 1 .. 0
    OBVIOUS
  <2> QED
    BY <2>1, <2>2, Numbering
<1>2. ASSUME S = {} PROVE Numbered(0, S)
  <2> DEFINE f == [i \in 1 .. 0 |-> i]
  <2>1. f \in [1 .. 0 -> S]
    OBVIOUS
  <2>2. ExistsBijection(1 .. 0, S)
    BY Zenon, <1>2, <2>1, Numbering
  <2> QED
    BY <2>2 DEF Numbered
<1> QED
  BY <1>1, <1>2

\* A new member gets the next number.
LEMMA NumberedAdd ==
  ASSUME NEW n, NEW S, NEW x, Numbered(n, S), x \notin S
  PROVE  Numbered(n + 1, S \cup {x})
<1>1. n \in Nat /\ n + 1 \in Nat
  BY DEF Numbered
<1>2. PICK f \in [1 .. n -> S] : /\ \A i, k \in 1 .. n : f[i] = f[k] => i = k
                                 /\ \A y \in S : \E i \in 1 .. n : f[i] = y
  BY <1>1, Numbering DEF Numbered
<1> DEFINE T == S \cup {x}
           g == [i \in 1 .. (n + 1) |-> IF i = n + 1 THEN x ELSE f[i]]
<1>3. \A i \in 1 .. (n + 1) : i = n + 1 \/ i \in 1 .. n
  BY <1>1
<1>4. g \in [1 .. (n + 1) -> T]
  BY <1>2, <1>3
<1>5. \A i, k \in 1 .. (n + 1) : g[i] = g[k] => i = k
  BY <1>2, <1>3
<1>6. \A y \in T : \E i \in 1 .. (n + 1) : g[i] = y
  <2>1. g[n + 1] = x /\ n + 1 \in 1 .. (n + 1)
    BY <1>1
  <2>2. \A i \in 1 .. n : i \in 1 .. (n + 1) /\ g[i] = f[i]
    BY <1>1
  <2> QED
    BY Zenon, <1>2, <2>1, <2>2
<1> HIDE DEF g, T
<1>7. ExistsBijection(1 .. (n + 1), T)
  BY <1>1, <1>4, <1>5, <1>6, Numbering
<1> QED
  BY <1>1, <1>7 DEF Numbered, T

\* When a member goes, the one with the last number takes its number.
LEMMA NumberedRemove ==
  ASSUME NEW n, NEW S, NEW x \in S, Numbered(n, S)
  PROVE  Numbered(n - 1, S \ {x})
<1>1. n \in Nat
  BY DEF Numbered
<1>2. PICK f \in [1 .. n -> S] : /\ \A i, k \in 1 .. n : f[i] = f[k] => i = k
                                 /\ \A y \in S : \E i \in 1 .. n : f[i] = y
  BY <1>1, Numbering DEF Numbered
<1>3. PICK at \in 1 .. n : f[at] = x
  BY <1>2
<1>4. n - 1 \in Nat /\ n \in 1 .. n
  BY <1>1, <1>3
<1> DEFINE T == S \ {x}
           g == [i \in 1 .. (n - 1) |-> IF i = at THEN f[n] ELSE f[i]]
<1>5. \A i \in 1 .. (n - 1) : i \in 1 .. n /\ i # n
  BY <1>1
<1>6. \A i \in 1 .. n : i = n \/ i \in 1 .. (n - 1)
  BY <1>1
<1>7. g \in [1 .. (n - 1) -> T]
  BY <1>2, <1>3, <1>4, <1>5
<1>8. \A i, k \in 1 .. (n - 1) : g[i] = g[k] => i = k
  BY <1>2, <1>3, <1>4, <1>5
<1>9. \A y \in T : \E i \in 1 .. (n - 1) : g[i] = y
  <2> SUFFICES ASSUME NEW y \in T PROVE \E i \in 1 .. (n - 1) : g[i] = y
    OBVIOUS
  <2>1. PICK i \in 1 .. n : f[i] = y
    BY <1>2
  <2>2. i # at
    BY <1>3, <2>1
  <2>3. CASE i = n
    BY <1>3, <1>6, <2>1, <2>2, <2>3
  <2>4. CASE i # n
    BY <1>6, <2>1, <2>2, <2>4
  <2> QED
    BY <2>3, <2>4
<1> HIDE DEF g, T
<1>10. ExistsBijection(1 .. (n - 1), T)
  BY <1>4, <1>7, <1>8, <1>9, Numbering
<1> QED
  BY <1>4, <1>10 DEF Numbered, T

\* The holders of every set are unchanged by a step that neither lets a caller
\* start holding nor stop holding.
LEMMA HoldersUnchanged ==
  ASSUME NEW c \in Callers, TypeOK,
         NEW label \in PCs, held' = held, pc' = [pc EXCEPT ![c] = label],
         (pc[c] \in {"publish", "rebuild", "release"})
            <=> (label \in {"publish", "rebuild", "release"})
  PROVE  \A g : Holders(g)' = Holders(g)
BY DEF Holders, TypeOK

\* newPublisherManager establishes the inductive invariant.
LEMMA InitIInv == Init => IInv
<1> SUFFICES ASSUME Init PROVE IInv
  OBVIOUS
<1>1. TypeOK
  BY ConstantsAssumption DEF Init, TypeOK, PCs, Gens
<1>2. \A g \in Gens : Holders(g) = {}
  BY DEF Init, Holders
<1>3. RefsCountHolders
  BY <1>2, NumberedEmpty DEF Init, RefsCountHolders, Numbered
<1>4. SetLifecycle /\ RetiredSetsAreTracked
  BY DEF Init, SetLifecycle, RetiredSetsAreTracked
<1> QED BY <1>1, <1>3, <1>4 DEF IInv

\* Type correctness is inductive.
LEMMA NextTypeOK == TypeOK /\ [Next]_vars => TypeOK'
<1> SUFFICES ASSUME TypeOK, [Next]_vars PROVE TypeOK'
  OBVIOUS
<1> USE DEF TypeOK, PCs
<1>0. MaxPublishAttempts \in Nat \ {0} /\ MaxGen \in Nat
  BY ConstantsAssumption
<1>1. ASSUME NEW c \in Callers, EnqueueJob(c) PROVE TypeOK'
  BY <1>0, <1>1 DEF EnqueueJob, Goto, managerVars
<1>2. ASSUME NEW c \in Callers, AcquireCurrentSet(c) PROVE TypeOK'
  BY <1>0, <1>2 DEF AcquireCurrentSet, Goto
<1>3. ASSUME NEW c \in Callers, PublishJob(c) PROVE TypeOK'
  BY <1>0, <1>3 DEF PublishJob, Goto, LastAttempt, managerVars
<1>4. ASSUME NEW c \in Callers, RebuildIfCurrent(c) PROVE TypeOK'
  <2>1. held[c] \in Gens /\ (held[c] < MaxGen => held[c] + 1 \in Gens)
    BY <1>0 DEF Gens
  <2>2. pc' \in [Callers -> PCs] /\ attempt' \in [Callers -> 0 .. MaxPublishAttempts]
    BY <1>0, <1>4 DEF RebuildIfCurrent, Goto, LastAttempt
  <2>3. /\ current' \in Gens \cup {NoSet} /\ stale' \subseteq Gens
        /\ retired' \in [Gens -> BOOLEAN]
    BY Zenon, <1>4, <2>1 DEF RebuildIfCurrent, AdoptNewSet
  <2> QED BY <1>4, <2>2, <2>3 DEF RebuildIfCurrent
<1>5. ASSUME NEW c \in Callers, ReleaseSet(c) PROVE TypeOK'
  BY <1>0, <1>5 DEF ReleaseSet, NextAttempt, Goto
<1>6. ASSUME NEW c \in Callers, ReleaseLoadRetired(c) PROVE TypeOK'
  BY <1>0, <1>6 DEF ReleaseLoadRetired, NextAttempt, Goto, managerVars
<1>7. ASSUME NEW c \in Callers, ReleaseUnderLock(c) PROVE TypeOK'
  BY <1>0, <1>7 DEF ReleaseUnderLock, NextAttempt, Goto
<1>8. CASE Close
  BY <1>8 DEF Close, callerVars, NoSet
<1>9. CASE CloseCollected
  BY <1>9 DEF CloseCollected, callerVars
<1>10. CASE UNCHANGED vars
  BY <1>10 DEF vars, managerVars, callerVars
<1> QED BY Zenon, <1>1, <1>2, <1>3, <1>4, <1>5, <1>6, <1>7, <1>8, <1>9, <1>10
        DEF Next, CallerStep

\* One step preserves the inductive invariant.
LEMMA NextIInv == IInv /\ [Next]_vars => IInv'
<1> SUFFICES ASSUME IInv, [Next]_vars PROVE IInv'
  OBVIOUS
<1> USE DEF IInv
<1>0. TypeOK'
  BY NextTypeOK
\* Steps that leave the counters and the holders alone.
<1>a. ASSUME \A g : Holders(g)' = Holders(g), UNCHANGED refs
      PROVE  RefsCountHolders'
  BY <1>a DEF RefsCountHolders
<1>b. ASSUME \A g : Holders(g)' = Holders(g), UNCHANGED <<current, retired, closed, doomed>>
      PROVE  SetLifecycle'
  BY <1>b DEF SetLifecycle
<1>c. ASSUME UNCHANGED <<retired, stale, closed, doomed>>
      PROVE  RetiredSetsAreTracked'
  BY <1>c DEF RetiredSetsAreTracked
<1>1. ASSUME NEW c \in Callers, EnqueueJob(c) PROVE IInv'
  <2>1. \A g : Holders(g)' = Holders(g)
    BY Zenon, <1>1, HoldersUnchanged DEF EnqueueJob, Goto, PCs
  <2> QED BY <1>0, <1>1, <1>a, <1>b, <1>c, <2>1 DEF EnqueueJob, managerVars
<1>2. ASSUME NEW c \in Callers, AcquireCurrentSet(c) PROVE IInv'
  <2>1. CASE current = NoSet
    <3>1. \A g : Holders(g)' = Holders(g)
      BY <1>2, <2>1, HoldersUnchanged DEF AcquireCurrentSet, Goto, PCs
    <3> QED BY <1>0, <1>2, <1>a, <1>b, <1>c, <2>1, <3>1 DEF AcquireCurrentSet
  <2>2. CASE current # NoSet
    <3>1. /\ held' = [held EXCEPT ![c] = current]
          /\ pc' = [pc EXCEPT ![c] = "publish"] /\ pc[c] = "acquire"
          /\ refs' = [refs EXCEPT ![current] = @ + 1]
          /\ UNCHANGED <<current, stale, retired, closed, doomed>>
      BY <1>2, <2>2 DEF AcquireCurrentSet, Goto
    <3>2. /\ Holders(current)' = Holders(current) \cup {c}
          /\ c \notin Holders(current)
          /\ \A g \in Gens \ {current} : Holders(g)' = Holders(g)
      BY <3>1 DEF Holders, TypeOK
    <3>a. current \in Gens
      BY <2>2 DEF TypeOK
    <3>3. Numbered(refs[current] + 1, Holders(current) \cup {c})
      BY Zenon, <3>2, <3>a, NumberedAdd DEF RefsCountHolders, Numbered
    <3>b. refs'[current] = refs[current] + 1 /\ \A g \in Gens \ {current} : refs'[g] = refs[g]
      BY <3>1, <3>a DEF TypeOK
    <3>4. RefsCountHolders'
      BY Zenon, <3>1, <3>2, <3>3, <3>a, <3>b DEF RefsCountHolders, Numbered
    <3>5. SetLifecycle'
      BY <2>2, <3>1, <3>2 DEF SetLifecycle, TypeOK, Gens
    <3> QED BY <1>0, <1>c, <3>1, <3>4, <3>5
  <2> QED BY <2>1, <2>2
<1>3. ASSUME NEW c \in Callers, PublishJob(c) PROVE IInv'
  <2>1. \A g : Holders(g)' = Holders(g)
    BY <1>3, HoldersUnchanged DEF PublishJob, Goto, PCs
  <2> QED BY <1>0, <1>3, <1>a, <1>b, <1>c, <2>1 DEF PublishJob, managerVars
<1>4. ASSUME NEW c \in Callers, RebuildIfCurrent(c) PROVE IInv'
  <2>1. \A g : Holders(g)' = Holders(g)
    BY Zenon, <1>4, HoldersUnchanged DEF RebuildIfCurrent, Goto, PCs
  <2>2. RefsCountHolders'
    BY Zenon, <1>4, <1>a, <2>1 DEF RebuildIfCurrent
  <2>3. SetLifecycle'
    <3>1. CASE UNCHANGED <<current, stale, retired>>
      BY Zenon, <1>4, <1>b, <2>1, <3>1 DEF RebuildIfCurrent
    <3>2. CASE current = held[c] /\ AdoptNewSet(held[c])
      <4>1. current \in Gens /\ current # NoSet /\ current' = current + 1
        BY <3>2, ConstantsAssumption DEF AdoptNewSet, TypeOK, Gens, NoSet
      <4>2. \A g \in Gens : g # current => retired'[g] = retired[g]
        BY <3>2 DEF AdoptNewSet, TypeOK
      <4>3. retired'[current]
        BY <3>2, <4>1 DEF AdoptNewSet, TypeOK
      <4>4. \A g \in Gens : g >= current + 1 => g >= current /\ g # current
        BY <4>1, ConstantsAssumption DEF Gens
      <4>5. \A g \in Gens : g >= current' => ~retired'[g]
        BY <4>1, <4>2, <4>4 DEF SetLifecycle
      <4>6. \A g \in closed \cup doomed : retired'[g] /\ Holders(g) = {}
        BY <4>2, <4>3 DEF SetLifecycle, TypeOK
      <4> QED BY Zenon, <1>4, <2>1, <4>5, <4>6 DEF RebuildIfCurrent, SetLifecycle
    <3> QED BY <1>4, <3>1, <3>2 DEF RebuildIfCurrent
  <2>4. RetiredSetsAreTracked'
    BY <1>4 DEF RebuildIfCurrent, AdoptNewSet, RetiredSetsAreTracked, TypeOK
  <2> QED BY <1>0, <2>2, <2>3, <2>4
<1>5. ASSUME NEW c \in Callers, ReleaseSet(c) PROVE IInv'
  <2>1. PICK h \in Gens :
        /\ h = held[c] /\ c \in Holders(h) /\ UNCHANGED <<held, current, stale, retired, closed, doomed>>
        /\ refs' = [refs EXCEPT ![h] = @ - 1]
        /\ \E label \in {"load", "acquire", "idle"} : pc' = [pc EXCEPT ![c] = label]
    BY Zenon, <1>5 DEF ReleaseSet, NextAttempt, Goto, Holders, TypeOK
  <2>2. /\ Holders(h)' = Holders(h) \ {c}
        /\ \A g \in Gens \ {h} : Holders(g)' = Holders(g)
    BY <2>1 DEF Holders, TypeOK
  <2>3. Numbered(refs[h] - 1, Holders(h) \ {c})
    BY Zenon, <2>1, NumberedRemove DEF RefsCountHolders, Numbered
  <2>a. refs'[h] = refs[h] - 1 /\ \A g \in Gens \ {h} : refs'[g] = refs[g]
    BY <2>1 DEF TypeOK
  <2>4. RefsCountHolders'
    BY Zenon, <2>1, <2>2, <2>3, <2>a DEF RefsCountHolders, Numbered
  <2>5. SetLifecycle'
    BY <2>1, <2>2 DEF SetLifecycle, TypeOK
  <2> QED BY <1>0, <1>c, <2>1, <2>4, <2>5
<1>6. ASSUME NEW c \in Callers, ReleaseLoadRetired(c) PROVE IInv'
  <2>1. \E label \in {"lock", "acquire", "idle"} : pc' = [pc EXCEPT ![c] = label]
    BY <1>6 DEF ReleaseLoadRetired, NextAttempt, Goto
  <2>2. \A g : Holders(g)' = Holders(g)
    BY Zenon, <1>6, <2>1, HoldersUnchanged DEF ReleaseLoadRetired, PCs
  <2> QED BY Zenon, <1>0, <1>6, <1>a, <1>b, <1>c, <2>2 DEF ReleaseLoadRetired, managerVars
<1>7. ASSUME NEW c \in Callers, ReleaseUnderLock(c) PROVE IInv'
  <2>1. \E label \in {"acquire", "idle"} : pc' = [pc EXCEPT ![c] = label]
    BY <1>7 DEF ReleaseUnderLock, NextAttempt, Goto
  <2>2. \A g : Holders(g)' = Holders(g)
    BY Zenon, <1>7, <2>1, HoldersUnchanged DEF ReleaseUnderLock, PCs
  <2>3. RefsCountHolders'
    BY <1>7, <1>a, <2>2 DEF ReleaseUnderLock
  <2>4. refs[held[c]] = 0 => Holders(held[c]) = {}
    BY NumberedEmpty DEF RefsCountHolders, Numbered, TypeOK
  <2>5. SetLifecycle'
    BY <1>7, <2>2, <2>4 DEF ReleaseUnderLock, SetLifecycle
  <2>6. RetiredSetsAreTracked'
    BY <1>7 DEF ReleaseUnderLock, RetiredSetsAreTracked, TypeOK
  <2> QED BY <1>0, <2>3, <2>5, <2>6
<1>8. CASE Close
  <2>1. \A g : Holders(g)' = Holders(g)
    BY <1>8 DEF Close, callerVars, Holders
  <2>2. RefsCountHolders'
    BY <1>8, <1>a, <2>1 DEF Close
  <2>3. \A g \in Gens : refs[g] = 0 => Holders(g) = {}
    BY NumberedEmpty DEF RefsCountHolders, Numbered
  <2>4. \A g \in stale : retired[g]
    BY DEF RetiredSetsAreTracked, TypeOK
  <2>5. SetLifecycle'
    <3>1. current' = NoSet /\ closed' = closed
      BY <1>8 DEF Close
    <3>2. \A g \in doomed' : g \in doomed \/ (g \in stale \cup {current} /\ refs[g] = 0 /\ g \in Gens)
      BY <1>8 DEF Close, TypeOK
    <3>3. \A g \in Gens : g \in stale \cup {current} \/ retired[g] => retired'[g]
      BY Zenon, <1>8, <2>4 DEF Close
    <3>4. \A g \in closed' \cup doomed' : retired'[g] /\ Holders(g) = {}
      BY <2>3, <3>1, <3>2, <3>3 DEF SetLifecycle, TypeOK
    <3> QED BY <2>1, <3>1, <3>4 DEF SetLifecycle
  <2>6. RetiredSetsAreTracked'
    <3>1. \A g \in Gens : g \in stale' \cup doomed' \cup closed'
                            <=> g \in stale \cup doomed \cup closed \/ g = current
      BY <1>8 DEF Close, TypeOK, NoSet, Gens
    <3>2. \A g \in Gens : retired'[g] <=> retired[g] \/ g = current
      BY Zenon, <1>8 DEF Close
    <3> QED BY <3>1, <3>2 DEF RetiredSetsAreTracked
  <2> QED BY <1>0, <2>2, <2>5, <2>6
<1>9. CASE CloseCollected
  <2>1. \A g : Holders(g)' = Holders(g)
    BY <1>9 DEF CloseCollected, callerVars, Holders
  <2> QED BY <1>0, <1>9, <1>a, <2>1 DEF CloseCollected, SetLifecycle, RetiredSetsAreTracked
<1>10. CASE UNCHANGED vars
  <2>1. \A g : Holders(g)' = Holders(g)
    BY <1>10 DEF vars, callerVars, Holders
  <2> QED BY <1>0, <1>10, <1>a, <1>b, <1>c, <2>1 DEF vars, managerVars
<1> QED BY <1>1, <1>2, <1>3, <1>4, <1>5, <1>6, <1>7, <1>8, <1>9, <1>10
        DEF Next, CallerStep

\* Type correctness of the publisher manager.
THEOREM TypeCorrect == Spec => []TypeOK
<1>1. Init => TypeOK
  BY InitIInv DEF IInv
<1> QED BY <1>1, NextTypeOK, PTL DEF Spec

\* For any number of goroutines, a closed publisher set has no user: neither
\* releaseSet nor Close() ever closes a connection under a running publish.
THEOREM ClosedSetsAreUnused == Spec => []NoUseAfterClose
<1>1. IInv => NoUseAfterClose
  BY DEF IInv, SetLifecycle, NoUseAfterClose
<1> QED BY <1>1, InitIInv, NextIInv, PTL DEF Spec

\* For any number of goroutines, refs is exact and no retired set is lost.
THEOREM ReferencesAreExact == Spec => [](RefsCountHolders /\ RetiredSetsAreTracked)
<1>1. IInv => RefsCountHolders /\ RetiredSetsAreTracked
  BY DEF IInv
<1> QED BY <1>1, InitIInv, NextIInv, PTL DEF Spec

\* rebuildIfCurrent and Close() only ever move the generation forward.
THEOREM GenerationsAdvance == Spec => CurrentOnlyAdvances
<1>1. TypeOK /\ [Next]_vars =>
        [current' # current => current # NoSet /\ (current' = NoSet \/ current' > current)]_vars
  <2> SUFFICES ASSUME TypeOK, Next, current' # current
               PROVE  current # NoSet /\ (current' = NoSet \/ current' > current)
    OBVIOUS
  <2>1. ASSUME NEW c \in Callers, RebuildIfCurrent(c)
        PROVE  current # NoSet /\ (current' = NoSet \/ current' > current)
    <3>1. current = held[c] /\ current' = held[c] + 1
      BY Zenon, <2>1 DEF RebuildIfCurrent, AdoptNewSet
    <3>2. held[c] \in Gens
      BY DEF TypeOK
    <3> QED BY <3>1, <3>2 DEF NoSet, Gens
  <2>2. CASE Close
    BY Zenon, <2>2 DEF Close
  <2>3. ASSUME NEW c \in Callers, EnqueueJob(c) \/ AcquireCurrentSet(c) \/ PublishJob(c)
        PROVE  FALSE
    BY Zenon, <2>3 DEF EnqueueJob, AcquireCurrentSet, PublishJob, managerVars
  <2>4. ASSUME NEW c \in Callers, ReleaseSet(c) \/ ReleaseLoadRetired(c) \/ ReleaseUnderLock(c)
        PROVE  FALSE
    BY Zenon, <2>4 DEF ReleaseSet, ReleaseLoadRetired, ReleaseUnderLock, managerVars
  <2>5. ~CloseCollected
    BY Zenon DEF CloseCollected
  <2> QED BY Zenon, <2>1, <2>2, <2>3, <2>4, <2>5 DEF Next, CallerStep
<1> QED BY <1>1, TypeCorrect, PTL DEF Spec, CurrentOnlyAdvances

-----------------------------------------------------------------------------
\* The publish loop as a whole.

\* A new publisher manager, and calls that have not begun.
LEMMA PublisherInitial == PublisherInit => PInv
<1> SUFFICES ASSUME PublisherInit PROVE PInv
  OBVIOUS
<1>1. IInv
  BY InitIInv DEF PublisherInit
<1>2. PublisherTypeOK
  BY ClientsAssumption DEF PublisherInit, PublisherTypeOK, Indices, Steps
<1>3. ASSUME NEW c \in Callers PROVE CallInv(c)
  <2>1. /\ step[c] = "none" /\ pc[c] = "idle" /\ tries[c] = 1 /\ copies[c] = 0 /\ faults = 0
    BY DEF PublisherInit, Init
  <2>2. Rounds(MaxPublishAttempts) \in Nat /\ MaxTries \in Nat
    BY RoundsGrow, ClientsAssumption, ConstantsAssumption
  <2>3. Control(c)
    BY <2>1, <2>2 DEF CallInv, Control
  <2>4. CopiesSoFar(c)
    BY <2>1, <2>2 DEF CallInv, Control, CopiesSoFar
  <2>5. CopiesCharged(c)
    BY <2>1, <2>2 DEF CallInv, Control, CopiesCharged
  <2>6. RebuildsLost(c)
    BY <2>1, <2>2 DEF CallInv, Control, RebuildsLost
  <2> QED BY <2>3, <2>4, <2>5, <2>6 DEF CallInv
<1>4. NilMeansTaken
  BY DEF PublisherInit, NilMeansTaken
<1> QED BY <1>1, <1>2, <1>3, <1>4 DEF PInv

\* One step preserves the inductive invariant.
LEMMA PublisherInductive == PInv /\ [PublisherNext]_publisherVars => PInv'
<1> SUFFICES ASSUME PInv, [PublisherNext]_publisherVars PROVE PInv'
  OBVIOUS
<1>0. /\ IInv /\ PublisherTypeOK /\ NilMeansTaken /\ TypeOK
      /\ \A c \in Callers : CallInv(c) /\ Control(c)
  BY DEF PInv, IInv, CallInv
<1>1. IInv'
  BY <1>0, PublisherStepsRefine, NextIInv
<1>2. PublisherTypeOK'
  BY <1>0, PublisherTypes
<1>3. ASSUME NEW d \in Callers PROVE CallInv(d)'
  <2>1. ASSUME NEW c \in Callers, StartCall(c) \/ CallStep(c) PROVE CallInv(d)'
    <3>1. CASE d # c
      BY <1>0, <2>1, <3>1, OthersKeep
    <3>2. CASE d = c
      BY Zenon, <1>0, <2>1, <3>2, StartKeeps, SendingKeeps, ConfirmKeeps, RetryKeeps,
         ReconnectKeeps, ManagerKeeps
         DEF CallStep, PublishStep
    <3> QED BY <3>1, <3>2
  <2>2. CASE CloseManager \/ CloseSets \/ UNCHANGED publisherVars
    <3>1. UNCHANGED <<callerVars, clientVars>>
      BY <2>2 DEF CloseManager, CloseSets, Close, CloseCollected, publisherVars, vars
    <3> QED BY <1>0, <3>1, CallFrame DEF callerVars, clientVars, brokerVars, callVars
  <2>3. CASE LoseConnection \/ LoseChannel \/ CancelContext
    BY <1>0, <2>3, CallFrame
       DEF LoseConnection, LoseChannel, CancelContext, Fault, vars, callerVars, callVars, brokerVars
  <2> QED BY <2>1, <2>2, <2>3 DEF PublisherNext
<1>4. NilMeansTaken'
  <2>1. ASSUME NEW c \in Callers, StartCall(c) PROVE NilMeansTaken'
    BY <1>0, <2>1 DEF StartCall, NilMeansTaken, PublisherTypeOK
  <2>2. ASSUME NEW c \in Callers, WaitPublishConfirm(c) PROVE NilMeansTaken'
    <3>1. /\ \A d \in Callers : copies'[d] >= copies[d]
          /\ returned' = returned \/ (copies'[c] > 0 /\ returned' = [returned EXCEPT ![c] = TRUE])
      BY <1>0, <2>2 DEF WaitPublishConfirm, PublisherTypeOK
    <3> QED BY <1>0, <1>2, <3>1 DEF NilMeansTaken, PublisherTypeOK
  <2>3. ASSUME UNCHANGED <<copies, returned>> PROVE NilMeansTaken'
    BY <1>0, <2>3 DEF NilMeansTaken
  <2>4. ASSUME NEW c \in Callers, CallStep(c), ~WaitPublishConfirm(c)
        PROVE  UNCHANGED <<copies, returned>>
    BY <2>4, OnlyConfirmCounts
  <2>5. CASE CloseManager \/ CloseSets \/ UNCHANGED publisherVars
    BY <2>3, <2>5 DEF CloseManager, CloseSets, clientVars, callVars, publisherVars
  <2>6. CASE LoseConnection \/ LoseChannel \/ CancelContext
    BY <2>3, <2>6 DEF LoseConnection, LoseChannel, CancelContext, callVars
  <2> QED BY <2>1, <2>2, <2>3, <2>4, <2>5, <2>6 DEF PublisherNext
<1> QED BY <1>0, <1>1, <1>2, <1>3, <1>4 DEF PInv

\* The inductive invariant holds in every state of the publish loop.
LEMMA PublisherInvariance == PublisherSpec => []PInv
BY PublisherInitial, PublisherInductive, PTL DEF PublisherSpec

\* The publish loop with its clients, reconnects and retries does to the publisher
\* sets only what PublisherManager says.
THEOREM PublishLoopImplementsManager == PublisherSpec => ImplementsManager
<1>1. PInv /\ [PublisherNext]_publisherVars => [Next]_vars
  BY PublisherStepsRefine DEF PInv, CallInv
<1>2. PublisherInit => Init
  BY DEF PublisherInit
<1> QED BY <1>1, <1>2, PublisherInvariance, PTL DEF PublisherSpec, ImplementsManager

\* Whatever connections, channels and contexts end under it, a publish never uses a
\* set that releaseSet or Close() has closed.
THEOREM PublishesOnOpenSets == PublisherSpec => [](PublisherTypeOK /\ NoUseAfterClose)
<1>1. PInv => PublisherTypeOK /\ NoUseAfterClose
  BY DEF PInv, IInv, SetLifecycle, NoUseAfterClose
<1> QED BY <1>1, PublisherInvariance, PTL

\* enqueueJob returns nil only for a message that the broker has taken.
THEOREM NilIsConfirmed == PublisherSpec => []NilMeansTaken
<1>1. PInv => NilMeansTaken
  BY DEF PInv
<1> QED BY <1>1, PublisherInvariance, PTL

\* The two nested retry loops send no more than MaxTries - 1 copies for each attempt
\* before the last and MaxTries in the last.
THEOREM RetriesAreBounded == PublisherSpec => []CopiesAreBounded
<1>1. PInv => CopiesAreBounded
  BY DEF PInv, CallInv, CopiesSoFar, CopiesAreBounded, Rounds
<1> QED BY <1>1, PublisherInvariance, PTL

\* Every copy of a message but one is the price of a fault, however many goroutines
\* share a client and however often the loops go round.
THEOREM DuplicatesNeedFaults == PublisherSpec => []CopiesNeedFaults
<1>1. PInv => CopiesNeedFaults
  BY Zenon DEF PInv, CallInv, CopiesCharged, CopiesNeedFaults
<1> QED BY <1>1, PublisherInvariance, PTL

\* A publisher set is replaced only when its own connection is lost.
THEOREM HealthySetsStay == PublisherSpec => OnlyLostSetsAreReplaced
<1>1. PInv /\ [PublisherNext]_publisherVars
        => [current' # current /\ current' # NoSet => current \in lost]_publisherVars
  <2> SUFFICES ASSUME PInv, PublisherNext, current' # current, current' # NoSet
               PROVE  current \in lost
    OBVIOUS
  <2>1. ASSUME NEW c \in Callers, RebuildIfCurrent(c) PROVE current \in lost
    BY <2>1 DEF RebuildIfCurrent, PInv, CallInv, RebuildsLost
  <2> QED BY <2>1, OnlyRebuildsReplace
<1> QED BY <1>1, PublisherInvariance, PTL DEF PublisherSpec, OnlyLostSetsAreReplaced
====
