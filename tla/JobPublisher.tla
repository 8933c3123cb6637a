---------------------------- MODULE JobPublisher ----------------------------
(***************************************************************************)
(* A publish as enqueueJob makes it: the publisher sets of PublisherManager*)
(* with the RabbitMQ clients inside them (RabbitClient.Publish and what it *)
(* calls in internal/mq/rabbitmq_cli.go).  Each client has a channel of its*)
(* own on the connection of the set.  publishOnce keeps c.mu while it waits*)
(* for the confirm of the broker, so a client publishes one message at a   *)
(* time and nobody reopens the channel under it.                           *)
(*                                                                         *)
(* The variables of PublisherManager change as they do there, its step     *)
(* PublishJob being the end of the steps of this module.                   *)
(***************************************************************************)
EXTENDS PublisherManager

CONSTANTS
  Clients,      \* how many clients a set has (PUBLISHER_CONCURRENCY)
  MaxTries,     \* maxPublishAttempts of rabbitmq_cli.go
  MaxFaults     \* bound: MaxFaults[kind] is the number of faults, of all kinds, up to
                \* which one of this kind happens

ASSUME ClientsAssumption ==
  Clients \in Nat \ {0} /\ MaxTries \in Nat \ {0}

Indices == 0 .. Clients - 1

VARIABLES
  lost,      \* generations whose connection went away by itself
  broken,    \* <<generation, client>>: channels that no longer work
  idx,       \* idx[g]: the client that nextPublisher returns next
  step,      \* step[c]: where caller c is in Publish
  client,    \* client[c]: the client it uses
  tries,     \* tries[c]: the loop counter of Publish
  gone,      \* callers whose context is cancelled
  copies,    \* history: how often the broker took the message of this call
  returned,  \* history: enqueueJob is about to return nil, or did
  faults     \* faults so far

brokerVars == <<lost, broken>>
callVars == <<step, client, tries, copies, returned>>
clientVars == <<brokerVars, idx, callVars, gone, faults>>
publisherVars == <<vars, clientVars>>

Steps == {"none", "publish", "confirm", "failed", "reconnect", "sleep"}

PublisherTypeOK ==
  /\ lost \subseteq Gens
  /\ broken \subseteq Gens \X Indices
  /\ idx \in [Gens -> Indices]
  /\ step \in [Callers -> Steps]
  /\ client \in [Callers -> Indices]
  /\ tries \in [Callers -> 1 .. MaxTries]
  /\ gone \subseteq Callers
  /\ copies \in [Callers -> Nat]
  /\ returned \in [Callers -> BOOLEAN]
  /\ faults \in Nat

PublisherInit ==
  /\ Init
  /\ lost = {} /\ broken = {} /\ idx = [g \in Gens |-> 0]
  /\ step = [c \in Callers |-> "none"]
  /\ client = [c \in Callers |-> 0]
  /\ tries = [c \in Callers |-> 1]
  /\ gone = {}
  /\ copies = [c \in Callers |-> 0]
  /\ returned = [c \in Callers |-> FALSE]
  /\ faults = 0

-----------------------------------------------------------------------------
ChannelOf(c) == <<held[c], client[c]>>
ConnectionClosed(g) == g \in lost \cup closed
ChannelWorks(c) == ~ConnectionClosed(held[c]) /\ ChannelOf(c) \notin broken

\* Mutant: publishOnce returns an error without the unlock.
LockedAfterError(c) ==
  \E d \in Callers : step[d] \in {"confirm", "failed", "reconnect"} /\ ChannelOf(d) = ChannelOf(c)

\* c.mu of the client is held by a publish that waits for its confirm; the other
\* sections under c.mu are one step.
Locked(c) == \E d \in Callers : step[d] = "confirm" /\ ChannelOf(d) = ChannelOf(c)

Advance(c, s) == step' = [step EXCEPT ![c] = s]
\* Publish returns, and its loop counter with it.
Leave(c) == Advance(c, "none") /\ tries' = [tries EXCEPT ![c] = 1]
Fault(kind) == kind \in DOMAIN MaxFaults /\ faults < MaxFaults[kind] /\ faults' = faults + 1

\* A call of enqueueJob begins with a context of its own.
StartCall(c) ==
  /\ EnqueueJob(c)
  /\ copies' = [copies EXCEPT ![c] = 0]
  /\ returned' = [returned EXCEPT ![c] = FALSE]
  /\ gone' = gone \ {c}
  /\ UNCHANGED <<brokerVars, idx, step, client, tries, faults>>

\* nextPublisher and the first round of Publish.
NextPublisher(c) ==
  LET g == held[c]
  IN /\ pc[c] = "publish" /\ step[c] = "none"
     /\ client' = [client EXCEPT ![c] = idx[g]]
     /\ idx' = [idx EXCEPT ![g] = (@ + 1) % Clients]
     /\ Advance(c, "publish")
     /\ UNCHANGED <<vars, brokerVars, tries, copies, returned, gone, faults>>

\* publishOnce up to the confirm: QueueDeclare and the publish fail on a channel
\* that does not work.
PublishOnce(c) ==
  /\ step[c] = "publish" /\ ~Locked(c)
  /\ Advance(c, IF ChannelWorks(c) THEN "confirm" ELSE "failed")
  /\ UNCHANGED <<vars, brokerVars, idx, client, tries, copies, returned, gone, faults>>

\* Mutant: a return without releaseSet.
EndsWithoutRelease(c) ==
  /\ Goto(c, "idle") /\ LastAttempt(c)
  /\ Leave(c)
  /\ UNCHANGED <<managerVars, held>>

\* PublishJob returns nil, or an error that enqueueJob returns.
Ends(c) ==
  /\ Goto(c, "release") /\ LastAttempt(c)
  /\ Leave(c)
  /\ UNCHANGED <<managerVars, held>>

\* Mutant: the answer to the publish is not looked at.
WaitPublishConfirmUnchecked(c) ==
  /\ step[c] = "confirm"
  /\ copies' \in {copies, [copies EXCEPT ![c] = @ + 1]}
  /\ returned' = [returned EXCEPT ![c] = TRUE]
  /\ Ends(c)
  /\ UNCHANGED <<brokerVars, idx, client, gone, faults>>

\* Mutant: the wait has a limit of its own, after which the message is sent again.
WaitPublishConfirmImpatient(c) ==
  /\ step[c] = "confirm"
  /\ copies' = [copies EXCEPT ![c] = @ + 1]
  /\ \/ returned' = [returned EXCEPT ![c] = TRUE] /\ Ends(c)
     \/ Advance(c, "failed") /\ UNCHANGED <<vars, tries, returned>>
  /\ UNCHANGED <<brokerVars, idx, client, gone, faults>>

\* waitPublishConfirm.  The broker takes the message and confirms it, or refuses
\* it; when the channel or the context ends first, it may have taken it.
WaitPublishConfirm(c) ==
  LET Taken == copies' = [copies EXCEPT ![c] = @ + 1]
  IN /\ step[c] = "confirm"
     /\ \/ /\ ChannelWorks(c) /\ Taken
           /\ returned' = [returned EXCEPT ![c] = TRUE]
           /\ Ends(c)
           /\ UNCHANGED faults
        \/ /\ \/ ChannelWorks(c) /\ Fault("nack") /\ UNCHANGED copies
              \/ (~ChannelWorks(c) \/ c \in gone) /\ (Taken \/ UNCHANGED copies) /\ UNCHANGED faults
           /\ Advance(c, "failed")
           /\ UNCHANGED <<vars, tries, returned>>
     /\ UNCHANGED <<brokerVars, idx, client, gone>>

\* Mutant: one round too many.
PublishFailsLate(c) ==
  /\ step[c] = "failed"
  /\ \/ tries[c] > MaxTries /\ Ends(c)
     \/ tries[c] <= MaxTries /\ Advance(c, "reconnect") /\ UNCHANGED <<vars, tries>>
  /\ UNCHANGED <<brokerVars, idx, client, copies, returned, gone, faults>>

\* The last round of Publish ends with its error, whatever the error is.
PublishFails(c) ==
  /\ step[c] = "failed"
  /\ \/ tries[c] = MaxTries /\ Ends(c)
     \/ tries[c] < MaxTries /\ Advance(c, "reconnect") /\ UNCHANGED <<vars, tries>>
  /\ UNCHANGED <<brokerVars, idx, client, copies, returned, gone, faults>>

\* Mutant: any error of a round counts as a closed connection.
ReconnectGivesUp(c) ==
  /\ step[c] = "reconnect" /\ ~Locked(c)
  /\ Goto(c, "rebuild") /\ Leave(c)
  /\ UNCHANGED <<managerVars, held, attempt, brokerVars, idx, client, copies, returned, gone,
                 faults>>

\* reconnect: ErrConnectionClosed ends Publish; on an open connection the channel
\* is closed and opened again, which may fail.
Reconnect(c) ==
  /\ step[c] = "reconnect" /\ ~Locked(c)
  /\ \/ /\ ConnectionClosed(held[c])
        /\ Goto(c, "rebuild") /\ Leave(c)
        /\ UNCHANGED <<managerVars, held, attempt, broken, faults>>
     \/ /\ ~ConnectionClosed(held[c])
        /\ \/ broken' = broken \ {ChannelOf(c)} /\ UNCHANGED faults
           \/ broken' = broken \cup {ChannelOf(c)} /\ Fault("reopen")
        /\ Advance(c, "sleep")
        /\ UNCHANGED <<vars, tries>>
  /\ UNCHANGED <<lost, idx, client, copies, returned, gone>>

\* sleepWithContext, and the next round.
SleepWithContext(c) ==
  /\ step[c] = "sleep"
  /\ \/ c \in gone /\ Ends(c)
     \/ /\ c \notin gone
        /\ Advance(c, "publish") /\ tries' = [tries EXCEPT ![c] = @ + 1]
        /\ UNCHANGED vars
  /\ UNCHANGED <<brokerVars, idx, client, copies, returned, gone, faults>>

\* Publish, and enqueueJob around it.
PublishStep(c) ==
  \/ NextPublisher(c) \/ PublishOnce(c) \/ WaitPublishConfirm(c) \/ PublishFails(c)
  \/ Reconnect(c) \/ SleepWithContext(c)
ManagerStep(c) ==
  /\ \/ AcquireCurrentSet(c) \/ RebuildIfCurrent(c) \/ ReleaseSet(c) \/ ReleaseLoadRetired(c)
     \/ ReleaseUnderLock(c)
  /\ UNCHANGED clientVars
CallStep(c) == PublishStep(c) \/ ManagerStep(c)

\* Close() of the manager, with the sets it collected.
CloseManager == Close /\ UNCHANGED clientVars
CloseSets == CloseCollected /\ UNCHANGED clientVars

-----------------------------------------------------------------------------
\* Faults: a connection or a channel goes away, a context is cancelled.

Dialled == {g \in Gens : g <= current \/ retired[g]} \ closed

LoseConnection ==
  /\ \E g \in Dialled \ lost : lost' = lost \cup {g}
  /\ Fault("connection")
  /\ UNCHANGED <<vars, broken, idx, callVars, gone>>

LoseChannel ==
  /\ \E ch \in (Dialled \X Indices) \ broken : broken' = broken \cup {ch}
  /\ Fault("channel")
  /\ UNCHANGED <<vars, lost, idx, callVars, gone>>

CancelContext ==
  /\ \E c \in Callers : c \notin gone /\ pc[c] # "idle" /\ gone' = gone \cup {c}
  /\ Fault("context")
  /\ UNCHANGED <<vars, brokerVars, idx, callVars>>

PublisherNext ==
  \/ \E c \in Callers : StartCall(c) \/ CallStep(c)
  \/ CloseManager \/ CloseSets
  \/ LoseConnection \/ LoseChannel \/ CancelContext

\* A goroutine in enqueueJob keeps running, the broker answers, and sync.Mutex hands
\* c.mu to a goroutine that has waited for long: strong fairness.
PublisherFairness ==
  /\ \A c \in Callers : SF_publisherVars(CallStep(c))
  /\ WF_publisherVars(CloseSets)

PublisherSpec == PublisherInit /\ [][PublisherNext]_publisherVars /\ PublisherFairness

-----------------------------------------------------------------------------
\* Properties.

\* When enqueueJob returns nil, a broker that confirmed has taken the message.
NilMeansTaken == \A c \in Callers : returned[c] => copies[c] > 0

\* Retries at two levels duplicate a message no further than this: the rounds of
\* Publish that a reconnect follows, for each attempt of enqueueJob but the last, and
\* the rounds of the last one.
CopiesAreBounded ==
  \A c \in Callers :
    copies[c] <= (MaxPublishAttempts - 1) * (MaxTries - 1) + MaxTries

\* A message reaches the queue twice only after something went wrong: every copy
\* but the confirmed one is the price of a fault.
CopiesNeedFaults == \A c \in Callers : copies[c] <= 1 + faults

\* enqueueJob replaces a publisher set only when its connection is gone: a healthy
\* set is never retired for an error of one channel or one context.
OnlyLostSetsAreReplaced ==
  [][current' # current /\ current' # NoSet => current \in lost]_publisherVars

\* Every enqueueJob returns: the retries end and nobody waits for c.mu for ever.
CallsReturn == \A c \in Callers : pc[c] = "acquire" ~> pc[c] = "idle"

\* What PublisherManager says of enqueueJob and its publisher sets is true of the
\* publish loop inside: PublishJob ends in one of its two ways, once for each attempt,
\* and no other step of Publish touches the sets.
ImplementsManager == Init /\ [][Next]_vars
====
