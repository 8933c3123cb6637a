--------------------------- MODULE WorkerProofs ---------------------------
(***************************************************************************)
(* Proofs about WorkerPool and JobExecution, for any jobs, sources,        *)
(* consumers and faults.  Every step of the worker with its executions is  *)
(* a step of WorkerPool or leaves its state alone, so what is shown of     *)
(* messages and reports there holds here too.                              *)
(***************************************************************************)
EXTENDS JobExecution, TLAPS

\* How long the provers may take over a leaf.
USE SMTT(20), ZenonT(20)

\* The errors in errCh are of different consumers, and those have returned.
OfReturned(from) ==
  /\ from \in [DOMAIN errCh -> Consumers]
  /\ \A i, k \in DOMAIN errCh : from[i] = from[k] => i = k
  /\ \A i \in DOMAIN errCh : pc[from[i]] = "off"

ErrorsAreOfOff == \E from : OfReturned(from)

\* Before the consumers run, none of them is active and no channel delivers.
NotYetConsuming ==
  main \in {"ensure", "spawn"} => AllOff /\ \A c \in Consumers : chan[c] # "consuming"

\* A consumer that is about to consume, or to replace its channel, is sent nothing.
ChannelIsIdle ==
  \A c \in Consumers : pc[c] \in {"start", "reconnect", "reopen", "sleep"} => chan[c] # "consuming"

\* What a consumer knows of the message it handles.
HandlerKnows(c) ==
  /\ pc[c] \in {"started", "execute", "report", "sent", "ack", "nack"} => job[c] \in Jobs
  /\ pc[c] = "report" => result[c] # "none"
  /\ (pc[c] = "report" /\ result[c] = "interrupted") => consumeCtx = "done"
  /\ pc[c] \in {"sent", "ack"} => result[c] \in {"success", "failed"}
  /\ pc[c] = "ack" => <<job[c], result[c]>> \in accepted

HandlersKnow == \A c \in Consumers : HandlerKnows(c)

\* The inductive invariant.
IInv ==
  /\ Types /\ ErrorsAreOfOff /\ NotYetConsuming /\ ChannelIsIdle /\ HandlersKnow
  /\ NoJobIsLost /\ AckedWereReported /\ InterruptedIsNotReported

-----------------------------------------------------------------------------
\* The groups of actions by what they touch.
OfStarter == ConnectDocker \/ EnsureCancelled \/ Select \/ Cancel
OfHandler(c) ==
  CallbackJobStarted(c) \/ ExecuteJob(c) \/ SendReport(c) \/ ReportAnswered(c) \/ Sleep(c)
OfMessage(c) == StartConsume(c) \/ Receive(c) \/ Ack(c) \/ Nack(c)
OfRenewal(c) == Reconnect(c) \/ Reopen(c)
OfLoss == ConnectionLost \/ \E c \in Consumers : ChannelLost(c)

\* Every step is one of these.
LEMMA Steps ==
  ASSUME Next
  PROVE  \/ OfStarter \/ OfLoss \/ ConnectBroker \/ Spawn \/ Join \/ Shutdown
         \/ NewProcess /\ (faults' = faults \/ Spend("crash"))
         \/ \E c \in Consumers : OfHandler(c) \/ OfMessage(c) \/ OfRenewal(c) \/ Deliver(c)
BY DEF Next, StartStep, ConsumerStep, MessageStep, OfStarter, OfHandler, OfMessage, OfRenewal, OfLoss,
   ProcessEnds, Crash

\* What the groups of actions leave alone.
LEMMA StarterFrame ==
  ASSUME OfStarter
  PROVE  /\ UNCHANGED <<ready, unacked, acked, conn, chan, buffer, pc, job, result, accepted, faults, errCh>>
         /\ consumeCtx' = consumeCtx \/ consumeCtx' = "done"
         /\ main \notin {"ensure", "spawn"} => main' \notin {"ensure", "spawn"}
<1> USE DEF broker, link, handler
<1>1. CASE ConnectDocker
  BY <1>1 DEF ConnectDocker
<1>2. CASE EnsureCancelled
  BY <1>2 DEF EnsureCancelled
<1>3. CASE Select
  BY <1>3 DEF Select
<1>4. CASE Cancel
  BY <1>4 DEF Cancel
<1> QED
  BY <1>1, <1>2, <1>3, <1>4 DEF OfStarter

\* A lost connection or channel closes channels.
LEMMA LossFrame ==
  ASSUME Types, OfLoss
  PROVE  /\ UNCHANGED <<acked, buffer, docker, ctx, consumeCtx, main, outcome, errCh, pc, job, result, accepted>>
         /\ \A c \in Consumers : chan'[c] = chan[c] \/ chan'[c] \in {"none", "closed"}
<1> USE DEF starter, handler, Requeue
<1>1. CASE ConnectionLost
  BY <1>1 DEF ConnectionLost
<1>2. ASSUME NEW c \in Consumers, ChannelLost(c)
      PROVE  /\ UNCHANGED <<acked, buffer, docker, ctx, consumeCtx, main, outcome, errCh, pc, job, result, accepted>>
             /\ \A d \in Consumers : chan'[d] = chan[d] \/ chan'[d] \in {"none", "closed"}
  <2>1. chan' = [chan EXCEPT ![c] = "closed"] /\ chan \in [Consumers -> {"none", "open", "consuming", "closed"}]
    BY <1>2 DEF ChannelLost, Types
  <2> QED
    BY <1>2, <2>1 DEF ChannelLost
<1> QED
  BY <1>1, <1>2 DEF OfLoss

\* The steps of handleJobMessage, and the pause before a new attempt to consume.
LEMMA HandlerFrame ==
  ASSUME NEW c \in Consumers, OfHandler(c)
  PROVE  /\ UNCHANGED <<ready, unacked, acked, conn, chan, buffer, docker, ctx, consumeCtx, main, outcome, errCh, job>>
         /\ pc[c] \in {"started", "execute", "report", "sent", "sleep"}
         /\ \E label \in Labels : Goto(c, label)
         /\ result' = result \/ ExecuteJob(c)
         /\ accepted' = accepted \/ ReportAnswered(c)
<1> USE DEF broker, link, starter, handler, Labels
<1>1. CASE CallbackJobStarted(c)
  BY <1>1 DEF CallbackJobStarted
<1>2. CASE ExecuteJob(c)
  BY Zenon, <1>2 DEF ExecuteJob
<1>3. CASE SendReport(c)
  BY <1>3 DEF SendReport
<1>4. CASE ReportAnswered(c)
  BY <1>4 DEF ReportAnswered
<1>5. CASE Sleep(c)
  BY <1>5 DEF Sleep
<1> QED
  BY <1>1, <1>2, <1>3, <1>4, <1>5 DEF OfHandler

\* The steps of Consume that take a message or give it back.
LEMMA MessageFrame ==
  ASSUME NEW c \in Consumers, OfMessage(c)
  PROVE  /\ UNCHANGED <<conn, docker, ctx, consumeCtx, main, outcome, errCh, accepted, faults>>
         /\ pc[c] \in {"start", "receive", "ack", "nack"}
         /\ \E label \in {"receive", "started", "reconnect", "off"} : Goto(c, label)
<1> USE DEF broker, link, starter, handler
<1>1. CASE StartConsume(c)
  BY <1>1 DEF StartConsume
<1>2. CASE Receive(c)
  BY <1>2 DEF Receive
<1>3. CASE Ack(c)
  BY <1>3 DEF Ack
<1>4. CASE Nack(c)
  BY <1>4 DEF Nack
<1> QED
  BY <1>1, <1>2, <1>3, <1>4 DEF OfMessage

\* A consumer gets a new channel, or returns.
LEMMA RenewalFrame ==
  ASSUME NEW c \in Consumers, OfRenewal(c)
  PROVE  /\ UNCHANGED <<ready, unacked, acked, conn, docker, ctx, consumeCtx, job, result, accepted>>
         /\ pc[c] \in {"reconnect", "reopen"}
         /\ \/ /\ UNCHANGED <<main, outcome, errCh>>
               /\ \E label \in {"reopen", "sleep"} : Goto(c, label)
            \/ \E err \in {"lost", "fatal"} : Exit(c, err)
<1> USE DEF broker, handler
<1>1. CASE Reconnect(c)
  BY <1>1 DEF Reconnect, link
<1>2. CASE Reopen(c)
  BY <1>2 DEF Reopen
<1> QED
  BY <1>1, <1>2 DEF OfRenewal

\* Only Select, among the steps of Start, looks at errCh; only Exit touches main.
LEMMA ExitFrame ==
  ASSUME NEW c \in Consumers, NEW err, Exit(c, err)
  PROVE  /\ Goto(c, "off") /\ (main' = main \/ main' = "cancel")
         /\ errCh' = errCh \/ errCh' = Append(errCh, err)
BY DEF Exit

\* A consumer that is not off has left no error, and may do what it likes.
LEMMA OthersErrors ==
  ASSUME Types, ErrorsAreOfOff, NEW c \in Consumers, NEW label \in Labels, pc[c] # "off",
         Goto(c, label), errCh' = errCh
  PROVE  ErrorsAreOfOff'
<1>1. PICK from : OfReturned(from)
  BY DEF ErrorsAreOfOff
<1>2. \A d \in Consumers : pc[d] = "off" => pc'[d] = "off"
  BY DEF Types, Goto
<1>3. OfReturned(from)'
  BY <1>1, <1>2 DEF OfReturned
<1> QED
  BY <1>3 DEF ErrorsAreOfOff

\* An error goes into errCh only together with the return of its consumer.
LEMMA ExitKeepsErrors ==
  ASSUME Types, ErrorsAreOfOff, NEW c \in Consumers, NEW err \in {"lost", "fatal"},
         pc[c] # "off", Exit(c, err)
  PROVE  ErrorsAreOfOff'
<1>1. CASE errCh' = errCh
  BY <1>1, OthersErrors DEF Exit, Labels
<1>2. CASE errCh' = Append(errCh, err)
  <2>1. PICK from : OfReturned(from)
    BY DEF ErrorsAreOfOff
  <2>2. /\ DOMAIN errCh = 1 .. Len(errCh) /\ Len(errCh) \in Nat
        /\ DOMAIN errCh' = 1 .. Len(errCh) + 1
    BY <1>2 DEF Types
  <2>3. \A d \in Consumers : pc[d] = "off" => d # c /\ pc'[d] = "off"
    BY DEF Types, Exit, Goto
  <2>4. pc'[c] = "off"
    BY DEF Types, Exit, Goto
  <2>new. PICK new : new = [i \in 1 .. Len(errCh) + 1 |-> IF i \in 1 .. Len(errCh) THEN from[i] ELSE c]
    BY Zenon
  <2>5. \A i \in DOMAIN errCh : from[i] \in Consumers /\ from[i] # c /\ pc'[from[i]] = "off"
    BY <2>1, <2>3 DEF OfReturned
  <2>6. new \in [DOMAIN errCh' -> Consumers]
    BY <2>2, <2>5, <2>new
  <2>7. \A i, k \in DOMAIN errCh' : new[i] = new[k] => i = k
    BY <2>1, <2>2, <2>5, <2>new DEF OfReturned
  <2>8. \A i \in DOMAIN errCh' : pc'[new[i]] = "off"
    BY <2>2, <2>4, <2>5, <2>new
  <2>9. OfReturned(new)'
    BY <2>6, <2>7, <2>8 DEF OfReturned
  <2> QED
    BY <2>9 DEF ErrorsAreOfOff
<1> QED
  BY <1>1, <1>2 DEF Exit

\* An empty errCh holds no error.
LEMMA NoErrors ==
  ASSUME errCh = << >>
  PROVE  ErrorsAreOfOff
<1>1. OfReturned([i \in {} |-> i])
  BY DEF OfReturned
<1> QED
  BY <1>1 DEF ErrorsAreOfOff

\* The bound on errCh is kept by every step.
LEMMA ErrorsStep ==
  ASSUME Types, ErrorsAreOfOff, Next
  PROVE  ErrorsAreOfOff'
<1>1. CASE pc' = pc /\ errCh' = errCh
  BY <1>1 DEF ErrorsAreOfOff, OfReturned
<1>2. ASSUME NEW c \in Consumers, NEW label \in Labels, pc[c] # "off", Goto(c, label), errCh' = errCh
      PROVE  ErrorsAreOfOff'
  BY <1>2, OthersErrors
<1>3. CASE Spawn \/ NewProcess
  <2>1. errCh' = <<>>
    BY <1>3 DEF Spawn, NewProcess
  <2>2. OfReturned([i \in {} |-> i])'
    BY <2>1 DEF OfReturned
  <2> QED
    BY <2>2 DEF ErrorsAreOfOff
<1>4. CASE OfStarter \/ OfLoss
  BY <1>1, <1>4, StarterFrame, LossFrame
<1>5. CASE ConnectBroker \/ Join \/ Shutdown \/ \E c \in Consumers : Deliver(c)
  <2>1. pc' = pc /\ errCh' = errCh
    BY <1>5 DEF ConnectBroker, Join, Shutdown, Deliver, starter
  <2> QED
    BY <1>1, <2>1
<1>6. ASSUME NEW c \in Consumers, OfHandler(c)
      PROVE  ErrorsAreOfOff'
  BY <1>2, <1>6, HandlerFrame
<1>7. ASSUME NEW c \in Consumers, OfMessage(c)
      PROVE  ErrorsAreOfOff'
  <2>1. PICK label \in {"receive", "started", "reconnect", "off"} : Goto(c, label)
    BY <1>7, MessageFrame
  <2> QED
    BY <1>2, <1>7, <2>1, MessageFrame DEF Labels
<1>8. ASSUME NEW c \in Consumers, OfRenewal(c)
      PROVE  ErrorsAreOfOff'
  <2>1. CASE errCh' = errCh /\ \E label \in {"reopen", "sleep"} : Goto(c, label)
    BY <1>2, <1>8, <2>1, RenewalFrame DEF Labels
  <2>2. CASE \E err \in {"lost", "fatal"} : Exit(c, err)
    BY <1>8, <2>2, RenewalFrame, ExitKeepsErrors
  <2> QED
    BY <1>8, <2>1, <2>2, RenewalFrame
<1> QED
  BY <1>3, <1>4, <1>5, <1>6, <1>7, <1>8, Steps

\* The bound on faults is kept.
LEMMA SpendBounded ==
  ASSUME Types, NEW kind, Spend(kind)
  PROVE  faults' \in Nat
BY DEF Types, Spend

\* A channel that is gone gives its messages back to the queue.
LEMMA RequeueTypes ==
  ASSUME Types, NEW gone \in SUBSET Consumers, Requeue(gone)
  PROVE  ready' \subseteq Jobs /\ acked' \subseteq Jobs /\ unacked' \in [Consumers -> SUBSET Jobs]
BY DEF Types, Requeue

\* A closed connection leaves types in order.
LEMMA DisconnectTypes ==
  ASSUME Types, Disconnect
  PROVE  /\ ready' \subseteq Jobs /\ acked' \subseteq Jobs /\ unacked' \in [Consumers -> SUBSET Jobs]
         /\ conn' \in {"none", "up", "lost"}
         /\ chan' \in [Consumers -> {"none", "open", "consuming", "closed"}]
         /\ buffer' \in [Consumers -> SUBSET Jobs]
<1>1. Requeue(Consumers)
  BY DEF Disconnect
<1>2. ready' \subseteq Jobs /\ acked' \subseteq Jobs /\ unacked' \in [Consumers -> SUBSET Jobs]
  BY <1>1, RequeueTypes
<1> QED
  BY <1>2 DEF Disconnect

\* Types are kept by every step.
LEMMA TypesStep ==
  ASSUME Types, HandlersKnow, Next
  PROVE  Types'
<1> USE DEF Types, broker, link, starter, handler
<1>1. CASE OfStarter
  <2>1. CASE ConnectDocker
    BY <2>1 DEF ConnectDocker
  <2>2. CASE EnsureCancelled \/ Cancel
    BY <2>2 DEF EnsureCancelled, Cancel
  <2>3. CASE Select
    <3>1. errCh # <<>> => Head(errCh) \in {"lost", "fatal"}
      OBVIOUS
    <3>2. /\ main' \in {"cancel", "returned", "parked"}
          /\ outcome' \in {outcome, "ctx", "clean"} \/ (errCh # <<>> /\ outcome' = Head(errCh))
      BY <2>3 DEF Select
    <3>3. main' \in {"ensure", "spawn", "select", "parked", "cancel", "join", "returned"}
      BY <3>2
    <3>4. outcome' \in {"none", "lost", "fatal", "ctx", "clean"}
      BY <3>1, <3>2
    <3> QED
      BY <2>3, <3>3, <3>4 DEF Select
  <2> QED
    BY <1>1, <2>1, <2>2, <2>3 DEF OfStarter
<1>2. CASE OfLoss
  <2>0. /\ \E gone \in SUBSET Consumers : Requeue(gone)
        /\ \E kind \in {"connection", "channel"} : Spend(kind)
    <3>1. CASE ConnectionLost
      BY <3>1 DEF ConnectionLost
    <3>2. ASSUME NEW c \in Consumers, ChannelLost(c)
          PROVE  Requeue({c}) /\ Spend("channel")
      BY <3>2 DEF ChannelLost
    <3> QED
      BY Zenon, <1>2, <3>1, <3>2 DEF OfLoss
  <2>1. /\ ready' \subseteq Jobs /\ acked' \subseteq Jobs /\ unacked' \in [Consumers -> SUBSET Jobs]
        /\ faults' \in Nat
    BY <2>0, RequeueTypes, SpendBounded
  <2>2. CASE ConnectionLost
    BY <2>1, <2>2 DEF ConnectionLost
  <2>3. ASSUME NEW c \in Consumers, ChannelLost(c) PROVE Types'
    BY <2>1, <2>3 DEF ChannelLost
  <2> QED
    BY <1>2, <2>2, <2>3 DEF OfLoss
<1>3. CASE ConnectBroker \/ Spawn \/ Join
  <2>1. CASE ConnectBroker
    BY <2>1 DEF ConnectBroker
  <2>2. CASE Spawn
    BY <2>2 DEF Spawn, Labels
  <2>3. CASE Join /\ Disconnect
    BY Zenon, <2>3, DisconnectTypes DEF Join
  <2>4. CASE Join /\ ~Disconnect
    BY <2>4 DEF Join
  <2> QED
    BY <1>3, <2>1, <2>2, <2>3, <2>4
<1>4. CASE Shutdown
  BY <1>4, SpendBounded DEF Shutdown
<1>5. CASE NewProcess /\ (faults' = faults \/ Spend("crash"))
  <2>1. faults' \in Nat
    BY <1>5, SpendBounded
  <2>2. Disconnect
    BY <1>5 DEF NewProcess
  <2>3. /\ pc' \in [Consumers -> Labels] /\ job' \in [Consumers -> Jobs \cup {NoJob}]
        /\ result' \in [Consumers -> {"none", "success", "failed", "interrupted"}]
    BY <1>5 DEF NewProcess, Labels
  <2>4. /\ docker' = FALSE /\ ctx' = "live" /\ consumeCtx' = "live" /\ main' = "ensure"
        /\ outcome' = "none" /\ errCh' = <<>> /\ accepted' = accepted
    BY <1>5 DEF NewProcess
  <2>5. /\ ready' \subseteq Jobs /\ acked' \subseteq Jobs /\ unacked' \in [Consumers -> SUBSET Jobs]
        /\ conn' \in {"none", "up", "lost"}
        /\ chan' \in [Consumers -> {"none", "open", "consuming", "closed"}]
        /\ buffer' \in [Consumers -> SUBSET Jobs]
    BY <2>2, DisconnectTypes
  <2>6. errCh' \in Seq({"lost", "fatal"})
    BY <2>4
  <2>7. docker' \in BOOLEAN
    BY Zenon, <2>4
  <2>8. accepted' \subseteq Jobs \X {"success", "failed", "interrupted"}
    BY <2>4
  <2> QED
    BY <2>1, <2>3, <2>4, <2>5, <2>6, <2>7, <2>8
<1>6. ASSUME NEW c \in Consumers, StartConsume(c) \/ Deliver(c) \/ Receive(c)
      PROVE  Types'
  BY <1>6 DEF StartConsume, Deliver, Receive, Goto, Labels
<1>7. ASSUME NEW c \in Consumers, CallbackJobStarted(c) \/ ExecuteJob(c) \/ SendReport(c) \/ Sleep(c)
      PROVE  Types'
  <2>1. faults' \in Nat
    BY <1>7, SpendBounded DEF CallbackJobStarted, ExecuteJob, SendReport, Sleep
  <2> QED
    BY <1>7, <2>1 DEF CallbackJobStarted, ExecuteJob, SendReport, Sleep, Goto, Labels
<1>8. ASSUME NEW c \in Consumers, ReportAnswered(c)
      PROVE  Types'
  <2>1. job[c] \in Jobs /\ result[c] \in {"success", "failed"}
    BY Zenon, <1>8 DEF ReportAnswered, HandlersKnow, HandlerKnows
  <2>2. accepted' \subseteq Jobs \X {"success", "failed", "interrupted"}
    BY <1>8, <2>1 DEF ReportAnswered
  <2>3. faults' \in Nat
    BY <1>8, SpendBounded DEF ReportAnswered
  <2>4. pc' \in [Consumers -> Labels]
    BY <1>8 DEF ReportAnswered, Goto, Labels
  <2> QED
    BY <1>8, <2>2, <2>3, <2>4 DEF ReportAnswered
<1>9. ASSUME NEW c \in Consumers, Ack(c) \/ Nack(c)
      PROVE  Types'
  <2>1. job[c] \in Jobs
    BY Zenon, <1>9 DEF Ack, Nack, HandlersKnow, HandlerKnows
  <2> QED
    BY <1>9, <2>1 DEF Ack, Nack, Goto, Labels
<1>10. ASSUME NEW c \in Consumers, NEW err \in {"lost", "fatal"}, Exit(c, err)
       PROVE  /\ pc' \in [Consumers -> Labels] /\ errCh' \in Seq({"lost", "fatal"})
              /\ main' \in {"ensure", "spawn", "select", "parked", "cancel", "join", "returned"}
              /\ outcome' \in {"none", "lost", "fatal", "ctx", "clean"}
  <2>1. Append(errCh, err) \in Seq({"lost", "fatal"})
    OBVIOUS
  <2>2. errCh' \in Seq({"lost", "fatal"})
    BY Zenon, <1>10, <2>1 DEF Exit
  <2>3. pc' \in [Consumers -> Labels]
    BY <1>10 DEF Exit, Goto, Labels
  <2>4. main' \in {main, "cancel"} /\ outcome' \in {outcome, err}
    BY <1>10 DEF Exit
  <2> QED
    BY <2>2, <2>3, <2>4
<1>11. ASSUME NEW c \in Consumers, Reconnect(c) \/ Reopen(c)
       PROVE  Types'
  <2>1. /\ pc' \in [Consumers -> Labels] /\ errCh' \in Seq({"lost", "fatal"})
        /\ main' \in {"ensure", "spawn", "select", "parked", "cancel", "join", "returned"}
        /\ outcome' \in {"none", "lost", "fatal", "ctx", "clean"}
    BY <1>10, <1>11 DEF Reconnect, Reopen, Goto, Labels
  <2> QED
    BY <1>11, <2>1, SpendBounded DEF Reconnect, Reopen
<1> QED
  BY <1>1, <1>2, <1>3, <1>4, <1>5, <1>6, <1>7, <1>8, <1>9, <1>11, Steps DEF OfHandler, OfMessage, OfRenewal

\* Until Spawn nothing consumes: only Join and a new process lead back before it.
LEMMA PhaseStep ==
  ASSUME Types, NotYetConsuming, Next
  PROVE  NotYetConsuming'
<1> USE DEF NotYetConsuming, AllOff
<1>1. ASSUME NEW c \in Consumers, pc[c] # "off", main' = main \/ main' = "cancel"
      PROVE  NotYetConsuming'
  BY <1>1
<1>2. CASE OfStarter
  <2>1. pc' = pc /\ chan' = chan /\ (main' \in {"ensure", "spawn"} => main \in {"ensure", "spawn"})
    BY <1>2, StarterFrame
  <2> QED
    BY <2>1
<1>3. CASE OfLoss
  <2>1. pc' = pc /\ main' = main /\ \A c \in Consumers : chan'[c] = chan[c] \/ chan'[c] # "consuming"
    BY <1>3, LossFrame
  <2> QED
    BY <2>1
<1>4. CASE ConnectBroker \/ Spawn
  BY <1>4 DEF ConnectBroker, Spawn
<1>5. CASE Join \/ NewProcess
  BY <1>5 DEF Join, NewProcess, Disconnect
<1>6. CASE Shutdown \/ \E c \in Consumers : Deliver(c)
  BY <1>6 DEF Shutdown, Deliver, starter, link
<1>7. ASSUME NEW c \in Consumers, OfHandler(c) PROVE NotYetConsuming'
  BY <1>1, <1>7, HandlerFrame
<1>8. ASSUME NEW c \in Consumers, OfMessage(c) PROVE NotYetConsuming'
  BY <1>1, <1>8, MessageFrame
<1>9. ASSUME NEW c \in Consumers, OfRenewal(c) PROVE NotYetConsuming'
  BY <1>1, <1>9, RenewalFrame, ExitFrame
<1> QED
  BY <1>2, <1>3, <1>4, <1>5, <1>6, <1>7, <1>8, <1>9, Steps

\* A channel delivers only from StartConsume until it is lost.
LEMMA ChannelStep ==
  ASSUME Types, NotYetConsuming, ChannelIsIdle, Next
  PROVE  ChannelIsIdle'
<1> USE DEF ChannelIsIdle
<1>0. /\ pc \in [Consumers -> Labels] /\ chan \in [Consumers -> {"none", "open", "consuming", "closed"}]
  BY DEF Types
<1>1. CASE OfStarter \/ Shutdown \/ \E c \in Consumers : Deliver(c)
  <2>1. pc' = pc /\ chan' = chan
    BY <1>1, StarterFrame DEF Shutdown, Deliver, link
  <2> QED
    BY <2>1
<1>2. CASE OfLoss
  <2>1. pc' = pc /\ \A c \in Consumers : chan'[c] = chan[c] \/ chan'[c] # "consuming"
    BY <1>2, LossFrame
  <2> QED
    BY <2>1
<1>3. CASE ConnectBroker
  BY <1>3 DEF ConnectBroker
<1>4. CASE Join
  BY <1>4 DEF Join, Disconnect, link
<1>5. CASE Spawn
  BY <1>5 DEF Spawn, NotYetConsuming, link
<1>6. CASE NewProcess
  BY <1>6 DEF NewProcess
<1>7. ASSUME NEW c \in Consumers, OfHandler(c) PROVE ChannelIsIdle'
  <2>1. chan' = chan /\ pc[c] \in {"started", "execute", "report", "sent", "sleep"}
        /\ \A d \in Consumers \ {c} : pc'[d] = pc[d]
    BY <1>0, <1>7, HandlerFrame DEF Goto
  <2>2. pc'[c] \in {"start", "reconnect", "reopen", "sleep"} => pc[c] = "sleep"
    BY <1>0, <1>7 DEF OfHandler, CallbackJobStarted, ExecuteJob, SendReport, ReportAnswered, Sleep, Goto
  <2> QED
    BY <2>1, <2>2
<1>8. ASSUME NEW c \in Consumers, OfMessage(c) PROVE ChannelIsIdle'
  <2>1. CASE StartConsume(c)
    BY <1>0, <2>1 DEF StartConsume, Goto
  <2>2. CASE Receive(c)
    BY <1>0, <2>2 DEF Receive, Goto
  <2>3. CASE Ack(c)
    BY <1>0, <2>3 DEF Ack, Goto, link
  <2>4. CASE Nack(c)
    BY <1>0, <2>4 DEF Nack, Goto, link
  <2> QED
    BY <1>8, <2>1, <2>2, <2>3, <2>4 DEF OfMessage
<1>9. ASSUME NEW c \in Consumers, OfRenewal(c) PROVE ChannelIsIdle'
  <2>1. CASE Reconnect(c)
    BY <1>0, <2>1 DEF Reconnect, Exit, Goto, link
  <2>2. CASE Reopen(c)
    BY <1>0, <2>2 DEF Reopen, Exit, Goto
  <2> QED
    BY <1>9, <2>1, <2>2 DEF OfRenewal
<1> QED
  BY <1>1, <1>2, <1>3, <1>4, <1>5, <1>6, <1>7, <1>8, <1>9, Steps

\* What a consumer knows stays so while others act, as long as consumeCtx does not
\* come back to life and no report is forgotten.
LEMMA OthersKnow ==
  ASSUME NEW d \in Consumers, HandlerKnows(d), pc'[d] = pc[d], job'[d] = job[d], result'[d] = result[d],
         accepted \subseteq accepted', consumeCtx' = consumeCtx \/ consumeCtx' = "done"
  PROVE  HandlerKnows(d)'
BY DEF HandlerKnows

\* A consumer that is off, or at a step without a message, knows nothing.
LEMMA NothingToKnow ==
  ASSUME NEW d \in Consumers, pc'[d] \in {"off", "start", "receive", "reconnect", "reopen", "sleep"}
  PROVE  HandlerKnows(d)'
BY DEF HandlerKnows

\* Every step of handleJobMessage keeps what the next one relies on.
LEMMA HandlersStep ==
  ASSUME Types, NotYetConsuming, HandlersKnow, Next
  PROVE  HandlersKnow'
<1>0. /\ pc \in [Consumers -> Labels] /\ job \in [Consumers -> Jobs \cup {NoJob}]
      /\ result \in [Consumers -> {"none", "success", "failed", "interrupted"}]
      /\ buffer \in [Consumers -> SUBSET Jobs]
      /\ \A c \in Consumers : HandlerKnows(c)
  BY DEF Types, HandlersKnow
<1>1. ASSUME pc' = pc, job' = job, result' = result, accepted' = accepted,
             consumeCtx' = consumeCtx \/ consumeCtx' = "done"
      PROVE  HandlersKnow'
  BY <1>0, <1>1, OthersKnow DEF HandlersKnow
<1>2. CASE OfStarter \/ OfLoss
  BY <1>1, <1>2, StarterFrame, LossFrame
<1>3. CASE ConnectBroker \/ Join
  BY <1>1, <1>3 DEF ConnectBroker, Join, handler
<1>4. CASE Shutdown \/ \E c \in Consumers : Deliver(c)
  BY <1>1, <1>4 DEF Shutdown, Deliver, starter, handler
<1>5. CASE Spawn \/ NewProcess
  <2>1. \A d \in Consumers : pc'[d] \in {"off", "start"}
    BY <1>5 DEF Spawn, NewProcess
  <2> QED
    BY <2>1, NothingToKnow DEF HandlersKnow
<1>6. ASSUME NEW c \in Consumers, consumeCtx' = consumeCtx, accepted \subseteq accepted',
             \A d \in Consumers \ {c} : pc'[d] = pc[d] /\ job'[d] = job[d] /\ result'[d] = result[d],
             HandlerKnows(c)'
      PROVE  HandlersKnow'
  BY <1>0, <1>6, OthersKnow DEF HandlersKnow
<1>7. ASSUME NEW c \in Consumers, OfHandler(c) PROVE HandlersKnow'
  <2>1. consumeCtx' = consumeCtx /\ job' = job
    BY <1>7, HandlerFrame
  <2>2. accepted \subseteq accepted'
    BY <1>7, HandlerFrame DEF ReportAnswered
  <2>3. \A d \in Consumers \ {c} : pc'[d] = pc[d] /\ result'[d] = result[d]
    BY <1>0, <1>7, HandlerFrame DEF Goto, ExecuteJob
  <2>4. ASSUME CallbackJobStarted(c) \/ Sleep(c) PROVE HandlerKnows(c)'
    BY <1>0, <2>4 DEF HandlerKnows, CallbackJobStarted, Sleep, Goto, handler
  <2>5. ASSUME ExecuteJob(c) PROVE HandlerKnows(c)'
    BY Zenon, <1>0, <2>1, <2>5 DEF HandlerKnows, ExecuteJob, Goto
  <2>6. ASSUME SendReport(c) PROVE HandlerKnows(c)'
    BY Zenon, <1>0, <2>1, <2>6 DEF HandlerKnows, SendReport, Goto, handler
  <2>7. ASSUME ReportAnswered(c) PROVE HandlerKnows(c)'
    BY <1>0, <2>7 DEF HandlerKnows, ReportAnswered, Goto, handler
  <2>8. HandlerKnows(c)'
    BY <1>7, <2>4, <2>5, <2>6, <2>7 DEF OfHandler
  <2> QED
    BY <1>6, <2>1, <2>2, <2>3, <2>8
<1>8. ASSUME NEW c \in Consumers, OfMessage(c) PROVE HandlersKnow'
  <2>1. consumeCtx' = consumeCtx /\ accepted' = accepted
    BY <1>8, MessageFrame
  <2>2. \A d \in Consumers \ {c} : pc'[d] = pc[d]
    BY <1>0, <1>8, MessageFrame DEF Goto
  <2>3. \A d \in Consumers \ {c} : job'[d] = job[d] /\ result'[d] = result[d]
    BY <1>0, <1>8 DEF OfMessage, StartConsume, Receive, Ack, Nack, handler
  <2>4. ASSUME pc'[c] = "started" PROVE HandlerKnows(c)'
    <3>1. Receive(c)
      BY <1>0, <1>8, <2>4 DEF OfMessage, StartConsume, Ack, Nack, Goto
    <3>2. job'[c] \in Jobs
      BY <1>0, <2>4, <3>1 DEF Receive, Goto
    <3> QED
      BY <2>4, <3>2 DEF HandlerKnows
  <2>5. ASSUME pc'[c] \in {"receive", "reconnect", "off"} PROVE HandlerKnows(c)'
    BY <2>5, NothingToKnow
  <2>6. pc'[c] \in {"receive", "started", "reconnect", "off"}
    BY <1>0, <1>8, MessageFrame DEF Goto
  <2> QED
    BY <1>6, <2>1, <2>2, <2>3, <2>4, <2>5, <2>6
<1>9. ASSUME NEW c \in Consumers, OfRenewal(c) PROVE HandlersKnow'
  <2>1. consumeCtx' = consumeCtx /\ accepted' = accepted /\ job' = job /\ result' = result
    BY <1>9, RenewalFrame
  <2>2. pc'[c] \in {"reopen", "sleep", "off"} /\ \A d \in Consumers \ {c} : pc'[d] = pc[d]
    BY <1>0, <1>9, RenewalFrame, ExitFrame DEF Goto
  <2>3. HandlerKnows(c)'
    BY <2>2, NothingToKnow
  <2> QED
    BY <1>6, <2>1, <2>2, <2>3
<1> QED
  BY <1>2, <1>3, <1>4, <1>5, <1>7, <1>8, <1>9, Steps

\* Messages of channels that are gone are in the queue again.
LEMMA RequeueLosesNothing ==
  ASSUME Types, NoJobIsLost, NEW gone \in SUBSET Consumers, Requeue(gone),
         \A c \in Consumers \ gone : chan'[c] = chan[c]
  PROVE  NoJobIsLost'
<1>1. /\ ready' = ready \cup UNION {unacked[c] : c \in gone} /\ acked' = acked
      /\ \A c \in Consumers : unacked'[c] = IF c \in gone THEN {} ELSE unacked[c]
  BY DEF Requeue, Types
<1>2. \A c \in Consumers : unacked'[c] # {} => chan'[c] = "consuming"
  BY <1>1 DEF NoJobIsLost
<1>3. ASSUME NEW m PROVE m \in Jobs <=> m \in ready' \cup acked' \cup UNION {unacked'[c] : c \in Consumers}
  BY <1>1 DEF NoJobIsLost
<1> QED
  BY <1>2, <1>3 DEF NoJobIsLost

\* A message leaves the broker by an acknowledgement and in no other way.
LEMMA LostStep ==
  ASSUME Types, NotYetConsuming, ChannelIsIdle, HandlersKnow, NoJobIsLost, Next
  PROVE  NoJobIsLost'
<1> USE DEF Types, broker, link, starter, handler
<1>1. ASSUME ready' = ready, unacked' = unacked, acked' = acked,
             \A c \in Consumers : chan[c] = "consuming" => chan'[c] = "consuming"
      PROVE  NoJobIsLost'
  BY <1>1 DEF NoJobIsLost
<1>2. CASE OfStarter \/ Spawn \/ Shutdown
  BY <1>1, <1>2, StarterFrame DEF Spawn, Shutdown
<1>3. CASE ConnectBroker
  BY <1>1, <1>3 DEF ConnectBroker, NotYetConsuming
<1>4. CASE OfLoss
  <2>1. CASE ConnectionLost
    BY <2>1, RequeueLosesNothing DEF ConnectionLost
  <2>2. ASSUME NEW c \in Consumers, ChannelLost(c) PROVE NoJobIsLost'
    BY <2>2, RequeueLosesNothing DEF ChannelLost
  <2> QED
    BY <1>4, <2>1, <2>2 DEF OfLoss
<1>5. CASE Join \/ NewProcess
  <2>1. CASE Disconnect
    BY <2>1, RequeueLosesNothing DEF Disconnect
  <2>2. CASE ~Disconnect
    BY <1>1, <1>5, <2>2 DEF Join, NewProcess
  <2> QED
    BY <2>1, <2>2
<1>6. ASSUME NEW c \in Consumers, OfHandler(c) \/ StartConsume(c) \/ Receive(c) \/ Reconnect(c)
      PROVE  NoJobIsLost'
  <2>1. CASE OfHandler(c)
    BY <1>1, <2>1, HandlerFrame
  <2>2. CASE StartConsume(c)
    BY <1>1, <2>2 DEF StartConsume
  <2>3. CASE Receive(c) \/ Reconnect(c)
    BY <1>1, <2>3 DEF Receive, Reconnect
  <2> QED
    BY <1>6, <2>1, <2>2, <2>3
<1>7. ASSUME NEW c \in Consumers, Reopen(c) PROVE NoJobIsLost'
  BY <1>1, <1>7 DEF Reopen, ChannelIsIdle
<1>8. ASSUME NEW c \in Consumers, NEW m \in Jobs, chan[c] = "consuming", chan' = chan,
             \/ unacked' = [unacked EXCEPT ![c] = @ \cup {m}] /\ ready' = ready \ {m} /\ acked' = acked
             \/ /\ unacked' = [unacked EXCEPT ![c] = @ \ {m}]
                /\ \/ ready' = ready \cup {m} /\ acked' = acked
                   \/ ready' = ready /\ acked' = acked \cup {m}
      PROVE  NoJobIsLost'
  <2>1. \A d \in Consumers : unacked'[d] # {} => chan'[d] = "consuming"
    BY <1>8 DEF NoJobIsLost
  <2>2. ASSUME NEW x PROVE x \in Jobs <=> x \in ready' \cup acked' \cup UNION {unacked'[d] : d \in Consumers}
    <3>1. \A d \in Consumers : x # m => (x \in unacked'[d] <=> x \in unacked[d])
      BY <1>8
    <3>2. x = m => x \in ready' \cup acked' \cup unacked'[c]
      BY <1>8
    <3>3. x # m => (x \in ready' \cup acked' <=> x \in ready \cup acked)
      BY <1>8
    <3> QED
      BY <1>8, <3>1, <3>2, <3>3 DEF NoJobIsLost
  <2> QED
    BY <2>1, <2>2 DEF NoJobIsLost
<1>9. ASSUME NEW c \in Consumers, Deliver(c) PROVE NoJobIsLost'
  BY Zenon, <1>8, <1>9 DEF Deliver
<1>10. ASSUME NEW c \in Consumers, Ack(c) \/ Nack(c) PROVE NoJobIsLost'
  <2>1. job[c] \in Jobs
    BY Zenon, <1>10 DEF Ack, Nack, HandlersKnow, HandlerKnows
  <2> QED
    BY <1>1, <1>8, <1>10, <2>1 DEF Ack, Nack
<1> QED
  BY <1>2, <1>3, <1>4, <1>5, <1>6, <1>7, <1>9, <1>10, Steps DEF OfMessage, OfRenewal

\* A report is never taken back.
LEMMA ReportsStay ==
  ASSUME Types, Next
  PROVE  accepted' = accepted \/ \E c \in Consumers : ReportAnswered(c)
<1>1. CASE OfStarter \/ OfLoss
  BY <1>1, StarterFrame, LossFrame
<1>2. CASE ConnectBroker \/ Spawn \/ Join
  BY <1>2 DEF ConnectBroker, Spawn, Join
<1>3. CASE Shutdown \/ NewProcess
  BY <1>3 DEF Shutdown, NewProcess
<1>4. ASSUME NEW c \in Consumers, OfHandler(c) \/ OfMessage(c) \/ OfRenewal(c)
      PROVE  accepted' = accepted \/ ReportAnswered(c)
  BY <1>4, HandlerFrame, MessageFrame, RenewalFrame
<1>5. ASSUME NEW c \in Consumers, Deliver(c)
      PROVE  accepted' = accepted
  BY <1>5 DEF Deliver
<1> QED
  BY <1>1, <1>2, <1>3, <1>4, <1>5, Steps

\* Only an acknowledgement removes a message from the broker.
LEMMA AcksAreAcks ==
  ASSUME Types, Next
  PROVE  acked' = acked \/ \E c \in Consumers : Ack(c)
<1>1. CASE OfStarter \/ OfLoss
  BY <1>1, StarterFrame, LossFrame
<1>2. CASE ConnectBroker \/ Spawn \/ Shutdown
  BY <1>2 DEF ConnectBroker, Spawn, Shutdown, broker
<1>3. CASE Join \/ NewProcess
  BY <1>3 DEF Join, NewProcess, Disconnect, Requeue, broker
<1>4. ASSUME NEW c \in Consumers, OfHandler(c) \/ OfRenewal(c) \/ Deliver(c)
      PROVE  acked' = acked
  BY <1>4, HandlerFrame, RenewalFrame DEF Deliver
<1>5. ASSUME NEW c \in Consumers, OfMessage(c)
      PROVE  acked' = acked \/ Ack(c)
  BY <1>5 DEF OfMessage, StartConsume, Receive, Nack, broker
<1> QED
  BY <1>1, <1>2, <1>3, <1>4, <1>5, Steps

\* A message is acknowledged by a consumer whose report was taken.
LEMMA AckedStep ==
  ASSUME Types, HandlersKnow, AckedWereReported, Next
  PROVE  AckedWereReported'
<1>1. accepted \subseteq accepted'
  <2>1. ASSUME NEW c \in Consumers, ReportAnswered(c) PROVE accepted \subseteq accepted'
    BY <2>1 DEF ReportAnswered
  <2> QED
    BY <2>1, ReportsStay
<1>2. CASE acked' = acked
  BY Zenon, <1>1, <1>2 DEF AckedWereReported
<1>3. ASSUME NEW c \in Consumers, Ack(c) PROVE AckedWereReported'
  <2>1. <<job[c], result[c]>> \in accepted /\ result[c] \in {"success", "failed"}
    BY <1>3 DEF Ack, HandlersKnow, HandlerKnows
  <2>2. acked' \subseteq acked \cup {job[c]}
    BY <1>3 DEF Ack
  <2> QED
    BY Zenon, <1>1, <2>1, <2>2 DEF AckedWereReported
<1> QED
  BY <1>2, <1>3, AcksAreAcks

\* A report that reaches the orchestrator was sent under a live context.
LEMMA InterruptedStep ==
  ASSUME Types, HandlersKnow, InterruptedIsNotReported, Next
  PROVE  InterruptedIsNotReported'
<1>1. CASE accepted' = accepted
  BY Zenon, <1>1 DEF InterruptedIsNotReported
<1>2. ASSUME NEW c \in Consumers, ReportAnswered(c) PROVE InterruptedIsNotReported'
  <2>1. result[c] # "interrupted"
    BY Zenon, <1>2 DEF ReportAnswered, HandlersKnow, HandlerKnows
  <2>2. accepted' \subseteq accepted \cup {<<job[c], result[c]>>}
    BY <1>2 DEF ReportAnswered
  <2> QED
    BY Zenon, <2>1, <2>2 DEF InterruptedIsNotReported
<1> QED
  BY <1>1, <1>2, ReportsStay

-----------------------------------------------------------------------------
\* A new worker with all messages in the queue satisfies the invariant.
LEMMA Initial == Init => IInv
<1> SUFFICES ASSUME Init PROVE IInv
  OBVIOUS
<1>1. Types
  <2>1. errCh \in Seq({"lost", "fatal"})
    BY DEF Init
  <2>4. docker \in BOOLEAN
    BY Zenon DEF Init
  <2>2. pc \in [Consumers -> Labels]
    BY DEF Init, Labels
  <2>3. faults \in Nat
    BY DEF Init
  <2> QED
    BY <2>1, <2>2, <2>3, <2>4 DEF Init, Types
<1>2. ErrorsAreOfOff
  BY NoErrors DEF Init
<1>3. NotYetConsuming /\ ChannelIsIdle /\ HandlersKnow
  BY DEF Init, NotYetConsuming, AllOff, ChannelIsIdle, HandlersKnow, HandlerKnows
<1>4. NoJobIsLost /\ AckedWereReported /\ InterruptedIsNotReported
  BY DEF Init, NoJobIsLost, AckedWereReported, InterruptedIsNotReported
<1> QED
  BY <1>1, <1>2, <1>3, <1>4 DEF IInv

\* Every step keeps the invariant.
LEMMA Inductive == IInv /\ [Next]_vars => IInv'
<1>1. ASSUME IInv, Next PROVE IInv'
  BY <1>1, TypesStep, ErrorsStep, PhaseStep, ChannelStep, HandlersStep, LostStep, AckedStep,
     InterruptedStep DEF IInv
<1>2. ASSUME IInv, UNCHANGED vars PROVE IInv'
  <2> USE <1>2 DEF vars, broker, link, starter, handler
  <2>0. Types'
    BY DEF IInv, Types
  <2>1. ErrorsAreOfOff' /\ NotYetConsuming' /\ ChannelIsIdle'
    BY DEF IInv, ErrorsAreOfOff, OfReturned, NotYetConsuming, AllOff, ChannelIsIdle
  <2>2. HandlersKnow'
    BY DEF IInv, HandlersKnow, HandlerKnows
  <2>3. NoJobIsLost' /\ AckedWereReported' /\ InterruptedIsNotReported'
    BY DEF IInv, NoJobIsLost, AckedWereReported, InterruptedIsNotReported
  <2> QED
    BY <2>0, <2>1, <2>2, <2>3 DEF IInv
<1> QED
  BY <1>1, <1>2

\* The invariant holds in every state a worker reaches.
LEMMA Invariance == Spec => []IInv
BY Initial, Inductive, PTL DEF Spec

\* The inductive invariant bounds errCh.
LEMMA InvariantTypes == IInv => TypeOK
BY DEF IInv, TypeOK, ErrorsAreOfOff, OfReturned

\* The state of the worker has its types and errCh never overflows: consumeWorkers
\* gives it one slot per consumer, and a consumer reports one error at most.
THEOREM TypeCorrect == Spec => []TypeOK
BY InvariantTypes, Invariance, PTL

\* Whatever connections, channels and processes are lost, a message that is not
\* acknowledged is in the queue or under way on a channel that still consumes.
THEOREM NothingIsLost == Spec => []NoJobIsLost
<1>1. IInv => NoJobIsLost
  BY DEF IInv
<1> QED
  BY <1>1, Invariance, PTL

\* Consume acknowledges a message only after the orchestrator took its result.
THEOREM AcknowledgedAfterReport == Spec => []AckedWereReported
<1>1. IInv => AckedWereReported
  BY DEF IInv
<1> QED
  BY <1>1, Invariance, PTL

\* A job that the end of its context cut short is never reported.
THEOREM InterruptedStaysSilent == Spec => []InterruptedIsNotReported
<1>1. IInv => InterruptedIsNotReported
  BY DEF IInv
<1> QED
  BY <1>1, Invariance, PTL

\* Before the copy the container is empty; between executions none is in use.
NotFilled(c) == files[c] = "none"
Untouched(c) == phase[c] = "pull" /\ dir[c] \in Unheld /\ box[c] \in Unheld /\ NotFilled(c)

\* The directory has the commit that is to be built, if there is one to be built.
Ready(c) == dir[c] = IF SourceOf[job[c]] = "repo" THEN "ready" ELSE "none"

\* What ExecuteJob of a consumer has made when it is at a phase.
PhaseKnows(c) ==
  /\ phase[c] = "pull" => dir[c] = "none"
  /\ phase[c] = "return" => dir[c] \in Unheld
  /\ phase[c] \in {"clone", "checkout"} => SourceOf[job[c]] = "repo"
  /\ phase[c] \in {"create", "copy", "start", "wait", "logs", "remove", "cleanup"} => Ready(c)
  /\ phase[c] \notin {"copy", "start", "wait", "logs", "remove"} => box[c] \in Unheld
  /\ phase[c] \notin {"start", "wait", "logs", "remove"} => NotFilled(c)
  /\ phase[c] = "copy" => SourceOf[job[c]] # "none"
  /\ phase[c] \in {"start", "wait"} => files[c] = Expected(job[c])
  /\ phase[c] = "return" => verdict[c] # "success"
  /\ (phase[c] \in {"logs", "remove", "cleanup"} /\ verdict[c] = "success") => job[c] \in ran
  /\ verdict[c] = "interrupted" => consumeCtx = "done"

\* A consumer executes nothing, or is at a phase of its job.
ExecutionKnows(c) ==
  /\ pc[c] # "execute" => Untouched(c) /\ verdict[c] = "success"
  /\ pc[c] = "execute" => PhaseKnows(c)
  /\ (pc[c] \in {"report", "sent", "ack"} /\ result[c] = "success") => job[c] \in ran

\* While consumers may run Start has a Docker client, and else none of them runs.
ServingKnows ==
  /\ main \in {"spawn", "select", "parked", "cancel", "join"} => docker
  /\ main \in {"ensure", "spawn", "returned"} => AllOff

\* The inductive invariant.
WInv ==
  /\ IInv /\ ExecutionTypes /\ SuccessWasRun /\ ServingKnows
  /\ \A c \in Consumers : ExecutionKnows(c)

\* A step that leaves the execution of a consumer alone.
ExecutionStays(c) ==
  /\ phase'[c] = phase[c] /\ dir'[c] = dir[c] /\ box'[c] = box[c]
  /\ files'[c] = files[c] /\ verdict'[c] = verdict[c] /\ ran \subseteq ran'

-----------------------------------------------------------------------------
\* Every step is a step of the pool, or one of ExecuteJob.
LEMMA StepsOfPool ==
  ASSUME WorkerNext
  PROVE  \/ Next
         \/ vars' = vars
BY DEF WorkerNext, ServiceStep, HandlerStep, ReturnResult, ProcessStep, Next, ConsumerStep

\* A step of ExecuteJob is made at a phase, and by no consumer that is elsewhere.
LEMMA StepsOfExecution ==
  ASSUME NEW c \in Consumers, ExecutionStep(c)
  PROVE  pc[c] = "execute"
BY DEF ExecutionStep, PullImage, Clone, Checkout, CreateContainer, CopyWorkspaceToContainer,
   StartContainer, WaitContainer, GetLogs, RemoveContainer, At

\* Starting, cancelling and joining the consumers keeps the client as long as needed.
LEMMA ServingStep ==
  ASSUME IInv, ServingKnows, Next
  PROVE  ServingKnows'
<1> USE DEF ServingKnows, AllOff
<1>0. main \in {"ensure", "spawn", "select", "parked", "cancel", "join", "returned"}
      /\ pc \in [Consumers -> Labels] /\ Types
  BY DEF IInv, Types
<1>1. CASE ConnectDocker \/ ConnectBroker \/ EnsureCancelled
  BY <1>1 DEF ConnectDocker, ConnectBroker, EnsureCancelled
<1>2. CASE Spawn
  BY <1>2 DEF Spawn
<1>3. CASE Select
  <2>1. /\ main = "select" /\ docker' = docker /\ pc' = pc
        /\ main' \in {"cancel", "parked"} \/ (main' = "returned" /\ AllOff)
    BY <1>3 DEF Select
  <2> QED
    BY <2>1
<1>4. CASE Cancel
  BY <1>4 DEF Cancel
<1>5. CASE Join
  BY Zenon, <1>5 DEF Join
<1>6. CASE OfLoss \/ \E c \in Consumers : Deliver(c)
  <2>1. pc' = pc /\ main' = main /\ docker' = docker
    BY <1>0, <1>6, LossFrame DEF Deliver, starter
  <2> QED
    BY <2>1
<1>7. CASE Shutdown
  BY <1>0, <1>7 DEF Shutdown
<1>8. CASE NewProcess
  BY <1>8 DEF NewProcess
<1>9. ASSUME NEW c \in Consumers, pc[c] # "off", docker' = docker,
             main' = main \/ (main = "parked" /\ main' = "cancel")
      PROVE  ServingKnows'
  BY <1>9
<1>10. ASSUME NEW c \in Consumers, OfHandler(c) \/ OfMessage(c)
       PROVE  ServingKnows'
  BY <1>9, <1>10, HandlerFrame, MessageFrame
<1>11. ASSUME NEW c \in Consumers, OfRenewal(c)
       PROVE  ServingKnows'
  <2>1. main' = main \/ (main = "parked" /\ main' = "cancel")
    BY <1>11, RenewalFrame DEF Exit
  <2> QED
    BY <1>9, <1>11, <2>1, RenewalFrame
<1> QED
  BY <1>1, <1>2, <1>3, <1>4, <1>5, <1>6, <1>7, <1>8, <1>10, <1>11, Steps DEF OfStarter

\* A consumer whose part of the state is left alone knows what it knew, also when
\* its context ends.
LEMMA NothingChanges ==
  ASSUME NEW c \in Consumers, ExecutionKnows(c), ExecutionStays(c),
         pc'[c] = pc[c], job'[c] = job[c], result'[c] = result[c],
         consumeCtx' = consumeCtx \/ consumeCtx' = "done"
  PROVE  ExecutionKnows(c)'
BY DEF ExecutionKnows, ExecutionStays, PhaseKnows, Untouched, NotFilled, Ready, Expected

\* The consumer that returns executes nothing more.
LEMMA NothingToExecute ==
  ASSUME NEW c \in Consumers, pc'[c] \notin {"execute", "report", "sent", "ack"},
         Untouched(c)', verdict'[c] = "success"
  PROVE  ExecutionKnows(c)'
BY DEF ExecutionKnows

\* What a consumer does between its executions.
LEMMA MessageKeepsKnowledge ==
  ASSUME WInv, NEW d \in Consumers, MessageStep(d), GoOn(d), NEW c \in Consumers
  PROVE  ExecutionKnows(c)'
<1>0. pc \in [Consumers -> Labels] /\ job \in [Consumers -> Jobs \cup {NoJob}]
      /\ result \in [Consumers -> {"none", "success", "failed", "interrupted"}] /\ ExecutionKnows(c)
      /\ ExecutionTypes
  BY DEF WInv, IInv, Types
<1>1. /\ consumeCtx' = consumeCtx /\ pc[d] # "execute"
      /\ (OfHandler(d) /\ ~ExecuteJob(d)) \/ OfMessage(d) \/ OfRenewal(d)
  <2>1. (OfHandler(d) /\ pc[d] # "execute") \/ OfMessage(d) \/ OfRenewal(d)
    BY DEF MessageStep, OfHandler, OfMessage, OfRenewal, CallbackJobStarted, SendReport, ReportAnswered, Sleep
  <2>2. pc[d] # "execute" => ~ExecuteJob(d)
    BY DEF ExecuteJob
  <2> QED
    BY <2>1, <2>2, HandlerFrame, MessageFrame, RenewalFrame
<1>2. CASE c # d
  <2>1. pc'[c] = pc[c]
    BY <1>0, <1>1, <1>2, HandlerFrame, MessageFrame, RenewalFrame, ExitFrame DEF Goto
  <2>2. job'[c] = job[c] /\ result'[c] = result[c]
    <3>1. CASE OfMessage(d)
      BY <1>0, <1>2, <3>1 DEF OfMessage, StartConsume, Receive, Ack, Nack, handler
    <3>2. CASE OfRenewal(d)
      BY <3>2, RenewalFrame
    <3>3. CASE OfHandler(d) /\ ~ExecuteJob(d)
      BY <3>3, HandlerFrame
    <3> QED
      BY <1>1, <3>1, <3>2, <3>3
  <2>3. ExecutionStays(c)
    BY <1>0, <1>2 DEF GoOn, ExecutionTypes, ExecutionStays
  <2> QED
    BY <1>0, <1>1, <2>1, <2>2, <2>3, NothingChanges
<1>3. CASE c = d
  <2>0. pc[c] # "execute"
    BY <1>1, <1>3
  <2>1. Untouched(c) /\ verdict[c] = "success"
    BY <1>0, <2>0 DEF ExecutionKnows
  <2>2. Untouched(c)' /\ verdict'[c] = "success" /\ dir'[c] = "none"
    BY <1>0, <1>3, <2>1 DEF Untouched, NotFilled, GoOn, ExecutionTypes, Unheld
  <2>3. CASE OfMessage(c) \/ OfRenewal(c) \/ Sleep(c)
    <3>1. pc'[c] \in {"off", "start", "receive", "started", "reconnect", "reopen", "sleep"}
      BY <1>0, <2>3, MessageFrame, RenewalFrame, ExitFrame DEF Sleep, Goto
    <3> QED
      BY <2>2, <3>1, NothingToExecute
  <2>4. CASE CallbackJobStarted(c)
    <3>1. pc'[c] \in {"execute", "nack"}
      BY <1>0, <2>4 DEF CallbackJobStarted, Goto
    <3>2. PhaseKnows(c)'
      BY <2>2 DEF Untouched, NotFilled, PhaseKnows
    <3> QED
      BY <2>2, <3>1, <3>2 DEF ExecutionKnows
  <2>5. CASE SendReport(c) \/ ReportAnswered(c)
    <3>1. pc[c] \in {"report", "sent"} /\ pc'[c] \in {"report", "sent", "ack", "nack"}
          /\ job'[c] = job[c] /\ result'[c] = result[c]
      BY <1>0, <2>5 DEF SendReport, ReportAnswered, Goto, handler
    <3>2. ran' = ran
      BY DEF GoOn
    <3> QED
      BY <1>0, <2>2, <3>1, <3>2 DEF ExecutionKnows
  <2> QED
    BY <1>1, <1>3, <2>3, <2>4, <2>5 DEF OfHandler
<1> QED
  BY <1>2, <1>3

\* A step of ExecuteJob concerns the consumer that makes it.
LEMMA ExecutionIsOwn ==
  ASSUME ExecutionTypes, NEW d \in Consumers, ExecutionStep(d), NEW c \in Consumers, c # d
  PROVE  ExecutionStays(c)
<1> USE DEF ExecutionTypes, ExecutionStays, Continue, Fail
<1>1. CASE PullImage(d)
  BY <1>1 DEF PullImage
<1>2. CASE Clone(d)
  BY <1>2 DEF Clone, RemoveDirectory
<1>3. CASE Checkout(d)
  BY <1>3 DEF Checkout, RemoveDirectory
<1>4. CASE CreateContainer(d)
  BY <1>4 DEF CreateContainer
<1>5. CASE CopyWorkspaceToContainer(d)
  BY <1>5 DEF CopyWorkspaceToContainer
<1>6. CASE StartContainer(d)
  BY <1>6 DEF StartContainer
<1>7. CASE WaitContainer(d)
  BY <1>7 DEF WaitContainer
<1>8. CASE GetLogs(d)
  BY <1>8 DEF GetLogs
<1>9. CASE RemoveContainer(d)
  BY <1>9 DEF RemoveContainer
<1> QED
  BY <1>1, <1>2, <1>3, <1>4, <1>5, <1>6, <1>7, <1>8, <1>9 DEF ExecutionStep

\* Every phase hands the next one what it relies on.
LEMMA PhaseByPhase ==
  ASSUME WInv, NEW c \in Consumers, ExecutionStep(c), UNCHANGED vars
  PROVE  PhaseKnows(c)'
<1> USE DEF PhaseKnows, Ready, NotFilled, At, Continue, Fail
<1>0. /\ phase \in [Consumers -> Phases] /\ verdict \in [Consumers -> {"success", "failed", "interrupted"}]
      /\ dir \in [Consumers -> Unheld \cup {"empty", "cloned", "ready"}]
      /\ box \in [Consumers -> Unheld \cup {"created", "running", "exited"}]
      /\ files \in [Consumers -> {"none", "path", "empty", "cloned", "ready"}]
      /\ PhaseKnows(c)
  BY StepsOfExecution DEF WInv, ExecutionTypes, ExecutionKnows
<1>1. job' = job /\ consumeCtx' = consumeCtx
  BY DEF vars, handler, starter
<1>2. CASE PullImage(c)
  <2>1. phase[c] = "pull" /\ dir[c] = "none" /\ box'[c] \in Unheld /\ files'[c] = "none"
    BY <1>0, <1>2 DEF PullImage
  <2>2. CASE SourceOf[job[c]] = "repo" /\ Continue(c, "clone")
    BY <1>0, <1>1, <2>1, <2>2
  <2>3. CASE SourceOf[job[c]] # "repo" /\ Continue(c, "create") /\ dir' = dir
    BY <1>0, <1>1, <2>1, <2>3
  <2>4. CASE Fail(c, "return") /\ dir' = dir
    BY <1>0, <1>1, <2>1, <2>4 DEF Unheld
  <2> QED
    BY <1>2, <2>2, <2>3, <2>4 DEF PullImage
<1>3. CASE Clone(c) \/ Checkout(c)
  <2>1. /\ phase[c] \in {"clone", "checkout"} /\ SourceOf[job[c]] = "repo"
        /\ box'[c] \in Unheld /\ NotFilled(c)' /\ ran' = ran
    BY <1>0, <1>1, <1>3 DEF Clone, Checkout
  <2>2. CASE Clone(c) /\ Continue(c, "checkout")
    BY <1>0, <1>1, <2>1, <2>2
  <2>3. CASE Checkout(c) /\ dir' = [dir EXCEPT ![c] = "ready"] /\ Continue(c, "create")
    BY <1>0, <1>1, <2>1, <2>3
  <2>4. CASE RemoveDirectory(c) /\ Fail(c, "return")
    BY <1>0, <1>1, <2>1, <2>4 DEF RemoveDirectory
  <2> QED
    BY <1>3, <2>2, <2>3, <2>4 DEF Clone, Checkout
<1>4. CASE CreateContainer(c)
  BY <1>0, <1>1, <1>4 DEF CreateContainer, Expected
<1>5. CASE CopyWorkspaceToContainer(c)
  <2>1. job[c] \in Jobs /\ SourceOf[job[c]] \in {"path", "repo"}
    BY Zenon, <1>0, <1>5, SourceAssumption DEF CopyWorkspaceToContainer, WInv, IInv, HandlersKnow, HandlerKnows
  <2>2. phase[c] = "copy" /\ dir' = dir /\ box' = box /\ ran' = ran
        /\ dir[c] = IF SourceOf[job[c]] = "repo" THEN "ready" ELSE "none"
    BY <1>0, <1>5 DEF CopyWorkspaceToContainer
  <2>3. CASE files' = [files EXCEPT ![c] = IF dir[c] = "none" THEN "path" ELSE dir[c]]
             /\ Continue(c, "start")
    <3>1. files'[c] = Expected(job[c])
      BY <1>0, <2>1, <2>2, <2>3 DEF Expected
    <3> QED
      BY <1>0, <1>1, <2>1, <2>2, <2>3, <3>1 DEF Expected
  <2>4. CASE Fail(c, "remove") /\ files' = files
    BY <1>0, <1>1, <2>2, <2>4
  <2> QED
    BY <1>5, <2>3, <2>4 DEF CopyWorkspaceToContainer
<1>6. CASE StartContainer(c)
  BY <1>0, <1>1, <1>6 DEF StartContainer
<1>7. CASE WaitContainer(c)
  BY <1>0, <1>1, <1>7 DEF WaitContainer
<1>8. CASE GetLogs(c) \/ RemoveContainer(c)
  BY <1>0, <1>1, <1>8 DEF GetLogs, RemoveContainer
<1> QED
  BY <1>2, <1>3, <1>4, <1>5, <1>6, <1>7, <1>8 DEF ExecutionStep

\* ExecuteJob returns with its directory and its container removed, as far as they go.
LEMMA ReturnKeepsKnowledge ==
  ASSUME WInv, NEW d \in Consumers, ReturnResult(d), NEW c \in Consumers
  PROVE  ExecutionKnows(c)'
<1>0. /\ pc \in [Consumers -> Labels] /\ result \in [Consumers -> {"none", "success", "failed", "interrupted"}]
      /\ ExecutionTypes /\ ExecutionKnows(c) /\ ExecutionKnows(d)
  BY DEF WInv, IInv, Types
<1>1. /\ job' = job /\ consumeCtx' = consumeCtx /\ ran' = ran /\ box' = box /\ files' = files
      /\ pc' = [pc EXCEPT ![d] = "report"] /\ result' = [result EXCEPT ![d] = verdict[d]]
  BY Zenon DEF ReturnResult, ExecuteJob, starter, Goto
<1>2. CASE c # d
  <2>1. /\ phase'[c] = phase[c] /\ dir'[c] = dir[c] /\ verdict'[c] = verdict[c]
        /\ pc'[c] = pc[c] /\ result'[c] = result[c]
    BY <1>0, <1>1, <1>2 DEF ReturnResult, RemoveDirectory, ExecutionTypes
  <2> QED
    BY <1>0, <1>1, <2>1 DEF ExecutionKnows, PhaseKnows, Untouched, NotFilled, Ready, Expected
<1>3. CASE c = d
  <2>1. pc[c] = "execute" /\ PhaseKnows(c) /\ phase[c] \in {"cleanup", "return"}
    BY <1>0, <1>3 DEF ReturnResult, ExecutionKnows
  <2>2. /\ phase'[c] = "pull" /\ verdict'[c] = "success" /\ pc'[c] = "report" /\ result'[c] = verdict[c]
    BY <1>0, <1>1, <1>3 DEF ReturnResult, ExecutionTypes
  <2>3. dir'[c] \in Unheld
    BY <1>0, <1>3, <2>1 DEF ReturnResult, RemoveDirectory, ExecutionTypes, PhaseKnows, Unheld
  <2>4. Untouched(c)'
    BY <1>1, <2>1, <2>2, <2>3 DEF Untouched, NotFilled, PhaseKnows
  <2>5. verdict[c] = "success" => job[c] \in ran
    BY <2>1 DEF PhaseKnows
  <2> QED
    BY <1>1, <2>2, <2>4, <2>5 DEF ExecutionKnows
<1> QED
  BY <1>2, <1>3

\* Every step keeps what the consumers know of their executions.
LEMMA KnowledgeStep ==
  ASSUME WInv, WorkerNext, NEW c \in Consumers
  PROVE  ExecutionKnows(c)'
<1>0. ExecutionKnows(c) /\ pc \in [Consumers -> Labels] /\ consumeCtx \in {"live", "done"}
  BY DEF WInv, IInv, Types
<1>1. ASSUME NEW d \in Consumers, ExecutionStep(d), UNCHANGED vars
      PROVE  ExecutionKnows(c)'
  <2>1. pc' = pc /\ job' = job /\ result' = result /\ consumeCtx' = consumeCtx
    BY <1>1 DEF vars, handler, starter
  <2>2. CASE c = d
    BY <1>1, <2>1, <2>2, PhaseByPhase, StepsOfExecution DEF ExecutionKnows
  <2>3. CASE c # d
    BY <1>0, <1>1, <2>1, <2>3, ExecutionIsOwn, NothingChanges DEF WInv
  <2> QED
    BY <2>2, <2>3
<1>2. CASE UNCHANGED <<pc, job, result, execution, ran>> /\ (consumeCtx' = consumeCtx \/ consumeCtx' = "done")
  BY <1>0, <1>2, NothingChanges DEF ExecutionStays, execution
<1>3. CASE Spawn /\ UNCHANGED <<execution, ran>>
  <2>1. pc[c] = "off" /\ pc'[c] = "start"
    BY <1>3 DEF Spawn, WInv, IInv, NotYetConsuming, AllOff
  <2>2. Untouched(c)' /\ verdict'[c] = "success"
    BY <1>0, <1>3, <2>1 DEF ExecutionKnows, Untouched, NotFilled, execution
  <2> QED
    BY <2>1, <2>2, NothingToExecute
<1>4. CASE ProcessStep(NewProcess)
  <2>1. pc'[c] = "off" /\ Untouched(c)' /\ verdict'[c] = "success"
    BY <1>4 DEF NewProcess, ProcessStep, Idle, Untouched, NotFilled, Unheld
  <2> QED
    BY <2>1, NothingToExecute
<1>5. CASE ServiceStep
  <2>1. CASE Spawn
    BY <1>3, <1>5, <2>1 DEF ServiceStep
  <2>2. CASE ~Spawn
    BY <1>2, <1>5, <2>2 DEF ServiceStep, StartStep, ConnectDocker, ConnectBroker, EnsureCancelled, Select,
       Cancel, Join, handler
  <2> QED
    BY <2>1, <2>2
<1>6. CASE (ConnectionLost \/ Shutdown) /\ UNCHANGED <<execution, ran>>
  BY <1>2, <1>6 DEF ConnectionLost, Shutdown, starter, handler
<1>7. ASSUME NEW d \in Consumers, Deliver(d) \/ ChannelLost(d), UNCHANGED <<execution, ran>>
      PROVE  ExecutionKnows(c)'
  BY <1>2, <1>7 DEF Deliver, ChannelLost, starter, handler
<1>8. ASSUME NEW d \in Consumers, HandlerStep(d)
      PROVE  ExecutionKnows(c)'
  BY <1>1, <1>8, MessageKeepsKnowledge, ReturnKeepsKnowledge DEF HandlerStep
<1>9. CASE ProcessStep(ProcessEnds) \/ ProcessStep(Crash)
  BY <1>4, <1>9 DEF ProcessStep, ProcessEnds, Crash
<1> QED
  BY <1>5, <1>6, <1>7, <1>8, <1>9 DEF WorkerNext

\* The types of what ExecuteJob keeps.
LEMMA ExecutionTypesStep ==
  ASSUME WInv, WorkerNext
  PROVE  ExecutionTypes'
<1> USE DEF ExecutionTypes
<1>0. ExecutionTypes
  BY DEF WInv
<1>1. CASE UNCHANGED <<execution, ran>>
  BY <1>0, <1>1 DEF execution
<1>2. ASSUME NEW c \in Consumers, ExecutionStep(c), UNCHANGED vars
      PROVE  ExecutionTypes'
  <2>0. job[c] \in Jobs
    BY Zenon, <1>2, StepsOfExecution DEF WInv, IInv, HandlersKnow, HandlerKnows
  <2>1. CASE PullImage(c)
    BY <1>0, <2>1 DEF PullImage, Continue, Fail, Phases
  <2>2. CASE Clone(c)
    BY <1>0, <2>2 DEF Clone, RemoveDirectory, Continue, Fail, Phases
  <2>3. CASE Checkout(c)
    BY <1>0, <2>3 DEF Checkout, RemoveDirectory, Continue, Fail, Phases
  <2>4. CASE CreateContainer(c)
    BY <1>0, <2>4 DEF CreateContainer, Continue, Fail, Phases
  <2>5. CASE CopyWorkspaceToContainer(c)
    <3>1. dir[c] # "left"
      BY <1>2, <2>5, StepsOfExecution
         DEF WInv, ExecutionKnows, PhaseKnows, Ready, CopyWorkspaceToContainer, At
    <3> QED
      BY <1>0, <2>5, <3>1 DEF CopyWorkspaceToContainer, Continue, Fail, Phases, Unheld
  <2>6. CASE StartContainer(c)
    BY <1>0, <2>6 DEF StartContainer, Continue, Fail, Phases
  <2>7. CASE WaitContainer(c)
    BY <1>0, <2>7, <2>0 DEF WaitContainer, Continue, Fail, Phases
  <2>8. CASE GetLogs(c)
    BY <1>0, <2>8 DEF GetLogs, Continue, Fail, Phases
  <2>9. CASE RemoveContainer(c)
    BY <1>0, <2>9 DEF RemoveContainer, Continue, Fail, Phases
  <2> QED
    BY <1>2, <2>1, <2>2, <2>3, <2>4, <2>5, <2>6, <2>7, <2>8, <2>9 DEF ExecutionStep
<1>3. ASSUME NEW c \in Consumers, ReturnResult(c)
      PROVE  ExecutionTypes'
  BY <1>0, <1>3 DEF ReturnResult, RemoveDirectory, Phases
<1>4. CASE ProcessStep(TRUE)
  BY <1>0, <1>4 DEF ProcessStep, Idle, Phases, Unheld
<1>5. ASSUME NEW c \in Consumers, GoOn(c)
      PROVE  ExecutionTypes'
  BY <1>0, <1>5 DEF GoOn, Unheld
<1> QED
  BY <1>1, <1>2, <1>3, <1>4, <1>5 DEF WorkerNext, ServiceStep, HandlerStep, ProcessStep

\* A success goes to the orchestrator from a consumer that has run the job.
LEMMA SuccessStep ==
  ASSUME WInv, WorkerNext
  PROVE  SuccessWasRun'
<1>0. SuccessWasRun
  BY DEF WInv
<1>1. CASE accepted' = accepted /\ ran \subseteq ran'
  BY <1>0, <1>1 DEF SuccessWasRun
<1>2. ASSUME NEW c \in Consumers, ReportAnswered(c), ran' = ran
      PROVE  SuccessWasRun'
  <2>1. accepted' = accepted \/ accepted' = accepted \cup {<<job[c], result[c]>>}
    BY <1>2 DEF ReportAnswered
  <2>2. result[c] = "success" => job[c] \in ran
    BY <1>2 DEF ReportAnswered, WInv, ExecutionKnows
  <2> QED
    BY <1>0, <1>2, <2>1, <2>2 DEF SuccessWasRun
<1>3. ASSUME NEW c \in Consumers, ExecutionStep(c), UNCHANGED vars
      PROVE  SuccessWasRun'
  <2>1. ran \subseteq ran'
    BY <1>3 DEF ExecutionStep, PullImage, Clone, Checkout, CreateContainer, CopyWorkspaceToContainer,
       StartContainer, WaitContainer, GetLogs, RemoveContainer
  <2> QED
    BY <1>1, <1>3, <2>1 DEF vars
<1>4. ASSUME NEW c \in Consumers, MessageStep(c), ran' = ran, ~ReportAnswered(c)
      PROVE  SuccessWasRun'
  <2>1. OfHandler(c) \/ OfMessage(c) \/ OfRenewal(c)
    BY <1>4 DEF MessageStep, OfHandler, OfMessage, OfRenewal
  <2>2. accepted' = accepted
    BY <1>4, <2>1, HandlerFrame, MessageFrame, RenewalFrame
  <2> QED
    BY <1>1, <1>4, <2>2
<1>5. ASSUME NEW c \in Consumers, HandlerStep(c)
      PROVE  SuccessWasRun'
  BY <1>1, <1>2, <1>3, <1>4, <1>5 DEF HandlerStep, GoOn, ReturnResult, ExecuteJob
<1>6. CASE ServiceStep
  BY <1>1, <1>6 DEF ServiceStep, StartStep, ConnectDocker, ConnectBroker, EnsureCancelled, Spawn, Select,
     Cancel, Join
<1>7. CASE (ConnectionLost \/ Shutdown) /\ UNCHANGED <<execution, ran>>
  BY <1>1, <1>7 DEF ConnectionLost, Shutdown
<1>8. ASSUME NEW c \in Consumers, Deliver(c) \/ ChannelLost(c), UNCHANGED <<execution, ran>>
      PROVE  SuccessWasRun'
  BY <1>1, <1>8 DEF Deliver, ChannelLost
<1>9. CASE ProcessStep(ProcessEnds) \/ ProcessStep(Crash)
  BY <1>1, <1>9 DEF ProcessStep, ProcessEnds, Crash, NewProcess
<1> QED
  BY <1>5, <1>6, <1>7, <1>8, <1>9 DEF WorkerNext

-----------------------------------------------------------------------------
\* A new worker executes nothing.
LEMMA WorkerInitial == WorkerInit => WInv
<1> SUFFICES ASSUME WorkerInit PROVE WInv
  OBVIOUS
<1>1. IInv
  BY Initial DEF WorkerInit
<1>2. ExecutionTypes
  BY DEF WorkerInit, Idle, ExecutionTypes, Phases, Unheld
<1>3. SuccessWasRun /\ ServingKnows
  BY DEF WorkerInit, Init, SuccessWasRun, ServingKnows, AllOff
<1>4. ASSUME NEW c \in Consumers
      PROVE  ExecutionKnows(c)
  BY DEF WorkerInit, Init, Idle, ExecutionKnows, Untouched, NotFilled, Unheld
<1> QED
  BY <1>1, <1>2, <1>3, <1>4 DEF WInv

\* Every step keeps the invariant.
LEMMA WorkerInductive == WInv /\ [WorkerNext]_allVars => WInv'
<1>1. ASSUME WInv, WorkerNext
      PROVE  WInv'
  <2>1. IInv'
    BY <1>1, StepsOfPool, Inductive DEF WInv
  <2>2. ServingKnows'
    <3>1. CASE Next
      BY <1>1, <3>1, ServingStep DEF WInv
    <3>2. CASE vars' = vars
      BY <1>1, <3>2 DEF WInv, ServingKnows, AllOff, vars, starter
    <3> QED
      BY <1>1, <3>1, <3>2, StepsOfPool
  <2>3. ExecutionTypes' /\ SuccessWasRun'
    BY <1>1, ExecutionTypesStep, SuccessStep
  <2>4. \A c \in Consumers : ExecutionKnows(c)'
    BY <1>1, KnowledgeStep
  <2> QED
    BY <2>1, <2>2, <2>3, <2>4 DEF WInv
<1>2. ASSUME WInv, UNCHANGED allVars
      PROVE  WInv'
  <2>1. IInv'
    BY <1>2, Inductive DEF WInv, allVars
  <2>2. UNCHANGED <<execution, ran, pc, job, result, consumeCtx, main, docker, accepted>>
    BY <1>2 DEF allVars, vars, starter, handler
  <2>3. ServingKnows' /\ SuccessWasRun' /\ ExecutionTypes'
    BY <1>2, <2>2 DEF WInv, ServingKnows, AllOff, SuccessWasRun, ExecutionTypes, execution
  <2>4. \A c \in Consumers : ExecutionKnows(c)'
    BY <1>2, <2>2, NothingChanges DEF WInv, ExecutionStays, execution
  <2> QED
    BY <2>1, <2>2, <2>3, <2>4 DEF WInv
<1> QED
  BY <1>1, <1>2

\* The invariant holds in every state a worker reaches.
LEMMA WorkerInvariance == WorkerSpec => []WInv
BY WorkerInitial, WorkerInductive, PTL DEF WorkerSpec

\* The state of the worker and of its executions has its types, and errCh never
\* overflows.
THEOREM WorkerTypeCorrect == WorkerSpec => []WorkerTypeOK
<1>1. WInv => WorkerTypeOK
  BY InvariantTypes DEF WInv, WorkerTypeOK
<1> QED
  BY <1>1, WorkerInvariance, PTL

\* Spelling ExecuteJob out adds no behaviour to the pool, so no message is lost or
\* dropped before its report, and a job cut short stays unreported.
THEOREM WorkerKeepsMessages == WorkerSpec => [](NoJobIsLost /\ AckedWereReported /\ InterruptedIsNotReported)
<1>1. WInv => NoJobIsLost /\ AckedWereReported /\ InterruptedIsNotReported
  BY DEF WInv, IInv
<1> QED
  BY <1>1, WorkerInvariance, PTL

\* ExecuteJob returns on no path before it has tried to remove its directory and its
\* container: what is there between executions could not be removed or was left by a
\* process that ended.
THEOREM CleansUp == WorkerSpec => []NothingLeftBehind
<1>1. WInv => NothingLeftBehind
  BY DEF WInv, ExecutionKnows, Untouched, NothingLeftBehind
<1> QED
  BY <1>1, WorkerInvariance, PTL

\* The orchestrator hears of a success only if a container with the right files
\* exited with 0.
THEOREM SuccessIsEarned == WorkerSpec => []SuccessWasRun
<1>1. WInv => SuccessWasRun
  BY DEF WInv
<1> QED
  BY <1>1, WorkerInvariance, PTL

\* Start closes the Docker client, to connect again, under no consumer that runs.
THEOREM DockerOutlivesConsumers == WorkerSpec => []DockerStaysOpen
<1>1. WInv => DockerStaysOpen
  <2> SUFFICES ASSUME WInv, NEW c \in Consumers, pc[c] # "off" PROVE docker
    BY DEF DockerStaysOpen
  <2>1. main \in {"ensure", "spawn", "select", "parked", "cancel", "join", "returned"}
    BY DEF WInv, IInv, Types
  <2> QED
    BY <2>1 DEF WInv, ServingKnows, AllOff
<1> QED
  BY <1>1, WorkerInvariance, PTL
====
