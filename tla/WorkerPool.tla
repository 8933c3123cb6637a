----------------------------- MODULE WorkerPool -----------------------------
(***************************************************************************)
(* One worker service: the goroutine of Start, which keeps the connection  *)
(* to the broker and the Docker client, and the consumers it runs, each    *)
(* with a channel of that connection (internal/services/worker,            *)
(* internal/mq/rabbitmq_cli.go).                                           *)
(*                                                                         *)
(* The broker hands every message it has to some consuming channel: no     *)
(* prefetch limit is set, so deliveries pile up in the client's buffer.    *)
(* When a channel ends, the broker puts what was not acknowledged back in  *)
(* the queue, while the client may still hand out what it had buffered.    *)
(***************************************************************************)
EXTENDS Naturals, Sequences

CONSTANTS
  Jobs,        \* messages in the job queue
  Consumers,   \* WORKER_CONCURRENCY consumers
  NoJob,
  MaxFaults    \* bound, for "connection", "channel", "reopen", "callback", "shutdown" and
               \* "crash": the number of faults, of all kinds, up to which one of this kind occurs

ASSUME PoolAssumption == Consumers # {} /\ NoJob \notin Jobs

VARIABLES
  ready, unacked,        \* broker: messages in the queue, and sent on the channel of a consumer
  acked,                 \* messages the broker has dropped
  conn, chan, buffer,    \* client: the connection, its channels and their deliveries
  docker,                \* whether s.docker is set
  ctx, consumeCtx,       \* "live" or "done"
  main, outcome, errCh,  \* Start and consumeWorkers
  pc, job, result,       \* per consumer: Consume and handleJobMessage
  accepted,              \* <<job, result>> of the reports the orchestrator took
  faults

broker == <<ready, unacked, acked>>
link == <<conn, chan, buffer>>
starter == <<docker, ctx, consumeCtx, main, outcome, errCh>>
handler == <<job, result>>
vars == <<broker, link, starter, pc, handler, accepted, faults>>

Labels == {"off", "start", "receive", "started", "execute", "report", "sent",
           "ack", "nack", "reconnect", "reopen", "sleep"}

Types ==
  /\ ready \subseteq Jobs /\ acked \subseteq Jobs
  /\ unacked \in [Consumers -> SUBSET Jobs] /\ buffer \in [Consumers -> SUBSET Jobs]
  /\ conn \in {"none", "up", "lost"}
  /\ chan \in [Consumers -> {"none", "open", "consuming", "closed"}]
  /\ docker \in BOOLEAN
  /\ ctx \in {"live", "done"} /\ consumeCtx \in {"live", "done"}
  /\ main \in {"ensure", "spawn", "select", "parked", "cancel", "join", "returned"}
  /\ outcome \in {"none", "lost", "fatal", "ctx", "clean"}
  /\ errCh \in Seq({"lost", "fatal"})
  /\ pc \in [Consumers -> Labels]
  /\ job \in [Consumers -> Jobs \cup {NoJob}]
  /\ result \in [Consumers -> {"none", "success", "failed", "interrupted"}]
  /\ accepted \subseteq Jobs \X {"success", "failed", "interrupted"}
  /\ faults \in Nat

\* Types; no consumer blocks on errCh, which has room for one error of each: its
\* errors are of different consumers.
TypeOK ==
  /\ Types
  /\ \E from \in [DOMAIN errCh -> Consumers] : \A i, k \in DOMAIN errCh : from[i] = from[k] => i = k

Init ==
  /\ ready = Jobs /\ unacked = [c \in Consumers |-> {}] /\ acked = {}
  /\ conn = "none" /\ chan = [c \in Consumers |-> "none"] /\ buffer = [c \in Consumers |-> {}]
  /\ docker = FALSE /\ ctx = "live" /\ consumeCtx = "live"
  /\ main = "ensure" /\ outcome = "none" /\ errCh = <<>>
  /\ pc = [c \in Consumers |-> "off"] /\ job = [c \in Consumers |-> NoJob]
  /\ result = [c \in Consumers |-> "none"]
  /\ accepted = {} /\ faults = 0

Spend(kind) == kind \in DOMAIN MaxFaults /\ faults < MaxFaults[kind] /\ faults' = faults + 1

Goto(c, label) == pc' = [pc EXCEPT ![c] = label]
AllOff == \A c \in Consumers : pc[c] = "off"

\* The broker takes back what it sent on channels that are gone.
Requeue(gone) ==
  /\ ready' = ready \cup UNION {unacked[c] : c \in gone}
  /\ unacked' = [c \in Consumers |-> IF c \in gone THEN {} ELSE unacked[c]]
  /\ UNCHANGED acked

\* Close: the connection goes, with all its channels.
Disconnect ==
  /\ conn' = "none"
  /\ chan' = [c \in Consumers |-> "none"]
  /\ buffer' = [c \in Consumers |-> {}]
  /\ Requeue(Consumers)

-----------------------------------------------------------------------------
\* ensureDependencies: failed attempts are repeated after a pause and change nothing.
ConnectDocker ==
  /\ main = "ensure" /\ ctx = "live" /\ ~docker
  /\ docker' = TRUE
  /\ UNCHANGED <<broker, link, ctx, consumeCtx, main, outcome, errCh, pc, handler, accepted, faults>>

\* Dial and createJobConsumers: every consumer has a channel, or none has.
ConnectBroker ==
  /\ main = "ensure" /\ ctx = "live" /\ docker
  /\ conn' = "up"
  /\ chan' = [c \in Consumers |-> "open"]
  /\ main' = "spawn"
  /\ UNCHANGED <<broker, buffer, docker, ctx, consumeCtx, outcome, errCh, pc, handler, accepted, faults>>

EnsureCancelled ==
  /\ main = "ensure" /\ ctx = "done"
  /\ main' = "returned" /\ outcome' = "ctx"
  /\ UNCHANGED <<broker, link, docker, ctx, consumeCtx, errCh, pc, handler, accepted, faults>>

\* consumeWorkers starts a goroutine for each consumer ...
Spawn ==
  /\ main = "spawn"
  /\ consumeCtx' = ctx /\ errCh' = <<>> /\ outcome' = "none"
  /\ pc' = [c \in Consumers |-> "start"]
  /\ main' = "select"
  /\ UNCHANGED <<broker, link, docker, ctx, handler, accepted, faults>>

\* ... and selects: one of the cases that are ready, whichever, or it parks.
Select ==
  /\ main = "select"
  /\ \/ errCh # <<>> /\ main' = "cancel" /\ outcome' = Head(errCh)
     \/ ctx = "done" /\ main' = "cancel" /\ outcome' = "ctx"
     \/ AllOff /\ main' = "returned" /\ outcome' = "clean"
     \/ errCh = <<>> /\ ctx = "live" /\ ~AllOff /\ main' = "parked" /\ UNCHANGED outcome
  /\ UNCHANGED <<broker, link, docker, ctx, consumeCtx, errCh, pc, handler, accepted, faults>>

Cancel ==
  /\ main = "cancel"
  /\ consumeCtx' = "done" /\ main' = "join"
  /\ UNCHANGED <<broker, link, docker, ctx, outcome, errCh, pc, handler, accepted, faults>>

\* Mutant: Start does not wait for the consumers it cancelled.
JoinAtOnce ==
  /\ main = "join"
  /\ IF outcome = "lost" /\ ctx = "live"
     THEN Disconnect /\ docker' = FALSE /\ main' = "ensure"
     ELSE main' = "returned" /\ UNCHANGED <<broker, link, docker>>
  /\ UNCHANGED <<ctx, consumeCtx, outcome, errCh, pc, handler, accepted, faults>>

\* All consumers are back: Start connects again after a lost connection, else it returns.
Join ==
  /\ main = "join" /\ AllOff
  /\ IF outcome = "lost" /\ ctx = "live"
     THEN Disconnect /\ docker' = FALSE /\ main' = "ensure"
     ELSE main' = "returned" /\ UNCHANGED <<broker, link, docker>>
  /\ UNCHANGED <<ctx, consumeCtx, outcome, errCh, pc, handler, accepted, faults>>

-----------------------------------------------------------------------------
\* A consumer returns.  An error counts only while consumeCtx is live; a parked
\* select receives it at once.
Exit(c, err) ==
  /\ Goto(c, "off")
  /\ IF consumeCtx = "done" THEN UNCHANGED <<main, outcome, errCh>>
     ELSE IF main = "parked" THEN main' = "cancel" /\ outcome' = err /\ UNCHANGED errCh
     ELSE errCh' = Append(errCh, err) /\ UNCHANGED <<main, outcome>>

StartConsume(c) ==
  /\ pc[c] = "start"
  /\ IF chan[c] = "open"
     THEN chan' = [chan EXCEPT ![c] = "consuming"] /\ Goto(c, "receive")
     ELSE Goto(c, "reconnect") /\ UNCHANGED chan
  /\ UNCHANGED <<broker, conn, buffer, starter, handler, accepted, faults>>

\* The broker pushes a message to a channel that consumes.
Deliver(c) ==
  /\ chan[c] = "consuming"
  /\ \E m \in ready :
       /\ ready' = ready \ {m}
       /\ unacked' = [unacked EXCEPT ![c] = @ \cup {m}]
       /\ buffer' = [buffer EXCEPT ![c] = @ \cup {m}]
  /\ UNCHANGED <<acked, conn, chan, starter, pc, handler, accepted, faults>>

\* Mutant: a closed delivery channel is taken for an empty one.
ReceiveIgnoresClosed(c) ==
  /\ pc[c] = "receive"
  /\ \/ \E m \in buffer[c] :
          /\ buffer' = [buffer EXCEPT ![c] = @ \ {m}]
          /\ job' = [job EXCEPT ![c] = m]
          /\ Goto(c, "started")
     \/ consumeCtx = "done" /\ Goto(c, "off") /\ UNCHANGED <<buffer, job>>
  /\ UNCHANGED <<broker, conn, chan, starter, result, accepted, faults>>

\* The select of Consume: any of the cases that are ready.
Receive(c) ==
  /\ pc[c] = "receive"
  /\ \/ \E m \in buffer[c] :
          /\ buffer' = [buffer EXCEPT ![c] = @ \ {m}]
          /\ job' = [job EXCEPT ![c] = m]
          /\ Goto(c, "started")
     \/ /\ consumeCtx = "done"
        /\ Goto(c, "off") /\ UNCHANGED <<buffer, job>>
     \/ /\ chan[c] = "closed"
        /\ buffer' = [buffer EXCEPT ![c] = {}]
        /\ Goto(c, "reconnect") /\ UNCHANGED job
  /\ UNCHANGED <<broker, conn, chan, starter, result, accepted, faults>>

\* handleJobMessage: without the "started" callback the message goes back.
CallbackJobStarted(c) ==
  /\ pc[c] = "started"
  /\ \/ consumeCtx = "live" /\ Goto(c, "execute") /\ UNCHANGED faults
     \/ consumeCtx = "live" /\ Spend("callback") /\ Goto(c, "nack")
     \/ consumeCtx = "done" /\ Goto(c, "nack") /\ UNCHANGED faults
  /\ UNCHANGED <<broker, link, starter, handler, accepted>>

\* The containers end, or the context does, which looks like a failure.
ExecuteJob(c) ==
  /\ pc[c] = "execute"
  /\ \E r \in {"success", "failed"} \cup (IF consumeCtx = "done" THEN {"interrupted"} ELSE {}) :
       result' = [result EXCEPT ![c] = r]
  /\ Goto(c, "report")
  /\ UNCHANGED <<broker, link, starter, job, accepted, faults>>

\* Mutant: the report does not use the context of the consumer.
SendReportDetached(c) ==
  /\ pc[c] = "report" /\ Goto(c, "sent")
  /\ UNCHANGED <<broker, link, starter, handler, accepted, faults>>

\* reportJobFinishedUntilSuccess: a request under a context that is done fails, and
\* so does the pause before the next one.
SendReport(c) ==
  /\ pc[c] = "report"
  /\ Goto(c, IF consumeCtx = "live" THEN "sent" ELSE "nack")
  /\ UNCHANGED <<broker, link, starter, handler, accepted, faults>>

\* Mutant: a report that fails is given up and the message dropped.
ReportAnsweredGivesUp(c) ==
  /\ pc[c] = "sent"
  /\ \/ /\ accepted' = accepted \cup {<<job[c], result[c]>>} /\ UNCHANGED faults
     \/ Spend("callback") /\ UNCHANGED accepted
  /\ Goto(c, "ack")
  /\ UNCHANGED <<broker, link, starter, handler>>

\* The orchestrator takes the report or not, and the worker hears of it or not.
ReportAnswered(c) ==
  /\ pc[c] = "sent"
  /\ \/ /\ accepted' = accepted \cup {<<job[c], result[c]>>}
        /\ Goto(c, "ack") /\ UNCHANGED faults
     \/ /\ accepted' \in {accepted, accepted \cup {<<job[c], result[c]>>}}
        /\ \/ Spend("callback") /\ Goto(c, "report")
           \/ consumeCtx = "done" /\ Goto(c, "nack") /\ UNCHANGED faults
  /\ UNCHANGED <<broker, link, starter, handler>>

\* An acknowledgement on a channel that is gone fails; the broker has the message again.
Ack(c) ==
  /\ pc[c] = "ack"
  /\ IF chan[c] = "consuming"
     THEN /\ unacked' = [unacked EXCEPT ![c] = @ \ {job[c]}]
          /\ acked' = acked \cup {job[c]}
          /\ Goto(c, "receive")
     ELSE Goto(c, "reconnect") /\ UNCHANGED <<unacked, acked>>
  /\ job' = [job EXCEPT ![c] = NoJob] /\ result' = [result EXCEPT ![c] = "none"]
  /\ UNCHANGED <<ready, link, starter, accepted, faults>>

\* Mutant: the message is rejected without being put back in the queue.
NackDrops(c) ==
  /\ pc[c] = "nack"
  /\ unacked' = [unacked EXCEPT ![c] = @ \ {job[c]}]
  /\ Goto(c, "receive")
  /\ job' = [job EXCEPT ![c] = NoJob] /\ result' = [result EXCEPT ![c] = "none"]
  /\ UNCHANGED <<ready, acked, link, starter, accepted, faults>>

Nack(c) ==
  /\ pc[c] = "nack"
  /\ IF chan[c] = "consuming"
     THEN /\ unacked' = [unacked EXCEPT ![c] = @ \ {job[c]}]
          /\ ready' = ready \cup {job[c]}
     ELSE UNCHANGED <<unacked, ready>>
  /\ Goto(c, "receive")
  /\ job' = [job EXCEPT ![c] = NoJob] /\ result' = [result EXCEPT ![c] = "none"]
  /\ UNCHANGED <<acked, link, starter, accepted, faults>>

\* Mutant: the consumer reports the lost connection and tries again.
ReconnectKeepsGoing(c) ==
  /\ pc[c] = "reconnect"
  /\ IF conn = "up" THEN Goto(c, "reopen") /\ UNCHANGED errCh
     ELSE errCh' = Append(errCh, "lost") /\ UNCHANGED pc
  /\ UNCHANGED <<broker, link, docker, ctx, consumeCtx, main, outcome, handler, accepted, faults>>

\* reconnect: the connection is checked first ...
Reconnect(c) ==
  /\ pc[c] = "reconnect"
  /\ IF conn = "up" THEN Goto(c, "reopen") /\ UNCHANGED <<main, outcome, errCh>>
     ELSE Exit(c, "lost")
  /\ UNCHANGED <<broker, link, docker, ctx, consumeCtx, handler, accepted, faults>>

\* ... and a connection lost since then makes the new channel a fatal error.
Reopen(c) ==
  /\ pc[c] = "reopen"
  /\ IF conn = "up"
     THEN /\ \/ chan' = [chan EXCEPT ![c] = "open"] /\ UNCHANGED faults
             \/ Spend("reopen") /\ chan' = [chan EXCEPT ![c] = "none"]
          /\ buffer' = [buffer EXCEPT ![c] = {}]
          /\ Goto(c, "sleep")
          /\ UNCHANGED <<main, outcome, errCh>>
     ELSE Exit(c, "fatal") /\ UNCHANGED <<chan, buffer, faults>>
  /\ UNCHANGED <<broker, conn, docker, ctx, consumeCtx, handler, accepted>>

Sleep(c) ==
  /\ pc[c] = "sleep"
  /\ Goto(c, IF consumeCtx = "live" THEN "start" ELSE "off")
  /\ UNCHANGED <<broker, link, starter, handler, accepted, faults>>

-----------------------------------------------------------------------------
\* The connection breaks: all channels are closed.
ConnectionLost ==
  /\ conn = "up" /\ Spend("connection")
  /\ conn' = "lost"
  /\ chan' = [c \in Consumers |-> IF chan[c] = "none" THEN "none" ELSE "closed"]
  /\ Requeue(Consumers)
  /\ UNCHANGED <<buffer, starter, pc, handler, accepted>>

\* The broker closes one channel.
ChannelLost(c) ==
  /\ chan[c] \in {"open", "consuming"} /\ Spend("channel")
  /\ chan' = [chan EXCEPT ![c] = "closed"]
  /\ Requeue({c})
  /\ UNCHANGED <<conn, buffer, starter, pc, handler, accepted>>

\* SIGTERM: ctx and with it consumeCtx are done; a parked select takes that case.
Shutdown ==
  /\ ctx = "live" /\ Spend("shutdown")
  /\ ctx' = "done" /\ consumeCtx' = "done"
  /\ IF main = "parked" THEN main' = "cancel" /\ outcome' = "ctx" ELSE UNCHANGED <<main, outcome>>
  /\ UNCHANGED <<broker, link, docker, errCh, pc, handler, accepted>>

\* The process is gone and a new one starts.
NewProcess ==
  /\ Disconnect
  /\ docker' = FALSE /\ ctx' = "live" /\ consumeCtx' = "live"
  /\ main' = "ensure" /\ outcome' = "none" /\ errCh' = <<>>
  /\ pc' = [c \in Consumers |-> "off"] /\ job' = [c \in Consumers |-> NoJob]
  /\ result' = [c \in Consumers |-> "none"]
  /\ UNCHANGED accepted

\* main() ends after a signal or an error of Start; it waits for no consumer.
ProcessEnds ==
  /\ ctx = "done" \/ (main = "returned" /\ outcome \in {"lost", "fatal"})
  /\ NewProcess /\ UNCHANGED faults

Crash == Spend("crash") /\ NewProcess

StartStep == ConnectDocker \/ ConnectBroker \/ EnsureCancelled \/ Spawn \/ Select \/ Cancel \/ Join

MessageStep(c) ==
  \/ StartConsume(c) \/ Receive(c) \/ CallbackJobStarted(c)
  \/ SendReport(c) \/ ReportAnswered(c) \/ Ack(c) \/ Nack(c)
  \/ Reconnect(c) \/ Reopen(c) \/ Sleep(c)

ConsumerStep(c) == MessageStep(c) \/ ExecuteJob(c)

Next ==
  \/ StartStep
  \/ \E c \in Consumers : ConsumerStep(c) \/ Deliver(c) \/ ChannelLost(c)
  \/ ConnectionLost \/ Shutdown \/ ProcessEnds \/ Crash

\* Goroutines are scheduled, the broker delivers what it has, and a pod that ends
\* is replaced by its Deployment.
Fairness ==
  /\ WF_vars(StartStep) /\ WF_vars(ProcessEnds)
  /\ \A c \in Consumers : WF_vars(ConsumerStep(c)) /\ WF_vars(Deliver(c))

Spec == Init /\ [][Next]_vars /\ Fairness

-----------------------------------------------------------------------------
\* No message gets lost: until it is acknowledged the broker has it, in the queue
\* or under way on a channel that still exists (Nack with requeue in Consume).
NoJobIsLost ==
  /\ Jobs = ready \cup acked \cup UNION {unacked[c] : c \in Consumers}
  /\ \A c \in Consumers : unacked[c] # {} => chan[c] = "consuming"

\* The broker drops a message only after the orchestrator has taken the result of
\* its job: handleJobMessage returns nil on no other path.
AckedWereReported == \A m \in acked : \E r \in {"success", "failed"} : <<m, r>> \in accepted

\* A job that was cut short because the worker stops or reconnects is never
\* reported as failed: ExecuteJob and the report share the context that ended.
InterruptedIsNotReported == \A m \in Jobs : <<m, "interrupted">> \notin accepted

\* Every job is reported and acknowledged in the end, whatever connections,
\* channels and callbacks fail on the way.  The exception is a Start that
\* returned nil although nothing told it to.
EveryJobIsDone == <>(acked = Jobs \/ (outcome = "clean" /\ ctx # "done"))

\* The comment on Start says that it "blocks and consumes jobs from RabbitMQ until
\* ctx is cancelled or consuming fails": it does not return nil while ctx is live.
ConsumesUntilCancelled == (main = "returned" /\ outcome = "clean") => ctx = "done"
====
