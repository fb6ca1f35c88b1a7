------------------------- MODULE ThreadedTransport -------------------------
(***************************************************************************)
(* The transport between the vehicle and its backend: threaded_transport.c *)
(* with the queue of msgqueue.c, the producer and the consumer of the RVI  *)
(* transport the service is built with, and the pipe of glib_dispatcher.c. *)
(*                                                                         *)
(* Messages out: any thread pushes to a queue, the producer thread sends.  *)
(* It sleeps on _emptyLock, a mutex that whoever fills the queue unlocks.  *)
(* Messages in: the consumer thread queues them and writes an event to a   *)
(* pipe, which makes the main thread empty the queue.                      *)
(*                                                                         *)
(* A step is one section under a lock, or what happens between two of      *)
(* them.  Messages are numbered as they are accepted, or as they arrive.   *)
(***************************************************************************)
EXTENDS Integers, Sequences, Functions

CONSTANTS
    Main, Producer, Consumer,  \* the main thread and those of the transport
    Callers,      \* other threads that send: the websocket's, an upgrade's
    PipeSize,     \* the events the pipe holds
    MaxSent,      \* bound: messages accepted
    MaxReceived,  \* bound: messages that arrive
    MaxFaults     \* bound: failures to set up, to send, to allocate

Users   == {Main} \cup Callers
Threads == Users \cup {Producer, Consumer}

ASSUME ThreadAssumption ==
    /\ Main \notin Callers \cup {Producer, Consumer}
    /\ Producer \notin Callers \cup {Consumer} /\ Consumer \notin Callers
ASSUME BoundAssumption ==
    /\ PipeSize \in Nat \ {0}
    /\ MaxSent \in Nat /\ MaxReceived \in Nat /\ MaxFaults \in Nat

VARIABLES
    sendQ,        \* the producer's _queue
    emptyLocked,  \* _emptyLock is locked
    sending,      \* the message the producer has popped, 0 for none
    recvQ,        \* the consumer's _queue
    got,          \* _received
    pipe,         \* events in the pipe
    goOn,         \* _continue
    breakReceive, \* _breakReceive
    freed,        \* transport_cleanup has released everything
    dead,         \* the process has died
    pc, back,     \* per thread: where it is, and where its clean-up returns to
    accepted, received, taken, \* history: messages accepted, arrived, handed on
    published, gone,           \* history: what the backend has, what was dropped
    failed,                    \* history: messages that were once not sent
    faults

out     == <<sendQ, emptyLocked, sending>>
in      == <<recvQ, got, pipe>>
flags   == <<goOn, breakReceive, freed, dead>>
outHist == <<accepted, published, gone, failed>>
inHist  == <<received, taken>>
vars == <<out, in, flags, pc, back, outHist, inHist, faults>>

Init ==
    /\ sendQ = <<>> /\ emptyLocked = FALSE /\ sending = 0
    /\ recvQ = <<>> /\ got = 0 /\ pipe = 0
    /\ goOn = TRUE /\ breakReceive = FALSE /\ freed = FALSE /\ dead = FALSE
    /\ pc = [t \in Threads |-> IF t = Main THEN "initConsumer"
                               ELSE IF t \in Callers THEN "idle" ELSE "off"]
    /\ back = [t \in Users |-> "end"]
    /\ accepted = 0 /\ received = 0 /\ taken = 0
    /\ published = <<>> /\ gone = <<>> /\ failed = {}
    /\ faults = 0

-----------------------------------------------------------------------------
Fault   == faults < MaxFaults /\ faults' = faults + 1
NoFault == UNCHANGED faults

At(t, label)   == pc[t] = label /\ ~dead
Goto(t, label) == pc' = [pc EXCEPT ![t] = label]

\* Unlocking a mutex that is not locked, or locked by another, unlocks it.
UnlockIfEmpty == emptyLocked' = (emptyLocked /\ sendQ # <<>>)

\* Use of what was freed is undefined: the process dies, or gets away with it.
UseFreed(t, label) ==
    /\ NoFault
    /\ dead' \in BOOLEAN
    /\ Goto(t, label)
    /\ UNCHANGED <<out, in, goOn, breakReceive, freed, back, outHist, inHist>>

-----------------------------------------------------------------------------
\* transport_init.  A failure cleans up what was set up before it.
InitStep(from, to) ==
    /\ At(Main, from)
    /\ \/ NoFault /\ Goto(Main, to)
       \/ Fault /\ Goto(Main, "stop")
    /\ UNCHANGED <<in, flags, back, outHist, inHist, sendQ, sending>>

InitConsumer == InitStep("initConsumer", "startConsumer") /\ UNCHANGED emptyLocked

StartThread(from, t, to) ==
    /\ At(Main, from)
    /\ \/ NoFault /\ pc' = [pc EXCEPT ![Main] = to, ![t] = "check"]
       \/ Fault /\ Goto(Main, "stop")
    /\ UNCHANGED <<out, in, flags, outHist, inHist>>

StartConsumer == StartThread("startConsumer", Consumer, "initProducer") /\ UNCHANGED back

InitProducer ==
    InitStep("initProducer", "startProducer") /\ emptyLocked' = (pc'[Main] = "startProducer")

StartProducer ==
    /\ StartThread("startProducer", Producer, "loop")
    /\ back' = [back EXCEPT ![Main] = IF pc'[Main] = "loop" THEN "loop" ELSE "end"]

-----------------------------------------------------------------------------
\* threaded_producer_pushMsg, once transport_init has succeeded: the mutex is
\* unlocked before the message is copied, and stays so when there is no memory
\* for the copy.
Initializing == back[Main] = "end"
MayUse(t) == At(t, IF t = Main THEN "loop" ELSE "idle") \/ (t = Main /\ At(t, "handle"))

\* Mutant: the message goes to the front.
SendToFront(t) ==
    /\ MayUse(t) /\ ~Initializing /\ ~freed /\ accepted < MaxSent
    /\ NoFault
    /\ accepted' = accepted + 1 /\ sendQ' = <<accepted + 1>> \o sendQ
    /\ UnlockIfEmpty
    /\ UNCHANGED <<sending, in, flags, pc, back, published, gone, failed, inHist>>

Send(t) ==
    /\ MayUse(t) /\ ~Initializing
    /\ \/ /\ ~freed /\ accepted < MaxSent
          /\ \/ NoFault /\ accepted' = accepted + 1 /\ sendQ' = Append(sendQ, accepted + 1)
             \/ Fault /\ UNCHANGED <<accepted, sendQ>>
          /\ UnlockIfEmpty
          /\ UNCHANGED <<sending, in, flags, pc, back, published, gone, failed, inHist>>
       \/ freed /\ UseFreed(t, pc[t])

-----------------------------------------------------------------------------
\* producerRun and threaded_producer_sendNext

ProducerChecks ==
    /\ At(Producer, "check")
    /\ Goto(Producer, IF goOn THEN "wait" ELSE "done")
    /\ UNCHANGED <<out, in, flags, back, outHist, inHist, faults>>

LockEmpty ==
    /\ At(Producer, "wait") /\ ~emptyLocked
    /\ emptyLocked' = TRUE
    /\ Goto(Producer, "pop")
    /\ UNCHANGED <<sendQ, sending, in, flags, back, outHist, inHist, faults>>

\* Mutant: the mutex stays locked although there is more in the queue.
PopStaysLocked ==
    /\ At(Producer, "pop") /\ sendQ # <<>>
    /\ sending' = Head(sendQ) /\ sendQ' = Tail(sendQ)
    /\ Goto(Producer, "publish")
    /\ UNCHANGED <<emptyLocked, in, flags, back, outHist, inHist, faults>>

PopToSend ==
    /\ At(Producer, "pop")
    /\ \/ /\ sendQ # <<>>
          /\ sending' = Head(sendQ) /\ sendQ' = Tail(sendQ)
          /\ emptyLocked' = (emptyLocked /\ Tail(sendQ) = <<>>)
          /\ Goto(Producer, "publish")
       \/ sendQ = <<>> /\ UNCHANGED out /\ Goto(Producer, "check")
    /\ UNCHANGED <<in, flags, back, outHist, inHist, faults>>

\* publishMessage, without a lock.
Publish ==
    /\ At(Producer, "publish")
    /\ \/ /\ NoFault
          /\ published' = Append(published, sending) /\ sending' = 0
          /\ Goto(Producer, "check") /\ UNCHANGED failed
       \/ /\ Fault
          /\ failed' = failed \cup {sending}
          /\ Goto(Producer, "pushBack") /\ UNCHANGED <<published, sending>>
    /\ UNCHANGED <<sendQ, emptyLocked, in, flags, back, accepted, gone, inHist>>

\* Mutant: the message is released whatever became of it.
DropUnsent ==
    /\ At(Producer, "pushBack")
    /\ NoFault /\ sending' = 0
    /\ Goto(Producer, "check")
    /\ UNCHANGED <<sendQ, emptyLocked, gone, in, flags, back, accepted, published, failed, inHist>>

\* A message that was not sent goes back to the queue, behind the others.
PushBack ==
    /\ At(Producer, "pushBack")
    /\ \/ NoFault /\ sendQ' = Append(sendQ, sending) /\ UnlockIfEmpty /\ UNCHANGED gone
       \/ Fault /\ gone' = Append(gone, sending) /\ UNCHANGED <<sendQ, emptyLocked>>
    /\ sending' = 0
    /\ Goto(Producer, "check")
    /\ UNCHANGED <<in, flags, back, accepted, published, failed, inHist>>

-----------------------------------------------------------------------------
\* consumerRun and threaded_consumer_receiveNext

ConsumerChecks ==
    /\ At(Consumer, "check")
    /\ Goto(Consumer, IF goOn THEN "receive" ELSE "done")
    /\ UNCHANGED <<out, in, flags, back, outHist, inHist, faults>>

CheckBreak ==
    /\ At(Consumer, "receive")
    /\ \/ breakReceive /\ Goto(Consumer, "check") /\ UNCHANGED got
       \/ ~breakReceive /\ Goto(Consumer, "iterate") /\ got' = 0
    /\ UNCHANGED <<out, recvQ, pipe, flags, back, outHist, inHist, faults>>

\* g_main_context_iteration sleeps until there is an event, and returns when
\* it has dispatched those there are: messages, or other requests.
Arrive ==
    /\ At(Consumer, "iterate") /\ received < MaxReceived
    /\ received' = received + 1
    /\ recvQ' = Append(recvQ, received + 1)
    /\ got' = got + 1
    /\ UNCHANGED <<out, pipe, flags, pc, back, outHist, taken, faults>>

DispatchedMessages ==
    /\ At(Consumer, "iterate") /\ got > 0
    /\ Goto(Consumer, "post")
    /\ UNCHANGED <<out, in, flags, back, outHist, inHist, faults>>

DispatchedOther ==
    /\ At(Consumer, "iterate") /\ got = 0
    /\ Goto(Consumer, "receive")
    /\ UNCHANGED <<out, in, flags, back, outHist, inHist, faults>>

\* Mutant: the pipe takes every event.
PostAlwaysFits ==
    /\ At(Consumer, "post")
    /\ pipe' = pipe + 1
    /\ Goto(Consumer, "check")
    /\ UNCHANGED <<out, recvQ, got, flags, back, outHist, inHist, faults>>

\* dispatcher_postEvent: an event that does not fit into the pipe is dropped.
PostEvent ==
    /\ At(Consumer, "post")
    /\ pipe' = IF pipe < PipeSize THEN pipe + 1 ELSE pipe
    /\ Goto(Consumer, "check")
    /\ UNCHANGED <<out, recvQ, got, flags, back, outHist, inHist, faults>>

-----------------------------------------------------------------------------
\* sourceClbk and eventHandler.  When the transport is gone so is _initThread,
\* and the handler returns at once.
ReadEvent ==
    /\ At(Main, "loop") /\ pipe > 0
    /\ pipe' = pipe - 1
    /\ Goto(Main, IF freed THEN "loop" ELSE "drain")
    /\ UNCHANGED <<out, recvQ, got, flags, back, outHist, inHist, faults>>

\* Mutant: the message is handed on, and left in the queue.
PeekMsg ==
    /\ At(Main, "drain") /\ ~freed /\ recvQ # <<>>
    /\ NoFault /\ taken' = taken + 1 /\ Goto(Main, "handle")
    /\ UNCHANGED <<recvQ, received, out, got, pipe, flags, back, outHist>>

PopMsg ==
    /\ At(Main, "drain")
    /\ \/ /\ ~freed /\ recvQ # <<>>
          /\ NoFault /\ recvQ' = Tail(recvQ) /\ taken' = Head(recvQ) /\ Goto(Main, "handle")
          /\ UNCHANGED <<out, got, pipe, flags, back, outHist, received>>
       \/ /\ ~freed /\ recvQ = <<>>
          /\ NoFault /\ Goto(Main, "loop")
          /\ UNCHANGED <<out, in, flags, back, outHist, inHist>>
       \/ freed /\ UseFreed(Main, "loop")

\* Mutant: one message for each event.
HandledOne ==
    /\ At(Main, "handle")
    /\ Goto(Main, "loop")
    /\ UNCHANGED <<out, in, flags, back, outHist, inHist, faults>>

HandlerReturns ==
    /\ At(Main, "handle")
    /\ Goto(Main, "drain")
    /\ UNCHANGED <<out, in, flags, back, outHist, inHist, faults>>

-----------------------------------------------------------------------------
\* transport_cleanup, called by a thread that meets the broken state: in a
\* handler, in an event of its own, or on a thread of its own.  Two clean-ups
\* at once are not modelled.
CleanUpLabels == {"stop", "pushNull", "joinProducer", "break", "joinConsumer", "free"}

CleanUp(t) ==
    /\ MayUse(t) /\ ~Initializing /\ ~freed
    /\ \A u \in Users : pc[u] \notin CleanUpLabels
    /\ Goto(t, "stop")
    /\ back' = [back EXCEPT ![t] = IF pc[t] = "handle" THEN "drain" ELSE pc[t]]
    /\ UNCHANGED <<out, in, flags, outHist, inHist, faults>>

Stop(t) ==
    /\ At(t, "stop")
    /\ goOn' = FALSE
    /\ Goto(t, "pushNull")
    /\ UNCHANGED <<out, in, breakReceive, freed, dead, back, outHist, inHist, faults>>

\* Mutant: an empty message is refused at once.
PushNullRefused(t) ==
    /\ At(t, "pushNull")
    /\ Goto(t, "joinProducer")
    /\ UNCHANGED <<out, in, flags, back, outHist, inHist, faults>>

\* threaded_producer_pushMsg(0, 0)
PushNull(t) ==
    /\ At(t, "pushNull")
    /\ UnlockIfEmpty
    /\ Goto(t, "joinProducer")
    /\ UNCHANGED <<sendQ, sending, in, flags, back, outHist, inHist, faults>>

Join(t, from, thread, to) ==
    /\ At(t, from) /\ pc[thread] \in {"off", "done"}
    /\ Goto(t, to)
    /\ UNCHANGED <<out, in, flags, back, outHist, inHist, faults>>

\* Mutant: the consumer is not waited for.
ConsumerNotJoined(t) ==
    /\ At(t, "joinConsumer")
    /\ Goto(t, "free")
    /\ UNCHANGED <<out, in, flags, back, outHist, inHist, faults>>

\* Mutant: the producer is not waited for.
ProducerNotJoined(t) ==
    /\ At(t, "joinProducer")
    /\ Goto(t, "break")
    /\ UNCHANGED <<out, in, flags, back, outHist, inHist, faults>>

JoinProducer(t) == Join(t, "joinProducer", Producer, "break")
JoinConsumer(t) == Join(t, "joinConsumer", Consumer, "free")

\* threaded_consumer_break: nothing wakes the consumer.
BreakConsumer(t) ==
    /\ At(t, "break")
    /\ breakReceive' = TRUE
    /\ Goto(t, "joinConsumer")
    /\ UNCHANGED <<out, in, goOn, freed, dead, back, outHist, inHist, faults>>

Free(t) ==
    /\ At(t, "free")
    /\ freed' = TRUE
    /\ sendQ' = <<>> /\ gone' = gone \o sendQ /\ recvQ' = <<>>
    /\ Goto(t, back[t])
    /\ UNCHANGED <<emptyLocked, sending, got, pipe, goOn, breakReceive, dead, back,
                   accepted, published, failed, inHist, faults>>

-----------------------------------------------------------------------------
ProducerStep == ProducerChecks \/ LockEmpty \/ PopToSend \/ Publish \/ PushBack
ConsumerStep == ConsumerChecks \/ CheckBreak \/ DispatchedMessages \/ PostEvent
CleanUpStep(t) ==
    \/ Stop(t) \/ PushNull(t) \/ JoinProducer(t)
    \/ BreakConsumer(t) \/ JoinConsumer(t) \/ Free(t)
MainStep ==
    \/ InitConsumer \/ StartConsumer \/ InitProducer \/ StartProducer
    \/ ReadEvent \/ PopMsg \/ HandlerReturns

Next ==
    \/ MainStep \/ ProducerStep \/ ConsumerStep
    \/ Arrive \/ DispatchedOther
    \/ \E t \in Users : Send(t) \/ CleanUp(t) \/ CleanUpStep(t)

Spec == Init /\ [][Next]_vars

\* The operating system runs the threads, a publish ends, and so does a
\* handler.  Nothing makes a request arrive or a thread send or clean up; but a
\* clean-up that has begun goes on (there is one at a time: OneCleanUp).
FairSpec ==
    /\ Spec
    /\ WF_vars(MainStep) /\ WF_vars(ProducerStep) /\ WF_vars(ConsumerStep)
    /\ WF_vars(\E t \in Users : CleanUpStep(t))

-----------------------------------------------------------------------------
Labels == {"initConsumer", "startConsumer", "initProducer", "startProducer", "loop", "drain",
           "handle", "end", "idle", "off", "check", "wait", "pop", "publish", "pushBack", "done",
           "receive", "iterate", "post"} \cup CleanUpLabels

FlagsOK == {emptyLocked, goOn, breakReceive, freed, dead} \subseteq BOOLEAN
QueuesOK ==
    /\ sendQ \in Seq(1 .. MaxSent) /\ recvQ \in Seq(1 .. MaxReceived)
    /\ published \in Seq(1 .. MaxSent) /\ gone \in Seq(1 .. MaxSent)
    /\ failed \subseteq 1 .. MaxSent

\* The type of the queues, the locks and the threads.
TypeOK ==
    /\ FlagsOK /\ QueuesOK
    /\ sending \in 0 .. MaxSent /\ got \in Nat /\ pipe \in 0 .. PipeSize
    /\ pc \in [Threads -> Labels] /\ back \in [Users -> {"end", "idle", "loop", "drain"}]
    /\ accepted \in 0 .. MaxSent /\ received \in 0 .. MaxReceived /\ taken \in 0 .. MaxReceived
    /\ faults \in 0 .. MaxFaults

\* The producer never sleeps on a queue that has something in it, whatever
\* pushes, failed sends and wake-ups without a message came before.
NoLostWakeup == sendQ # <<>> /\ pc[Producer] = "wait" => ~emptyLocked

\* A message that arrived is never left behind in the queue: there is an event
\* for it, or will be, or the main thread is emptying the queue already; also
\* when the pipe was full and the event of the message was dropped.
Draining == pc[Main] \in {"drain", "handle"} \/ (pc[Main] \in CleanUpLabels /\ back[Main] = "drain")
NoneStranded ==
    recvQ # <<>> => \/ pipe > 0 \/ Draining
                    \/ pc[Consumer] = "post" \/ (pc[Consumer] = "iterate" /\ got > 0)

\* What arrived is handed on in the order it arrived, each message once.
ReceivedInOrder ==
    ~freed => taken + Len(recvQ) = received /\ \A i \in 1 .. Len(recvQ) : recvQ[i] = taken + i

\* Every message that was accepted is in one place, and in one only: sent,
\* dropped (for want of memory, or by the clean-up), being sent, or queued.
Everywhere == published \o gone \o (IF sending = 0 THEN <<>> ELSE <<sending>>) \o sendQ
NoneLostOrDoubled == Len(Everywhere) = accepted /\ Range(Everywhere) = 1 .. accepted

\* A message overtakes an earlier one only when that one failed to be sent.
OvertakesOnlyFailed ==
    \A i, j \in 1 .. Len(published) :
        i < j /\ published[i] > published[j] => published[j] \in failed

\* What a sender relies on (module Channel): what is at hand or queued waits.
Waiting == (IF sending = 0 THEN <<>> ELSE <<sending>>) \o sendQ
Chan == INSTANCE Channel WITH waiting <- Waiting, delivered <- published, closed <- freed

\* The queue, the mutex and the two threads make a channel: no step delivers a
\* message that is not the first, delivers or loses one without the channel's
\* leave, or sends anything once the transport is released.
ChannelKept == Chan!Spec

\* A message that was accepted is sent, unless memory or the transport goes.
AcceptedIsSent ==
    \A m \in 1 .. MaxSent :
        accepted >= m ~> m \in Range(published) \cup Range(gone) \/ ~goOn


\* The producer always ends when it is told to: its join does not block.
ProducerEnds == ~goOn ~> pc[Producer] \in {"off", "done"}

\* What that needs besides fairness.  The producer has this many steps left, with
\* the one that opens the mutex for it.
ProducerEnding == ~goOn /\ pc[Producer] \notin {"off", "done"}
ProducerLeft ==
    CASE pc[Producer] = "wait"     -> IF emptyLocked THEN 6 ELSE 5
      [] pc[Producer] = "pop"      -> 4
      [] pc[Producer] = "publish"  -> 3
      [] pc[Producer] = "pushBack" -> 2
      [] OTHER                     -> 1

\* Nothing holds it up, nor the thread that opens the mutex.
AwaitsMutex == pc[Producer] = "wait" /\ emptyLocked
ProducerGoesOn ==
    ProducerEnding => IF AwaitsMutex THEN ENABLED <<\E t \in Users : CleanUpStep(t)>>_vars
                                     ELSE ENABLED <<ProducerStep>>_vars

OneCleanUp == \A s, t \in Users : pc[s] \in CleanUpLabels /\ pc[t] \in CleanUpLabels => s = t

\* With a message that waits the producer has this many steps left to its publish.
Unsent == goOn /\ (sendQ # <<>> \/ sending # 0)
PublishLeft ==
    CASE pc[Producer] = "publish" -> 1
      [] pc[Producer] = "pop"     -> 2
      [] pc[Producer] = "wait"    -> 3
      [] OTHER                    -> 4
PublishGoesOn == Unsent => ENABLED <<ProducerStep>>_vars

\* With a message that arrived the main thread has this many left to take it, with
\* those of the consumer to its event; or the transport is about to go.
Unhandled == goOn /\ received > taken
TakeLeft ==
    CASE pc[Main] = "stop"          -> 1
      [] pc[Main] = "drain"         -> 2
      [] pc[Main] = "handle"        -> 3
      [] pc[Main] = "loop"          -> IF pipe > 0 THEN 4 ELSE IF pc[Consumer] = "post" THEN 5 ELSE 6
      [] pc[Main] = "startProducer" -> 7
      [] OTHER                      -> 8
TakeGoesOn ==
    Unhandled =>
        /\ TakeLeft = 1 => ENABLED <<\E t \in Users : CleanUpStep(t)>>_vars
        /\ TakeLeft \in {5, 6} => ENABLED <<ConsumerStep>>_vars
        /\ TakeLeft \in {2, 3, 4, 7, 8} => ENABLED <<MainStep>>_vars

\* A producer that sleeps hears of the stop: the mutex is open, or whoever
\* stopped it is about to open it.
StopIsHeard ==
    ~goOn /\ pc[Producer] = "wait" => ~emptyLocked \/ \E t \in Users : pc[t] = "pushNull"

\* Nothing is released before both threads have ended.
FreedAfterJoin ==
    freed => pc[Producer] \in {"off", "done"} /\ pc[Consumer] \in {"off", "done"}

-----------------------------------------------------------------------------
\* The inductive invariant behind the safety properties (proved in
\* ThreadedTransportProofs).

InitLabels     == {"initConsumer", "startConsumer", "initProducer", "startProducer"}
ProducerLabels == {"off", "check", "wait", "pop", "publish", "pushBack", "done"}
ConsumerLabels == {"off", "check", "receive", "iterate", "post", "done"}

\* Which thread can be where, and what the start of the transport is alone with.
PlaceInv ==
    /\ pc[Producer] \in ProducerLabels /\ pc[Consumer] \in ConsumerLabels
    /\ \A t \in Callers : pc[t] \in {"idle"} \cup CleanUpLabels /\ back[t] \in {"end", "idle"}
    /\ pc[Main] \in InitLabels => Initializing /\ ~freed
    /\ Initializing => /\ pc[Main] \in InitLabels \cup CleanUpLabels \cup {"end"}
                       /\ \A t \in Callers : pc[t] = "idle"
    /\ \A t \in Callers : pc[t] \in CleanUpLabels => back[t] = "idle"
    /\ Initializing => pc[Producer] = "off"
    /\ pc[Main] \in {"initConsumer", "startConsumer"} => pc[Consumer] = "off"
    /\ pc[Consumer] = "off" => recvQ = <<>>
    /\ pc[Producer] \in {"publish", "pushBack"} => sending # 0

\* The mutex is the token of the queue: it is there, or the producer has just
\* taken it, whenever there is something to send.
WakeInv ==
    /\ sendQ # <<>> => ~emptyLocked \/ pc[Producer] = "pop"
    /\ Initializing => sendQ = <<>>

\* What a clean-up waited for stays so.
CleanUpInv ==
    /\ \A t \in Users :
          /\ pc[t] \in {"break", "joinConsumer", "free"} => pc[Producer] \in {"off", "done"}
          /\ pc[t] = "free" => pc[Consumer] \in {"off", "done"}
    /\ FreedAfterJoin
    /\ freed => recvQ = <<>>

TransportInv ==
    /\ TypeOK
    /\ PlaceInv
    /\ WakeInv
    /\ CleanUpInv
    /\ NoneStranded
    /\ ReceivedInOrder

\* The producer has a message at hand only while it sends it, or puts it back.
SendingInv ==
    /\ pc[Producer] \notin {"publish", "pushBack"} => sending = 0
    /\ pc[Producer] = "pushBack" => sending \in failed

\* Sent, being sent, queued: a message is behind every earlier one that did not
\* fail.
InLine(a, b) == a > b => b \in failed
OrderInv ==
    /\ \A i, j \in 1 .. Len(published) : i < j => InLine(published[i], published[j])
    /\ \A i, j \in 1 .. Len(sendQ) : i < j => InLine(sendQ[i], sendQ[j])
    /\ \A i \in 1 .. Len(published), j \in 1 .. Len(sendQ) : InLine(published[i], sendQ[j])
    /\ sending # 0 => /\ \A i \in 1 .. Len(published) : InLine(published[i], sending)
                      /\ \A j \in 1 .. Len(sendQ) : InLine(sending, sendQ[j])

OutInv ==
    /\ SendingInv
    /\ NoneLostOrDoubled
    /\ OrderInv

\* Until it is stopped the transport is whole: only a clean-up past its first step,
\* which stops it, ends a thread or releases anything.
StopInv ==
    goOn =>
        /\ ~freed /\ ~dead
        /\ \A t \in Users : pc[t] \notin CleanUpLabels \ {"stop"}
        /\ pc[Main] \in InitLabels \cup {"loop", "drain", "handle", "stop"}
        /\ pc[Producer] # "done" /\ pc[Consumer] # "done"
        /\ pc[Producer] = "off" => Initializing

-----------------------------------------------------------------------------
\* threaded_consumer.h: the break causes an "exit from receiveNext() as soon as
\* possible".
BreakEndsReceive == breakReceive ~> pc[Consumer] \notin {"receive", "iterate"}
=============================================================================
