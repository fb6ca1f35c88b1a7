---------------------- MODULE ThreadedTransportProofs ----------------------
(***************************************************************************)
(* Proofs about ThreadedTransport: TransportInv is inductive, for any      *)
(* number of threads that send, any size of the pipe and any number of     *)
(* messages and failures, and the safety properties of the runs follow.    *)
(***************************************************************************)
EXTENDS ThreadedTransport, SequenceTheorems, TLAPS

(* What a push does to a queue. *)
LEMMA PushFacts ==
    ASSUME NEW S, NEW q \in Seq(S), NEW e \in S
    PROVE  Append(q, e) \in Seq(S) /\ Append(q, e) # <<>>
BY AppendProperties

(* What is left when the first message is taken from a queue. *)
LEMMA PopFacts ==
    ASSUME NEW S, NEW q \in Seq(S), q # <<>>
    PROVE  Head(q) \in S /\ Tail(q) \in Seq(S)
BY HeadTailProperties

(* A queue of consecutive numbers stays one when the next is pushed. *)
LEMMA PushInOrder ==
    ASSUME NEW S, NEW q \in Seq(S), NEW k \in Nat, NEW e \in S, e = k + Len(q) + 1,
           \A i \in 1 .. Len(q) : q[i] = k + i
    PROVE  /\ Len(Append(q, e)) = Len(q) + 1
           /\ \A i \in 1 .. Len(Append(q, e)) : Append(q, e)[i] = k + i
<1>. DEFINE longer == Append(q, e)
<1>1. Len(q) \in Nat /\ Len(longer) = Len(q) + 1
  BY AppendProperties, LenProperties
<1>2. longer[Len(q) + 1] = e /\ \A i \in 1 .. Len(q) : longer[i] = q[i]
  BY AppendProperties
<1>. HIDE DEF longer
<1>3. ASSUME NEW i \in 1 .. Len(longer)
      PROVE  longer[i] = k + i
  <2>1. CASE i = Len(q) + 1
    BY <2>1, <1>1, <1>2
  <2>2. CASE i \in 1 .. Len(q)
    BY <2>2, <1>1, <1>2
  <2>. QED  BY <2>1, <2>2, <1>1, <1>3
<1>. QED  BY <1>1, <1>3 DEF longer

(* So it does when the first is taken. *)
LEMMA PopInOrder ==
    ASSUME NEW S, NEW q \in Seq(S), q # <<>>, NEW k \in Nat,
           \A i \in 1 .. Len(q) : q[i] = k + i
    PROVE  /\ Head(q) = k + 1 /\ Len(Tail(q)) = Len(q) - 1
           /\ \A i \in 1 .. Len(Tail(q)) : Tail(q)[i] = (k + 1) + i
<1>1. Head(q) = q[1] /\ Len(q) \in Nat /\ Len(q) # 0
  BY EmptySeq, LenProperties
<1>. QED  BY <1>1, HeadTailProperties

\* The vocabulary of the actions, which every proof expands.
USE ThreadAssumption, BoundAssumption
    DEF TransportInv, TypeOK, Users, Threads, Labels, CleanUpLabels, Initializing,
        At, Goto, Fault, NoFault, out, in, flags, outHist, inHist

(* The consumer is set up, or the start is given up. *)
LEMMA InitConsumerInductive ==
    ASSUME TransportInv, InitConsumer
    PROVE  TransportInv'
<1>. USE DEF InitConsumer, InitStep
<1>1. FlagsOK'
  BY Zenon DEF FlagsOK
<1>2. QueuesOK'
  BY DEF QueuesOK
<1>3. TypeOK'
  BY <1>1, <1>2
<1>4. PlaceInv'
  BY DEF PlaceInv, InitLabels
<1>5. WakeInv'
  BY DEF WakeInv
<1>6. CleanUpInv'
  BY DEF CleanUpInv, FreedAfterJoin
<1>7. NoneStranded'
  BY DEF NoneStranded, Draining
<1>8. ReceivedInOrder'
  BY DEF ReceivedInOrder
<1>. QED  BY <1>1, <1>2, <1>3, <1>4, <1>5, <1>6, <1>7, <1>8

(* The consumer thread starts while nothing else runs. *)
LEMMA StartConsumerInductive ==
    ASSUME TransportInv, StartConsumer
    PROVE  TransportInv'
<1>. USE DEF StartConsumer, StartThread
<1>1. FlagsOK'
  BY Zenon DEF FlagsOK
<1>2. QueuesOK'
  BY DEF QueuesOK
<1>3. TypeOK'
  BY <1>1, <1>2
<1>4. PlaceInv'
  BY DEF PlaceInv, InitLabels, ProducerLabels, ConsumerLabels
<1>5. WakeInv'
  BY DEF WakeInv
<1>6. CleanUpInv'
  BY DEF CleanUpInv, FreedAfterJoin, PlaceInv, InitLabels
<1>7. NoneStranded'
  BY DEF NoneStranded, Draining, PlaceInv, InitLabels
<1>8. ReceivedInOrder'
  BY DEF ReceivedInOrder
<1>. QED  BY <1>1, <1>2, <1>3, <1>4, <1>5, <1>6, <1>7, <1>8

(* The mutex of the empty queue is locked before anyone can push. *)
LEMMA InitProducerInductive ==
    ASSUME TransportInv, InitProducer
    PROVE  TransportInv'
<1>. USE DEF InitProducer, InitStep
<1>1. FlagsOK'
  BY Zenon DEF FlagsOK
<1>2. QueuesOK'
  BY DEF QueuesOK
<1>3. TypeOK'
  BY <1>1, <1>2
<1>4. PlaceInv'
  BY DEF PlaceInv, InitLabels
<1>5. WakeInv'
  BY DEF WakeInv, PlaceInv, InitLabels
<1>6. CleanUpInv'
  BY DEF CleanUpInv, FreedAfterJoin
<1>7. NoneStranded'
  BY DEF NoneStranded, Draining
<1>8. ReceivedInOrder'
  BY DEF ReceivedInOrder
<1>. QED  BY <1>1, <1>2, <1>3, <1>4, <1>5, <1>6, <1>7, <1>8

(* The producer thread starts, and the transport is up. *)
LEMMA StartProducerInductive ==
    ASSUME TransportInv, StartProducer
    PROVE  TransportInv'
<1>. USE DEF StartProducer, StartThread
<1>1. FlagsOK'
  BY Zenon DEF FlagsOK
<1>2. QueuesOK'
  BY DEF QueuesOK
<1>3. TypeOK'
  BY <1>1, <1>2
<1>4. PlaceInv'
  BY DEF PlaceInv, InitLabels, ProducerLabels, ConsumerLabels
<1>5. WakeInv'
  BY DEF WakeInv, PlaceInv, InitLabels
<1>6. CleanUpInv'
  BY DEF CleanUpInv, FreedAfterJoin, PlaceInv, InitLabels
<1>7. NoneStranded'
  BY DEF NoneStranded, Draining
<1>8. ReceivedInOrder'
  BY DEF ReceivedInOrder
<1>. QED  BY <1>1, <1>2, <1>3, <1>4, <1>5, <1>6, <1>7, <1>8

(* A push unlocks the mutex of an empty queue. *)
LEMMA SendInductive ==
    ASSUME TransportInv, NEW t \in Users, Send(t)
    PROVE  TransportInv'
<1>. USE DEF Send, MayUse, UnlockIfEmpty, UseFreed
<1>0. ASSUME accepted < MaxSent
      PROVE  /\ Append(sendQ, accepted + 1) \in Seq(1 .. MaxSent)
             /\ Append(sendQ, accepted + 1) # <<>>
  <2>1. accepted + 1 \in 1 .. MaxSent /\ sendQ \in Seq(1 .. MaxSent)
    BY <1>0 DEF QueuesOK
  <2>. HIDE DEF TransportInv, Send
  <2>. QED  BY <2>1, PushFacts
<1>1. FlagsOK'
  BY Zenon DEF FlagsOK
<1>2. QueuesOK'
  BY <1>0 DEF QueuesOK
<1>3. TypeOK'
  <2>1. CASE freed
    BY <2>1, <1>1, <1>2
  <2>2. CASE ~freed
    BY <2>2, <1>1, <1>2
  <2>. QED  BY <2>1, <2>2
<1>4. PlaceInv'
  BY DEF PlaceInv
<1>5. WakeInv'
  BY <1>0 DEF WakeInv, FlagsOK
<1>6. CleanUpInv'
  BY DEF CleanUpInv, FreedAfterJoin
<1>7. NoneStranded'
  BY DEF NoneStranded, Draining
<1>8. ReceivedInOrder'
  <2>1. UNCHANGED <<recvQ, received, taken, freed>>
    OBVIOUS
  <2>. QED  BY <2>1 DEF ReceivedInOrder
<1>. QED  BY <1>1, <1>2, <1>3, <1>4, <1>5, <1>6, <1>7, <1>8

(* The producer looks whether it is to go on. *)
LEMMA ProducerChecksInductive ==
    ASSUME TransportInv, ProducerChecks
    PROVE  TransportInv'
<1>. USE DEF ProducerChecks
<1>1. FlagsOK'
  BY Zenon DEF FlagsOK
<1>2. QueuesOK'
  BY DEF QueuesOK
<1>3. TypeOK'
  BY <1>1, <1>2
<1>4. PlaceInv'
  BY DEF PlaceInv, InitLabels, ProducerLabels, ConsumerLabels
<1>5. WakeInv'
  BY DEF WakeInv
<1>6. CleanUpInv'
  BY DEF CleanUpInv, FreedAfterJoin
<1>7. NoneStranded'
  BY DEF NoneStranded, Draining
<1>8. ReceivedInOrder'
  BY DEF ReceivedInOrder
<1>. QED  BY <1>1, <1>2, <1>3, <1>4, <1>5, <1>6, <1>7, <1>8

(* The producer takes the token, and is about to pop. *)
LEMMA LockEmptyInductive ==
    ASSUME TransportInv, LockEmpty
    PROVE  TransportInv'
<1>. USE DEF LockEmpty
<1>1. FlagsOK'
  BY Zenon DEF FlagsOK
<1>2. QueuesOK'
  BY DEF QueuesOK
<1>3. TypeOK'
  BY <1>1, <1>2
<1>4. PlaceInv'
  BY DEF PlaceInv, InitLabels, ProducerLabels, ConsumerLabels
<1>5. WakeInv'
  BY DEF WakeInv
<1>6. CleanUpInv'
  BY DEF CleanUpInv, FreedAfterJoin
<1>7. NoneStranded'
  BY DEF NoneStranded, Draining
<1>8. ReceivedInOrder'
  BY DEF ReceivedInOrder
<1>. QED  BY <1>1, <1>2, <1>3, <1>4, <1>5, <1>6, <1>7, <1>8

(* The producer gives the token back unless the queue is empty. *)
LEMMA PopToSendInductive ==
    ASSUME TransportInv, PopToSend
    PROVE  TransportInv'
<1>. USE DEF PopToSend
<1>0. ASSUME sendQ # <<>>
      PROVE  Head(sendQ) \in 1 .. MaxSent /\ Tail(sendQ) \in Seq(1 .. MaxSent)
  <2>1. sendQ \in Seq(1 .. MaxSent)
    BY DEF QueuesOK
  <2>. HIDE DEF TransportInv, PopToSend
  <2>. QED  BY <1>0, <2>1, PopFacts
<1>1. FlagsOK'
  BY Zenon DEF FlagsOK
<1>2. QueuesOK'
  BY <1>0 DEF QueuesOK
<1>3. TypeOK'
  BY <1>0, <1>1, <1>2
<1>4. PlaceInv'
  BY <1>0 DEF PlaceInv, InitLabels, ProducerLabels, ConsumerLabels
<1>5. WakeInv'
  BY DEF WakeInv
<1>6. CleanUpInv'
  BY DEF CleanUpInv, FreedAfterJoin
<1>7. NoneStranded'
  BY DEF NoneStranded, Draining
<1>8. ReceivedInOrder'
  BY DEF ReceivedInOrder
<1>. QED  BY <1>1, <1>2, <1>3, <1>4, <1>5, <1>6, <1>7, <1>8

(* Sending takes no lock. *)
LEMMA PublishInductive ==
    ASSUME TransportInv, Publish
    PROVE  TransportInv'
<1>. USE DEF Publish
<1>1. FlagsOK'
  BY Zenon DEF FlagsOK
<1>2. QueuesOK'
  <2>1. sending \in 1 .. MaxSent
    BY DEF PlaceInv
  <2>2. published \in Seq(1 .. MaxSent)
    BY DEF QueuesOK
  <2>3. Append(published, sending) \in Seq(1 .. MaxSent)
    BY <2>1, <2>2, PushFacts
  <2>. QED  BY <2>1, <2>3 DEF QueuesOK
<1>3. TypeOK'
  BY <1>1, <1>2
<1>4. PlaceInv'
  BY DEF PlaceInv, InitLabels, ProducerLabels, ConsumerLabels
<1>5. WakeInv'
  BY DEF WakeInv
<1>6. CleanUpInv'
  BY DEF CleanUpInv, FreedAfterJoin
<1>7. NoneStranded'
  BY DEF NoneStranded, Draining
<1>8. ReceivedInOrder'
  BY DEF ReceivedInOrder
<1>. QED  BY <1>1, <1>2, <1>3, <1>4, <1>5, <1>6, <1>7, <1>8

(* A message that was not sent comes back with the token. *)
LEMMA PushBackInductive ==
    ASSUME TransportInv, PushBack
    PROVE  TransportInv'
<1>. USE DEF PushBack, UnlockIfEmpty
<1>1. FlagsOK'
  BY Zenon DEF FlagsOK
<1>2. QueuesOK'
  <2>1. sending \in 1 .. MaxSent
    BY DEF PlaceInv
  <2>2. sendQ \in Seq(1 .. MaxSent) /\ gone \in Seq(1 .. MaxSent)
    BY DEF QueuesOK
  <2>3. Append(sendQ, sending) \in Seq(1 .. MaxSent) /\ Append(gone, sending) \in Seq(1 .. MaxSent)
    BY <2>1, <2>2, PushFacts
  <2>. QED  BY <2>3 DEF QueuesOK
<1>3. TypeOK'
  BY <1>1, <1>2
<1>4. PlaceInv'
  BY DEF PlaceInv, InitLabels, ProducerLabels, ConsumerLabels
<1>5. WakeInv'
  BY DEF WakeInv, QueuesOK, FlagsOK, PlaceInv, InitLabels, ProducerLabels, ConsumerLabels
<1>6. CleanUpInv'
  BY DEF CleanUpInv, FreedAfterJoin
<1>7. NoneStranded'
  BY DEF NoneStranded, Draining
<1>8. ReceivedInOrder'
  BY DEF ReceivedInOrder
<1>. QED  BY <1>1, <1>2, <1>3, <1>4, <1>5, <1>6, <1>7, <1>8

(* The consumer looks whether it is to go on. *)
LEMMA ConsumerChecksInductive ==
    ASSUME TransportInv, ConsumerChecks
    PROVE  TransportInv'
<1>. USE DEF ConsumerChecks
<1>1. FlagsOK'
  BY Zenon DEF FlagsOK
<1>2. QueuesOK'
  BY DEF QueuesOK
<1>3. TypeOK'
  BY <1>1, <1>2
<1>4. PlaceInv'
  BY DEF PlaceInv, InitLabels, ProducerLabels, ConsumerLabels
<1>5. WakeInv'
  BY DEF WakeInv
<1>6. CleanUpInv'
  BY DEF CleanUpInv, FreedAfterJoin
<1>7. NoneStranded'
  BY DEF NoneStranded, Draining
<1>8. ReceivedInOrder'
  BY DEF ReceivedInOrder
<1>. QED  BY <1>1, <1>2, <1>3, <1>4, <1>5, <1>6, <1>7, <1>8

(* The consumer looks whether it is to stop receiving. *)
LEMMA CheckBreakInductive ==
    ASSUME TransportInv, CheckBreak
    PROVE  TransportInv'
<1>. USE DEF CheckBreak
<1>1. FlagsOK'
  BY Zenon DEF FlagsOK
<1>2. QueuesOK'
  BY DEF QueuesOK
<1>3. TypeOK'
  BY <1>1, <1>2
<1>4. PlaceInv'
  BY DEF PlaceInv, InitLabels, ProducerLabels, ConsumerLabels
<1>5. WakeInv'
  BY DEF WakeInv
<1>6. CleanUpInv'
  BY DEF CleanUpInv, FreedAfterJoin
<1>7. NoneStranded'
  BY DEF NoneStranded, Draining
<1>8. ReceivedInOrder'
  BY DEF ReceivedInOrder
<1>. QED  BY <1>1, <1>2, <1>3, <1>4, <1>5, <1>6, <1>7, <1>8

(* A message is queued at the end, and counted. *)
LEMMA ArriveInductive ==
    ASSUME TransportInv, Arrive
    PROVE  TransportInv'
<1>. USE DEF Arrive
<1>0. received + 1 \in 1 .. MaxReceived /\ recvQ \in Seq(1 .. MaxReceived)
  BY DEF QueuesOK
<1>1. FlagsOK'
  BY Zenon DEF FlagsOK
<1>2. QueuesOK'
  BY <1>0, PushFacts DEF QueuesOK
<1>3. TypeOK'
  BY <1>1, <1>2
<1>4. PlaceInv'
  BY DEF PlaceInv
<1>5. WakeInv'
  BY DEF WakeInv
<1>6. CleanUpInv'
  BY DEF CleanUpInv, FreedAfterJoin
<1>7. NoneStranded'
  BY DEF NoneStranded, Draining
<1>8. ReceivedInOrder'
  <2>1. ~freed
    BY DEF CleanUpInv, FreedAfterJoin
  <2>2. taken \in Nat /\ received + 1 = taken + Len(recvQ) + 1
        /\ \A i \in 1 .. Len(recvQ) : recvQ[i] = taken + i
    BY <2>1, <1>0, LenProperties DEF ReceivedInOrder
  <2>3. recvQ' = Append(recvQ, received + 1) /\ received' = received + 1 /\ taken' = taken
    OBVIOUS
  <2>. HIDE DEF TransportInv, Arrive
  <2>4. /\ Len(recvQ') = Len(recvQ) + 1
        /\ \A i \in 1 .. Len(recvQ') : recvQ'[i] = taken' + i
    BY <1>0, <2>2, <2>3, PushInOrder
  <2>5. Len(recvQ) \in Nat
    BY <1>0, LenProperties
  <2>. QED  BY <2>2, <2>3, <2>4, <2>5 DEF ReceivedInOrder
<1>. QED  BY <1>1, <1>2, <1>3, <1>4, <1>5, <1>6, <1>7, <1>8

(* Messages were queued: an event will be posted. *)
LEMMA DispatchedMessagesInductive ==
    ASSUME TransportInv, DispatchedMessages
    PROVE  TransportInv'
<1>. USE DEF DispatchedMessages
<1>1. FlagsOK'
  BY Zenon DEF FlagsOK
<1>2. QueuesOK'
  BY DEF QueuesOK
<1>3. TypeOK'
  BY <1>1, <1>2
<1>4. PlaceInv'
  BY DEF PlaceInv, InitLabels, ProducerLabels, ConsumerLabels
<1>5. WakeInv'
  BY DEF WakeInv
<1>6. CleanUpInv'
  BY DEF CleanUpInv, FreedAfterJoin
<1>7. NoneStranded'
  BY DEF NoneStranded, Draining
<1>8. ReceivedInOrder'
  BY DEF ReceivedInOrder
<1>. QED  BY <1>1, <1>2, <1>3, <1>4, <1>5, <1>6, <1>7, <1>8

(* No message was queued: no event is due. *)
LEMMA DispatchedOtherInductive ==
    ASSUME TransportInv, DispatchedOther
    PROVE  TransportInv'
<1>. USE DEF DispatchedOther
<1>1. FlagsOK'
  BY Zenon DEF FlagsOK
<1>2. QueuesOK'
  BY DEF QueuesOK
<1>3. TypeOK'
  BY <1>1, <1>2
<1>4. PlaceInv'
  BY DEF PlaceInv, InitLabels, ProducerLabels, ConsumerLabels
<1>5. WakeInv'
  BY DEF WakeInv
<1>6. CleanUpInv'
  BY DEF CleanUpInv, FreedAfterJoin
<1>7. NoneStranded'
  BY DEF NoneStranded, Draining
<1>8. ReceivedInOrder'
  BY DEF ReceivedInOrder
<1>. QED  BY <1>1, <1>2, <1>3, <1>4, <1>5, <1>6, <1>7, <1>8

(* After this there is an event in the pipe, its own or others. *)
LEMMA PostEventInductive ==
    ASSUME TransportInv, PostEvent
    PROVE  TransportInv'
<1>. USE DEF PostEvent
<1>1. FlagsOK'
  BY Zenon DEF FlagsOK
<1>2. QueuesOK'
  BY DEF QueuesOK
<1>3. TypeOK'
  BY <1>1, <1>2
<1>4. PlaceInv'
  BY DEF PlaceInv, InitLabels, ProducerLabels, ConsumerLabels
<1>5. WakeInv'
  BY DEF WakeInv
<1>6. CleanUpInv'
  BY DEF CleanUpInv, FreedAfterJoin
<1>7. NoneStranded'
  BY DEF NoneStranded, Draining
<1>8. ReceivedInOrder'
  BY DEF ReceivedInOrder
<1>. QED  BY <1>1, <1>2, <1>3, <1>4, <1>5, <1>6, <1>7, <1>8

(* The main thread takes one event and begins to empty the queue. *)
LEMMA ReadEventInductive ==
    ASSUME TransportInv, ReadEvent
    PROVE  TransportInv'
<1>. USE DEF ReadEvent
<1>1. FlagsOK'
  BY Zenon DEF FlagsOK
<1>2. QueuesOK'
  BY DEF QueuesOK
<1>3. TypeOK'
  BY <1>1, <1>2
<1>4. PlaceInv'
  BY DEF PlaceInv, InitLabels
<1>5. WakeInv'
  BY DEF WakeInv
<1>6. CleanUpInv'
  BY DEF CleanUpInv, FreedAfterJoin
<1>7. NoneStranded'
  BY DEF NoneStranded, Draining, CleanUpInv, FreedAfterJoin
<1>8. ReceivedInOrder'
  BY DEF ReceivedInOrder
<1>. QED  BY <1>1, <1>2, <1>3, <1>4, <1>5, <1>6, <1>7, <1>8

(* The first message is taken, or the queue was empty. *)
LEMMA PopMsgInductive ==
    ASSUME TransportInv, PopMsg
    PROVE  TransportInv'
<1>. USE DEF PopMsg, UseFreed
<1>0. ASSUME recvQ # <<>>
      PROVE  Head(recvQ) \in 1 .. MaxReceived /\ Tail(recvQ) \in Seq(1 .. MaxReceived)
  <2>1. recvQ \in Seq(1 .. MaxReceived)
    BY DEF QueuesOK
  <2>. HIDE DEF TransportInv, PopMsg
  <2>. QED  BY <1>0, <2>1, PopFacts
<1>1. FlagsOK'
  <2>1. CASE UNCHANGED <<emptyLocked, goOn, breakReceive, freed, dead>>
    BY <2>1, Zenon DEF FlagsOK
  <2>2. CASE dead' \in BOOLEAN /\ UNCHANGED <<emptyLocked, goOn, breakReceive, freed>>
    BY <2>2, Zenon DEF FlagsOK
  <2>3. \/ UNCHANGED <<emptyLocked, goOn, breakReceive, freed, dead>>
        \/ dead' \in BOOLEAN /\ UNCHANGED <<emptyLocked, goOn, breakReceive, freed>>
    BY Zenon
  <2>. QED  BY <2>1, <2>2, <2>3, Zenon
<1>2. QueuesOK'
  BY <1>0 DEF QueuesOK
<1>3. TypeOK'
  <2>1. pc' \in [Threads -> Labels] /\ faults' \in 0 .. MaxFaults
    OBVIOUS
  <2>2. taken' \in 0 .. MaxReceived
    BY <1>0
  <2>3. /\ UNCHANGED <<sending, got, pipe, back, accepted, received>>
    OBVIOUS
  <2>. QED  BY <1>1, <1>2, <2>1, <2>2, <2>3
<1>4. PlaceInv'
  BY DEF PlaceInv, InitLabels
<1>5. WakeInv'
  BY DEF WakeInv
<1>6. CleanUpInv'
  BY DEF CleanUpInv, FreedAfterJoin
<1>7. NoneStranded'
  BY DEF NoneStranded, Draining, CleanUpInv, FreedAfterJoin
<1>8. ReceivedInOrder'
  <2>1. CASE freed
    BY <2>1 DEF ReceivedInOrder
  <2>2. CASE ~freed /\ recvQ = <<>>
    BY <2>2 DEF ReceivedInOrder
  <2>3. CASE ~freed /\ recvQ # <<>>
    <3>1. /\ recvQ \in Seq(1 .. MaxReceived) /\ taken \in Nat
          /\ taken + Len(recvQ) = received
          /\ \A i \in 1 .. Len(recvQ) : recvQ[i] = taken + i
      BY <2>3 DEF ReceivedInOrder, QueuesOK
    <3>2. taken' = Head(recvQ) /\ recvQ' = Tail(recvQ) /\ received' = received
      BY <2>3
    <3>. HIDE DEF TransportInv, PopMsg
    <3>3. /\ Head(recvQ) = taken + 1 /\ Len(Tail(recvQ)) = Len(recvQ) - 1
          /\ \A i \in 1 .. Len(Tail(recvQ)) : Tail(recvQ)[i] = (taken + 1) + i
      BY <2>3, <3>1, PopInOrder
    <3>4. Len(recvQ) \in Nat
      BY <3>1, LenProperties
    <3>5. taken' + Len(recvQ') = received'
      BY <3>1, <3>2, <3>3, <3>4
    <3>6. \A i \in 1 .. Len(recvQ') : recvQ'[i] = taken' + i
      BY <3>2, <3>3
    <3>. QED  BY <3>5, <3>6 DEF ReceivedInOrder
  <2>. QED  BY <2>1, <2>2, <2>3
<1>. QED  BY <1>1, <1>2, <1>3, <1>4, <1>5, <1>6, <1>7, <1>8

(* The main thread goes on emptying the queue. *)
LEMMA HandlerReturnsInductive ==
    ASSUME TransportInv, HandlerReturns
    PROVE  TransportInv'
<1>. USE DEF HandlerReturns
<1>1. FlagsOK'
  BY Zenon DEF FlagsOK
<1>2. QueuesOK'
  BY DEF QueuesOK
<1>3. TypeOK'
  BY <1>1, <1>2
<1>4. PlaceInv'
  BY DEF PlaceInv, InitLabels
<1>5. WakeInv'
  BY DEF WakeInv
<1>6. CleanUpInv'
  BY DEF CleanUpInv, FreedAfterJoin
<1>7. NoneStranded'
  BY DEF NoneStranded, Draining
<1>8. ReceivedInOrder'
  BY DEF ReceivedInOrder
<1>. QED  BY <1>1, <1>2, <1>3, <1>4, <1>5, <1>6, <1>7, <1>8

(* A clean-up begins, and remembers where it was called. *)
LEMMA CleanUpInductive ==
    ASSUME TransportInv, NEW t \in Users, CleanUp(t)
    PROVE  TransportInv'
<1>. USE DEF CleanUp, MayUse
<1>1. FlagsOK'
  BY Zenon DEF FlagsOK
<1>2. QueuesOK'
  BY DEF QueuesOK
<1>3. TypeOK'
  BY <1>1, <1>2
<1>4. PlaceInv'
  BY DEF PlaceInv, InitLabels
<1>5. WakeInv'
  BY DEF WakeInv
<1>6. CleanUpInv'
  BY DEF CleanUpInv, FreedAfterJoin
<1>7. NoneStranded'
  BY DEF NoneStranded, Draining
<1>8. ReceivedInOrder'
  BY DEF ReceivedInOrder
<1>. QED  BY <1>1, <1>2, <1>3, <1>4, <1>5, <1>6, <1>7, <1>8

(* The threads are told to end. *)
LEMMA StopInductive ==
    ASSUME TransportInv, NEW t \in Users, Stop(t)
    PROVE  TransportInv'
<1>. USE DEF Stop
<1>1. FlagsOK'
  BY Zenon DEF FlagsOK
<1>2. QueuesOK'
  BY DEF QueuesOK
<1>3. TypeOK'
  BY <1>1, <1>2
<1>4. PlaceInv'
  BY DEF PlaceInv, InitLabels
<1>5. WakeInv'
  BY DEF WakeInv
<1>6. CleanUpInv'
  BY DEF CleanUpInv, FreedAfterJoin
<1>7. NoneStranded'
  BY DEF NoneStranded, Draining
<1>8. ReceivedInOrder'
  BY DEF ReceivedInOrder
<1>. QED  BY <1>1, <1>2, <1>3, <1>4, <1>5, <1>6, <1>7, <1>8

(* The empty message brings the token only. *)
LEMMA PushNullInductive ==
    ASSUME TransportInv, NEW t \in Users, PushNull(t)
    PROVE  TransportInv'
<1>. USE DEF PushNull, UnlockIfEmpty
<1>1. FlagsOK'
  BY Zenon DEF FlagsOK
<1>2. QueuesOK'
  BY DEF QueuesOK
<1>3. TypeOK'
  BY <1>1, <1>2
<1>4. PlaceInv'
  BY DEF PlaceInv, InitLabels
<1>5. WakeInv'
  BY DEF WakeInv
<1>6. CleanUpInv'
  BY DEF CleanUpInv, FreedAfterJoin
<1>7. NoneStranded'
  BY DEF NoneStranded, Draining
<1>8. ReceivedInOrder'
  BY DEF ReceivedInOrder
<1>. QED  BY <1>1, <1>2, <1>3, <1>4, <1>5, <1>6, <1>7, <1>8

(* The producer has ended. *)
LEMMA JoinProducerInductive ==
    ASSUME TransportInv, NEW t \in Users, JoinProducer(t)
    PROVE  TransportInv'
<1>. USE DEF JoinProducer, Join
<1>1. FlagsOK'
  BY Zenon DEF FlagsOK
<1>2. QueuesOK'
  BY DEF QueuesOK
<1>3. TypeOK'
  BY <1>1, <1>2
<1>4. PlaceInv'
  BY DEF PlaceInv, InitLabels
<1>5. WakeInv'
  BY DEF WakeInv
<1>6. CleanUpInv'
  BY DEF CleanUpInv, FreedAfterJoin
<1>7. NoneStranded'
  BY DEF NoneStranded, Draining
<1>8. ReceivedInOrder'
  BY DEF ReceivedInOrder
<1>. QED  BY <1>1, <1>2, <1>3, <1>4, <1>5, <1>6, <1>7, <1>8

(* The consumer is told to stop receiving. *)
LEMMA BreakConsumerInductive ==
    ASSUME TransportInv, NEW t \in Users, BreakConsumer(t)
    PROVE  TransportInv'
<1>. USE DEF BreakConsumer
<1>1. FlagsOK'
  BY Zenon DEF FlagsOK
<1>2. QueuesOK'
  BY DEF QueuesOK
<1>3. TypeOK'
  BY <1>1, <1>2
<1>4. PlaceInv'
  BY DEF PlaceInv, InitLabels
<1>5. WakeInv'
  BY DEF WakeInv
<1>6. CleanUpInv'
  BY DEF CleanUpInv, FreedAfterJoin
<1>7. NoneStranded'
  BY DEF NoneStranded, Draining
<1>8. ReceivedInOrder'
  BY DEF ReceivedInOrder
<1>. QED  BY <1>1, <1>2, <1>3, <1>4, <1>5, <1>6, <1>7, <1>8

(* The consumer has ended. *)
LEMMA JoinConsumerInductive ==
    ASSUME TransportInv, NEW t \in Users, JoinConsumer(t)
    PROVE  TransportInv'
<1>. USE DEF JoinConsumer, Join
<1>1. FlagsOK'
  BY Zenon DEF FlagsOK
<1>2. QueuesOK'
  BY DEF QueuesOK
<1>3. TypeOK'
  BY <1>1, <1>2
<1>4. PlaceInv'
  BY DEF PlaceInv, InitLabels
<1>5. WakeInv'
  BY DEF WakeInv
<1>6. CleanUpInv'
  BY DEF CleanUpInv, FreedAfterJoin
<1>7. NoneStranded'
  BY DEF NoneStranded, Draining
<1>8. ReceivedInOrder'
  BY DEF ReceivedInOrder
<1>. QED  BY <1>1, <1>2, <1>3, <1>4, <1>5, <1>6, <1>7, <1>8

(* The queues go when no thread is left to use them. *)
LEMMA FreeInductive ==
    ASSUME TransportInv, NEW t \in Users, Free(t)
    PROVE  TransportInv'
<1>. USE DEF Free
<1>1. FlagsOK'
  BY Zenon DEF FlagsOK
<1>2. QueuesOK'
  BY DEF QueuesOK
<1>3. TypeOK'
  BY <1>1, <1>2
<1>4. PlaceInv'
  BY DEF PlaceInv, InitLabels
<1>5. WakeInv'
  BY DEF WakeInv
<1>6. CleanUpInv'
  BY DEF CleanUpInv, FreedAfterJoin
<1>7. NoneStranded'
  BY DEF NoneStranded, Draining
<1>8. ReceivedInOrder'
  BY DEF ReceivedInOrder
<1>. QED  BY <1>1, <1>2, <1>3, <1>4, <1>5, <1>6, <1>7, <1>8

(* A process that stutters keeps the invariant. *)
LEMMA StutterInductive ==
    ASSUME TransportInv, UNCHANGED vars
    PROVE  TransportInv'
<1>. USE DEF vars
<1>1. FlagsOK' /\ QueuesOK'
  BY Zenon DEF FlagsOK, QueuesOK
<1>2. TypeOK'
  BY <1>1
<1>3. PlaceInv' /\ WakeInv'
  BY DEF PlaceInv, WakeInv
<1>4. CleanUpInv' /\ NoneStranded'
  BY DEF CleanUpInv, FreedAfterJoin, NoneStranded, Draining
<1>5. ReceivedInOrder'
  BY DEF ReceivedInOrder
<1>. QED  BY <1>1, <1>2, <1>3, <1>4, <1>5

(* At the start of transport_init the queues are empty and no thread runs. *)
LEMMA InitInductive ==
    ASSUME Init
    PROVE  TransportInv
<1>. USE DEF Init
<1>1. FlagsOK
  BY DEF FlagsOK
<1>2. QueuesOK
  BY EmptySeq DEF QueuesOK
<1>3. TypeOK
  BY <1>1, <1>2
<1>4. PlaceInv /\ WakeInv
  BY DEF PlaceInv, WakeInv, InitLabels, ProducerLabels, ConsumerLabels
<1>5. CleanUpInv /\ NoneStranded
  BY DEF CleanUpInv, FreedAfterJoin, NoneStranded
<1>6. ReceivedInOrder
  <2>1. Len(recvQ) = 0
    BY EmptySeq
  <2>. QED  BY <2>1 DEF ReceivedInOrder
<1>. QED  BY <1>3, <1>4, <1>5, <1>6

(* Every step of every thread keeps the invariant. *)
LEMMA NextInductive ==
    ASSUME TransportInv, [Next]_vars
    PROVE  TransportInv'
<1>. HIDE DEF TransportInv
<1>. SUFFICES ASSUME Next
              PROVE  TransportInv'
  BY StutterInductive
<1>1. CASE MainStep
  BY <1>1, InitConsumerInductive, StartConsumerInductive, InitProducerInductive,
     StartProducerInductive, ReadEventInductive, PopMsgInductive, HandlerReturnsInductive
     DEF MainStep
<1>2. CASE ProducerStep
  BY <1>2, ProducerChecksInductive, LockEmptyInductive, PopToSendInductive, PublishInductive,
     PushBackInductive DEF ProducerStep
<1>3. CASE ConsumerStep
  BY <1>3, ConsumerChecksInductive, CheckBreakInductive, DispatchedMessagesInductive,
     PostEventInductive DEF ConsumerStep
<1>4. CASE Arrive \/ DispatchedOther
  BY <1>4, ArriveInductive, DispatchedOtherInductive
<1>5. ASSUME NEW t \in Users, Send(t) \/ CleanUp(t)
      PROVE  TransportInv'
  BY <1>5, SendInductive, CleanUpInductive
<1>6. ASSUME NEW t \in Users, CleanUpStep(t)
      PROVE  TransportInv'
  BY <1>6, StopInductive, PushNullInductive, JoinProducerInductive, BreakConsumerInductive,
     JoinConsumerInductive, FreeInductive DEF CleanUpStep
<1>. QED  BY <1>1, <1>2, <1>3, <1>4, <1>5, <1>6 DEF Next

-----------------------------------------------------------------------------
(* The inductive invariant of the transport: the places of the threads, the  *)
(* token of the queue, and what the clean-up has waited for, agree.          *)
THEOREM TransportInvariance == Spec => []TransportInv
<1>1. Init => TransportInv
  BY InitInductive
<1>2. TransportInv /\ [Next]_vars => TransportInv'
  BY NextInductive
<1>. QED  BY <1>1, <1>2, PTL DEF Spec

(* The queues, locks and threads of the transport keep their type. *)
THEOREM TypeCorrect == Spec => []TypeOK
<1>1. TransportInv => TypeOK
  BY DEF TransportInv
<1>. QED  BY <1>1, TransportInvariance, PTL

(* The producer of threaded_transport.c never sleeps on a queue with a       *)
(* message in it (rvi_producer.c: the lock that stands for an empty queue).  *)
THEOREM WakeupKept == Spec => []NoLostWakeup
<1>1. TransportInv => NoLostWakeup
  BY DEF TransportInv, WakeInv, NoLostWakeup
<1>. QED  BY <1>1, TransportInvariance, PTL

(* A message that arrived always has an event, or someone on the way to it,  *)
(* whatever events the pipe of glib_dispatcher.c dropped.                    *)
THEOREM MessageNeverStranded == Spec => []NoneStranded
<1>1. TransportInv => NoneStranded
  BY DEF TransportInv
<1>. QED  BY <1>1, TransportInvariance, PTL

(* The consumer's queue hands messages on in the order they arrived, once.   *)
THEOREM HandedOnInOrder == Spec => []ReceivedInOrder
<1>1. TransportInv => ReceivedInOrder
  BY DEF TransportInv
<1>. QED  BY <1>1, TransportInvariance, PTL

(* transport_cleanup releases nothing before both threads have ended.        *)
THEOREM ReleasedAfterJoin == Spec => []FreedAfterJoin
<1>1. TransportInv => FreedAfterJoin
  BY DEF TransportInv, CleanUpInv
<1>. QED  BY <1>1, TransportInvariance, PTL

(* What ProducerEnds stands on: whatever order the stop (transport_cleanup), the  *)
(* pushes and the producer's own steps come in, the producer does not sleep on a  *)
(* mutex that nobody is going to open.                                            *)
THEOREM ProducerHearsStop == Spec => []StopIsHeard
<1>. USE DEF StopIsHeard
<1>1. Init => StopIsHeard
  BY DEF Init
<1>2. ASSUME TransportInv, StopIsHeard, [Next]_vars
      PROVE  StopIsHeard'
  <2>1. CASE MainStep \/ UNCHANGED vars
    BY <1>2, <2>1 DEF MainStep, InitConsumer, StartConsumer, InitProducer, StartProducer, InitStep, StartThread,
                      ReadEvent, PopMsg, UseFreed, HandlerReturns, vars, PlaceInv, InitLabels
  <2>2. CASE ConsumerStep \/ Arrive \/ DispatchedOther
    BY <1>2, <2>2 DEF ConsumerStep, ConsumerChecks, CheckBreak, DispatchedMessages, PostEvent, Arrive,
                      DispatchedOther
  <2>3. CASE ProducerStep
    BY <1>2, <2>3 DEF ProducerStep, ProducerChecks, LockEmpty, PopToSend, Publish, PushBack, UnlockIfEmpty
  <2>4. ASSUME NEW t \in Users, PushNull(t)
        PROVE  StopIsHeard'
    BY <1>2, <2>4 DEF PushNull, UnlockIfEmpty, WakeInv
  <2>5. ASSUME NEW t \in Users, Stop(t)
        PROVE  StopIsHeard'
    BY <1>2, <2>5 DEF Stop
  <2>6. ASSUME NEW t \in Users,
               Send(t) \/ CleanUp(t) \/ JoinProducer(t) \/ BreakConsumer(t) \/ JoinConsumer(t) \/ Free(t)
        PROVE  StopIsHeard'
    <3>1. UNCHANGED goOn /\ pc'[Producer] = pc[Producer]
      BY <1>2, <2>6 DEF Send, UseFreed, CleanUp, JoinProducer, JoinConsumer, Join, BreakConsumer, Free
    <3>2. emptyLocked' => emptyLocked
      BY <2>6, Zenon DEF Send, UseFreed, UnlockIfEmpty, CleanUp, JoinProducer, JoinConsumer, Join,
                         BreakConsumer, Free
    <3>3. \A u \in Users : pc[u] = "pushNull" => pc'[u] = "pushNull"
      BY <1>2, <2>6 DEF Send, UseFreed, MayUse, CleanUp, JoinProducer, JoinConsumer, Join, BreakConsumer, Free
    <3>. QED  BY <1>2, <3>1, <3>2, <3>3
  <2>. QED  BY <1>2, <2>1, <2>2, <2>3, <2>4, <2>5, <2>6 DEF Next, CleanUpStep
<1>. QED  BY <1>1, <1>2, TransportInvariance, PTL DEF Spec

-----------------------------------------------------------------------------
(* What is in a sequence when one element is put behind it.                   *)
LEMMA AppendRange ==
    ASSUME NEW S, NEW q \in Seq(S), NEW e \in S
    PROVE  Len(Append(q, e)) = Len(q) + 1 /\ Range(Append(q, e)) = Range(q) \cup {e}
<1>1. /\ Len(q) \in Nat /\ DOMAIN q = 1 .. Len(q) /\ DOMAIN Append(q, e) = 1 .. Len(q) + 1
      /\ Append(q, e)[Len(q) + 1] = e /\ \A i \in 1 .. Len(q) : Append(q, e)[i] = q[i]
  OBVIOUS
<1>2. 1 .. Len(q) + 1 = 1 .. Len(q) \cup {Len(q) + 1}
  BY <1>1
<1>. QED  BY <1>1, <1>2 DEF Range

(* What is in a sequence is its first element or in the rest.                 *)
LEMMA HeadTailRange ==
    ASSUME NEW S, NEW q \in Seq(S), q # <<>>
    PROVE  Range(q) = {Head(q)} \cup Range(Tail(q))
<1>1. /\ Len(q) \in Nat \ {0} /\ DOMAIN q = 1 .. Len(q) /\ DOMAIN Tail(q) = 1 .. Len(q) - 1
      /\ Head(q) = q[1] /\ \A i \in 1 .. Len(q) - 1 : Tail(q)[i] = q[i + 1]
  BY EmptySeq
<1>2. \A i \in 1 .. Len(q) : i = 1 \/ (i - 1 \in 1 .. Len(q) - 1 /\ Tail(q)[i - 1] = q[i])
  BY <1>1
<1>3. \A i \in 1 .. Len(q) - 1 : i + 1 \in 1 .. Len(q)
  BY <1>1
<1>. DEFINE rest == Tail(q)
<1>4. DOMAIN rest = 1 .. Len(q) - 1
  BY <1>1
<1>. HIDE DEF rest
<1>5. ASSUME NEW x \in Range(q)
      PROVE  x = Head(q) \/ x \in Range(rest)
  <2>1. PICK i \in 1 .. Len(q) : x = q[i]
    BY <1>1 DEF Range
  <2>. QED  BY <1>1, <1>2, <1>4, <2>1 DEF Range, rest
<1>6. ASSUME NEW x \in Range(rest)
      PROVE  x \in Range(q)
  <2>1. PICK i \in 1 .. Len(q) - 1 : x = rest[i]
    BY <1>4 DEF Range
  <2>2. x = q[i + 1] /\ i + 1 \in DOMAIN q
    BY <1>1, <1>3, <2>1 DEF rest
  <2>. QED  BY <2>2 DEF Range
<1>7. Head(q) \in Range(q)
  BY <1>1 DEF Range
<1>. QED  BY <1>5, <1>6, <1>7 DEF rest

(* What is in two sequences together is in one of them.                       *)
LEMMA ConcatRange ==
    ASSUME NEW S, NEW a \in Seq(S), NEW b \in Seq(S)
    PROVE  Range(a \o b) = Range(a) \cup Range(b)
<1>1. /\ Len(a) \in Nat /\ Len(b) \in Nat /\ DOMAIN a = 1 .. Len(a) /\ DOMAIN b = 1 .. Len(b)
      /\ DOMAIN (a \o b) = 1 .. Len(a) + Len(b)
      /\ \A i \in 1 .. Len(a) + Len(b) : (a \o b)[i] = IF i <= Len(a) THEN a[i] ELSE b[i - Len(a)]
  OBVIOUS
<1>2. \A i \in 1 .. Len(a) + Len(b) : i \in 1 .. Len(a) \/ (i > Len(a) /\ i - Len(a) \in 1 .. Len(b))
  BY <1>1
<1>3. \A i \in 1 .. Len(b) : i + Len(a) \in 1 .. Len(a) + Len(b) /\ (a \o b)[i + Len(a)] = b[i]
  BY <1>1
<1>4. \A i \in 1 .. Len(a) : i \in 1 .. Len(a) + Len(b) /\ (a \o b)[i] = a[i]
  BY <1>1
<1>. DEFINE both == a \o b
<1>5. DOMAIN both = 1 .. Len(a) + Len(b)
  BY <1>1
<1>6. /\ \A i \in 1 .. Len(a) : both[i] = a[i]
      /\ \A i \in 1 .. Len(b) : both[i + Len(a)] = b[i]
      /\ \A i \in 1 .. Len(a) + Len(b) :
            i \in 1 .. Len(a) \/ (i - Len(a) \in 1 .. Len(b) /\ both[i] = b[i - Len(a)])
  BY <1>1, <1>2, <1>3, <1>4
<1>. HIDE DEF both
<1>7. ASSUME NEW x \in Range(both)
      PROVE  x \in Range(a) \cup Range(b)
  <2>1. PICK i \in 1 .. Len(a) + Len(b) : x = both[i]
    BY <1>5 DEF Range
  <2>. QED  BY <1>1, <1>6, <2>1 DEF Range
<1>8. ASSUME NEW x \in Range(a)
      PROVE  x \in Range(both)
  <2>1. PICK i \in 1 .. Len(a) : x = a[i]
    BY <1>1 DEF Range
  <2>. QED  BY <1>4, <1>5, <1>6, <2>1 DEF Range
<1>9. ASSUME NEW x \in Range(b)
      PROVE  x \in Range(both)
  <2>1. PICK i \in 1 .. Len(b) : x = b[i]
    BY <1>1 DEF Range
  <2>2. i + Len(a) \in DOMAIN both /\ both[i + Len(a)] = x
    BY <1>3, <1>5, <1>6, <2>1
  <2>. QED  BY <2>2 DEF Range
<1>. QED  BY <1>7, <1>8, <1>9 DEF both

(* How many messages there are in the four places of Everywhere, and which.   *)
LEMMA EverywhereFacts ==
    ASSUME NEW S, NEW p \in Seq(S), NEW g \in Seq(S), NEW s \in Seq(S), NEW q \in Seq(S)
    PROVE  /\ Len(p \o g \o s \o q) = Len(p) + Len(g) + Len(s) + Len(q)
           /\ Range(p \o g \o s \o q) = Range(p) \cup Range(g) \cup Range(s) \cup Range(q)
<1>1. p \o g \in Seq(S) /\ Len(p \o g) = Len(p) + Len(g) /\ Range(p \o g) = Range(p) \cup Range(g)
  BY ConcatRange
<1>. DEFINE pg == p \o g
<1>a. pg \in Seq(S)
  BY <1>1
<1>. HIDE DEF pg
<1>2. pg \o s \in Seq(S) /\ Len(pg \o s) = Len(pg) + Len(s) /\ Range(pg \o s) = Range(pg) \cup Range(s)
  BY <1>a, ConcatRange
<1>. DEFINE pgs == pg \o s
<1>b. pgs \in Seq(S)
  BY <1>2
<1>. HIDE DEF pgs
<1>3. Len(pgs \o q) = Len(pgs) + Len(q) /\ Range(pgs \o q) = Range(pgs) \cup Range(q)
  BY <1>b, ConcatRange
<1>. QED  BY <1>1, <1>2, <1>3 DEF pg, pgs

(* The same of the state, and of the next one.                                *)
LEMMA PlacesFacts ==
    ASSUME NEW n \in Nat, NEW p \in Seq(1 .. n), NEW g \in Seq(1 .. n), NEW x \in 0 .. n, NEW q \in Seq(1 .. n)
    PROVE  LET e == p \o g \o (IF x = 0 THEN <<>> ELSE <<x>>) \o q IN
           /\ Len(e) = Len(p) + Len(g) + (IF x = 0 THEN 0 ELSE 1) + Len(q)
           /\ Range(e) = Range(p) \cup Range(g) \cup ({x} \ {0}) \cup Range(q)
<1>. DEFINE s == IF x = 0 THEN <<>> ELSE <<x>>
<1>1. /\ s \in Seq(1 .. n) /\ Len(s) = (IF x = 0 THEN 0 ELSE 1)
      /\ Range(s) = {x} \ {0}
  <2>1. CASE x = 0
    BY <2>1, EmptySeq DEF Range
  <2>2. CASE x # 0
    BY <2>2 DEF Range
  <2>. QED  BY <2>1, <2>2
<1>. DEFINE S == 1 .. n
<1>a. p \in Seq(S) /\ g \in Seq(S) /\ s \in Seq(S) /\ q \in Seq(S)
  BY <1>1
<1>. HIDE DEF s, S
<1>2. /\ Len(p \o g \o s \o q) = Len(p) + Len(g) + Len(s) + Len(q)
      /\ Range(p \o g \o s \o q) = Range(p) \cup Range(g) \cup Range(s) \cup Range(q)
  BY <1>a, EverywhereFacts
<1>. QED  BY <1>1, <1>2 DEF s

(* The message at hand is the producer's, and it is there when it is needed.  *)
LEMMA SendingInductive ==
    ASSUME TransportInv, SendingInv, [Next]_vars
    PROVE  SendingInv'
<1>. USE DEF SendingInv
<1>1. CASE MainStep \/ ConsumerStep \/ Arrive \/ DispatchedOther \/ UNCHANGED vars
  <2>1. /\ UNCHANGED <<sending, failed>>
        /\ pc'[Producer] \in {pc[Producer], "loop", "check"}
        /\ pc'[Producer] # pc[Producer] => pc[Producer] = "off"
    BY <1>1 DEF MainStep, ConsumerStep, InitConsumer, StartConsumer, InitProducer, StartProducer, InitStep,
                StartThread, ReadEvent, PopMsg, UseFreed, HandlerReturns, ConsumerChecks, CheckBreak,
                DispatchedMessages, PostEvent, Arrive, DispatchedOther, vars, PlaceInv, InitLabels
  <2>. QED  BY <2>1
<1>2. CASE ProducerStep
  BY <1>2 DEF ProducerStep, ProducerChecks, LockEmpty, PopToSend, Publish, PushBack
<1>3. ASSUME NEW t \in Users, Send(t) \/ CleanUp(t) \/ CleanUpStep(t)
      PROVE  SendingInv'
  <2>1. UNCHANGED <<sending, failed>> /\ pc'[Producer] = pc[Producer]
    BY <1>3 DEF Send, UseFreed, CleanUp, CleanUpStep, Stop, PushNull, JoinProducer, JoinConsumer, Join,
                BreakConsumer, Free
  <2>. QED  BY <2>1
<1>. QED  BY <1>1, <1>2, <1>3 DEF Next

(* The steps that move no message out.                                        *)
LEMMA OutStays ==
    ASSUME TransportInv, [Next]_vars
    PROVE  \/ UNCHANGED <<sendQ, sending, published, gone, failed, accepted>>
           \/ PopToSend \/ Publish \/ PushBack
           \/ \E t \in Users : Send(t) \/ Free(t)
<1>1. CASE MainStep \/ ConsumerStep \/ Arrive \/ DispatchedOther \/ UNCHANGED vars
  BY <1>1 DEF MainStep, ConsumerStep, InitConsumer, StartConsumer, InitProducer, StartProducer, InitStep,
              StartThread, ReadEvent, PopMsg, UseFreed, HandlerReturns, ConsumerChecks, CheckBreak,
              DispatchedMessages, PostEvent, Arrive, DispatchedOther, vars
<1>2. CASE ProducerStep
  BY <1>2 DEF ProducerStep, ProducerChecks, LockEmpty
<1>3. ASSUME NEW t \in Users, CleanUp(t) \/ CleanUpStep(t), ~Free(t)
      PROVE  UNCHANGED <<sendQ, sending, published, gone, failed, accepted>>
  BY <1>3 DEF CleanUp, CleanUpStep, Stop, PushNull, JoinProducer, JoinConsumer, Join, BreakConsumer
<1>. QED  BY <1>1, <1>2, <1>3 DEF Next

(* What a message out goes through: it is counted when it is accepted, and moves  *)
(* from one place to another from then on.                                        *)
LEMMA NoneLostInductive ==
    ASSUME TransportInv, SendingInv, NoneLostOrDoubled, [Next]_vars
    PROVE  NoneLostOrDoubled'
<1>. DEFINE n     == MaxSent
            Num(p, g, x, q) == Len(p) + Len(g) + (IF x = 0 THEN 0 ELSE 1) + Len(q)
            Set(p, g, x, q) == Range(p) \cup Range(g) \cup ({x} \ {0}) \cup Range(q)
<1>1. /\ published \in Seq(1 .. n) /\ gone \in Seq(1 .. n) /\ sendQ \in Seq(1 .. n) /\ sending \in 0 .. n
      /\ accepted \in 0 .. n /\ n \in Nat
  BY DEF QueuesOK
<1>2. TransportInv'
  BY NextInductive
<1>3. /\ published' \in Seq(1 .. n) /\ gone' \in Seq(1 .. n) /\ sendQ' \in Seq(1 .. n) /\ sending' \in 0 .. n
      /\ accepted' \in 0 .. n
  BY <1>2 DEF QueuesOK
<1>4. /\ Num(published, gone, sending, sendQ) = accepted
      /\ Set(published, gone, sending, sendQ) = 1 .. accepted
  <2>. HIDE DEF n
  <2>1. /\ Len(Everywhere) = Num(published, gone, sending, sendQ)
        /\ Range(Everywhere) = Set(published, gone, sending, sendQ)
    BY <1>1, PlacesFacts DEF Everywhere
  <2>. QED  BY <2>1 DEF NoneLostOrDoubled
<1>5. SUFFICES /\ Num(published', gone', sending', sendQ') = accepted'
               /\ Set(published', gone', sending', sendQ') = 1 .. accepted'
  <2>. HIDE DEF n
  <2>1. /\ Len(Everywhere)' = Num(published', gone', sending', sendQ')
        /\ Range(Everywhere)' = Set(published', gone', sending', sendQ')
    BY <1>1, <1>3, PlacesFacts DEF Everywhere
  <2>. QED  BY <1>5, <2>1 DEF NoneLostOrDoubled
<1>6. /\ Len(published) \in Nat /\ Len(gone) \in Nat /\ Len(sendQ) \in Nat
  BY <1>1
<1>7. CASE UNCHANGED <<sendQ, sending, published, gone, failed, accepted>>
  BY <1>4, <1>7
<1>8. CASE PopToSend
  <2>1. CASE UNCHANGED sendQ
    BY <1>4, <1>8, <2>1 DEF PopToSend
  <2>2. CASE sendQ # <<>> /\ sending' = Head(sendQ) /\ sendQ' = Tail(sendQ)
    <3>1. sending = 0 /\ UNCHANGED <<published, gone, accepted>>
      BY <1>8 DEF PopToSend, SendingInv
    <3>2. /\ sending' \in 1 .. n /\ Len(sendQ') = Len(sendQ) - 1
          /\ Range(sendQ) = {sending'} \cup Range(sendQ')
      BY <1>1, <2>2, HeadTailRange, HeadTailProperties
    <3>. QED  BY <1>4, <1>6, <3>1, <3>2
  <2>. QED  BY <1>8, <2>1, <2>2 DEF PopToSend
<1>9. CASE Publish
  <2>1. CASE UNCHANGED <<published, sending>>
    BY <1>4, <1>9, <2>1 DEF Publish
  <2>2. CASE published' = Append(published, sending) /\ sending' = 0
    <3>1. sending # 0 /\ UNCHANGED <<sendQ, gone, accepted>>
      BY <1>9 DEF Publish, PlaceInv
    <3>2. Len(published') = Len(published) + 1 /\ Range(published') = Range(published) \cup {sending}
      <4>. DEFINE S == 1 .. n
      <4>1. published \in Seq(S) /\ sending \in S
        BY <1>1, <3>1
      <4>. HIDE DEF S
      <4>. QED  BY <2>2, <4>1, AppendRange
    <3>. QED  BY <1>4, <1>6, <2>2, <3>1, <3>2
  <2>. QED  BY <1>9, <2>1, <2>2 DEF Publish
<1>10. CASE PushBack
  <2>0. sending # 0 /\ sending' = 0 /\ UNCHANGED <<published, accepted>>
    BY <1>10 DEF PushBack, PlaceInv
  <2>1. CASE sendQ' = Append(sendQ, sending) /\ UNCHANGED gone
    <3>1. Len(sendQ') = Len(sendQ) + 1 /\ Range(sendQ') = Range(sendQ) \cup {sending}
      <4>. DEFINE S == 1 .. n
      <4>1. sendQ \in Seq(S) /\ sending \in S
        BY <1>1, <2>0
      <4>. HIDE DEF S
      <4>. QED  BY <2>1, <4>1, AppendRange
    <3>. QED  BY <1>4, <1>6, <2>0, <2>1, <3>1
  <2>2. CASE gone' = Append(gone, sending) /\ UNCHANGED sendQ
    <3>1. Len(gone') = Len(gone) + 1 /\ Range(gone') = Range(gone) \cup {sending}
      <4>. DEFINE S == 1 .. n
      <4>1. gone \in Seq(S) /\ sending \in S
        BY <1>1, <2>0
      <4>. HIDE DEF S
      <4>. QED  BY <2>2, <4>1, AppendRange
    <3>. QED  BY <1>4, <1>6, <2>0, <2>2, <3>1
  <2>. QED  BY <1>10, <2>1, <2>2 DEF PushBack
<1>11. ASSUME NEW t \in Users, Send(t)
       PROVE  /\ Num(published', gone', sending', sendQ') = accepted'
              /\ Set(published', gone', sending', sendQ') = 1 .. accepted'
  <2>0. UNCHANGED <<published, gone, sending>>
    BY <1>11 DEF Send, UseFreed
  <2>1. CASE UNCHANGED <<accepted, sendQ>>
    BY <1>4, <2>0, <2>1
  <2>2. CASE accepted < MaxSent /\ accepted' = accepted + 1 /\ sendQ' = Append(sendQ, accepted + 1)
    <3>1. Len(sendQ') = Len(sendQ) + 1 /\ Range(sendQ') = Range(sendQ) \cup {accepted + 1}
      <4>. DEFINE S == 1 .. n
      <4>1. sendQ \in Seq(S) /\ accepted + 1 \in S
        BY <1>1, <2>2
      <4>. HIDE DEF S
      <4>. QED  BY <2>2, <4>1, AppendRange
    <3>2. 1 .. accepted + 1 = 1 .. accepted \cup {accepted + 1}
      BY <1>1
    <3>. QED  BY <1>4, <1>6, <2>0, <2>2, <3>1, <3>2
  <2>. QED  BY <1>11, <2>1, <2>2 DEF Send, UseFreed
<1>12. ASSUME NEW t \in Users, Free(t)
       PROVE  /\ Num(published', gone', sending', sendQ') = accepted'
              /\ Set(published', gone', sending', sendQ') = 1 .. accepted'
  <2>1. UNCHANGED <<published, sending, accepted>> /\ sendQ' = <<>> /\ gone' = gone \o sendQ
    BY <1>12 DEF Free
  <2>2. Len(gone') = Len(gone) + Len(sendQ) /\ Range(gone') = Range(gone) \cup Range(sendQ)
    BY <1>1, <2>1, ConcatRange
  <2>3. Len(sendQ') = 0 /\ Range(sendQ') = {}
    BY <2>1 DEF Range
  <2>. QED  BY <1>4, <1>6, <2>1, <2>2, <2>3
<1>. QED  BY <1>7, <1>8, <1>9, <1>10, <1>11, <1>12, OutStays

(* What is sent, being sent and queued stays in line: a message that was not sent *)
(* goes behind the others only as one that failed.                                *)
LEMMA OrderInductive ==
    ASSUME TransportInv, SendingInv, NoneLostOrDoubled, OrderInv, [Next]_vars
    PROVE  OrderInv'
<1>1. /\ published \in Seq(1 .. MaxSent) /\ sendQ \in Seq(1 .. MaxSent) /\ gone \in Seq(1 .. MaxSent)
      /\ sending \in 0 .. MaxSent /\ accepted \in 0 .. MaxSent /\ Len(published) \in Nat /\ Len(sendQ) \in Nat
  BY DEF QueuesOK
<1>2. /\ \A i \in 1 .. Len(sendQ) : sendQ[i] \in 1 .. accepted
      /\ \A i \in 1 .. Len(published) : published[i] \in 1 .. accepted
      /\ sending # 0 => sending \in 1 .. accepted
  <2>1. Range(Everywhere) = Range(published) \cup Range(gone) \cup ({sending} \ {0}) \cup Range(sendQ)
    BY <1>1, PlacesFacts DEF Everywhere
  <2>2. \A q \in Seq(1 .. MaxSent) : \A i \in 1 .. Len(q) : q[i] \in Range(q)
    BY DEF Range
  <2>3. Range(Everywhere) = 1 .. accepted
    BY DEF NoneLostOrDoubled
  <2>4. \A i \in 1 .. Len(sendQ) : sendQ[i] \in 1 .. accepted
    BY <1>1, <2>1, <2>2, <2>3
  <2>5. \A i \in 1 .. Len(published) : published[i] \in 1 .. accepted
    BY <1>1, <2>1, <2>2, <2>3
  <2>6. sending # 0 => sending \in 1 .. accepted
    BY <2>1, <2>3
  <2>. QED  BY <2>4, <2>5, <2>6
<1>3. CASE UNCHANGED <<sendQ, sending, published, gone, failed, accepted>>
  BY <1>3 DEF OrderInv, InLine
<1>4. CASE PopToSend
  <2>0. UNCHANGED <<published, failed>> /\ sending = 0
    BY <1>4 DEF PopToSend, SendingInv
  <2>1. CASE UNCHANGED <<sendQ, sending>>
    BY <2>0, <2>1 DEF OrderInv, InLine
  <2>2. CASE sendQ # <<>> /\ sending' = Head(sendQ) /\ sendQ' = Tail(sendQ)
    <3>1. /\ sending' = sendQ[1] /\ 1 \in 1 .. Len(sendQ) /\ Len(sendQ') = Len(sendQ) - 1
          /\ \A i \in 1 .. Len(sendQ') : i + 1 \in 1 .. Len(sendQ) /\ sendQ'[i] = sendQ[i + 1] /\ 1 < i + 1
      BY <1>1, <2>2, EmptySeq, HeadTailProperties
    <3>2. \A i, j \in 1 .. Len(sendQ') : i < j => (sendQ'[i] > sendQ'[j] => sendQ'[j] \in failed')
      BY <2>0, <3>1 DEF OrderInv, InLine
    <3>3. \A i \in 1 .. Len(published), j \in 1 .. Len(sendQ') : (published[i] > sendQ'[j] => sendQ'[j] \in failed')
      BY <2>0, <3>1 DEF OrderInv, InLine
    <3>4. \A i \in 1 .. Len(published) : (published[i] > sending' => sending' \in failed')
      BY <2>0, <3>1 DEF OrderInv, InLine
    <3>5. \A j \in 1 .. Len(sendQ') : (sending' > sendQ'[j] => sendQ'[j] \in failed')
      BY <2>0, <3>1 DEF OrderInv, InLine
    <3>. QED  BY <2>0, <3>2, <3>3, <3>4, <3>5 DEF OrderInv, InLine
  <2>. QED  BY <1>4, <2>1, <2>2 DEF PopToSend
<1>5. CASE Publish
  <2>0. UNCHANGED <<sendQ, accepted>> /\ sending # 0
    BY <1>5 DEF Publish, PlaceInv
  <2>1. CASE UNCHANGED <<published, sending>> /\ failed' = failed \cup {sending}
    BY <2>0, <2>1 DEF OrderInv, InLine
  <2>2. CASE published' = Append(published, sending) /\ sending' = 0 /\ UNCHANGED failed
    <3>1. /\ Len(published') = Len(published) + 1 /\ published'[Len(published) + 1] = sending
          /\ \A i \in 1 .. Len(published) : published'[i] = published[i]
      BY <1>1, <2>0, <2>2, AppendProperties
    <3>2. \A i \in 1 .. Len(published') : i \in 1 .. Len(published) \/ i = Len(published) + 1
      BY <1>1, <3>1
    <3>3. \A i, j \in 1 .. Len(published') : i < j => (published'[i] > published'[j] => published'[j] \in failed')
      BY <1>1, <2>0, <2>2, <3>1, <3>2 DEF OrderInv, InLine
    <3>4. \A i \in 1 .. Len(published'), j \in 1 .. Len(sendQ) : (published'[i] > sendQ[j] => sendQ[j] \in failed')
      BY <1>1, <2>0, <2>2, <3>1, <3>2 DEF OrderInv, InLine
    <3>. QED  BY <2>0, <2>2, <3>3, <3>4 DEF OrderInv, InLine
  <2>. QED  BY <1>5, <2>1, <2>2 DEF Publish
<1>6. CASE PushBack
  <2>0. UNCHANGED <<published, failed>> /\ sending # 0 /\ sending \in failed /\ sending' = 0
    BY <1>6 DEF PushBack, PlaceInv, SendingInv
  <2>1. CASE UNCHANGED sendQ
    BY <2>0, <2>1 DEF OrderInv, InLine
  <2>2. CASE sendQ' = Append(sendQ, sending)
    <3>1. /\ Len(sendQ') = Len(sendQ) + 1 /\ sendQ'[Len(sendQ) + 1] = sending
          /\ \A i \in 1 .. Len(sendQ) : sendQ'[i] = sendQ[i]
      BY <1>1, <2>0, <2>2, AppendProperties
    <3>2. \A i \in 1 .. Len(sendQ') : i \in 1 .. Len(sendQ) \/ i = Len(sendQ) + 1
      BY <1>1, <3>1
    <3>3. \A i, j \in 1 .. Len(sendQ') : i < j => (sendQ'[i] > sendQ'[j] => sendQ'[j] \in failed')
      BY <1>1, <2>0, <3>1, <3>2 DEF OrderInv, InLine
    <3>4. \A i \in 1 .. Len(published), j \in 1 .. Len(sendQ') : (published[i] > sendQ'[j] => sendQ'[j] \in failed')
      BY <1>1, <2>0, <3>1, <3>2 DEF OrderInv, InLine
    <3>. QED  BY <2>0, <3>3, <3>4 DEF OrderInv, InLine
  <2>. QED  BY <1>6, <2>1, <2>2 DEF PushBack
<1>7. ASSUME NEW t \in Users, Send(t)
      PROVE  OrderInv'
  <2>0. UNCHANGED <<published, failed, sending>>
    BY <1>7 DEF Send, UseFreed
  <2>1. CASE UNCHANGED sendQ
    BY <2>0, <2>1 DEF OrderInv, InLine
  <2>2. CASE accepted < MaxSent /\ sendQ' = Append(sendQ, accepted + 1)
    <3>1. /\ Len(sendQ') = Len(sendQ) + 1 /\ sendQ'[Len(sendQ) + 1] = accepted + 1
          /\ \A i \in 1 .. Len(sendQ) : sendQ'[i] = sendQ[i]
      BY <1>1, <2>2, AppendProperties
    <3>2. \A i \in 1 .. Len(sendQ') : i \in 1 .. Len(sendQ) \/ i = Len(sendQ) + 1
      BY <1>1, <3>1
    <3>a. /\ \A i \in 1 .. Len(sendQ) : ~(sendQ[i] > accepted + 1) /\ sendQ[i] \in Int
          /\ \A i \in 1 .. Len(published) : ~(published[i] > accepted + 1) /\ published[i] \in Int
          /\ sending # 0 => ~(sending > accepted + 1)
      BY <1>1, <1>2
    <3>b. \A i, j \in 1 .. Len(sendQ') : i < j => i \in 1 .. Len(sendQ)
      BY <1>1, <3>1
    <3>3. \A i, j \in 1 .. Len(sendQ') : i < j => (sendQ'[i] > sendQ'[j] => sendQ'[j] \in failed')
      BY <2>0, <3>1, <3>2, <3>a, <3>b DEF OrderInv, InLine
    <3>4. \A i \in 1 .. Len(published), j \in 1 .. Len(sendQ') : (published[i] > sendQ'[j] => sendQ'[j] \in failed')
      BY <2>0, <3>1, <3>2, <3>a, <3>b DEF OrderInv, InLine
    <3>5. sending # 0 => \A j \in 1 .. Len(sendQ') : (sending > sendQ'[j] => sendQ'[j] \in failed')
      BY <2>0, <3>1, <3>2, <3>a, <3>b DEF OrderInv, InLine
    <3>. QED  BY <2>0, <3>3, <3>4, <3>5 DEF OrderInv, InLine
  <2>. QED  BY <1>7, <2>1, <2>2 DEF Send, UseFreed
<1>8. ASSUME NEW t \in Users, Free(t)
      PROVE  OrderInv'
  <2>1. UNCHANGED <<published, failed, sending>> /\ sendQ' = <<>> /\ Len(sendQ') = 0
    BY <1>8, EmptySeq DEF Free
  <2>. QED  BY <2>1 DEF OrderInv, InLine
<1>. QED  BY <1>3, <1>4, <1>5, <1>6, <1>7, <1>8, OutStays

(* The messages out are where they should be, and in line, in every state.     *)
THEOREM OutInvariance == Spec => [](TransportInv /\ OutInv)
<1>1. Init => TransportInv /\ OutInv
  <2>1. ASSUME Init
        PROVE  SendingInv /\ OrderInv
    <3>1. published = <<>> /\ sendQ = <<>> /\ sending = 0 /\ Len(published) = 0 /\ Len(sendQ) = 0
      BY <2>1, EmptySeq DEF Init
    <3>2. pc[Producer] = "off"
      BY <2>1 DEF Init
    <3>. QED  BY <3>1, <3>2 DEF SendingInv, OrderInv
  <2>2. ASSUME Init
        PROVE  NoneLostOrDoubled
    <3>1. Everywhere = <<>> /\ accepted = 0
      BY <2>2 DEF Init, Everywhere
    <3>. QED  BY <3>1 DEF NoneLostOrDoubled, Range
  <2>. QED  BY <2>1, <2>2, InitInductive DEF OutInv
<1>2. TransportInv /\ OutInv /\ [Next]_vars => (TransportInv /\ OutInv)'
  BY NextInductive, SendingInductive, NoneLostInductive, OrderInductive DEF OutInv
<1>. QED  BY <1>1, <1>2, PTL DEF Spec

(* A message that threaded_producer_pushMsg accepted is sent, dropped, at hand or *)
(* queued, in one place only, whatever publishes and allocations failed.          *)
THEOREM NoMessageLost == Spec => []NoneLostOrDoubled
<1>1. TransportInv /\ OutInv => NoneLostOrDoubled
  BY DEF OutInv
<1>. QED  BY <1>1, OutInvariance, PTL

(* The order of two messages changes only when the earlier one failed to be sent  *)
(* and went back to the queue (threaded_producer_sendNext).                       *)
THEOREM OrderKept == Spec => []OvertakesOnlyFailed
<1>1. OrderInv => OvertakesOnlyFailed
  BY DEF OrderInv, InLine, OvertakesOnlyFailed
<1>2. TransportInv /\ OutInv => OvertakesOnlyFailed
  BY <1>1 DEF OutInv
<1>. QED  BY <1>2, OutInvariance, PTL

-----------------------------------------------------------------------------
(* The first of a queue, and what is behind it.                               *)
LEMMA FrontFacts ==
    ASSUME NEW S, NEW q \in Seq(S), NEW e \in S
    PROVE  <<e>> \o q \in Seq(S) /\ <<e>> \o q # <<>> /\ Head(<<e>> \o q) = e /\ Tail(<<e>> \o q) = q
<1>. DEFINE both == <<e>> \o q
<1>1. <<e>> \in Seq(S) /\ Len(<<e>>) = 1 /\ <<e>>[1] = e /\ Len(q) \in Nat
  BY LenProperties
<1>2. /\ both \in Seq(S) /\ Len(both) = 1 + Len(q)
      /\ \A i \in 1 .. 1 + Len(q) : both[i] = IF i <= 1 THEN <<e>>[i] ELSE q[i - 1]
  BY <1>1, ConcatProperties
<1>. HIDE DEF both
<1>3. both # <<>>
  BY <1>1, <1>2, EmptySeq
<1>4. /\ Tail(both) \in Seq(S) /\ Len(Tail(both)) = Len(q)
      /\ \A i \in 1 .. Len(q) : Tail(both)[i] = both[i + 1]
  BY <1>1, <1>2, <1>3, HeadTailProperties
<1>5. \A i \in 1 .. Len(q) : both[i + 1] = q[i]
  BY <1>1, <1>2
<1>6. Tail(both) = q
  BY <1>4, <1>5, SeqEqual
<1>7. Head(both) = e
  BY <1>1, <1>2, <1>3
<1>. QED  BY <1>2, <1>3, <1>6, <1>7 DEF both

(* A queue is its first followed by the rest.                                 *)
LEMMA FrontAndRest ==
    ASSUME NEW S, NEW q \in Seq(S), q # <<>>
    PROVE  <<Head(q)>> \o Tail(q) = q
<1>. DEFINE e == Head(q)
            rest == Tail(q)
            both == <<e>> \o rest
<1>1. /\ e \in S /\ rest \in Seq(S) /\ Len(rest) = Len(q) - 1 /\ e = q[1]
      /\ \A i \in 1 .. Len(rest) : rest[i] = q[i + 1]
      /\ Len(q) \in Nat \ {0}
  BY EmptySeq, HeadTailProperties
<1>. HIDE DEF e, rest
<1>2. <<e>> \in Seq(S) /\ Len(<<e>>) = 1 /\ <<e>>[1] = e
  BY <1>1
<1>3. /\ both \in Seq(S) /\ Len(both) = 1 + Len(rest)
      /\ \A i \in 1 .. 1 + Len(rest) : both[i] = IF i <= 1 THEN <<e>>[i] ELSE rest[i - 1]
  BY <1>1, <1>2, ConcatProperties
<1>. HIDE DEF both
<1>4. \A i \in 1 .. Len(both) : both[i] = q[i]
  BY <1>1, <1>2, <1>3
<1>5. both = q
  BY <1>1, <1>3, <1>4, SeqEqual
<1>. QED  BY <1>5 DEF both, e, rest

(* What is pushed to the queue comes last.                                    *)
LEMMA PushLast ==
    ASSUME NEW S, NEW q \in Seq(S), NEW a \in Seq(S), NEW e \in S
    PROVE  a \o Append(q, e) = Append(a \o q, e)
<1>1. <<e>> \in Seq(S) /\ a \o q \in Seq(S)
  BY ConcatProperties
<1>2. Append(q, e) = q \o <<e>> /\ Append(a \o q, e) = (a \o q) \o <<e>>
  BY <1>1, AppendIsConcat
<1>3. (a \o q) \o <<e>> = a \o (q \o <<e>>)
  BY <1>1, ConcatAssociative
<1>. QED  BY <1>2, <1>3

(* What waits, by where the producer is.                                      *)
LEMMA WaitingFacts ==
    ASSUME NEW n \in Nat, NEW x \in 0 .. n, NEW q \in Seq(1 .. n)
    PROVE  LET w == (IF x = 0 THEN <<>> ELSE <<x>>) \o q IN
           /\ x = 0 => w = q
           /\ x # 0 => w # <<>> /\ Head(w) = x /\ Tail(w) = q
<1>. DEFINE S == 1 .. n
            s == IF x = 0 THEN <<>> ELSE <<x>>
<1>1. q \in Seq(S) /\ (x # 0 => x \in S)
  OBVIOUS
<1>2. x = 0 => s = <<>>
  OBVIOUS
<1>3. x # 0 => s = <<x>>
  OBVIOUS
<1>. HIDE DEF S, s
<1>4. x = 0 => s \o q = q
  BY <1>1, <1>2, ConcatEmptySeq
<1>5. x # 0 => s \o q # <<>> /\ Head(s \o q) = x /\ Tail(s \o q) = q
  BY <1>1, <1>3, FrontFacts
<1>. QED  BY <1>4, <1>5 DEF S, s

(* Every step of the transport is one of the channel, or none.                *)
LEMMA StepIsChannel ==
    ASSUME TransportInv, SendingInv, [Next]_vars
    PROVE  Chan!Next \/ UNCHANGED Chan!channelVars
<1>. USE DEF Chan!Next, Chan!channelVars
<1>1. /\ sendQ \in Seq(1 .. MaxSent) /\ sending \in 0 .. MaxSent /\ accepted \in 0 .. MaxSent
      /\ MaxSent \in Nat
  BY DEF QueuesOK
<1>2. /\ sending = 0 => Waiting = sendQ
      /\ sending # 0 => Waiting # <<>> /\ Head(Waiting) = sending /\ Tail(Waiting) = sendQ
  BY <1>1, WaitingFacts DEF Waiting
<1>3. CASE UNCHANGED <<sendQ, sending, published, accepted, freed>>
  BY <1>3 DEF Waiting
<1>4. CASE PopToSend
  <2>1. sending = 0 /\ UNCHANGED <<published, accepted, freed>>
    BY <1>4 DEF PopToSend, SendingInv
  <2>2. CASE UNCHANGED <<sendQ, sending>>
    BY <2>1, <2>2 DEF Waiting
  <2>3. CASE sendQ # <<>> /\ sending' = Head(sendQ) /\ sendQ' = Tail(sendQ)
    <3>1. <<Head(sendQ)>> \o Tail(sendQ) = sendQ /\ Head(sendQ) # 0
      BY <1>1, <2>3, FrontAndRest, HeadTailProperties
    <3>2. Waiting' = Waiting
      BY <1>2, <2>1, <2>3, <3>1 DEF Waiting
    <3>. QED  BY <2>1, <3>2
  <2>. QED  BY <1>4, <2>2, <2>3 DEF PopToSend
<1>5. CASE Publish \/ PushBack
  <2>1. sending # 0 /\ ~freed /\ UNCHANGED <<accepted, freed>>
    BY <1>5 DEF Publish, PushBack, PlaceInv, CleanUpInv, FreedAfterJoin
  <2>2. sending' = 0 => Waiting' = sendQ'
    <3>1. sendQ' \in Seq(1 .. MaxSent)
      <4>1. TransportInv'
        BY NextInductive
      <4>. QED  BY <4>1 DEF QueuesOK
    <3>. QED  BY <1>1, <3>1, WaitingFacts DEF Waiting
  <2>3. CASE published' = Append(published, sending) /\ sending' = 0 /\ UNCHANGED sendQ
    BY <1>2, <2>1, <2>2, <2>3 DEF Chan!TryFirst, Chan!Deliver
  <2>4. CASE UNCHANGED <<published, sending, sendQ>>
    BY <2>1, <2>4 DEF Waiting
  <2>5. CASE sendQ' = Append(sendQ, sending) /\ sending' = 0 /\ UNCHANGED published
    BY <1>2, <2>1, <2>2, <2>5 DEF Chan!TryFirst, Chan!Postpone
  <2>6. CASE UNCHANGED <<published, sendQ>> /\ sending' = 0
    BY <1>2, <2>1, <2>2, <2>6 DEF Chan!TryFirst, Chan!Lose
  <2>. QED  BY <1>5, <2>3, <2>4, <2>5, <2>6 DEF Publish, PushBack
<1>6. ASSUME NEW t \in Users, Send(t)
      PROVE  Chan!Next \/ UNCHANGED Chan!channelVars
  <2>1. UNCHANGED <<published, sending, freed>>
    BY <1>6 DEF Send, UseFreed
  <2>2. CASE UNCHANGED <<accepted, sendQ>>
    BY <2>1, <2>2 DEF Waiting
  <2>3. CASE /\ ~freed /\ accepted < MaxSent /\ accepted' = accepted + 1
             /\ sendQ' = Append(sendQ, accepted + 1)
    <3>. DEFINE atHand == IF sending = 0 THEN <<>> ELSE <<sending>>
                S == 1 .. MaxSent
    <3>a. sendQ \in Seq(S) /\ atHand \in Seq(S)
      <4>1. sending # 0 => sending \in S
        BY <1>1
      <4>. HIDE DEF S
      <4>2. <<>> \in Seq(S) /\ \A e \in S : <<e>> \in Seq(S)
        BY EmptySeq
      <4>3. sendQ \in Seq(S)
        BY <1>1 DEF S
      <4>. QED  BY <4>1, <4>2, <4>3
    <3>1. \A e \in S : atHand \o Append(sendQ, e) = Append(Waiting, e)
      <4>. HIDE DEF S
      <4>1. Waiting = atHand \o sendQ
        BY DEF Waiting
      <4>. HIDE DEF atHand
      <4>. QED  BY <3>a, <4>1, PushLast
    <3>2. accepted + 1 \in 1 .. MaxSent
      BY <1>1, <2>3
    <3>3. Waiting' = atHand \o Append(sendQ, accepted + 1)
      BY <2>1, <2>3, Zenon DEF Waiting
    <3>4. Waiting' = Append(Waiting, accepted + 1)
      BY <3>1, <3>2, <3>3, Zenon
    <3>. QED  BY <2>1, <2>3, <3>4 DEF Chan!Accept
  <2>. QED  BY <1>6, <2>2, <2>3 DEF Send, UseFreed
<1>7. ASSUME NEW t \in Users, Free(t)
      PROVE  Chan!Next \/ UNCHANGED Chan!channelVars
  <2>1. sending = 0
    BY <1>7 DEF Free, CleanUpInv, SendingInv
  <2>2. freed' = TRUE /\ Waiting' = <<>> /\ UNCHANGED <<accepted, published>>
    BY <1>7, <2>1, EmptySeq, WaitingFacts DEF Free, Waiting
  <2>. QED  BY <2>2 DEF Chan!Close
<1>8. UNCHANGED freed \/ \E t \in Users : Free(t)
  BY DEF Next, MainStep, ProducerStep, ConsumerStep, CleanUpStep, InitConsumer, StartConsumer, InitProducer,
         StartProducer, InitStep, StartThread, ReadEvent, PopMsg, UseFreed, HandlerReturns, ConsumerChecks,
         CheckBreak, DispatchedMessages, DispatchedOther, PostEvent, Arrive, ProducerChecks, LockEmpty,
         PopToSend, Publish, PushBack, Send, CleanUp, Stop, PushNull, JoinProducer, JoinConsumer, Join,
         BreakConsumer, vars
<1>. QED  BY <1>3, <1>4, <1>5, <1>6, <1>7, <1>8, OutStays

(* The queue, the mutex and the two threads implement the channel, for any number *)
(* of senders, messages and failures: only the first message leaves, one by one,  *)
(* and nothing is sent once transport_cleanup has released the transport.         *)
THEOREM ChannelRefined == Spec => ChannelKept
<1>1. Init => Chan!Init
  <2>1. Init => sending = 0 /\ sendQ = <<>> /\ <<>> \o sendQ = <<>>
    BY ConcatEmptySeq, EmptySeq DEF Init
  <2>. QED  BY <2>1 DEF Init, Chan!Init, Waiting
<1>2. TransportInv /\ OutInv /\ [Next]_vars => Chan!Next \/ UNCHANGED Chan!channelVars
  BY StepIsChannel DEF OutInv
<1>. QED  BY <1>1, <1>2, OutInvariance, PTL DEF Spec, ChannelKept, Chan!Spec
-----------------------------------------------------------------------------
\* That the producer ends, given that the threads can always go on.

(* There is never more than one clean-up under way.                           *)
LEMMA OneCleanUpKept ==
    ASSUME TransportInv, OneCleanUp, [Next]_vars
    PROVE  OneCleanUp'
<1>. USE DEF OneCleanUp, PlaceInv, InitLabels
<1>1. CASE MainStep \/ UNCHANGED vars
  BY <1>1 DEF MainStep, InitConsumer, StartConsumer, InitProducer, StartProducer, InitStep, StartThread,
              ReadEvent, PopMsg, UseFreed, HandlerReturns, vars
<1>2. CASE ProducerStep
  BY <1>2 DEF ProducerStep, ProducerChecks, LockEmpty, PopToSend, Publish, PushBack
<1>3. CASE ConsumerStep \/ Arrive \/ DispatchedOther
  BY <1>3 DEF ConsumerStep, ConsumerChecks, CheckBreak, DispatchedMessages, PostEvent, Arrive, DispatchedOther
<1>4. ASSUME NEW t \in Users, Send(t)
      PROVE  OneCleanUp'
  BY <1>4 DEF Send, UseFreed, MayUse
<1>5. ASSUME NEW t \in Users, CleanUp(t)
      PROVE  OneCleanUp'
  BY <1>5 DEF CleanUp, MayUse
<1>6. ASSUME NEW t \in Users, CleanUpStep(t)
      PROVE  OneCleanUp'
  BY <1>6 DEF CleanUpStep, Stop, PushNull, JoinProducer, JoinConsumer, Join, BreakConsumer, Free
<1>. QED  BY <1>1, <1>2, <1>3, <1>4, <1>5, <1>6 DEF Next

(* Once it is told to stop, each step of the producer brings it nearer to its *)
(* end, and so does the push that opens the mutex it may sleep on; no other   *)
(* thread takes it back.                                                      *)
LEMMA EndComesNearer ==
    ASSUME TransportInv, StopIsHeard, OneCleanUp, ProducerEnding, ProducerEnding', [Next]_vars
    PROVE  /\ ProducerLeft \in 1 .. 6 /\ ProducerLeft' \in 1 .. 6
           /\ ProducerLeft' <= ProducerLeft
           /\ ~AwaitsMutex /\ ProducerStep => ProducerLeft' < ProducerLeft
           /\ AwaitsMutex /\ (\E t \in Users : CleanUpStep(t)) => ProducerLeft' < ProducerLeft
<1>1. ProducerLeft \in 1 .. 6 /\ ProducerLeft' \in 1 .. 6
  BY DEF ProducerLeft
<1>2. pc[Producer] \in {"check", "wait", "pop", "publish", "pushBack"}
  BY DEF ProducerEnding, PlaceInv, ProducerLabels
<1>3. CASE ProducerStep
  <2>1. CASE ProducerChecks
    BY <2>1 DEF ProducerChecks, ProducerEnding
  <2>2. CASE LockEmpty
    <3>1. ProducerLeft = 5 /\ ProducerLeft' = 4 /\ ~AwaitsMutex
      BY <2>2 DEF LockEmpty, ProducerLeft, AwaitsMutex
    <3>. QED  BY <1>1, <3>1
  <2>3. CASE PopToSend
    <3>1. ProducerLeft = 4 /\ ~AwaitsMutex /\ pc'[Producer] \in {"publish", "check"}
      BY <2>3 DEF PopToSend, ProducerLeft, AwaitsMutex
    <3>2. ProducerLeft' \in {3, 1}
      BY <3>1 DEF ProducerLeft
    <3>. QED  BY <1>1, <3>1, <3>2
  <2>4. CASE Publish
    <3>1. ProducerLeft = 3 /\ ~AwaitsMutex /\ pc'[Producer] \in {"pushBack", "check"}
      BY <2>4 DEF Publish, ProducerLeft, AwaitsMutex
    <3>2. ProducerLeft' \in {2, 1}
      BY <3>1 DEF ProducerLeft
    <3>. QED  BY <1>1, <3>1, <3>2
  <2>5. CASE PushBack
    <3>1. ProducerLeft = 2 /\ ~AwaitsMutex /\ pc'[Producer] = "check"
      BY <2>5 DEF PushBack, ProducerLeft, AwaitsMutex
    <3>2. ProducerLeft' = 1
      BY <3>1 DEF ProducerLeft
    <3>. QED  BY <1>1, <3>1, <3>2
  <2>. QED  BY <1>3, <2>1, <2>2, <2>3, <2>4, <2>5 DEF ProducerStep
<1>4. ASSUME pc'[Producer] = pc[Producer], emptyLocked' => emptyLocked
      PROVE  ProducerLeft' <= ProducerLeft
  BY <1>1, <1>2, <1>4 DEF ProducerLeft
<1>5. ASSUME NEW t \in Users, CleanUpStep(t)
      PROVE  /\ pc'[Producer] = pc[Producer] /\ (emptyLocked' => emptyLocked)
             /\ AwaitsMutex => ~emptyLocked'
  <2>1. pc[t] \in CleanUpLabels /\ pc'[Producer] = pc[Producer]
    BY <1>5 DEF CleanUpStep, Stop, PushNull, JoinProducer, JoinConsumer, Join, BreakConsumer, Free
  <2>2. emptyLocked' => emptyLocked
    BY <1>5, Zenon DEF CleanUpStep, Stop, PushNull, UnlockIfEmpty, JoinProducer, JoinConsumer, Join,
       BreakConsumer, Free
  <2>3. ASSUME AwaitsMutex
        PROVE  ~emptyLocked'
    <3>1. PICK u \in Users : pc[u] = "pushNull"
      BY <2>3 DEF StopIsHeard, AwaitsMutex, ProducerEnding
    <3>2. t = u
      BY <2>1, <3>1 DEF OneCleanUp
    <3>3. PushNull(t)
      BY <1>5, <3>1, <3>2 DEF CleanUpStep, Stop, JoinProducer, JoinConsumer, Join, BreakConsumer, Free
    <3>4. sendQ = <<>>
      BY <2>3 DEF WakeInv, AwaitsMutex
    <3>. QED  BY <3>3, <3>4 DEF PushNull, UnlockIfEmpty
  <2>. QED  BY <2>1, <2>2, <2>3
<1>6. ASSUME MainStep
      PROVE  pc'[Producer] = pc[Producer] /\ emptyLocked' = emptyLocked
  <2>1. ~Initializing
    BY <1>2 DEF PlaceInv
  <2>2. pc[Main] \notin InitLabels
    BY <2>1 DEF PlaceInv
  <2>. QED  BY <1>6, <2>2 DEF InitLabels, MainStep, InitConsumer, StartConsumer, InitProducer, StartProducer,
         InitStep, StartThread, ReadEvent, PopMsg, UseFreed, HandlerReturns
<1>7. ASSUME ConsumerStep \/ Arrive \/ DispatchedOther \/ UNCHANGED vars
      PROVE  pc'[Producer] = pc[Producer] /\ emptyLocked' = emptyLocked
  BY <1>7 DEF ConsumerStep, ConsumerChecks, CheckBreak, DispatchedMessages, PostEvent, Arrive, DispatchedOther, vars
<1>8. ASSUME NEW t \in Users, Send(t) \/ CleanUp(t)
      PROVE  pc'[Producer] = pc[Producer] /\ (emptyLocked' => emptyLocked)
  <2>1. pc'[Producer] = pc[Producer]
    BY <1>8 DEF Send, UseFreed, CleanUp
  <2>2. emptyLocked' => emptyLocked
    BY <1>8, Zenon DEF Send, UseFreed, UnlockIfEmpty, CleanUp
  <2>. QED  BY <2>1, <2>2
<1>9. CASE \E t \in Users : CleanUpStep(t)
  <2>1. /\ pc'[Producer] = pc[Producer] /\ (emptyLocked' => emptyLocked)
        /\ AwaitsMutex => ~emptyLocked'
    BY <1>5, <1>9
  <2>2. AwaitsMutex => ProducerLeft = 6 /\ ProducerLeft' = 5
    BY <2>1 DEF AwaitsMutex, ProducerLeft
  <2>3. CASE ~ProducerStep
    BY <1>1, <1>4, <2>1, <2>2, <2>3
  <2>. QED  BY <1>3, <2>3
<1>10. CASE ~ProducerStep /\ ~ \E t \in Users : CleanUpStep(t)
  BY <1>1, <1>4, <1>6, <1>7, <1>8, <1>10 DEF Next
<1>. QED  BY <1>3, <1>9, <1>10

(* A clean-up is never taken back.                                            *)
LEMMA StopStays ==
    ASSUME ~goOn, [Next]_vars
    PROVE  ~goOn'
BY DEF Next, MainStep, ProducerStep, ConsumerStep, CleanUpStep, InitConsumer, StartConsumer, InitProducer,
       StartProducer, InitStep, StartThread, ReadEvent, PopMsg, UseFreed, HandlerReturns, ConsumerChecks,
       CheckBreak, DispatchedMessages, DispatchedOther, PostEvent, Arrive, ProducerChecks, LockEmpty,
       PopToSend, Publish, PushBack, Send, CleanUp, Stop, PushNull, JoinProducer, JoinConsumer, Join,
       BreakConsumer, Free, flags, vars

(* It does end: whatever the other threads do, the join of transport_cleanup  *)
(* does not wait for ever.  That neither the producer nor the thread that     *)
(* opens its mutex is held up (ProducerGoesOn) is a hypothesis, since it      *)
(* speaks of ENABLED; TLC confirms it.                                        *)
THEOREM ProducerEnded == FairSpec /\ []ProducerGoesOn => ProducerEnds
<1>. DEFINE Inv == TransportInv /\ StopIsHeard /\ OneCleanUp
           Ended == pc[Producer] \in {"off", "done"}
           Within(k) == Ended \/ ProducerLeft <= k
           Stay(k) == Inv /\ ~goOn /\ ~Ended /\ Within(k) /\ [Next]_vars => Within(k)'
           Gain(k, l) == Inv /\ ~goOn /\ ~Ended /\ Within(k) /\ [Next]_vars
                         /\ \/ AwaitsMutex /\ <<\E t \in Users : CleanUpStep(t)>>_vars
                            \/ ~AwaitsMutex /\ <<ProducerStep>>_vars
                           => Within(l)'
<1>1. Spec => []Inv
  <2>1. Init => OneCleanUp
    BY DEF Init, OneCleanUp, CleanUpLabels
  <2>. QED  BY <2>1, OneCleanUpKept, TransportInvariance, ProducerHearsStop, PTL DEF Spec
<1>2. ~goOn /\ [Next]_vars => ~goOn'
  BY StopStays
<1>3. ASSUME Inv, ~goOn, ~Ended, [Next]_vars
      PROVE  \/ Ended'
             \/ /\ ProducerLeft \in 1 .. 6 /\ ProducerLeft' \in 1 .. 6
                /\ ProducerLeft' <= ProducerLeft
                /\ ~AwaitsMutex /\ ProducerStep => ProducerLeft' < ProducerLeft
                /\ AwaitsMutex /\ (\E t \in Users : CleanUpStep(t)) => ProducerLeft' < ProducerLeft
  <2>1. CASE ~Ended'
    BY <1>2, <1>3, <2>1, EndComesNearer DEF ProducerEnding
  <2>. QED  BY <2>1
<1>4. \A k \in 1 .. 6 : Stay(k) /\ \A l \in 0 .. 5 : k = l + 1 => Gain(k, l)
  <2>. HIDE DEF Inv
  <2>. QED  BY <1>3
<1>5. /\ Stay(1) /\ Stay(2) /\ Stay(3) /\ Stay(4) /\ Stay(5) /\ Stay(6)
      /\ Gain(1, 0) /\ Gain(2, 1) /\ Gain(3, 2) /\ Gain(4, 3) /\ Gain(5, 4) /\ Gain(6, 5)
  <2>. HIDE DEF Stay, Gain
  <2>. QED  BY <1>4
<1>6. Within(6) /\ (Within(0) => Ended)
  BY DEF ProducerLeft
<1>7. ~Ended => (AwaitsMutex <=> ~ Within(5))
  BY DEF AwaitsMutex, ProducerLeft
<1>8. ProducerGoesOn /\ ~goOn /\ ~Ended
        => /\ AwaitsMutex => ENABLED <<\E t \in Users : CleanUpStep(t)>>_vars
           /\ ~AwaitsMutex => ENABLED <<ProducerStep>>_vars
  BY DEF ProducerGoesOn, ProducerEnding
<1>. QED  BY <1>1, <1>2, <1>5, <1>6, <1>7, <1>8, PTL DEF FairSpec, Spec, ProducerEnds
-----------------------------------------------------------------------------
\* That neither direction comes to a stop of itself, with the same hypothesis.

(* Until it is stopped the transport is whole.                                *)
LEMMA StopInvKept ==
    ASSUME TransportInv, StopInv, [Next]_vars
    PROVE  StopInv'
<1>. USE DEF StopInv, InitLabels, CleanUpLabels
<1>. SUFFICES ASSUME goOn'
              PROVE  StopInv'
  OBVIOUS
<1>1. goOn
  BY StopStays
<1>2. TypeOK /\ PlaceInv
  OBVIOUS
<1>3. CASE MainStep
  <2>1. CASE InitConsumer \/ StartConsumer
    BY <1>1, <1>2, <2>1 DEF InitConsumer, InitStep, StartConsumer, StartThread, flags, Initializing
  <2>2. CASE InitProducer \/ StartProducer
    BY <1>1, <1>2, <2>2 DEF InitProducer, InitStep, StartProducer, StartThread, flags, Initializing
  <2>3. CASE ReadEvent \/ HandlerReturns
    BY <1>1, <1>2, <2>3 DEF ReadEvent, HandlerReturns, flags, Initializing
  <2>4. CASE PopMsg
    BY <1>1, <1>2, <2>4 DEF PopMsg, UseFreed, flags, Initializing
  <2>. QED  BY <1>3, <2>1, <2>2, <2>3, <2>4 DEF MainStep
<1>4. CASE ProducerStep
  BY <1>1, <1>2, <1>4 DEF ProducerStep, ProducerChecks, LockEmpty, PopToSend, Publish, PushBack, flags, Initializing
<1>5. CASE ConsumerStep \/ Arrive \/ DispatchedOther
  BY <1>1, <1>2, <1>5 DEF ConsumerStep, ConsumerChecks, CheckBreak, DispatchedMessages, PostEvent, Arrive,
                          DispatchedOther, flags, Initializing
<1>6. ASSUME NEW t \in Users, Send(t) \/ CleanUp(t)
      PROVE  StopInv'
  BY <1>1, <1>2, <1>6 DEF Send, UseFreed, CleanUp, MayUse, flags, Initializing
<1>7. ASSUME NEW t \in Users, CleanUpStep(t)
      PROVE  StopInv'
  BY <1>1, <1>7 DEF CleanUpStep, Stop, PushNull, JoinProducer, JoinConsumer, Join, BreakConsumer, Free
<1>8. CASE UNCHANGED vars
  BY <1>1, <1>8 DEF vars, flags, Initializing
<1>. QED  BY <1>3, <1>4, <1>5, <1>6, <1>7, <1>8 DEF Next

(* The whole transport, until it is stopped.                                  *)
LEMMA StopInvariance == Spec => []StopInv
<1>1. Init => StopInv
  BY DEF Init, StopInv, InitLabels, CleanUpLabels, Initializing
<1>. QED  BY <1>1, StopInvKept, TransportInvariance, PTL DEF Spec

(* With a message to send each step of the producer brings it nearer to its   *)
(* publish, and no other thread takes it back.                                *)
LEMMA PublishComesNearer ==
    ASSUME TransportInv, SendingInv, StopInv, Unsent, pc[Producer] # "pushBack", [Next]_vars
    PROVE  /\ PublishLeft \in 1 .. 4
           /\ \/ Len(published') = Len(published) + 1 \/ pc'[Producer] = "pushBack" \/ ~goOn'
              \/ /\ Unsent' /\ Len(published') = Len(published)
                 /\ PublishLeft' \in 1 .. 4 /\ PublishLeft' <= PublishLeft
                 /\ ProducerStep => PublishLeft' < PublishLeft
<1>1. /\ goOn /\ ~freed /\ pc[Producer] \in {"check", "wait", "pop", "publish"}
      /\ published \in Seq(1 .. MaxSent) /\ sendQ \in Seq(1 .. MaxSent)
  BY DEF Unsent, StopInv, PlaceInv, ProducerLabels, WakeInv, SendingInv, QueuesOK
<1>2. PublishLeft \in 1 .. 4
  BY DEF PublishLeft
<1>3. CASE ProducerStep
  <2>1. CASE ProducerChecks
    <3>1. PublishLeft = 4 /\ PublishLeft' = 3
      BY <1>1, <2>1 DEF ProducerChecks, PublishLeft
    <3>. QED  BY <1>1, <2>1, <3>1 DEF ProducerChecks, Unsent, out, flags, outHist
  <2>2. CASE LockEmpty
    <3>1. PublishLeft = 3 /\ PublishLeft' = 2
      BY <1>1, <2>2 DEF LockEmpty, PublishLeft
    <3>. QED  BY <1>1, <2>2, <3>1 DEF LockEmpty, Unsent, flags, outHist
  <2>3. CASE PopToSend
    <3>1. sendQ # <<>>
      BY <2>3 DEF PopToSend, SendingInv, Unsent
    <3>2. PublishLeft = 2 /\ PublishLeft' = 1
      BY <1>1, <2>3, <3>1 DEF PopToSend, PublishLeft
    <3>3. sending' # 0
      BY <1>1, <2>3, <3>1 DEF PopToSend
    <3>. QED  BY <1>1, <2>3, <3>2, <3>3 DEF PopToSend, Unsent, flags, outHist
  <2>4. CASE Publish
    <3>1. published' = Append(published, sending) \/ pc'[Producer] = "pushBack"
      BY <2>4 DEF Publish
    <3>. QED  BY <1>1, <1>2, <3>1 DEF PlaceInv
  <2>5. CASE PushBack
    BY <2>5 DEF PushBack
  <2>. QED  BY <1>3, <2>1, <2>2, <2>3, <2>4, <2>5 DEF ProducerStep
<1>4. CASE ~ProducerStep
  <2>1. ASSUME NEW t \in Users, Send(t) \/ CleanUp(t) \/ CleanUpStep(t)
        PROVE  \/ ~goOn'
               \/ /\ pc'[Producer] = pc[Producer] /\ UNCHANGED <<published, sending, goOn>>
                  /\ sendQ # <<>> => sendQ' # <<>>
    <3>1. CASE Send(t)
      <4>1. pc' = pc /\ UNCHANGED <<published, sending, goOn>>
        BY <1>1, <3>1 DEF Send, flags
      <4>2. \/ sendQ' = sendQ
            \/ sendQ' = Append(sendQ, accepted + 1)
        BY <1>1, <3>1 DEF Send
      <4>3. sendQ # <<>> => sendQ' # <<>>
        BY <1>1, <4>2
      <4>. QED  BY <4>1, <4>3
    <3>2. CASE CleanUp(t)
      BY <3>2 DEF CleanUp, out, flags, outHist
    <3>3. CASE CleanUpStep(t)
      <4>1. Stop(t)
        BY <1>1, <3>3 DEF StopInv, CleanUpLabels, CleanUpStep, PushNull, JoinProducer, JoinConsumer, Join,
                          BreakConsumer, Free
      <4>. QED  BY <4>1 DEF Stop
    <3>. QED  BY <2>1, <3>1, <3>2, <3>3
  <2>2. ASSUME MainStep
        PROVE  pc'[Producer] = pc[Producer] /\ UNCHANGED <<published, sending, goOn, sendQ>>
    <3>1. pc[Main] \notin InitLabels
      BY <1>1 DEF PlaceInv
    <3>. QED  BY <1>1, <2>2, <3>1 DEF InitLabels, MainStep, InitConsumer, StartConsumer, InitProducer,
           StartProducer, InitStep, StartThread, ReadEvent, PopMsg, UseFreed, HandlerReturns, out, flags, outHist
  <2>3. ASSUME ConsumerStep \/ Arrive \/ DispatchedOther \/ UNCHANGED vars
        PROVE  pc'[Producer] = pc[Producer] /\ UNCHANGED <<published, sending, goOn, sendQ>>
    BY <2>3 DEF ConsumerStep, ConsumerChecks, CheckBreak, DispatchedMessages, PostEvent, Arrive, DispatchedOther,
                vars, out, flags, outHist
  <2>4. \/ ~goOn'
        \/ /\ pc'[Producer] = pc[Producer] /\ UNCHANGED <<published, sending, goOn>>
           /\ sendQ # <<>> => sendQ' # <<>>
    <3>1. CASE \E t \in Users : Send(t) \/ CleanUp(t) \/ CleanUpStep(t)
      BY <2>1, <3>1
    <3>2. CASE MainStep
      BY <2>2, <3>2
    <3>3. CASE ConsumerStep \/ Arrive \/ DispatchedOther \/ UNCHANGED vars
      BY <2>3, <3>3
    <3>. QED  BY <1>4, <3>1, <3>2, <3>3 DEF Next
  <2>5. pc'[Producer] = pc[Producer] => PublishLeft' = PublishLeft
    BY DEF PublishLeft
  <2>6. CASE /\ pc'[Producer] = pc[Producer] /\ UNCHANGED <<published, sending, goOn>>
             /\ sendQ # <<>> => sendQ' # <<>>
    <3>1. Unsent'
      BY <2>6 DEF Unsent
    <3>2. Len(published') = Len(published) /\ PublishLeft' = PublishLeft
      BY <2>5, <2>6
    <3>. QED  BY <1>2, <1>4, <3>1, <3>2
  <2>. QED  BY <1>2, <2>4, <2>6
<1>. QED  BY <1>2, <1>3, <1>4

(* With a message to send the producer does come to send one, or fails to and *)
(* puts it back, until the transport is stopped: it sleeps on the mutex only  *)
(* while there is nothing to send, whoever fills the queue meanwhile.  (With  *)
(* finitely many failures AcceptedIsSent follows by induction.)               *)
THEOREM ProducerServes ==
    ASSUME NEW n \in Nat
    PROVE  FairSpec /\ []PublishGoesOn
              => (Unsent /\ Len(published) = n
                    ~> Len(published) > n \/ pc[Producer] = "pushBack" \/ ~goOn)
<1>. DEFINE Inv == TransportInv /\ SendingInv /\ StopInv
           Waits == Unsent /\ Len(published) = n /\ pc[Producer] # "pushBack"
           Served == Len(published) > n \/ pc[Producer] = "pushBack" \/ ~goOn
           Within(k) == Served \/ PublishLeft <= k
           Stay(k) == Inv /\ Waits /\ Within(k) /\ [Next]_vars => Served' \/ (Waits' /\ Within(k)')
           Gain(k, l) == Inv /\ Waits /\ Within(k) /\ <<ProducerStep>>_vars /\ [Next]_vars
                           => Served' \/ Within(l)'
<1>1. Spec => []Inv
  BY OutInvariance, StopInvariance, PTL DEF OutInv
<1>2. ASSUME Inv, Waits, [Next]_vars
      PROVE  /\ PublishLeft \in 1 .. 4
             /\ \/ Served'
                \/ /\ Waits' /\ PublishLeft' \in 1 .. 4 /\ PublishLeft' <= PublishLeft
                   /\ ProducerStep => PublishLeft' < PublishLeft
  <2>1. Len(published') = Len(published) + 1 => Len(published') > n
    BY <1>2
  <2>. QED  BY <1>2, <2>1, PublishComesNearer
<1>3. \A k \in 1 .. 4 : Stay(k) /\ \A l \in 0 .. 3 : k = l + 1 => Gain(k, l)
  <2>1. Waits => ~Served
    BY DEF Unsent
  <2>. HIDE DEF Inv, Waits, Served
  <2>. QED  BY <1>2, <2>1
<1>4. Stay(1) /\ Stay(2) /\ Stay(3) /\ Stay(4) /\ Gain(1, 0) /\ Gain(2, 1) /\ Gain(3, 2) /\ Gain(4, 3)
  <2>. HIDE DEF Stay, Gain
  <2>. QED  BY <1>3
<1>5. Within(4) /\ (Within(0) => Served)
  BY DEF PublishLeft
<1>6. /\ PublishGoesOn /\ Waits => ENABLED <<ProducerStep>>_vars
      /\ Unsent /\ Len(published) = n => Waits \/ Served
  BY DEF PublishGoesOn
<1>. QED  BY <1>1, <1>4, <1>5, <1>6, PTL DEF FairSpec, Spec

(* With a message that arrived each step of whoever is next (the main thread, the *)
(* consumer on its way to the event, a clean-up of the main thread) brings the    *)
(* main thread nearer to taking it, and no other thread takes it back.            *)
LEMMA TakeComesNearer ==
    ASSUME TransportInv, StopInv, Unhandled, [Next]_vars
    PROVE  /\ TakeLeft \in 1 .. 8
           /\ \/ taken' = taken + 1 \/ ~goOn'
              \/ /\ Unhandled' /\ taken' = taken
                 /\ TakeLeft' \in 1 .. 8 /\ TakeLeft' <= TakeLeft
                 /\ TakeLeft \in {2, 3, 4, 7, 8} /\ MainStep => TakeLeft' < TakeLeft
                 /\ TakeLeft \in {5, 6} /\ ConsumerStep => TakeLeft' < TakeLeft
                 /\ TakeLeft = 1 => ~ \E t \in Users : CleanUpStep(t)
<1>1. /\ goOn /\ ~freed /\ received > taken /\ TypeOK
      /\ pc[Main] \in InitLabels \cup {"loop", "drain", "handle", "stop"}
  BY DEF Unhandled, StopInv
<1>2. TakeLeft \in 1 .. 8 /\ TakeLeft' \in 1 .. 8
  BY DEF TakeLeft
<1>3. recvQ # <<>> /\ Head(recvQ) = taken + 1
  <2>1. recvQ \in Seq(1 .. MaxReceived) /\ received \in Nat /\ taken \in Nat
    BY <1>1, BoundAssumption DEF TypeOK, QueuesOK
  <2>2. taken + Len(recvQ) = received /\ \A i \in 1 .. Len(recvQ) : recvQ[i] = taken + i
    BY <1>1 DEF ReceivedInOrder
  <2>3. Len(recvQ) \in Nat /\ Len(recvQ) > 0
    BY <1>1, <2>1, <2>2, LenProperties
  <2>4. recvQ # <<>> /\ Head(recvQ) = recvQ[1]
    BY <2>1, <2>3, EmptySeq, HeadTailProperties
  <2>. QED  BY <2>1, <2>2, <2>3, <2>4
<1>4. /\ pc[Consumer] # "off" /\ pc[Main] \notin {"initConsumer", "startConsumer"}
      /\ pc[Main] = "loop" /\ ~(pipe > 0)
            => pc[Consumer] = "post" \/ (pc[Consumer] = "iterate" /\ got > 0)
  BY <1>1, <1>3 DEF PlaceInv, NoneStranded, Draining, CleanUpLabels
\* What another thread may do meanwhile.
<1>. DEFINE Kept == /\ pc'[Main] = pc[Main] /\ UNCHANGED <<goOn, taken>>
                    /\ received' \in {received, received + 1}
                    /\ pipe' \in Nat /\ pipe' >= pipe
                    /\ pc[Consumer] = "post" => pc'[Consumer] = "post" \/ pipe' > 0
<1>5. ASSUME Kept
      PROVE  Unhandled' /\ TakeLeft' <= TakeLeft
  <2>1. received \in Nat /\ taken \in Nat /\ pipe \in Nat
    BY <1>1, BoundAssumption DEF TypeOK
  <2>2. Unhandled'
    BY <1>1, <1>5, <2>1 DEF Unhandled
  <2>3. CASE pc[Main] = "loop"
    <3>1. CASE pipe > 0
      <4>1. pipe' > 0
        BY <1>5, <2>1, <3>1
      <4>. QED  BY <1>5, <2>2, <2>3, <3>1, <4>1 DEF TakeLeft
    <3>2. CASE ~(pipe > 0) /\ pc[Consumer] = "post"
      <4>1. TakeLeft = 5 /\ TakeLeft' \in {4, 5}
        BY <1>5, <2>3, <3>2 DEF TakeLeft
      <4>. QED  BY <2>2, <4>1
    <3>3. CASE ~(pipe > 0) /\ pc[Consumer] # "post"
      <4>1. TakeLeft = 6 /\ TakeLeft' \in {4, 5, 6}
        BY <1>5, <2>3, <3>3 DEF TakeLeft
      <4>. QED  BY <2>2, <4>1
    <3>. QED  BY <3>1, <3>2, <3>3
  <2>4. CASE pc[Main] # "loop"
    <3>1. TakeLeft' = TakeLeft
      BY <1>5, <2>4 DEF TakeLeft
    <3>. QED  BY <1>2, <2>2, <3>1
  <2>. QED  BY <2>3, <2>4
<1>6. CASE MainStep
  <2>1. pc[Main] # "stop"
    BY <1>6 DEF MainStep, InitConsumer, StartConsumer, InitProducer, StartProducer, InitStep, StartThread,
                ReadEvent, PopMsg, UseFreed, HandlerReturns
  <2>2. CASE InitProducer \/ StartProducer
    <3>1. UNCHANGED <<goOn, received, taken>>
      BY <2>2 DEF InitProducer, StartProducer, InitStep, StartThread, flags, inHist
    <3>2. \/ pc[Main] = "initProducer" /\ pc'[Main] \in {"startProducer", "stop"}
          \/ pc[Main] = "startProducer" /\ pc'[Main] \in {"loop", "stop"}
      BY <1>1, <2>2, ThreadAssumption DEF InitProducer, StartProducer, InitStep, StartThread, Users, Threads, TypeOK
    <3>3. TakeLeft \in {7, 8} /\ TakeLeft' < TakeLeft
      BY <3>2 DEF TakeLeft
    <3>. QED  BY <1>1, <1>2, <3>1, <3>3 DEF Unhandled
  <2>3. CASE ReadEvent
    <3>1. UNCHANGED <<goOn, received, taken>>
      BY <2>3 DEF ReadEvent, flags, inHist
    <3>2. TakeLeft = 4 /\ TakeLeft' = 2
      BY <1>1, <2>3 DEF ReadEvent, TakeLeft, Users, Threads, TypeOK
    <3>. QED  BY <1>1, <1>2, <3>1, <3>2 DEF Unhandled
  <2>4. CASE PopMsg
    BY <1>1, <1>2, <1>3, <2>4 DEF PopMsg
  <2>5. CASE HandlerReturns
    <3>1. UNCHANGED <<goOn, received, taken>>
      BY <2>5 DEF HandlerReturns, flags, inHist
    <3>2. TakeLeft = 3 /\ TakeLeft' = 2
      BY <1>1, <2>5 DEF HandlerReturns, TakeLeft, Users, Threads, TypeOK
    <3>. QED  BY <1>1, <1>2, <3>1, <3>2 DEF Unhandled
  <2>6. CASE InitConsumer \/ StartConsumer
    BY <1>4, <2>6 DEF InitConsumer, StartConsumer, InitStep, StartThread
  <2>. QED  BY <1>6, <2>2, <2>3, <2>4, <2>5, <2>6 DEF MainStep
<1>7. ASSUME ProducerStep \/ DispatchedOther \/ Arrive \/ UNCHANGED vars
      PROVE  Kept
  <2>1. pipe \in Nat /\ received \in Nat
    BY <1>1, BoundAssumption DEF TypeOK
  <2>2. CASE ProducerStep
    BY <2>1, <2>2, ThreadAssumption DEF ProducerStep, ProducerChecks, LockEmpty, PopToSend, Publish, PushBack,
           in, flags, inHist
  <2>3. CASE DispatchedOther
    BY <2>1, <2>3, ThreadAssumption DEF DispatchedOther, in, flags, inHist
  <2>4. CASE Arrive
    BY <2>1, <2>4 DEF Arrive, flags
  <2>5. CASE UNCHANGED vars
    BY <2>1, <2>5 DEF vars, in, flags, inHist
  <2>. QED  BY <1>7, <2>2, <2>3, <2>4, <2>5
<1>8. ASSUME ConsumerStep
      PROVE  Kept /\ (TakeLeft \in {5, 6} => TakeLeft' < TakeLeft)
  <2>1. pipe \in Nat /\ PipeSize \in Nat \ {0}
    BY <1>1, BoundAssumption DEF TypeOK
  <2>2. TakeLeft \in {5, 6} => pc[Main] = "loop" /\ ~(pipe > 0)
    BY DEF TakeLeft
  <2>3. CASE ConsumerChecks
    BY <1>4, <2>1, <2>2, <2>3, ThreadAssumption DEF ConsumerChecks, in, flags, inHist
  <2>4. CASE CheckBreak
    BY <1>4, <2>1, <2>2, <2>4, ThreadAssumption DEF CheckBreak, flags, inHist
  <2>5. CASE DispatchedMessages
    <3>1. Kept /\ pc[Consumer] = "iterate" /\ pc'[Consumer] = "post"
      BY <1>1, <2>1, <2>5, ThreadAssumption DEF DispatchedMessages, in, flags, inHist, TypeOK, Threads
    <3>2. TakeLeft \in {5, 6} => TakeLeft = 6 /\ TakeLeft' \in {4, 5}
      BY <2>2, <3>1 DEF TakeLeft
    <3>. QED  BY <3>1, <3>2
  <2>6. CASE PostEvent
    <3>1. Kept /\ pc[Consumer] = "post" /\ pipe' > 0
      BY <1>1, <2>1, <2>6, ThreadAssumption DEF PostEvent, flags, inHist
    <3>2. TakeLeft \in {5, 6} => TakeLeft' = 4
      BY <2>2, <3>1 DEF TakeLeft
    <3>. QED  BY <3>1, <3>2
  <2>. QED  BY <1>8, <2>3, <2>4, <2>5, <2>6 DEF ConsumerStep
<1>9. ASSUME NEW t \in Users, Send(t) \/ CleanUp(t)
      PROVE  \/ Kept
             \/ /\ UNCHANGED <<goOn, taken, received>>
                /\ pc'[Main] = "stop" /\ pc[Main] \in {"loop", "handle"}
  <2>1. pipe \in Nat /\ received \in Nat
    BY <1>1, BoundAssumption DEF TypeOK
  <2>2. CASE Send(t)
    <3>1. pc' = pc /\ UNCHANGED <<goOn, taken, received, pipe>>
      BY <1>1, <2>2 DEF Send, in, flags, inHist
    <3>. QED  BY <2>1, <3>1
  <2>3. CASE CleanUp(t)
    <3>1. UNCHANGED <<goOn, taken, received, pipe>>
      BY <2>3 DEF CleanUp, in, flags, inHist
    <3>2. CASE t = Main
      BY <1>1, <2>3, <3>1, <3>2 DEF CleanUp, MayUse, At, Goto, TypeOK, Threads, Users
    <3>3. CASE t # Main
      BY <1>1, <2>1, <2>3, <3>1, <3>3, ThreadAssumption DEF CleanUp, Goto, TypeOK, Threads, Users
    <3>. QED  BY <3>2, <3>3
  <2>. QED  BY <1>9, <2>2, <2>3
<1>10. ASSUME NEW t \in Users, CleanUpStep(t)
      PROVE  ~goOn'
  <2>1. Stop(t)
    BY <1>1, <1>10 DEF StopInv, CleanUpLabels, CleanUpStep, PushNull, JoinProducer, JoinConsumer, Join,
                      BreakConsumer, Free
  <2>. QED  BY <2>1 DEF Stop
<1>. HIDE DEF Kept
<1>11. ASSUME ~MainStep, ~ConsumerStep, ~ \E t \in Users : CleanUpStep(t)
       PROVE  \/ Kept
              \/ /\ UNCHANGED <<goOn, taken, received>>
                 /\ pc'[Main] = "stop" /\ pc[Main] \in {"loop", "handle"}
  BY <1>7, <1>9, <1>11 DEF Next
<1>12. ASSUME UNCHANGED <<goOn, taken, received>>, pc'[Main] = "stop", pc[Main] \in {"loop", "handle"}
       PROVE  Unhandled' /\ taken' = taken /\ TakeLeft' < TakeLeft
  BY <1>1, <1>12 DEF TakeLeft, Unhandled
<1>13. Kept => taken' = taken
  BY DEF Kept
<1>14. TakeLeft = 1 => pc[Main] = "stop"
  BY DEF TakeLeft
<1>. QED  BY <1>2, <1>5, <1>6, <1>8, <1>10, <1>11, <1>12, <1>13, <1>14

(* A message that arrived is followed by one that is handed on, until the         *)
(* transport is stopped: there is an event that wakes the main thread, or the     *)
(* consumer is about to write one, although a full pipe drops events and one      *)
(* event stands for many messages.  (ReceivedIsHandled follows by induction.)     *)
THEOREM ConsumerServes ==
    ASSUME NEW n \in Nat
    PROVE  FairSpec /\ []TakeGoesOn => (Unhandled /\ taken = n ~> taken > n \/ ~goOn)
<1>. DEFINE Inv == TransportInv /\ StopInv
           Waits == Unhandled /\ taken = n
           Served == taken > n \/ ~goOn
           Within(k) == Served \/ TakeLeft <= k
           Stay(k) == Inv /\ Waits /\ Within(k) /\ [Next]_vars => Served' \/ (Waits' /\ Within(k)')
           Gain(k, l, A) == Inv /\ Waits /\ Within(k) /\ ~Within(l) /\ [Next]_vars /\ A
                              => Served' \/ Within(l)'
<1>1. Spec => []Inv
  BY TransportInvariance, StopInvariance, PTL
<1>2. ASSUME Inv, Waits, [Next]_vars
      PROVE  /\ TakeLeft \in 1 .. 8
             /\ \/ Served'
                \/ /\ Waits' /\ TakeLeft' \in 1 .. 8 /\ TakeLeft' <= TakeLeft
                   /\ TakeLeft \in {2, 3, 4, 7, 8} /\ MainStep => TakeLeft' < TakeLeft
                   /\ TakeLeft \in {5, 6} /\ ConsumerStep => TakeLeft' < TakeLeft
                   /\ TakeLeft = 1 => ~ \E t \in Users : CleanUpStep(t)
  <2>1. taken' = taken + 1 => taken' > n
    BY <1>2
  <2>. QED  BY <1>2, <2>1, TakeComesNearer
<1>3. \A k \in 1 .. 8 :
        /\ Stay(k)
        /\ \A l \in 0 .. 7 : k = l + 1 =>
              /\ k = 1 => Gain(k, l, <<\E t \in Users : CleanUpStep(t)>>_vars)
              /\ k \in {5, 6} => Gain(k, l, <<ConsumerStep>>_vars)
              /\ k \in {2, 3, 4, 7, 8} => Gain(k, l, <<MainStep>>_vars)
  <2>1. Waits => ~Served
    BY DEF Unhandled
  <2>. HIDE DEF Inv, Waits, Served
  <2>. QED  BY <1>2, <2>1
<1>4. Stay(1) /\ Stay(2) /\ Stay(3) /\ Stay(4) /\ Stay(5) /\ Stay(6) /\ Stay(7) /\ Stay(8)
  <2>. HIDE DEF Stay, Gain
  <2>. QED  BY <1>3
<1>5. /\ Gain(1, 0, <<\E t \in Users : CleanUpStep(t)>>_vars)
      /\ Gain(5, 4, <<ConsumerStep>>_vars) /\ Gain(6, 5, <<ConsumerStep>>_vars)
      /\ Gain(2, 1, <<MainStep>>_vars) /\ Gain(3, 2, <<MainStep>>_vars) /\ Gain(4, 3, <<MainStep>>_vars)
      /\ Gain(7, 6, <<MainStep>>_vars) /\ Gain(8, 7, <<MainStep>>_vars)
  <2>. HIDE DEF Stay, Gain
  <2>. QED  BY <1>3
<1>6. Within(8) /\ (Within(0) => Served)
  BY DEF TakeLeft
<1>7. TakeGoesOn /\ Waits
        => /\ Within(1) => ENABLED <<\E t \in Users : CleanUpStep(t)>>_vars
           /\ ~Within(4) /\ Within(6) => ENABLED <<ConsumerStep>>_vars
           /\ (~Within(1) /\ Within(4)) \/ ~Within(6) => ENABLED <<MainStep>>_vars
  <2>1. TakeLeft \in 1 .. 8 /\ (Waits => ~Served)
    BY DEF TakeLeft, Unhandled
  <2>. HIDE DEF Served
  <2>. QED  BY <2>1 DEF TakeGoesOn
<1>8. Unhandled /\ taken = n => Waits
  OBVIOUS
<1>9. Within(1) => Within(4)
  BY DEF TakeLeft
<1>. QED  BY <1>1, <1>4, <1>5, <1>6, <1>7, <1>8, <1>9, PTL DEF FairSpec, Spec

=============================================================================
