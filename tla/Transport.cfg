SPECIFICATION FairSpec
CONSTANTS
    Main = Main
    Producer = Producer
    Consumer = Consumer
    Callers = {c1}
    PipeSize = 1
    MaxSent = 2
    MaxReceived = 2
    MaxFaults = 2
CHECK_DEADLOCK FALSE
INVARIANTS TypeOK NoLostWakeup NoneStranded ReceivedInOrder NoneLostOrDoubled OvertakesOnlyFailed FreedAfterJoin
PROPERTIES AcceptedIsSent  ProducerEnds ChannelKept
