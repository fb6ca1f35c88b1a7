SPECIFICATION FairSpec
CONSTANTS
    Main = Main
    Producer = Producer
    Consumer = Consumer
    Callers = {c1}
    PipeSize = 1
    MaxSent = 1
    MaxReceived = 1
    MaxFaults = 0
CHECK_DEADLOCK FALSE
PROPERTY BreakEndsReceive
