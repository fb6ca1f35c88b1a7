SPECIFICATION Spec
CONSTANTS
    Main = Main
    Ws = Ws
    None = None
    MaxRequests = 2
    MaxRestarts = 1
INVARIANTS TypeOK NeverHundredWhileUpgrading SomeAnswerIsHeeded
