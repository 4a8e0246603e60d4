CONSTANTS
    Hives = {h1}
    Signals = {2, 15}
    MaxPush = 3
    MaxSignals = 2
SPECIFICATION FairSpec
INVARIANTS InOrder SleepsSafely EngineSafe
PROPERTIES EngineProgress
CHECK_DEADLOCK FALSE
