SPECIFICATION IntakeSpec
CONSTANTS
    Lines <- MCLines
    Streams <- MCStreams
    Probes <- MCProbes
    Markers = {"probe.py"}
    Window = 2
    MaxLines = 5
INVARIANTS
    EveryLineIsParsedOnce
    EveryCallIsAccountedFor
    ModelIsOfItsTurn
    OneIdentity
    ChargedOnce
    EveryUseIsOneCall
    PricedArmIsAlone
    SeededMeansAbsent
CHECK_DEADLOCK FALSE
