SPECIFICATION Spec
CONSTANTS
    c1 = c1
    c2 = c2
    rec = rec
    main = main
    voip = voip
    Default = Default
    Calls <- TwoCalls
    Processes = {rec}
    Threads <- TwoThreads
SYMMETRY Symmetry
INVARIANTS
    NoDanglingBinding
    DuplexBinding
    RingWhileRead
PROPERTIES
    ImplementsGraph
    UnBindAllDetaches
