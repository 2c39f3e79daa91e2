SPECIFICATION Spec
CONSTANTS
    NoNode <- None
    Program <- Programs
    Nodes <- AllNodes
    Expressions <- AllExpressions
    Legal <- RightOnes
    MaxInt = 127
    MemTop = 64
    GlobalWords = 8
    Reach = 24
    Garbage = 77
INVARIANTS RightResult FramesSound JumpsLand
PROPERTIES Ends
