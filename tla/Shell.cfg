SPECIFICATION Spec
CONSTANTS
    Char = {"a"}
    ArgLen = 4
    HistoryLines = 2
    TopicRoom = 3
    MaxLines = 3
INVARIANTS TypeOK LinesEnd HistoryKept RunsInOrder EchoInStep
PROPERTIES EveryLineRuns
