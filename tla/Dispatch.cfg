SPECIFICATION Spec
CONSTANTS
    Agent = {a1, a2, a3}
    Enders = {a1}
    NULL = NULL
    Connection = {c1, c2, c3}
    Emitted = {c1, c2}
    Node = {n1, n2, n3}
    Sender = Sender
    NIL = NIL
    MaxChanges = 5
CHECK_DEADLOCK FALSE
INVARIANTS TypeOK ListSound CursorOnList CursorKept InterruptFindsConnected NothingElseLeaks EmitMissesNone
PROPERTIES EveryAgentTurns
