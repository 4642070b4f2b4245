SPECIFICATION Spec
CONSTANTS
    None = None
    Clients = {"c1", "c2"}
    Script <- Pipelined
    Results <- Answers
INVARIANTS TypeOK InOrder
PROPERTY Answered
CHECK_DEADLOCK FALSE
