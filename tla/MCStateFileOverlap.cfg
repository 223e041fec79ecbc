CONSTANTS
    Agents = {"a1", "a2"}
    Others = {}
    MaxTransitions = 2
SPECIFICATION SfSpec
CHECK_DEADLOCK FALSE
INVARIANTS
    AllAgentsInFile
