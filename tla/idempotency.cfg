CONSTANTS
    first = first
    again = again
    reused = reused
    plain = plain
    key = key
    body = body
    other = other
    NoKey = NoKey
    None = None
    Keys = {key}
    Prints = {body, other}
    Requests = {first, again, reused, plain}
    Instances = {i1, i2}
    PoolMax = 2
    KeyOf <- MCKeyOf
    PrintOf <- MCPrintOf
SPECIFICATION FairSpec
INVARIANTS OneAnswer SuccessIsReal
PROPERTIES AnswerIsFinal KeepsTheKeys EveryRequestEnds
CHECK_DEADLOCK FALSE
