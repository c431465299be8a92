CONSTANTS
    MaxPrompts = 5
SPECIFICATION Spec
CHECK_DEADLOCK FALSE
INVARIANTS
    TypeOK
    HandleRespected
    AnswersMeetPrompts
    SomeoneIsAsked
    OneResult
PROPERTY ThreadReturns
