CONSTANTS
    Client = {a, b}
    Word = {v, w}
    MaxRounds = 2
SPECIFICATION Spec
INVARIANT ConversationSafe
PROPERTY RoundsAnswered
CHECK_DEADLOCK FALSE
