SPECIFICATION ConversationSpec
CONSTANTS
    CallIds = {"a", "b"}
    MaxMessages = 4
    Room = 8
    MaxActions = 2
    MaxCommand = 4
    MaxResult = 4
    MaxResults = 4
    MinResult = 1
    Skipped = 1
    Answers <- MCAnswers
    Lengths = {1, 4}
    MaxTurns = 4
    NoId = NoId
INVARIANTS
    EnvelopesComplete
CHECK_DEADLOCK FALSE
