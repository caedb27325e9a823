\* Two turns, of which the second may be accepted before the first one's
\* waiting task resumes; Python 3.12's wait_for.
SPECIFICATION Spec
CONSTANTS
    KeepsAnswer = FALSE
    Actions = {"look", "type", "wipe", "mail"}
    PluginActions = {"look"}
    AlwaysConfirm = {"type"}
    Keyboard = {"type"}
    Pointer = {}
    Risk <- MCRisk
    Policy <- MCPolicy
    Windows = {"notes", "shell"}
    Terminals = {"shell"}
    RefusedPlans <- MCRefusedPlans
    MaxTurns = 2
    MaxPlan = 2
    None = None
INVARIANTS
    TypeOK
    StatusTellsTruth
PROPERTIES
    TurnsAsPromised
    HonestCancel
    NoKeysToTerminal
    CancelEnds
    PromptEnds
