\* One turn, with the wait_for of Python 3.11.
SPECIFICATION Spec
CONSTANTS
    KeepsAnswer = TRUE
    Actions = {"look", "type", "wipe", "mail"}
    PluginActions = {"look"}
    AlwaysConfirm = {"type"}
    Keyboard = {"type"}
    Pointer = {}
    Risk <- MCRisk
    Policy <- MCPolicy
    Windows = {"notes", "shell"}
    Terminals = {"shell"}
    RefusedPlans <- MCRefusedPlans
    MaxTurns = 1
    MaxPlan = 2
    None = None
PROPERTIES
    CancelDenies
