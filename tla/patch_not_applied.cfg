SPECIFICATION Spec
CONSTANTS
    Lines = {"x", "y"}
    Dashed = {}
    MaxLines = 4
    Contexts = {1}
INVARIANTS PatchApplies
CHECK_DEADLOCK FALSE
