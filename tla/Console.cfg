SPECIFICATION Spec
CONSTANTS
    Vars = {x}
    Ans = ans
    NoVar = NoVar
    None = None
    MaxLog = 2
    MaxSession = 2
INVARIANTS ScriptIsResults PageCurrent
PROPERTIES DialogSafe
