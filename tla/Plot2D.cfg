SPECIFICATION Spec
CONSTANTS
    Ids = {f1, f2, f3}
    NoName = NoName
    Curves = {t1}
    VarCurves = {v1}
    Broken = {}
    NoText = NoText
    Limits = {0, 1}
    MaxPlots = 2
    TabsUsed = {0, 1}
    ToolsUsed = {0, 1, 2}
SYMMETRY Symmetry
INVARIANTS EditedPlotThere NamesUnique OkChecked CrashOnlyUnchecked
PROPERTY EditsOnlyTarget
