SPECIFICATION Spec
CONSTANTS
    Widths = {200, 230, 500, 900}
    PageWidth = 600
    BoxSizes = {4, 8, 30}
    MaxResizes = 4
INVARIANTS
    TypeOK
    OneRenderOnCanvas
    SettledViewIsCurrent
PROPERTY ViewSettles
CHECK_DEADLOCK FALSE
