CONSTANTS
    p1 = p1
    p2 = p2
    p3 = p3
    p4 = p4
    p5 = p5
    None = None
    Poolers <- Three
    CellOf <- TwoCells
    BootstrapPolicy <- MultiCell
    Coordinators = {"orch1", "orch2"}
SPECIFICATION Spec
PROPERTIES SafeChangesKeepFailover
