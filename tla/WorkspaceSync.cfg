SPECIFICATION Spec
CONSTANTS
    laptop = laptop
    desktop = desktop
    e1 = e1
    e2 = e2
    e3 = e3
    None = None
    Devices = {laptop, desktop}
    Edits = {e1, e2}
    Overlaps <- FirstTwoClash
    Choosers = {desktop}
    Breakers = {desktop}
    Background = {laptop}
    MaxIds = 3
    MaxFaults = 1
SYMMETRY EditSymmetry
INVARIANTS
    TypeOK
    CapturedWorkDurable
    CleanMeansUploaded
PROPERTIES
    HeadNeverLosesEdits
CHECK_DEADLOCK FALSE
