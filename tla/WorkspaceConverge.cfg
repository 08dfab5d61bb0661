SPECIFICATION FairSpec
CONSTANTS
    laptop = laptop
    desktop = desktop
    e1 = e1
    e2 = e2
    e3 = e3
    None = None
    Devices = {laptop, desktop}
    Edits = {e1, e2}
    Overlaps <- NoneClash
    Choosers = {}
    Breakers = {}
    Background = {}
    MaxIds = 6
    MaxFaults = 0
PROPERTIES
    DevicesConverge
CHECK_DEADLOCK FALSE
