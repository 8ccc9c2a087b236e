SPECIFICATION FairSpec
CONSTANTS
    Works = {w1}
    MaxVersion = 2
    MaxEdits = 2
    MaxFaults = 0
PROPERTIES NothingIsDestroyed
