SPECIFICATION FairSpec
CONSTANTS
    Works = {w1, w2}
    MaxVersion = 2
    MaxEdits = 3
    MaxFaults = 1
INVARIANT TypeOK
PROPERTIES RescueKeeps CheckoutFollows StuckIsReported
    UpdateTakesEffectUnlessBroken
