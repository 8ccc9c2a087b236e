SPECIFICATION FairSpec
CONSTANTS
    Stations = {s1}
    Grace = 2
    ProbeMin = 1
    ProbeMax = 3
    MaxChanges = 3
    MaxFaults = 2
INVARIANTS TypeOK
PROPERTIES OutageIsAsPromised ProbesBackOff AnswerEndsStandby DeadCameraStandsBy DropsAreProbed
CHECK_DEADLOCK FALSE
