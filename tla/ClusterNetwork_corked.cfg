CONSTANTS
    Master = master
    Slaves = {slaveA, slaveB}
    Setups <- MCCorkedSetup
    MaxFrames = 2
    MaxLost = 0
SPECIFICATION FairSpec
PROPERTIES FramesComplete
CHECK_DEADLOCK FALSE
