CONSTANTS
    Master = master
    Slaves = {slaveA, slaveB}
    Setups <- MCSetups
    MaxFrames = 2
    MaxLost = 1
SPECIFICATION FairSpec
INVARIANTS TypeOK DataOfFrame SwapTogether
PROPERTIES ImplementsNodeSync FramesComplete
CHECK_DEADLOCK FALSE
