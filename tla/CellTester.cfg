SPECIFICATION FairSpec
CONSTANT CellVoltages <- FourLevels
INVARIANTS
    TypeOK
    ChargerOffDuringTest
    ChargerNotStuckOff
PROPERTIES
    ChargerComesBack
    RemovalNoticed
CHECK_DEADLOCK TRUE
