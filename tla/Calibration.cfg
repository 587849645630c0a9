SPECIFICATION Spec
CONSTANTS
    DeviceIds = {d1, d2}
    None = None
    Seed = None
    Nominal = 283
    Offsets <- SomeOffsets
    Ratios <- SomeRatios
    MeasuredRatios <- SoundMeasures
    StaleRatios <- SomeStale
INVARIANTS TypeOK StoreInv RatioPlausible
PROPERTIES
    CalibrationKept
    IdentityKept
CHECK_DEADLOCK TRUE
