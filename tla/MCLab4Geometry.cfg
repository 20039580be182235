SPECIFICATION GeometrySpec
CONSTANTS
    Word = 8192
    UnitBytes = 4
    SectorSizes = {4, 32}
    DeviceUnits <- MCDevices
INVARIANTS
    ScanOnDevice
    AddressesTrue
CHECK_DEADLOCK FALSE
