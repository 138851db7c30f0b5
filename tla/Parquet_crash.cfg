SPECIFICATION Spec
CONSTANTS
    cpu0 = cpu0  cpu1 = cpu1  cpu0b = cpu0b  dsp = dsp  merge = merge  cpu = cpu  other = other
    Uploads <- MCUploads
    RunOf <- MCRunOf
    DesignOf <- MCDesignOf
    NoDesign = NoDesign
    Tables <- MCTables
    DefTables <- MCDefTables
    Rollups = {10, 11}
    Merged = 20
    KeepRecent = {0, 1}
    MaxCrashes = 1
    Habits = {"replace"}
INVARIANTS NoUploadLost NoDoubleCount DatasetWhole
