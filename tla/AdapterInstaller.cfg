SPECIFICATION InstallerSpec
CONSTANTS
    Run = {seed, late, update}
    Seeder = {seed, late}
    Ahead = {update}
    Files = 2
    MaxFaults = 2
INVARIANTS InstallIsWhole
PROPERTIES Converges
