SPECIFICATION Spec
CONSTANTS
    None = None
    Cpus = 2
    Environments <- MCEnvironments
    Files <- MCFiles
    Alphabet <- MCAlphabet
INVARIANTS
    SettingsBuildTheParts
    WordsKept
    HeadingsStandOut
    BlanksLeaveNoTrace
    ResultWithinLimits
    NothingStaysOpen
