CONSTANTS
    CURRENT_VERSION_NUMBER = 3
SPECIFICATION SetupSpec
INVARIANTS VersionTellsFormat CleanStartRepairs
PROPERTIES SafePostsSurvive
