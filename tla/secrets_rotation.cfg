SPECIFICATION FairSpec
CONSTANTS
    Secrets = {s1, s2}
    Brokers = {b1, b2}
    Keys = 3
    Legacy = FALSE
    None = None
    MaxDeaths = 1
INVARIANTS
    StoredSecretsAreReadable
PROPERTIES
    VersionNeverFalls
    NewestKeyEncrypts
    RotationCompletes
