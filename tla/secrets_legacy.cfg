SPECIFICATION Spec
CONSTANTS
    Secrets = {s1, s2}
    Brokers = {b1, b2}
    Keys = 3
    Legacy = TRUE
    None = None
    MaxDeaths = 1
INVARIANTS
    StoredSecretsAreReadable
