\* Does load_or_generate_keypair succeed whenever a backend is usable?
CONSTANTS
    Pref = "OsKeyring"
    MaxKeys = 4
    MaxTokens = 2
    NoRecord = NoRecord
    Err = Err
    None = None
SPECIFICATION VaultSpec
PROPERTY KeyAvailable
