\* Key and token persistence across backend outages, resets and uninstalls.
CONSTANTS
    Pref = "OsKeyring"
    MaxKeys = 4
    MaxTokens = 2
    NoRecord = NoRecord
    Err = Err
    None = None
SPECIFICATION VaultSpec
INVARIANT VaultTypeOK
INVARIANT KeyPersisted
