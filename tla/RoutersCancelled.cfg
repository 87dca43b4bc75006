SPECIFICATION Spec
CONSTANTS
    MaxRouters = 2
    MaxInProgress = 2
    Addresses = {a1, a2}
    NoAddress = NoAddress
    Backups = {b1, b2}
    NoBackup = NoBackup
    Unsure = Unsure
PROPERTIES CancelledNotRestored
VIEW View
