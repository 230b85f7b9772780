CONSTANTS
    Staging = {"import", "reset"}
    AppUpdates = TRUE
SPECIFICATION Spec
INVARIANTS OneShotRestore StaleRestoreExposed
