\* Two resets of the database, a lost answer, a restart, a crash, a file error.
CONSTANTS
    MaxResets = 2
    MaxLosses = 1
    MaxRestarts = 1
    MaxCrashes = 1
    MaxFileErrors = 1
SPECIFICATION Spec
INVARIANT ForgetsOnce
PROPERTIES NeverForgetsValid NeverRotated Recovers
