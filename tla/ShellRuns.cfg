CONSTANTS
    Size = 5
    Keys <- SomeKeys
    Garbage <- ZeroStack
SPECIFICATION FairSpec
INVARIANTS TypeOK RunsWhatWasTyped
PROPERTIES PromptComesBack
CHECK_DEADLOCK FALSE
