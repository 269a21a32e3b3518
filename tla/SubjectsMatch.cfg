SPECIFICATION SubjectsSpec
CONSTANTS
    Names = {"a", "b"}
    MaxTokens = 3
INVARIANTS
    ValidIsLegal
    
CHECK_DEADLOCK FALSE
