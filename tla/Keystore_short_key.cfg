SPECIFICATION Spec
CONSTANTS
    Passwords = {right, wrong}
    Wallets = {phrase, key}
    Phrased = {phrase}
    Options <- MCOptions
    Foreign <- MCForeign
    Salts = {"salt", "other"}
    Memory = 36
    LongestKey = 100
    MaxBlocks = 3
    MacBytes = 8
    MaxEdits = 0
SYMMETRY PasswordSymmetry
INVARIANTS
    CheckPasswordTellsPasswords
CHECK_DEADLOCK FALSE
