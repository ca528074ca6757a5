SPECIFICATION KeyboardSpec
CONSTANTS
    Keys = {"a", "1", "shift_l", "ctrl_r", "alt_r", "caps", "up"}
    MaxWire = 3
INVARIANTS KeysAgree
