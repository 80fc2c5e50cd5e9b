CONSTANTS
    Keys = {"SHIFT_LEFT", "SHIFT_RIGHT", "CTRL_LEFT", "ALT_LEFT", "META_LEFT", "Z"}
    MaxToggles = 2
SPECIFICATION KeysSpec
INVARIANT
    SentModifiersMatch
