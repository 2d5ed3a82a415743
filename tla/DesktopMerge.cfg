SPECIFICATION Spec
CONSTANTS
    d1 = d1
    d2 = d2
    Device = {d1, d2}
    Visible = {d1}
    MaxWindows = 2
    MaxSaves <- TwoAndOne
    MaxChanges = 2
    MaxFaults = 0
PROPERTIES SavesKeepOpenWindows
