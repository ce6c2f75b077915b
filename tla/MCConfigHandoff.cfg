CONSTANTS
    Panels = {v1}
    Nobody = Nobody
    MaxSettings = 1
SPECIFICATION ConfigSpec
PROPERTY IssueModeKept
CHECK_DEADLOCK FALSE
