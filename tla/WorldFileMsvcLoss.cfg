\* Expected violation: a crash between remove and rename.
SPECIFICATION Spec
CONSTANTS
    ShortWrites = FALSE
    Absent = Absent
    Torn = Torn
    LastWorld = 3
INVARIANT
    FileIsLastSave
