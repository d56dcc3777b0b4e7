\* Saves, failing saves and crashes in every order.
SPECIFICATION FairSpec
CONSTANTS
    ShortWrites = FALSE
    Absent = Absent
    Torn = Torn
    LastWorld = 3
INVARIANTS
    FileIsLastSaveOrGone
PROPERTIES
    WorldReachesDisk
