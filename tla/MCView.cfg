\* The password field, the input line with a four-byte limit, and a two-line message pane.
SPECIFICATION Spec
CONSTANTS
    Key <- Keys
    Unsafe <- Refused
    MaxBytes = 4
    Paste <- Pastes
    Grammar <- Commands
    Interval = {1, 2}
    Capacity = 2
    MaxNow = 2
INVARIANTS
    ViewTypeOK
PROPERTIES
    FieldsEditCharacters
    NoLineLostEarly
    OverdueLinesGo
    OnlyMeantTextLeaves
\* A session that has ended stops.
CHECK_DEADLOCK FALSE
