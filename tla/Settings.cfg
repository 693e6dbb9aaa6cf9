\* Two admins with the Settings screen open, two calls under way.
SPECIFICATION SettingsSpec
CONSTANTS
    Admins = {a1, a2}
    Fields = {f1}
    Values = {0, 1}
    Reasons = {"tone"}
    Requests = {q1, q2}
SYMMETRY Symmetric
INVARIANTS SettingsTypeOK PageTellsTheSwitch
PROPERTY WrittenAsShown
