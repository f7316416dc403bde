SPECIFICATION Spec
CONSTANTS
    Uris <- MCUris
    Values <- MCValues
    Bodies <- MCBodies
    MaxLines = 3
INVARIANTS
    HeadersMeanLines
    MapsMeanTexts
PROPERTIES
    RefusedForAReason
CHECK_DEADLOCK FALSE
