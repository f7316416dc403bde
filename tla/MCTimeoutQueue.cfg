SPECIFICATION Spec
CONSTANTS
    IdModulus = 3
    Never = 99
    Times = {0, 1}
    Delays = {0, 1}
    MaxAdds = 5
INVARIANTS
    OneFate
    UniqueIds
    FiringDiscipline
PROPERTY RunsDrain
