CONSTANTS
    v1 = v1
    v2 = v2
    Versions = {v1, v2}
    Absent = Absent
    Part = Part

SYMMETRY Symmetry

SPECIFICATION Spec

INVARIANTS
    TypeOK
    ChangedMeansInstalled
    RollbackRestores
    PriorVersionSurvives
