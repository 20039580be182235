SPECIFICATION Spec
CONSTANTS
    MaxRuns = 2
    MaxFaults = 1
CONSTRAINT FewFaults
INVARIANTS
    MkfsTypeOK
    SessionCurrent
    WholeUnlessSpoilt
