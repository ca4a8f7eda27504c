SPECIFICATION Spec
CONSTANTS
    StepCycles <- MCStepCycles
    LengthLoads <- MCLengthLoads
INVARIANTS
    LazyIsExact
PROPERTY
    TicksApart
