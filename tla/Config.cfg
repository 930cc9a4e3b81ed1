\* Two requests at a time; a preset of two settings, one for each gate.
SPECIFICATION Spec
CONSTANTS
    k1 = k1
    k2 = k2
    h1 = h1
    h2 = h2
    on = on
    off = off
    Pin = Pin
    None = None
    Keys = {k1, k2}
    AgentKeys = {k2}
    Analytics = {k1}
    Preset = {k1, k2}
    Values = {on}
    Default = off
    Requests = {h1, h2}
SYMMETRY RequestSymmetry
INVARIANTS
    TypeOK
    GateIsCurrent
    AuditExplains
