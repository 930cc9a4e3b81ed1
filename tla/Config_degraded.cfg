\* Does a gate keep its value when the table cannot be read?
SPECIFICATION Spec
CONSTANTS
    k1 = k1
    k2 = k2
    h1 = h1
    on = on
    off = off
    Pin = Pin
    None = None
    Keys = {k1, k2}
    AgentKeys = {k2}
    Analytics = {k1}
    Preset = {k1, k2}
    Values = {on}
    Default = off
    Requests = {h1}
PROPERTY GateKept
