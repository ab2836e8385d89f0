\* Two processes make four calls on three projects, one of them with the name
\* of the template and one with a name of the client; one process is killed.
CONSTANTS
    Agents = {a1, a2}
    Projects = {p1, hello, client}
    Template = hello
    Configured = {client}
    None = None
    MaxCalls = 4
    MaxKills = 1
SPECIFICATION Spec
INVARIANTS TypeOK NewtonGetsWhole ReportedIsCurrent
SYMMETRY Symmetry
CHECK_DEADLOCK FALSE
