SPECIFICATION Spec
CONSTANTS
    Requests = {r1, r2}
    Ids = {i1, i2}
    Packages = {p, q}
    Others = {o1, o2}
    Removals = {"clean"}
    None = None
SYMMETRY Symmetry
VIEW View
INVARIANTS IntentDurable CommittedConfigured RunningConfigured
PROPERTIES NoLostEdit RemovesApproved
