SPECIFICATION Spec
CONSTANTS
    Account = {a1, a2}
    Identity = {i1, i2}
    ServiceFile = {"findmy", "cloudkit", "keychain"}
    NoOne = NoOne
    Absent = Absent
    Torn = Torn
    Issued = {{"cloudkit", "keychain"}}
    MaxFaults = 1
SYMMETRY Symmetric
CONSTRAINT UpToLate
INVARIANTS TypeOK OneAccount LoginHeals HandlesResolve CountersKept MigrationHolds
