SPECIFICATION Spec
CONSTANTS
    x = x
    y = y
    long = long
    bad = bad
    Container = {a1, a2, a3, s1}
    Eligible = {a1, a2, a3}
    Ids = {x, y, long, bad}
    Contents <- MCContents
    Canonical <- MCCanonical
    Decodable <- MCDecodable
    Bytes <- MCBytes
    Units <- MCUnits
    MaxIdBytes = 8
    MaxOutputCodeUnits = 8
    MaxEntries = 2
    ProbeEntries = 1
SYMMETRY Symmetric
INVARIANTS TypeOK Transparent NeverEvicts AccountsExact RecordsOwned
