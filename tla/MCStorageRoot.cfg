\* Two programs that initialize and open a storage root.
CONSTANTS
    p1 = p1
    p2 = p2
    Procs = {p1, p2}
    InitArgs <- MCInitArgs
    Defaults <- MCDefaults
    Junk = {"file"}
    Ids <- MCIds
    Digest <- MCDigest
    DigestLen = 3
    Hex <- MCHex
    Lower <- MCLower
    MaxEncoded = 4
SYMMETRY Symmetry
SPECIFICATION Spec
INVARIANT ObjectsStayFound
INVARIANT ObjectsApart
CHECK_DEADLOCK FALSE
