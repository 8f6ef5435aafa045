SPECIFICATION Spec
CONSTANTS
    Dlm = ","
    Qte = "q"
    Nil = Nil
    Documents <- MCDocuments
    NB = 2
    MXINT = 2
    Size = 3
    MaxFields = 4
    S = 1
    MaxText = 6
    LongBits = 4
    IntBits = 3
    MaxArray = 4
    None = None
    NoEncoder = NoEncoder
    NativeSize <- MCNativeSize
    Formats <- MCFormats
    FormatLists <- MCFormatLists
    Structs <- MCStructs
    Texts <- MCTexts
    Keys <- MCKeys
    Poly <- MCPoly
    Numbers <- MCNumbers
    NoObject = NoObject
    Bufs = {b1, b2}
    Segs = {w1}
    MaxLen = 3
    Bytes <- MCBytes
    Strings <- MCStrings
    Nums <- MCNums
    Ohts = {t1, t2}
    OhtKeys = {k1, k2, k3}
    OhtVals = {v1, v2}
    NoTable = NoTable
    MaxArgs = 1
    MaxSeen = 3
    Sets = {s1, s2}
    Elems = {e1, e2}
    NoSet = NoSet
    Names = {n1, n2, n3}
    TestTexts = {x1, x2}
    TextOf <- MCTextOf
    n1 = n1
    n2 = n2
    n3 = n3
    x1 = x1
    x2 = x2
    Heads <- MCHeads
    Depth = 3
    MaxKey = 2
    Atoms = {a1}
    NoValue = NoValue
INVARIANTS
    Understood
    RecordsKept
    PackersExact
    CombinatorsReadFields
    EncodersExact
    HoldsWhatWasStored
    ReadsWhatIsAsked
    NextMissesNothing
    OhtServes
    SetsAreSets
    SuiteReports
    TablesKept
PROPERTIES
    OnlyInWindow
    ImplementsOrderedMap
CHECK_DEADLOCK FALSE
