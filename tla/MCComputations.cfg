SPECIFICATION Spec
CONSTANTS
    NoAnswer = NoAnswer
    OverflowError = OverflowError
    ZeroDivisionError = ZeroDivisionError
    ValueError = ValueError
    AssertionError = AssertionError
    NameError = NameError
    MAX_VALUE = 15
    Byte = 4
    BitsOfByte = 2
    WordBytes = 2
    Operands <- WordOperands
    Exponents = {0, 1, 2, 3}
    MaxMethods = 2
    MIN_BASE_FEE_PER_BLOB_GAS = 1
    BLOB_BASE_FEE_UPDATE_FRACTION = 3
    ExcessBlobGas = {0, 1, 2, 3, 4, 5, 6}
    Items <- RlpItems
    Undecodable = Undecodable
    TrieKeys <- Keys6
    TrieValues <- Values3
    MaxEntries = 3
    NoValue = NoValue
    EvmWordBytes = 2
    ExpModData <- SmallExpMod
    Fields <- SmallFields
    PowerExponents <- SmallExponents
    ALT_BN128_PRIME = 103
    ALT_BN128_CURVE_ORDER = 97
    ATE_PAIRING_COUNT = 106
    ATE_PAIRING_COUNT_BITS = 5
    CurveB = 5
    Xi = 2
    FinalExponentBits <- FinalBits
    ScriptError = ScriptError
    BnCoordinates <- SmallCoordinates
    BnMultipliers <- SmallMultipliers
    PairingInputs <- SmallPairings
    Generator1 <- SmallG1
    Generator2 <- SmallG2
    WORD_BYTES = 2
    Octet = 16
    W = 8
    R1 = 4
    R2 = 3
    R3 = 2
    R4 = 7
    IV <- SmallIV
    BlakeData <- SmallData
    BlakeError = BlakeError
    BLS_MODULUS = 5
    Secret = 3
    Polynomials <- SmallPolynomials
    Points = {0, 1, 2, 3, 4, 5, 8}
    Accepted = Accepted
    Refused = Refused
    NotOnCurve = NotOnCurve
INVARIANTS
    NumbersExact
    SignedWords
    BlobPriceBracketed
    EncodingInverts
    RootCommits
    PowerOfBase
    BezoutKept
    PowersExact
    PointsAddUp
    VerdictIsBilinear
    ImplementationsAgree
    OneValuePerProof
PROPERTIES
    LoopsDescend
