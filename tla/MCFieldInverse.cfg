SPECIFICATION FieldSpec
CONSTANTS
    NoAnswer = NoAnswer
    OverflowError = OverflowError
    ZeroDivisionError = ZeroDivisionError
    ValueError = ValueError
    AssertionError = AssertionError
    NameError = NameError
    Fields <- SmallFields
    PowerExponents <- SmallExponents
INVARIANTS
    InverseExact
