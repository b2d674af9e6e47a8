CONSTANTS
    WordBits = 8
    HalfMod = 16
    OctetMod = 4
    Literals <- MCLiterals
    Malformed = Malformed
    MaxTokens = 7
    MaxDepth = 3
    MaxShift = 3
    MaxSource = 200
    MaxStatements = 2
    ParseError = ParseError
SPECIFICATION Spec
INVARIANTS ArithmeticIsExact WordsMeanTheirText StatementsMeanTheirWord EvaluatesAsC StatementsParseBack ScannersAgree
CHECK_DEADLOCK FALSE
