CONSTANTS
    P1 = P1
    P2 = P2
    Scalar = Scalar
    Payloads <- MCPayloads
    ScalarValue <- Scalar
    Outputs <- MCOutputs
SPECIFICATION StreamSpec
INVARIANTS
    StreamTypeOK
    DecodeExact
