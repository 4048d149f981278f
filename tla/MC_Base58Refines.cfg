CONSTANTS
    ByteBase = 256
    Radix = 58
    SampleBytes = {0, 1, 57, 58, 255}
    MaxLen = 3
    Inputs <- MCInputs
    ToInt <- IntFromBytes
SPECIFICATION Spec
PROPERTIES EncodeRefinement
