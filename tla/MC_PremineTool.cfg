CONSTANTS
    ByteBase = 16
    Radix = 58
    Variant = "ecdsa"
    SHAH_ADDRESS_PREFIX = 3
    SHAH_SECRET_PREFIX = 11
    KeyLen = 1
    PubLen = 3
    HashLen = 2
    ChecksumLen = 1
    MaxRuns = 2
    PrivKeys <- MCPrivKeys
    PubOf <- MCPubOf
    Sha256 <- MCSha256
    Ripemd160 <- MCRipemd160
    b58encode <- SpecEncode
    b58decode <- SpecDecode
SPECIFICATION Spec
CHECK_DEADLOCK FALSE
INVARIANTS AddressMatchesKey WifMatchesKey
