----------------------------- MODULE PremineTool ----------------------------
(***************************************************************************)
(* The premine keypair generator: main() of src/generate_premine.py and of *)
(* src/generate_premine_simple.py (the two scripts differ only in          *)
(* generate_keypair, ripemd160 and the Base58 encoder; Variant selects).   *)
(*                                                                         *)
(* One run of main() generates a keypair, derives the address and the WIF, *)
(* prints them and rewrites shahcoin_premine_wallet.txt.  The operator     *)
(* then follows the printed "Next Steps" and copies the public key into    *)
(* chainparams.  Runs may be repeated, and a run may be killed between two *)
(* statements.                                                             *)
(*                                                                         *)
(* Byte strings keep their structure (prefix, payload, checksum slices);   *)
(* their lengths are constants.  SHA-256, RIPEMD-160 and the elliptic      *)
(* curve are uninterpreted operators, and so is the Base58 codec: the      *)
(* model-checking instance gives it the encoder of the specification       *)
(* (base58.b58encode is the library the spec describes, and base58_encode  *)
(* is shown to implement the same encoder in MC_Base58Encode).  What the   *)
(* proofs need of these operators is stated as HashContract and           *)
(* CodecContract.                                                          *)
(***************************************************************************)
EXTENDS Base58Params, Sequences

CONSTANTS
    Variant,          \* "ecdsa" (generate_premine.py) or "simple"
    PrivKeys,         \* the private keys the entropy source can yield
    PubOf(_),         \* SECP256k1: compressed public key of a private key
    Sha256(_),        \* hashlib.sha256(_).digest()
    Ripemd160(_),     \* hashlib.new('ripemd160') digest
    b58encode(_),     \* base58.b58encode / base58_encode
    b58decode(_),     \* the decoder of the specification (4.2)
    SHAH_ADDRESS_PREFIX,
    SHAH_SECRET_PREFIX,
    KeyLen,           \* 32: a private key
    PubLen,           \* 33: a compressed public key
    HashLen,          \* 20: a RIPEMD-160 digest
    ChecksumLen,      \* 4: checksum[:4]
    MaxRuns           \* bound on the number of runs of main()

ASSUME VariantAssumption == Variant \in {"ecdsa", "simple"}
ASSUME PrefixAssumption ==
    {SHAH_ADDRESS_PREFIX, SHAH_SECRET_PREFIX} \subseteq Byte
ASSUME LenAssumption ==
    {KeyLen, PubLen, HashLen, ChecksumLen} \subseteq Nat \ {0} /\ MaxRuns \in Nat
ASSUME PrivKeysAssumption == PrivKeys \subseteq [1 .. KeyLen -> Byte]
ASSUME PubOfAssumption == \A k \in PrivKeys : PubOf(k) \in Seq(Byte)
\* generate_premine_simple.py writes the byte 0x02 (line 56)
ASSUME KeyPrefixAssumption == 2 \in Byte

(* What the code relies on of hashlib: digests are byte strings, SHA-256  *)
(* at least as long as a checksum, RIPEMD-160 exactly HashLen bytes.       *)
HashContractOn(D) ==
    \A d \in D :
        /\ Sha256(d) \in Seq(Byte) /\ Len(Sha256(d)) >= ChecksumLen
        /\ Ripemd160(d) \in Seq(Byte) /\ Len(Ripemd160(d)) = HashLen

(* What it relies on of the Base58 codec: text over the alphabet that     *)
(* decodes back to the bytes encoded (spec 4.2, round-trip law).          *)
CodecContractOn(B) ==
    \A b \in B : b58encode(b) \in Seq(Digit) /\ b58decode(b58encode(b)) = b

HashContract == HashContractOn(Seq(Byte))
CodecContract == CodecContractOn(Seq(Byte))

VARIABLES
    pc,         \* the next statement of main(), "idle" between runs
    priv,       \* private_key_bytes
    pub,        \* public_key_bytes
    address,    \* address (<<>> until computed)
    wif,        \* wif (<<>> until computed)
    console,    \* what the last completed print showed
    file,       \* shahcoin_premine_wallet.txt
    chainPub,   \* the public key the operator put into chainparams.cpp
    runs        \* number of runs started

vars == <<pc, priv, pub, address, wif, console, file, chainPub, runs>>

Wallet == [address : Seq(Digit), pub : Seq(Byte), wif : Seq(Digit)]
NoWallet == [address |-> <<>>, pub |-> <<>>, wif |-> <<>>]

-----------------------------------------------------------------------------
(* s[:k] *)
Take(s, k) == SubSeq(s, 1, IF k < Len(s) THEN k ELSE Len(s))

double_sha256(d) == Sha256(Sha256(d))

(* generate_premine.py: a real RIPEMD-160; generate_premine_simple.py:   *)
(* the first 20 bytes of a SHA-256.                                       *)
ripemd160(d) ==
    IF Variant = "ecdsa" THEN Ripemd160(d) ELSE Take(Sha256(d), HashLen)

(* generate_premine_simple.py: sha256(private_key)[:33] with its first    *)
(* byte replaced by 0x02.                                                 *)
generate_keypair_simple(k) == <<2>> \o Tail(Take(Sha256(k), PubLen))

(* generate_premine.py: the compressed public key of the curve.          *)
generate_keypair(k) ==
    IF Variant = "ecdsa" THEN PubOf(k) ELSE generate_keypair_simple(k)

(* Version byte, payload, first ChecksumLen bytes of the double SHA-256  *)
(* of both, Base58-encoded.                                               *)
Base58Check(version, payload) ==
    LET versioned == <<version>> \o payload
    IN  b58encode(versioned \o Take(double_sha256(versioned), ChecksumLen))

(* Mutant: the checksum is taken over the hash without the version byte. *)
generate_address_unversioned(pk) ==
    LET h == ripemd160(Sha256(pk))
    IN  b58encode(<<SHAH_ADDRESS_PREFIX>> \o h \o Take(double_sha256(h), ChecksumLen))

generate_address(pk) == Base58Check(SHAH_ADDRESS_PREFIX, ripemd160(Sha256(pk)))

(* Mutant: the checksum is computed before the compression flag is added. *)
generate_wif_late_flag(k) ==
    LET versioned == <<SHAH_SECRET_PREFIX>> \o k
    IN  b58encode(versioned \o <<1>> \o Take(double_sha256(versioned), ChecksumLen))

(* The compression flag 0x01 is appended before the checksum.            *)
generate_wif(k) == Base58Check(SHAH_SECRET_PREFIX, k \o <<1>>)

-----------------------------------------------------------------------------
Init ==
    /\ pc = "idle"
    /\ priv = <<>>
    /\ pub = <<>>
    /\ address = <<>>
    /\ wif = <<>>
    /\ console = NoWallet
    /\ file = NoWallet
    /\ chainPub = <<>>
    /\ runs = 0

(* main() starts and generate_keypair() draws a fresh private key.       *)
GenerateKeypair ==
    /\ pc = "idle"
    /\ runs < MaxRuns
    /\ \E k \in PrivKeys :
          /\ priv' = k
          /\ pub' = generate_keypair(k)
    /\ address' = <<>>
    /\ wif' = <<>>
    /\ pc' = "address"
    /\ runs' = runs + 1
    /\ UNCHANGED <<console, file, chainPub>>

GenerateAddress ==
    /\ pc = "address"
    /\ address' = generate_address(pub)
    /\ pc' = "wif"
    /\ UNCHANGED <<priv, pub, wif, console, file, chainPub, runs>>

GenerateWif ==
    /\ pc = "wif"
    /\ wif' = generate_wif(priv)
    /\ pc' = "print"
    /\ UNCHANGED <<priv, pub, address, console, file, chainPub, runs>>

(* The address, the public key and the WIF are printed.                  *)
PrintWallet ==
    /\ pc = "print"
    /\ console' = [address |-> address, pub |-> pub, wif |-> wif]
    /\ pc' = "open"
    /\ UNCHANGED <<priv, pub, address, wif, file, chainPub, runs>>

(* open("shahcoin_premine_wallet.txt", "w") truncates the file.          *)
OpenWallet ==
    /\ pc = "open"
    /\ file' = NoWallet
    /\ pc' = "write"
    /\ UNCHANGED <<priv, pub, address, wif, console, chainPub, runs>>

(* The writes inside the with block; main() then returns.                *)
WriteWallet ==
    /\ pc = "write"
    /\ file' = [address |-> address, pub |-> pub, wif |-> wif]
    /\ pc' = "idle"
    /\ UNCHANGED <<priv, pub, address, wif, console, chainPub, runs>>

(* The process is killed between two statements of main().               *)
Crash ==
    /\ pc # "idle"
    /\ pc' = "idle"
    /\ UNCHANGED <<priv, pub, address, wif, console, file, chainPub, runs>>

(* Next Steps 1-2: once main() has ended, the operator copies the printed *)
(* public key into chainparams.cpp.                                       *)
UpdateChainparams ==
    /\ pc = "idle"
    /\ console.pub # <<>>
    /\ chainPub' = console.pub
    /\ UNCHANGED <<pc, priv, pub, address, wif, console, file, runs>>

Next ==
    \/ GenerateKeypair \/ GenerateAddress \/ GenerateWif \/ PrintWallet
    \/ OpenWallet \/ WriteWallet \/ Crash \/ UpdateChainparams

Spec == Init /\ [][Next]_vars

-----------------------------------------------------------------------------
(* The decoders of the specification (4.3-4.5), which the scripts lack.  *)

(* ChecksumFramer.unframe: version, payload, and whether the embedded     *)
(* checksum matches the recomputed one (Underflow is ok = FALSE).         *)
Unframe(b) ==
    LET payloadEnd == Len(b) - ChecksumLen
        version    == b[1]
        payload    == SubSeq(b, 2, payloadEnd)
        checksum   == SubSeq(b, payloadEnd + 1, Len(b))
    IN  IF Len(b) < 1 + ChecksumLen
        THEN [ok |-> FALSE, version |-> 0, payload |-> <<>>]
        ELSE [ok |-> Take(double_sha256(<<version>> \o payload), ChecksumLen)
                       = checksum,
              version |-> version, payload |-> payload]

(* AddressEncoder.decode and KeyEncoder.decode, as records of an outcome. *)
AddressDecode(s) ==
    LET u == Unframe(b58decode(s))
    IN  [ok |-> u.ok /\ u.version = SHAH_ADDRESS_PREFIX, hash |-> u.payload]

WifDecode(s) ==
    LET u == Unframe(b58decode(s))
        p == u.payload
        compressed == Len(p) = KeyLen + 1 /\ p[Len(p)] = 1
    IN  [ok |-> u.ok /\ u.version = SHAH_SECRET_PREFIX
                /\ (compressed \/ Len(p) = KeyLen),
         key |-> IF compressed THEN SubSeq(p, 1, KeyLen) ELSE p,
         compressed |-> compressed]

(* The standard hash160: RIPEMD-160 of SHA-256 (spec 4.1).                *)
hash160(d) == Ripemd160(Sha256(d))

-----------------------------------------------------------------------------
TypeOK ==
    /\ pc \in {"idle", "address", "wif", "print", "open", "write"}
    /\ priv \in Seq(Byte)
    /\ pub \in Seq(Byte)
    /\ address \in Seq(Digit)
    /\ wif \in Seq(Digit)
    /\ console \in Wallet
    /\ file \in Wallet
    /\ chainPub \in Seq(Byte)
    /\ runs \in 0 .. MaxRuns

(* Address correctness: the address a run derives decodes, with its       *)
(* checksum verified and the address version byte, to the standard        *)
(* hash160 of the run's public key.                                       *)
AddressMatchesKey ==
    address # <<>> => AddressDecode(address) = [ok |-> TRUE, hash |-> hash160(pub)]

(* WIF correctness: the WIF a run derives decodes, with its checksum      *)
(* verified and the secret version byte, to the run's private key flagged *)
(* compressed (the address is derived from a compressed public key).      *)
WifMatchesKey ==
    wif # <<>> => /\ WifDecode(wif).ok
                  /\ WifDecode(wif).key = priv
                  /\ WifDecode(wif).compressed

(* The premine is spendable: once chainparams holds a public key, the     *)
(* wallet file holds a WIF whose key has that public key.                 *)
PremineKeyRecoverable ==
    chainPub # <<>> => /\ WifDecode(file.wif).ok
                       /\ PubOf(WifDecode(file.wif).key) = chainPub
=============================================================================
