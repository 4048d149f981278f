------------------------- MODULE PremineToolProofs --------------------------
(***************************************************************************)
(* Proofs about the premine generator (module PremineTool) for every       *)
(* choice of lengths, prefixes, keys and hash functions that meet the      *)
(* hash and codec contracts.                                               *)
(*                                                                         *)
(* AddressMatchesKey and WifMatchesKey speak of the decoded strings; the   *)
(* inductive invariant IInv says which value each string holds: the       *)
(* address is generate_address of the current public key and the WIF is   *)
(* generate_wif of the current private key, which is one of PrivKeys.     *)
(* The rest is one lemma per encoder: what the spec's decoder recovers    *)
(* from a Base58Check frame.                                               *)
(***************************************************************************)
EXTENDS PremineTool, SequenceTheorems, TLAPS

(* The length constants, one conjunct each.                              *)
LEMMA LenFacts ==
    /\ KeyLen \in Nat \ {0} /\ PubLen \in Nat \ {0}
    /\ HashLen \in Nat \ {0} /\ ChecksumLen \in Nat \ {0}
    /\ MaxRuns \in Nat
BY LenAssumption

USE BaseAssumption, PrefixAssumption, LenFacts

(* s[:k] of a byte string is a byte string of min(k, len(s)) bytes.      *)
LEMMA TakeType ==
    ASSUME NEW s \in Seq(Byte), NEW k \in Nat
    PROVE  /\ Take(s, k) \in Seq(Byte)
           /\ Len(Take(s, k)) = IF k < Len(s) THEN k ELSE Len(s)
BY DEF Take

(* The bytes Base58Check encodes: version, payload, checksum.             *)
Checksum(version, payload) ==
    Take(double_sha256(<<version>> \o payload), ChecksumLen)

Frame(version, payload) == (<<version>> \o payload) \o Checksum(version, payload)

IInv ==
    /\ TypeOK
    /\ priv \in PrivKeys \cup {<<>>}
    /\ pc # "idle" => priv \in PrivKeys
    /\ address # <<>> => address = generate_address(pub)
    /\ wif # <<>> => wif = generate_wif(priv) /\ priv \in PrivKeys

-----------------------------------------------------------------------------
(* A byte string laid out as version, payload, checksum is cut back into  *)
(* the payload and the checksum by the slices of Unframe.                 *)
LEMMA SliceFrame ==
    ASSUME NEW p \in Seq(Byte), NEW c \in Seq(Byte), Len(c) = ChecksumLen,
           NEW b \in Seq(Byte), Len(b) = 1 + Len(p) + ChecksumLen,
           \A i \in 1 .. Len(p) : b[i + 1] = p[i],
           \A i \in 1 .. ChecksumLen : b[1 + Len(p) + i] = c[i]
    PROVE  /\ SubSeq(b, 2, Len(b) - ChecksumLen) = p
           /\ SubSeq(b, Len(b) - ChecksumLen + 1, Len(b)) = c
<1>1. Len(b) - ChecksumLen = 1 + Len(p) /\ Len(b) - ChecksumLen + 1 = 2 + Len(p)
  OBVIOUS
<1>2. SubSeq(b, 2, 1 + Len(p)) = p
  <2>1. /\ SubSeq(b, 2, 1 + Len(p)) \in Seq(Byte)
        /\ Len(SubSeq(b, 2, 1 + Len(p))) = Len(p)
        /\ \A i \in 1 .. Len(p) : SubSeq(b, 2, 1 + Len(p))[i] = b[i + 1]
    BY SubSeqProperties
  <2>. QED
    BY <2>1, SeqEqual
<1>3. SubSeq(b, 2 + Len(p), Len(b)) = c
  <2>1. /\ SubSeq(b, 2 + Len(p), Len(b)) \in Seq(Byte)
        /\ Len(SubSeq(b, 2 + Len(p), Len(b))) = ChecksumLen
        /\ \A i \in 1 .. ChecksumLen :
              SubSeq(b, 2 + Len(p), Len(b))[i] = b[1 + Len(p) + i]
    BY SubSeqProperties
  <2>. QED
    BY <2>1, SeqEqual
<1>. QED
  BY <1>1, <1>2, <1>3, Zenon

(* A checksum is exactly ChecksumLen bytes.                               *)
LEMMA ChecksumLength ==
    ASSUME HashContract, NEW v \in Byte, NEW p \in Seq(Byte)
    PROVE  Checksum(v, p) \in Seq(Byte) /\ Len(Checksum(v, p)) = ChecksumLen
<1>1. <<v>> \o p \in Seq(Byte)
  OBVIOUS
<1>2. Sha256(<<v>> \o p) \in Seq(Byte)
  BY <1>1 DEF HashContract, HashContractOn
<1>3. /\ Sha256(Sha256(<<v>> \o p)) \in Seq(Byte)
      /\ Len(Sha256(Sha256(<<v>> \o p))) >= ChecksumLen
  BY <1>2 DEF HashContract, HashContractOn
<1>. QED
  BY <1>3 DEF Checksum, Take, double_sha256

(* Where version, payload and checksum sit in a frame.                   *)
LEMMA FrameLayout ==
    ASSUME HashContract, NEW v \in Byte, NEW p \in Seq(Byte)
    PROVE  /\ Frame(v, p) \in Seq(Byte)
           /\ Len(Frame(v, p)) = 1 + Len(p) + ChecksumLen
           /\ Frame(v, p)[1] = v
           /\ \A i \in 1 .. Len(p) : Frame(v, p)[i + 1] = p[i]
           /\ \A i \in 1 .. ChecksumLen :
                 Frame(v, p)[1 + Len(p) + i] = Checksum(v, p)[i]
<1>1. /\ <<v>> \o p \in Seq(Byte) /\ Len(<<v>> \o p) = 1 + Len(p)
      /\ (<<v>> \o p)[1] = v
      /\ \A i \in 1 .. Len(p) : (<<v>> \o p)[i + 1] = p[i]
  OBVIOUS
<1>2. Checksum(v, p) \in Seq(Byte) /\ Len(Checksum(v, p)) = ChecksumLen
  BY ChecksumLength
<1>3. Frame(v, p) \in Seq(Byte)
  BY <1>1, <1>2 DEF Frame
<1>4. Len(Frame(v, p)) = 1 + Len(p) + ChecksumLen
  BY <1>1, <1>2, ConcatProperties DEF Frame
<1>5. \A i \in 1 .. Len(Frame(v, p)) :
         Frame(v, p)[i] = IF i <= 1 + Len(p) THEN (<<v>> \o p)[i]
                          ELSE Checksum(v, p)[i - (1 + Len(p))]
  BY <1>1, <1>2, <1>4, ConcatProperties DEF Frame
<1>. QED
  BY <1>1, <1>3, <1>4, <1>5

(* unframe(frame(v, p)) = (v, p), with the checksum verified.             *)
LEMMA UnframeFrame ==
    ASSUME HashContract, NEW v \in Byte, NEW p \in Seq(Byte)
    PROVE  Unframe(Frame(v, p)) = [ok |-> TRUE, version |-> v, payload |-> p]
<1>1. /\ Frame(v, p) \in Seq(Byte)
      /\ Len(Frame(v, p)) = 1 + Len(p) + ChecksumLen
      /\ Frame(v, p)[1] = v
      /\ \A i \in 1 .. Len(p) : Frame(v, p)[i + 1] = p[i]
      /\ \A i \in 1 .. ChecksumLen :
            Frame(v, p)[1 + Len(p) + i] = Checksum(v, p)[i]
  BY FrameLayout
<1>2. Checksum(v, p) \in Seq(Byte) /\ Len(Checksum(v, p)) = ChecksumLen
  BY ChecksumLength
<1>3. /\ SubSeq(Frame(v, p), 2, Len(Frame(v, p)) - ChecksumLen) = p
      /\ SubSeq(Frame(v, p), Len(Frame(v, p)) - ChecksumLen + 1, Len(Frame(v, p)))
           = Checksum(v, p)
  BY <1>1, <1>2, SliceFrame
<1>4. ~(Len(Frame(v, p)) < 1 + ChecksumLen)
  BY <1>1
<1>. QED
  BY <1>1, <1>3, <1>4 DEF Unframe, Checksum

-----------------------------------------------------------------------------
(* Base58Check of a version and a payload is the encoding of its frame.  *)
LEMMA Base58CheckFrame ==
    ASSUME NEW v, NEW p
    PROVE  Base58Check(v, p) = b58encode(Frame(v, p))
BY DEF Base58Check, Frame, Checksum

(* What the spec's decoder gives back from a Base58Check string.         *)
LEMMA DecodeBase58Check ==
    ASSUME HashContract, CodecContract, NEW v \in Byte, NEW p \in Seq(Byte)
    PROVE  Unframe(b58decode(Base58Check(v, p)))
             = [ok |-> TRUE, version |-> v, payload |-> p]
<1>1. Frame(v, p) \in Seq(Byte)
  BY FrameLayout
<1>2. b58decode(Base58Check(v, p)) = Frame(v, p)
  BY <1>1, Base58CheckFrame DEF CodecContract, CodecContractOn
<1>. QED
  BY <1>2, UnframeFrame

(* The address of a public key decodes to its hash160 (real RIPEMD-160).  *)
LEMMA AddressRoundTrip ==
    ASSUME HashContract, CodecContract, Variant = "ecdsa", NEW pk \in Seq(Byte)
    PROVE  AddressDecode(generate_address(pk)) = [ok |-> TRUE, hash |-> hash160(pk)]
<1>1. ripemd160(Sha256(pk)) = hash160(pk)
  BY DEF ripemd160, hash160
<1>2. hash160(pk) \in Seq(Byte)
  BY DEF HashContract, HashContractOn, hash160
<1>3. Unframe(b58decode(generate_address(pk)))
        = [ok |-> TRUE, version |-> SHAH_ADDRESS_PREFIX, payload |-> hash160(pk)]
  BY <1>1, <1>2, DecodeBase58Check DEF generate_address
<1> DEFINE u == Unframe(b58decode(generate_address(pk)))
<1>4. u.ok = TRUE /\ u.version = SHAH_ADDRESS_PREFIX /\ u.payload = hash160(pk)
  BY <1>3
<1>5. AddressDecode(generate_address(pk))
        = [ok |-> u.ok /\ u.version = SHAH_ADDRESS_PREFIX, hash |-> u.payload]
  BY DEF AddressDecode
<1>. QED
  BY <1>4, <1>5

(* The WIF of a private key decodes to that key, flagged compressed.     *)
LEMMA WifRoundTrip ==
    ASSUME HashContract, CodecContract, NEW k \in PrivKeys
    PROVE  /\ WifDecode(generate_wif(k)).ok
           /\ WifDecode(generate_wif(k)).key = k
           /\ WifDecode(generate_wif(k)).compressed
<1>1. k \in Seq(Byte) /\ Len(k) = KeyLen
  BY PrivKeysAssumption
<1>2. 1 \in Byte
  BY DEF Byte
<1>3. /\ k \o <<1>> \in Seq(Byte)
      /\ Len(k \o <<1>>) = KeyLen + 1
      /\ (k \o <<1>>)[Len(k \o <<1>>)] = 1
      /\ SubSeq(k \o <<1>>, 1, KeyLen) = k
  BY <1>1, <1>2
<1>4. Unframe(b58decode(generate_wif(k)))
        = [ok |-> TRUE, version |-> SHAH_SECRET_PREFIX, payload |-> k \o <<1>>]
  BY <1>3, DecodeBase58Check DEF generate_wif
<1> DEFINE u == Unframe(b58decode(generate_wif(k)))
<1>5. u.ok = TRUE /\ u.version = SHAH_SECRET_PREFIX /\ u.payload = k \o <<1>>
  BY <1>4
<1> DEFINE cmp == Len(u.payload) = KeyLen + 1 /\ u.payload[Len(u.payload)] = 1
<1>6. WifDecode(generate_wif(k))
        = [ok |-> u.ok /\ u.version = SHAH_SECRET_PREFIX
                  /\ (cmp \/ Len(u.payload) = KeyLen),
           key |-> IF cmp THEN SubSeq(u.payload, 1, KeyLen) ELSE u.payload,
           compressed |-> cmp]
  BY DEF WifDecode
<1>7. cmp /\ SubSeq(u.payload, 1, KeyLen) = k
  BY <1>3, <1>5
<1>8. WifDecode(generate_wif(k)).compressed
  <2>1. WifDecode(generate_wif(k)).compressed = cmp
    BY <1>6
  <2>. QED
    BY <1>7, <2>1, Zenon
<1>9. WifDecode(generate_wif(k)).key = k
  BY <1>6, <1>7
<1>10. WifDecode(generate_wif(k)).ok
  <2>1. WifDecode(generate_wif(k)).ok
          = (u.ok /\ u.version = SHAH_SECRET_PREFIX
             /\ (cmp \/ Len(u.payload) = KeyLen))
    BY <1>6
  <2>. QED
    BY <1>5, <1>7, <2>1, Zenon
<1>. QED
  BY <1>8, <1>9, <1>10
-----------------------------------------------------------------------------
(* Base58Check of a byte and a byte string is Base58 text.               *)
LEMMA Base58CheckType ==
    ASSUME CodecContract, HashContract, NEW v \in Byte, NEW p \in Seq(Byte)
    PROVE  Base58Check(v, p) \in Seq(Digit)
BY FrameLayout, Base58CheckFrame DEF CodecContract, CodecContractOn

(* Both generators' helpers return byte strings.                         *)
LEMMA HelperTypes ==
    ASSUME HashContract
    PROVE  /\ \A d \in Seq(Byte) : ripemd160(d) \in Seq(Byte)
           /\ \A k \in PrivKeys : generate_keypair(k) \in Seq(Byte)
<1>1. ASSUME NEW d \in Seq(Byte) PROVE ripemd160(d) \in Seq(Byte)
  <2>1. Sha256(d) \in Seq(Byte) /\ Ripemd160(d) \in Seq(Byte)
    BY DEF HashContract, HashContractOn
  <2>. QED
    BY <2>1, TakeType DEF ripemd160
<1>2. ASSUME NEW k \in PrivKeys PROVE generate_keypair(k) \in Seq(Byte)
  <2>1. k \in Seq(Byte)
    BY PrivKeysAssumption
  <2>2. Sha256(k) \in Seq(Byte) /\ Len(Sha256(k)) >= ChecksumLen
    BY <2>1 DEF HashContract, HashContractOn
  <2>3. Take(Sha256(k), PubLen) \in Seq(Byte) /\ Take(Sha256(k), PubLen) # <<>>
    BY <2>2, TakeType
  <2>4. Tail(Take(Sha256(k), PubLen)) \in Seq(Byte)
    BY <2>3
  <2>5. <<2>> \in Seq(Byte)
    BY KeyPrefixAssumption
  <2>. QED
    BY <2>4, <2>5, PubOfAssumption DEF generate_keypair, generate_keypair_simple
<1>. QED
  BY <1>1, <1>2

(* The address and the WIF of byte strings are Base58 text.              *)
LEMMA EncoderTypes ==
    ASSUME HashContract, CodecContract
    PROVE  /\ \A pk \in Seq(Byte) : generate_address(pk) \in Seq(Digit)
           /\ \A k \in Seq(Byte) : generate_wif(k) \in Seq(Digit)
<1>1. ASSUME NEW pk \in Seq(Byte) PROVE generate_address(pk) \in Seq(Digit)
  <2>1. Sha256(pk) \in Seq(Byte)
    BY DEF HashContract, HashContractOn
  <2>. QED
    BY <2>1, HelperTypes, Base58CheckType DEF generate_address
<1>2. ASSUME NEW k \in Seq(Byte) PROVE generate_wif(k) \in Seq(Digit)
  <2>1. k \o <<1>> \in Seq(Byte)
    BY DEF Byte
  <2>. QED
    BY <2>1, Base58CheckType DEF generate_wif
<1>. QED
  BY <1>1, <1>2
-----------------------------------------------------------------------------
(* Every step of main(), a crash and the operator's edit keep the types.  *)
LEMMA TypeStep ==
    ASSUME HashContract, CodecContract
    PROVE  TypeOK /\ [Next]_vars => TypeOK'
<1> SUFFICES ASSUME TypeOK, [Next]_vars PROVE TypeOK'
  OBVIOUS
<1>1. CASE GenerateKeypair
  <2>1. PICK k \in PrivKeys : priv' = k /\ pub' = generate_keypair(k)
    BY <1>1 DEF GenerateKeypair
  <2>2. k \in Seq(Byte) /\ generate_keypair(k) \in Seq(Byte)
    BY PrivKeysAssumption, HelperTypes
  <2>. QED
    BY <1>1, <2>1, <2>2 DEF GenerateKeypair, TypeOK
<1>2. CASE GenerateAddress
  BY <1>2, EncoderTypes DEF GenerateAddress, TypeOK
<1>3. CASE GenerateWif
  BY <1>3, EncoderTypes DEF GenerateWif, TypeOK
<1>4. CASE PrintWallet
  BY <1>4 DEF PrintWallet, TypeOK, Wallet
<1>5. CASE OpenWallet
  BY <1>5 DEF OpenWallet, TypeOK, Wallet, NoWallet
<1>6. CASE WriteWallet
  BY <1>6 DEF WriteWallet, TypeOK, Wallet
<1>7. CASE Crash
  BY <1>7 DEF Crash, TypeOK
<1>8. CASE UpdateChainparams
  BY <1>8 DEF UpdateChainparams, TypeOK, Wallet
<1>9. CASE UNCHANGED vars
  BY <1>9 DEF vars, TypeOK
<1>. QED
  BY <1>1, <1>2, <1>3, <1>4, <1>5, <1>6, <1>7, <1>8, <1>9 DEF Next

(* Type correctness of the premine generator (both variants): the keys,   *)
(* the derived address and WIF, the printed and the saved wallet and the  *)
(* key in chainparams always have their types, whenever hashlib and the   *)
(* Base58 codec meet their contracts.                                     *)
THEOREM PremineTypeCorrect ==
    ASSUME HashContract, CodecContract
    PROVE  Spec => []TypeOK
<1>1. Init => TypeOK
  BY DEF Init, TypeOK, Wallet, NoWallet
<1>2. TypeOK /\ [Next]_vars => TypeOK'
  BY TypeStep
<1>. QED
  BY <1>1, <1>2, PTL DEF Spec
-----------------------------------------------------------------------------
(* The strengthening is kept by every step: the address is reset when a   *)
(* keypair is drawn and set from the current public key; the WIF is reset *)
(* and set from the current private key; nothing else writes them.        *)
LEMMA IInvStep ==
    ASSUME HashContract, CodecContract
    PROVE  IInv /\ [Next]_vars => IInv'
<1> SUFFICES ASSUME IInv, [Next]_vars PROVE IInv'
  OBVIOUS
<1>0. TypeOK'
  BY TypeStep DEF IInv
<1>1. CASE GenerateKeypair
  BY <1>0, <1>1 DEF GenerateKeypair, IInv
<1>2. CASE GenerateAddress
  BY <1>0, <1>2 DEF GenerateAddress, IInv
<1>3. CASE GenerateWif
  BY <1>0, <1>3 DEF GenerateWif, IInv
<1>4. CASE PrintWallet
  BY <1>0, <1>4 DEF PrintWallet, IInv
<1>5. CASE OpenWallet
  BY <1>0, <1>5 DEF OpenWallet, IInv
<1>6. CASE WriteWallet
  BY <1>0, <1>6 DEF WriteWallet, IInv
<1>7. CASE Crash
  BY <1>0, <1>7 DEF Crash, IInv
<1>8. CASE UpdateChainparams
  BY <1>0, <1>8 DEF UpdateChainparams, IInv
<1>9. CASE UNCHANGED vars
  BY <1>0, <1>9 DEF vars, IInv
<1>. QED
  BY <1>1, <1>2, <1>3, <1>4, <1>5, <1>6, <1>7, <1>8, <1>9 DEF Next

(* IInv holds in every reachable state.                                   *)
LEMMA IInvInvariant ==
    ASSUME HashContract, CodecContract
    PROVE  Spec => []IInv
<1>1. Init => IInv
  BY DEF Init, IInv, TypeOK, Wallet, NoWallet
<1>2. IInv /\ [Next]_vars => IInv'
  BY IInvStep
<1>. QED
  BY <1>1, <1>2, PTL DEF Spec

(* Address correctness of generate_premine.py: whenever main() has        *)
(* derived an address, it decodes (checksum and version byte verified) to *)
(* hash160 of the public key generate_keypair returned in the same run.  *)
THEOREM AddressCorrect ==
    ASSUME HashContract, CodecContract, Variant = "ecdsa"
    PROVE  Spec => []AddressMatchesKey
<1>1. IInv => AddressMatchesKey
  BY AddressRoundTrip DEF IInv, TypeOK, AddressMatchesKey
<1>. QED
  BY <1>1, IInvInvariant, PTL

(* WIF correctness of both generators: whenever main() has derived a WIF, *)
(* it decodes to the run's private key flagged compressed.               *)
THEOREM WifCorrect ==
    ASSUME HashContract, CodecContract
    PROVE  Spec => []WifMatchesKey
<1>1. IInv => WifMatchesKey
  <2> SUFFICES ASSUME IInv, wif # <<>> PROVE WifMatchesKey
    BY DEF WifMatchesKey
  <2>1. wif = generate_wif(priv) /\ priv \in PrivKeys
    BY DEF IInv
  <2>. QED
    BY <2>1, WifRoundTrip DEF WifMatchesKey
<1>. QED
  BY <1>1, IInvInvariant, PTL
=============================================================================
