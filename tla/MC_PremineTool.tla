--------------------------- MODULE MC_PremineTool ---------------------------
(***************************************************************************)
(* Model-checking instance of PremineTool.  Bytes are base 16 so that the  *)
(* framed strings fit TLC's integers; the lengths keep the relations of    *)
(* the code (a SHA-256 digest is one byte shorter than a compressed public *)
(* key, the hash and the checksum are prefixes of a digest).  The hash     *)
(* functions and the curve are fixed mixing functions standing for the     *)
(* real ones.                                                              *)
(***************************************************************************)
EXTENDS PremineTool, Base58Ref

MCDigestLen == PubLen - 1

MCSha256(d) ==
    [j \in 1 .. MCDigestLen |-> (IntFromBytes(d) * 7 + Len(d) * 5 + j * 3) % ByteBase]

MCRipemd160(d) ==
    [j \in 1 .. HashLen |-> (IntFromBytes(d) * 11 + j * 13 + 1) % ByteBase]

MCPubOf(k) ==
    <<2 + (k[1] % 2)>> \o [j \in 1 .. PubLen - 1 |-> (k[1] * (j + 2) + j) % ByteBase]

MCPrivKeys == {<<1>>, <<6>>, <<9>>}

(* The contracts hold on every input the runs can hash (at most 3 bytes)  *)
(* and every framed string they can encode (an address or a WIF frame).   *)
ASSUME MCContracts ==
    /\ HashContractOn(BoundedSeq(Byte, 3))
    /\ CodecContractOn([1 .. 1 + HashLen + ChecksumLen -> Byte]
                       \cup [1 .. 2 + KeyLen + ChecksumLen -> Byte])
=============================================================================
