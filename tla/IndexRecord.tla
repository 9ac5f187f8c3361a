----------------------------- MODULE IndexRecord -----------------------------
(***************************************************************************)
(* The integer codecs (src/bigInts.c) and the decoding of database records *)
(* (src/indexing.c, src/bitcoin-specifics.c).  A byte has Base values, and *)
(* its upper half is the continuation bit of a varint.  A hash is a pair,  *)
(* so that its two byte orders can be told apart, and is injective.        *)
(***************************************************************************)
EXTENDS Integers, Sequences, SequencesExt

CONSTANTS
    Base,                   \* values of a byte
    HeaderVersionSize,      \* in a stored header, the bytes of the version,
    HashSize, TailSize,     \* of a hash, and of time, bits and nonce together
    GARBAGE                 \* bytes nobody assigned, or that a wide store overwrote

ASSUME BaseAssumption == Base \in Nat /\ Base > 3
ASSUME HeaderAssumption == HeaderVersionSize \in Nat \ {0} /\ HashSize \in Nat /\ TailSize \in Nat

(* BLOCKHEADER_SIZE *)
HeaderSize == HeaderVersionSize + 2 * HashSize + TailSize

Octets == 0..(Base - 1)
Half == Base \div 2

U16Range == Base * Base
U32Range == U16Range * U16Range
U64Range == U32Range * U32Range

(* The number with the digits d to base b, the lowest first. *)
Number(d, b) ==
    LET acc[k \in 0..Len(d)] == IF k = 0 THEN 0 ELSE acc[k - 1] * b + d[Len(d) + 1 - k]
    IN  acc[Len(d)]

----------------------------------------------------------------------------
(* Varints: low group first, and high group first with an offset. *)

VarintEncode(n) ==
    LET enc[v \in 0..n] == IF v < Half THEN <<v>> ELSE <<Half + (v % Half)>> \o enc[v \div Half] IN enc[n]

(* The first byte from at on without the continuation bit; the end when there is none. *)
LastByte(data, at) ==
    LET i == SelectInSubSeq(data, at, Len(data), LAMBDA b : b < Half) IN IF i = 0 THEN Len(data) ELSE i

VarintDecode(data) == Number([i \in 1..LastByte(data, 1) |-> data[i] % Half], Half) % U32Range

(* The continuation bit is set in the groups that come last in the output. *)
EncodeVarint128(n) ==
    LET enc[v \in 0..n] == IF v < Half THEN <<v>> ELSE Append(enc[(v \div Half) - 1], Half + (v % Half))
    IN enc[n]

(* The loop of DecodeVarint128: a byte that another one follows adds one.  *)
Groups(bytes) ==
    LET acc[k \in 0..Len(bytes)] ==
          IF k = 0 THEN 0 ELSE (acc[k - 1] * Half + (bytes[k] % Half) + (bytes[k] \div Half)) % U64Range
    IN  acc[Len(bytes)]

(* The value, and the position behind it. *)
DecodeVarint128(data, at) ==
    LET last == LastByte(data, at) IN [value |-> Groups(SubSeq(data, at, last)), next |-> last + 1]

(* n varints, one behind the other. *)
Varints(data, n) ==
    LET v[i \in 0..n] == IF i = 0 THEN [value |-> 0, next |-> 1] ELSE DecodeVarint128(data, v[i - 1].next) IN v

----------------------------------------------------------------------------
ReverseString(bytes) == Reverse(bytes)

SHA(bytes) == <<bytes, "sha">>
DoubleSHA256(bytes) == ReverseString(SHA(bytes))

(* memcpy(&mem[at], bytes, Len(bytes)), and the n bytes at a place. *)
StoreAt(mem, at, bytes) ==
    [i \in DOMAIN mem |-> IF i \in at..(at + Len(bytes) - 1) THEN bytes[i - at + 1] ELSE mem[i]]
Load(mem, at, n) == [i \in 1..n |-> mem[at + i - 1]]

(* The memory of a BlockHeader without padding: a version of one byte, two *)
(* hashes, and time, bits and nonce, which "time" stands for.              *)
HeaderMemory == [i \in 1..(1 + 2 * HashSize + TailSize) |-> GARBAGE]

HeaderMembers(mem) ==
    [version |-> mem[1],
     prevBlockHash |-> Load(mem, 2, HashSize),
     merkleRoot |-> Load(mem, 2 + HashSize, HashSize),
     time |-> Load(mem, 2 + 2 * HashSize, TailSize)]

StoreVersion(mem, raw) == StoreAt(mem, 1, SubSeq(raw, 1, HeaderVersionSize))

StorePrevBlockHash(mem, raw) ==
    StoreAt(mem, 2, ReverseString(SubSeq(raw, HeaderVersionSize + 1, HeaderVersionSize + HashSize)))

StoreMerkleRoot(mem, raw) ==
    StoreAt(mem, 2 + HashSize,
            ReverseString(SubSeq(raw, HeaderVersionSize + HashSize + 1, HeaderVersionSize + 2 * HashSize)))

StoreTime(mem, raw) ==
    StoreAt(mem, 2 + 2 * HashSize, SubSeq(raw, HeaderVersionSize + 2 * HashSize + 1, HeaderSize))

(* Mutant: the hash is stored before the version. *)
DecodeBlockHeaderHashFirst(raw) ==
    LET prevBlockHash == StorePrevBlockHash(HeaderMemory, raw)
        version == StoreVersion(prevBlockHash, raw)
        merkleRoot == StoreMerkleRoot(version, raw)
    IN  HeaderMembers(StoreTime(merkleRoot, raw))

(* The store of the version is as wide as the stored version, wider than   *)
(* the member: it overwrites the first bytes of prevBlockHash, which is    *)
(* stored after it.                                                        *)
DecodeBlockHeader(raw) ==
    LET version == StoreVersion(HeaderMemory, raw)
        prevBlockHash == StorePrevBlockHash(version, raw)
        merkleRoot == StoreMerkleRoot(prevBlockHash, raw)
    IN  HeaderMembers(StoreTime(merkleRoot, raw))

(* File and offset are read whatever the status says, and two more numbers *)
(* when there are bytes left in front of the header.                       *)
GetBlockIndexRecord(key, value) ==
    LET v == Varints(value, 8)
        undo == v[6].next <= Len(value) - HeaderSize
    IN [blockHash |-> ReverseString(key),
        version |-> v[1].value, height |-> v[2].value, validationStatus |-> v[3].value,
        txCount |-> v[4].value, blockFile |-> v[5].value, blockOffset |-> v[6].value,
        undoFile |-> IF undo THEN v[7].value ELSE GARBAGE,
        undoOffset |-> IF undo THEN v[8].value ELSE GARBAGE,
        blockHeader |-> DecodeBlockHeader(SubSeq(value, Len(value) - HeaderSize + 1, Len(value)))]

GetFileInformationRecord(value) ==
    LET v == Varints(value, 7)
    IN [blockCount |-> v[1].value, dataFileSize |-> v[2].value, revFileSize |-> v[3].value,
        lowestHeight |-> v[4].value, highestHeight |-> v[5].value,
        lowestTimestamp |-> v[6].value, highestTimestamp |-> v[7].value]

(* (int32_t)v *)
I32(v) == LET w == v % U32Range IN IF w < U32Range \div 2 THEN w ELSE w - U32Range

GetCoinRecord(key, value) ==
    LET code == Varints(value, 2)[1].value
    IN [txid |-> ReverseString(key), height |-> I32(code \div 2), coinbase |-> code % 2]

----------------------------------------------------------------------------
(* What bitcoind stores.  A header is version, the two hashes in internal  *)
(* byte order, and time, bits and nonce.                                   *)

Headers ==
    [version : [1..HeaderVersionSize -> Octets], prevBlockHash : [1..HashSize -> Octets],
     merkleRoot : [1..HashSize -> Octets], time : [1..TailSize -> Octets]]

SerializeHeader(h) == h.version \o h.prevBlockHash \o h.merkleRoot \o h.time

HaveData(status) == (status \div 8) % 2 = 1
HaveUndo(status) == (status \div 16) % 2 = 1

(* A VARINT: every byte but the last has the continuation bit. *)
WriteVarInt(n) ==
    LET high[v \in 0..n] == IF v < Half THEN <<Half + v>> ELSE Append(high[(v \div Half) - 1], Half + (v % Half))
    IN IF n < Half THEN <<n>> ELSE Append(high[(n \div Half) - 1], n % Half)

WriteVarInts(s) == FlattenSeq([i \in DOMAIN s |-> WriteVarInt(s[i])])

(* CDiskBlockIndex: the positions are there only with their bits. *)
DiskBlockIndex(e, txCount, header) ==
    WriteVarInts(<<e.version, e.height, e.status, txCount>>)
    \o (IF HaveData(e.status) \/ HaveUndo(e.status) THEN WriteVarInt(e.file) ELSE << >>)
    \o (IF HaveData(e.status) THEN WriteVarInt(e.offset) ELSE << >>)
    \o (IF HaveUndo(e.status) THEN WriteVarInt(e.undo) ELSE << >>)
    \o header
=============================================================================
