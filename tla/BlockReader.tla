----------------------------- MODULE BlockReader -----------------------------
(***************************************************************************)
(* The life of a block, from the database to free: its index record is     *)
(* decoded (IndexRecord), ReadBlockFromBlkDatFile and ReadTxn              *)
(* (src/blkdat.c) read the block at the position of the record, decode it  *)
(* with the XOR key and walk over header, transactions, inputs, outputs    *)
(* and witnesses with a cursor, GetBlockStats (src/API.c) sums it up, and  *)
(* FreeBlock (src/bitcoin-structs.c) releases what ReadTxn allocated.      *)
(* Every count and size is a CompactSize (src/bigInts.c) in 16 bits.       *)
(*                                                                         *)
(* A byte has Base values: 256 in the code, a smaller power of two in the  *)
(* runs, so that sizes of every CompactSize length occur in short blocks.  *)
(* The lengths of the fixed fields are constants for the same reason.      *)
(***************************************************************************)
EXTENDS IndexRecord

CONSTANTS
    Cases,          \* [block, entry, info, xorKey]: a block [header, txs], its index entry, the
                    \* numbers of its file's record and gEnv.xorKey, a sequence of 8 bytes
    VersionSize, OutpointSize, SequenceSize, AmountSize, LocktimeSize,
    ByteXor(_, _)       \* the operator ^ of C, on bytes

ASSUME SizesAssumption ==
    {HeaderSize, VersionSize, OutpointSize, SequenceSize, AmountSize, LocktimeSize} \subseteq Nat

ASSUME ByteXorAssumption ==
    \A a, b \in Octets : ByteXor(a, b) \in Octets /\ ByteXor(ByteXor(a, b), b) = a /\ ByteXor(a, 0) = a

(* The prefixes 0xFD, 0xFE and 0xFF. *)
FD == Base - 3
FE == Base - 2
FF == Base - 1

VARIABLES
    block, entry,   \* the block that bitcoind stored, and its entry in the index
    info, xorKey,   \* the record of its file, and the key
    file,           \* the bytes of the file from 8 before the block on
    record,         \* the decoded records: of the block, of its file and of a coin
    pc,             \* where the two functions are
    buf,            \* blockBuffer
    pos,            \* the cursor: bufferOffset of both functions
    header, hash,   \* members of the Block
    txCount, txs,   \* and its transactions
    tx, start,      \* transaction and startPosOffset
    items,          \* stackItemsCount of the current witness
    heap,           \* what is allocated: the name of the member, and the indexes that lead to it
    stats, stack    \* the BlockStats, and what its memory held before

input == <<block, entry, info, xorKey, file>>
reader == <<buf, pos, header, hash, txCount, txs, tx, start, items>>
vars == <<input, record, pc, reader, heap, stats, stack>>

----------------------------------------------------------------------------
(* The format of bitcoind.  A transaction has inputs, and with segwit one  *)
(* sequence of items for each of them.                                     *)

Inputs == [outpoint : [1..OutpointSize -> Octets], script : Seq(Octets), sequence : [1..SequenceSize -> Octets]]
Outputs == [amount : [1..AmountSize -> Octets], script : Seq(Octets)]

Transactions ==
    {t \in [version : [1..VersionSize -> Octets], segwit : BOOLEAN, ins : Seq(Inputs), outs : Seq(Outputs),
            wits : Seq(Seq(Seq(Octets))), locktime : [1..LocktimeSize -> Octets]] :
       Len(t.ins) > 0 /\ Len(t.wits) = IF t.segwit THEN Len(t.ins) ELSE 0}

Blocks == [header : Headers, txs : Seq(Transactions)]

(* v in n bytes, little-endian. *)
Digits(v, n) ==
    LET rest[i \in 0..n] == IF i = 0 THEN v ELSE rest[i - 1] \div Base
    IN  [i \in 1..n |-> rest[i - 1] % Base]

CompactSizeEncode(v) ==
    CASE v < FD -> <<v>>
      [] v >= FD /\ v < U16Range -> <<FD>> \o Digits(v, 2)
      [] v >= U16Range /\ v < U32Range -> <<FE>> \o Digits(v, 4)
      [] OTHER -> <<FF>> \o Digits(v, 8)

Sized(bytes) == CompactSizeEncode(Len(bytes)) \o bytes

(* A count, then the elements, each serialized by f. *)
Counted(s, f(_)) ==
    CompactSizeEncode(Len(s)) \o FlattenSeq([i \in DOMAIN s |-> f(s[i])])

SerializeInput(in) == in.outpoint \o Sized(in.script) \o in.sequence
SerializeOutput(out) == out.amount \o Sized(out.script)
SerializeWitness(items_) == Counted(items_, Sized)

SerializeBase(t) == Counted(t.ins, SerializeInput) \o Counted(t.outs, SerializeOutput)

SerializeTx(t) ==
    IF t.segwit
    THEN t.version \o <<0, 1>> \o SerializeBase(t)
         \o FlattenSeq([i \in DOMAIN t.wits |-> SerializeWitness(t.wits[i])]) \o t.locktime
    ELSE t.version \o SerializeBase(t) \o t.locktime

SerializeBlock(b) == SerializeHeader(b.header) \o Counted(b.txs, SerializeTx)

Prefixed(b) == LET s == SerializeBlock(b) IN Digits(1, 4) \o Digits(Len(s), 4) \o s

(* bitcoind obfuscates each byte with the key byte of its file position.   *)
OnDisk(bytes, o, key) ==
    [i \in DOMAIN bytes |-> ByteXor(bytes[i], key[((o - 8 + i - 1) % 8) + 1])]

(* The numbers of an entry are unsigned ints; a block lies behind its prefix. *)
ASSUME CasesAssumption ==
    \A c \in Cases :
      /\ c.block \in Blocks
      /\ Len(c.block.txs) < U32Range /\ Len(SerializeBlock(c.block)) < U32Range
      /\ c.entry \in [{"version", "height", "status", "file", "offset", "undo"} -> 0..(U32Range - 1)]
      /\ c.entry.offset >= 8
      /\ c.info \in [1..7 -> 0..(U64Range - 1)]
      /\ c.xorKey \in [1..8 -> Octets]

----------------------------------------------------------------------------
(* Byte b of file position at. *)
Unxor(b, at) ==
    IF \E i \in 1..8 : xorKey[i] # 0 THEN ByteXor(b, xorKey[(at % 8) + 1]) ELSE b

(* Byte of the file at a position; bitcoind allocates files in advance, so *)
(* that zeros follow the last block.                                       *)
FileByte(at) ==
    LET i == at - (entry.offset - 8) + 1 IN IF i \in DOMAIN file THEN file[i] ELSE 0

(* A byte of blockBuffer.  Behind its end the code reads whatever the heap *)
(* holds; the 0 stands for that and StaysInBuffer shows where it is not    *)
(* met.                                                                    *)
Byte(i) == IF i < Len(buf) THEN buf[i + 1] ELSE 0

Slice(i, n) == [k \in 1..n |-> Byte(i + k - 1)]

Value(bytes) == Number(bytes, Base)

(* CompactSizeDecode at i: the value and the bytes it takes. *)
CompactSizeDecode(i) ==
    CASE Byte(i) < FD -> [value |-> Byte(i), size |-> 1]
      [] Byte(i) = FD -> [value |-> Value(Slice(i + 1, 2)), size |-> 3]
      [] Byte(i) = FE -> [value |-> Value(Slice(i + 1, 4)), size |-> 5]
      [] Byte(i) = FF -> [value |-> Value(Slice(i + 1, 8)), size |-> 9]

(* The members that hold counts and sizes are uint16_t. *)
U16(v) == v % U16Range

NewTx(version, segwit, inCount) ==
    [version |-> version, segwit |-> segwit, inCount |-> inCount, ins |-> << >>,
     outCount |-> 0, outs |-> << >>, wits |-> << >>]

Init ==
    /\ \E c \in Cases : block = c.block /\ entry = c.entry /\ info = c.info /\ xorKey = c.xorKey
    /\ file = OnDisk(Prefixed(block), entry.offset, xorKey)
    /\ record = << >> /\ pc = "index"
    /\ buf = << >> /\ pos = 0
    /\ header = GARBAGE /\ hash = GARBAGE
    /\ txCount = 0 /\ txs = << >>
    /\ tx = NewTx(<< >>, FALSE, 0) /\ start = 0 /\ items = 0
    /\ heap = {} /\ stats = << >> /\ stack \in {0, 1}

(* The records as BuildBlockIndexRecords stores them.  GetBlock does not   *)
(* test BLOCK_HAVE_DATA; what it reads without is not followed further.    *)
DecodeRecords ==
    /\ pc = "index"
    /\ LET raw == SerializeHeader(block.header) IN
         record' = [block |-> GetBlockIndexRecord(SHA(raw), DiskBlockIndex(entry, Len(block.txs), raw)),
                    file |-> GetFileInformationRecord(WriteVarInts(info)),
                    coin |-> GetCoinRecord(SHA(raw), WriteVarInts(<<2 * entry.height + 1, 0>>))]
    /\ pc' = IF HaveData(entry.status) THEN "prefix" ELSE "pruned"
    /\ UNCHANGED <<input, reader, heap, stats, stack>>

offset == record.block.blockOffset

(* The prefix, then blockSize bytes. *)
ReadPrefix ==
    /\ pc = "prefix"
    /\ LET raw == [i \in 1..8 |-> Unxor(FileByte(offset - 8 + i - 1), offset - 8 + i - 1)]
           blockSize == Value(SubSeq(raw, 5, 8))
       IN buf' = [i \in 1..blockSize |-> Unxor(FileByte(offset + i - 1), offset + i - 1)]
    /\ heap' = heap \cup {<<"blockBuffer">>}
    /\ pc' = "header"
    /\ UNCHANGED <<input, record, pos, header, hash, txCount, txs, tx, start, items, stats, stack>>

(* The store of txCount is 8 bytes wide and overwrites the first bytes of  *)
(* block.hash, which lies behind it.                                       *)
ReadHeader ==
    /\ pc = "header"
    /\ header' = DecodeBlockHeader(Slice(0, HeaderSize))
    /\ LET c == CompactSizeDecode(HeaderSize) IN
         /\ txCount' = U16(c.value)
         /\ pos' = HeaderSize + c.size
    /\ hash' = GARBAGE
    /\ heap' = heap \cup {<<"transactions">>}
    /\ pc' = "transaction"
    /\ UNCHANGED <<input, record, buf, txs, tx, start, items, stats, stack>>

IsSegwit(marker, flag) == marker = 0 /\ flag >= 1

(* The index of the current transaction. *)
Tx == Len(txs) + 1

(* Version, marker and flag, and the number of inputs. *)
ReadTxVersion ==
    /\ pc = "transaction" /\ Len(txs) < txCount
    /\ start' = pos
    /\ LET after == pos + VersionSize
           segwit == IsSegwit(Byte(after), Byte(after + 1))
           at == IF segwit THEN after + 2 ELSE after
           c == CompactSizeDecode(at)
       IN /\ tx' = NewTx(Slice(pos, VersionSize), segwit, U16(c.value))
          /\ pos' = at + c.size
    /\ heap' = heap \cup {<<"inputs", Tx>>}
    /\ pc' = "inputs"
    /\ UNCHANGED <<input, record, buf, header, hash, txCount, txs, items, stats, stack>>

ReadInput ==
    /\ pc = "inputs" /\ Len(tx.ins) < tx.inCount
    /\ LET at == pos + OutpointSize
           c == CompactSizeDecode(at)
           n == U16(c.value)
           script == at + c.size
       IN /\ tx' = [tx EXCEPT !.ins = Append(@, [outpoint |-> Slice(pos, OutpointSize),
                                                 script |-> Slice(script, n),
                                                 sequence |-> Slice(script + n, SequenceSize)])]
          /\ pos' = script + n + SequenceSize
    /\ heap' = heap \cup {<<"scriptSig", Tx, Len(tx.ins) + 1>>}
    /\ UNCHANGED <<input, record, pc, buf, header, hash, txCount, txs, start, items, stats, stack>>

ReadOutputCount ==
    /\ pc = "inputs" /\ Len(tx.ins) = tx.inCount
    /\ LET c == CompactSizeDecode(pos) IN
         /\ tx' = [tx EXCEPT !.outCount = U16(c.value)]
         /\ pos' = pos + c.size
    /\ heap' = heap \cup {<<"outputs", Tx>>}
    /\ pc' = "outputs"
    /\ UNCHANGED <<input, record, buf, header, hash, txCount, txs, start, items, stats, stack>>

ReadOutput ==
    /\ pc = "outputs" /\ Len(tx.outs) < tx.outCount
    /\ LET at == pos + AmountSize
           c == CompactSizeDecode(at)
           n == U16(c.value)
       IN /\ tx' = [tx EXCEPT !.outs = Append(@, [amount |-> Slice(pos, AmountSize),
                                                  script |-> Slice(at + c.size, n)])]
          /\ pos' = at + c.size + n
    /\ heap' = heap \cup {<<"scriptPubKey", Tx, Len(tx.outs) + 1>>}
    /\ UNCHANGED <<input, record, pc, buf, header, hash, txCount, txs, start, items, stats, stack>>

EndOutputs ==
    /\ pc = "outputs" /\ Len(tx.outs) = tx.outCount
    /\ pc' = IF tx.segwit THEN "witnesses" ELSE "locktime"
    /\ heap' = heap \cup (IF tx.segwit THEN {<<"witnesses", Tx>>} ELSE {})
    /\ UNCHANGED <<input, record, reader, stats, stack>>

(* Mutant: one witness for each output. *)
WitnessesOutputs == tx.outCount

(* One witness for each input. *)
Witnesses == tx.inCount

ReadWitness ==
    /\ pc = "witnesses"
    /\ IF Len(tx.wits) < Witnesses
       THEN LET c == CompactSizeDecode(pos) IN
            /\ items' = U16(c.value)
            /\ pos' = pos + c.size
            /\ tx' = [tx EXCEPT !.wits = Append(@, << >>)]
            /\ heap' = heap \cup {<<"stackItems", Tx, Len(tx.wits) + 1>>}
            /\ pc' = "items"
       ELSE pc' = "locktime" /\ UNCHANGED <<pos, tx, items, heap>>
    /\ UNCHANGED <<input, record, buf, header, hash, txCount, txs, start, stats, stack>>

ReadStackItem ==
    /\ pc = "items"
    /\ IF Len(Last(tx.wits)) < items
       THEN LET c == CompactSizeDecode(pos)
                n == U16(c.value)
            IN /\ tx' = [tx EXCEPT !.wits[Len(tx.wits)] = Append(@, Slice(pos + c.size, n))]
               /\ pos' = pos + c.size + n
               /\ heap' = heap \cup {<<"item", Tx, Len(tx.wits), Len(Last(tx.wits)) + 1>>}
               /\ UNCHANGED pc
       ELSE pc' = "witnesses" /\ UNCHANGED <<pos, tx, heap>>
    /\ UNCHANGED <<input, record, buf, header, hash, txCount, txs, start, items, stats, stack>>

(* (U16)bufferOffset - startPosOffset in a uint16_t. *)
TxSize(end) == (U16(end) + U16Range - U16(start)) % U16Range

(* The locktime, the size and the two hashes: txid is a copy of wtxid. *)
ReadLocktime ==
    /\ pc = "locktime"
    /\ LET end == pos + LocktimeSize
           wtxid == DoubleSHA256(Slice(start, TxSize(end)))
       IN /\ txs' = Append(txs, [version |-> tx.version, segwit |-> tx.segwit, ins |-> tx.ins,
                                 outs |-> tx.outs, wits |-> tx.wits,
                                 locktime |-> Slice(pos, LocktimeSize),
                                 size |-> TxSize(end), wtxid |-> wtxid, txid |-> wtxid])
          /\ pos' = end
    /\ pc' = "transaction"
    /\ UNCHANGED <<input, record, buf, header, hash, txCount, tx, start, items, heap, stats, stack>>

(* Mutant: the hash is stored before the count that overwrites it. *)
HashOfBlockEarly == hash

HashOfBlock == DoubleSHA256(Slice(0, HeaderSize))

(* The last thing before the buffer is freed. *)
HashBlock ==
    /\ pc = "transaction" /\ Len(txs) = txCount
    /\ hash' = HashOfBlock
    /\ heap' = heap \ {<<"blockBuffer">>}
    /\ pc' = "done"
    /\ UNCHANGED <<input, record, buf, pos, header, txCount, txs, tx, start, items, stats, stack>>

Sum(s) == LET acc[k \in 0..Len(s)] == IF k = 0 THEN 0 ELSE acc[k - 1] + s[k] IN acc[Len(s)]

(* Sum of f over the elements. *)
Total(s, f(_)) == Sum([i \in DOMAIN s |-> f(s[i])])

TotalAmount(t) == Total(t.outs, LAMBDA out : Value(out.amount))

(* Mutant: the members are not cleared. *)
ClearedNothing == stack

(* The memset clears sizeof(Block) bytes: totalSize and totalOut lie behind them. *)
Cleared == 0

GetBlockStats ==
    /\ pc = "done"
    /\ stats' = [height |-> record.block.height, time |-> header.time, blockHash |-> hash,
                 ins |-> Cleared + Total(txs, LAMBDA t : Len(t.ins)),
                 outs |-> Cleared + Total(txs, LAMBDA t : Len(t.outs)),
                 totalSize |-> stack + Total(txs, LAMBDA t : t.size),
                 totalOut |-> stack + Total(txs, TotalAmount)]
    /\ pc' = "counted"
    /\ UNCHANGED <<input, record, reader, heap, stack>>

FreeInput(i, j) == {<<"scriptSig", i, j>>}
FreeOutput(i, j) == {<<"scriptPubKey", i, j>>}
FreeWitness(i, j) == {<<"item", i, j, k>> : k \in DOMAIN txs[i].wits[j]} \cup {<<"stackItems", i, j>>}

(* Mutant: the witnesses of every transaction are freed. *)
FreeTransactionAll(i) ==
    (UNION {FreeInput(i, j) : j \in DOMAIN txs[i].ins}) \cup (UNION {FreeOutput(i, j) : j \in DOMAIN txs[i].outs})
    \cup {<<"stackItems", i, j>> : j \in DOMAIN txs[i].ins}

(* One witness for each input, when marker and flag say so. *)
FreeTransaction(i) ==
    (UNION {FreeInput(i, j) : j \in DOMAIN txs[i].ins}) \cup (UNION {FreeOutput(i, j) : j \in DOMAIN txs[i].outs})
    \cup (IF txs[i].segwit THEN UNION {FreeWitness(i, j) : j \in DOMAIN txs[i].ins} ELSE {})

(* What the loops of FreeBlock free.  The names carry the indexes of the   *)
(* loops, so that a set loses nothing: no two rounds free the same object. *)
Freed == (UNION {FreeTransaction(i) : i \in 1..txCount}) \cup {<<"transactions">>}

FreeBlock ==
    /\ pc = "counted"
    /\ heap' = heap \ Freed
    /\ pc' = "freed"
    /\ UNCHANGED <<input, record, reader, stats, stack>>

Next ==
    \/ DecodeRecords
    \/ ReadPrefix \/ ReadHeader \/ ReadTxVersion \/ ReadInput \/ ReadOutputCount \/ ReadOutput
    \/ EndOutputs \/ ReadWitness \/ ReadStackItem \/ ReadLocktime \/ HashBlock
    \/ GetBlockStats \/ FreeBlock

Spec == Init /\ [][Next]_vars

----------------------------------------------------------------------------
(* Properties. *)

(* The members of a transaction that stand for its bytes. *)
Content(t) ==
    [version |-> t.version, segwit |-> t.segwit, ins |-> t.ins, outs |-> t.outs, wits |-> t.wits,
     locktime |-> t.locktime]

(* Every count and size of the block fits in a uint16_t. *)
SizesFit ==
    /\ Len(block.txs) < U16Range
    /\ \A t \in ToSet(block.txs) :
         /\ \A s \in {t.ins, t.outs} : Len(s) < U16Range /\ \A e \in ToSet(s) : Len(e.script) < U16Range
         /\ \A w \in ToSet(t.wits) : Len(w) < U16Range /\ \A item \in ToSet(w) : Len(item) < U16Range

(* The members of the header that bitcoind stored: the hashes in the order *)
(* they are displayed in, time, bits and nonce whole, but of the version   *)
(* only the lowest byte, since the member has no room for the others       *)
(* ("4 bytes - Block Version", src/include/bitcoin-structs.h).             *)
IsHeader(members, stored) ==
    /\ members.version = stored.version[1]
    /\ \A i \in 1..HashSize :
         /\ members.prevBlockHash[i] = stored.prevBlockHash[HashSize + 1 - i]
         /\ members.merkleRoot[i] = stored.merkleRoot[HashSize + 1 - i]
    /\ members.time = stored.time

(* Of every record, whatever its status, GetBlockIndexRecord gets height,  *)
(* status, hash and the members of the header right, although the store of *)
(* the header's version runs over into the next member; the position is    *)
(* right when bitcoind has the block (without BLOCK_HAVE_DATA the record   *)
(* holds none, and bytes of the header or the undo position are taken for  *)
(* it).  The numbers of file and coin records are right, but a coin's      *)
(* height of 2^31 and more is negative; and each of the library's own      *)
(* varints can be decoded again, those of EncodeVarint128 only when they   *)
(* take a byte.                                                            *)
RecordDecoded ==
    pc # "index" =>
      /\ record.block.blockHash = DoubleSHA256(SerializeHeader(block.header))
      /\ IsHeader(record.block.blockHeader, block.header)
      /\ record.block.version = entry.version /\ record.block.height = entry.height
      /\ record.block.validationStatus = entry.status /\ record.block.txCount = Len(block.txs)
      /\ HaveData(entry.status) => record.block.blockFile = entry.file /\ offset = entry.offset
      /\ record.file = [blockCount |-> info[1], dataFileSize |-> info[2], revFileSize |-> info[3],
                        lowestHeight |-> info[4], highestHeight |-> info[5],
                        lowestTimestamp |-> info[6], highestTimestamp |-> info[7]]
      /\ record.coin.height = entry.height - (IF entry.height < U32Range \div 2 THEN 0 ELSE U32Range)
      /\ record.coin.coinbase = 1
      /\ VarintDecode(VarintEncode(entry.height)) = entry.height
      /\ (DecodeVarint128(EncodeVarint128(entry.height), 1).value = entry.height) <=> entry.height < Half

(* When every count and size fits in 16 bits, GetBlock returns the block   *)
(* that bitcoind stored, from any offset and with any key: the members of  *)
(* the header (of the version one byte), the hash of the block, all        *)
(* members of the transactions, and size and wtxid of each transaction     *)
(* that is shorter than 64 KiB, wherever in the block it lies.  The cursor *)
(* ends at the last byte of the block.                                     *)
RoundTrip ==
    pc = "done" /\ SizesFit =>
      /\ IsHeader(header, block.header)
      /\ hash = DoubleSHA256(SerializeHeader(block.header))
      /\ Len(txs) = Len(block.txs)
      /\ \A i \in DOMAIN txs :
           LET s == SerializeTx(block.txs[i]) IN
             /\ Content(txs[i]) = Content(block.txs[i])
             /\ Len(s) < U16Range => txs[i].size = Len(s) /\ txs[i].wtxid = DoubleSHA256(s)
      /\ pos = Len(buf)

(* The statistics of a block are those of the block bitcoind stored, but   *)
(* for the two sums GetBlockStats does not clear before it adds to them:   *)
(* they are off by what was on the stack.                                  *)
StatsAreSums ==
    pc = "counted" /\ SizesFit =>
      /\ stats.height = entry.height /\ stats.time = block.header.time
      /\ stats.blockHash = DoubleSHA256(SerializeHeader(block.header))
      /\ stats.ins = Total(block.txs, LAMBDA t : Len(t.ins))
      /\ stats.outs = Total(block.txs, LAMBDA t : Len(t.outs))
      /\ stats.totalOut - stack = Total(block.txs, TotalAmount)
      /\ (\A t \in ToSet(block.txs) : Len(SerializeTx(t)) < U16Range) =>
            stats.totalSize - stack = Total(block.txs, LAMBDA t : Len(SerializeTx(t)))

(* FreeBlock frees only what ReadTxn allocated for this block, everything  *)
(* but the arrays of inputs, outputs and witnesses: these leak, whatever   *)
(* the block holds, and nothing else does.                                 *)
FreesTheBlock ==
    /\ pc = "counted" => Freed \subseteq heap
    /\ pc = "freed" => heap = ({"inputs", "outputs"} \X (1..txCount))
                              \cup {<<"witnesses", i>> : i \in {n \in 1..txCount : txs[n].segwit}}

(* The cursor never leaves blockBuffer, when the sizes fit. *)
StaysInBuffer == SizesFit => pos <= Len(buf)

(* "Variable size - Compact size" (src/include/bitcoin-structs.h, the size *)
(* of a StackItem): the cursor passes the whole item.                      *)
PassesWholeItem ==
    [][ReadStackItem /\ pc' = "items" =>
         LET c == CompactSizeDecode(pos) IN pos' = pos + c.size + c.value]_vars
=============================================================================
