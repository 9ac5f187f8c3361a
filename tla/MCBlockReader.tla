---------------------------- MODULE MCBlockReader ----------------------------
(***************************************************************************)
(* BlockReader with bytes of eight values: a CompactSize below 5 takes one *)
(* byte, below 64 three bytes, and 64 is the first size that does not fit  *)
(* in the two bytes of a uint16_t.  Blocks of one and two transactions,    *)
(* with and without witness, one and two inputs, and empty, short and      *)
(* three-byte sizes; the two-transaction blocks are longer than 64 bytes.  *)
(***************************************************************************)
EXTENDS BlockReader, Bitwise

MCXor(a, b) == a ^^ b

Bytes(n, b) == [i \in 1..n |-> (b + i) % Base]

MCHeader == [version |-> <<4, 2>>, prevBlockHash |-> <<7, 6>>, merkleRoot |-> <<5, 3>>, time |-> <<1>>]

In(script) == [outpoint |-> <<6, 5>>, script |-> script, sequence |-> <<7>>]
Out(script) == [amount |-> <<0, 3>>, script |-> script]

Scripts == {<< >>, <<0, 1>>, Bytes(6, 4)}

Legacy ==
    {[version |-> <<1>>, segwit |-> FALSE, ins |-> ins, outs |-> outs, wits |-> << >>, locktime |-> <<0>>] :
        ins \in {<<In(s)>> : s \in Scripts} \cup {<<In(<< >>), In(<<5>>)>>},
        outs \in {<<Out(s)>> : s \in Scripts} \cup {<<Out(<<5>>), Out(<<0>>)>>}}

Segwit ==
    {[version |-> <<2>>, segwit |-> TRUE, ins |-> [i \in DOMAIN wits |-> In(<< >>)],
      outs |-> outs, wits |-> wits, locktime |-> <<4>>] :
        outs \in {<<Out(<<1>>)>>, <<Out(<< >>), Out(<<1>>)>>},
        wits \in {<<w>> : w \in {<< >>, <<Bytes(2, 0)>>, <<Bytes(30, 3), << >>>>}}
                 \cup {<< << >>, <<Bytes(5, 1)>> >>}}

MCBlocks ==
    {[header |-> MCHeader, txs |-> <<t>>] : t \in Legacy \cup Segwit}
    \cup {[header |-> MCHeader, txs |-> <<t, u>>] : t \in Legacy \cup Segwit, u \in {v \in Segwit : Len(v.outs) = 2}}

(* A witness item of 64 bytes. *)
MCBlocksLarge ==
    {[header |-> MCHeader,
      txs |-> <<[version |-> <<2>>, segwit |-> TRUE, ins |-> <<In(<< >>)>>, outs |-> <<Out(<<1>>)>>,
                 wits |-> << <<Bytes(64, 1)>> >>, locktime |-> <<4>>]>>]}

XorKeys == {[i \in 1..8 |-> 0], [i \in 1..8 |-> (3 * i) % Base]}

Entry(height, status, at) ==
    [version |-> 70, height |-> height, status |-> status, file |-> 5, offset |-> at, undo |-> 9]

(* The numbers of a file's record, with boundaries of the varint lengths among them. *)
Info(height) == <<1, 3, 4, height, height + 19, 20, 84>>

(* VALID_SCRIPTS with DATA, UNDO, both and none of them, and OPT_WITNESS. *)
Statuses == {5 + 8, 5 + 16, 5 + 8 + 16 + 128, 5}

Case(b, e, k) == [block |-> b, entry |-> e, info |-> Info(e.height), xorKey |-> k]

(* Every block at an aligned and an unaligned offset, and one block under  *)
(* every kind of index record, its height crossing the lengths of a varint *)
(* (4, 20 and 84 are the first numbers of two, three and four bytes) and   *)
(* the range of a signed number (2048 is the first that does not fit).     *)
MCCases ==
    {Case(b, Entry(1, 13, o), k) : b \in MCBlocks, o \in {8, 11}, k \in XorKeys}
    \cup {Case(b, Entry(h, s, o), k) : b \in {CHOOSE c \in MCBlocks : TRUE}, h \in (0..90) \cup {2047, 2048, 4095}, s \in Statuses,
                                       o \in {8, 19, 20, 100}, k \in XorKeys}

MCCasesLarge == {Case(b, Entry(1, 13, 8), k) : b \in MCBlocksLarge, k \in XorKeys}
=============================================================================
