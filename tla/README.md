# A verification project for mlbtcc

mlbtcc is a C library that reads the data directory of Bitcoin Core: it finds
the datadir, loads the LevelDB block index, and returns blocks from the
`blk*.dat` files by height or by date. It is single-threaded. What runs
concurrently with it are other processes: `bitcoind`, which owns and extends the
data the library reads, and other programs linked with the library. The library
is built by `CBuilder.c`, a build tool that compiles itself.

This directory holds TLA+ models of the library's own logic, TLC configurations
that check them on small instances, and proofs that TLAPS checks. `PROJECT.json`
lists the components, the runs, the source lines behind each definition, the
hazards the properties are aimed at, the findings and the theorems. Paths below
are relative to the repository's `src/` directory; `CBuilder.c` lies beside it.

## 1. The system

| part | source | state | operations |
|---|---|---|---|
| Datadir discovery | `parser.c`, `mlbtcc.c` | `gEnv` paths, status bits, XOR key | `InitMLBTCC`, `ParseCoreDatadir`, `SearchDefaultDatadirs`, `LoadXorKey` |
| Indexing session | `indexing.c`, `files.c` | `/tmp/block-index`, LevelDB locks | `IndexCoreDatadir`, `IsBitcoindRunning`, `CopyDirectory`, `DeleteDirectory` |
| List of blk files | `files.c`, `indexing.c` | `gEnv.blkFiles` | `ListFiles`, `SortFiles` |
| Wildcard matcher | `files.c` | two cursors | `WildcardMatch` |
| Block index | `indexing.c`, `leveldb.c` | `gEnv.indexRecords` | `BuildBlockIndexRecords`, `LDB_CountEntriesForPrefixes` |
| Open file cache | `blkdat.c` | `openFiles[MAX_OPEN_FILES]`, `FileInfo.isOpen/.file` | `OpenFile`, `CloseLRUFile` |
| Block reader | `blkdat.c`, `bigInts.c` | buffer and cursor | `ReadBlockFromBlkDatFile`, `ReadTxn`, `CompactSizeDecode` |
| Date queries | `API.c` | none, reads the index | `GetFirstBlockOfDate`, `GetLastBlockOfDate`, `GetBlocksOfDay`, `GetBlocks` |
| Integer codecs | `bigInts.c` | none | `DecodeVarint128`, `EncodeVarint128`, `VarintEncode`, `VarintDecode` |
| Record decoding | `indexing.c`, `bitcoin-specifics.c` | none | `GetBlockIndexRecord`, `GetFileInformationRecord`, `GetCoinRecord`, `DecodeBlockHeader` |
| Block memory | `bitcoin-structs.c`, `blkdat.c` | the heap | `ReadTxn`, `FreeBlock` |
| Statistics, printing | `API.c`, `bitcoin-specifics.c` | none | `GetBlockStats`, `Print*` |
| LevelDB, SHA-256 | `extern/` | vendored | |
| CBuilder | `../CBuilder.c` | `build/`, the archive, the libraries, `./CBuilder` itself | `ManageRebuild`, `ManageRules` and the rules |

How they interact. `InitMLBTCC` zeroes `gEnv`, calls `ParseCoreDatadir` and then
`IndexCoreDatadir`, which lists and sorts the blk files and builds the index,
in place or from a copy in `/tmp/block-index`. A later `GetBlock(height)` takes
the index record of the height, selects an element of the file list with the
file number in it, and reads through the open file cache. The date queries scan
the index and call `GetBlock`. The caller passes a block to `GetBlockStats` and
gives it back with `FreeBlock`.

`./CBuilder` first looks whether `CBuilder.c` is newer than itself; then it
compiles itself and starts the new executable through `sh`, with its words joined
by blanks. Otherwise it splits the words into rules and their arguments and runs
the rules in order.

What is hard in it:

* other processes: `bitcoind` starts, writes and stops between any two steps of
  an indexing session, and two sessions share one temporary directory;
* kills, and the `exit` calls of the library itself, in the middle of a session,
  and commands (`cp`, `rm`, `ps`) whose failure nobody looks at;
* one array sized by a count and indexed by something else (the index by height,
  the file list by file number);
* pointers that stay behind: `FileInfo.file` after an eviction, the static cache
  after a second `InitMLBTCC`;
* a builder that is replaced while it runs, commands whose failure is only
  logged, and outputs that are made from whatever earlier builds left behind;
* clocks of one-second resolution, 16-bit and 32-bit fields, an unparenthesised
  macro, unsigned loops counting down;
* orders nobody controls: `readdir`, LevelDB keys that are hashes, block times
  that do not grow with the height.

The `hazards` of `PROJECT.json` give these one by one, at their lines.

## 2. The modules

| module | kind | models |
|---|---|---|
| `OpenFileCache` | component | the cache behind `ReadBlockFromBlkDatFile` |
| `OpenFileSet` | abstract specification | what the cache promises |
| `OpenFileCacheProofs` | proofs | |
| `BlockIndex` | component | `BuildBlockIndexRecords` |
| `BlockIndexProofs` | proofs | |
| `BlockFiles` | component | the file list and its use by `GetBlock` |
| `Wildcard` | algorithm | `WildcardMatch` |
| `FilesProofs` | proofs | about `BlockFiles` and `Wildcard` |
| `IndexSession` | composition | `IndexCoreDatadir`, `bitcoind` and other sessions |
| `IndexSessionProofs` | proofs | |
| `Datadir` | component | `InitMLBTCC` and `ParseCoreDatadir` |
| `DatadirProofs` | proofs | |
| `IndexRecord` | operators | the varints, the database records, the block header |
| `BlockReader` | composition | a block from its index record over the parser to `GetBlockStats` and `FreeBlock` |
| `BlockReaderProofs` | proofs | about `IndexRecord` and `BlockReader` |
| `DateQueries` | component | the three date queries |
| `DateQueriesProofs` | proofs | |
| `SelfRebuild` | component | how the builder keeps itself current |
| `Builder` | composition | command line and rules of the builder, on top of `SelfRebuild` |
| `BuilderProofs` | proofs | about `SelfRebuild` and `Builder` |
| `MC*` | model values | instances for TLC |

A definition whose comment starts with "Mutant" is a deliberately wrong variant
of the definition that follows it. It takes no part in any specification;
replacing the original by it must break the property named in `PROJECT.json`,
which shows that the property depends on that piece of code.

**OpenFileCache.** A `FileInfo` is `<<g, p>>`, the entry of path `p` in the array
that the `g`-th `InitMLBTCC` allocated. `isOpen` and `file` are its members,
`openFiles` the static array. `stream` is what the C library knows: which address
is an open stream, and of which file; `fopen` may hand out a released address
again. One `ReadBlock` is a hit, a miss with a free slot, or a miss that evicts;
`fopen` may fail, which ends in `fseek(NULL)`. The wall clock ticks, is stored
modulo 2^32, and may be set back. `OpenFileSet` forgets slots, flags, pointers
and stamps: a bounded set of open files, from which a read opens one file and
closes at most one.

**BlockIndex.** `Init` chooses any database `bitcoind` may have: a tree of blocks
with stale branches, header-only blocks and invalidated blocks, in which a block
that is fully validated has validated ancestors, or a UTXO `snapshot` between
itself and them: the comments of the enum `BlockStatus` say "back to the genesis
block or an assumeutxo snapshot block". A copy in `/tmp` that
`IndexSession` calls torn is not such a tree, and of an index built from one
nothing is claimed here. The two passes of
`BuildBlockIndexRecords` follow; the second meets the keys in any order. A write
behind the end of the array sets `overrun`.

**BlockFiles.** `readdir` returns any order, `opendir` may fail, the array doubles
when full, `qsort` yields any order its comparison allows, and `GetBlock(n)`
takes element `n`. `pathNumber` is the number `ExtractBlockNumber` finds when the
directory's own path contains "blk".

**Wildcard.** One action per branch of the loop, against the definition `Glob` of
what a pattern means: the name can be cut into parts, one for each character of
the pattern, that fit. `MatchPattern`, the recursive matcher of `CBuilder.c`, is a
recursive function over the characters of the pattern that are left.

**IndexSession.** A database is the number of its last block, or `TORN`. Each
system call is a step: `ps`, the LevelDB open with its lock, the start and the
end of `cp -r`, the close, `rm -rf`. `cp -r` into an existing directory nests.
`bitcoind` appears in `ps` before it holds its lock; one append stands for every
write it makes to the files of the index. The commands may fail: `popen` (the
answer is then no), `cp` before it writes anything (`CopyRefused`) or half-way
(`CopyFails`, a full disk, a file that vanished), `rm` (`DeleteFails`, which
leaves the directory whole or in part). The code returns -1 and its caller goes
on, and so does the model. `Crash` kills a session at any step; a `cp` it started
dies with it or goes on as an orphan that ends at any later moment, and an `rm`
may have removed a part. Apart from that `rm` is one step. The history variables
`quiet`, `alone` and `failed` state under which circumstances the promises hold. A
datadir whose path `sh` splits, in the unquoted `cp -r %s`, is left out.

**Datadir.** One step per `stat`, while the file system changes. `gEnv.dataDir`
is never assigned, as in the code. The history variables `seen` and `missed` are
the answers of this call, `since` tells whether the file system has changed
during it. Names longer than `MAX_PATH_LENGTH` are left out.

**IndexRecord** and **BlockReader.** The bytes of an index record and of a block
as `bitcoind` writes them (`DiskBlockIndex`, `Serialize*`, external), the block
obfuscated by file position. The record is decoded, the two functions of
`blkdat.c` follow with one action per loop iteration, then `GetBlockStats` and
`FreeBlock`. A byte has `Base` values, 256 in the code and 8 in the runs, so that
one-, three- and five-byte sizes, varints of one to four bytes, and sizes beyond
a `uint16_t` (`Base^2`) occur in short blocks. The blocks that may be stored are
those of the types `Inputs`, `Outputs`, `Transactions` and `Blocks`: fixed members
have their fixed numbers of bytes, a transaction has an input, and a witness for
each input or none. The XOR of two bytes is the constant `ByteXor`, of which the
model needs only that it undoes itself and that zero changes nothing; `Cases` are
the blocks, records and keys that may be on the disk. The 8-byte store of
`CompactSizeDecode` into the 2-byte `txCount` leaves `GARBAGE` in `block.hash`.
`DecodeBlockHeader` works on the memory of a `BlockHeader`, member behind member
without padding, as the first three lie: the store of the four stored bytes of the
version into its one-byte member runs over into `prevBlockHash`, which is stored
after it. What it must give is stated separately, of the header `bitcoind` stored
(`Headers`, `IsHeader`).
`heap` holds a name for each allocation, with the indexes of the loops in it, so
that two rounds never free the same object; `stack` is what the memory of the
`BlockStats` held before. A hash is a pair, so that the byte orders of the index
key, of the header's hash and of `DoubleSHA256` can be told apart.

**SelfRebuild** and **Builder.** A file of the builder is the version of the text
it was made from and a modification time in seconds. `cc` reads when it starts and
writes when it ends, and may leave the old executable or none when it fails or is
killed; a kill of the builder may also leave `cc` at work, to write the executable
at any later moment (`orphan`, one at a time); the developer saves `CBuilder.c` at any moment, with a time that may lie
behind the clock or ahead of it. `raced` remembers whether the last save fell
into a compilation or is hidden by its time. `Builder` conjoins its own state to
these actions: the words and the loop index of `ManageRules` (`argv`, `index`), the
calls left of the current rule (`todo`), the files left to compile (`work`), and what is on disk. An object is
the version and the flags it was compiled with; the archive, the dynamic library
and the test program are their members. Every command may fail, a removal may
stop half-way or fail at the emptied directory itself, the process may be killed
between any two calls. `RunSelf` lets `sh` read the words again: the constant
`Shell` gives, for every command line, the lines that `sh` may make of its words
joined with blanks, and all that is assumed of it is that words without blanks and
characters of the shell (`Plain`) come out as they went in. Two restrictions
keep the state space small, and both only leave out orders that commute: the
clock, `CBuilder.c` and an orphaned `cc` stand still while rules run (no rule reads
what they change), and
the sources of the library change only when the builder is idle or runs rules
(`ManageRebuild` does not read them). The library rules need the names that
`CBuilder.c` defines for macOS only; that is the build they are modelled from.

**DateQueries.** The window is computed as the compiler expands the macro,
`timestamp % 60 * 60 * 24` being `(timestamp % 60) * 60 * 24`, with the factors
60, 60, 24 and the range of U32 as constants. Element `count`, which
`GetLastBlockOfDate` reads first, has an arbitrary time.

## 3. The runs

Passing runs, with their distinct states:

| run | states | shows |
|---|---|---|
| `open_file_cache` | 24 k | flags, slots and streams agree; a read gets its own file; the evicted stream is an oldest one to the second; the cache implements `OpenFileSet` |
| `block_index` | 583 k | every record fits, no hole below a validated block on its side of a snapshot, one chain without snapshot and validated stale branches, the build ends |
| `block_files` | 3 k | each file listed once; right file opened in an unpruned datadir |
| `wildcard` | 182 k | returns, stays inside, decides the pattern, and so does `MatchPattern` |
| `index_session` | 115 k | no writer under a reader; whole and fresh index for an undisturbed session whose `cp` succeeds; the list covers the index; no copy left unless a session was killed, left by `exit` or its `rm` failed; every call ends |
| `date_queries` | 1.3 M | lowest, highest and all blocks of the window; the calls return |
| `datadir` | 45 k | bits, datadir and exit are those of this call; the bits are exact when the file system keeps still |
| `block_reader` | 69 k | records are decoded whatever their status, what was stored is read, hashes and sizes, cursor, sums, what is freed and what leaks |
| `builder` | 920 k | archive, libraries and tests are current after an undisturbed invocation, every process runs its words once, no rule is run by an outdated builder unless the clock or an orphaned `cc` hides it, dry runs make nothing but an empty `build/`, invocations end |

Bounds, and why they are enough:

* `OpenFileCache`: two slots, two paths in each of two file lists, three stream
  addresses, four seconds with a stamp modulo 3. Four files compete for two
  slots, addresses are reused, and the stamp wraps. The theorems of section 4
  hold without these bounds.
* `BlockIndex`: four blocks allow a stale branch as high as the main one next to
  an unvalidated or failed tip, or a snapshot with a block below it and two above;
  the statuses are the two sides of the test on `BLOCK_VALID_MASK` and a failed
  block that keeps its level. The theorems are unbounded.
* `BlockFiles`: four file numbers and an array that starts with one element: two
  doublings, and gaps at the front and in the middle.
* `Wildcard`: four characters are enough for two stars with text between and
  behind them, so that the saved star is replaced once. The theorems are unbounded.
* `IndexSession`: two sessions of two runs, one block appended, one block per
  file. Two runs show what the first leaves to the second; one block is enough
  for a copy to be old, new or torn.
* `DateQueries`: a day of 12 seconds, seven times on both sides of two window
  borders, four blocks, a limit of three.
* `Datadir`: two datadirs, three table entries, two calls, one change of the file
  system at any step.
* `BlockReader`: one or two transactions; the second lies behind the 16-bit range.
  Heights from 0 to 90 cross the lengths of a varint (4, 20 and 84 are the first
  numbers of two, three and four bytes) and three more the range of a signed
  32-bit number, under records with data, undo, both and
  neither. All five properties are proved without these bounds.
* `Builder`: one vendored and one own source, two invocations out of eight
  command lines or the script, and one change, of a source or of `CBuilder.c`:
  enough for a first build that is killed, fails or uses other flags, a change,
  and a second build. A rule follows `build-tests` in one of them, which is what
  `LinkedIsCurrent` has to survive; one line holds a word with a blank, which `sh`
  splits after a rebuild. Three seconds with a skew of one allow a save
  in the second of the compilation and one dated ahead. All five safety
  properties are proved without these bounds.

Fairness. `BlockIndex`, `Wildcard` and `DateQueries` are sequential code that is
never blocked: weak fairness of the next step. `IndexSession` has weak fairness
of each session's own steps only, because none of its calls waits for another
process (LevelDB's lock is tried, not awaited); nothing is assumed of `bitcoind`,
and a session may be killed instead. `Builder` has weak fairness of the builder's
own steps, which wait only for commands that end, and of the clock: without it a
`CBuilder.c` dated ahead would be rebuilt for ever. Nothing is assumed of the
developer. The other runs check safety only. Deadlock
is not checked: each of these programs may end, and the bounds stop the others.

Violations, each a disagreement between the code and a statement of the
repository (quoted in `findings`):

| run | what the code does |
|---|---|
| `first_is_file_zero` | in a pruned datadir element 0 is not `blk00000.dat`, and files shift |
| `xor_key` | the XOR key of the datadir is never loaded |
| `large_item` | a witness item of 64 KiB or more desynchronises the parser |

Met while modelling, visible in the definitions, and left without a run of their
own: among reads of one second `CloseLRUFile` closes the lowest slot, even if it
was read last (`IsLRU`); with "blk" in the directory's path the sort order is
arbitrary (`ExtractBlockNumber`); the `coinstats` directory of
`doc/structure.md` is looked for under the name `coinstat` (`CheckCoinstat`);
`txid` is a copy of `wtxid`, for transactions with a witness too
(`ReadLocktime`); after a killed session `cp -r` nests its copy in the
`/tmp/block-index` that was left and the old one is read (`Copied`); the memset
of `GetBlockStats` clears `sizeof(Block)` bytes, so that `totalOut` and
`totalSize` start with what the stack held (`GetBlockStats`), and `mlbtcc.h`
declares the function with a height where `API.c` takes a block;
`EncodeVarint128`, "a custom Bitcoin-style varint" by its comment, is not the
inverse of `DecodeVarint128` for numbers above 127 (`RecordDecoded`); for a record without `BLOCK_HAVE_DATA` the position is made of
other bytes, and for every record `undoFile` is the undo position and
`undoOffset` bytes of the header (`GetBlockIndexRecord`); `FreeBlock` leaks the
arrays of inputs, outputs and witnesses (`FreesTheBlock`); of the version in a header one byte of four is kept, where
`bitcoin-structs.h` and `doc/leveldb.md` say "4 bytes" (`HeaderMembers`, `IsHeader`);
`doc/leveldb.md` puts the number of transactions in front of the validation status,
while `bitcoind` and the code have the status first (`GetBlockIndexRecord`); the
height of a coin is cast to `int32_t` (`I32`); the results of `CopyDirectory` and
`DeleteDirectory` are ignored (`CopyFails`, `DeleteFails`); words with blanks do not
survive a rebuild of the builder (`BRestart`); `./CBuilder` without a
word builds LevelDB only, because the rule is passed the program's name as an
argument (`FirstRule`); `build-tests debug` passes a NULL to `strcmp` (`Crash`); a
dry run removes files (`Clean`, `RemoveObjects`) and creates `build/`
(`CollectFiles`).

Several passing properties carry an exception that the code needs. They are part
of the statement: `OneChain` (no validated stale branch), `LastIsHighest` (not
the genesis block, and nothing plausible behind the last record), `DayIsExact`
(monotone times), `WindowHoldsTimestamp` (no wrap below zero; a calendar day only
for midnight), `OpensTheRightFile` (unpruned, listed, no "blk" in the path),
`FreshWhenAlone` (alone, `cp` succeeded, nothing appended during it),
`ListCoversIndex` (nothing appended since the call), `LeavesNoCopy` (no kill, no
`exit`, no failed `rm`), `StillCallIsExact` (a file system that keeps still),
`EvictsOldest` (steady clock), `RoundTrip`, `StaysInBuffer` and
`StatsAreSums` (counts, that of the transactions included, and sizes below 2^16),
`RecordDecoded` (the position only with `BLOCK_HAVE_DATA`, one byte of the header's
version, a signed height of coins), `RoundTrip` again (one byte of the version),
`EveryWordOnce` (the typed words only when `sh` has not read them again or all are
plain), `DryRunMakesNothing` (an empty `build/`), `NoHoles` (each side
of a snapshot by itself), `StatsAreSums` again (up to what the stack held),
`ArchiveIsCurrent` and `LinkedIsCurrent` (nothing failed, no source changed
meanwhile; members of deleted sources are gone only after `clean`),
`CurrentOrMasked` (saves the times can show, and no orphaned `cc` that ends in
between).

## 4. The proofs

Checked by TLAPS for every value of the constants, from the assumptions named in
the modules that declare them. They say what the code gives: counts and bounds
are naturals, names are different from numbers, a file name that does not match
is not one that does (`OtherNamesAssumption`), the table of defaults is a sequence of
its records (`DefaultsAssumption`), a name of a datadir is not `NONE`
(`NoneAssumption`), the words of a command line are strings and `sh` leaves plain
ones alone (`CommandLinesAssumption`), an ordinary character is neither '*' nor '?' nor the
NUL (`AlphabetAssumption`). For the reader: a byte has more than three values
(`BaseAssumption`), the fixed members have sizes (`SizesAssumption`,
`HeaderAssumption`), XOR with a
byte undoes itself (`ByteXorAssumption`), and what is on the disk are blocks and
records as `bitcoind` writes them, with 32-bit and 64-bit numbers and eight bytes
of magic and size in front of the block (`CasesAssumption`). TLC evaluates each of
them in a run.

Every theorem about a component follows from one inductive invariant, called
`IInv`, whose parts are named.

**The open file cache** (`OpenFileCacheProofs`): `TypeCorrect`,
`CacheConsistent` (`FlagsMatchSlots`), `NoStreamLeaks` (`StreamsOwned`),
`RightFileRead` (`ReadsItsOwnFile`), `EvictionIsLRU` (`EvictsOldest`),
`CacheKeepsPromise` (`KeepsPromise`). Flags, slots and streams are each inductive
only together: that a hit reads the right file needs that a set flag means an
occupied slot and that its pointer is a live stream of that file, and an eviction
keeps this only if no two slots hold the same FileInfo and no two FileInfos the
same stream. The eviction theorem adds the link between stamps and the history of
last reads, for a clock that was never set back and never passed the range of the
stamp. The refinement maps the flags to the set of open files. Its difficult step
is the miss that evicts: `OpenFileSet` may close a file only when
`MAX_OPEN_FILES` are open, and the code evicts when every slot is taken, so the
proof counts: the invariant gives an injection from the open files to the slots,
which reaches every slot when all are taken.

**The block index** (`BlockIndexProofs`): `TypeCorrect`, `ArrayLargeEnough`
(`StaysInArray`), `IndexHasNoHoles` (`NoHoles`), `IndexIsOneChain` (`OneChain`).
That a height is below the number of 'b' keys is a fact about trees: the
ancestors of a block of height h occupy every height from 0 to h, so there are at
least h + 1 blocks. The invariant carries the tree from the initial database
along, says that the record count is the number of validated blocks read so far,
that a filled slot holds a validated block of its height, and that every
validated block already read has its slot filled. The snapshot matters only for
the holes: walking down from a validated block, every ancestor is validated until
the snapshot is reached, which lies on the border of the side `NoHoles` speaks
of. For the chain, the heights of the validated blocks are an interval from 0 with
as many elements as there are blocks.

**The indexing sessions** (`IndexSessionProofs`), for any number of sessions:
`ReaderSeesOneDatabase` (`NoChangeUnderReader`), `AloneIsFresh`
(`FreshWhenAlone`), `ListIsEnough` (`ListCoversIndex`), `NoCopyIsLeft`
(`LeavesNoCopy`). The invariant says that no copy and no view is ahead of the
index of `bitcoind`, that a list made while `bitcoind` was quiet is the list of
the present index, that without a failure a copy in `/tmp`, whole or cut short,
belongs to a session that will still delete it, and what a session that was alone knows at each of its
places. The last part is what makes freshness inductive: `FreshWhenAlone` speaks
of the end only, while the copy that is read was made several steps before.

**The date queries** (`DateQueriesProofs`), for an index of any length:
`WindowIsRight` (`WindowHoldsTimestamp`), `FirstIsFirst` (`FirstIsLowest`),
`LastIsLast` (`LastIsHighest`), `DayIsRight` (`DayIsExact`). The window is
arithmetic with three unknown factors and a modulus, which the provers do in
small steps: a midnight is a multiple of the first factor, so its remainder is 0.
The loops have the invariants one would write beside them: the elements passed are
not in the window, `lo` and `hi` are the ends of what was met, and nothing in
between was passed over.

**The list of blk files** (`FilesProofs`), for every directory and
allocation size: `ListIsComplete` (`ListsEveryFile`), `RightFileOpened`
(`OpensTheRightFile`). List and pending entries make up the directory, without
repetition; the list never exceeds its allocation. A strictly increasing list of
the numbers 0 to n - 1 has number k at position k, which is what `GetBlock`
relies on.

**Datadir discovery** (`DatadirProofs`): `BitsAreTrue` (`BitsWereSeen`),
`FirstFoundIsUsed` (`UsesFirstFound`), `StillCallsAreExact` (`StillCallIsExact`), for
every table of defaults and however the file system changes between two `stat`
calls. The invariant ties each place of `ParseCoreDatadir` to the looks that led
there: the entries of the table before the present one were missed, the two names
belong to the datadir in use, a bit is set after the look it stands for. For the
exact bits it adds that, while the file system keeps still, what was seen is there
and what was missed is not, so that each look already made has set its bit and no
bit is older than the call.

**The builder** (`BuilderProofs`): `BuilderIsCurrent` of `SelfRebuild` by itself
and `RulesRunCurrent` of the builder with its rules (`CurrentOrMasked`),
`WordsRunOnce` (`EveryWordOnce`), `ArchiveKeepsUp` (`ArchiveIsCurrent`),
`LinksKeepUp` (`LinkedIsCurrent`), `DryRunsOnlyRemove` (`DryRunMakesNothing`).
The invariants:

* `IInv`, of the builder's own files: the process that compares the times is made
  from the executable on the disk, which exists; an executable made from another
  text than `CBuilder.c` is older than it, or `raced` holds; and the same of the
  text `ManageRebuild` has looked at, until it compares. The last part is needed
  because a save between the two `stat` calls changes `CBuilder.c` but not what
  was seen. Each part about the process that compares has the exception of an
  orphaned `cc` that has ended under it (`overtaken`). That `Builder` conjoins its
  state to the steps of `SelfRebuild` makes each of its steps one of those or a
  stutter (`RulesRunCurrent`).
* `WordsInv`, of the command line: the words of the process are those typed, or
  ones that `sh` made of them; nothing of them is taken while the builder compares
  and compiles (`Starting`); then the words run and the words from `index` on make
  up the line, and only the first word of what was run is a rule. It needs what
  `NextRuleIndex` and `ParseGlobalFlags` compute for lines of any length, and that
  the two subtractions and additions of one around them cancel. A line that holds
  `--dry-run` loses it, so the words of a process that compiles itself are again a
  line that `sh` may get.
* `BInv`, of the disk: which call may follow which (`Orderly`), which sources are
  compiled at each call (`ObjectsInv`), what archive, dynamic library and tests
  hold once they were made in this invocation, what `clean` has removed, and that
  a build that ends with the tests is the static release build. The calls of a
  rule decide what the later ones find, so none of the parts on archive and
  libraries is inductive without those on the calls.
* `RemoverInv` and `BuildDirInv`, for the dry runs: a call that removes belongs to
  a rule that is there to remove, and without `build/` there are no objects.

The proof of `LinksKeepUp` changed the property. It used to say that after
`build-tests` the flags are those of the release build and `build/` is gone; the
step of a following rule, `build debug`, does not preserve that, and the code does
not either. The property now speaks of what the tests were linked with, which
later rules leave alone, and of `build/` only when `build-tests` was the last
rule.

**The wildcard matcher** (`FilesProofs`), for names and patterns of any
length: `MatchersDecide` (`DecidesThePattern`), `CursorsStayInside`
(`StaysInside`). `Rest(i, j)` says that the name from j on is what the pattern
from i on stands for. While the loop runs, the question is open in one of two
forms: without a star behind, the pattern matches exactly if `Rest(p, s)`; with
one, exactly if the pattern behind the star matches at `ss` or a later position,
and the attempt under way is the one at `ss`. That a second star replaces the
first for good is the heart of it: between the two there are no stars, so a later
position of the first moves the second by the same distance and leaves it less of
the name to choose from. A '*' in the name breaks exactly this, because
`*p == *s` is tested first and a star of the pattern can be passed as a character;
hence the exception in the property. `MatchPattern` is compared with `Rest` by
induction on the characters left.

**The block reader** (`BlockReaderProofs`), for every block, index record, key,
offset and number of values of a byte: `RecordsAreDecoded` (`RecordDecoded`),
`BlocksAreRead` (`RoundTrip`), `CursorStaysInBuffer` (`StaysInBuffer`),
`FreesWhatWasRead` (`FreesTheBlock`), `StatsAreTheBlocks` (`StatsAreSums`). What is
stored is described by places: `Lies(data, at, w)` says that the bytes `w` lie in
`data` behind place `at`. The elements of a serialized sequence lie one behind the
other (`FlattenIs`, `LiesFlatten`), so every part of a block has a place, and what
a step reads at a place is the part that lies there (`CompactSizeRead`,
`InputRead`, `OutputRead`, `ItemRead`). Six invariants, each resting on the ones
before it:

* `RecordInv`, of the records: what they say, and that a block is read only when
  its record has `BLOCK_HAVE_DATA`. The header is followed store by store through
  the memory of the `BlockHeader`: the bytes of the version that run over its
  member are those the store of `prevBlockHash` replaces, or the next one does
  when a hash is shorter than that. The records' part rests on the codecs: a VARINT of `bitcoind`
  decodes to its number for every length, because the carry that each
  continuation bit stands for is the one the writer subtracted
  (`WriteVarIntDecodes`); `EncodeVarint128` puts the byte without the bit first
  (`EncodeVarint128First`), so that its own decoder stops there and gives the
  number back only below 128.
* `ReaderInv`, of types and buffer: from `ReadPrefix` on the buffer is the stored
  block, since every byte loses the key byte of its own place (`UnxorStored`).
* `LoopInv`, of the loops: how much of a transaction is read at each place of the
  code, by what its counts say.
* `HeapInv`, of the memory: what is allocated, by what was read. With `LoopInv` it
  is inductive without any assumption on the sizes, so the leak and the absence
  of a double or wild free hold of a desynchronised parse too.
* `CursorInv`, when counts and sizes fit: what was read of each transaction is a
  beginning of what was stored, and the cursor is at the place behind it. Neither
  `RoundTrip` (which speaks of the end) nor `StaysInBuffer` (a bound) says enough
  to be kept by a step: both need to know which byte the cursor is at. A marker
  is never taken for a count because a count of inputs is not zero
  (`FirstNotZero`, `MarkRead`), and the size of a transaction is right behind the
  16-bit range because the difference of two places modulo 2^16 is their distance
  when that fits (`WrappedSize`). `CursorInv` was checked by TLC on the instance of
  the run before it was proved.
* `StatsInv`, of the statistics: they are the sums over what was read, which
  `CursorInv` says is what was stored.

These proofs changed the model in one point. `SizesFit`, the condition of
`RoundTrip`, did not bound the number of transactions; the count is stored in a
`uint16_t` like the others, and the step that reads it does not preserve
`CursorInv` for more than 65535 transactions.

Facts about naturals recur in the proofs: a least element (`LeastNat`), induction
up to n for a property given as a set (`InductionTo`, `InductionBelow`), and the
existence of a function defined by a step from its predecessor or from a smaller
number (`RecursionTo`, `RecursionBelow`) and its uniqueness (`RecursionUnique`).
With them facts about `FlattenSeq` and about recursive functions
(`ParseGlobalFlags`, `MatchPattern`, `Digits`, `Groups`, `WriteVarInt`, `Sum`) are
proved for every length, without the library's induction rules, which take an
operator and cannot be used here.

Not proved, only model-checked: everything under fairness (`Terminates`, `Ends`,
`Returns`, `Answers`, `Finishes`), since liveness is out of the prover's reach. All
invariants and action properties of the passing runs are theorems.

## 5. What is not modelled

LevelDB and SHA-256 are vendored and appear as external behaviour (lock and
iterator; an injective function). The printing functions only format text. Short
reads and failed allocations of the reader have no specified result: the code
goes on with uninitialised memory. `BuildCoinRecords` is not called, and fills a
copy of the index that it does not store; `FreeFileList` and
`ChangeEndiannessUint32` are not called. `FreeBlocks` is `FreeBlock` for each
element. Of `CBuilder.c` the logger, the growth of its strings,
`ExecuteCommands` with its threads, `CB_CreateFile` and `CB_CopyFile` (no rule
uses them), the Windows branches and the limit of 1000 files are left out, and
`CB_RemoveFile` and the `mkdir` of `build/` succeed. The commands of the rules are
single steps: an object compiler, `ar` or a linker that outlives a killed builder
is not modelled, only the `cc` that makes the builder itself is. Paths with
characters of the shell, in the unquoted `cp -r %s` of `CopyDirectory`, are left
out, and so is a torn copy as the database of `BlockIndex`. Memory behind a buffer
is read as zero (`Byte`), which matters only after the parser has lost its place.

## 6. Plan

Done: all modules of section 2, their runs, and the theorems of section 4. Left, in
this order:

1. a composition of file list, index and cache behind `GetBlock`, with an
   abstract specification "the block of that height", which would join
   `OpensTheRightFile`, `ReadsItsOwnFile` and `RoundTrip`;
2. short reads, once the code says what it makes of them.
