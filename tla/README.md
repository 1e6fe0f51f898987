# Verification of go-squashfs

go-squashfs is a SquashFS 4.0 library in Go: a writer that packs a directory
into an image and a reader that opens an image and extracts it. This directory
holds TLA+ models of it, the TLC configurations that check them on small
instances, and proofs that TLAPS checks for every instance. The models are
written from the code (`src/writer.go`, `src/squashfs.go` and the codecs beside
them); line numbers below refer to it.

    tlc -config MCDataPacker.cfg MCDataPacker.tla      # one run
    tlapm PackerArchive_proofs.tla                     # the proofs of one module

Contents: [inventory](#inventory), [what is modelled](#what-is-modelled),
[the runs](#the-runs), [findings](#findings), [fairness](#fairness),
[proofs](#proofs), [left out](#left-out), [plan](#plan).

## Inventory

The library starts no goroutines and takes no locks. What makes it hard is the
file format, which two halves of the code must agree on without sharing any of
it, and everything around the process: files that change while they are
packed, images that are damaged or cut short, a disk that fills up. One piece of
state is shared by all who use the library: the tables of the zstd encoder,
which the first to compress builds in place, and two goroutines may be first.

| Component | State | Operations | Talks to |
|---|---|---|---|
| Writer, walk (`CreateFromDir` phase 0, writer.go:109-216) | `allNodes`, `nodeMap`, `inodeNum`, id list | one node per entry of `filepath.Walk`; links it to its parent; sorts children | the source directory, twice per entry (`Walk` and `Lstat`) |
| Writer, data area (phase 1, 218-296) | `out`, `fragBuf`, `fragEntries`, `fragDedup`, `startBlock`/`blockSizes`/`fragIdx`/`fragOff` of each node | full blocks, tails, sharing of equal tails, flushing of the fragment block | `os.ReadFile`, after the walk; `compress` |
| Writer, xattrs (phases 2 and 6, 298-345, 433-461) | value buffer, id table | key/value pairs by prefix | nobody: no inode refers to them |
| Writer, directories and inodes (phases 3 and 4, 347-409) | `dirBuf`, `inodeBuf`, `inodeOff`, `dirStart`, `dirSize` | listings in walk order, inodes in post-order, patching the listings | phase 1's results |
| Writer, tables and output (phases 5, 7, 8, `writeMetablocks`, 411-496, 553-569) | `out`, table starts | metadata blocks of 8192 bytes, pointers, superblock, `os.WriteFile` | the disk |
| `Writer.compress` (28-64) | none | one of five codecs; raw if not shorter | codecs |
| Reader, opening (`OpenFile`, `newReader`, `readMetablock`, `readMetaRange`, `readFragTable`, squashfs.go:165-246, 334-413) | superblock, `inodeData`, `dirData`, `frags` | reads both tables whole; fragments if it can | the image, `decompress` |
| Reader, inodes and listings (`readInode`, `resolveInodeRef`, `resolveDirRef`, `readDirEntries`, 415-573) | none | pure functions of the tables | |
| Reader, extraction (`ExtractTo`, `extractDir`, 576-656) | `count`, `seen`, the call stack | walks the directories, makes them, links and files | the target directory |
| Reader, one file (`extractFileToPath`, `readFileData`, 660-820) | `written`, the open file | blocks, fragment, truncation | the image, the disk |
| `Reader.decompress` (squashfs.go:264-322) | none | the codec of the superblock's compressor, at most `maxOut` bytes of it | codecs |
| Codecs lz4 and lzo (`Lz4BlockCompress`, `lz4BlockDecompress`, `LzoCompress`, `lzoDecompress`) | hash table, positions, output | one pass over the data, one over the block | only through `compress` and `decompress` |
| Codec xz (`XzCompress`, `xzReader`, `lzma2Reader`, `lzmaDecoder`) | dictionary, repeated distances, probabilities, decoded bytes not yet read | stores; reads what any encoder wrote, chunk by chunk, while it is read from | `io.ReadAll` |
| Codec lzma (`LzmaNewReader`, `plainLzmaReader`, `rangeDecoder`) | the dictionary, probabilities, the coder's state | decodes the whole stream, then hands it out; nothing is ever written with it, although README.md:10 says "read + write": `Writer.compress` stores | `io.ReadAll` |
| Codec zstd (`ZstdCompress`, `ZstdDecompress`, `ZstdReader`) | hash table, sequences, the encoder's tables (shared); `rawBuf`, `buf` | one pass over a block, entropy coding from its end; the reader decodes all it has with each piece it reads | `compress`, which decompresses what it got; `io.ReadAll` |
| `CreateWithMksquashfs`, `cmd/test` | none | run a program, a command line | |

What makes each correct, in a sentence:

* data area: what the reader puts together from an inode is the file as it was
  read, whatever is packed later and whoever shares its tail;
* directories and inodes: every node is found from the root under its path,
  although listings are written before inodes have offsets;
* tables: whatever part of the image reached the disk, an image that opens has
  the right tables;
* extraction of a tree: what is on disk is part of the image's tree, all of it
  if the image is sound, and the walk ends on any image;
* extraction of a file: an intact file is copied exactly; damage never alters
  what comes before it;
* codecs: decompressing what was compressed gives the same bytes.

Hard to test, and listed line by line under "hazards" in `PROJECT.json`: the
walk's size against the bytes read later; vanishing entries; the sharing
of tails across flushes; 16-bit offsets; the number of pointers to the
fragment table; images cut by a crash; errors that are dropped half way through
a file; entangled directories; limits tested in several places; compressors and
decompressors that must mean the same bytes; histories and contexts that decoder
and encoder must carry alike over a whole stream; streams cut where a reader sees
only the end of a file; tables that two goroutines build at once.

## What is modelled

| Module | Stands for | Notes |
|---|---|---|
| `DataPacker` | phase 1 | One action per branch of the loop. `Rewrite` is another process. Codecs are a choice of length (`StoredLengths`). The image is a list of extents. |
| `Archive` | what packing promises | abstract: files are taken whole, one after the other; which are kept, and until when there is room |
| `PackerArchive` | `DataPacker` implements `Archive` | the mapping is the reader's path: `readInode`'s fields of 32 bits and its count of size words, then `extractFileToPath` with the fragment's size word and `f.Truncate` |
| `DirTree` | phases 0, 3, 4 and the reader's way back | inodes and listings by their length in bytes, so offsets are real; `LstatFails` and `WalkFails` are entries that vanish |
| `ImageTables` | `writeMetablocks`, table starts, `os.WriteFile`; `newReader` and what it calls | an entry of a table is a byte; addresses are real |
| `FileExtract` | `extractFileToPath`, step by step; `readFileData`, as an operator | a byte is the place in the file where it belongs, so misplaced bytes show; a block may yield fewer or more bytes than its share, writes and `f.Truncate` may fail |
| `ExtractTree` | `ExtractTo` and `extractDir`, the calls as a stack | any image: cycles, directories reached twice, names listed twice, damage |
| `TreeCopy` | what extraction promises | abstract: the image's tree appears path by path; what two entries with one path may do to each other |
| `Lz4Block` | the lz4 block format, both ways | byte by byte; the size of a byte and of half a byte are constants |
| `LzoBlock` | `LzoCompress`, `lzoDecompress` | byte by byte, with the code's own thresholds |
| `LzmaDict` | `putByte`, `getByte`, `copyMatch`, the repeated distances | operators both xz and lzma use; and what operations mean, by a history without a ring |
| `XzStream` | `XzCompress`, `xzReader`, `lzma2Reader`, `lzmaDecoder` | a stream is a sequence of units; what the range coder decodes is a sequence of operations |
| `LzmaCoder` | `rangeDecoder`, bit trees, `lzmaLenDecoder` | operators: a decoder, and the encoder of the format as it is external |
| `LzmaStream` | `LzmaNewReader`, `plainLzmaReader`, `lzmaDecoder.decode` | bit by bit, on streams that the external encoder writes bit by bit |
| `ZstdEntropy` | bit streams, FSE and Huffman tables, both ways | operators; `Table` is the decoder's way to build a table, `Filled` and `Numbered` are the encoder's |
| `ZstdBlock` | `zstdBuildBlock`, `zstdDecodeCompressedBlock` and what they call | operators: codes, states, the bit stream; literals, sequences, histories |
| `ZstdFrame` | `zstdCompressFrame`, `zstdFindSeqs`, `zstdDecodeFrame`, `ZstdDecompress`, `ZstdReader` | an action per match and per block; the reader an action per `fill` and per `Read`; `ZstdDecompress` is an operator |
| `PredTables` | `zcInitPredTables`, `zcBuildPred` | goroutines that read and write the shared tables one element at a time |
| `BlockCodec` | `Writer.compress`, `Reader.decompress` | composes the codecs: they share the data, the block, what is delivered of it and what comes out; "tables" stands for the users of zstd's tables |

The modules `PackerArchive_proofs` (for `DataPacker` too), `DirTree_proofs`,
`ImageTables_proofs`, `ExtractTree_proofs`, `FileExtract_proofs`,
`XzStream_proofs`, `LzmaStream_proofs` and `BlockCodec_proofs` (for `Lz4Block` too) hold the
[proofs](#proofs) about the modules they are named for.

The `MC...` modules only give the constants values. Definitions whose names end
in `Slip` are wrong variants of the definition that follows them, each a
plausible mistake in that code; `PROJECT.json` pairs every property with one
that it catches. They are not part of any specification.

How state corresponds to the code:

* `DataPacker`: `inode[f]` has `startBlock`, `blockSizes`, `fragIdx`, `fragOff`
  of the file's `wNode`; `fileSize[f]` its `fileSize`; `got` is a history
  variable with what `os.ReadFile` returned; `next` and `pc` are the place in
  the loop; `fragDedup`, `fragBuf`, `fragEntries` and `out` are the variables
  of those names, `out` as extents `[start, len, word, data]` with the bytes
  they decompress to. An inode is written with fields of 32 bits and a size word
  has 24 bits for a length (`AddressLimit`, `LengthLimit`, `SizeLimit`); the reader
  finds an extent where it begins, with a word that says all of its length
  (`Found`), and that goes for fragment blocks, which become nearly two block
  sizes long, as for data blocks.
* `PackerArchive`: `Extracted` is what the reader makes of an inode. `Promised` are
  the files of which something can be said: those that were read with the length
  Lstat found, less than `LengthLimit`, and begin below `AddressLimit`. Of the
  others the reader takes words or bytes that belong to something else; `Archive`
  takes them without keeping them, and `Full` is its image from 4 GiB on.
* `DirTree`: a node is the place of its entry in the walk; `number`,
  `children`, `inodeOff` are the fields of `wNode`; `listing[n]` is what phase 3
  wrote for directory n; `calls` is the recursion of `writeOrder`. A name is
  stood for by its entry, as names in a directory are distinct. The reader
  (`Recovered`) resolves references modulo `Width` from the start of the first
  metadata block, as `resolveInodeRef` does with the references the writer
  makes (it never names a later block, and the part of the root's reference
  above 16 bits is less than the length of the first block).
* `ImageTables`: `blocks` and `pointers` are what is at an address of the
  image; `file` is how much of it is on disk; `off` is the variable of
  `readMetaRange` and then the pointer of `readFragTable`; `data` is
  `inodeData`, `dirData` and `frags`.
* `FileExtract`: `k` is the place in the loop, `written` the variable, `file`
  the bytes on disk; `short` and `stuck` are history variables (some write was
  short, `f.Truncate` failed: the code drops both errors). What blocks may be like
  is in `Kinds`; a scant one lacks `Shortfall` bytes, as the codecs that stop early
  without an error leave it.
* `Lz4Block`, `LzoBlock`: the variables are those of the two functions (`ip` of
  the decompressors is `pos`; `litStart` is `anchor` in the composition).
  `Deliver` is what happens to a block between them: it may be cut short and, in
  `Lz4Block`, have a wrong byte.
* `XzStream`: `dec` has `dict`, `dPos`, `pos` and `reps` of `lzmaDecoder`, `buf`
  is that of `lzma2Reader`, `ops` and `limit` are the chunk that is being
  decoded. A unit is what the reader takes in one or more calls of `io.ReadFull`;
  `in.part` tells where in the next unit a stream is cut, which decides between
  `io.EOF` and an error. `Meaning` says what a stream means without a ring.
  A compressed chunk has what its control byte says (`control`), and whether its
  properties make literals and positions depend on what is before (`context`, or
  `plain` if not) or are none the format has (`bad`; `lzma2Reader` takes them as they
  are, only the header of a .lzma stream is checked). Where the control byte is
  misread, or the properties are bad, what comes out is left open (`Misread`).
* `LzmaStream`: `rc.coder` is the `rangeDecoder` with all probabilities, each
  under its array, row and place (one that was never used is 1024), `rc.state`
  is `state`; `pc` is the place within `decode`. The range has three bytes
  instead of four, so that products stay within TLC's integers; nothing else in
  the coder depends on it. `dst` holds the encoder until the stream is written.
* `ZstdFrame`: `from`, `ip`, `anchor`, `seqs`, `hashTable` are those of
  `zstdCompressFrame` and `zstdFindSeqs` (positions count in the whole data);
  `raw` is `rawBuf`, `buf` is `buf`. `class` is a history variable: whether all
  sequences of each block have one set of codes. `WholeFrames` is what a stream has
  up to what is no whole frame, `ZstdDecompress` what the function of that name
  returns: each frame behind the others' output, and nothing if anything is no frame.
* `PredTables`: `ready` is `zcPredReady`; `symbols`, `numBits`, `newState`,
  `sym2state` are the fields of a table; `thread` has the place and the local
  variables of each goroutine, `overlap` is a history variable.
* `ExtractTree`: `stack` the calls of `extractDir`, `count` and `seen` the
  variables, `made` the target directory, which is empty at first. `At` is what the
  file system has at a path, as `os.MkdirAll`, `os.Symlink` and `os.OpenFile` find it:
  the model of those (`Make`, `Open`) keeps what is there, writes files over, and
  follows links. What is beyond a link is not modelled: `strayed` says that something
  was written there, and from then on any of the outcomes is possible. The file system
  itself does not fail.

## The runs

| Run | Configuration | Expect | Shows |
|---|---|---|---|
| `pack_files` | `MCDataPacker` | pass | every choice of three files out of five contents, readable or not, one of them rewritten or removed at any step, one content too long for an inode, and an image that outgrows its addresses: tails and blocks resolve, equal tails are shared, blocks stay within the reader's limit; packing implements `Archive`, and ends |
| `pack_inodes_parse` | `MCDataPackerParses` | violation | finding 1 |
| `extract_file` | `MCFileExtract` | pass | every file of up to 7 bytes in blocks of 2, each block of six kinds, five kinds of fragment at any offset, short writes anywhere, a truncation that fails |
| `extract_tree` | `MCExtractTree` | pass | 24,933 images: everything of up to three inodes, entangled or damaged, trees of four, and directories that list a name two or three times |
| `build_tree` | `MCDirTree` | pass | every tree of five entries, each vanishing or not, at every point of the walk |
| `build_wide_tree` | `MCDirTreeWide` | violation | finding 2 |
| `read_tables` | `MCImageTables` | pass | every small combination of tables, the file cut after any byte |
| `read_many_fragments` | `MCImageTablesMany` | violation | finding 3 |
| `codecs` | `MCBlockCodec` | pass | lz4 reads back what it wrote, and the beginning of it from a block that is cut; xz reads back what it stored, and of any stream whose control bytes and properties it understands the beginning of what it means; lzma decodes what an encoder of the format wrote, all or nothing, and never indexes an array beyond its end; lzo writes bytes, stops on anything, and reads back short data; zstd reads back what it wrote while codes do not mix, reads what others wrote as far as it takes it for what the format does, and gives whole streams the same by pieces as at once; the shared tables are right if one goroutine builds them, and no state leaves them if two do |
| `lzo_kept` | `MCBlockCodecLzo` | violation | finding 4 |
| `zstd_kept` | `MCBlockCodecZstd` | violation | finding 5 |
| `xz_strict` | `MCBlockCodecXz` | violation | finding 6 |

Bounds, and why they are enough:

* `pack_files`: blocks of three bytes and contents of up to seven give files
  with no block, one and two, exact multiples of a block, equal and different
  tails of both lengths. Three files flush the fragment block (two tails of two
  bytes do, and the last one is flushed in any case) and let a tail come back
  before and after a flush; the one that is rewritten shrinks, grows, vanishes
  and comes back, before and after it is read. `SizeLimit` 16 is larger than any
  two blocks, as 2^24 is than 256 KiB. `LengthLimit` 6 is passed by the longest
  content, and `AddressLimit` 100 by many images of three files, so that what holds
  only within 32 bits is tried on both sides.
* `extract_file`: seven bytes are three blocks and a tail or four blocks, the
  last partial; each kind of damage can come before and after each other one.
  The fragment has three bytes, so foreign bytes are on either side of a tail.
  `Shortfall` 1 makes a scant block of one byte or of none.
* `extract_tree`: `MaxDepth` 2, `MaxFiles` 2 and `MaxPath` 3 are all exceeded
  by some images and reached exactly by others, except that a path of more than
  `MaxPath` names is also too deep. Names are listed up to three times, in every
  order of files, links and directories with something below them.
* `build_tree`: five entries give chains, siblings and both; `Width` 150 lies
  between the sizes of small and large inode tables, so that the hypothesis
  `Fits` of `TreeResolves` is true in some states and false in others.
* `read_tables`: metadata blocks of two entries and tables of up to five give
  one to three blocks, full and partial.
* `codecs`: with bytes of two bits lengths overflow the token at 1 and take
  one byte more at 4 and at 7, so nine bytes pass the thresholds that are 15, 270
  and 525 in the code; offsets end at 15, and some data has its match beyond. lzo has
  its real thresholds, and data on both sides of those at 8, 13, 18 and 33. xz has a
  dictionary of four, stored bytes that go round it, every pair of operations
  behind them, pairs behind three different distances, and chunks behind others.
  lzma has every pair of operations behind some that leave four different
  distances, once and three times over, so that each probability is used again;
  with three settings of the literal and position contexts; distances of each
  kind of code (below 4, below 128, with aligned bits) on both sides of its
  ends; lengths of all three trees; dictionaries that go round; streams with a
  length and with a marker; each of them cut after any byte.
  zstd has blocks of 60 bytes instead of 131072, so data of 65 to 90 takes two;
  repetitions with each of the three first offsets and with others; data at the
  lengths 16 and 17 where the search begins, and above 255 where headers grow.
  The reader gets 9 bytes at a time, less than a block, and hands out 4 or 512.
  The tables two goroutines build have four entries, with all three kinds of
  probability; alone, the tables are the real ones.

## Findings

Each is shown by a run that is expected to find a violation. The properties
quote what the documentation or a comment says.

1. `EveryInodeParses` (writer.go:238). A file `os.ReadFile` cannot read is skipped,
   but its inode is written with the length Lstat found: `readInode` takes size words
   that nobody wrote, bytes of the next inode, and the writer returns no error. That
   is the trace of the run. The same befalls a file whose length changed between
   Lstat and `os.ReadFile`: words are counted that are not there, or missed.
2. `ImageHoldsDirectory` (writer.go:404, 487, 532, 533). Offsets are cut to 16
   bits; a directory whose inode or directory table is longer than 64 KiB gives
   an image that does not lead to its files, without an error. `TreeResolves`
   shows the other side: while both tables fit, and there are no more nodes than
   differences of their numbers have 16 bits for, everything is found.
3. `FragmentsReadBack` (writer.go:430). One pointer is written behind the
   fragment table; for more than 512 fragment blocks the reader follows bytes
   that are no pointers, and goes on without any fragments (squashfs.go:241), or
   panics when the offset is negative (`byteSource.Slice` does not check).
4. `KeptReadsBack` (lzo_compress.go:117). Compressor and decompressor of lzo do
   not speak the same format: near matches get a first byte below 32, which means
   something else to the decompressor; so does the count of a first run of
   literals; literals counted in the low bits of a match are not read. An lzo
   image with anything that compresses is read back wrong, without an error.
5. `KeptReadsBack` (zstd_compress.go:303). An offset that was among the last
   three is written as its index, which the decoder takes for the number of bits
   that follow: with index 1 or 2 it takes bits of the lengths behind it, and
   index 0 is always the last offset. `Writer.compress` decompresses what it
   got, but compares lengths only, and the length may well be right: the run has
   data that repeats with one distance.
6. `StrictIsRead` (xz_decompress.go:668). The two bits of a chunk's control byte
   are read as "new properties" and "reset the dictionary"; in LZMA2 they count
   from nothing over state and properties to all of it. A stream that stores its
   first bytes and then compresses is refused if the compressed chunk refers to
   them, as its 0xC0 drops the dictionary.

Things the models show that no run claims, as nothing in the repository
promises otherwise:

* A block beyond the image ends the loop of `extractFileToPath`, but the
  fragment is still appended: at the wrong place, and longer than the tail, so
  that bytes of other files get into this one (squashfs.go:688). The same goes for a block that
  comes out shorter than its share: nobody compares the lengths (696-705).
* `maxExtractFiles` bounds the files that are extracted whole. Links are made past it
  (squashfs.go:649-651), and files that fail half way stay on disk uncounted (642).
* If a listing has a name twice, the later entry is written over the earlier one or
  dropped; if the earlier one is a link, it is followed (squashfs.go:609, 665),
  although line 649 says "never follow". Nothing checks for it.
* A fragment that does not decompress makes it return nil with the file short
  by its tail (squashfs.go:726).
* Names with two dots in them, such as `a..b`, are dropped in silence
  (squashfs.go:621).
* `xzReader` ends with the first block of a stream, or where a stream is cut
  between two of its reads (xz_decompress.go:643, 844).
* Two goroutines that build zstd's tables at the same time may leave wrong
  tables behind for as long as the process lives (zstd_compress.go:567): what is
  then compressed is caught by the check in `Writer.compress` only if its length
  comes out wrong. `AloneIsRight` therefore speaks of builds that do not overlap.
* With mixed codes `zstdBuildBlock` uses the predefined tables, with 64, 32 and
  64 entries as the format has them; the decoder builds the same distributions
  into 512, 256 and 512 entries (zstd_decompress.go:960-968). Such blocks are not
  read back, and get into an image only if their length comes out right.
  `ExactRoundTrip` speaks of blocks with one set of codes. The comment "Falls back
  to raw blocks when sequences have mixed codes" (zstd_compress.go:6) is not so.
* The zstd decoder differs from the format elsewhere, so that frames of other
  encoders are misread although zstd_decompress.go:3 says "Zstandard (RFC 8878)
  decompressor": besides the predefined tables, it indexes its Huffman table by the
  reversed code, which codes of more than one bit show (635); it forgets the repeated
  offsets with each block, the format with each frame (986); and `ZstdReader` does not
  report a frame that is cut below its magic number. `ForeignIsRead` is about the
  frames on which both agree (`MCZstdForeign`) and claims nothing of others.
* `ZstdDecompress`, by which the writer judges a block, gives nothing of a stream that
  ends in part of a frame (zstd_decompress.go:28); `ZstdReader` gives its whole frames,
  and an error. `StreamedIsWhole` says both.

## Fairness

`DataPacker` and `ExtractTree` have weak fairness on the steps of the function
itself (`Pack`, `Walk`): it is one goroutine that nothing blocks, so while it has
a step to take it takes one. Other processes (`Rewrite`) have none. The other
modules, `PredTables` with its goroutines among them, state no liveness: their
loops run over finite lists, and every step of a codec consumes some of its
input.

## Proofs

TLC shows a property on a small instance; these theorems state it for every value
of the constants. The left column is the module; each theorem is
`Spec => []Property`, unless it says otherwise.

| Module | Theorem | States |
|---|---|---|
| `PackerArchive_proofs` | `TypeCorrect` | `TypeOK` |
| | `TailsAlwaysResolve` | `TailsResolve`, if `2 * BlockSize <= SizeLimit` |
| | `AlwaysWithinLimit` | `WithinDecompressLimit` |
| | `TailsAlwaysShared` | `EqualTailsShared` |
| | `AlwaysReadAsStatted` | `ReadAsStatted` |
| | `BlocksAlwaysResolve` | `BlocksResolve`, if `BlockSize < SizeLimit` |
| | `ImplementsArchive` | `Spec => PackingArchives`, the refinement of `Archive`, if `2 * BlockSize <= SizeLimit` |
| `DirTree_proofs` | `TypeCorrect` | `TypeOK` |
| | `InodesAlwaysInPostOrder` | `PostOrder` |
| | `OneInodeAlwaysEach` | `OneInodeEach` |
| | `TreeAlwaysResolves` | `TreeResolves` |
| `ImageTables_proofs` | `TypeCorrect` | `TypeOK` |
| | `OpenedAlwaysRight` | `OpenedIsRight` |
| | `CompleteAlwaysOpens` | `CompleteOpens` |
| | `CutAlwaysRefused` | `CutIsRefused` |
| `ExtractTree_proofs` | `TypeCorrect` | `TypeOK` |
| | `DirectoriesAlwaysOnce` | `DirectoryOnce` |
| | `FilesAlwaysBounded` | `FilesBounded` |
| | `WellFormedAlwaysCopied` | `WellFormedIsCopied` |
| | `ImplementsTreeCopy` | `Spec => ExtractionCopies`, the refinement of `TreeCopy` |
| `FileExtract_proofs` | `TypeCorrect` | `TypeOK` |
| | `LengthAlwaysExact` | `LengthIsExact` |
| | `PrefixAlwaysSound` | `PrefixIsSound` |
| | `IntactAlwaysCopied` | `IntactIsCopied` |
| | `ForeignNeverWithoutGap` | `ForeignOnlyAfterGap` |
| | `InMemoryAlwaysAgrees` | `InMemoryAgrees` |
| `XzStream_proofs` | `XzReadsItsMeaning` | `TypeOK`, `RoundTrip` and `ReadsItsMeaning` |
| | `XzSoundOrReported` | `SoundIsRead` and `TornIsReported` |
| `LzmaStream_proofs` | `LzmaReadsBack` | `RoundTrip` and `AllOrNothing` |
| `BlockCodec_proofs` | `RoundTripAlways` | `RoundTrip` |
| | `CutAlwaysGivesPrefix` | `CutGivesPrefix` |
| | `Lz4ReadsBack` | of `Lz4Block`: `TypeOK` and `RoundTrip` |
| | `Lz4CutAlwaysPrefix` | of `Lz4Block`: `CutGivesPrefix` |
| | `Lz4OverheadAlwaysBounded` | of `Lz4Block`: `OverheadBounded`, if `MinMatch >= 4` |
| | `Lz4AlwaysReadsBack` | `TypeOK`, `RoundTrip` and `CutGivesPrefix` while the codec is lz4 |
| | `OverheadAlwaysBounded` | `OverheadBounded`, if `MinMatch >= 4` |
| | `XzAlwaysReadsItsMeaning` | `TypeOK`, `RoundTrip` and `CutGivesPrefix` while the codec is xz |
| | `SoundIsAlwaysRead` | `SoundIsRead` |
| | `TornIsAlwaysReported` | `TornIsReported` |
| | `ShortAlwaysReadBack` | `ShortRoundTrip` |
| | `RacersAlwaysStayInRange` | `RacersStayInRange`, if `PowersOfTwo` |

### What they assume

Only the assumptions that the modules name, and where the table says so a
hypothesis of the theorem:

* `PackerAssumption`, `DirTreeAssumption`, `TablesAssumption`,
  `ExtractAssumption`, `LimitAssumption`: the constants are numbers, sets and
  sequences as the code has them; sizes are not 0; the reader lets through at
  least two block sizes (it lets through four).
* `ImageAssumption`: `readInode` yields some inode for whatever an entry refers
  to (one of the wrong kind if it cannot read it), and what is no directory lists
  nothing (its `DirSize` is 0, squashfs.go:611).
* `BlockSize < SizeLimit`: the length of a stored block fits the 24 bits of its
  size word (writer.go:248). It does with the default of 128 KiB, but
  `Writer.BlockSize` is a public field: a block of 16 MiB that does not compress
  makes a word whose flag bit is part of the length. `2 * BlockSize <= SizeLimit`: so
  does that of a fragment block, which is written once it is full and may have become
  nearly two block sizes long (writer.go:271, squashfs.go:714); that takes a
  `BlockSize` of at most 8 MiB. Without these neither `BlocksResolve` nor
  `TailsResolve` is true. What holds only of files shorter than 4 GiB, or that begin
  below it, is a condition in the properties (`ReadAsStatted`, `BlocksResolve`,
  `Promised`).

* `Lz4Assumption`, `XzAssumption`, `LzmaAssumption`, `CodecAssumption`: data are
  sequences of bytes of any length, half a byte has at least two values; what other
  encoders wrote are sequences of units of the kinds the model has, with distances and
  lengths that are numbers. A stream of LZMA has a header with any properties,
  dictionary and length, and any sequence of operations with lengths the format has
  (`Headers`, `Operations`), also such as cannot be followed. Its distances are below
  2^31, where TLC's numbers end; the format's go to 2^32. The range has
  `RangeBytes` bytes: four, as in the code, or three, as TLC checks it.
* `MinMatch >= 4`: lz4's matches are that long (lz4_compress.go:19). Shorter ones
  would let blocks outgrow their data by more.
* `PowersOfTwo`: `2^n` is a positive number if n is a natural one. The provers know no
  exponentiation but of literals.

### How they go

Each module has an invariant `IInv`, a conjunction of named parts, shown to hold
at the start (`IInvInit`) and to survive every step (`IInvStep`), with a lemma for
each part and, under it, a case for each action; that of `LzmaStream` is called
`LzmaSound`. TLC has checked the `IInv`s of the packer, the tables, the tree and the
extraction on the instances of their runs; those of the codecs speak of histories
that exist, too many for TLC to enumerate. None of the properties is inductive alone; what
is added says why the code works:

* `DataPacker`: a remembered tail is where the map says, in the current fragment
  block (`DedupCurrent`); every tail in that block is remembered
  (`DedupComplete`); between files the block has room (`BufferHasRoom`), so that
  one more tail stays below two block sizes; one size word per full block
  (`WordPerBlock`); files ahead of the loop are as they were (`AheadIsFresh`).
* `PackerArchive`: extents lie behind each other and are never written again, so an
  address names one extent for ever; the words of a file add up to the addresses of
  its blocks (`BlocksInRow`); the fragment it names is written, or being filled and
  only growing (`TailsPlaced`). A word that says all of a length (`WordsExact`) and an
  address below the limit (`StartBelow`) are what the reader finds an extent by.
  What is read back of a file that is packed does not change any more, which
  makes every later step a stutter of the archive for that file.
* `DirTree`: nodes have increasing numbers and each is among its parent's
  children exactly if the parent had a node (`Nodes`); the open calls of
  `writeOrder` are a path from the root, and of the children of a node on it those
  before the current one, and no other, have inodes (`Path`); an inode is behind
  all those of its children, and its parent has one or is open (`Below`); inodes and
  listings lie behind each other (`Rows`, `Listings`), and what a listing says is
  known at each stage. `PostOrder` and `OneInodeEach` follow by going up the tree,
  `TreeResolves` by going down it level by level, where offsets that fit lead to
  one inode and one listing each.
* `ImageTables`: tables do not overlap (`Apart`), each is a chain of blocks with the
  rows in their order (`Laid`) and one pointer (`Pointed`); what the reader has so
  far is the beginning of a table, read from the beginning of its chain
  (`ReadInodes`, `ReadDirs`, `ReadFragments`), whatever the length of the file.
* `ExtractTree`: of any image, the calls are a path in its tree (`CallsInTree`), what is
  made is in the tree and below a directory (`InTree`, `InDirs`), `seen` has the
  numbers of the directories made, each of which has another one (`SeenHas`,
  `NumbersOnce`), and `count` covers the files and links on disk (`CountCovers`). While
  no name is listed twice, `Clean` holds: the calls are made (`CallsMade`), `seen` and
  `count` have exactly what is on disk (`SeenExact`, `CountExact`), nothing has strayed,
  and in a well-formed image everything that was passed is made (`NothingMissed`).
* `FileExtract`: what is on disk is made of parts that were in order (`InOrder`), up
  to the first damage; an error has a reason (`Reason`), and `written` is the length
  of the file until the fragment is written (`WrittenIsLength`), so that it falls behind
  the blocks just as the file does where one of them is scant or a write is short.
* `Lz4Block`: a mark is a pair of a position in the block and one in the data. From
  each mark of the compressor a sequence leads to the next or ends both, and later
  bytes change neither (`Leads`, `Ends`); so the decompressor, which goes from mark to
  mark, has written the data up to one. A length in steps of a full byte is read as
  it was written. `Roomy` has the block's length against the data's up to `anchor`.
* `XzStream`: the reader's state runs alongside the meaning of the units
  (`Chunked`, `InChunk`, `Ended`): the ring has the end of a history that forgets
  nothing, a distance reaches the same byte in both, and what was handed out and
  what is kept in `buf` are that history from where the stream's output began.
  Folds over units and operations are treated as runs, so that one more unit is one
  more step. What `XzCompress` writes means its data by induction over its chunks.
* `LzmaStream`: the bytes of a stream, as a number, lie in every interval the encoder
  went through (`Inside`), carries and flushed bytes included. So the decoder, whose
  interval is the encoder's and whose code is the distance to it (`At`), decides each
  time as the encoder did, with the same probabilities (`Reads`), or finds a byte
  missing. The decisions are those of the operations, one behind the other
  (`Written`); the decoder's trees, lengths, distances and literals, matched ones too,
  take just those that belong to the operation it is in (`AmidAt`, `LengthAt`), and
  leave the ring and the distances as the operation means, by the same lemmas as for
  xz (`Follows`). It stops where the meaning does (`Goal`). Of a stream that is not
  sound nothing is claimed but that nothing else changes it.
* `BlockCodec`: the parts of xz and of LZMA are instances of the codecs' own proofs, for
  which each definition is shown to be the same in both; each codec's part stutters
  while another one runs. `RoundTrip` and `CutGivesPrefix` follow from the three codecs'
  invariants. Of lzo, what 13 bytes or fewer are compressed to is one run of literals, and
  each place of the decompressor is one in it. Of the tables, what a goroutine has
  written so far is within the table whoever writes the same (`InPlace`), as each
  value is computed from the goroutine's own.

The library's induction theorems take an operator as a parameter, which the provers
cannot instantiate; instead, a statement that fails for some number fails for a least
one (`HasLeast`, which each module that needs it states). With it the functions that
are defined by recursion (the levels of a tree, the ancestors of an entry, folds) are
shown to exist and to be unique, and then to obey their equations, which is all the
proofs use.

### What the proofs corrected

* `FilesBounded` counted a root whose inode is a file. `ExtractTo` makes a directory of
  any root and does not count it, so an image at the limit could exceed the bound by
  one; no image of the run did.
* An inode that is no directory but lists entries made `WellFormedIsCopied` false; no
  such inode exists (`ImageAssumption`).
* `TreeResolves` does not follow from the tables being within reach of 16 bits. The
  nodes below a directory that vanished during the walk are numbered but get no
  inode, so numbers can be further apart than an `int16` holds (writer.go:361) while
  both tables are small. `Fits` now counts the nodes.
* `BlocksResolve` needs `BlockSize < SizeLimit`, and `TailsResolve` twice as much, see
  above.

### Only model-checked

* `Terminates` and `Finishes`: liveness and ENABLED are beyond the prover.
* `ExactRoundTrip`, `ForeignIsRead` and `StreamedIsWhole` of zstd and `AloneIsRight` of
  its tables. The tables are built with `SelectSeq` and `@@`, of which the provers know
  nothing, and each number in them counts; TLC evaluates them.
* `TypeOK` of `BlockCodec` as a whole. It is proved of lz4 and of xz. The others' parts
  speak of what is read of any bytes, damaged ones too: for LZMA that probabilities stay
  between 31 and 2017 and in their arrays for streams the format does not allow, for
  lzo and zstd the places in a block that no encoder wrote.

## Left out

* In `DataPacker` and `ImageTables`, what the codecs compute: there only the
  length a codec reaches matters, and that decompression gives the bytes back.
* gzip, which is the standard library's. The lz4 frame format and
  `Lz4NewWriter`, `LzoNewWriter` have no callers.
* Of xz, the filters and sizes in a block's header and the fields of the index
  (a unit is valid or not), and the range coder within LZMA2 chunks: there
  operations are decoded as they were meant, and `LzmaStream` has the coder.
* Of zstd, the hash chains of levels from 4 on (the writer uses 3), tables that
  a block describes itself (zstd_decompress.go:768-897), compressed Huffman
  weights (731-766), four streams of literals (682-718), dictionaries, skippable
  frames, and damage inside a block. A frame may be cut anywhere.
* In `PredTables`, memory that shows writes out of order and slice headers that
  are read half written. One table stands for the three.
* `maxOut` of `decompress`: `FileExtract` has blocks that are too long.
* In `ExtractTree`, what links lead to, and a file system that fails or is not empty at
  first. Names with `..` are among those that are rejected, and outside `WellFormed`.
  With inode number 0 nothing but the depth stops the walk: `Terminates` holds, after
  exponentially many calls.
* Extended attributes: written, but no inode refers to them and the reader does
  not read them.
* Modes, owners, times, devices' numbers: copied, never decided upon.
* Extended inodes in the reader: the writer makes none.
* `OpenFile`/`Close`, `ListRoot`, `Detect`, `String`: wrappers.
* `CreateWithMksquashfs`, `cmd/test`: no logic of their own.
* In `DirTree`, an offset that leads into the middle of an inode yields no
  inode; the code would parse whatever is there. Only states in which the tables
  do not fit have such offsets, and there nothing but a violation is claimed.

## Plan

In this order:

1. Done: `DataPacker` with its refinement and proofs, `FileExtract`,
   `ExtractTree` with its refinement, `DirTree`, `ImageTables`, and `BlockCodec`
   with `Lz4Block`, `LzoBlock`, `XzStream`, `LzmaStream`, `ZstdFrame` and
   `PredTables`. That packing and reading compose is `PackerArchive`: its mapping
   reads each file back as `extractFileToPath` does.
2. Done: the safety properties of `DataPacker`, `PackerArchive`, `DirTree`,
   `ImageTables`, `ExtractTree` and `FileExtract`, proved for all constants.
3. Done: lz4, xz, LZMA, short data of lzo, and `RacersStayInRange`, in
   `BlockCodec_proofs` and the modules it uses.
4. `Xattrs`: which pairs an id entry leads to.
