# TLA+ models of nsis-rs

`nsis` is a Rust library that reads installers made with the Nullsoft Scriptable
Install System: it finds the installer's header in an executable, decompresses
it, and gives typed access to sections, entries (instructions), strings, files
and the control flow of the script. It is a parser: nearly all of it is
sequential, pure and total on arbitrary bytes. What can go wrong is in the
algorithms that work over many steps (a graph search, a run-length stage under a
limit, mutually recursive strings, the replay of a directory over instructions),
in numbers that mean different things in different versions of the format, and,
in one place, in threads that share a parsed installer.

All paths below are relative to the crate (`src/` is its source directory).

## 1. Inventory

| Component | State | Operations | Hard parts | What makes it correct |
|---|---|---|---|---|
| Script analysis, `installer/script.rs` | roots, leaders, pending edges, blocks, the worklist of one function's search, the list of functions | `analyze` and what it calls | cyclic graphs, labels shared by functions, dead code, three encodings of a target in one operand | each function is exactly the region of its entry, every root is in a function, blocks and edges agree, it ends |
| Analysis cache, `installer/nsisinstaller.rs` | a `OnceLock` | `script_analysis` | threads that race | one analysis, decided once, returned to everyone |
| Parse pipeline, `installer/nsisinstaller.rs`, `addressmap.rs` | none beyond the result | `parse_with_budget`: overlay, header scan, decoding, layout, encoding, version, sub-release, log build, variable layout | each step guesses from evidence that may be absent, and later steps rest on it; offsets relative to different starts | the header found is the installer's own; whatever wrote the file, every table, string and number reads back as it was compiled |
| Instruction iterators and views, `installer/analysis.rs` | position, current and saved output directory | `next`, `set_out_path`, `save_out_path`, the typed views of an instruction | stale directory, order of save and restore; operand slots that moved between versions | a file's directory is the one the runtime would use; a view reads an operand as what the opcode table declares it to be |
| File extraction, `installer/files.rs` | none | `data`, `decompress`, bounds | length prefixes, solid streams cut by the budget | an answer lies within the data block or is an error |
| Decompression, `decompress/` | output so far, budget | method detection, header and block decoding | exact limits, fallbacks that hide errors, the optional solid prefix | never more than the budget; truncation reported exactly when output was cut |
| bzip2, `decompress/bzip2.rs` | bit position, lists of recent bytes, run-length state, output | block decoding under two layouts, run expansion | nothing says which layout a stream has; runs over block boundaries and at the limit | output is what was packed, cut at the limit, or an error that says why |
| String tables, `strings/` | position, literal, segments; path and expansion budget | encoding detection, one decoder per encoding, `to_path`, `read_lang`, `resolve_lang` | nothing records the encoding; references that form cycles; a path put together from several segments | a string reads back as it was written; a path stays below its directory; expansion ends within its limits |
| Opcode numbering, `opcode/mod.rs`, `version.rs` | none | normalisation of raw numbers, detection of version, sub-release and log build | inserted opcodes shift the rest | injective on valid numbers; a build is never taken for one with more instructions |
| Opcode tables, `opcode/info.rs`, `v1.rs`, `semantics.rs` | none | `lookup_for`, `param_layout`, effects | one instruction has several forms, and a version its own slots | analysis, views and tables agree on every operand |
| Headers, `header/` | scan position | scan for the first header, two layouts | alignment order, block offsets out of order, a layout mistaken for the other | an intact header is accepted under its own layout, a damaged one is refused or misread in one table only |
| Structure views, `nsis/` | iterator position | strided reads | stride smaller than the structure | an item per stride or an error |
| Callbacks, `installer/callback.rs` | none | lookup by slot | a slot the header has no field for | an entry index or none |
| Errors, byte helpers | none | little-endian reads, zero where bytes are missing | none | data |

`parse_with_budget` calls the overlay detection, the header scan, the
decompressors, the header layouts and the detections of encoding, version and
build in this order; the resulting `NsisInstaller` is immutable but for the
`OnceLock` and hands out views. `script_analysis` walks entries, sections,
callbacks and pages of the installer and calls `analyze`. Nothing is written to
disk, nothing is retried and no timers run.

## 2. Modules

| Module | Models |
|---|---|
| `ScriptFlow` | `classify_opcode`, `ControlFlowTarget::resolve`, `add_branch`, `add_fallthrough`: how one instruction passes control on. Operators only. |
| `ScriptAnalysis` | `analyze` with everything it calls, as a state machine: `CollectRoots`, one `ClassifyEntry` per entry, `EndScan`, `BuildBlocks`, then the two loops of `build_functions` (`StartFunction`; `BeginLabels`, `SkipCoveredLabel`, `StartOrphanLabel`), with `reachable_blocks` as one `SearchBlock` per block and `PushFunction` at its end, then `assign_block_functions`. `Fail` is the error of a structure that does not parse. |
| `FunctionRegions` | The abstract specification: functions are regions (the least sets closed under flow), published in order, labels only when nothing holds them. |
| `AnalysisCache` | `script_analysis` under concurrent calls: `get`, `analyze`, `get_or_init` with its one writer and its waiters. |
| `AnalysisMemo` | The abstract specification of the cache: a value decided once and given to every caller. |
| `Bzip2Block` | What `decompress_block` does before it writes anything: bit reader, origin, map of bytes, selectors, Huffman tables, symbols, move-to-front with its sixteen sub-lists, inverse BWT. Operators only. |
| `Bzip2Rle` | The block loop of the decoder and the run-length stage of `decompress_block`, which writes the output under a limit. |
| `Bzip2Stream` | `decompress_bzip2`: both together on the bits of a stream, first under the layout of NSIS 2 and 3, after any error under that of NSIS 1. |
| `Bzip2Writer` | External: how makensis packs a stream, the reference for `Bzip2Stream`. |
| `LangExpand` | `read_lang` and `resolve_lang` with the recursion of `expand_lang`, as an explicit call stack under its two limits. |
| `InstructionReplay` | `InstructionIter` with `set_out_path`, `save_out_path`, `out_dir_for`, and `ExtractedFile::dest_path`; beside them, as history variables, the directory a run of the same entries has. |
| `BlockDecode` | `decompress_block` under its limits, for lzma, deflate and bzip2, `detect_compression`, `read_length_prefix`. Operators only; what a codec makes of its input is given. |
| `ArchiveFiles` | `decompress_header` attempt by attempt, the data-block step of `parse_with_budget`, `ExtractedFile::decompress` and `Uninstaller::decompress`. |
| `InstallerParse` | `NsisInstaller::parse` down to the tables: `PeOverlay::from_goblin`, `scan_for_first_header`, `CommonHeader` or `V1Header`, the section stride, callbacks, flags, and the iterators over pages, sections, entries, language tables and a section's entries. |
| `HeaderWriter` | External: how makensis lays out a header block, the reference for `InstallerParse`. |
| `EntryReading` | How the entry block is read: detection of Park release, log build and NSIS 2 variable layout, then `EntryIter` and what every reader makes of an entry. Composes the numbering, the tables, `ScriptFlow` and the views. |
| `OpcodeNumbering` | `normalize_park_opcode`, `normalize_log_opcode`, and beside them what each compiler stores. |
| `InstructionEffects`, `OpcodeTable`, `OpcodeLegacy` | `semantics.rs`, `info.rs` and `v1.rs`: effects, the rows of both opcode tables, `param_layout` with the forms an instruction takes, NSIS 1.x numbers in the canonical numbering. |
| `InstructionViews` | Which typed view an instruction gets and the slots its accessors read. |
| `StringCodecs` | `detect_encoding`, `detect_ansi_nsis3`, the four readers as one loop over five dialects, variable names of every layout, `shell_target`, and `to_path`. |
| `ExtractionPath` | `sanitize_extraction_path`, and what it means that a path stays below its directory. Operators only. |
| `StringWriter` | External: how each compiler writes a string table, the reference for `StringCodecs`. |
| `MC...` (one per state machine) | The small instances TLC checks. |
| `ScriptAnalysisProofs`, `AnalysisCacheProofs`, `ArchiveFilesProofs`, `InstallerParseProofs`, `Bzip2RleProofs`, `StringTableProofs`, `InstructionReplayProofs`, `EntryReadingProofs` | Theorems and proofs. |

The three external modules share nothing with the code they are compared with:
they go from what was compiled to bytes, the models of the code from bytes to
what it reads.

How they compose: `InstallerParse` finds header and tables, given a decoded
header block; `ArchiveFiles` decodes it and the files behind it, and uses of a
codec only what `Bzip2Stream` promises of one; `EntryReading` makes instructions
of the entries; `ScriptAnalysis` and `InstructionReplay` take those, and
`AnalysisCache` publishes the former's result; `StringCodecs` reads the strings
that operands name, `LangExpand` puts together those that name others.

Operators and actions with a comment "Mutant" are variants that
no specification uses: each is a bug the code could have, and the property it
is paired with in `PROJECT.json` fails when it replaces the real definition.

### How ScriptAnalysis corresponds to the code

`script` is the installer as `analyze` sees it: the canonical opcode and the six
operands of each entry, the raw operands naming roots, and whether everything
parses. The variables `roots`, `leaders`, `pending`, `diagnostics`, `blockOf`,
`edges`, `functions` are the locals of `analyze` of the same names (`blockOf` is
`entry_to_block`); `todo`, `entering`, `seen`, `frontier` are those of
`build_functions`, `push_function` and `reachable_blocks`; `owner` is
`BasicBlock::function`.

Abstractions, and why they lose nothing the properties speak of:

* A block is named by its first entry. The code numbers leaders in ascending
  order, so ids and first entries are in an order-preserving bijection.
* Vectors whose order nothing reads (roots, edges, diagnostics) are sets.
* The queue of `reachable_blocks` is the set `frontier`, so the model takes
  blocks in every order, the code's order among them. What it returns is sorted.
* All opcodes without control flow are one, `OTHER`. The condition of a branch
  is determined by opcode and operand slot.
* Names, a function's `end` and its list of root ids are left out.
* The code does not follow a call edge to its target. Nothing depends on that
  filter: the target of a call is a function entry, where the search stops
  anyway, and the run `ScriptAnalysis` passes without it.
* `push_function` and the label loop skip an entry no block holds. No action
  models that: every root is a leader when the blocks are built, and
  `StepFoundation` proves that every entry then has a block.

### How the bzip2 modules correspond to the code

`Bzip2Block` reads a stream block by block into the bytes of each block, as they
leave the inverse BWT, and what follows the last one (the end marker, nothing, a
byte that is no header, a block that does not decode). Those stages write no
output and either yield a block or fail, so they are operators; `Bzip2Stream` is
initialised with what they make of the bits under either layout, because
`Bzip2Rle` looks at a block, or at damage, only when it gets there.
`nblock_used`, `k0_pending`, `state_out_ch`, `state_out_len` are the locals of
`decompress_block`; `k0` is the byte last fetched, so byte `nblock_used` of the
block while it is pending. One action is one turn of the loop. The reference,
`Unpacked`, reads a block a byte at a time: after four equal bytes the next one
is a repeat count. Move-to-front keeps the code's array of 16 sub-lists that
slide down and are put together again when the first reaches the bottom; the
array is a constant, so that this happens on small blocks. Left out: runs of 32
and more digits, which only a damaged stream has, and whose arithmetic wraps.

### How InstallerParse corresponds to the code

A file is an executable (length, sections, what its bytes look like where a
first header could be), the program that was compiled into it, and damage to one
descriptor of the block table. `header` is the header block, as words at byte
offsets; a read past the end is zero, and bytes that are no word `HeaderWriter`
puts there are `Noise`. `pc` follows `parse`: `Locate` (the overlay), `Scan`,
`ParseHeader` (the common header, or else the 1.x header), `MeasureSections`.
Then any iterator may be opened, and read to its end, in any order. `blocks`,
`langtable_size`, `callbacks`, `header_strings` are what the parsed header
answers. Parsing the executable is the goblin crate's; decompression is
`ArchiveFiles`'. The assumption `FilesAssumption` names what files the
properties speak of: a section claims bytes of the stub, or more than the file
has; the text before a header may look like one only out of alignment.
`ProgramsAssumption` names what was compiled: tables of items with their fields,
the code of each section within the entries, and a header that reaches every field
the script uses. Of a file of NSIS 1.x it says that its pointers, read as a block
table, do not make one: `parse` has nothing else to tell the generations by.
Damage is to one field of any descriptor but that of the data, in a file of NSIS 2
or 3, with or without a background font. `FontOffset` is what such a header says of
where the font lies: the word 1.x counts its entries in.

### How EntryReading corresponds to the code

The build (compiler, sub-release, variable layout, log instructions) is hidden
from the code: it sees the numbers the build gave its instructions and, unless the stub
was altered, the literals in the stub (`RuntimeFeatures`). The phases are steps
5c, 5d and 5e of `parse`, then the entries one at a time. A string is a sequence
of variable indices and literals, as far as the detections look at it. `Evident`
says when a file shows its build at all: an altered stub and no entry that tells
leave it undetermined, and no reader can do better. What is read is then put
through everything that reads an entry: `param_layout` of its row,
`classify_opcode` of `ScriptFlow`, and the slots of `InstructionViews`.

### How StringCodecs corresponds to the code

A file is a string table with other blocks before and behind it, as bytes. The
four readers are one loop, whose actions are the branches a character can take;
`Dialect` selects size, codes and what ends a string early. `Evident` says when a
table shows its encoding: the first mark in it is its own compiler's. A rendered
path is a sequence of characters in which the name of a reference is one symbol.
The specification is `ReadSpec`, so that one module of proofs can extend both
machines of the string tables.

### How LangExpand corresponds to the code

A string is the segments `read` yields, and a table maps some indices to what
`read` makes of the offset stored there: a string or an error. A negative offset
is an indirection to another language string, that is, a string of one
reference. A frame of the variable `stack` is an activation of `expand_lang`:
the segments its loop has still to visit and the index it expands; the `path`
argument is the indices of the frames. `budget` is the counter passed by
reference. The comparison, `Meaning`, is the text as a recursive function of path
and string: a reference stays in place when the table does not have it, when it
is on the path or when the path is at the depth limit; it knows nothing of the
expansion budget.

### How InstructionReplay corresponds to the code

An entry is the operands the replay reads, a string the sequence of its
segments, a segment what the code tells apart at the head of a path: the four
rooted variables, `$OUTDIR`, `$_OUTDIR`, literals with a drive or share, other
literals, shell folders, other variables, language strings. Separators are
layout. `run_dir` and `run_saved` are history variables: what the installer's
own rule, `SetOutPath` and `StrCpy` executed in order, makes of the same entries.
They become unknown (`None`) where the entries do not determine the value: an
operand that cannot be read, a reference past the head of a path, an assignment
to `$_OUTDIR` that is not a copy of the whole of `$OUTDIR`. The properties are
about straight-line scripts, which is what an iterator over entries can follow.

### How ArchiveFiles corresponds to the code

An archive is what was built (framing, method, header, items, stub, flags)
together with the bytes that came of it, which may be cut short; the code sees
only the bytes, the properties compare with what was built. `after_fh` is the
file behind the first header; offsets count from there. A codec is external: it
is the set `streams`, each with the bytes it consumes, what it yields and whether
it then is at its end, out of input or at damage; bytes that begin with no stream
of the method are damage at once. Where the result of a decode depends on the
codec's inner buffers (damage right behind a full buffer, bzip2's flag at the
limit), `decompress_block` is any of a set of outcomes.

`pc` is the place in the two functions: the length prefix, the non-solid
attempts, the solid attempts, the data block, and then access to items in any
order. `attempts` holds the methods the two loops still have to try. `consumed`,
`mode` and `compression` are the tuple `decompress_header` returns.
`validate_data_bounds` makes the tests of `ExtractedFile::decompress`, so one
action, `ExtractFile`, stands for yielding and decompressing. Left out: the
second bzip2 layout that is tried when the first fails (it is in `Bzip2Stream`),
and the cap on the lzma dictionary, which only bounds memory.

## 3. Runs

| Run | Instance | Shows |
|---|---|---|
| `ScriptAnalysis` | scripts of 0, 1 and 3 entries over 31 instructions (five in the third place): every opcode with control flow, operands absent, in range, one past the end, a variable, negative beyond 16 bits; root operands -1, 1 and 3. Scripts of three entries over 13 instructions with every jump and branch target, of four entries over ten of them, with and without a section; one that does not parse | `TypeOK`, `ControlNeverVanishes`, `UnownedIsUnreferenced`, `NoFunctionEntersAnother`, `EveryRootIsHeld`, `FunctionOwnsItsEntry`, `ImplementsRegions`, `Termination` |
| `AnalysisCache` | three callers, an installer that parses or not, at most two analyses per caller | `TypeOK`, `AnalysedOnce`, `ImplementsMemo`, `EveryCallReturns` |
| `Bzip2Stream` | the bits of all blocks of up to six bytes over {0, 2}, all pairs of a block of up to five and one of one byte, and blocks of 18 to 24 bytes of 19 values; every tail, both layouts; `Exact`, `Truncate` and `Capped` limits of 0 to 8 and 100 | `TypeOK`, `StreamReadsAsWritten`, `NothingIsMissing`, `ResultFitsTheLimit`, `CapRefusesExcess`, `DamageBehindTheLimitIsIgnored`, `CallReturns` |
| `LangExpand` | tables of three strings of up to two segments that refer to each other, to themselves, to an absent string, and readings that fail; depth limit 2, four expansions | `TypeOK`, `NoStringInsideItself`, `MeansWhatItSays`, `ResultStillMeansTheString`, `OutputIsBounded` |
| `InstructionReplay` | all sequences of five entries over every kind of target, source and name | `FollowsTheRun`, `FilesGoWhereTheyAreWritten` |
| `ArchiveFiles` | two files and an uninstaller behind a header, framed as stored, non-solid and solid, by each method, packed or not, of version 1 or later, with a checksum or not; cut at every kind of place, damaged after any part of the output; bytes that another codec or another framing reads as well, before the right one or behind it; budgets of 0 to 31 bytes | `HeaderIsFound`, `SoundArchivesOpen`, `FilesAreIntact`, `OnlyTheBudgetWithholds`, `UninstallerIsRebuilt` |
| `EntryReading` | 11 builds: NSIS 2 with three variable layouts and NSIS 3, each with and without the log, and the three Park releases; every instruction of each in every form of its operands, alone, and all pairs of those the detection looks at; the stub readable or not; a count one past the entries | `EntriesReadAsWritten`, `BuildIsNotOverstated`, `FlowFollowsTheLayout`, `ViewsReadTheirSlots` |
| `InstallerParse` | 2 and 3: up to two pages, sections, language tables, with and without inline names, colours, fonts, offsets of empty blocks zero or not; headers without their last fields; 1.x installers and uninstallers; each descriptor, with and without a font, damaged to negative, zero, small, inner and outer values; executables whose sections end at the stub, before it or past the file, lookalikes before the header and installers behind it, aligned or not; one for 64 bits | `HeaderIsFound`, `FileReadsAsWritten`, `DamageStaysInItsTable` |
| `StringCodecs` | five compilers, three variable layouts; strings of one or two parts (text that is a code elsewhere, every kind of reference), alone or behind a string that begins with a variable; all paths of up to four separators and dots, and of three behind a variable; a drive at the head, behind a separator, a name, a vanished variable or another drive; tables cut inside a code | `StringsReadAsWritten`, `PathsStayBelow` |
| `LegacyFlow` | NSIS 1.x entries in the same machine | a documented statement the code does not keep (section 5) |
| `MisreadVersion` | NSIS 2 tables with a language table behind them | a documented statement the code does not keep (section 5) |
| `MultiString` | NSIS 3 files that write a `REG_MULTI_SZ` value | a documented statement the code does not keep (section 5) |

Bounds. A disagreement about functions needs at most a function entered from
outside, a second one or a label it could run into, and a third position that
jumps between them: four entries hold two functions, a shared label and dead
code at once (`FunctionOwnsItsEntry` needs exactly that to fail under its
mutant). Operand forms only matter relative to the number of entries, so one, a
few and one past the end cover them. Three threads give a writer, a waiter and a
late caller. A repeat needs four equal bytes and a count, so six bytes hold a
run, its count and a neighbour on either side, two blocks a run that continues
over the boundary (it does not: every block starts anew), and eight a limit on
every byte of the output. Three strings give cycles of every length up to three
and chains longer than the depth limit; four expansions run out within them.
Five entries save, change, restore, change relative to both and extract. An
archive needs two files, so that one begins behind the data of another, and two
frames back to back for the uninstaller; the largest solid stream is 30 bytes, so
budgets of 0 to 31 end before, in and behind everything. Second readings of its
bytes (a second codec's, or a length that fits) come on either side of the right one,
so that some mislead and some do not.
The blocks of 18 to 24 bytes are wide enough to use the second move-to-front list
and, with the array cut to 258 places (256 bytes and room for two moves), to
put the lists together again; a group of four symbols instead of fifty makes
short blocks change tables. Every detection of `EntryReading` looks for one
entry, so pairs hold one that tells and one that misleads. One damaged
descriptor is enough: the tables are read independently, and two can agree on a
wrong layout that no check can tell from a right one. Paths of four characters
over a dot and both separators hold every component the sanitiser must change, and its
neighbour; five hold a drive that is dropped, what separates it and one that is not.
What the bounds leave open for the safety properties the theorems
close.

Fairness. `analyze` is one call on one thread: `WF_vars(Next)` says the call
keeps running. In `AnalysisCache` each thread inside a call has weak fairness of
its own (`WF_vars(Step(c))`), the scheduler's guarantee; nobody is obliged to
call. `decompress_bzip2` is one call too (`WF_streamVars(StreamNext)`, for
`CallReturns`). `InstructionReplay`, `ArchiveFiles`, `EntryReading`,
`InstallerParse` and `StringCodecs` claim no liveness: a caller may stop asking.
`OnceLock` wakes its waiters, so `Take` needs no more than that.

Deadlock is checked in every run: a finished analysis and a system without
calls, an iterator at its end, an archive or installer that could not be opened, a call that
has returned are explicit stuttering steps (`Finished`, `Quiet`, `Exhausted`,
`Failure`, `Stop`, `Done`, `Idle`), so a run also shows that no input leaves a
reader without a branch to take.

## 4. Proofs

All theorems hold for every value of the constants that the named assumptions
admit; TLC evaluates the assumptions on every run.

`ScriptAnalysisProofs`, from `ScriptsAssumption` (a script is what `IsScript`
says): `TypeCorrect`. `TypeOK` is not inductive. `Unbuilt` adds that nothing
speaks of blocks before they exist; `Leading` adds that the scan has made a
leader of every entry up to the one it is at. The latter rests on the lemma
`NextEntryLeads`: an instruction that does not end its block falls through, and
the target of a fallthrough is a leader too. With every entry a leader
`build_blocks` is the identity (`BuildTypes`), and edges, search sets and
functions name existing blocks. `LeastPosition` (from the well-foundedness of
the naturals) gives the first function that holds a block. `ControlIsKept` needs
of an instruction only that what it does not end or branch away falls through.

On that foundation `SearchImplementsRegions` proves the refinement of
`FunctionRegions`, and `FunctionsStopAtEntries`, `RootsAreHeld`,
`EntriesAreOwned` the other three invariants of the run `ScriptAnalysis`. The inductive
invariant `RegionInv` has four parts: `Searching` (blocks already searched lead
only to blocks seen, and every closed set contains what was seen, so that at the
end the two meet in the least closed set), `Listed` (published functions are
closed, disjoint from other entries, and entered where no earlier one is),
`FirstPass` and `SecondPass` (what each loop still owes). `Owned` ties the final
owners to the list. `DeadCodeIsUnnamed` adds `Rooted`: a target that is not
merely fallen into was made a root when its source was scanned, so it is in a
function when both passes are over. `EveryStepCountsDown` says why the analysis
ends: each step lowers the first that it changes of six ranks (phases left, entries
to scan, entries whose functions are still to be built, whether one is being built,
entries its search has not seen, its frontier).

`AnalysisCacheProofs`: `TypeCorrect`, `OneAnalysisEach` and
`CacheImplementsMemo`, from the assumptions that `Nobody` is no caller and
`Empty` no analysis. `Spent` is the strengthening that makes the count
inductive: a caller that has analysed still holds its copy or the cell is
filled.

`ArchiveFilesProofs`, five theorems, one for each property of the run:
`HeadersAreFound`, `SoundArchivesAlwaysOpen`, `ExtractedFilesAreIntact`,
`SoundFilesAreExtracted`, `UninstallersAreRebuilt`. They rest on
`ArchivesAssumption`. `IsBuilt` there says how an archive is written and no
more: header and items are frames with their contents (`FrameHolds`), what is
packed is packed by one method, only a packed header is followed by packed items,
and a codec is a function of the bytes it is fed (`StreamsAgree`). Archives may be cut
and solid streams damaged at any place, and any codec may make something of any bytes.
Nothing in a file names its framing or method, so what the theorems say has a premise,
`~Misleads`. An archive misleads when it is not stored and begins like a stored frame
that fits, or when a trial of another framing or method may succeed and the right one
does not both succeed and come before it, in the order the code documents
(`IsTriedBefore`). Trials that fail, and trials that would succeed behind the right one,
do no harm. The inductive invariant `Reads` has a part per
stage: `TriesFrame` and `TriesStream` (the attempts left are in the order of their
ranks, and the method of the archive is among them where its header can be decoded at
all; a success of any other would be a rival of the right one, lemma `Rivals`), `FailsUnsound`, `OpensFrame` and `OpensStream` (an open
archive has its own framing, method and header), `ReadsStream` (the solid stream
is a beginning of the one packed, as far as damage, end of file and budget let
it) and `Answers` (an answer is what its item holds, or the error of what is
missing).

`InstallerParseProofs`: `OwnHeaderIsFound`, from `FilesAssumption` and
`OwnHeaderAssumption`: sections end at the stub or claim more than the file has;
the installer's own header is behind the stub, and what looks like one before it
is out of alignment. The overlay begins where the section that ends last does
(`OverlayIsLocated`), and of the aligned candidates behind it the own header is
the least (`OwnHeaderIsScanned`).
`EveryFileReadsAsWritten` and `DamageIsContained` add `ProgramsAssumption` and hold
for programs of any number of items, with names and language tables of any size.
The writer is taken apart first: words and rows are where the layout says and do
not overlap (`WordsAt`, `LaidAt`), so the block holds each table at its start and
each field in the header (`ModernBlockIs`, `LegacyBlockIs`), and damage leaves all
of it but one descriptor (`ModernFileIs`). Then the reader: an undamaged header fits
its own layout (`ModernFits`, `LegacyFits`), a damaged one is only taken for one of
1.x where so many entries fit as the offset of its font would count
(`ModernAsV1`, `Mistaken`), and otherwise every place an
iterator gets to in a sound table parses as the item compiled for it (`TablesLie`,
from a lemma per table; the one on sections shows that the gap to the entries,
shared out, is the size they were written with). The inductive invariant is
`FileWritten`, `HeaderParsed` and `ItemsTaken`: what the file is, what the
parse has made of it so far, and that an iterator which handed out `n` items stands
at `n` strides from its base with the rest to come, over a table or over the code of
a section. The entries of a section are counted with the library's cardinality of an
interval (`EntriesContained`).

`Bzip2RleProofs`, from `StreamsAssumption` and `LimitsAssumption` (streams and
limits have their types): `TypeCorrect`, which holds the bound that matters, that
no emission passes the ceiling however long a run is, `LimitIsKept`, which
needs `CapKept` (a result that is not refused has not passed its cap), and three
about content: `OutputIsWhatTheBlocksSay`, `CapIsExact` and
`LaterDamageIsNotRead`. For these the invariant `Inv` relates the state of the
run-length stage to the reference in every phase: `AtHeader` (between blocks the
output is all the blocks before say), `InBlock` (output, the pending run and the
byte last fetched are together what the block says up to `nblock_used`; this
is where a run of four and its count, one byte ahead, are told apart),
`AfterBlock` and `AtEnd` (the output is all the blocks say so far, or as much of
it as fills the limit). `EveryTurnCountsDown` says why decoding ends: each turn
lowers the first of five numbers that it changes (still going, blocks left, stage
of the block, bytes of it left, copies of the run left).

`StringTableProofs`, from the types of tables, calls and indices (16 bits) and a
positive depth limit: `TypeCorrect` (the stack is never deeper than the limit, the
budget never negative) and `NeverInsideItself`, by a common induction, because the
frames' indices are distinct only as long as the path test sees all of them;
`OutputStaysBounded`, whose invariant `Spent` adds up what all frames may still
put out; and that the loop over frames computes the recursive definition:
`OutputIsTheMeaning` and `NothingIsLost`. `MeaningRight` shows first that the
definition of `Meaning` has a solution and only one: paths get longer until the
depth limit, and strings shorter. The invariant `Faithful` then says that what is
out, followed by what each frame has still to say inside its own path, is what
the string means, errors included, as long as expansions are left. When none
are left, references go out unexpanded; `Settled` says the same of the output
read once more. It rests on `WeakerMeansTheSame`: a string whose meaning inside
a path has no reference left means the same inside every path with fewer.
`EveryStepCountsDown` says why a call ends: each step lowers the first of four
numbers that it changes (stage, expansions left, frames, segments ahead in the top
one). The second half is about paths. `SanitizedPathsStayBelow`, for every text and
from no assumption at all: the split leaves no separator in a component
(`SplitType`), and a component that is appended is none of "", "." and ".." and
leaves those before it as they are (`OneMoreComponent`). Where the drives of the text
can be told (`DrivesAreTold`: each is the whole first component, or has a name
before it) the path does not begin with one: it is empty only while every component
was skipped (`NameIsKept`), and a drive that may then come to its head is dropped
(`NoDriveLeads`). Section 5 says what the code does of other texts.
`ReadPathsStayBelow`, for
every file of `FilesAssumption` (what each compiler can write, numbers that fit
their bytes): the table is then bytes (`HeaderType`), and the invariant
`ReaderTypes` says that whatever the reader has put together from them, in the
encoding it was taken to be, evident or not, is segments that render to text.

`InstructionReplayProofs`, from `InstructionsAssumption` and `EntriesAssumption`:
`DirectoryFollowsTheRun` and `FilesAreReportedWhereWritten`. `FollowsTheRun` alone
is not inductive: a restore brings back the saved directory. `SavedFollows` says
that it agrees with the run's too and begins with no reference; `PairedNow` says
that a yielded file holds the directory now in effect.

`EntryReadingProofs`. First, about the operators alone: `LogNumbersAreUndone`,
`ParkNumbersAreUndone` and the corollary `ParkNumbersDiffer`. A translation that
gives back what each compiler stored cannot merge two instructions; the proof
splits the numbers at the places where a release inserts one. Then, about the
parse: `NothingIsReadIntoABuild` and `EntriesAreUnderstood`, for any table of
strings and any code that satisfies `ReleasesAssumption` and
`InstructionsAssumption`. These say what the code's comments take for granted of
a compiler: it stores only instructions it has (`IsItsOwn`), each with the
operands its row declares; `WriteUninstaller` and nothing else is stored with its
full path beside its name (`NamesItsPath`); no compiler from 2.26 on uses the
indices of `$EXEPATH` and `$HWNDPARENT` the way older ones used those of
`$HWNDPARENT` and `$_OUTDIR` (`UsesItsVariables`), and that one is all the variable
layout rests on. The invariant `Inv` holds in each phase what has been found out:
never more than the build has, and exactly the build where the file is `Evident`.
The release follows because every uninstaller stands at the same distance from its
canonical number (`UninstallersTell`); the log build because a plain file fits the
plain layout (`PlainFits`), a log file the other (`LoggingFits`), and each entry that
tells has more operands than the row it would land on, for which two rows of the
opcode table are looked up (`TellingRows`).

Then, about what is made of an entry, for every operand: `FlowIsOfTheLayout` and
`ViewsAreOfTheLayout`. The control flow the analysis follows is that of the
instruction's own row in the form its operands give it, and each view reads a slot
for what that row declares it to be. Two definitions that share no text are compared,
the table of the opcodes and the slots the readers have built in. The table's rows
are proved in bulk, a piece of the table at a time (`Rows`), the forms as the arms of
`param_layout` they come from (`Arms`, `PlainForms`), and both meet in
`JumpsOfLayout` and `EffectsOfLayout`. The inductive invariant `ItemResolved` says
that the entry last yielded is one all readers resolve to the same instruction.
The premise `build.version # "V1"` is needed: the run `LegacyFlow` shows what NSIS 1.x
does to the first. `ViewsReadTheirSlots` leaves out the data of a `REG_MULTI_SZ`,
which the proof did not admit and the run `MultiString` shows.

Induction. The library's induction theorems take a predicate as a parameter and
cannot be instantiated here. Where a recursive function has to be unfolded
(`Meaning`, `Unpacked`, `Joined`, the split of a path), the proofs use induction over a set of naturals
(lemma `Inductively`, from the least element of its complement): first that the
function's definition has a solution, then what it computes.

Only model-checked:

* `Termination`, `EveryCallReturns` and `CallReturns`: liveness is out of the
  prover's reach. Of `ScriptAnalysis`, `LangExpand` and one pass of `Bzip2Rle` it is
  proved that every step lowers a rank of natural numbers and finite sets in
  lexicographic order; that such a rank cannot fall for ever, and that there is a
  step to take until the call has returned, is left to TLC.
* `StreamReadsAsWritten`: `Bzip2Block` and `Bzip2Writer` are recursive operators,
  which the prover cannot unfold. They are used by `Bzip2Stream` alone, so the
  theorems about `Bzip2Rle` reach neither.
* `StringsReadAsWritten` of `StringCodecs`: it compares a reader with a writer
  whose string table is folded by recursive functions of the community modules.
  It is not a property of every table either: bytes behind an NSIS 2 table can look
  like an NSIS 3 variable (run `MisreadVersion`), so a theorem would have to assume
  that the detection has named the compiler. The files of the run are such tables.

## 5. What the code does that its documentation does not say

Shown by a run:

* An NSIS 1.x instruction that moved its operands is followed at the slots of
  NSIS 2 (`script.rs:602`; run `LegacyFlow`): `normalize_opcode` translates the
  number alone, and the jump of a 1.x `MESSAGEBOX` is lost.
* The version is detected from everything behind the string block, the language tables
  included (`nsisinstaller.rs:523`; run `MisreadVersion`): a pointer in one of them
  can look like an NSIS 3 variable, and an NSIS 2 table is then read as an NSIS 3 one.
* The data of a `REG_MULTI_SZ` value is looked up in the string table
  (`analysis.rs:363`; run `MultiString`), as its comment says, while `param_layout`
  has it in the data block ("The data slot is what the value kind says it is.",
  `info.rs:329`): the offset of an item there is read as that of a string.

Seen while modelling, shown by no run. The properties leave these cases out, by
an assumption or a premise that names them.

* Script analysis. Entry zero is always a root and starts a function, not only
  "when no other root exists" (`script.rs:202`, `:434`). Every entry is a basic
  block of its own, because the target of a fallthrough is made a leader (lemma
  `BuildTypes`); the doc has blocks "split at roots, branch targets, and
  terminators" (`script.rs:25`). Jumps and fallthroughs can cross from a function
  into another: the search stops at the other's entry, and a block reached from two
  functions is owned by the first; `tests/integration.rs:445` says only calls leave
  a function, which its one fixture satisfies. `REBOOT` without its magic number
  always ends the script by its row, and falls through in the analysis.
* Overlay. A section that claims more bytes than it has is skipped only when
  the claim passes the end of the file (`addressmap.rs:95`). Park's `.reloc` claims
  4096 bytes at the end of the stub; behind a stub with more data than that the
  overlay begins in the middle of the installer's data.
* Header. An own header out of alignment loses to an aligned one it carries
  (`header/mod.rs:52`). Any modern header `CommonHeader::parse` refuses is tried as one
  of 1.x (`nsisinstaller.rs:453`). The comment at `v1header.rs:174` says "A 2.x header
  read this way fails here: its block descriptors sit where these counts do and are far
  too large". That of the background font does, and it is not large where the script
  has no font and the compiler wrote 0 for its offset, or where it is that offset
  that is damaged: a pages offset past the header then makes `parse` return an empty 1.x
  installer in place of the error. `DamageStaysInItsTable` has it as the only case.
  Damage to the offset of the entries
  changes the section stride. `section_entries` is bounded by the header, not by
  the entry table. The callbacks 7 and 8 of a 1.x uninstaller read as entry 0
  (`v1header.rs:323`), though the comment above has them for installers only.
* Archive. A solid stream whose first four bytes happen to be a length that
  fits is taken for a stored header (`decompress/mod.rs:267`): one of lzma with a
  dictionary of 16 MB begins with `5D 00 00 00`, the length 93. A method tried earlier
  that makes any bytes of the packed ones is taken for the right one
  (`decompress/mod.rs:315`), and its result is not compared with the header's length.
  Both are what `Misleads` says. The files of an
  installer whose header is stored are never decompressed, even where their own
  prefix says so (`files.rs:262`). A solid result too short for its prefix ends the
  attempts (`decompress/mod.rs:345`); a deflated header that is cut short is
  accepted as far as it goes; an uninstaller behind the end of a stream the budget
  has cut reports `TooShort` where a file reports `OutputTooLarge`.
* bzip2. The last run of the last block can lose bytes to the limit without the
  result being called truncated (`bzip2.rs:779`); a repeat that fills the limit exactly
  and ends its block is called truncated though complete (`bzip2.rs:702`). That this is
  all is part of `StreamReadsAsWritten`: a result called truncated fills its limit, and
  one that is not lacks at most three bytes. An NSIS 1.x
  stream that passes its cap reports the first layout's failure, not the
  `OutputTooLarge` its doc names (`bzip2.rs:269`, `:299`).
* Builds. An unreadable stub with a Park release that logs leaves the log unseen, and the
  instructions above `EW_SECTIONSET` misread. `normalize_opcode` says that for other versions
  the raw number is returned unchanged, which NSIS 1.x and log builds are not.
  `RegWrite::data` reads the data offset of a binary value as a string.
* Strings. Rendering a variable in a path goes by the modern numbers for NSIS 1.x
  too (`write_variable`): its `$OUTDIR` becomes `_exedir`, its `$CMDLINE` is dropped.
  The names of the last two variables of NSIS 2.03, whose list has 29, are not
  shifted. `to_path` is to remove "any leading drive letter" (`strings/mod.rs:295`, and
  `:255`, `:436`), but only does where the drive is the whole first component (`:446`):
  `\C:\x` and `$INSTDIR\C:\x`, whose first component is empty, and `C:\D:\x` give
  `C:/x`, `C:/x` and `D:/x`, and `C:x` stays, all of which Windows does not join to the
  directory. `PathsStayBelow` says of every text that no component leads out, and of all
  but these that no drive leads. An NSIS 3 ANSI table in which no string begins with a variable is read as NSIS 2.
* Replay. A file name that begins with a shell folder is joined to the output
  directory (`analysis.rs:926`). The tracked directory is not "always a full path"
  (`analysis.rs:869`): set relative to `$_OUTDIR` with nothing saved, it loses its base.

## 6. Plan

Every component that computes something is modelled, and the safety properties of
script analysis, cache, archives, bzip2 stage, language strings, paths, replay,
header and entry reading are proved.
What is left is to prove more:

1. `StringCodecs`: `StringsReadAsWritten` of a table whose compiler was recognised,
   one lemma per dialect and branch of the reader's loop, over a writer without folds.
2. `Bzip2Stream`: `StreamReadsAsWritten`, for which the block decoder's recursion would
   have to be a machine of its own.

## 7. Not modelled, and why

* Wording: opcode mnemonics in text, parameter names, error messages, `Display`
  and formatting of any kind, `to_install_path`: no state and no decision
  depends on them.
* The lzma and deflate codecs and the parsing of the executable are external crates;
  the models take what they can return.
* Control colours (`nsis/ctlcolors.rs`): a fixed-layout view that nothing hands out.
* Panics and wrapping arithmetic in the bzip2 decoder, which only damaged streams reach:
  `catch_unwind` makes a panic the same error.
* Memory: capacities, the cap on the lzma dictionary.
* Fields of views that are read and returned without a decision (dates, flags of a file,
  show states): the slots are modelled where a table declares what they hold.
