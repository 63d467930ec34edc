------------------------------ MODULE InstallerParse ------------------------------
(***************************************************************************)
(* NsisInstaller::parse down to the tables (steps 1 to 4): the overlay is  *)
(* what lies behind the sections of the executable, the first header is    *)
(* searched in it, the header block behind that is read under the layout   *)
(* of NSIS 2 and 3 or, failing that, of NSIS 1.x, and the iterators hand   *)
(* out the items of each table.                                            *)
(*                                                                         *)
(* What compressed the block is the matter of ArchiveFiles, which compiler *)
(* numbered its entries that of EntryReading.                              *)
(***************************************************************************)
EXTENDS HeaderWriter

CONSTANT
  Files        (* What may be parsed: an executable, the program that was  *)
               (* compiled into it, and damage to its block table.         *)

Align           == 512
FirstHeaderSize == 28

(* FirstHeader::parse                                                      *)
IsFirstHeader(h) ==
  /\ h.siginfo \in {"DEADBEEF", "DEADBEED"}
  /\ h.nsinst \in {"NullsoftInst", "nsisinstall"}
  /\ h.flags < 16

has_plausible_lengths(h) ==
  h.length_of_header > 0 /\ h.length_of_all_following_data >= FirstHeaderSize

(* An executable is its length, the sections its header claims (where and  *)
(* how long), where its stub ends, the places that look like a first       *)
(* header, and the installer's own.  The stub is what its sections hold;   *)
(* one whose claim goes further than that goes past the end of the file.   *)
ASSUME FilesAssumption ==
  \A f \in Files :
    /\ f.exe.stub \in Nat \ {0} /\ f.exe.len \in Nat
    /\ DOMAIN f.exe.at \subseteq 0 .. f.exe.len
    /\ \A s \in f.exe.sections :
         /\ s.pointer \in Nat /\ s.size \in Nat
         /\ s.pointer + s.size <= f.exe.stub \/ s.pointer + s.size > f.exe.len
    /\ \E s \in f.exe.sections : s.pointer + s.size = f.exe.stub

(* The installer's own header is whole and behind the stub.  Those behind  *)
(* it are of the files it carries, which may be installers too; what lies  *)
(* before it is text, and looks like a header out of alignment only.       *)
ASSUME OwnHeaderAssumption ==
  \A f \in Files :
    /\ f.exe.own \in DOMAIN f.exe.at
    /\ f.exe.own >= f.exe.stub /\ f.exe.own + FirstHeaderSize <= f.exe.len
    /\ IsFirstHeader(f.exe.at[f.exe.own]) /\ has_plausible_lengths(f.exe.at[f.exe.own])
    /\ \A o \in DOMAIN f.exe.at :
         /\ o \in f.exe.stub .. f.exe.own - 1
         /\ IsFirstHeader(f.exe.at[o]) /\ has_plausible_lengths(f.exe.at[o])
         => (o - f.exe.stub) % Align # 0

(* Reading words: a short read is zero, and bytes that are no word of the  *)
(* writer's are something else.                                            *)
Noise == -77

WordAt(h, o, end) ==
  IF o + 4 > end THEN 0 ELSE IF o \in DOMAIN h.word THEN h.word[o] ELSE Noise

(* CommonHeader::parse: what the block table at the head of a block says,  *)
(* and whether it may be one.                                              *)
BLOCKS_NUM == Len(Blocks)
COMMON_HEADER_MIN_SIZE == 4 + 8 * BLOCKS_NUM

DescribedOffset(h, k) == WordAt(h, 8 * k - 4, h.len)
DescribedCount(h, k)  == WordAt(h, 8 * k, h.len)

Written(h) ==
  {k \in 1 .. BLOCKS_NUM : Blocks[k] # "Data" /\ DescribedCount(h, k) > 0}

FitsCommonHeader(h) ==
  /\ h.len >= COMMON_HEADER_MIN_SIZE
  /\ \A k \in Written(h) : DescribedOffset(h, k) \in 0 .. h.len
  /\ \A j, k \in Written(h) : j < k => DescribedOffset(h, j) <= DescribedOffset(h, k)

HeaderStrings ==
  {"install_dir", "install_dir_auto_append", "install_reg_key", "install_reg_value",
   "install_reg_rootkey", "uninstall_child", "uninstall_command", "wininit"}

-----------------------------------------------------------------------------
(* What a compiler makes of a script: tables of items, the callbacks the   *)
(* script defines, and the strings of the header.                          *)

PageFields ==
  [dlg_id : Int, wndproc_id : Int, prefunc : Int, showfunc : Int, leavefunc : Int,
   flags : Int, caption : Int, back : Int, next : Int, clicknext : Int, cancel : Int,
   parms : [1 .. 5 -> Int]]

SectionFields ==
  [name_ptr : Int, install_types : Int, flags : Int, code : Nat, code_size : Nat,
   size_kb : Int, inline_name : Int]

EntryFields == [which : Int, offsets : [1 .. 6 -> Int]]

LangFields(count) ==
  [lang_id : Int, dlg_offset : Int, is_rtl : BOOLEAN, strings : [1 .. count -> Int]]

HasTables(p) ==
  /\ p.pages \in Seq(PageFields) /\ p.sections \in Seq(SectionFields)
  /\ p.entries \in Seq(EntryFields) /\ p.langs \in Seq(LangFields(p.lang_strings))

HasSizes(p) ==
  /\ p.name_size \in Nat /\ p.string_bytes \in Nat /\ p.lang_strings \in Nat
  /\ p.colors \in Nat /\ p.fonts \in 0 .. 1

(* The code of a section lies in the entries: at least its return.         *)
SectionsHaveCode(p) ==
  /\ \A k \in DOMAIN p.sections :
       p.sections[k].code + p.sections[k].code_size <= Len(p.entries)
  /\ p.sections # <<>> => p.entries # <<>>

IsProgram(p) ==
  /\ HasTables(p) /\ HasSizes(p) /\ SectionsHaveCode(p)
  /\ p.callbacks \in [1 .. 10 -> Nat \cup {-1}] /\ p.strings \in [HeaderStrings -> Int]
  /\ p.zero_empty \in BOOLEAN /\ p.uninstaller \in BOOLEAN /\ p.silent \in BOOLEAN

(* A name is a word and more, or is not in the section.                    *)
NamesFit(p) ==
  /\ p.name_size % 4 = 0
  /\ p.name_size = 0 => \A k \in DOMAIN p.sections : p.sections[k].inline_name = 0

(* A header without its last fields has nothing behind it, and the script  *)
(* uses none of them.                                                      *)
HeaderSuffices(p) ==
  /\ p.header_words \in 17 .. HeaderWords
  /\ p.header_words # HeaderWords => BlockStarts(p)[8] = 4 * p.header_words

CallbacksFit(p) ==
  \A k \in 1 .. 10 : 4 * p.header_words < 108 + 4 * k => p.callbacks[k] = -1

StringsFit(p) ==
  /\ 4 * p.header_words < 72 => p.strings.install_reg_rootkey = 0
  /\ 4 * p.header_words < 76 => p.strings.install_reg_key = -1
  /\ 4 * p.header_words < 80 => p.strings.install_reg_value = -1
  /\ 4 * p.header_words < 284 => p.strings.install_dir = -1
  /\ 4 * p.header_words < 288 => p.strings.install_dir_auto_append = -1
  /\ 4 * p.header_words < 292 => p.strings.uninstall_child = -1
  /\ 4 * p.header_words < 296 => p.strings.uninstall_command = -1
  /\ 4 * p.header_words < 300 => p.strings.wininit = -1

IsModern(p) ==
  /\ p.kind = "Modern" /\ IsProgram(p)
  /\ NamesFit(p) /\ HeaderSuffices(p) /\ CallbacksFit(p) /\ StringsFit(p)

(* NSIS 1.x knows sections and entries of five operands; an uninstaller is *)
(* entries only.  Its pointers do not look like a block table, which is    *)
(* all the parser has to tell it by.                                       *)
IsLegacy(p) ==
  /\ p.kind \in {"Installer", "Uninstaller"} /\ IsProgram(p)
  /\ p.pages = <<>> /\ p.langs = <<>>
  /\ p.uninstaller <=> p.kind = "Uninstaller"
  /\ p.uninstaller => p.sections = <<>> /\ \A f \in HeaderStrings : p.strings[f] = -1
  /\ \A f \in {"install_dir_auto_append", "uninstall_child", "uninstall_command", "wininit"} :
       p.strings[f] = -1
  /\ \A k \in DOMAIN p.sections :
       /\ p.sections[k].install_types \in 0 .. ReadOnlyBit - 1
       /\ p.sections[k].flags \in {0, 1, 16, 17} /\ p.sections[k].inline_name = 0
  /\ \A k \in DOMAIN p.entries : p.entries[k].offsets[6] = 0
  /\ ~FitsCommonHeader(LegacyBlock(p))

(* Damage is to one field of one descriptor; not to that of the data, which*)
(* is not in the header block.                                             *)
IsDamage(d) ==
  /\ d.block \in {Blocks[k] : k \in 1 .. 7} /\ d.field \in {"offset", "num"}
  /\ d.value \in Int

ASSUME ProgramsAssumption ==
  \A f \in Files :
    /\ IsModern(f.program) \/ IsLegacy(f.program)
    /\ f.exe.at[f.exe.own].flags = FirstFlags(f.program)
    /\ f.damage # NoDamage => f.program.kind = "Modern" /\ IsDamage(f.damage)

VARIABLES
  exe, program, damage, header,       (* The file, and its header block.   *)
  overlay_offset,     (* Where its overlay begins.                         *)
  pc,                 (* The next step of the parse, then "Read".          *)
  found,              (* Where the first header was found.                 *)
  is_v1, blocks, langtable_size, callbacks, header_strings, section_size,
  iter,               (* The iterator in use.                              *)
  item                (* What it returned last.                            *)

file   == <<exe, program, damage, header>>
parsed == <<is_v1, blocks, langtable_size, callbacks, header_strings, section_size>>
vars   == <<file, overlay_offset, pc, found, parsed, iter, item>>

Nowhere  == -1
NoItem   == [kind |-> "None"]
TooShort == [kind |-> "TooShort"]
NoIter   == [table |-> "None", base |-> 0, offset |-> 0, taken |-> 0, remaining |-> 0]

(* BlockType                                                               *)
BlockType == {Blocks[k] : k \in 1 .. 8}

Init ==
  /\ \E f \in Files : exe = f.exe /\ program = f.program /\ damage = f.damage
  /\ header = Damaged(HeaderBlock(program), damage)
  /\ pc = "Locate" /\ overlay_offset = Nowhere /\ found = Nowhere
  /\ is_v1 = FALSE /\ blocks = [b \in BlockType |-> <<0, 0>>] /\ langtable_size = 0
  /\ callbacks = [k \in 1 .. 10 |-> -1] /\ header_strings = [f \in HeaderStrings |-> -1]
  /\ section_size = 0 /\ iter = NoIter /\ item = NoItem

-----------------------------------------------------------------------------
(* Step 1: PeOverlay::from_goblin.                                         *)

MAGIC_32 == 267

(* The ends of the sections the file can hold.                             *)
section_ends ==
  {s.pointer + s.size : s \in exe.sections} \cap (0 .. exe.len)

Locate ==
  /\ pc = "Locate"
  /\ overlay_offset' = Max({0} \cup section_ends)
  /\ pc' = IF exe.magic # MAGIC_32 THEN "Not32Bit"
           ELSE IF overlay_offset' \in {0, exe.len} THEN "OverlayNotFound"
           ELSE "Scan"
  /\ UNCHANGED <<file, found, parsed, iter, item>>

-----------------------------------------------------------------------------
(* Step 2: the first header.  Its alignment counts from the overlay.       *)

IsCandidate(o) ==
  /\ o >= overlay_offset /\ o + FirstHeaderSize <= exe.len
  /\ IsFirstHeader(exe.at[o]) /\ has_plausible_lengths(exe.at[o])

Candidates == {o \in DOMAIN exe.at : IsCandidate(o)}
Aligned    == {o \in Candidates : (o - overlay_offset) % Align = 0}

(* Mutant: the first header is taken, wherever it is.                      *)
scan_in_order == IF Candidates = {} THEN Nowhere ELSE Min(Candidates)

scan_for_first_header ==
  IF Aligned # {} THEN Min(Aligned)
  ELSE IF Candidates # {} THEN Min(Candidates)
  ELSE Nowhere

(* Another installer's header is another parse.                            *)
Scan ==
  /\ pc = "Scan" /\ found' = scan_for_first_header
  /\ pc' = IF found' = Nowhere THEN "SignatureNotFound"
           ELSE IF found' + FirstHeaderSize = exe.len THEN "NothingBehind"
           ELSE IF found' = exe.own THEN "Header" ELSE "OtherInstaller"
  /\ UNCHANGED <<file, overlay_offset, parsed, iter, item>>

-----------------------------------------------------------------------------
read_i32_le(o, end) == WordAt(header, o, end)

(* A field of the common header, where the header reaches it.              *)
field_at(o, absent) ==
  IF o + 4 <= header.len THEN read_i32_le(o, header.len) ELSE absent

-----------------------------------------------------------------------------
(* Step 4: the layout of NSIS 2 and 3.                                     *)

INSTALL_DIR_OFFSET == 148 + 33 * 4

BlockHeader(k) == <<DescribedOffset(header, k), DescribedCount(header, k)>>

IsCommonHeader == FitsCommonHeader(header)

ReadCommonHeader ==
  /\ is_v1' = FALSE
  /\ blocks' = [b \in BlockType |-> BlockHeader(CHOOSE k \in 1 .. BLOCKS_NUM : Blocks[k] = b)]
  /\ langtable_size' = field_at(100, 0)
  /\ callbacks' = [k \in 1 .. 10 |-> field_at(104 + 4 * k, -1)]
  /\ header_strings' =
       [install_dir             |-> field_at(INSTALL_DIR_OFFSET, -1),
        install_dir_auto_append |-> field_at(INSTALL_DIR_OFFSET + 4, -1),
        install_reg_key         |-> field_at(72, -1),
        install_reg_value       |-> field_at(76, -1),
        install_reg_rootkey     |-> field_at(68, 0),
        uninstall_child         |-> field_at(INSTALL_DIR_OFFSET + 8, -1),
        uninstall_command       |-> field_at(INSTALL_DIR_OFFSET + 12, -1),
        wininit                 |-> field_at(INSTALL_DIR_OFFSET + 16, -1)]

-----------------------------------------------------------------------------
(* Step 4: the layout of NSIS 1.x, tried when the first one does not fit.  *)

SectionV1Size == 20
EntryV1Size   == 24

HasFlag(bit) == (exe.at[found].flags \div bit) % 2 = 1

(* FH_V1_FLAGS_UNINSTALL                                                   *)
v1_kind == IF HasFlag(2) THEN "Uninstaller" ELSE "Installer"

(* V1HeaderKind::size.  The fields are read from these bytes only.         *)
v1_size       == IF v1_kind = "Installer" THEN 240 ELSE 120
v1_field(o)   == read_i32_le(o, v1_size)
installer_field(o) == IF v1_kind = "Installer" THEN v1_field(o) ELSE -1

num_sections == IF v1_kind = "Installer" THEN v1_field(224) ELSE 0
num_entries  == v1_field(52)

entries_offset == v1_size + num_sections * SectionV1Size
strings_offset == entries_offset + num_entries * EntryV1Size

(* Mutant: the tables need not fit.                                        *)
HasV1Counts == header.len >= v1_size /\ num_sections >= 0 /\ num_entries >= 0

IsV1Header ==
  /\ header.len >= v1_size /\ num_sections >= 0 /\ num_entries >= 0
  /\ strings_offset <= header.len

(* V1Header::callbacks: two runs of fields.                                *)
v1_callback(i) == v1_field((IF i < 5 THEN 76 ELSE 228 - 5 * 4) + 4 * i)

ReadV1Header ==
  /\ is_v1' = TRUE
  /\ blocks' = [b \in BlockType |->
                  IF b = "Sections" THEN <<v1_size, num_sections>>
                  ELSE IF b = "Entries" THEN <<entries_offset, num_entries>>
                  ELSE IF b = "Strings" THEN <<strings_offset, header.len - strings_offset>>
                  ELSE <<0, 0>>]
  /\ langtable_size' = 0
  /\ callbacks' = <<v1_callback(0), v1_callback(1), v1_callback(2), v1_callback(3), -1, -1, -1,
                    v1_callback(6), v1_callback(7), -1>>
  /\ header_strings' =
       [f \in HeaderStrings |->
          IF f = "install_dir" THEN installer_field(204)
          ELSE IF f = "install_reg_rootkey" THEN installer_field(160)
          ELSE IF f = "install_reg_key" THEN installer_field(164)
          ELSE IF f = "install_reg_value" THEN installer_field(168)
          ELSE -1]

ParseHeader ==
  /\ pc = "Header"
  /\ \/ IsCommonHeader /\ ReadCommonHeader /\ pc' = "Measure"
     \/ ~IsCommonHeader /\ IsV1Header /\ ReadV1Header /\ pc' = "Measure"
     \/ /\ ~IsCommonHeader /\ ~IsV1Header /\ pc' = "Refused"
        /\ UNCHANGED <<is_v1, blocks, langtable_size, callbacks, header_strings>>
  /\ UNCHANGED <<file, overlay_offset, found, section_size, iter, item>>

-----------------------------------------------------------------------------
(* The size of a section is the gap to the entries, shared out.            *)

SectionBaseSize == 24

(* Mutant: sections have no names in them.                                 *)
measured_base == SectionBaseSize

measured_size ==
  LET sections == blocks["Sections"]
      gap      == blocks["Entries"][1] - sections[1]
  IN IF gap > 0 /\ sections[2] > 0 THEN gap \div sections[2] ELSE SectionBaseSize

MeasureSections ==
  /\ pc = "Measure" /\ pc' = "Read"
  /\ section_size' = measured_size
  /\ UNCHANGED <<file, overlay_offset, found, is_v1, blocks, langtable_size, callbacks,
                 header_strings, iter, item>>

-----------------------------------------------------------------------------
(* The iterators.  Each is a place in the header block and a count; the    *)
(* slice it works on runs to the end of the block.                         *)

Tables == {"Pages", "Sections", "Entries", "LangTables"}

LangMinSize == 10
entry_size  == IF is_v1 THEN EntryV1Size ELSE 28

AtLeast(size, least) == IF size < least THEN least ELSE size

(* How far apart items are, and how many bytes each of them needs.         *)
stride(t) ==
  IF t = "Pages" THEN 64
  ELSE IF t = "Sections" THEN section_size
  ELSE IF t = "LangTables" THEN AtLeast(langtable_size, LangMinSize)
  ELSE entry_size

needed(t) ==
  IF t # "Sections" THEN stride(t)
  ELSE IF is_v1 THEN SectionV1Size ELSE AtLeast(section_size, SectionBaseSize)

Page(o) ==
  LET field(k) == read_i32_le(o + 4 * k, o + 64) IN
  [dlg_id |-> field(0), wndproc_id |-> field(1), prefunc |-> field(2), showfunc |-> field(3),
   leavefunc |-> field(4), flags |-> field(5), caption |-> field(6), back |-> field(7),
   next |-> field(8), clicknext |-> field(9), cancel |-> field(10),
   parms |-> [k \in 1 .. 5 |-> field(10 + k)]]

(* The name in the section, where it has room for one.                     *)
ModernSection(o, size) ==
  LET field(k) == read_i32_le(o + 4 * k, o + size) IN
  [name_ptr |-> field(0), install_types |-> field(1), flags |-> field(2), code |-> field(3),
   code_size |-> field(4), size_kb |-> field(5),
   inline_name |-> IF size <= SectionBaseSize THEN 0 ELSE field(6)]

(* DFS_SET and DFS_RO are the top bits of the second word.                 *)
LegacySection(o) ==
  LET field(k) == read_i32_le(o + 4 * k, o + SectionV1Size)
      state    == field(1)
  IN [name_ptr |-> field(0), install_types |-> state % ReadOnlyBit,
      flags |-> (IF state < 0 THEN 1 ELSE 0) + (IF (state \div ReadOnlyBit) % 2 = 1 THEN 16 ELSE 0),
      code |-> field(2), code_size |-> field(3), size_kb |-> field(4), inline_name |-> 0]

(* The sixth operand of a 1.x entry is past its end.                       *)
EntryAt(o) ==
  [which |-> read_i32_le(o, o + entry_size),
   offsets |-> [k \in 1 .. 6 |-> read_i32_le(o + 4 * k, o + entry_size)]]

(* LangTable::string_count, string_ptr                                     *)
LangTable(o, size) ==
  [lang_id |-> read_i32_le(o, o + size), dlg_offset |-> read_i32_le(o + 2, o + size),
   is_rtl |-> read_i32_le(o + 6, o + size) # 0,
   strings |-> [k \in 1 .. (size - LangMinSize) \div 4 |-> read_i32_le(o + 6 + 4 * k, o + size)]]

Parsed(t, o) ==
  IF o + needed(t) > header.len THEN TooShort
  ELSE IF t = "Pages" THEN [kind |-> t, of |-> Page(o)]
  ELSE IF t = "LangTables" THEN [kind |-> t, of |-> LangTable(o, needed(t))]
  ELSE IF t # "Sections" THEN [kind |-> t, of |-> EntryAt(o)]
  ELSE IF is_v1 THEN [kind |-> t, of |-> LegacySection(o)]
  ELSE [kind |-> t, of |-> ModernSection(o, needed(t))]

Or0(n) == IF n < 0 THEN 0 ELSE n

(* sections(), entries(), pages(), lang_tables()                           *)
Open(t) ==
  /\ pc = "Read"
  /\ iter' = [table |-> t, base |-> blocks[t][1], offset |-> 0, taken |-> 0,
              remaining |-> Or0(blocks[t][2])]
  /\ item' = NoItem
  /\ UNCHANGED <<file, overlay_offset, pc, found, parsed>>

(* section_entries(section)                                                *)
OpenSection ==
  /\ pc = "Read" /\ item.kind = "Sections"
  /\ LET start == blocks["Entries"][1] + entry_size * Or0(item.of.code)
     IN iter' = [table |-> "SectionEntries", base |-> start, offset |-> 0, taken |-> 0,
                 remaining |-> IF start > header.len THEN 0 ELSE Or0(item.of.code_size)]
  /\ item' = [kind |-> "Opened", of |-> item.of]
  /\ UNCHANGED <<file, overlay_offset, pc, found, parsed>>

ReadNext ==
  /\ pc = "Read" /\ iter.remaining > 0
  /\ iter' = [iter EXCEPT !.remaining = @ - 1, !.taken = @ + 1,
                          !.offset = @ + stride(iter.table)]
  /\ item' = LET read == Parsed(iter.table, iter.base + iter.offset)
             IN IF iter.table = "SectionEntries" /\ read # TooShort
                  THEN [kind |-> "SectionEntries", of |-> read.of, first |-> iter.base]
                  ELSE read
  /\ UNCHANGED <<file, overlay_offset, pc, found, parsed>>

Stop ==
  /\ pc \in {"Not32Bit", "OverlayNotFound", "SignatureNotFound", "NothingBehind",
              "OtherInstaller", "Refused"}
  /\ UNCHANGED vars

Next ==
  \/ Locate \/ Scan \/ ParseHeader \/ MeasureSections \/ OpenSection \/ ReadNext \/ Stop
  \/ \E t \in Tables : Open(t)

Spec == Init /\ [][Next]_vars

-----------------------------------------------------------------------------
(* The accessors.                                                          *)

is_uninstaller == IF is_v1 THEN HasFlag(2) ELSE HasFlag(1)
is_silent      == IF is_v1 THEN HasFlag(4) ELSE HasFlag(2)

(* callback(cb): an entry index, or none.                                  *)
callback(k) == IF callbacks[k] >= 0 THEN callbacks[k] ELSE Nowhere

(* Section::contains_entry                                                 *)
contains_entry(s, index) == index >= Or0(s.code) /\ index < Or0(s.code) + Or0(s.code_size)

-----------------------------------------------------------------------------
(* What the parse must come to.                                            *)

(* A file that holds an installer is never given up, whatever its section  *)
(* table claims, and the header found is the installer's own, not that of  *)
(* an installer it carries or a lookalike before it, unless its own is out *)
(* of alignment with the end of the stub.  Even then it is only missed for *)
(* a carried one in alignment or a lookalike before it.                    *)
HeaderIsFound ==
  pc \notin {"Locate", "Scan", "Not32Bit"} =>
    /\ pc \notin {"OverlayNotFound", "SignatureNotFound"}
    /\ \/ (exe.own - exe.stub) % Align = 0
       \/ \A o \in Candidates : o >= exe.own /\ (o - exe.stub) % Align # 0
       => found = exe.own

(* What the iterators have to hand out.                                    *)
Compiled(t) ==
  IF t = "Pages" THEN program.pages
  ELSE IF t = "Sections" THEN program.sections
  ELSE IF t = "Entries" THEN program.entries
  ELSE IF t = "LangTables" THEN program.langs
  ELSE <<>>

ReadsTable(t) ==
  iter.table = t =>
    /\ iter.taken + iter.remaining = Len(Compiled(t))
    /\ iter.taken > 0 => item = [kind |-> t, of |-> Compiled(t)[iter.taken]]

(* The entries of a section are those whose index it contains.             *)
ReadsSectionEntries ==
  iter.table = "SectionEntries" =>
    /\ item.kind = "Opened" =>
         iter.remaining = Cardinality({k \in DOMAIN program.entries : contains_entry(item.of, k - 1)})
    /\ iter.taken > 0 =>
         \E s \in Range(program.sections), k \in DOMAIN program.entries :
           /\ contains_entry(s, k - 1) /\ k = s.code + iter.taken
           /\ item.of = program.entries[k]

(* The callbacks the kind of header has a field for.                       *)
CallbackFields ==
  IF program.kind = "Modern" THEN 1 .. 10
  ELSE IF program.kind = "Installer" THEN {1, 2, 3, 4, 8, 9}
  ELSE 1 .. 4

(* Whatever NSIS generation and features the header was written with, it   *)
(* is accepted under its own layout, and every page, section, entry,       *)
(* language table, callback, string and flag is read as it was compiled.   *)
FileReadsAsWritten ==
  damage = NoDamage /\ found = exe.own =>
    /\ pc # "Refused"
    /\ pc = "Read" =>
         /\ is_v1 <=> program.kind # "Modern"
         /\ \A t \in Tables : ReadsTable(t)
         /\ ReadsSectionEntries
         /\ \A k \in CallbackFields : callback(k) = program.callbacks[k]
         /\ header_strings = program.strings
         /\ is_uninstaller <=> program.uninstaller
         /\ is_silent <=> program.silent

(* What a damaged descriptor says wrongly: its own table, and the size of  *)
(* a section where it is the entries that moved.                           *)
Suspect ==
  {damage.block} \cup (IF damage.block = "Entries" THEN {"Sections"} ELSE {})

(* What the header says of where its background font lies, damaged or not. *)
(* 1.x counts its entries there.                                           *)
FontOffset ==
  IF damage.block = "BgFont" /\ damage.field = "offset" THEN damage.value
  ELSE BlockOffset(program, 7)

(* A damaged block table is refused, or only the damaged table is misread: *)
(* no other item is lost, moved or made up, and the file is not taken for  *)
(* one of NSIS 1.x.  v1header.rs:174 says "A 2.x header read this way fails*)
(* here: its block descriptors sit where these counts do and are far too   *)
(* large".  One is not where the header says its font lies at 0, as a      *)
(* compiler may for a script without one, or within the first 24th of it:  *)
(* such a header, damaged, may be taken for an (empty) installer of 1.x.   *)
(* It must be the only one that is.                                        *)
DamageStaysInItsTable ==
  damage # NoDamage /\ pc = "Read" =>
    IF is_v1 THEN FontOffset \in 0 .. header.len \div EntryV1Size
    ELSE /\ \A t \in Tables \ Suspect : ReadsTable(t)
         /\ header_strings = program.strings
===============================================================================
