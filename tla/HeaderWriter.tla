------------------------------- MODULE HeaderWriter -------------------------------
(***************************************************************************)
(* How a compiler lays out the header block: makensis 2 and 3 write a      *)
(* common header with a block table, makensis 1.98 a fixed struct with the *)
(* tables behind it.  This is the other end of the parser's work, from     *)
(* fileform.h as src/header and src/nsis quote it.                         *)
(*                                                                         *)
(* A block is its length and the 4-byte words at byte offsets; text is not *)
(* spelled out.  A program is what was compiled.                           *)
(***************************************************************************)
EXTENDS Integers, Sequences, SequencesExt

Blocks == <<"Pages", "Sections", "Entries", "Strings", "LangTables", "CtlColors",
            "BgFont", "Data">>

(* Words one behind the other.                                             *)
Words(base, seq) ==
  [o \in {base + 4 * (k - 1) : k \in DOMAIN seq} |-> seq[((o - base) \div 4) + 1]]

(* Items of one size, one behind the other; each is words at offsets in it.*)
Laid(base, size, items) ==
  LET begin(k) == base + size * (k - 1)
  IN [o \in UNION {{begin(k) + w : w \in DOMAIN items[k]} : k \in DOMAIN items} |->
        LET k == CHOOSE i \in DOMAIN items : begin(i) <= o /\ o < begin(i) + size
        IN items[k][o - begin(k)]]

Over(f, g) ==
  [o \in DOMAIN f \cup DOMAIN g |-> IF o \in DOMAIN f THEN f[o] ELSE g[o]]

PageItem(p) ==
  Words(0, <<p.dlg_id, p.wndproc_id, p.prefunc, p.showfunc, p.leavefunc, p.flags, p.caption,
             p.back, p.next, p.clicknext, p.cancel, p.parms[1], p.parms[2], p.parms[3],
             p.parms[4], p.parms[5]>>)

(* A section may end in a buffer for its name, of the same size in all.    *)
SectionItem(s, name_size) ==
  Over(Words(0, <<s.name_ptr, s.install_types, s.flags, s.code, s.code_size, s.size_kb>>),
       Words(24, [k \in 1 .. name_size \div 4 |-> IF k = 1 THEN s.inline_name ELSE 0]))

(* NSIS 1.x: the top bits of one word say selected and read-only.          *)
ReadOnlyBit == 1024 * 1024 * 1024

LegacyState(s) ==
  s.install_types + (IF s.flags % 2 = 1 THEN -ReadOnlyBit - ReadOnlyBit ELSE 0)
                  + (IF s.flags \div 16 = 1 THEN ReadOnlyBit ELSE 0)

LegacySectionItem(s) ==
  Words(0, <<s.name_ptr, LegacyState(s), s.code, s.code_size, s.size_kb>>)

EntryItem(e) ==
  Words(0, <<e.which, e.offsets[1], e.offsets[2], e.offsets[3], e.offsets[4], e.offsets[5],
             e.offsets[6]>>)

LegacyEntryItem(e) ==
  Words(0, <<e.which, e.offsets[1], e.offsets[2], e.offsets[3], e.offsets[4], e.offsets[5]>>)

LangItem(t) ==
  Over([o \in {0, 2, 6} |-> IF o = 0 THEN t.lang_id ELSE IF o = 2 THEN t.dlg_offset
                            ELSE IF t.is_rtl THEN 1 ELSE 0],
       Words(10, t.strings))

-----------------------------------------------------------------------------
(* NSIS 2 and 3.                                                           *)

HeaderWords == 75

PageSize       == 64
SectionSize(p) == 24 + p.name_size
EntrySize      == 28
LangSize(p)    == 10 + 4 * p.lang_strings

(* Where each table begins, and where the last one ends.  header_words: a  *)
(* compiler without the last features writes a shorter header.             *)
BlockStarts(p) ==
  LET pages    == 4 * p.header_words
      sections == pages + PageSize * Len(p.pages)
      entries  == sections + SectionSize(p) * Len(p.sections)
      strings  == entries + EntrySize * Len(p.entries)
      langs    == strings + p.string_bytes
      colors   == langs + LangSize(p) * Len(p.langs)
      fonts    == colors + 24 * p.colors
  IN <<pages, sections, entries, strings, langs, colors, fonts, fonts + 16 * p.fonts>>

BlockCounts(p) ==
  <<Len(p.pages), Len(p.sections), Len(p.entries), p.string_bytes, Len(p.langs),
    p.colors, p.fonts, 1>>

(* Nothing is written for an empty block: its offset may be anything.      *)
BlockOffset(p, k) ==
  IF Blocks[k] = "Data" THEN 1024 * 1024
  ELSE IF BlockCounts(p)[k] = 0 /\ p.zero_empty THEN 0
  ELSE BlockStarts(p)[k]

ModernHeader(p) ==
  Over(Words(0, <<0>>),
  Over(Words(4, [i \in 1 .. 16 |-> IF i % 2 = 1 THEN BlockOffset(p, (i + 1) \div 2)
                                  ELSE BlockCounts(p)[i \div 2]]),
  Over(Words(68, <<p.strings.install_reg_rootkey, p.strings.install_reg_key,
                   p.strings.install_reg_value>>),
  Over(Words(80, <<0, 0, 0, 0, 0, IF p.langs = <<>> THEN 0 ELSE LangSize(p), 0>>),
  Over(Words(108, p.callbacks),
  Over(Words(148, [k \in 1 .. 33 |-> 0]),
       Words(280, <<p.strings.install_dir, p.strings.install_dir_auto_append,
                    p.strings.uninstall_child, p.strings.uninstall_command,
                    p.strings.wininit>>)))))))

Shortened(words, len) == [o \in {x \in DOMAIN words : x < len} |-> words[o]]

ModernBlock(p) ==
  LET start == BlockStarts(p)
  IN [len  |-> start[8],
      word |->
        Over(Shortened(ModernHeader(p), start[1]),
        Over(Laid(start[1], PageSize, [k \in DOMAIN p.pages |-> PageItem(p.pages[k])]),
        Over(Laid(start[2], SectionSize(p),
                  [k \in DOMAIN p.sections |-> SectionItem(p.sections[k], p.name_size)]),
        Over(Laid(start[3], EntrySize, [k \in DOMAIN p.entries |-> EntryItem(p.entries[k])]),
             Laid(start[5], LangSize(p), [k \in DOMAIN p.langs |-> LangItem(p.langs[k])])))))]

-----------------------------------------------------------------------------
(* NSIS 1.98: an installer's struct, and an uninstaller's shorter one.     *)

LegacyFields(p) ==
  Over(Words(52, <<Len(p.entries)>>),
       Words(76, <<p.callbacks[1], p.callbacks[2], p.callbacks[3], p.callbacks[4], -1>>))

InstallerFields(p) ==
  Over(Words(160, <<p.strings.install_reg_rootkey, p.strings.install_reg_key,
                    p.strings.install_reg_value>>),
  Over(Words(204, <<p.strings.install_dir, -1>>),
  Over(Words(224, <<Len(p.sections)>>),
       Words(228, <<-1, p.callbacks[8], p.callbacks[9]>>))))

UninstallerFields(p) == Words(112, <<0, Len(p.entries)>>)

(* Everything between the fields: pointers to strings, in the order of the *)
(* script that was compiled.                                               *)
Filler(p, words) == Words(0, [k \in 1 .. words |-> p.pointers[((k - 1) % Len(p.pointers)) + 1]])

LegacySize(p) == IF p.kind = "Installer" THEN 240 ELSE 120

LegacyEntries(p) == LegacySize(p) + 20 * Len(p.sections)

LegacyBlock(p) ==
  [len  |-> LegacyEntries(p) + 24 * Len(p.entries) + p.string_bytes,
   word |->
     Over(LegacyFields(p),
     Over(IF p.kind = "Installer" THEN InstallerFields(p) ELSE UninstallerFields(p),
     Over(Filler(p, LegacySize(p) \div 4),
     Over(Laid(LegacySize(p), 20,
               [k \in DOMAIN p.sections |-> LegacySectionItem(p.sections[k])]),
          Laid(LegacyEntries(p), 24,
               [k \in DOMAIN p.entries |-> LegacyEntryItem(p.entries[k])])))))]

HeaderBlock(p) == IF p.kind = "Modern" THEN ModernBlock(p) ELSE LegacyBlock(p)

(* The flags of the first header: 1.x numbers them differently.            *)
FirstFlags(p) ==
  IF p.kind = "Modern"
    THEN (IF p.uninstaller THEN 1 ELSE 0) + (IF p.silent THEN 2 ELSE 0) + 4
    ELSE 1 + (IF p.kind = "Uninstaller" THEN 2 ELSE 0) + (IF p.silent THEN 4 ELSE 0)

-----------------------------------------------------------------------------
(* Damage to one descriptor of the block table.                            *)

NoDamage == [block |-> "None", field |-> "None", value |-> 0]

Damaged(h, d) ==
  IF d = NoDamage THEN h
  ELSE LET k == CHOOSE i \in 1 .. 8 : Blocks[i] = d.block
       IN [h EXCEPT !.word[8 * k - 4 + (IF d.field = "num" THEN 4 ELSE 0)] = d.value]
===============================================================================
