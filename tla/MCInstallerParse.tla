----------------------------- MODULE MCInstallerParse -----------------------------
(* Programs of every NSIS generation, with and without each table, damage  *)
(* to each descriptor, and the executables an installer may lie in.        *)
EXTENDS InstallerParse

(* First headers: the installer's, with its flags, and what looks like one.*)
FH(flags) ==
  [siginfo |-> "DEADBEEF", nsinst |-> "NullsoftInst", flags |-> flags,
   length_of_header |-> 300, length_of_all_following_data |-> 2000]

Alternate == [FH(0) EXCEPT !.siginfo = "DEADBEED", !.nsinst = "nsisinstall"]

Lookalikes ==
  {[FH(0) EXCEPT !.siginfo = "other"], [FH(0) EXCEPT !.nsinst = "other"], FH(16),
   [FH(0) EXCEPT !.length_of_header = 0], [FH(0) EXCEPT !.length_of_all_following_data = 27]}

(* A stub of 1000 bytes, with sections that claim to end there, before     *)
(* and past the end of the file, and the installer behind it.              *)
Stub == 1000

Claims(len) ==
  {{[pointer |-> 600, size |-> 400]},
   {[pointer |-> 600, size |-> 400], [pointer |-> 0, size |-> 0],
    [pointer |-> Stub, size |-> len - Stub + 1]}}

Exe(own, behind, at, claims) ==
  [magic |-> MAGIC_32, len |-> Stub + behind, stub |-> Stub, sections |-> claims,
   own |-> Stub + own, at |-> [o \in {Stub + p : p \in DOMAIN at} |-> at[o - Stub]]]

Behind(own, len, at) == {Exe(own, len, at, c) : c \in Claims(Stub + len)}

Own(at, len, flags) == Behind(at, len, at :> FH(flags))

(* Text before the installer, an installer among the files it carries, one *)
(* cut off behind its header, and one for 64 bits.                         *)
Layouts ==
  UNION (
    {Behind(own, own + 2000, own :> FH(5) @@ before :> l) :
       own \in {512, 520, 1024}, before \in {0, 8, 505}, l \in Lookalikes}
    \cup {Behind(own, 4000, own :> FH(5) @@ before :> FH(4)) :
            own \in {512, 520, 1024}, before \in {8, 505, 511}}
    \cup {Behind(own, own + 2000, own :> FH(5) @@ own + gap :> h) :
            own \in {0, 8, 512, 520}, gap \in {28, 504, 512}, h \in {FH(0), Alternate}}
    \cup {Own(at, at + 28 + behind, 5) : at \in {0, 8, 511, 512}, behind \in {0, 1}})
  \cup {[e EXCEPT !.magic = 523] : e \in Own(0, 2000, 5)}

-----------------------------------------------------------------------------
NoStrings == [f \in HeaderStrings |-> -1]

AllStrings ==
  [install_dir |-> 11, install_dir_auto_append |-> 12, install_reg_key |-> 13,
   install_reg_value |-> 14, install_reg_rootkey |-> -2147483646, uninstall_child |-> 16,
   uninstall_command |-> 17, wininit |-> 18]

P(k) ==
  [dlg_id |-> 105, wndproc_id |-> k, prefunc |-> -1, showfunc |-> 2, leavefunc |-> -1,
   flags |-> 512, caption |-> 21 + k, back |-> 22, next |-> 23, clicknext |-> 24,
   cancel |-> 25, parms |-> <<1, 2, 3, 4, 5>>]

S(code, size, flags, name) ==
  [name_ptr |-> 40 + code, install_types |-> 3, flags |-> flags, code |-> code,
   code_size |-> size, size_kb |-> 7, inline_name |-> name]

E(which) == [which |-> which, offsets |-> <<which + 1, 0, 5, 6, 7, 8>>]
L(id, strings) == [lang_id |-> id, dlg_offset |-> 9, is_rtl |-> id = 1037, strings |-> strings]

Empty ==
  [kind |-> "Modern", pages |-> <<>>, sections |-> <<>>, entries |-> <<>>, langs |-> <<>>,
   lang_strings |-> 0, name_size |-> 0, string_bytes |-> 0, colors |-> 0, fonts |-> 0,
   zero_empty |-> FALSE, header_words |-> HeaderWords, callbacks |-> [k \in 1 .. 10 |-> -1],
   strings |-> NoStrings, pointers |-> <<0>>, uninstaller |-> FALSE, silent |-> FALSE]

Sections(n, name) ==
  IF n = 1 THEN <<S(0, 3, 1, name)>> ELSE <<S(0, 1, 0, name), S(1, 2, 17, name)>>

(* Every section ends in a return: without entries there are none.         *)
Modern ==
  {[Empty EXCEPT
      !.pages = SubSeq(<<P(2), P(3)>>, 1, pages), !.sections = Sections(n, IF name = 0 THEN 0 ELSE 72),
      !.entries = <<E(20), E(0), E(1)>>, !.name_size = name, !.string_bytes = 40,
      !.lang_strings = strings, !.colors = colors, !.fonts = fonts, !.zero_empty = zero,
      !.langs = [k \in 1 .. langs |-> L(IF k = 1 THEN 1033 ELSE 1037,
                                        [i \in 1 .. strings |-> 30 + i + k])],
      !.callbacks = <<0, -1, 2, -1, 1, -1, 0, 2, 1, 0>>, !.strings = AllStrings,
      !.uninstaller = n = 1, !.silent = pages = 0] :
     pages \in 0 .. 2, n \in 1 .. 2, name \in {0, 8}, strings \in {0, 2}, langs \in 0 .. 2,
     colors \in 0 .. 1, fonts \in 0 .. 1, zero \in BOOLEAN}

(* Headers written without their last fields, with nothing behind them.    *)
Short ==
  {[Empty EXCEPT !.header_words = w, !.silent = TRUE,
      !.callbacks = [k \in 1 .. 10 |-> IF 4 * w >= 108 + 4 * k THEN k ELSE -1],
      !.strings.install_reg_rootkey = IF w < 18 THEN 0 ELSE -2147483646,
      !.strings.install_reg_key = IF w < 19 THEN -1 ELSE 13,
      !.strings.install_dir = IF w < 71 THEN -1 ELSE 11] :
     w \in {17, 18, 19, 26, 27, 28, 31, 36, 37, 70, 71}}

(* 1.x: its string pointers fall somewhere.                                *)
Legacy ==
  {[Empty EXCEPT
      !.kind = "Installer", !.sections = IF n = 0 THEN <<>> ELSE Sections(n, 0),
      !.entries = [k \in 1 .. 3 |-> [E(k) EXCEPT !.offsets[6] = 0]], !.string_bytes = bytes,
      !.callbacks = <<0, -1, 2, -1, -1, -1, -1, 1, 2, -1>>, !.pointers = ptr, !.silent = n = 1,
      !.strings = [NoStrings EXCEPT !.install_dir = 11, !.install_reg_rootkey = -2147483646,
                     !.install_reg_key = 13, !.install_reg_value = -1]] :
     n \in 0 .. 2, bytes \in {0, 60}, ptr \in {<<50, 20, 10>>, <<9, 40, 3, 17, 2>>}}

LegacyUninstaller ==
  {[Empty EXCEPT
      !.kind = "Uninstaller", !.uninstaller = TRUE, !.string_bytes = 60,
      !.entries = [k \in 1 .. n |-> [E(k) EXCEPT !.offsets[6] = 0]],
      !.callbacks = <<0, -1, -1, -1, -1, -1, -1, -1, -1, -1>>, !.pointers = <<50, 20, 10>>] :
     n \in 1 .. 3}

(* The executables matter to the scan, the programs to what follows it.       *)
Sound(e, p) == [exe |-> e, program |-> p, damage |-> NoDamage]

Plain == CHOOSE p \in Modern : Len(p.sections) = 1 /\ Len(p.pages) = 1 /\ ~p.zero_empty

(* With a background font and, both ways of writing that, without one.     *)
Full == {p \in Modern : p.fonts = 1 /\ p.colors = 1 /\ Len(p.langs) = 1 /\ p.pages # <<>>}

Fontless ==
  {p \in Modern :
     p.fonts = 0 /\ p.colors = 1 /\ Len(p.langs) = 1 /\ p.lang_strings = 2 /\ p.name_size = 0}

(* Offsets into the header, to its end, into the tables and past them all. *)
Damages ==
  [block : {Blocks[k] : k \in 1 .. 7}, field : {"offset"}, value : {-1, 0, 4, 308, 330, 460, 1000}]
    \cup [block : {Blocks[k] : k \in 1 .. 7}, field : {"num"}, value : {-1, 0, 1, 3, 99}]

Of(p) == CHOOSE e \in Own(0, 2000, FirstFlags(p)) : TRUE

MCFiles ==
  {Sound(e, Plain) : e \in Layouts}
    \cup {Sound(Of(p), p) : p \in Modern \cup Short \cup Legacy \cup LegacyUninstaller}
    \cup {[exe |-> Of(p), program |-> p, damage |-> d] : p \in Full \cup Fontless, d \in Damages}
===============================================================================
