--------------------------- MODULE EntryReadingProofs ---------------------------
(***************************************************************************)
(* Proofs about EntryReading: the numbers every compiler stores are undone *)
(* (OpcodeNumbering), so the parse never makes more of a build than it is, *)
(* and where the file shows which compiler wrote it every entry is read as *)
(* the instruction that was compiled.                                      *)
(***************************************************************************)
EXTENDS EntryReading, TLAPS

-----------------------------------------------------------------------------
(* The translations undo what the compilers do, for every release: no two  *)
(* instructions of a compiler become one.                                  *)

(* The canonical numbers the proofs compute with.                         *)
Numbers ==
  /\ EW_REGISTERDLL = 44 /\ EW_FSEEK = 58 /\ EW_SECTIONSET = 63 /\ EW_GETOSINFO = 65
  /\ EW_RESERVEDOPCODE = 66 /\ EW_LOCKWINDOW = 67 /\ EW_FPUTWS = 68 /\ EW_FGETWS = 69
  /\ EW_LOG = 70 /\ EW_FINDPROC = 71 /\ EW_GETFONTVERSION = 72 /\ EW_GETFONTNAME = 73
  /\ EW_ASSIGNVAR = 25 /\ EW_GETDLGITEM = 35 /\ EW_WRITEUNINSTALLER = 62

(* Every canonical number has its value.                                   *)
LEMMA NumbersHold == Numbers
  BY DEF Numbers, EW_REGISTERDLL, EW_FSEEK, EW_SECTIONSET, EW_GETOSINFO,
         EW_RESERVEDOPCODE, EW_LOCKWINDOW, EW_FPUTWS, EW_FGETWS, EW_LOG,
         EW_FINDPROC, EW_GETFONTVERSION, EW_GETFONTNAME, EW_ASSIGNVAR, EW_GETDLGITEM,
         EW_WRITEUNINSTALLER

(* normalize_log_opcode gives back every instruction of a compiler of NSIS *)
(* 2 or 3 that has the log instructions.                                   *)
THEOREM LogNumbersAreUndone ==
  ASSUME NEW op \in StandardOpcodes(TRUE)
  PROVE  normalize_log_opcode(log_stores(op)) = op
  BY NumbersHold DEF Numbers, StandardOpcodes, normalize_log_opcode, log_stores

(* How many instructions a release inserts before EW_REGISTERDLL.          *)
LEMMA FontCounts ==
  ASSUME NEW sub \in ParkSubVersion
  PROVE  FontInserts(sub) \in 0 .. 2
  BY DEF FontInserts

(* normalize_park_opcode gives back every instruction of every release of  *)
(* the fork, with the log instructions and without.                        *)
THEOREM ParkNumbersAreUndone ==
  ASSUME NEW sub \in ParkSubVersion, NEW log \in BOOLEAN,
         NEW op \in ParkOpcodes(sub, log)
  PROVE  normalize_park_opcode(park_stores(op, sub, log), sub, log) = op
<1> DEFINE fonts == FontInserts(sub)
<1>1. fonts \in 0 .. 2
  BY FontCounts
<1>2. /\ op \in Nat
      /\ op \notin {EW_GETOSINFO, EW_RESERVEDOPCODE}
      /\ op <= EW_FGETWS \/ op = EW_FINDPROC \/ (op = EW_LOG /\ log)
           \/ op \in EW_GETFONTVERSION .. EW_GETFONTVERSION + fonts - 1
  BY <1>1, NumbersHold DEF ParkOpcodes, Numbers
<1> HIDE DEF fonts
<1>3. CASE op < EW_REGISTERDLL
  BY <1>1, <1>2, <1>3, NumbersHold
  DEF Numbers, fonts, normalize_park_opcode, park_stores, ParkInserts
<1>4. CASE op \in EW_REGISTERDLL .. EW_FSEEK - 1
  BY <1>1, <1>2, <1>4, NumbersHold
  DEF Numbers, fonts, normalize_park_opcode, park_stores, ParkInserts
<1>5. CASE op \in EW_FSEEK .. EW_LOCKWINDOW
  BY <1>1, <1>2, <1>5, NumbersHold
  DEF Numbers, fonts, normalize_park_opcode, park_stores, ParkInserts
<1>6. CASE op \in EW_FPUTWS .. EW_FGETWS
  BY <1>1, <1>2, <1>6, NumbersHold
  DEF Numbers, fonts, normalize_park_opcode, park_stores, ParkInserts
<1>7. CASE op > EW_FGETWS
  BY <1>1, <1>2, <1>7, NumbersHold
  DEF Numbers, fonts, normalize_park_opcode, park_stores, ParkInserts
<1>8. QED
  BY <1>2, <1>3, <1>4, <1>5, <1>6, <1>7, NumbersHold DEF Numbers

(* So two instructions of a compiler are stored as two numbers.            *)
COROLLARY ParkNumbersDiffer ==
  ASSUME NEW sub \in ParkSubVersion, NEW log \in BOOLEAN,
         NEW op \in ParkOpcodes(sub, log), NEW other \in ParkOpcodes(sub, log),
         park_stores(op, sub, log) = park_stores(other, sub, log)
  PROVE  op = other
  BY ParkNumbersAreUndone

(* What a logging compiler of NSIS 2 or 3 stores is a number, moved only   *)
(* where the log instructions push it up.                                  *)
LEMMA LogNumbers ==
  ASSUME NEW op \in StandardOpcodes(TRUE)
  PROVE  /\ log_stores(op) \in 0 .. EW_LOG
         /\ op >= EW_SECTIONSET /\ op # EW_LOG => log_stores(op) = op + 1
         /\ log_stores(op) < EW_SECTIONSET => log_stores(op) = op
  BY NumbersHold DEF Numbers, StandardOpcodes, log_stores

(* The same of the fork; an uninstaller is moved by what its release       *)
(* inserts.                                                                *)
LEMMA ParkNumbers ==
  ASSUME NEW sub \in ParkSubVersion, NEW log \in BOOLEAN,
         NEW op \in ParkOpcodes(sub, log)
  PROVE  /\ park_stores(op, sub, log) \in Nat
         /\ op = EW_WRITEUNINSTALLER =>
              park_stores(op, sub, log) = EW_WRITEUNINSTALLER + FontInserts(sub) + 2
<1> DEFINE fonts == FontInserts(sub)
<1>1. fonts \in 0 .. 2
  BY FontCounts
<1>2. op \in Nat
  BY <1>1, NumbersHold DEF ParkOpcodes, Numbers
<1>3. op > EW_FGETWS => op \in {EW_FINDPROC, EW_LOG} \/ op >= EW_GETFONTVERSION
  BY <1>1, NumbersHold DEF ParkOpcodes, Numbers
<1> HIDE DEF fonts
<1>4. CASE op <= EW_LOCKWINDOW
  BY <1>1, <1>2, <1>4, NumbersHold DEF Numbers, fonts, park_stores, ParkInserts
<1>5. CASE op > EW_LOCKWINDOW
  BY <1>1, <1>2, <1>3, <1>5, NumbersHold
  DEF Numbers, fonts, park_stores, ParkInserts, ParkOpcodes
<1>6. QED
  BY <1>2, <1>4, <1>5, NumbersHold DEF Numbers

-----------------------------------------------------------------------------
(* The two rows that give a logging build away.                            *)

RowsOf(piece) == {piece[k] : k \in DOMAIN piece}

(* The pieces the opcode table is made of, and how many rows each has.     *)
LEMMA Pieces ==
  /\ Table!OpcodesFrom0 \in Seq(RowsOf(Table!OpcodesFrom0)) /\ Len(Table!OpcodesFrom0) = 15
  /\ Table!OpcodesFrom15 \in Seq(RowsOf(Table!OpcodesFrom15)) /\ Len(Table!OpcodesFrom15) = 14
  /\ Table!OpcodesFrom29 \in Seq(RowsOf(Table!OpcodesFrom29)) /\ Len(Table!OpcodesFrom29) = 15
  /\ Table!OpcodesFrom44 \in Seq(RowsOf(Table!OpcodesFrom44)) /\ Len(Table!OpcodesFrom44) = 14
  /\ Table!OpcodesFrom58 \in Seq(RowsOf(Table!OpcodesFrom58)) /\ Len(Table!OpcodesFrom58) = 16
<1>1. /\ Table!OpcodesFrom0 \in Seq(RowsOf(Table!OpcodesFrom0))
      /\ Len(Table!OpcodesFrom0) = 15
  BY DEF Table!OpcodesFrom0, RowsOf
<1>2. /\ Table!OpcodesFrom15 \in Seq(RowsOf(Table!OpcodesFrom15))
      /\ Len(Table!OpcodesFrom15) = 14
  BY DEF Table!OpcodesFrom15, RowsOf
<1>3. /\ Table!OpcodesFrom29 \in Seq(RowsOf(Table!OpcodesFrom29))
      /\ Len(Table!OpcodesFrom29) = 15
  BY DEF Table!OpcodesFrom29, RowsOf
<1>4. /\ Table!OpcodesFrom44 \in Seq(RowsOf(Table!OpcodesFrom44))
      /\ Len(Table!OpcodesFrom44) = 14
  BY DEF Table!OpcodesFrom44, RowsOf
<1>5. /\ Table!OpcodesFrom58 \in Seq(RowsOf(Table!OpcodesFrom58))
      /\ Len(Table!OpcodesFrom58) = 16
  BY DEF Table!OpcodesFrom58, RowsOf
<1>6. QED
  BY <1>1, <1>2, <1>3, <1>4, <1>5

(* A part of a table of rows out of S: n of them.                          *)
IsPart(s, S, n) == s \in Seq(S) /\ n \in Nat /\ Len(s) = n

(* The n rows of t come after the first m of table.                        *)
Ends(table, t, m, n) == \A k \in 1 .. n : table[m + k] = t[k]

(* A table and a part appended to it.                                      *)
LEMMA Concatenated ==
  ASSUME NEW S, NEW m, NEW n, NEW s, NEW t, IsPart(s, S, m), IsPart(t, S, n)
  PROVE  IsPart(s \o t, S, m + n) /\ Ends(s \o t, t, m, n)
  BY DEF IsPart, Ends

(* The rows from EW_FSEEK on.                                              *)
LEMMA LastPiece ==
  /\ Len(Table!OPCODES) = 74
  /\ \A k \in 1 .. 16 : Table!OPCODES[58 + k] = Table!OpcodesFrom58[k]
<1> DEFINE a == Table!OpcodesFrom0
           b == Table!OpcodesFrom15
           c == Table!OpcodesFrom29
           d == Table!OpcodesFrom44
           e == Table!OpcodesFrom58
           S == RowsOf(a) \cup RowsOf(b) \cup RowsOf(c) \cup RowsOf(d) \cup RowsOf(e)
<1>1. /\ IsPart(a, S, 15) /\ IsPart(b, S, 14) /\ IsPart(c, S, 15)
      /\ IsPart(d, S, 14) /\ IsPart(e, S, 16)
  <2> HIDE DEF a, b, c, d, e
  <2>1. QED
    BY Pieces DEF a, b, c, d, e, IsPart
<1>2. Table!OPCODES = a \o b \o c \o d \o e
  BY DEF Table!OPCODES
<1> HIDE DEF a, b, c, d, e, S
<1>3. IsPart(a \o b, S, 15 + 14)
  BY <1>1, Concatenated, Zenon
<1>4. IsPart(a \o b \o c, S, 15 + 14 + 15)
  BY <1>1, <1>3, Concatenated, Zenon
<1>5. IsPart(a \o b \o c \o d, S, 15 + 14 + 15 + 14)
  BY <1>1, <1>4, Concatenated, Zenon
<1>6. /\ IsPart(a \o b \o c \o d \o e, S, 15 + 14 + 15 + 14 + 16)
      /\ Ends(a \o b \o c \o d \o e, e, 15 + 14 + 15 + 14, 16)
  BY <1>1, <1>5, Concatenated, Zenon
<1>7. IsPart(Table!OPCODES, S, 15 + 14 + 15 + 14 + 16)
      /\ Ends(Table!OPCODES, e, 15 + 14 + 15 + 14, 16)
  BY <1>2, <1>6
<1>8. QED
  BY <1>7 DEF e, IsPart, Ends

(* The standard reading of a logging build's section text lands on an      *)
(* instruction of four operands, that of its OS query on one of two.       *)
LEMMA TellingRows ==
  lookup(EW_SECTIONSET + 1).count = 4 /\ lookup(EW_GETOSINFO + 1).count = 2
<1>1. Table!OpcodesFrom58[7].count = 4 /\ Table!OpcodesFrom58[9].count = 2
  BY DEF Table!OpcodesFrom58, Table!Op
<1>2. Table!OPCODES[65].count = 4 /\ Table!OPCODES[67].count = 2
  <2>1. Table!OPCODES[58 + 7] = Table!OpcodesFrom58[7]
    BY LastPiece
  <2>2. Table!OPCODES[58 + 9] = Table!OpcodesFrom58[9]
    BY LastPiece
  <2>3. QED
    BY <1>1, <2>1, <2>2
<1>3. QED
  BY <1>2, LastPiece, NumbersHold DEF lookup, Numbers

-----------------------------------------------------------------------------
(* The inductive invariant: what each step of the parse has found out.     *)

FileOK ==
  /\ build \in Builds /\ code \in Codes[build] /\ stub \in BOOLEAN
  /\ phase \in {"ParkSub", "LogBuild", "Nsis2Sub", "Read"}

(* The release is not overstated, and right where the file shows it.       *)
ParkIsKnown ==
  IF phase = "ParkSub" \/ build.version # "Park" THEN park_sub = NoSub
  ELSE /\ park_sub \in ParkSubVersion
       /\ FontInserts(park_sub) <= FontInserts(build.sub)
       /\ Evident => park_sub = build.sub

LogIsKnown ==
  IF phase \in {"ParkSub", "LogBuild"} \/ build.version = "V1" THEN log_build = FALSE
  ELSE /\ log_build \in BOOLEAN
       /\ log_build => build.log
       /\ Evident => log_build = build.log

AgeIsKnown == nsis2_sub # NoSub => Age(nsis2_sub) >= Age(build.vars)

(* The entry yielded last is the one stored, and read as what it was.      *)
ItemIsRead ==
  item.kind = "Entry" =>
    /\ phase = "Read" /\ index \in DOMAIN code
    /\ item.which = stored(code[index].op) /\ item.offsets = code[index].values
    /\ Evident => /\ item.op = Numbered(code[index].op)
                  /\ item.row = RowOf(build, code[index].op)

Inv == FileOK /\ ParkIsKnown /\ LogIsKnown /\ AgeIsKnown /\ ItemIsRead

(* What may be taken for granted of an instruction of the file.            *)
LEMMA Stored ==
  ASSUME FileOK, NEW k \in DOMAIN code
  PROVE  /\ code[k].op \in Nat /\ code[k].values \in [0 .. 5 -> Int]
         /\ IsItsOwn(build, code[k]) /\ NamesItsPath(build, code[k])
         /\ UsesItsVariables(build, code[k])
  BY CodesAssumption, InstructionsAssumption
  DEF FileOK, Operands, Table!Slots, InstructionsAssumption

(* What may be taken for granted of its compiler.                          *)
LEMMA TheBuild ==
  ASSUME FileOK
  PROVE  /\ build.version \in NsisVersion /\ build.sub \in ParkSubVersion
         /\ build.vars \in Nsis2SubVersion /\ build.log \in BOOLEAN
         /\ build.version = "Park" => (build.log <=> build.sub = "Park3")
  BY BuildsAssumption, ReleasesAssumption DEF FileOK, Build, ReleasesAssumption

(* The stored number of an instruction is one.                             *)
LEMMA StoredNumbers ==
  ASSUME FileOK, NEW k \in DOMAIN code
  PROVE  stored(code[k].op) \in Nat
<1>1. CASE build.version = "Park"
  <2>1. code[k].op \in ParkOpcodes(build.sub, build.log)
    BY <1>1, Stored DEF IsItsOwn
  <2>2. QED
    BY <1>1, <2>1, TheBuild, ParkNumbers DEF stored
<1>2. CASE build.version \in {"V2", "V3"} /\ build.log = TRUE
  <2>1. code[k].op \in StandardOpcodes(TRUE)
    BY <1>2, Stored DEF IsItsOwn
  <2>2. log_stores(code[k].op) \in Nat
    <3>1. log_stores(code[k].op) \in 0 .. EW_LOG
      BY <2>1, LogNumbers
    <3>2. QED
      BY <3>1
  <2>3. QED
    BY <1>2, <2>2 DEF stored
<1>3. CASE build.version = "V1" \/ (build.version \in {"V2", "V3"} /\ ~build.log)
  BY <1>3, Stored DEF stored
<1>4. QED
  BY <1>1, <1>2, <1>3, TheBuild DEF NsisVersion

-----------------------------------------------------------------------------
(* The release.                                                            *)

(* An uninstaller tells how many instructions its release inserts.         *)
LEMMA UninstallersTell ==
  ASSUME FileOK, build.version = "Park"
  PROVE  /\ Inserts \subseteq {FontInserts(build.sub) + 2}
         /\ (\E k \in DOMAIN code : code[k].op = EW_WRITEUNINSTALLER) =>
              Inserts = {FontInserts(build.sub) + 2}
<1> DEFINE which(k) == park_stores(code[k].op, build.sub, build.log)
<1>1. \A k \in DOMAIN code : stored(code[k].op) = which(k)
  BY DEF stored
<1>2. FontInserts(build.sub) \in 0 .. 2
  BY TheBuild, FontCounts
<1>3. ASSUME NEW k \in DOMAIN code
      PROVE  code[k].op = EW_WRITEUNINSTALLER =>
               which(k) = EW_WRITEUNINSTALLER + FontInserts(build.sub) + 2
  BY Stored, TheBuild, ParkNumbers DEF IsItsOwn
<1>4. ASSUME NEW k \in DOMAIN code
      PROVE  IsUninstaller(Entry(k)) <=> code[k].op = EW_WRITEUNINSTALLER
  <2>1. /\ Entry(k).which = which(k) /\ Entry(k).offsets = code[k].values
    BY <1>1 DEF Entry
  <2>2. which(k) \in Nat
    BY <1>1, StoredNumbers
  <2> HIDE DEF which
  <2>3. CASE code[k].op = EW_WRITEUNINSTALLER
    <3>1. which(k) \in EW_WRITEUNINSTALLER .. EW_WRITEUNINSTALLER + 4
      BY <1>2, <1>3, <2>3, NumbersHold DEF Numbers
    <3>2. QED
      BY <2>1, <2>3, <3>1, Stored DEF IsUninstaller, NamesItsPath
  <2>4. CASE code[k].op # EW_WRITEUNINSTALLER
    BY <2>1, <2>4, Stored DEF IsUninstaller, NamesItsPath
  <2>5. QED
    BY <2>3, <2>4
<1>5. \A n : n \in Inserts <=>
        \E k \in DOMAIN code : IsUninstaller(Entry(k)) /\ n = which(k) - EW_WRITEUNINSTALLER
  <2>1. \A n : n \in Inserts <=>
          \E e \in Entries : IsUninstaller(e) /\ n = e.which - EW_WRITEUNINSTALLER
    BY DEF Inserts
  <2>2. \A e : e \in Entries <=> \E k \in DOMAIN code : e = Entry(k)
    BY DEF Entries
  <2>3. \A k \in DOMAIN code : Entry(k).which = which(k)
    BY <1>1 DEF Entry
  <2> HIDE DEF which
  <2>4. QED
    BY <2>1, <2>2, <2>3
<1> HIDE DEF which
<1>6. \A n : n \in Inserts <=>
        \E k \in DOMAIN code :
          code[k].op = EW_WRITEUNINSTALLER /\ n = which(k) - EW_WRITEUNINSTALLER
  BY <1>4, <1>5
<1>7. \A k \in DOMAIN code : code[k].op = EW_WRITEUNINSTALLER =>
        which(k) - EW_WRITEUNINSTALLER = FontInserts(build.sub) + 2
  BY <1>2, <1>3, NumbersHold DEF Numbers
<1>8. QED
  BY <1>6, <1>7

(* Step 5c finds the release, by an uninstaller or else by the stub.       *)
LEMMA ParkStep ==
  ASSUME Inv, DetectParkSub
  PROVE  ParkIsKnown'
<1>1. /\ FileOK /\ FileOK' /\ build' = build /\ phase' = "LogBuild"
  BY DEF Inv, FileOK, DetectParkSub, file
<1>2. Evident' = Evident
  BY DEF DetectParkSub, file, Evident, TellsLogging
<1>3. CASE build.version # "Park"
  BY <1>1, <1>3 DEF ParkIsKnown, DetectParkSub
<1>4. CASE build.version = "Park"
  <2>1. /\ Inserts = {} \/ Inserts = {FontInserts(build.sub) + 2}
        /\ (\E k \in DOMAIN code : code[k].op = EW_WRITEUNINSTALLER) => Inserts # {}
    BY <1>1, <1>4, UninstallersTell
  <2>2. CASE Inserts = {FontInserts(build.sub) + 2}
    <3>1. detect_park_sub_version = build.sub
      BY <1>1, <2>2, TheBuild DEF detect_park_sub_version, FontInserts, ParkSubVersion
    <3>2. park_sub' = build.sub
      BY <1>1, <1>4, <3>1, TheBuild DEF DetectParkSub, ParkSubVersion, NoSub
    <3>3. QED
      BY <1>1, <1>4, <3>2, TheBuild, FontCounts DEF ParkIsKnown
  <2>3. CASE Inserts = {}
    <3>1. park_sub' = features_park_sub
      BY <1>4, <2>3 DEF DetectParkSub, detect_park_sub_version
    <3>2. /\ features_park_sub \in ParkSubVersion
          /\ FontInserts(features_park_sub) <= FontInserts(build.sub)
      BY <1>1, <1>4, TheBuild
      DEF features_park_sub, logs, reads_fonts, FontInserts, ParkSubVersion
    <3>3. Evident => features_park_sub = build.sub
      BY <1>1, <1>4, <2>1, <2>3, TheBuild
      DEF Evident, features_park_sub, logs, reads_fonts, FontInserts, ParkSubVersion
    <3>4. QED
      BY <1>1, <1>2, <1>4, <3>1, <3>2, <3>3 DEF ParkIsKnown
  <2>4. QED
    BY <2>1, <2>2, <2>3
<1>5. QED
  BY <1>3, <1>4

-----------------------------------------------------------------------------
(* The log instructions.                                                   *)

(* The entries the scans look at.                                          *)
LEMMA TheEntries ==
  \A e : e \in Entries <=>
    \E k \in DOMAIN code :
      e = [which |-> stored(code[k].op), offsets |-> code[k].values]
  BY DEF Entries, Entry

(* Whether an entry fits a row is a matter of its operands.                *)
LEMMA FitsByOperands ==
  ASSUME NEW e, NEW v, e.offsets = v, NEW row
  PROVE  Fits(e, row) <=> Fits([offsets |-> v], row)
  BY DEF Fits, used

(* The entries of a compiler without logging fit the standard layout.      *)
LEMMA PlainFits ==
  ASSUME FileOK, build.version \in {"V2", "V3"}, build.log = FALSE
  PROVE  ~standard_is_bad
<1> SUFFICES ASSUME NEW e \in Entries
             PROVE  Fits(e, standard_layout(e.which))
  BY DEF standard_is_bad
<1>1. PICK k \in DOMAIN code : /\ e.which = stored(code[k].op)
                               /\ e.offsets = code[k].values
  BY TheEntries
<1>2. stored(code[k].op) = code[k].op
  BY DEF stored
<1>3. /\ code[k].op \in StandardOpcodes(FALSE)
      /\ Fits([offsets |-> code[k].values], lookup(code[k].op))
  BY Stored DEF IsItsOwn
<1>4. standard_layout(e.which) = lookup(code[k].op)
  BY <1>1, <1>2, <1>3, NumbersHold DEF Numbers, StandardOpcodes, standard_layout
<1>5. QED
  BY <1>1, <1>3, <1>4, FitsByOperands

(* The entries of a logging compiler fit the log layout.                   *)
LEMMA LoggingFits ==
  ASSUME FileOK, build.version \in {"V2", "V3"}, build.log = TRUE
  PROVE  ~log_is_bad
<1> SUFFICES ASSUME NEW e \in Entries
             PROVE  Fits(e, log_layout(e.which))
  BY DEF log_is_bad
<1>1. PICK k \in DOMAIN code : /\ e.which = stored(code[k].op)
                               /\ e.offsets = code[k].values
  BY TheEntries
<1>2. stored(code[k].op) = log_stores(code[k].op)
  BY DEF stored
<1>3. /\ code[k].op \in StandardOpcodes(TRUE)
      /\ Fits([offsets |-> code[k].values], lookup(code[k].op))
  BY Stored DEF IsItsOwn
<1>4. log_stores(code[k].op) \in 0 .. EW_LOG
  BY <1>3, LogNumbers
<1>5. ~(log_stores(code[k].op) > EW_LOG)
  BY <1>4, NumbersHold DEF Numbers
<1>6. log_layout(e.which) = lookup(code[k].op)
  BY <1>1, <1>2, <1>3, <1>5, LogNumbersAreUndone DEF log_layout
<1>7. QED
  BY <1>1, <1>3, <1>6, FitsByOperands

(* An entry that tells is one the standard layout has no room for.         *)
LEMMA TellingIsBad ==
  ASSUME FileOK, build.version \in {"V2", "V3"}, build.log = TRUE,
         NEW k \in DOMAIN code, TellsLogging(k)
  PROVE  standard_is_bad /\ uses_shiftable_opcode
<1> DEFINE e == [which |-> stored(code[k].op), offsets |-> code[k].values]
<1>1. e \in Entries /\ e.which = stored(code[k].op) /\ e.offsets = code[k].values
  BY TheEntries
<1>2. stored(code[k].op) = log_stores(code[k].op)
  BY DEF stored
<1>3. code[k].values \in [0 .. 5 -> Int]
  BY Stored
<1>4. /\ stored(code[k].op) = code[k].op + 1
      /\ code[k].op \in {EW_SECTIONSET, EW_GETOSINFO, EW_FGETWS}
  BY <1>2, NumbersHold DEF TellsLogging, log_stores, Numbers
<1> HIDE DEF e
<1>5. uses_shiftable_opcode
  BY <1>1, <1>4, NumbersHold DEF uses_shiftable_opcode, Numbers
<1>6. ~Fits(e, standard_layout(e.which))
  <2>1. CASE code[k].op = EW_SECTIONSET
    <3>1. standard_layout(e.which) = lookup(EW_SECTIONSET + 1)
      BY <1>1, <1>4, <2>1, NumbersHold DEF standard_layout, Numbers
    <3>2. 4 \in used(e)
      BY <1>1, <2>1, NumbersHold DEF used, Table!Slots, TellsLogging, Numbers
    <3>3. QED
      BY <3>1, <3>2, TellingRows DEF Fits
  <2>2. CASE code[k].op = EW_GETOSINFO
    <3>1. standard_layout(e.which) = lookup(EW_GETOSINFO + 1)
      BY <1>1, <1>4, <2>2, NumbersHold DEF standard_layout, Numbers
    <3>2. \E slot \in 2 .. 5 : slot \in used(e)
      BY <1>1, <2>2, NumbersHold DEF used, Table!Slots, TellsLogging, Numbers
    <3>3. QED
      BY <3>1, <3>2, TellingRows DEF Fits
  <2>3. CASE code[k].op = EW_FGETWS
    BY <1>1, <1>4, <2>3, NumbersHold DEF standard_layout, Fits, Numbers
  <2>4. QED
    BY <1>4, <2>1, <2>2, <2>3
<1>7. QED
  BY <1>1, <1>5, <1>6 DEF standard_is_bad

(* Step 5d: a plain build never looks like a log build, and a log build    *)
(* that tells does.                                                        *)
LEMMA LogStep ==
  ASSUME Inv, DetectLogBuild
  PROVE  LogIsKnown'
<1>1. /\ FileOK /\ build' = build /\ phase' = "Nsis2Sub"
      /\ build.version \in NsisVersion /\ build.log \in BOOLEAN /\ stub \in BOOLEAN
  BY TheBuild DEF Inv, FileOK, DetectLogBuild, file
<1>2. Evident' = Evident
  BY DEF DetectLogBuild, file, Evident, TellsLogging
<1>3. log_build' \in BOOLEAN
  BY DEF DetectLogBuild
<1>4. CASE build.version = "V1"
  BY <1>1, <1>4 DEF LogIsKnown, DetectLogBuild
<1>5. CASE build.version = "Park"
  <2>1. log_build' <=> logs
    BY <1>5 DEF DetectLogBuild
  <2>2. Evident => (logs <=> build.log)
    BY <1>5 DEF Evident, logs
  <2>3. QED
    BY <1>1, <1>2, <1>3, <1>5, <2>1, <2>2 DEF LogIsKnown, logs
<1>6. CASE build.version \in {"V2", "V3"}
  <2>1. log_build' <=> (logs \/ detect_log_build)
    BY <1>6 DEF DetectLogBuild
  <2>2. ~build.log => ~logs /\ ~detect_log_build
    BY <1>1, <1>6, PlainFits DEF logs, detect_log_build
  <2>3. Evident /\ build.log => logs \/ detect_log_build
    <3> SUFFICES ASSUME Evident, build.log, ~stub
                 PROVE  detect_log_build
      BY DEF logs
    <3>1. PICK k \in DOMAIN code : TellsLogging(k)
      BY <1>6 DEF Evident
    <3>2. QED
      BY <1>1, <1>6, <3>1, TellingIsBad, LoggingFits DEF detect_log_build
  <2>4. QED
    BY <1>1, <1>2, <1>3, <1>6, <2>1, <2>2, <2>3 DEF LogIsKnown
<1>7. QED
  BY <1>1, <1>4, <1>5, <1>6 DEF NsisVersion

-----------------------------------------------------------------------------
(* The variable layout.                                                    *)

(* Step 5e: what the scan takes for old is old.                            *)
LEMMA AgeStep ==
  ASSUME Inv, DetectNsis2Sub
  PROVE  AgeIsKnown'
<1>1. FileOK /\ build' = build /\ build.vars \in Nsis2SubVersion
  BY TheBuild DEF Inv, DetectNsis2Sub, file
<1>2. CASE build.version # "V2"
  BY <1>2 DEF DetectNsis2Sub, AgeIsKnown
<1>3. CASE build.version = "V2"
  <2>1. nsis2_sub' = detect_nsis2_sub_version
    BY <1>3 DEF DetectNsis2Sub
  <2>2. ASSUME NEW e \in Entries
        PROVE  /\ IsOldDialogItem(e) /\ e.offsets[0] = SPEC_OUTDIR_225 =>
                    build.vars = "UpTo203"
               /\ IsOldDialogItem(e) \/ IsOldDirectorySave(e) => build.vars # "From226"
    <3>1. PICK k \in DOMAIN code : /\ e.which = stored(code[k].op)
                                   /\ e.offsets = code[k].values
      BY TheEntries
    <3>2. e.which \in {EW_GETDLGITEM, EW_ASSIGNVAR} => code[k].op = e.which
      <4>1. CASE build.log
        <5>1. /\ code[k].op \in StandardOpcodes(TRUE)
              /\ stored(code[k].op) = log_stores(code[k].op)
          BY <1>1, <1>3, <4>1, Stored DEF IsItsOwn, stored
        <5>2. e.which \in {EW_GETDLGITEM, EW_ASSIGNVAR} =>
                log_stores(code[k].op) < EW_SECTIONSET
          BY <3>1, <5>1, NumbersHold DEF Numbers
        <5>3. QED
          BY <3>1, <5>1, <5>2, LogNumbers
      <4>2. CASE ~build.log
        BY <1>3, <3>1, <4>2 DEF stored
      <4>3. QED
        BY <4>1, <4>2
    <3>3. UsesItsVariables(build, code[k])
      BY <1>1, Stored
    <3>4. QED
      BY <1>1, <1>3, <3>1, <3>2, <3>3
      DEF IsOldDialogItem, IsOldDirectorySave, UsesItsVariables, Nsis2SubVersion
  <2>3. QED
    BY <1>1, <2>1, <2>2
    DEF AgeIsKnown, Age, detect_nsis2_sub_version, Nsis2SubVersion
<1>4. QED
  BY <1>2, <1>3

-----------------------------------------------------------------------------
(* Reading.                                                                *)

(* What the file shows how to read is resolved as what was compiled.       *)
LEMMA Resolved ==
  ASSUME Inv, phase = "Read", Evident, NEW k \in DOMAIN code
  PROVE  /\ stored(code[k].op) \in Nat
         /\ normalize_opcode(stored(code[k].op)) = Numbered(code[k].op)
         /\ resolve_opcode(stored(code[k].op)) = RowOf(build, code[k].op)
<1>1. /\ FileOK /\ stored(code[k].op) \in Nat
      /\ build.version \in NsisVersion /\ build.sub \in ParkSubVersion
      /\ build.log \in BOOLEAN
  BY StoredNumbers, TheBuild DEF Inv
<1>2. ~(stored(code[k].op) < 0)
  BY <1>1
<1>3. normalize_opcode(stored(code[k].op)) = Numbered(code[k].op)
  <2>1. CASE build.version = "V1"
    <3>1. park_sub = NoSub /\ ~log_build
      BY <2>1 DEF Inv, ParkIsKnown, LogIsKnown
    <3>2. QED
      BY <1>2, <2>1, <3>1 DEF normalize_opcode, Numbered, stored
  <2>2. CASE build.version = "Park"
    <3>1. park_sub = build.sub /\ log_build = build.log /\ park_sub # NoSub
      BY <1>1, <2>2 DEF Inv, ParkIsKnown, LogIsKnown, ParkSubVersion, NoSub
    <3>2. code[k].op \in ParkOpcodes(build.sub, build.log)
      BY <1>1, <2>2, Stored DEF IsItsOwn
    <3>3. normalize_park_opcode(stored(code[k].op), park_sub, log_build) = code[k].op
      BY <1>1, <2>2, <3>1, <3>2, ParkNumbersAreUndone DEF stored
    <3>4. QED
      BY <1>2, <2>2, <3>1, <3>3 DEF normalize_opcode, Numbered
  <2>3. CASE build.version \in {"V2", "V3"}
    <3>1. park_sub = NoSub /\ log_build = build.log
      BY <2>3 DEF Inv, ParkIsKnown, LogIsKnown
    <3>2. CASE build.log = TRUE
      <4>1. code[k].op \in StandardOpcodes(TRUE)
        BY <1>1, <2>3, <3>2, Stored DEF IsItsOwn
      <4>2. normalize_log_opcode(stored(code[k].op)) = code[k].op
        BY <2>3, <3>2, <4>1, LogNumbersAreUndone DEF stored
      <4>3. QED
        BY <1>2, <2>3, <3>1, <3>2, <4>2 DEF normalize_opcode, Numbered
    <3>3. CASE build.log = FALSE
      BY <1>2, <2>3, <3>1, <3>3 DEF normalize_opcode, Numbered, stored
    <3>4. QED
      BY <1>1, <3>2, <3>3
  <2>4. QED
    BY <1>1, <2>1, <2>2, <2>3 DEF NsisVersion
<1>4. resolve_opcode(stored(code[k].op)) = RowOf(build, code[k].op)
  <2>1. CASE build.version = "V1"
    BY <1>2, <2>1 DEF resolve_opcode, RowOf, stored
  <2>2. CASE build.version # "V1"
    BY <1>2, <1>3, <2>2 DEF resolve_opcode, RowOf, Numbered
  <2>3. QED
    BY <2>1, <2>2
<1>5. QED
  BY <1>1, <1>3, <1>4

(* An entry yielded is the one stored, and read as it was compiled.        *)
LEMMA ReadStep ==
  ASSUME Inv, ReadEntry
  PROVE  ItemIsRead'
<1>1. /\ phase = "Read" /\ phase' = phase /\ build' = build /\ code' = code
      /\ stub' = stub /\ index' = index + 1
  BY DEF ReadEntry, file
<1>2. Evident' = Evident
  BY <1>1 DEF Evident, TellsLogging
<1>3. CASE index' \in DOMAIN code
  <2> DEFINE k == index'
             s == stored(code[k].op)
  <2>1. item' = [kind |-> "Entry", op |-> normalize_opcode(s), row |-> resolve_opcode(s),
                 which |-> s, offsets |-> code[k].values]
    BY <1>3 DEF ReadEntry, Entry
  <2>2. /\ item'.which = s /\ item'.offsets = code[k].values
        /\ item'.op = normalize_opcode(s) /\ item'.row = resolve_opcode(s)
    BY <2>1
  <2>3. Evident => /\ normalize_opcode(s) = Numbered(code[k].op)
                  /\ resolve_opcode(s) = RowOf(build, code[k].op)
    BY <1>1, <1>3, Resolved
  <2>4. /\ stored(code[index].op)' = s
        /\ Numbered(code[index].op)' = Numbered(code[k].op)
        /\ RowOf(build, code[index].op)' = RowOf(build, code[k].op)
    BY <1>1 DEF stored, Numbered, RowOf
  <2>5. QED
    BY <1>1, <1>2, <1>3, <2>2, <2>3, <2>4 DEF ItemIsRead
<1>4. CASE index' \notin DOMAIN code
  <2>1. item' = TooShort
    BY <1>4 DEF ReadEntry
  <2>2. QED
    BY <2>1 DEF TooShort, ItemIsRead
<1>5. QED
  BY <1>3, <1>4

-----------------------------------------------------------------------------
(* What no step of another kind disturbs.                                  *)
LEMMA FileStays ==
  ASSUME Inv, UNCHANGED file, phase' \in {"ParkSub", "LogBuild", "Nsis2Sub", "Read"}
  PROVE  FileOK' /\ Evident' = Evident
  BY DEF Inv, FileOK, file, Evident, TellsLogging

(* The entry yielded last, while nothing is read.                          *)
LEMMA ItemStays ==
  ASSUME Inv, UNCHANGED <<file, index, item>>, phase = "Read" => phase' = "Read"
  PROVE  ItemIsRead'
<1>1. Evident' = Evident
  BY DEF file, Evident, TellsLogging
<1>2. /\ stored(code[index].op)' = stored(code[index].op)
      /\ Numbered(code[index].op)' = Numbered(code[index].op)
      /\ RowOf(build, code[index].op)' = RowOf(build, code[index].op)
  BY DEF file, stored, Numbered, RowOf
<1>3. QED
  BY <1>1, <1>2 DEF Inv, ItemIsRead, file

(* The invariant holds at the start, and every step keeps it.              *)
LEMMA InvInit == Init => Inv
<1> SUFFICES ASSUME Init PROVE Inv
  OBVIOUS
<1>1. FileOK
  BY DEF Init, FileOK
<1>2. ParkIsKnown /\ LogIsKnown /\ AgeIsKnown /\ ItemIsRead
  BY DEF Init, ParkIsKnown, LogIsKnown, AgeIsKnown, ItemIsRead, NoItem
<1>3. QED
  BY <1>1, <1>2 DEF Inv

LEMMA InvNext == Inv /\ [Next]_vars => Inv'
<1> SUFFICES ASSUME Inv, [Next]_vars PROVE Inv'
  OBVIOUS
<1>1. CASE DetectParkSub
  <2>1. /\ UNCHANGED <<file, log_build, nsis2_sub, index, item>>
        /\ phase = "ParkSub" /\ phase' = "LogBuild"
    BY <1>1 DEF DetectParkSub
  <2>2. FileOK'
    BY <2>1, FileStays
  <2>3. ParkIsKnown'
    BY <1>1, ParkStep
  <2>4. LogIsKnown' /\ AgeIsKnown'
    BY <2>1 DEF Inv, LogIsKnown, AgeIsKnown, file
  <2>5. ItemIsRead'
    BY <2>1, ItemStays
  <2>6. QED
    BY <2>2, <2>3, <2>4, <2>5 DEF Inv
<1>2. CASE DetectLogBuild
  <2>1. /\ UNCHANGED <<file, park_sub, nsis2_sub, index, item>>
        /\ phase = "LogBuild" /\ phase' = "Nsis2Sub"
    BY <1>2 DEF DetectLogBuild
  <2>2. FileOK' /\ Evident' = Evident
    BY <2>1, FileStays
  <2>3. ParkIsKnown' /\ AgeIsKnown'
    BY <2>1, <2>2 DEF Inv, ParkIsKnown, AgeIsKnown, file
  <2>4. LogIsKnown'
    BY <1>2, LogStep
  <2>5. ItemIsRead'
    BY <2>1, ItemStays
  <2>6. QED
    BY <2>2, <2>3, <2>4, <2>5 DEF Inv
<1>3. CASE DetectNsis2Sub
  <2>1. /\ UNCHANGED <<file, park_sub, log_build, index, item>>
        /\ phase = "Nsis2Sub" /\ phase' = "Read"
    BY <1>3 DEF DetectNsis2Sub
  <2>2. FileOK' /\ Evident' = Evident
    BY <2>1, FileStays
  <2>3. ParkIsKnown' /\ LogIsKnown'
    BY <2>1, <2>2 DEF Inv, ParkIsKnown, LogIsKnown, file
  <2>4. AgeIsKnown'
    BY <1>3, AgeStep
  <2>5. ItemIsRead'
    BY <2>1, ItemStays
  <2>6. QED
    BY <2>2, <2>3, <2>4, <2>5 DEF Inv
<1>4. CASE ReadEntry
  <2>1. UNCHANGED <<file, phase, park_sub, log_build, nsis2_sub>> /\ phase = "Read"
    BY <1>4 DEF ReadEntry
  <2>2. FileOK' /\ Evident' = Evident
    BY <2>1, FileStays
  <2>3. ParkIsKnown' /\ LogIsKnown' /\ AgeIsKnown'
    BY <2>1, <2>2 DEF Inv, ParkIsKnown, LogIsKnown, AgeIsKnown, file
  <2>4. ItemIsRead'
    BY <1>4, ReadStep
  <2>5. QED
    BY <2>2, <2>3, <2>4 DEF Inv
<1>5. CASE UNCHANGED vars
  <2>1. /\ UNCHANGED <<file, phase, park_sub, log_build, nsis2_sub>>
        /\ UNCHANGED <<file, index, item>>
    BY <1>5 DEF vars
  <2>2. FileOK' /\ Evident' = Evident
    BY <2>1, FileStays DEF Inv, FileOK
  <2>3. ParkIsKnown' /\ LogIsKnown' /\ AgeIsKnown'
    BY <2>1, <2>2 DEF Inv, ParkIsKnown, LogIsKnown, AgeIsKnown, file
  <2>4. ItemIsRead'
    BY <2>1, ItemStays
  <2>5. QED
    BY <2>2, <2>3, <2>4 DEF Inv
<1>6. QED
  BY <1>1, <1>2, <1>3, <1>4, <1>5 DEF Next, Done

LEMMA AlwaysInv == Spec => []Inv
  BY InvInit, InvNext, PTL DEF Spec

(* Detection errs towards the plain build only: whatever the instructions  *)
(* of a file and whether or not its stub can be read, steps 5c to 5e give  *)
(* it no instruction its compiler did not have and no older variables.     *)
THEOREM NothingIsReadIntoABuild == Spec => []BuildIsNotOverstated
<1>1. Inv => BuildIsNotOverstated
  BY TheBuild, FontCounts
  DEF Inv, ParkIsKnown, LogIsKnown, AgeIsKnown, BuildIsNotOverstated
<1>2. QED
  BY <1>1, AlwaysInv, PTL

(* Where the file shows which compiler wrote it, EntryIter and the readers *)
(* of its entries find the instruction that was compiled, for every build  *)
(* and every entry, and read as strings the operands that were strings.    *)
THEOREM EntriesAreUnderstood == Spec => []EntriesReadAsWritten
<1>1. Inv => EntriesReadAsWritten
  <2> SUFFICES ASSUME Inv, Evident, item.kind = "Entry"
               PROVE  /\ item.op = Numbered(code[index].op) /\ item.row # NoRow
                      /\ ReadAsStrings = code[index].strings
    BY DEF EntriesReadAsWritten
  <2> DEFINE i == code[index]
  <2>1. /\ phase = "Read" /\ index \in DOMAIN code
        /\ item.which = stored(i.op) /\ item.offsets = i.values
        /\ item.op = Numbered(i.op) /\ item.row = RowOf(build, i.op)
    BY DEF Inv, ItemIsRead
  <2>2. /\ RowOf(build, i.op) # NoRow
        /\ i.strings = SetStrings(LayoutOf(build, i), i.values)
    BY <2>1, Stored DEF Inv, IsItsOwn
  <2>3. resolve_opcode(item.which) = RowOf(build, i.op)
    BY <2>1, Resolved
  <2>4. Layout = LayoutOf(build, i)
    BY <2>1, <2>3 DEF Layout, LayoutOf, param_layout
  <2>5. QED
    BY <2>1, <2>2, <2>4 DEF ReadAsStrings
<1>2. QED
  BY <1>1, AlwaysInv, PTL

-----------------------------------------------------------------------------
(* The tables of info.rs: what the rows hold, row by row.                  *)

(* The first rows of a longer table are those of its first part.           *)
Begins(table, s, m) == \A k \in 1 .. m : table[k] = s[k]

(* A longer table begins with its first part.                              *)
LEMMA Appended ==
  ASSUME NEW S, NEW m, NEW n, NEW s, NEW t, IsPart(s, S, m), IsPart(t, S, n)
  PROVE  Begins(s \o t, s, m)
  BY DEF IsPart, Begins

(* Where each piece of OPCODES is.                                         *)
LEMMA PiecesAreFound ==
  /\ Begins(Table!OPCODES, Table!OpcodesFrom0, 15)
  /\ Ends(Table!OPCODES, Table!OpcodesFrom15, 15, 14)
  /\ Ends(Table!OPCODES, Table!OpcodesFrom29, 29, 15)
  /\ Ends(Table!OPCODES, Table!OpcodesFrom44, 44, 14)
  /\ Ends(Table!OPCODES, Table!OpcodesFrom58, 58, 16)
  /\ Len(Table!OPCODES) = 74
<1> DEFINE a == Table!OpcodesFrom0
           b == Table!OpcodesFrom15
           c == Table!OpcodesFrom29
           d == Table!OpcodesFrom44
           e == Table!OpcodesFrom58
           S == RowsOf(a) \cup RowsOf(b) \cup RowsOf(c) \cup RowsOf(d) \cup RowsOf(e)
           ab == a \o b
           abc == ab \o c
           abcd == abc \o d
<1>1. /\ IsPart(a, S, 15) /\ IsPart(b, S, 14) /\ IsPart(c, S, 15)
      /\ IsPart(d, S, 14) /\ IsPart(e, S, 16)
  <2> HIDE DEF a, b, c, d, e
  <2>1. QED
    BY Pieces DEF a, b, c, d, e, IsPart
<1>2. Table!OPCODES = abcd \o e
  BY DEF Table!OPCODES
<1> HIDE DEF a, b, c, d, e, S
<1>3. IsPart(ab, S, 15 + 14) /\ Ends(ab, b, 15, 14) /\ Begins(ab, a, 15)
  BY <1>1, Concatenated, Appended, Zenon
<1> HIDE DEF ab
<1>4. /\ IsPart(abc, S, 15 + 14 + 15) /\ Ends(abc, c, 15 + 14, 15)
      /\ Begins(abc, ab, 15 + 14)
  BY <1>1, <1>3, Concatenated, Appended, Zenon
<1> HIDE DEF abc
<1>5. /\ IsPart(abcd, S, 15 + 14 + 15 + 14) /\ Ends(abcd, d, 15 + 14 + 15, 14)
      /\ Begins(abcd, abc, 15 + 14 + 15)
  BY <1>1, <1>4, Concatenated, Appended, Zenon
<1> HIDE DEF abcd
<1>6. /\ IsPart(Table!OPCODES, S, 15 + 14 + 15 + 14 + 16)
      /\ Ends(Table!OPCODES, e, 15 + 14 + 15 + 14, 16)
      /\ Begins(Table!OPCODES, abcd, 15 + 14 + 15 + 14)
  BY <1>1, <1>2, <1>5, Concatenated, Appended, Zenon
<1>7. \A k \in 1 .. 58 : Table!OPCODES[k] = abcd[k]
  BY <1>6 DEF Begins
<1>8. \A k \in 1 .. 44 : abcd[k] = abc[k]
  BY <1>5 DEF Begins
<1>9. \A k \in 1 .. 29 : abc[k] = ab[k]
  BY <1>4 DEF Begins
<1>10. /\ Begins(Table!OPCODES, a, 15) /\ Ends(Table!OPCODES, b, 15, 14)
  BY <1>3, <1>7, <1>8, <1>9 DEF Begins, Ends
<1>11. Ends(Table!OPCODES, c, 29, 15)
  BY <1>4, <1>7, <1>8 DEF Ends
<1>12. Ends(Table!OPCODES, d, 44, 14)
  BY <1>5, <1>7 DEF Ends
<1>13. QED
  BY <1>6, <1>10, <1>11, <1>12 DEF a, b, c, d, e, IsPart

(* The fields of an effect.                                                *)
EffectFields ==
  {"outdir", "instdir", "hidden", "flags_read", "flags_written", "stack", "plugin",
   "terminates", "outside"}

(* Effects that do not run a plugin, end a script as said, and use the     *)
(* output directory as said.                                               *)
Acts(e, terminates, outdir) ==
  /\ e = [x \in EffectFields |-> e[x]]
  /\ e.terminates = terminates /\ e.outdir = outdir /\ e.plugin = FALSE

(* The combinators of semantics.rs change only what they are named for.    *)
LEMMA Combinators ==
  ASSUME NEW e, NEW t, NEW o, Acts(e, t, o)
  PROVE  /\ Acts(Table!acting_outside(e), t, o)
         /\ \A flags : Acts(Table!reading(e, flags), t, o) /\ Acts(Table!writing(e, flags), t, o)
         /\ \A x : Acts(Table!with_termination(e, x), x, o)
         /\ \A x : Acts(Table!with_outdir(e, x), t, x)
         /\ \A x : Acts(Table!with_stack(e, x), t, o)
  BY DEF Acts, EffectFields, Table!acting_outside, Table!reading, Table!writing,
     Table!with_termination, Table!with_outdir, Table!with_stack

(* An instruction without effects goes on, and leaves the output           *)
(* directory.                                                              *)
LEMMA NothingActs == Acts(Table!NONE, "Never", "None")
  BY DEF Acts, EffectFields, Table!NONE

(* What the slots of an instruction that does not jump hold.               *)
PlainTypes ==
  {Table!Unused, Table!String, Table!Number, Table!RawString, Table!Literal,
   Table!DataOffset, Table!OUT, Table!MAY_OUT, Table!IN_VAR,
   Table!Flag("Read"), Table!Flag("Write"), Table!Flag("Update")}

SlotTypes == PlainTypes \cup {Table!Jump}

(* None of them is a jump.                                                 *)
LEMMA PlainIsNoJump == \A type \in PlainTypes : type.kind # "Jump"
  BY DEF PlainTypes, Table!Unused, Table!String, Table!Number, Table!RawString, Table!Literal,
         Table!DataOffset, Table!OUT, Table!MAY_OUT, Table!IN_VAR, Table!Variable, Table!Flag

(* Each of them is what a slot may hold.                                   *)
LEMMA Members ==
  /\ Table!Unused \in PlainTypes /\ Table!String \in PlainTypes /\ Table!Number \in PlainTypes
  /\ Table!RawString \in PlainTypes /\ Table!Literal \in PlainTypes
  /\ Table!DataOffset \in PlainTypes /\ Table!OUT \in PlainTypes
  /\ Table!MAY_OUT \in PlainTypes /\ Table!IN_VAR \in PlainTypes
  /\ Table!Flag("Read") \in PlainTypes /\ Table!Flag("Write") \in PlainTypes
  /\ Table!Flag("Update") \in PlainTypes
  /\ Table!Jump \in SlotTypes /\ PlainTypes \subseteq SlotTypes
  BY DEF PlainTypes, SlotTypes

(* The instructions that jump.                                             *)
JumpRows == {2, 5, 12, 14, 22, 26, 28, 34}

(* The operands through which each of them jumps.                          *)
JumpSlots ==
  ({2, 5} \X {0}) \cup ({12, 34} \X {1, 2}) \cup ({14} \X {0, 1})
    \cup ({22} \X {3, 5}) \cup ({26} \X {2, 3}) \cup ({28} \X {2, 3, 4})

(* The numbers and names the layout and the flow analysis know             *)
(* instructions by.                                                        *)
FormNames == {<<11, "CREATEDIR">>, <<44, "REGISTERDLL">>}

(* What a row of number op holds.                                          *)
HasSlots(row, op) ==
  /\ row.types \in [0 .. 5 -> SlotTypes]
  /\ op \notin JumpRows => row.types \in [0 .. 5 -> PlainTypes]

HasFlowName(row, op) == \A p \in FlowOpcodes : op = p[1] <=> row.op = p[2]
HasFormName(row, op) == \A p \in FormNames : op = p[1] <=> row.op = p[2]

HasEffects(row, op) ==
  \E t \in {"Never", "May", "Always"}, o \in {"None", "Read"} :
    Acts(row.effects, t, o) /\ (t = "Always" <=> op \in {3, 4})

HasJumps(row, op) ==
  \A slot \in 0 .. 5 :
    (slot < row.count /\ row.types[slot].kind = "Jump") <=> <<op, slot>> \in JumpSlots

IsRowOf(row, op) ==
  /\ HasSlots(row, op) /\ HasFlowName(row, op) /\ HasFormName(row, op) /\ HasEffects(row, op)
  /\ HasJumps(row, op)

(* The effects most rows have.                                             *)
LEMMA TableEffects ==
  /\ Acts(Table!NONE, "Never", "None") /\ Acts(Table!OUTSIDE, "Never", "None")
  /\ Acts(Table!FAILS, "Never", "None") /\ Acts(Table!FAILS_OUTSIDE, "Never", "None")
  /\ Acts(Table!FAILS_REPORTING, "Never", "None")
  /\ Acts(Table!REPORTING_OUTSIDE, "Never", "None")
  /\ Acts(Table!REGISTRY, "Never", "None") /\ Acts(Table!REGISTRY_OUTSIDE, "Never", "None")
  BY NothingActs, Combinators
  DEF Table!OUTSIDE, Table!FAILS, Table!FAILS_OUTSIDE, Table!FAILS_REPORTING,
      Table!REPORTING_OUTSIDE, Table!REGISTRY, Table!REGISTRY_OUTSIDE, Table!failing, Table!reporting

(* The effects single rows have.                                           *)
LEMMA RarerEffects ==
  /\ Acts(Table!acting_outside(Table!with_termination(Table!reporting(Table!NONE), "Always")),
          "Always", "None")
  /\ Acts(Table!with_termination(Table!NONE, "Always"), "Always", "None")
  /\ Acts(Table!with_termination(Table!NONE, "May"), "May", "None")
  /\ Acts(Table!acting_outside(Table!reporting(Table!NONE)), "Never", "None")
  /\ Acts(Table!acting_outside(Table!with_termination(
            Table!with_outdir(Table!asking(Table!FAILS_REPORTING), "Read"), "May")), "May", "Read")
  /\ Acts(Table!acting_outside(Table!asking(Table!FAILS)), "Never", "None")
  /\ Acts(Table!with_stack(Table!NONE, "Push"), "Never", "None")
  /\ Acts(Table!acting_outside(Table!with_outdir(Table!FAILS_REPORTING, "Read")), "Never", "Read")
  /\ Acts(Table!acting_outside(Table!writing(Table!NONE, {"RebootCalled"})), "Never", "None")
  BY TableEffects, Combinators DEF Table!reporting, Table!asking

(* Every row of info.rs: its slots, piece by piece.                        *)
LEMMA SlotsOfRows ==
  /\ \A k \in 1 .. 15 : HasSlots(Table!OpcodesFrom0[k], k - 1)
  /\ \A k \in 1 .. 14 : HasSlots(Table!OpcodesFrom15[k], 14 + k)
  /\ \A k \in 1 .. 15 : HasSlots(Table!OpcodesFrom29[k], 28 + k)
  /\ \A k \in 1 .. 14 : HasSlots(Table!OpcodesFrom44[k], 43 + k)
  /\ \A k \in 1 .. 16 : HasSlots(Table!OpcodesFrom58[k], 57 + k)
<1>1. \A k \in 1 .. 15 : HasSlots(Table!OpcodesFrom0[k], k - 1)
  BY Members, SMTT(60)
  DEF Table!OpcodesFrom0, Table!Op, Table!Typed, Table!Slots, HasSlots, JumpRows
<1>2. \A k \in 1 .. 14 : HasSlots(Table!OpcodesFrom15[k], 14 + k)
  BY Members, SMTT(60)
  DEF Table!OpcodesFrom15, Table!Op, Table!Typed, Table!Slots, HasSlots, JumpRows
<1>3. \A k \in 1 .. 15 : HasSlots(Table!OpcodesFrom29[k], 28 + k)
  BY Members, SMTT(60)
  DEF Table!OpcodesFrom29, Table!Op, Table!Typed, Table!Slots, HasSlots, JumpRows
<1>4. \A k \in 1 .. 14 : HasSlots(Table!OpcodesFrom44[k], 43 + k)
  BY Members, SMTT(60)
  DEF Table!OpcodesFrom44, Table!Op, Table!Typed, Table!Slots, HasSlots, JumpRows
<1>5. \A k \in 1 .. 16 : HasSlots(Table!OpcodesFrom58[k], 57 + k)
  BY Members, SMTT(60)
  DEF Table!OpcodesFrom58, Table!Op, Table!Typed, Table!Slots, HasSlots, JumpRows
<1>6. QED
  BY <1>1, <1>2, <1>3, <1>4, <1>5

(* The rows control flow knows by number have the names it knows.          *)
LEMMA FlowNamesOfRows ==
  /\ \A k \in 1 .. 15 : HasFlowName(Table!OpcodesFrom0[k], k - 1)
  /\ \A k \in 1 .. 14 : HasFlowName(Table!OpcodesFrom15[k], 14 + k)
  /\ \A k \in 1 .. 15 : HasFlowName(Table!OpcodesFrom29[k], 28 + k)
  /\ \A k \in 1 .. 14 : HasFlowName(Table!OpcodesFrom44[k], 43 + k)
  /\ \A k \in 1 .. 16 : HasFlowName(Table!OpcodesFrom58[k], 57 + k)
<1>1. \A k \in 1 .. 15 : HasFlowName(Table!OpcodesFrom0[k], k - 1)
  BY SMTT(60) DEF Table!OpcodesFrom0, Table!Op, HasFlowName, FlowOpcodes
<1>2. \A k \in 1 .. 14 : HasFlowName(Table!OpcodesFrom15[k], 14 + k)
  BY SMTT(60) DEF Table!OpcodesFrom15, Table!Op, HasFlowName, FlowOpcodes
<1>3. \A k \in 1 .. 15 : HasFlowName(Table!OpcodesFrom29[k], 28 + k)
  BY SMTT(60) DEF Table!OpcodesFrom29, Table!Op, HasFlowName, FlowOpcodes
<1>4. \A k \in 1 .. 14 : HasFlowName(Table!OpcodesFrom44[k], 43 + k)
  BY SMTT(60) DEF Table!OpcodesFrom44, Table!Op, HasFlowName, FlowOpcodes
<1>5. \A k \in 1 .. 16 : HasFlowName(Table!OpcodesFrom58[k], 57 + k)
  BY SMTT(60) DEF Table!OpcodesFrom58, Table!Op, HasFlowName, FlowOpcodes
<1>6. QED
  BY <1>1, <1>2, <1>3, <1>4, <1>5

(* The rows of SetOutPath and of a plugin call have their names.           *)
LEMMA FormNamesOfRows ==
  /\ \A k \in 1 .. 15 : HasFormName(Table!OpcodesFrom0[k], k - 1)
  /\ \A k \in 1 .. 14 : HasFormName(Table!OpcodesFrom15[k], 14 + k)
  /\ \A k \in 1 .. 15 : HasFormName(Table!OpcodesFrom29[k], 28 + k)
  /\ \A k \in 1 .. 14 : HasFormName(Table!OpcodesFrom44[k], 43 + k)
  /\ \A k \in 1 .. 16 : HasFormName(Table!OpcodesFrom58[k], 57 + k)
<1>1. \A k \in 1 .. 15 : HasFormName(Table!OpcodesFrom0[k], k - 1)
  BY SMTT(60) DEF Table!OpcodesFrom0, Table!Op, HasFormName, FormNames
<1>2. \A k \in 1 .. 14 : HasFormName(Table!OpcodesFrom15[k], 14 + k)
  BY SMTT(60) DEF Table!OpcodesFrom15, Table!Op, HasFormName, FormNames
<1>3. \A k \in 1 .. 15 : HasFormName(Table!OpcodesFrom29[k], 28 + k)
  BY SMTT(60) DEF Table!OpcodesFrom29, Table!Op, HasFormName, FormNames
<1>4. \A k \in 1 .. 14 : HasFormName(Table!OpcodesFrom44[k], 43 + k)
  BY SMTT(60) DEF Table!OpcodesFrom44, Table!Op, HasFormName, FormNames
<1>5. \A k \in 1 .. 16 : HasFormName(Table!OpcodesFrom58[k], 57 + k)
  BY SMTT(60) DEF Table!OpcodesFrom58, Table!Op, HasFormName, FormNames
<1>6. QED
  BY <1>1, <1>2, <1>3, <1>4, <1>5

(* Only Abort and Quit always end the script.                              *)
LEMMA EffectsOfRows ==
  /\ \A k \in 1 .. 15 : HasEffects(Table!OpcodesFrom0[k], k - 1)
  /\ \A k \in 1 .. 14 : HasEffects(Table!OpcodesFrom15[k], 14 + k)
  /\ \A k \in 1 .. 15 : HasEffects(Table!OpcodesFrom29[k], 28 + k)
  /\ \A k \in 1 .. 14 : HasEffects(Table!OpcodesFrom44[k], 43 + k)
  /\ \A k \in 1 .. 16 : HasEffects(Table!OpcodesFrom58[k], 57 + k)
<1>1. \A k \in 1 .. 15 : HasEffects(Table!OpcodesFrom0[k], k - 1)
  BY TableEffects, RarerEffects, SMTT(60)
  DEF Table!OpcodesFrom0, Table!Op, HasEffects
<1>2. \A k \in 1 .. 14 : HasEffects(Table!OpcodesFrom15[k], 14 + k)
  BY TableEffects, RarerEffects, SMTT(60)
  DEF Table!OpcodesFrom15, Table!Op, HasEffects
<1>3. \A k \in 1 .. 15 : HasEffects(Table!OpcodesFrom29[k], 28 + k)
  BY TableEffects, RarerEffects, SMTT(60)
  DEF Table!OpcodesFrom29, Table!Op, HasEffects
<1>4. \A k \in 1 .. 14 : HasEffects(Table!OpcodesFrom44[k], 43 + k)
  BY TableEffects, RarerEffects, SMTT(60)
  DEF Table!OpcodesFrom44, Table!Op, HasEffects
<1>5. \A k \in 1 .. 16 : HasEffects(Table!OpcodesFrom58[k], 57 + k)
  BY TableEffects, RarerEffects, SMTT(60)
  DEF Table!OpcodesFrom58, Table!Op, HasEffects
<1>6. QED
  BY <1>1, <1>2, <1>3, <1>4, <1>5

(* The rows declare jumps where the analysis looks for them.               *)
LEMMA JumpsOfRows ==
  /\ \A k \in 1 .. 15 : HasJumps(Table!OpcodesFrom0[k], k - 1)
  /\ \A k \in 1 .. 14 : HasJumps(Table!OpcodesFrom15[k], 14 + k)
  /\ \A k \in 1 .. 15 : HasJumps(Table!OpcodesFrom29[k], 28 + k)
  /\ \A k \in 1 .. 14 : HasJumps(Table!OpcodesFrom44[k], 43 + k)
  /\ \A k \in 1 .. 16 : HasJumps(Table!OpcodesFrom58[k], 57 + k)
<1>1. \A k \in 1 .. 15 : HasJumps(Table!OpcodesFrom0[k], k - 1)
  BY PlainIsNoJump, Members, SMTT(60)
  DEF Table!OpcodesFrom0, Table!Op, Table!Typed, Table!Slots, HasJumps, JumpSlots, Table!Jump
<1>2. \A k \in 1 .. 14 : HasJumps(Table!OpcodesFrom15[k], 14 + k)
  BY PlainIsNoJump, Members, SMTT(60)
  DEF Table!OpcodesFrom15, Table!Op, Table!Typed, Table!Slots, HasJumps, JumpSlots, Table!Jump
<1>3. \A k \in 1 .. 15 : HasJumps(Table!OpcodesFrom29[k], 28 + k)
  BY PlainIsNoJump, Members, SMTT(60)
  DEF Table!OpcodesFrom29, Table!Op, Table!Typed, Table!Slots, HasJumps, JumpSlots, Table!Jump
<1>4. \A k \in 1 .. 14 : HasJumps(Table!OpcodesFrom44[k], 43 + k)
  BY PlainIsNoJump, Members, SMTT(60)
  DEF Table!OpcodesFrom44, Table!Op, Table!Typed, Table!Slots, HasJumps, JumpSlots, Table!Jump
<1>5. \A k \in 1 .. 16 : HasJumps(Table!OpcodesFrom58[k], 57 + k)
  BY PlainIsNoJump, Members, SMTT(60)
  DEF Table!OpcodesFrom58, Table!Op, Table!Typed, Table!Slots, HasJumps, JumpSlots, Table!Jump
<1>6. QED
  BY <1>1, <1>2, <1>3, <1>4, <1>5

(* All of it at once.                                                      *)
LEMMA RowsOfPieces ==
  /\ \A k \in 1 .. 15 : IsRowOf(Table!OpcodesFrom0[k], k - 1)
  /\ \A k \in 1 .. 14 : IsRowOf(Table!OpcodesFrom15[k], 14 + k)
  /\ \A k \in 1 .. 15 : IsRowOf(Table!OpcodesFrom29[k], 28 + k)
  /\ \A k \in 1 .. 14 : IsRowOf(Table!OpcodesFrom44[k], 43 + k)
  /\ \A k \in 1 .. 16 : IsRowOf(Table!OpcodesFrom58[k], 57 + k)
  BY SlotsOfRows, FlowNamesOfRows, FormNamesOfRows, EffectsOfRows, JumpsOfRows DEF IsRowOf

(* Where the rows of each piece are looked up.                             *)
LEMMA Lookups ==
  /\ \A k \in 1 .. 15 : lookup(k - 1) = Table!OpcodesFrom0[k]
  /\ \A k \in 1 .. 14 : lookup(14 + k) = Table!OpcodesFrom15[k]
  /\ \A k \in 1 .. 15 : lookup(28 + k) = Table!OpcodesFrom29[k]
  /\ \A k \in 1 .. 14 : lookup(43 + k) = Table!OpcodesFrom44[k]
  /\ \A k \in 1 .. 16 : lookup(57 + k) = Table!OpcodesFrom58[k]
<1>1. \A op \in 0 .. 73 : lookup(op) = Table!OPCODES[op + 1]
  BY PiecesAreFound DEF lookup
<1> HIDE DEF lookup
<1>2. \A k \in 1 .. 15 : lookup(k - 1) = Table!OpcodesFrom0[k]
  BY <1>1, PiecesAreFound DEF Begins
<1>3. \A k \in 1 .. 14 : lookup(14 + k) = Table!OpcodesFrom15[k]
  <2> TAKE k \in 1 .. 14
  <2>1. lookup(14 + k) = Table!OPCODES[15 + k]
    BY <1>1
  <2>2. QED
    BY <2>1, PiecesAreFound DEF Ends
<1>4. \A k \in 1 .. 15 : lookup(28 + k) = Table!OpcodesFrom29[k]
  <2> TAKE k \in 1 .. 15
  <2>1. lookup(28 + k) = Table!OPCODES[29 + k]
    BY <1>1
  <2>2. QED
    BY <2>1, PiecesAreFound DEF Ends
<1>5. \A k \in 1 .. 14 : lookup(43 + k) = Table!OpcodesFrom44[k]
  <2> TAKE k \in 1 .. 14
  <2>1. lookup(43 + k) = Table!OPCODES[44 + k]
    BY <1>1
  <2>2. QED
    BY <2>1, PiecesAreFound DEF Ends
<1>6. \A k \in 1 .. 16 : lookup(57 + k) = Table!OpcodesFrom58[k]
  <2> TAKE k \in 1 .. 16
  <2>1. lookup(57 + k) = Table!OPCODES[58 + k]
    BY <1>1
  <2>2. QED
    BY <2>1, PiecesAreFound DEF Ends
<1>7. QED
  BY <1>2, <1>3, <1>4, <1>5, <1>6

(* The row of every number of the table.                                   *)
LEMMA Rows == \A op \in 0 .. 73 : IsRowOf(lookup(op), op)
<1> TAKE op \in 0 .. 73
<1>1. CASE op \in 0 .. 14
  <2>1. op + 1 \in 1 .. 15 /\ op = (op + 1) - 1
    BY <1>1
  <2>2. QED
    BY <2>1, RowsOfPieces, Lookups
<1>2. CASE op \in 15 .. 28
  <2>1. op - 14 \in 1 .. 14 /\ op = 14 + (op - 14)
    BY <1>2
  <2>2. QED
    BY <2>1, RowsOfPieces, Lookups
<1>3. CASE op \in 29 .. 43
  <2>1. op - 28 \in 1 .. 15 /\ op = 28 + (op - 28)
    BY <1>3
  <2>2. QED
    BY <2>1, RowsOfPieces, Lookups
<1>4. CASE op \in 44 .. 57
  <2>1. op - 43 \in 1 .. 14 /\ op = 43 + (op - 43)
    BY <1>4
  <2>2. QED
    BY <2>1, RowsOfPieces, Lookups
<1>5. CASE op \in 58 .. 73
  <2>1. op - 57 \in 1 .. 16 /\ op = 57 + (op - 57)
    BY <1>5
  <2>2. QED
    BY <2>1, RowsOfPieces, Lookups
<1>6. QED
  BY <1>1, <1>2, <1>3, <1>4, <1>5

(* What the rows of the typed views hold in the slots the views read.      *)
LEMMA ViewRows ==
  /\ lookup(20).op = "EXTRACTFILE" /\ lookup(40).op = "SHELLEXEC"
  /\ lookup(45).op = "CREATESHORTCUT" /\ lookup(50).op = "DELREG"
  /\ lookup(51).op = "WRITEREG" /\ lookup(52).op = "READREGSTR"
  /\ lookup(62).op = "WRITEUNINSTALLER"
  /\ lookup(20).types[1] = Table!String /\ lookup(20).types[2] = Table!DataOffset
  /\ \A slot \in 0 .. 2 :
       /\ lookup(40).types[slot] = Table!String
       /\ lookup(45).types[slot] = Table!String
  /\ lookup(41) = Table!Op("EXECUTE", 3, <<Table!String, Table!MAY_OUT, Table!Literal>>,
                           Table!REPORTING_OUTSIDE)
  /\ \A slot \in 0 .. 1 : lookup(44).types[slot] = Table!String
  /\ lookup(50).types[1] = Table!Literal /\ lookup(52).types[1] = Table!Literal
  /\ \A slot \in 2 .. 3 :
       /\ lookup(50).types[slot] = Table!String
       /\ lookup(52).types[slot] = Table!String
  /\ lookup(51).types[0] = Table!Literal
  /\ \A slot \in 1 .. 2 : lookup(51).types[slot] = Table!String
  /\ lookup(62).types[0] = Table!String /\ lookup(62).types[1] = Table!DataOffset
<1>1. lookup(14 + 6).types[1] = Table!String /\ lookup(14 + 6).types[2] = Table!DataOffset
  BY Lookups DEF Table!OpcodesFrom15, Table!Op, Table!Typed, Table!Slots
<1>2. /\ \A slot \in 0 .. 2 : lookup(28 + 12).types[slot] = Table!String
      /\ lookup(28 + 13) = Table!Op("EXECUTE", 3,
           <<Table!String, Table!MAY_OUT, Table!Literal>>, Table!REPORTING_OUTSIDE)
  BY Lookups DEF Table!OpcodesFrom29, Table!Op, Table!Typed, Table!Slots
<1>3. /\ \A slot \in 0 .. 1 : lookup(43 + 1).types[slot] = Table!String
      /\ \A slot \in 0 .. 2 : lookup(43 + 2).types[slot] = Table!String
  BY Lookups DEF Table!OpcodesFrom44, Table!Op, Table!Typed, Table!Slots
<1>4. /\ lookup(43 + 7).types[1] = Table!Literal /\ lookup(43 + 9).types[1] = Table!Literal
      /\ \A slot \in 2 .. 3 :
           /\ lookup(43 + 7).types[slot] = Table!String
           /\ lookup(43 + 9).types[slot] = Table!String
  BY Lookups DEF Table!OpcodesFrom44, Table!Op, Table!Typed, Table!Slots
<1>5. /\ lookup(43 + 8).types[0] = Table!Literal
      /\ \A slot \in 1 .. 2 : lookup(43 + 8).types[slot] = Table!String
  BY Lookups DEF Table!OpcodesFrom44, Table!Op, Table!Typed, Table!Slots
<1>6. lookup(57 + 5).types[0] = Table!String /\ lookup(57 + 5).types[1] = Table!DataOffset
  BY Lookups DEF Table!OpcodesFrom58, Table!Op, Table!Typed, Table!Slots
<1>7. /\ lookup(14 + 6).op = "EXTRACTFILE" /\ lookup(28 + 12).op = "SHELLEXEC"
      /\ lookup(57 + 5).op = "WRITEUNINSTALLER"
  <2>1. lookup(14 + 6).op = "EXTRACTFILE"
    BY Lookups DEF Table!OpcodesFrom15, Table!Op
  <2>2. lookup(28 + 12).op = "SHELLEXEC"
    BY Lookups DEF Table!OpcodesFrom29, Table!Op
  <2>3. lookup(57 + 5).op = "WRITEUNINSTALLER"
    BY Lookups DEF Table!OpcodesFrom58, Table!Op
  <2>4. QED
    BY <2>1, <2>2, <2>3
<1>8. /\ lookup(43 + 2).op = "CREATESHORTCUT" /\ lookup(43 + 7).op = "DELREG"
      /\ lookup(43 + 8).op = "WRITEREG" /\ lookup(43 + 9).op = "READREGSTR"
  BY Lookups DEF Table!OpcodesFrom44, Table!Op
<1>9. QED
  BY <1>1, <1>2, <1>3, <1>4, <1>5, <1>6, <1>7, <1>8

-----------------------------------------------------------------------------
(* What the form of an instruction changes.                                *)

IsLayout(layout, S) ==
  /\ layout = [types |-> layout.types, count |-> layout.count, effects |-> layout.effects]
  /\ layout.types \in [0 .. 5 -> S]

(* Only one slot is another.                                               *)
IsRetyped(new, layout, slot, type) ==
  /\ new.count = layout.count /\ new.effects = layout.effects
  /\ \A x \in 0 .. 5 : new.types[x] = IF x = slot THEN type ELSE layout.types[x]

(* retype gives one slot a type.                                           *)
LEMMA Retyped ==
  ASSUME NEW S, NEW layout, IsLayout(layout, S), NEW slot \in 0 .. 5, NEW type \in S
  PROVE  /\ IsLayout(Table!retype(layout, slot, type), S)
         /\ IsRetyped(Table!retype(layout, slot, type), layout, slot, type)
  BY DEF IsLayout, IsRetyped, Table!retype

(* clear leaves one slot unused.                                           *)
LEMMA Cleared ==
  ASSUME NEW S, Table!Unused \in S, NEW layout, IsLayout(layout, S), NEW slot \in 0 .. 5
  PROVE  /\ IsLayout(Table!clear(layout, slot), S)
         /\ IsRetyped(Table!clear(layout, slot), layout, slot, Table!Unused)
  BY Retyped, Zenon DEF Table!clear

(* affecting changes the effects only.                                     *)
LEMMA Affected ==
  ASSUME NEW S, NEW layout, IsLayout(layout, S), NEW effects
  PROVE  /\ IsLayout(Table!affecting(layout, effects), S)
         /\ Table!affecting(layout, effects).count = layout.count
         /\ Table!affecting(layout, effects).types = layout.types
         /\ Table!affecting(layout, effects).effects = effects
  BY DEF IsLayout, Table!affecting

(* The layout a row starts from has its slots.                             *)
LEMMA Fixed ==
  ASSUME NEW S, NEW row, row.types \in [0 .. 5 -> S]
  PROVE  /\ IsLayout(Table!fixed(row), S) /\ Table!fixed(row).types = row.types
         /\ Table!fixed(row).count = row.count
  BY DEF IsLayout, Table!fixed

(* The layout before the operands are looked at.                           *)
Start(info, v) ==
  Table!affecting(Table!fixed(info), Table!form_effects(info.op, v, info.effects))

(* The names of the instructions that have more than one form.             *)
FormsOf ==
  {"SETFLAG", "IFFLAG", "PUSHPOP", "FINDWINDOW", "SENDMESSAGE", "LOADANDSETIMAGE",
   "EXECUTE", "REGISTERDLL", "WRITEINI", "DELREG", "WRITEREG", "READREGSTR", "REGENUM",
   "FPUTS", "FPUTWS", "FSEEK", "SECTIONSET", "INSTTYPESET", "GETOSINFO", "LOG"}

(* How the operands v change the layout an instruction starts from.        *)
Takes(info, v, start, layout) ==
  /\ info.op \notin FormsOf => layout = start
  /\ info.op = "SETFLAG" =>
       layout \in {start, Table!retype(Table!clear(start, 1), 3, Table!Literal)}
  /\ info.op = "IFFLAG" =>
       layout \in {start, Table!retype(start, 2, Table!Flag("Read"))}
  /\ info.op = "PUSHPOP" => layout = Table!pushpop_form(v[1], v[2], FALSE)
  /\ info.op \in {"FINDWINDOW", "SENDMESSAGE"} => layout = Table!window_form(start, v)
  /\ info.op = "LOADANDSETIMAGE" => layout = Table!image_form(start, v)
  /\ info.op = "EXECUTE" =>
       layout = IF v[2] = 0 \/ v[1] < 0 THEN Table!clear(start, 1) ELSE start
  /\ info.op = "REGISTERDLL" =>
       layout = IF v[2] = 0 THEN Table!affecting(Table!clear(start, 2),
                                        Table!of_plugin(start.effects, Table!ExecFlag))
                ELSE start
  /\ info.op = "WRITEINI" => layout = Table!ini_form(start, v)
  /\ info.op = "DELREG" => layout =
       Table!in_context(Table!Given(v[4] # 0, Table!clear(start, 3), start), v[1])
  /\ info.op = "WRITEREG" =>
       layout = Table!in_context(Table!registry_value_form(start, v[4]), v[0])
  /\ info.op \in {"READREGSTR", "REGENUM"} => layout = Table!in_context(start, v[1])
  /\ info.op \in {"FPUTS", "FPUTWS"} =>
       layout \in {start, Table!retype(start, 1, Table!Number)}
  /\ info.op = "FSEEK" => layout \in {start, Table!clear(start, 1)}
  /\ info.op = "SECTIONSET" => layout = Table!section_form(start, v[2])
  /\ info.op = "INSTTYPESET" => layout = Table!inst_type_form(start, v[2], v[3])
  /\ info.op = "GETOSINFO" => layout = Table!os_info_form(start, v[3])
  /\ info.op = "LOG" => layout \in {start, Table!retype(start, 1, Table!Literal)}

(* param_layout takes one of its arms.                                     *)
LEMMA Arms ==
  ASSUME NEW info, NEW v
  PROVE  Takes(info, v, Start(info, v), Table!param_layout(info, v))
  BY DEF Takes, Start, Table!param_layout, FormsOf

(* A layout without a jump, and what keeps it one.                         *)
IsPlain(layout) == IsLayout(layout, PlainTypes)

(* A layout without a jump stays one when a slot gets a plain type.        *)
LEMMA PlainStays ==
  ASSUME NEW layout, IsPlain(layout)
  PROVE  /\ \A slot \in 0 .. 5 : IsPlain(Table!clear(layout, slot))
         /\ \A slot \in 0 .. 5 : \A type \in PlainTypes : IsPlain(Table!retype(layout, slot, type))
         /\ \A effects : IsPlain(Table!affecting(layout, effects))
         /\ \A root : IsPlain(Table!in_context(layout, root))
<1>1. IsLayout(layout, PlainTypes)
  BY DEF IsPlain
<1>2. \A slot \in 0 .. 5 : IsLayout(Table!clear(layout, slot), PlainTypes)
  BY <1>1, Cleared, Members
<1>3. \A slot \in 0 .. 5 : \A type \in PlainTypes : IsLayout(Table!retype(layout, slot, type), PlainTypes)
  BY <1>1, Retyped
<1>4. \A effects : IsLayout(Table!affecting(layout, effects), PlainTypes)
  BY <1>1, Affected
<1>5. QED
  BY <1>2, <1>3, <1>4 DEF IsPlain, Table!in_context

(* Likewise, one change at a time: a slot cleared,                         *)
LEMMA ClearStays ==
  ASSUME NEW layout, NEW slot \in 0 .. 5, IsPlain(layout)
  PROVE  IsPlain(Table!clear(layout, slot))
  BY PlainStays

(* a slot retyped,                                                         *)
LEMMA RetypeStays ==
  ASSUME NEW layout, NEW slot \in 0 .. 5, NEW type \in PlainTypes, IsPlain(layout)
  PROVE  IsPlain(Table!retype(layout, slot, type))
  BY PlainStays

(* the effects changed,                                                    *)
LEMMA AffectStays ==
  ASSUME NEW layout, NEW effects, IsPlain(layout)
  PROVE  IsPlain(Table!affecting(layout, effects))
  BY PlainStays

(* a change that depends on an operand,                                    *)
LEMMA GivenStays ==
  ASSUME NEW layout, NEW new, NEW condition, IsPlain(layout), IsPlain(new)
  PROVE  IsPlain(Table!Given(condition, new, layout))
  BY DEF Table!Given

(* all of the slots replaced,                                              *)
LEMMA PlainParts ==
  ASSUME NEW layout, IsPlain(layout), NEW types \in [0 .. 5 -> PlainTypes], NEW count
  PROVE  IsPlain([layout EXCEPT !.types = types, !.count = count])
<1>1. PICK t, c, e : layout = [types |-> t, count |-> c, effects |-> e]
  BY DEF IsPlain, IsLayout
<1> DEFINE mid == [layout EXCEPT !.types = types]
<1>2. [layout EXCEPT !.types = types, !.count = count] = [mid EXCEPT !.count = count]
  OBVIOUS
<1>3. mid = [types |-> types, count |-> c, effects |-> e]
  BY <1>1
<1> HIDE DEF mid
<1>4. [mid EXCEPT !.count = count] = [types |-> types, count |-> count, effects |-> e]
  BY <1>3
<1> DEFINE new == [layout EXCEPT !.types = types, !.count = count]
<1>5. new = [types |-> types, count |-> count, effects |-> e]
  BY <1>2, <1>4
<1> HIDE DEF new
<1>6. IsPlain(new)
  BY <1>5 DEF IsPlain, IsLayout
<1>7. QED
  BY <1>6 DEF new

(* The lists of slots that forms are written with.                         *)
LEMMA PlainLists ==
  /\ \A a \in PlainTypes : Table!Typed(<<a>>) \in [0 .. 5 -> PlainTypes]
  /\ \A a, b \in PlainTypes : Table!Typed(<<a, b>>) \in [0 .. 5 -> PlainTypes]
  /\ \A a, b, c \in PlainTypes : Table!Typed(<<a, b, c>>) \in [0 .. 5 -> PlainTypes]
  /\ \A a, b, c, d \in PlainTypes : Table!Typed(<<a, b, c, d>>) \in [0 .. 5 -> PlainTypes]
  /\ \A a, b, c, d, e \in PlainTypes : Table!Typed(<<a, b, c, d, e>>) \in [0 .. 5 -> PlainTypes]
<1> USE Members DEF Table!Typed, Table!Slots
<1>1. \A a \in PlainTypes : Table!Typed(<<a>>) \in [0 .. 5 -> PlainTypes]
  OBVIOUS
<1>2. \A a, b \in PlainTypes : Table!Typed(<<a, b>>) \in [0 .. 5 -> PlainTypes]
  OBVIOUS
<1>3. \A a, b, c \in PlainTypes : Table!Typed(<<a, b, c>>) \in [0 .. 5 -> PlainTypes]
  OBVIOUS
<1>4. \A a, b, c, d \in PlainTypes : Table!Typed(<<a, b, c, d>>) \in [0 .. 5 -> PlainTypes]
  OBVIOUS
<1>5. \A a, b, c, d, e \in PlainTypes : Table!Typed(<<a, b, c, d, e>>) \in [0 .. 5 -> PlainTypes]
  OBVIOUS
<1>6. QED
  BY <1>1, <1>2, <1>3, <1>4, <1>5

(* and one of the effects.                                                 *)
LEMMA HiddenStays ==
  ASSUME NEW layout, IsPlain(layout), NEW access
  PROVE  IsPlain([layout EXCEPT !.effects.hidden = access])
<1>1. PICK t, c, e : layout = [types |-> t, count |-> c, effects |-> e]
  BY DEF IsPlain, IsLayout
<1>2. [layout EXCEPT !.effects.hidden = access]
        = [types |-> t, count |-> c, effects |-> [e EXCEPT !.hidden = access]]
  BY <1>1
<1>3. QED
  BY <1>1, <1>2 DEF IsPlain, IsLayout

(* A form written with plain types has no jump.                            *)
LEMMA FormIsPlain ==
  ASSUME NEW types, NEW count, NEW effects, Table!Typed(types) \in [0 .. 5 -> PlainTypes]
  PROVE  IsPlain(Table!Form(types, count, effects))
  BY DEF Table!Form, IsPlain, IsLayout

(* Whatever form an instruction takes, it gains no jump.                   *)
LEMMA PlainForms ==
  ASSUME NEW info, NEW v, NEW start, NEW layout, IsPlain(start), Takes(info, v, start, layout)
  PROVE  IsPlain(layout)
<1>6. CASE info.op \notin FormsOf
  BY <1>6 DEF Takes
<1>7. CASE info.op \in {"SETFLAG", "IFFLAG", "FPUTS", "FPUTWS", "FSEEK", "LOG", "EXECUTE"}
  <2>1. /\ IsPlain(Table!clear(start, 1))
        /\ IsPlain(Table!retype(start, 2, Table!Flag("Read")))
        /\ IsPlain(Table!retype(start, 1, Table!Number))
        /\ IsPlain(Table!retype(start, 1, Table!Literal))
    BY ClearStays, RetypeStays, GivenStays, Members
  <2>2. IsPlain(Table!retype(Table!clear(start, 1), 3, Table!Literal))
    BY <2>1, ClearStays, RetypeStays, GivenStays, Members
  <2>3. QED
    BY <1>7, <2>1, <2>2 DEF Takes
<1>8. CASE info.op = "PUSHPOP"
  <2>1. layout = Table!pushpop_form(v[1], v[2], FALSE)
    BY <1>8 DEF Takes
  <2>2. QED
    <3>1. /\ Table!Typed(<<Table!Unused, Table!Unused, Table!Literal>>) \in [0 .. 5 -> PlainTypes]
          /\ Table!Typed(<<Table!MAY_OUT, Table!Literal>>) \in [0 .. 5 -> PlainTypes]
          /\ Table!Typed(<<Table!String>>) \in [0 .. 5 -> PlainTypes]
      <4>1. Table!Typed(<<Table!Unused, Table!Unused, Table!Literal>>) \in [0 .. 5 -> PlainTypes]
        BY PlainLists, Members
      <4>2. Table!Typed(<<Table!MAY_OUT, Table!Literal>>) \in [0 .. 5 -> PlainTypes]
        BY PlainLists, Members
      <4>3. Table!Typed(<<Table!String>>) \in [0 .. 5 -> PlainTypes]
        BY PlainLists, Members
      <4>4. QED
        BY <4>1, <4>2, <4>3
    <3>2. \A count, effects :
            /\ IsPlain(Table!Form(<<Table!Unused, Table!Unused, Table!Literal>>, count, effects))
            /\ IsPlain(Table!Form(<<Table!MAY_OUT, Table!Literal>>, count, effects))
            /\ IsPlain(Table!Form(<<Table!String>>, count, effects))
      BY <3>1, FormIsPlain
    <3>3. QED
      BY <2>1, <3>2 DEF Table!pushpop_form
<1>9. CASE info.op \in {"FINDWINDOW", "SENDMESSAGE", "LOADANDSETIMAGE"}
  <2>1. layout \in {Table!window_form(start, v), Table!image_form(start, v)}
    BY <1>9 DEF Takes
    <2>3. IsPlain(Table!window_form(start, v))
    BY ClearStays, RetypeStays, GivenStays, Members DEF Table!window_form
  <2>4. IsPlain(Table!image_form(start, v))
    BY ClearStays, RetypeStays, GivenStays, Members DEF Table!image_form
  <2>5. QED
    BY <2>1, <2>3, <2>4
<1>11. CASE info.op = "REGISTERDLL"
  <2>1. \A effects : IsPlain(Table!affecting(Table!clear(start, 2), effects))
    BY ClearStays, AffectStays
  <2>2. QED
    BY <1>11, <2>1 DEF Takes
<1>12. CASE info.op = "WRITEINI"
  <2>1. layout = Table!ini_form(start, v)
    BY <1>12 DEF Takes
  <2>2. QED
    BY <2>1, ClearStays, GivenStays DEF Table!ini_form
<1>13. CASE info.op = "DELREG"
  <2>1. layout = Table!in_context(Table!Given(v[4] # 0, Table!clear(start, 3), start), v[1])
    BY <1>13 DEF Takes
  <2>2. QED
    BY <2>1, PlainStays DEF Table!Given
<1>14. CASE info.op = "WRITEREG"
  <2>1. layout = Table!in_context(Table!registry_value_form(start, v[4]), v[0])
    BY <1>14 DEF Takes
  <2>2. IsPlain(Table!registry_value_form(start, v[4]))
    <3>1. /\ IsPlain(Table!retype(start, 3, Table!String)) /\ IsPlain(Table!clear(start, 3))
          /\ IsPlain(Table!retype(start, 3, Table!DataOffset))
          /\ IsPlain(Table!retype(start, 3, Table!Number))
      BY ClearStays, RetypeStays, Members
    <3>2. QED
      BY <3>1 DEF Table!registry_value_form
  <2>3. QED
    BY <2>1, <2>2, PlainStays
<1>15. CASE info.op \in {"READREGSTR", "REGENUM"}
  BY <1>15, PlainStays DEF Takes
<1>16. CASE info.op = "SECTIONSET"
  <2>1. layout = Table!section_form(start, v[2])
    BY <1>16 DEF Takes
  <2>2. QED
    BY <2>1, PlainLists, PlainParts, Members DEF Table!section_form
<1>17. CASE info.op = "INSTTYPESET"
  <2>1. layout = Table!inst_type_form(start, v[2], v[3])
    BY <1>17 DEF Takes
  <2>2. QED
    <3> DEFINE typed(type) == [start EXCEPT !.types =
                   Table!Typed(<<Table!Number, type, Table!Literal, Table!Literal>>), !.count = 4]
    <3>1. \A type \in PlainTypes : IsPlain(typed(type))
      BY PlainLists, PlainParts, Members
    <3>2. IsPlain([typed(Table!MAY_OUT) EXCEPT !.effects.hidden = "ReadsAny"])
      <4>1. IsPlain(typed(Table!MAY_OUT))
        BY <3>1, Members
      <4> HIDE DEF typed
      <4>2. QED
        BY <4>1, HiddenStays
    <3>3. layout \in {typed(Table!Unused), typed(Table!MAY_OUT), typed(Table!RawString),
                      [typed(Table!MAY_OUT) EXCEPT !.effects.hidden = "ReadsAny"]}
      BY <2>1 DEF Table!inst_type_form
    <3>4. IsPlain(typed(Table!Unused)) /\ IsPlain(typed(Table!MAY_OUT)) /\ IsPlain(typed(Table!RawString))
      BY <3>1, Members
    <3> HIDE DEF typed
    <3>5. QED
      BY <3>2, <3>3, <3>4
<1>18. CASE info.op = "GETOSINFO"
  <2>1. layout = Table!os_info_form(start, v[3])
    BY <1>18 DEF Takes
  <2>2. QED
    <3>1. /\ IsPlain(Table!retype(start, 2, Table!String)) /\ IsPlain(Table!clear(start, 1))
          /\ IsPlain(Table!retype(start, 2, Table!Number))
      BY ClearStays, RetypeStays, Members
    <3>2. IsPlain(Table!retype(Table!retype(start, 2, Table!Number), 4, Table!Number))
      BY <3>1, RetypeStays, Members
    <3>3. QED
      BY <2>1, <3>1, <3>2, AffectStays DEF Table!os_info_form
<1>20. QED
  BY <1>6, <1>7, <1>8, <1>9, <1>11, <1>12, <1>13, <1>14, <1>15, <1>16, <1>17, <1>18
  DEF FormsOf

(* The row an entry of NSIS 2, 3 or Park is read by.                       *)
LEMMA FoundRows ==
  ASSUME NEW op, NEW version, lookup_for(op, version) # NoRow
  PROVE  /\ op \in 0 .. 73 /\ IsRowOf(lookup_for(op, version), op)
         /\ op # 37 => lookup_for(op, version) = lookup(op)
<1>1. CASE version \in {"V2", "Park"} /\ op = EW_LOADANDSETIMAGE
  <2> DEFINE row == Table!SET_BRANDING_IMAGE
  <2>1. lookup_for(op, version) = row /\ op = 37
    BY <1>1 DEF lookup_for, EW_LOADANDSETIMAGE
  <2>2. HasSlots(row, 37)
    BY Members DEF Table!SET_BRANDING_IMAGE, Table!Op, Table!Typed, Table!Slots, HasSlots, JumpRows
  <2>3. HasFlowName(row, 37) /\ HasFormName(row, 37)
    BY DEF Table!SET_BRANDING_IMAGE, Table!Op, HasFlowName, FlowOpcodes, HasFormName, FormNames
  <2>4. HasEffects(row, 37)
    BY TableEffects DEF Table!SET_BRANDING_IMAGE, Table!Op, HasEffects
  <2>5. HasJumps(row, 37)
    BY PlainIsNoJump, Members
    DEF Table!SET_BRANDING_IMAGE, Table!Op, Table!Typed, Table!Slots, HasJumps, JumpSlots
  <2> HIDE DEF row
  <2>6. QED
    BY <2>1, <2>2, <2>3, <2>4, <2>5 DEF IsRowOf
<1>2. CASE ~(version \in {"V2", "Park"} /\ op = EW_LOADANDSETIMAGE)
  <2>1. lookup_for(op, version) = lookup(op) /\ lookup(op) # NoRow
    BY <1>2 DEF lookup_for
  <2>2. op \in 0 .. 73
    BY <2>1, PiecesAreFound DEF lookup
  <2>3. IsRowOf(lookup(op), op)
    BY <2>2, Rows
  <2>4. QED
    BY <2>1, <2>2, <2>3
<1>3. QED
  BY <1>1, <1>2

(* What param_layout starts from.                                          *)
LEMMA StartIs ==
  ASSUME NEW info, NEW v, NEW op, HasSlots(info, op)
  PROVE  /\ IsLayout(Start(info, v), SlotTypes)
         /\ op \notin JumpRows => IsPlain(Start(info, v))
         /\ Start(info, v).types = info.types /\ Start(info, v).count = info.count
         /\ Start(info, v).effects = Table!form_effects(info.op, v, info.effects)
<1>1. IsLayout(Table!fixed(info), SlotTypes) /\ Table!fixed(info).types = info.types
      /\ Table!fixed(info).count = info.count
  BY Fixed DEF HasSlots
<1>2. op \notin JumpRows => IsLayout(Table!fixed(info), PlainTypes)
  BY Fixed DEF HasSlots
<1> DEFINE layout == Table!fixed(info)
           effects == Table!form_effects(info.op, v, info.effects)
<1> HIDE DEF layout, effects
<1>3. /\ IsLayout(Table!affecting(layout, effects), SlotTypes)
      /\ Table!affecting(layout, effects).types = layout.types
      /\ Table!affecting(layout, effects).count = layout.count
      /\ Table!affecting(layout, effects).effects = effects
  BY <1>1, Affected DEF layout
<1>4. op \notin JumpRows => IsPlain(Table!affecting(layout, effects))
  BY <1>2, AffectStays DEF layout, IsPlain
<1>5. Start(info, v) = Table!affecting(layout, effects)
  BY DEF Start, layout, effects
<1>6. QED
  BY <1>1, <1>3, <1>4, <1>5 DEF layout, effects

(* Where the layout of an entry has its jumps.                             *)
LEMMA JumpsOfLayout ==
  ASSUME NEW info, NEW v, NEW op \in 0 .. 73, IsRowOf(info, op)
  PROVE  Table!slots_of(Table!param_layout(info, v), {"Jump"})
           = {slot \in 0 .. 5 : <<op, slot>> \in JumpSlots}
<1> DEFINE start == Start(info, v)
           layout == Table!param_layout(info, v)
<1>1. Takes(info, v, start, layout)
  BY Arms
<1>2. /\ IsLayout(start, SlotTypes) /\ start.types = info.types /\ start.count = info.count
      /\ op \notin JumpRows => IsPlain(start)
  BY StartIs DEF IsRowOf
<1> HIDE DEF start, layout
<1>3. CASE op \notin JumpRows
  <2>1. IsPlain(layout)
    BY <1>1, <1>2, <1>3, PlainForms
  <2>2. \A slot \in 0 .. 5 : layout.types[slot].kind # "Jump"
    BY <2>1, PlainIsNoJump DEF IsPlain, IsLayout
  <2>3. \A slot \in 0 .. 5 : <<op, slot>> \notin JumpSlots
    BY <1>3 DEF JumpRows, JumpSlots
  <2>4. QED
    BY <2>2, <2>3 DEF Table!slots_of, Table!Slots, layout
<1>4. CASE op \in JumpRows \ {14}
  <2>1. info.op \notin FormsOf
    BY <1>4 DEF IsRowOf, HasFlowName, JumpRows, FlowOpcodes, FormsOf
  <2>2. layout = start
    BY <1>1, <2>1 DEF Takes
  <2>3. QED
    BY <1>2, <2>2 DEF Table!slots_of, Table!Slots, IsRowOf, HasJumps, layout
<1>5. CASE op = 14
  <2>1. info.op = "IFFLAG"
    BY <1>5 DEF IsRowOf, HasFlowName, FlowOpcodes
  <2>2. layout \in {start, Table!retype(start, 2, Table!Flag("Read"))}
    BY <1>1, <2>1 DEF Takes
  <2>3. IsRetyped(Table!retype(start, 2, Table!Flag("Read")), start, 2, Table!Flag("Read"))
    BY <1>2, Retyped, Members
  <2>4. /\ layout.count = info.count
        /\ \A slot \in 0 .. 5 : (slot < info.count /\ layout.types[slot].kind = "Jump")
                                <=> (slot < info.count /\ info.types[slot].kind = "Jump")
    <3>1. \A slot \in 0 .. 5 : info.types[slot].kind = "Jump" /\ slot < info.count => slot \in {0, 1}
      BY <1>5 DEF IsRowOf, HasJumps, JumpSlots
    <3>2. Table!Flag("Read").kind # "Jump"
      BY PlainIsNoJump, Members
    <3>3. CASE layout = start
      BY <1>2, <3>3
    <3>4. CASE layout = Table!retype(start, 2, Table!Flag("Read"))
      <4>1. /\ layout.count = start.count
            /\ \A x \in 0 .. 5 : layout.types[x] =
                 IF x = 2 THEN Table!Flag("Read") ELSE start.types[x]
        BY <2>3, <3>4 DEF IsRetyped
      <4>2. QED
        BY <1>2, <3>1, <3>2, <4>1
    <3>5. QED
      BY <2>2, <3>3, <3>4
  <2>5. QED
    BY <2>4 DEF Table!slots_of, Table!Slots, IsRowOf, HasJumps, layout
<1>6. QED
  BY <1>3, <1>4, <1>5

(* How the flow analysis sees each number.                                 *)
LEMMA FlowOf ==
  ASSUME NEW op
  PROVE  /\ \A f \in FlowOpcodes : f[1] = op => flow_of(op) = f[2]
         /\ (\A f \in FlowOpcodes : f[1] # op) => flow_of(op) = "OTHER"
<1>1. \A f, g \in FlowOpcodes : f[1] = g[1] => f = g
  BY DEF FlowOpcodes
<1> HIDE DEF FlowOpcodes
<1>2. QED
  BY <1>1 DEF flow_of

(* The operands the analysis follows, and when it leaves the script.       *)
LEMMA FollowedOperands ==
  ASSUME NEW ins, NEW i, NEW n
  PROVE  {e.operand : e \in Flow!classify_opcode(ins, i, n)} \ {Flow!NoOperand}
           = {t \in 0 .. 5 :
                \/ t = 0 /\ (Flow!IsJump(ins) \/ ins.op = "CALL")
                \/ t \in Flow!TakenOperands(ins)}
<1> DEFINE all == Flow!classify_opcode(ins, i, n)
<1>1. \A e \in all : e.operand = Flow!NoOperand \/ (e.operand = 0 /\ (Flow!IsJump(ins) \/ ins.op = "CALL"))
                     \/ e.operand \in Flow!TakenOperands(ins)
  BY DEF Flow!classify_opcode, Flow!ExitEdge, Flow!JumpEdge, Flow!CallEdge, Flow!BranchEdges,
         Flow!FallthroughEdge, Flow!Edge
<1>2. Flow!TakenOperands(ins) \subseteq 0 .. 5
  BY DEF Flow!TakenOperands, Flow!MessageBoxSlots, Flow!Slots
<1>3. Flow!IsJump(ins) \/ ins.op = "CALL" => \E e \in all : e.operand = 0
  <2>1. Flow!IsJump(ins) => Flow!Edge(i, 0, "Jump", Flow!resolve(ins.args[0], n)) \in all
    BY DEF Flow!classify_opcode, Flow!JumpEdge
  <2>2. ins.op = "CALL" =>
          Flow!Edge(i, 0, Flow!CallKind(ins), Flow!resolve(ins.args[0], n)) \in all
    BY DEF Flow!classify_opcode, Flow!CallEdge
  <2>3. \A kind, target : Flow!Edge(i, 0, kind, target).operand = 0
    BY DEF Flow!Edge
  <2> HIDE DEF all
  <2>4. QED
    BY <2>1, <2>2, <2>3
<1>4. \A t \in Flow!TakenOperands(ins) : \E e \in all : e.operand = t
  <2> TAKE t \in Flow!TakenOperands(ins)
  <2>1. Flow!Edge(i, t, "Branch", Flow!branch_target(ins.args[t], i, n)) \in all
    BY DEF Flow!classify_opcode, Flow!BranchEdges
  <2>2. QED
    BY <2>1 DEF Flow!Edge
<1>5. -1 \notin 0 .. 5
  OBVIOUS
<1> HIDE DEF all
<1>6. QED
  BY <1>1, <1>2, <1>3, <1>4, <1>5 DEF Flow!NoOperand, all

(* Only a return, an abort and a quit leave the script.                    *)
LEMMA Exits ==
  ASSUME NEW ins, NEW i, NEW n
  PROVE  (\E e \in Flow!classify_opcode(ins, i, n) :
            e.target = Flow!ExitTarget /\ e.operand = Flow!NoOperand)
          <=> ins.op \in {"RET", "ABORT", "QUIT"}
<1>1. Flow!TakenOperands(ins) \subseteq 0 .. 5
  BY DEF Flow!TakenOperands, Flow!MessageBoxSlots, Flow!Slots
<1>2. \A e \in Flow!JumpEdge(ins, i, n) \cup Flow!CallEdge(ins, i, n) \cup Flow!BranchEdges(ins, i, n) :
        e.operand # Flow!NoOperand
  BY <1>1 DEF Flow!JumpEdge, Flow!CallEdge, Flow!BranchEdges, Flow!Edge, Flow!NoOperand
<1>3. \A e \in Flow!FallthroughEdge(ins, i, n) : e.target # Flow!ExitTarget
  <2>1. \A k : Flow!EntryTarget(k) # Flow!ExitTarget
    BY DEF Flow!EntryTarget, Flow!ExitTarget
  <2>2. QED
    BY <2>1 DEF Flow!FallthroughEdge, Flow!Edge
<1>4. (\E e \in Flow!ExitEdge(ins, i) : e.target = Flow!ExitTarget /\ e.operand = Flow!NoOperand)
        <=> ins.op \in {"RET", "ABORT", "QUIT"}
  <2>1. \A k : /\ Flow!Edge(i, Flow!NoOperand, k, Flow!ExitTarget).target = Flow!ExitTarget
               /\ Flow!Edge(i, Flow!NoOperand, k, Flow!ExitTarget).operand = Flow!NoOperand
    BY DEF Flow!Edge
  <2>2. QED
    BY <2>1 DEF Flow!ExitEdge, Flow!Terminators
<1>5. QED
  BY <1>2, <1>3, <1>4 DEF Flow!classify_opcode

(* The operands followed are the ones declared jumps, set ones at least.   *)
LEMMA Followed ==
  ASSUME NEW op \in 0 .. 73, NEW v, NEW i, NEW n
  PROVE  LET ins   == [op |-> flow_of(op), args |-> v]
             slots == {e.operand : e \in Flow!classify_opcode(ins, i, n)} \ {Flow!NoOperand}
             jumps == {slot \in 0 .. 5 : <<op, slot>> \in JumpSlots}
         IN  {slot \in jumps : v[slot] # 0} \subseteq slots /\ slots \subseteq jumps
<1> DEFINE ins   == [op |-> flow_of(op), args |-> v]
           slots == {e.operand : e \in Flow!classify_opcode(ins, i, n)} \ {Flow!NoOperand}
           jumps == {slot \in 0 .. 5 : <<op, slot>> \in JumpSlots}
<1>1. slots = {t \in 0 .. 5 :
                 \/ t = 0 /\ (Flow!IsJump(ins) \/ ins.op = "CALL")
                 \/ t \in Flow!TakenOperands(ins)}
  BY FollowedOperands
<1>2. ins.op = flow_of(op) /\ ins.args = v
  OBVIOUS
<1> HIDE DEF ins, slots
<1>3. CASE op = 2
  <2>1. flow_of(op) = "NOP"
    BY <1>3, FlowOf DEF FlowOpcodes
  <2>2. Flow!TakenOperands(ins) = {}
    BY <1>2, <2>1 DEF Flow!TakenOperands, Flow!BranchSlots
  <2>3. QED
    BY <1>1, <1>2, <1>3, <2>1, <2>2 DEF Flow!IsJump, JumpSlots, ins, slots
<1>4. CASE op = 5
  <2>1. flow_of(op) = "CALL"
    BY <1>4, FlowOf DEF FlowOpcodes
  <2>2. Flow!TakenOperands(ins) = {}
    BY <1>2, <2>1 DEF Flow!TakenOperands, Flow!BranchSlots
  <2>3. QED
    BY <1>1, <1>2, <1>4, <2>1, <2>2 DEF JumpSlots, ins, slots
<1>5. CASE op = 22
  <2>1. flow_of(op) = "MESSAGEBOX"
    BY <1>5, FlowOf DEF FlowOpcodes
  <2>2. Flow!TakenOperands(ins) = {t \in {3, 5} : v[t - 1] # 0 \/ v[t] # 0}
    BY <1>2, <2>1 DEF Flow!TakenOperands, Flow!BranchSlots, Flow!MessageBoxSlots
  <2>3. jumps = {3, 5}
    BY <1>5 DEF JumpSlots
  <2>4. ~Flow!IsJump(ins) /\ ins.op # "CALL"
    BY <1>2, <2>1 DEF Flow!IsJump
  <2> HIDE DEF jumps
  <2>5. {slot \in jumps : v[slot] # 0} \subseteq slots /\ slots \subseteq jumps
    BY <1>1, <2>2, <2>3, <2>4
  <2>6. QED
    BY <2>5 DEF ins, slots, jumps
<1>6. ASSUME NEW S, S \subseteq 0 .. 5, jumps = S, Flow!TakenOperands(ins) = S,
            ~Flow!IsJump(ins), ins.op # "CALL"
      PROVE  {slot \in jumps : v[slot] # 0} \subseteq slots /\ slots \subseteq jumps
  BY <1>1, <1>6
<1>7. CASE op = 12
  <2>1. flow_of(op) = "IFFILEEXISTS"
    BY <1>7, FlowOf DEF FlowOpcodes
  <2>2. jumps = {1, 2}
    BY <1>7 DEF JumpSlots
  <2>3. Flow!TakenOperands(ins) = {1, 2} /\ ~Flow!IsJump(ins) /\ ins.op # "CALL"
    BY <1>2, <2>1 DEF Flow!TakenOperands, Flow!BranchSlots, Flow!Slots, Flow!IsJump
  <2> HIDE DEF jumps
  <2>4. {slot \in jumps : v[slot] # 0} \subseteq slots /\ slots \subseteq jumps
    BY <1>6, <2>2, <2>3
  <2>5. QED
    BY <2>4 DEF ins, slots, jumps
<1>8. CASE op = 14
  <2>1. flow_of(op) = "IFFLAG"
    BY <1>8, FlowOf DEF FlowOpcodes
  <2>2. jumps = {0, 1}
    BY <1>8 DEF JumpSlots
  <2>3. Flow!TakenOperands(ins) = {0, 1} /\ ~Flow!IsJump(ins) /\ ins.op # "CALL"
    BY <1>2, <2>1 DEF Flow!TakenOperands, Flow!BranchSlots, Flow!Slots, Flow!IsJump
  <2> HIDE DEF jumps
  <2>4. {slot \in jumps : v[slot] # 0} \subseteq slots /\ slots \subseteq jumps
    BY <1>6, <2>2, <2>3
  <2>5. QED
    BY <2>4 DEF ins, slots, jumps
<1>9. CASE op = 26
  <2>1. flow_of(op) = "STRCMP"
    BY <1>9, FlowOf DEF FlowOpcodes
  <2>2. jumps = {2, 3}
    BY <1>9 DEF JumpSlots
  <2>3. Flow!TakenOperands(ins) = {2, 3} /\ ~Flow!IsJump(ins) /\ ins.op # "CALL"
    BY <1>2, <2>1 DEF Flow!TakenOperands, Flow!BranchSlots, Flow!Slots, Flow!IsJump
  <2> HIDE DEF jumps
  <2>4. {slot \in jumps : v[slot] # 0} \subseteq slots /\ slots \subseteq jumps
    BY <1>6, <2>2, <2>3
  <2>5. QED
    BY <2>4 DEF ins, slots, jumps
<1>10. CASE op = 28
  <2>1. flow_of(op) = "INTCMP"
    BY <1>10, FlowOf DEF FlowOpcodes
  <2>2. jumps = {2, 3, 4}
    BY <1>10 DEF JumpSlots
  <2>3. Flow!TakenOperands(ins) = {2, 3, 4} /\ ~Flow!IsJump(ins) /\ ins.op # "CALL"
    BY <1>2, <2>1 DEF Flow!TakenOperands, Flow!BranchSlots, Flow!Slots, Flow!IsJump
  <2> HIDE DEF jumps
  <2>4. {slot \in jumps : v[slot] # 0} \subseteq slots /\ slots \subseteq jumps
    BY <1>6, <2>2, <2>3
  <2>5. QED
    BY <2>4 DEF ins, slots, jumps
<1>11. CASE op = 34
  <2>1. flow_of(op) = "ISWINDOW"
    BY <1>11, FlowOf DEF FlowOpcodes
  <2>2. jumps = {1, 2}
    BY <1>11 DEF JumpSlots
  <2>3. Flow!TakenOperands(ins) = {1, 2} /\ ~Flow!IsJump(ins) /\ ins.op # "CALL"
    BY <1>2, <2>1 DEF Flow!TakenOperands, Flow!BranchSlots, Flow!Slots, Flow!IsJump
  <2> HIDE DEF jumps
  <2>4. {slot \in jumps : v[slot] # 0} \subseteq slots /\ slots \subseteq jumps
    BY <1>6, <2>2, <2>3
  <2>5. QED
    BY <2>4 DEF ins, slots, jumps
<1>12. CASE op \notin JumpRows
  <2>1. flow_of(op) \in {"RET", "ABORT", "QUIT", "OTHER"}
    BY <1>12, FlowOf DEF FlowOpcodes, JumpRows
  <2>2. Flow!TakenOperands(ins) = {} /\ ~Flow!IsJump(ins) /\ ins.op # "CALL"
    BY <1>2, <2>1 DEF Flow!TakenOperands, Flow!BranchSlots, Flow!Slots, Flow!IsJump
  <2>3. jumps = {}
    BY <1>12 DEF JumpSlots, JumpRows
  <2> HIDE DEF jumps
  <2>4. {slot \in jumps : v[slot] # 0} \subseteq slots /\ slots \subseteq jumps
    BY <1>6, <2>2, <2>3
  <2>5. QED
    BY <2>4 DEF ins, slots, jumps
<1>13. QED
  BY <1>3, <1>4, <1>5, <1>7, <1>8, <1>9, <1>10, <1>11, <1>12 DEF JumpRows

(* What an instruction of number op with the operands v does to the output *)
(* directory and to the script.                                            *)
ActsAs(e, info, op, v) ==
  \E t \in {"Never", "May", "Always"}, o \in {"None", "Read", "Write"} :
    /\ Acts(e, t, o)
    /\ info.op # "REBOOT" => (t = "Always" <=> op \in {3, 4})
    /\ o = "Write" <=> (info.op = "CREATEDIR" /\ v[1] # 0)

(* The operands change the effects, but not whether the script ends.       *)
LEMMA StartActs ==
  ASSUME NEW info, NEW v, NEW op, HasEffects(info, op)
  PROVE  ActsAs(Table!form_effects(info.op, v, info.effects), info, op, v)
<1> DEFINE e == Table!form_effects(info.op, v, info.effects)
<1>1. PICK t \in {"Never", "May", "Always"}, o \in {"None", "Read"} :
        Acts(info.effects, t, o) /\ (t = "Always" <=> op \in {3, 4})
  BY DEF HasEffects
<1>2. CASE info.op = "CREATEDIR"
  <2>1. e = IF v[1] # 0 THEN Table!with_outdir(info.effects, "Write") ELSE info.effects
    BY <1>2 DEF Table!form_effects
  <2>2. Acts(Table!with_outdir(info.effects, "Write"), t, "Write")
    BY <1>1, Combinators
  <2> HIDE DEF e
  <2>3. CASE v[1] # 0
    <3>1. Acts(e, t, "Write")
      BY <2>1, <2>2, <2>3
    <3>2. QED
      BY <1>1, <1>2, <2>3, <3>1 DEF ActsAs, e
  <2>4. CASE v[1] = 0
    <3>1. Acts(e, t, o)
      BY <1>1, <2>1, <2>4
    <3>2. QED
      BY <1>1, <1>2, <2>4, <3>1 DEF ActsAs, e
  <2>5. QED
    BY <2>3, <2>4
<1>3. CASE info.op = "CREATESHORTCUT"
  <2>1. e \in {info.effects, Table!with_outdir(info.effects, "None")}
    BY <1>3 DEF Table!form_effects
  <2>2. Acts(Table!with_outdir(info.effects, "None"), t, "None")
    BY <1>1, Combinators
  <2> HIDE DEF e
  <2>3. PICK x \in {"None", "Read"} : Acts(e, t, x)
    BY <1>1, <2>1, <2>2
  <2>4. QED
    BY <1>1, <1>3, <2>3 DEF ActsAs, e
<1>4. CASE info.op = "REBOOT"
  <2>1. e \in {info.effects, Table!acting_outside(Table!with_termination(Table!asking(Table!NONE), "Always"))}
    BY <1>4 DEF Table!form_effects
  <2>2. Acts(Table!acting_outside(Table!with_termination(Table!asking(Table!NONE), "Always")), "Always", "None")
    BY NothingActs, Combinators DEF Table!asking
  <2> HIDE DEF e
  <2>3. PICK x \in {"Never", "May", "Always"}, y \in {"None", "Read"} : Acts(e, x, y)
    BY <1>1, <2>1, <2>2
  <2>4. QED
    BY <1>4, <2>3 DEF ActsAs, e
<1>5. CASE info.op \notin {"CREATEDIR", "CREATESHORTCUT", "REBOOT"}
  <2>1. e \in {info.effects, Table!writing(info.effects, {"ExecReboot"}), Table!failing(info.effects)}
    BY <1>5 DEF Table!form_effects
  <2>2. /\ Acts(Table!writing(info.effects, {"ExecReboot"}), t, o)
        /\ Acts(Table!failing(info.effects), t, o)
    BY <1>1, Combinators DEF Table!failing
  <2> HIDE DEF e
  <2>3. Acts(e, t, o)
    BY <1>1, <2>1, <2>2
  <2>4. QED
    BY <1>1, <1>5, <2>3 DEF ActsAs, e
<1>6. QED
  BY <1>2, <1>3, <1>4, <1>5

(* Forms that leave the effects alone.                                     *)
Keeps(layout, e) == IsLayout(layout, SlotTypes) /\ layout.effects = e

(* Clearing a slot does,                                                   *)
LEMMA ClearKeeps ==
  ASSUME NEW layout, NEW e, NEW slot \in 0 .. 5, Keeps(layout, e)
  PROVE  Keeps(Table!clear(layout, slot), e)
  BY Cleared, Members DEF Keeps, IsRetyped

(* so does retyping one,                                                   *)
LEMMA RetypeKeeps ==
  ASSUME NEW layout, NEW e, NEW slot \in 0 .. 5, NEW type \in PlainTypes, Keeps(layout, e)
  PROVE  Keeps(Table!retype(layout, slot, type), e)
<1>1. type \in SlotTypes
  BY Members
<1>2. /\ IsLayout(Table!retype(layout, slot, type), SlotTypes)
      /\ IsRetyped(Table!retype(layout, slot, type), layout, slot, type)
  BY <1>1, Retyped DEF Keeps
<1>3. QED
  BY <1>2 DEF Keeps, IsRetyped

(* or doing either as an operand says.                                     *)
LEMMA GivenKeeps ==
  ASSUME NEW layout, NEW new, NEW e, NEW condition, Keeps(layout, e), Keeps(new, e)
  PROVE  Keeps(Table!Given(condition, new, layout), e)
  BY DEF Table!Given

(* affecting sets them.                                                    *)
LEMMA AffectTakes ==
  ASSUME NEW layout, NEW e, NEW effects, Keeps(layout, e)
  PROVE  Table!affecting(layout, effects).effects = effects
  BY Affected DEF Keeps

(* Reading SetShellVarContext changes neither.                             *)
LEMMA ContextActs ==
  ASSUME NEW layout, NEW e, NEW info, NEW op, NEW v, NEW root, Keeps(layout, e),
         ActsAs(e, info, op, v)
  PROVE  ActsAs(Table!in_context(layout, root).effects, info, op, v)
<1>1. Table!in_context(layout, root).effects = Table!reading(e, Table!shell_context(root))
  BY AffectTakes DEF Table!in_context, Keeps
<1>2. PICK t \in {"Never", "May", "Always"}, o \in {"None", "Read", "Write"} :
        /\ Acts(e, t, o)
        /\ info.op # "REBOOT" => (t = "Always" <=> op \in {3, 4})
        /\ o = "Write" <=> (info.op = "CREATEDIR" /\ v[1] # 0)
  BY DEF ActsAs
<1>3. Acts(Table!reading(e, Table!shell_context(root)), t, o)
  BY <1>2, Combinators
<1>4. QED
  BY <1>1, <1>2, <1>3 DEF ActsAs

(* Replacing the slots of a layout leaves its effects.                     *)
LEMMA PartsKeep ==
  ASSUME NEW layout, NEW e, Keeps(layout, e), NEW types, NEW count
  PROVE  [layout EXCEPT !.types = types, !.count = count]
           = [types |-> types, count |-> count, effects |-> e]
<1>1. PICK t, c, f : layout = [types |-> t, count |-> c, effects |-> f]
  BY DEF Keeps, IsLayout
<1> DEFINE mid == [layout EXCEPT !.types = types]
<1>2. [layout EXCEPT !.types = types, !.count = count] = [mid EXCEPT !.count = count]
  OBVIOUS
<1>3. mid = [types |-> types, count |-> c, effects |-> f]
  BY <1>1
<1>4. f = e
  BY <1>1 DEF Keeps
<1> HIDE DEF mid
<1>5. [mid EXCEPT !.count = count] = [types |-> types, count |-> count, effects |-> f]
  BY <1>3
<1>6. QED
  BY <1>2, <1>4, <1>5

(* What is read behind the slots changes neither.                          *)
LEMMA HiddenActs ==
  ASSUME NEW e, NEW info, NEW op, NEW v, ActsAs(e, info, op, v), NEW types, NEW count, NEW access
  PROVE  ActsAs([[types |-> types, count |-> count, effects |-> e]
                   EXCEPT !.effects.hidden = access].effects, info, op, v)
<1>1. PICK t \in {"Never", "May", "Always"}, o \in {"None", "Read", "Write"} :
        /\ Acts(e, t, o)
        /\ info.op # "REBOOT" => (t = "Always" <=> op \in {3, 4})
        /\ o = "Write" <=> (info.op = "CREATEDIR" /\ v[1] # 0)
  BY DEF ActsAs
<1>2. Acts([e EXCEPT !.hidden = access], t, o)
  BY <1>1 DEF Acts, EffectFields
<1>3. [[types |-> types, count |-> count, effects |-> e]
         EXCEPT !.effects.hidden = access].effects = [e EXCEPT !.hidden = access]
  OBVIOUS
<1>4. QED
  BY <1>1, <1>2, <1>3 DEF ActsAs

(* Nor does any form of an instruction but a plugin call.                  *)
LEMMA LayoutActs ==
  ASSUME NEW info, NEW v, NEW op, IsRowOf(info, op), info.op # "REGISTERDLL"
  PROVE  ActsAs(Table!param_layout(info, v).effects, info, op, v)
<1> DEFINE start == Start(info, v)
           layout == Table!param_layout(info, v)
           e == Table!form_effects(info.op, v, info.effects)
<1>1. Takes(info, v, start, layout)
  BY Arms
<1>2. Keeps(start, e)
  BY StartIs DEF IsRowOf, Keeps
<1>3. ActsAs(e, info, op, v)
  BY StartActs DEF IsRowOf
<1> HIDE DEF start, layout, e
<1>4. ASSUME Keeps(layout, e)
      PROVE  ActsAs(layout.effects, info, op, v)
  BY <1>3, <1>4 DEF Keeps
<1>5. info.op \in {"PUSHPOP", "GETOSINFO"} => op \notin {3, 4}
  BY DEF IsRowOf, HasFlowName, FlowOpcodes
<1>6. ASSUME info.op \in {"PUSHPOP", "GETOSINFO"}, NEW t \in {"Never", "May"}, NEW x,
             Acts(x, t, "None")
      PROVE  ActsAs(x, info, op, v)
  BY <1>5, <1>6 DEF ActsAs
<1>7. CASE info.op \notin FormsOf
  BY <1>1, <1>2, <1>4, <1>7 DEF Takes, layout
<1>8. CASE info.op \in {"SETFLAG", "IFFLAG", "FPUTS", "FPUTWS", "FSEEK", "LOG", "EXECUTE"}
  <2>1. /\ Keeps(Table!clear(start, 1), e)
        /\ Keeps(Table!retype(start, 2, Table!Flag("Read")), e)
        /\ Keeps(Table!retype(start, 1, Table!Number), e)
        /\ Keeps(Table!retype(start, 1, Table!Literal), e)
    BY <1>2, ClearKeeps, RetypeKeeps, Members
  <2>2. Keeps(Table!retype(Table!clear(start, 1), 3, Table!Literal), e)
    BY <2>1, RetypeKeeps, Members
  <2>3. Keeps(layout, e)
    BY <1>1, <1>2, <1>8, <2>1, <2>2 DEF Takes
  <2>4. QED
    BY <1>4, <2>3 DEF layout
<1>9. CASE info.op = "PUSHPOP"
  <2>1. layout = Table!pushpop_form(v[1], v[2], FALSE)
    BY <1>1, <1>9 DEF Takes
  <2> DEFINE exchanging == Table!with_termination(Table!with_stack(Table!NONE, "Exch"), "May")
  <2>2. /\ Acts(Table!asking(exchanging), "May", "None")
        /\ Acts(Table!with_stack(Table!FAILS, "Pop"), "Never", "None")
        /\ Acts(Table!with_stack(Table!NONE, "Push"), "Never", "None")
    BY TableEffects, Combinators DEF Table!asking
  <2>3. \A types, count, effects : Table!Form(types, count, effects).effects = effects
    BY DEF Table!Form
  <2>4. layout.effects \in {Table!asking(exchanging), Table!with_stack(Table!FAILS, "Pop"),
                            Table!with_stack(Table!NONE, "Push")}
    BY <2>1, <2>3 DEF Table!pushpop_form
  <2> HIDE DEF exchanging
  <2>5. QED
    BY <1>6, <1>9, <2>2, <2>4 DEF layout
<1>10. CASE info.op \in {"FINDWINDOW", "SENDMESSAGE", "LOADANDSETIMAGE"}
  <2>1. layout \in {Table!window_form(start, v), Table!image_form(start, v)}
    BY <1>1, <1>10 DEF Takes
  <2> DEFINE target == Table!Given(v[0] < 0, Table!clear(start, 0), start)
             string(c, slot, old) == Table!Given(c, Table!retype(old, slot, Table!String), old)
             number(c, old) == Table!Given(c, Table!retype(old, 2, Table!Number), old)
  <2>2. Keeps(target, e)
    BY <1>2, ClearKeeps, GivenKeeps
  <2>3. ASSUME NEW old, Keeps(old, e), NEW c
        PROVE  /\ Keeps(string(c, 1, old), e) /\ Keeps(string(c, 3, old), e)
               /\ Keeps(string(c, 4, old), e) /\ Keeps(number(c, old), e)
    <3>1. /\ Keeps(Table!retype(old, 1, Table!String), e)
          /\ Keeps(Table!retype(old, 3, Table!String), e)
          /\ Keeps(Table!retype(old, 4, Table!String), e)
          /\ Keeps(Table!retype(old, 2, Table!Number), e)
      BY <2>3, RetypeKeeps, Members
    <3>2. QED
      BY <2>3, <3>1 DEF Table!Given
  <2>4. \E c, d : layout \in {string(c, 4, string(d, 3, target)), number(c, string(d, 1, target))}
    <3>1. Table!window_form(start, v)
            = string(Table!HasBit(v[5], 2), 4, string(Table!HasBit(v[5], 1), 3, target))
      BY DEF Table!window_form
    <3>2. \E c, d : Table!image_form(start, v) = number(c, string(d, 1, target))
      <4> DEFINE named == Table!HasBit(v[3], 65536)
                 sized == Table!HasBit(v[3], 256)
      <4>1. Table!image_form(start, v) = number(sized, string(named, 1, target))
        BY DEF Table!image_form
      <4> HIDE DEF named, sized, string, number, target
      <4>2. QED
        BY <4>1
    <3> HIDE DEF string, number, target
    <3>3. QED
      BY <2>1, <3>1, <3>2
  <2> HIDE DEF target, string, number
  <2>5. PICK c, d :
          layout \in {string(c, 4, string(d, 3, target)), number(c, string(d, 1, target))}
    BY <2>4
  <2>6. Keeps(string(d, 3, target), e) /\ Keeps(string(d, 1, target), e)
    BY <2>2, <2>3
  <2>7. Keeps(string(c, 4, string(d, 3, target)), e)
    BY <2>3, <2>6
  <2>8. Keeps(number(c, string(d, 1, target)), e)
    BY <2>3, <2>6
  <2>9. QED
    BY <1>4, <2>5, <2>7, <2>8 DEF layout
<1>11. CASE info.op = "WRITEINI"
  <2>1. layout = Table!ini_form(start, v)
    BY <1>1, <1>11 DEF Takes
  <2>2. QED
    BY <1>2, <1>4, <2>1, ClearKeeps, GivenKeeps DEF Table!ini_form, layout
<1>12. CASE info.op = "DELREG"
  <2>1. layout = Table!in_context(Table!Given(v[4] # 0, Table!clear(start, 3), start), v[1])
    BY <1>1, <1>12 DEF Takes
  <2>2. Keeps(Table!Given(v[4] # 0, Table!clear(start, 3), start), e)
    BY <1>2, ClearKeeps, GivenKeeps
  <2>3. QED
    BY <1>3, <2>1, <2>2, ContextActs DEF layout
<1>13. CASE info.op = "WRITEREG"
  <2>1. layout = Table!in_context(Table!registry_value_form(start, v[4]), v[0])
    BY <1>1, <1>13 DEF Takes
  <2>2. Keeps(Table!registry_value_form(start, v[4]), e)
    <3>1. /\ Keeps(Table!retype(start, 3, Table!String), e) /\ Keeps(Table!clear(start, 3), e)
          /\ Keeps(Table!retype(start, 3, Table!DataOffset), e)
          /\ Keeps(Table!retype(start, 3, Table!Number), e)
      BY <1>2, ClearKeeps, RetypeKeeps, Members
    <3>2. QED
      BY <3>1 DEF Table!registry_value_form
  <2>3. QED
    BY <1>3, <2>1, <2>2, ContextActs DEF layout
<1>14. CASE info.op \in {"READREGSTR", "REGENUM"}
  <2>1. layout = Table!in_context(start, v[1])
    BY <1>1, <1>14 DEF Takes
  <2>2. QED
    BY <1>2, <1>3, <2>1, ContextActs DEF layout
<1>15. CASE info.op = "SECTIONSET"
  <2>1. layout = Table!section_form(start, v[2])
    BY <1>1, <1>15 DEF Takes
  <2>2. layout.effects = e
    <3> DEFINE form(types, count) == [start EXCEPT !.types = Table!Typed(types), !.count = count]
    <3>1. \A types, count : form(types, count).effects = e
      <4> TAKE types, count
      <4>1. form(types, count) = [types |-> Table!Typed(types), count |-> count, effects |-> e]
        BY <1>2, PartsKeep
      <4>2. QED
        BY <4>1
    <3>2. \E types, count : layout = form(types, count)
      BY <2>1, Zenon DEF Table!section_form
    <3> HIDE DEF form
    <3>3. QED
      BY <3>1, <3>2
  <2>3. QED
    BY <1>3, <2>2 DEF layout
<1>16. CASE info.op = "INSTTYPESET"
  <2>1. layout = Table!inst_type_form(start, v[2], v[3])
    BY <1>1, <1>16 DEF Takes
  <2> DEFINE typed(type) == [start EXCEPT !.types =
                 Table!Typed(<<Table!Number, type, Table!Literal, Table!Literal>>), !.count = 4]
  <2>2. \A type : typed(type) =
          [types |-> Table!Typed(<<Table!Number, type, Table!Literal, Table!Literal>>),
           count |-> 4, effects |-> e]
    BY <1>2, PartsKeep
  <2>3. layout \in {typed(Table!Unused), typed(Table!MAY_OUT), typed(Table!RawString),
                    [typed(Table!MAY_OUT) EXCEPT !.effects.hidden = "ReadsAny"]}
    BY <2>1 DEF Table!inst_type_form
  <2>4. ActsAs([typed(Table!MAY_OUT) EXCEPT !.effects.hidden = "ReadsAny"].effects, info, op, v)
    BY <1>3, <2>2, HiddenActs
  <2>5. \A type : typed(type).effects = e
    BY <2>2
  <2> HIDE DEF typed
  <2>6. QED
    BY <1>3, <2>3, <2>4, <2>5 DEF layout
<1>17. CASE info.op = "GETOSINFO"
  <2>1. layout = Table!os_info_form(start, v[3])
    BY <1>1, <1>17 DEF Takes
  <2>2. CASE v[3] = 0
    <3>1. Keeps(Table!retype(start, 2, Table!String), e)
      BY <1>2, RetypeKeeps, Members
    <3>2. layout.effects = Table!FAILS_OUTSIDE
      BY <2>1, <2>2, <3>1, AffectTakes DEF Table!os_info_form
    <3>3. QED
      BY <1>6, <1>17, <3>2, TableEffects DEF layout
  <2>3. CASE v[3] = 1
    <3>1. Keeps(Table!retype(start, 2, Table!Number), e)
      BY <1>2, RetypeKeeps, Members
    <3>2. Keeps(Table!retype(Table!retype(start, 2, Table!Number), 4, Table!Number), e)
      BY <3>1, RetypeKeeps, Members
    <3>3. layout.effects = Table!acting_outside(Table!reading(Table!NONE, Table!ExecFlag))
      BY <2>1, <2>3, <3>2, AffectTakes DEF Table!os_info_form
    <3>4. Acts(Table!acting_outside(Table!reading(Table!NONE, Table!ExecFlag)), "Never", "None")
      BY NothingActs, Combinators
    <3>5. QED
      BY <1>6, <1>17, <3>3, <3>4 DEF layout
  <2>4. CASE v[3] \notin {0, 1}
    <3>1. layout = Table!clear(start, 1)
      BY <2>1, <2>4 DEF Table!os_info_form
    <3>2. QED
      BY <1>2, <1>4, <3>1, ClearKeeps DEF layout
  <2>5. QED
    BY <2>2, <2>3, <2>4
<1>18. QED
  BY <1>7, <1>8, <1>9, <1>10, <1>11, <1>12, <1>13, <1>14, <1>15, <1>16, <1>17 DEF FormsOf

(* What the layout of an entry says it does.                               *)
LEMMA EffectsOfLayout ==
  ASSUME NEW info, NEW v, NEW op \in 0 .. 73, IsRowOf(info, op)
  PROVE  LET effects == Table!param_layout(info, v).effects IN
         /\ info.op # "REBOOT" => (effects.terminates = "Always" <=> op \in {3, 4})
         /\ effects.outdir = "Write" <=> (op = 11 /\ v[1] # 0)
         /\ effects.plugin <=> (op = 44 /\ v[2] = 0)
<1> DEFINE effects == Table!param_layout(info, v).effects
<1>1. info.op = "CREATEDIR" <=> op = 11
  BY DEF IsRowOf, HasFormName, FormNames
<1>2. info.op = "REGISTERDLL" <=> op = 44
  BY DEF IsRowOf, HasFormName, FormNames
<1>3. CASE info.op # "REGISTERDLL"
  <2>1. ActsAs(effects, info, op, v)
    BY <1>3, LayoutActs
  <2> HIDE DEF effects
  <2>2. QED
    BY <1>1, <1>2, <1>3, <2>1 DEF ActsAs, Acts, effects
<1>4. CASE info.op = "REGISTERDLL"
  <2> DEFINE start == Start(info, v)
             e == Table!form_effects(info.op, v, info.effects)
  <2>1. Keeps(start, e)
    BY StartIs DEF IsRowOf, Keeps
  <2>2. PICK t \in {"Never", "May", "Always"}, o \in {"None", "Read", "Write"} :
          /\ Acts(e, t, o)
          /\ info.op # "REBOOT" => (t = "Always" <=> op \in {3, 4})
          /\ o = "Write" <=> (info.op = "CREATEDIR" /\ v[1] # 0)
    BY StartActs DEF IsRowOf, ActsAs
  <2> HIDE DEF e
  <2>3. Table!param_layout(info, v) =
          IF v[2] = 0 THEN Table!affecting(Table!clear(start, 2),
                                   Table!of_plugin(start.effects, Table!ExecFlag))
          ELSE start
    BY <1>4, Arms DEF Takes
  <2> HIDE DEF start
  <2>4. CASE v[2] # 0
    <3>1. effects = e
      BY <2>1, <2>3, <2>4 DEF Keeps
    <3> HIDE DEF effects
    <3>2. QED
      BY <1>1, <1>2, <1>4, <2>2, <2>4, <3>1 DEF Acts, effects
  <2>5. CASE v[2] = 0
    <3>1. effects = Table!of_plugin(e, Table!ExecFlag)
      <4>1. Keeps(Table!clear(start, 2), e)
        BY <2>1, ClearKeeps
      <4>2. start.effects = e
        BY <2>1 DEF Keeps
      <4>3. QED
        BY <2>3, <2>5, <4>1, <4>2, AffectTakes
    <3> DEFINE f == Table!writing(Table!reading(e, Table!ExecFlag), Table!ExecFlag)
    <3>2. Acts(f, t, o)
      <4>1. Acts(Table!reading(e, Table!ExecFlag), t, o)
        BY <2>2, Combinators
      <4>2. QED
        BY <4>1, Combinators
    <3>3. effects = [f EXCEPT !.hidden = "Any", !.plugin = TRUE]
      BY <3>1 DEF Table!of_plugin
    <3> HIDE DEF f, effects
    <3> DEFINE g == [f EXCEPT !.hidden = "Any"]
    <3>4. g = [x \in EffectFields |-> g[x]] /\ g.terminates = t /\ g.outdir = o
      BY <3>2 DEF Acts, EffectFields
    <3>5. effects = [g EXCEPT !.plugin = TRUE]
      BY <3>3
    <3> HIDE DEF g
    <3>6. effects.terminates = t /\ effects.outdir = o /\ effects.plugin = TRUE
      BY <3>4, <3>5 DEF EffectFields
    <3>7. QED
      BY <1>1, <1>2, <1>4, <2>2, <2>5, <3>6 DEF effects
  <2>6. QED
    BY <2>4, <2>5
<1>5. QED
  BY <1>3, <1>4

(* The entry yielded last is the one every reader resolves.                *)
ItemResolved ==
  item.kind = "Entry" =>
    /\ phase = "Read"
    /\ item.op = normalize_opcode(item.which) /\ item.row = resolve_opcode(item.which)

(* It holds before anything is read,                                       *)
LEMMA ResolvedInit == Init => ItemResolved
  BY DEF Init, ItemResolved, NoItem

(* every step keeps it,                                                    *)
LEMMA ResolvedNext == ItemResolved /\ [Next]_vars => ItemResolved'
<1> SUFFICES ASSUME ItemResolved, [Next]_vars PROVE ItemResolved'
  OBVIOUS
<1>1. CASE DetectParkSub \/ DetectLogBuild \/ DetectNsis2Sub
  BY <1>1 DEF DetectParkSub, DetectLogBuild, DetectNsis2Sub, ItemResolved
<1>2. CASE ReadEntry
  <2>1. UNCHANGED <<build, park_sub, log_build>> /\ phase = "Read" /\ phase' = "Read"
    BY <1>2 DEF ReadEntry, file
  <2>2. \A raw : /\ normalize_opcode(raw)' = normalize_opcode(raw)
                 /\ resolve_opcode(raw)' = resolve_opcode(raw)
    BY <2>1 DEF normalize_opcode, resolve_opcode
  <2>3. CASE index' \in DOMAIN code
    <3> DEFINE which == Entry(index').which
    <3>1. /\ item'.op = normalize_opcode(which) /\ item'.row = resolve_opcode(which)
          /\ item'.which = which
      BY <1>2, <2>3 DEF ReadEntry
    <3> HIDE DEF which
    <3>2. QED
      BY <2>1, <2>2, <3>1 DEF ItemResolved, normalize_opcode, resolve_opcode
  <2>4. CASE index' \notin DOMAIN code
    BY <1>2, <2>4 DEF ReadEntry, TooShort, ItemResolved
  <2>5. QED
    BY <2>3, <2>4
<1>3. CASE UNCHANGED vars
  BY <1>3 DEF vars, file, ItemResolved, normalize_opcode, resolve_opcode
<1>4. QED
  BY <1>1, <1>2, <1>3 DEF Next, Done

(* and so it always holds.                                                 *)
LEMMA AlwaysResolved == Spec => []ItemResolved
  BY ResolvedInit, ResolvedNext, PTL DEF Spec

(* The entry yielded last has the row of its number.                       *)
LEMMA ItemRow ==
  ASSUME ItemResolved, IsRead, build.version # "V1"
  PROVE  /\ item.op \in 0 .. 73 /\ IsRowOf(item.row, item.op)
         /\ item.op # 37 => item.row = lookup(item.op)
         /\ Layout = Table!param_layout(item.row, item.offsets)
<1>1. /\ item.op = normalize_opcode(item.which) /\ item.row = resolve_opcode(item.which)
      /\ item.row # NoRow
  BY DEF ItemResolved, IsRead
<1>2. item.row = lookup_for(item.op, build.version)
  BY <1>1 DEF resolve_opcode
<1>3. Layout = Table!param_layout(item.row, item.offsets)
  BY <1>1 DEF Layout, param_layout
<1>4. QED
  BY <1>1, <1>2, <1>3, FoundRows

(* The control-flow analysis of script.rs and the operand layouts of       *)
(* opcode/info.rs are written apart and must agree: for every number and   *)
(* all operands of an entry of NSIS 2, 3 or Park, the analysis follows an  *)
(* operand exactly where its layout has a jump, and ends the script where  *)
(* the layout says it always ends.                                         *)
THEOREM FlowIsOfTheLayout == Spec => [](build.version # "V1" => FlowFollowsTheLayout)
<1>1. ItemResolved => (build.version # "V1" => FlowFollowsTheLayout)
  <2> SUFFICES ASSUME ItemResolved, IsRead, build.version # "V1"
               PROVE  /\ {slot \in Jumps : item.offsets[slot] # 0} \subseteq EdgeSlots
                      /\ EdgeSlots \subseteq Jumps
                      /\ item.row.op \notin {"RET", "REBOOT"} =>
                           ((\E e \in Edges : e.target = Flow!ExitTarget /\ e.operand = Flow!NoOperand)
                              <=> Layout.effects.terminates = "Always")
    BY DEF FlowFollowsTheLayout
  <2> DEFINE op == item.op
             v == item.offsets
             ins == [op |-> flow_of(op), args |-> v]
  <2>1. /\ op \in 0 .. 73 /\ IsRowOf(item.row, op)
        /\ Layout = Table!param_layout(item.row, v)
    BY ItemRow
  <2>2. Jumps = {slot \in 0 .. 5 : <<op, slot>> \in JumpSlots}
    BY <2>1, JumpsOfLayout DEF Jumps
  <2>3. Edges = Flow!classify_opcode(ins, index - 1, entry_count)
    BY DEF Edges
  <2>4. {slot \in Jumps : v[slot] # 0} \subseteq EdgeSlots /\ EdgeSlots \subseteq Jumps
    BY <2>1, <2>2, <2>3, Followed DEF EdgeSlots
  <2>5. (\E e \in Edges : e.target = Flow!ExitTarget /\ e.operand = Flow!NoOperand)
          <=> flow_of(op) \in {"RET", "ABORT", "QUIT"}
    BY <2>3, Exits
  <2>6. item.row.op # "RET" => (flow_of(op) \in {"RET", "ABORT", "QUIT"} <=> op \in {3, 4})
    <3>1. item.row.op = "RET" <=> op = 1
      BY <2>1 DEF IsRowOf, HasFlowName, FlowOpcodes
    <3>2. flow_of(op) \in {"RET", "ABORT", "QUIT"} <=> op \in {1, 3, 4}
      <4>1. CASE \E f \in FlowOpcodes : f[1] = op
        BY <4>1, FlowOf DEF FlowOpcodes
      <4>2. CASE \A f \in FlowOpcodes : f[1] # op
        BY <4>2, FlowOf DEF FlowOpcodes
      <4>3. QED
        BY <4>1, <4>2
    <3>3. QED
      BY <3>1, <3>2
  <2>7. item.row.op # "REBOOT" => (Layout.effects.terminates = "Always" <=> op \in {3, 4})
    BY <2>1, EffectsOfLayout
  <2>8. QED
    BY <2>4, <2>5, <2>6, <2>7
<1>2. QED
  BY <1>1, AlwaysResolved, PTL

(* What the views take an operand to be.                                   *)
ReadAsDeclared(type) == Table!is_string(type) \/ type.kind = "Unused"

(* Which types are strings, which are none.                                *)
LEMMA TypesDeclared ==
  /\ ReadAsDeclared(Table!String) /\ ReadAsDeclared(Table!Unused) /\ ReadAsDeclared(Table!Number)
  /\ Table!Literal.kind = "Int" /\ Table!DataOffset.kind = "DataOffset"
  /\ ~Table!is_variable(Table!String) /\ ~Table!is_variable(Table!Unused)
  /\ ~Table!is_variable(Table!Literal)
  BY DEF ReadAsDeclared, Table!String, Table!Unused, Table!Number, Table!Literal, Table!DataOffset,
         Table!is_string, Table!is_variable

(* The slots an instruction has the types S in, whatever form it takes.    *)
LEMMA TypesOfLayout ==
  ASSUME NEW op \in {20, 40, 41, 44, 45, 50, 51, 52, 62}, NEW v
  PROVE  LET types == Table!param_layout(lookup(op), v).types
             old   == lookup(op).types
         IN /\ op \in {20, 40, 45, 52, 62} => \A slot \in 0 .. 5 : types[slot] = old[slot]
            /\ op = 41 => \A slot \in 0 .. 5 : types[slot] =
                 IF slot = 1 /\ (v[2] = 0 \/ v[1] < 0) THEN Table!Unused ELSE old[slot]
            /\ op = 44 => \A slot \in 0 .. 5 : types[slot] =
                 IF slot = 2 /\ v[2] = 0 THEN Table!Unused ELSE old[slot]
            /\ op = 50 => \A slot \in 0 .. 5 : types[slot] =
                 IF slot = 3 /\ v[4] # 0 THEN Table!Unused ELSE old[slot]
            /\ op = 51 => \A slot \in 0 .. 5 : types[slot] =
                 IF slot # 3 THEN old[slot]
                 ELSE IF v[4] = 1 THEN Table!String
                 ELSE IF v[4] = 3 THEN Table!DataOffset
                 ELSE IF v[4] = 4 THEN Table!Number
                 ELSE Table!Unused
<1> DEFINE info == lookup(op)
           layout == Table!param_layout(info, v)
           start == Start(info, v)
<1>1. Takes(info, v, start, layout)
  BY Arms
<1>2. IsLayout(start, SlotTypes) /\ start.types = info.types
  <2>1. IsRowOf(info, op)
    BY Rows
  <2> HIDE DEF info
  <2>2. QED
    BY <2>1, StartIs DEF IsRowOf
<1>3. ASSUME NEW new, IsLayout(new, SlotTypes), NEW root
      PROVE  Table!in_context(new, root).types = new.types
  BY <1>3, Affected DEF Table!in_context
<1>4. ASSUME NEW slot \in 0 .. 5
      PROVE  /\ IsLayout(Table!clear(start, slot), SlotTypes)
             /\ \A x \in 0 .. 5 : Table!clear(start, slot).types[x]
                                    = IF x = slot THEN Table!Unused ELSE info.types[x]
  <2>1. Table!Unused \in SlotTypes
    BY Members
  <2>2. QED
    BY <1>2, <2>1, Cleared DEF IsRetyped
<1>5. ASSUME NEW slot \in 0 .. 5, NEW type \in PlainTypes
      PROVE  /\ IsLayout(Table!retype(start, slot, type), SlotTypes)
             /\ \A x \in 0 .. 5 : Table!retype(start, slot, type).types[x]
                                    = IF x = slot THEN type ELSE info.types[x]
  <2>1. type \in SlotTypes
    BY Members
  <2>2. /\ IsLayout(Table!retype(start, slot, type), SlotTypes)
        /\ IsRetyped(Table!retype(start, slot, type), start, slot, type)
    BY <1>2, <2>1, Retyped
  <2>3. QED
    BY <1>2, <2>2 DEF IsRetyped
<1> HIDE DEF start, layout
<1>6. CASE op \in {20, 40, 45, 62}
  <2>1. info.op \notin FormsOf
    BY <1>6, ViewRows DEF FormsOf
  <2>2. layout = start
    BY <1>1, <2>1 DEF Takes
  <2>3. QED
    BY <1>2, <1>6, <2>2 DEF layout
<1>7. CASE op = 52
  <2>1. info.op = "READREGSTR"
    BY <1>7, ViewRows
  <2>2. layout = Table!in_context(start, v[1])
    BY <1>1, <2>1 DEF Takes
  <2>3. layout.types = info.types
    BY <1>2, <1>3, <2>2
  <2>4. QED
    BY <1>7, <2>3 DEF layout
<1>8. CASE op = 41
  <2>1. info.op = "EXECUTE"
    BY <1>8, ViewRows DEF Table!Op
  <2> HIDE DEF info
  <2>2. layout = IF v[2] = 0 \/ v[1] < 0 THEN Table!clear(start, 1) ELSE start
    BY <1>1, <2>1 DEF Takes
  <2>3. \A slot \in 0 .. 5 : layout.types[slot] =
          IF slot = 1 /\ (v[2] = 0 \/ v[1] < 0) THEN Table!Unused ELSE info.types[slot]
    BY <1>2, <1>4, <2>2
  <2>4. QED
    BY <1>8, <2>3 DEF layout, info
<1>9. CASE op = 44
  <2>1. info.op = "REGISTERDLL"
    <3>1. IsRowOf(info, 44)
      BY <1>9, Rows
    <3> HIDE DEF info
    <3>2. QED
      BY <3>1 DEF IsRowOf, HasFormName, FormNames
  <2> HIDE DEF info
  <2>2. layout = IF v[2] = 0 THEN Table!affecting(Table!clear(start, 2),
                                        Table!of_plugin(start.effects, Table!ExecFlag))
                 ELSE start
    BY <1>1, <2>1 DEF Takes
  <2>3. \A effects : Table!affecting(Table!clear(start, 2), effects).types
                       = Table!clear(start, 2).types
    BY <1>4, Affected
  <2>4. \A slot \in 0 .. 5 : layout.types[slot] =
          IF slot = 2 /\ v[2] = 0 THEN Table!Unused ELSE info.types[slot]
    BY <1>2, <1>4, <2>2, <2>3
  <2>5. QED
    BY <1>9, <2>4 DEF layout, info
<1>10. CASE op = 50
  <2>1. info.op = "DELREG"
    BY <1>10, ViewRows
  <2> HIDE DEF info
  <2>2. layout = Table!in_context(Table!Given(v[4] # 0, Table!clear(start, 3), start), v[1])
    BY <1>1, <2>1 DEF Takes
  <2>3. CASE v[4] # 0
    <3>1. layout.types = Table!clear(start, 3).types
      BY <1>3, <1>4, <2>2, <2>3 DEF Table!Given
    <3>2. \A slot \in 0 .. 5 : layout.types[slot] =
            IF slot = 3 THEN Table!Unused ELSE info.types[slot]
      BY <1>4, <3>1
    <3>3. QED
      BY <1>10, <2>3, <3>2 DEF layout, info
  <2>4. CASE v[4] = 0
    <3>1. layout.types = info.types
      BY <1>2, <1>3, <2>2, <2>4 DEF Table!Given
    <3>2. QED
      BY <1>10, <2>4, <3>1 DEF layout, info
  <2>5. QED
    BY <2>3, <2>4
<1>11. CASE op = 51
  <2>1. info.op = "WRITEREG"
    BY <1>11, ViewRows
  <2> HIDE DEF info
  <2>2. layout = Table!in_context(Table!registry_value_form(start, v[4]), v[0])
    BY <1>1, <2>1 DEF Takes
  <2> DEFINE new == Table!registry_value_form(start, v[4])
             type == IF v[4] = 1 THEN Table!String
                     ELSE IF v[4] = 3 THEN Table!DataOffset
                     ELSE IF v[4] = 4 THEN Table!Number
                     ELSE Table!Unused
  <2>3. new = Table!retype(start, 3, type)
    BY DEF Table!registry_value_form, Table!clear
  <2>4. type \in PlainTypes
    BY Members
  <2> HIDE DEF new, type
  <2>5. /\ IsLayout(new, SlotTypes)
        /\ \A x \in 0 .. 5 : new.types[x] = IF x = 3 THEN type ELSE info.types[x]
    BY <1>5, <2>3, <2>4
  <2>6. layout.types = new.types
    BY <1>3, <2>2, <2>5 DEF new
  <2>7. \A slot \in 0 .. 5 : layout.types[slot] = IF slot # 3 THEN info.types[slot] ELSE type
    BY <2>5, <2>6
  <2>8. QED
    BY <1>11, <2>7 DEF layout, info, type
<1>12. QED
  BY <1>6, <1>7, <1>8, <1>9, <1>10, <1>11

(* The view of a number reads operands of these types as what they are.    *)
ReadsAsDeclared(types, op, v) ==
  /\ \A slot \in StringSlots(op, v) :
       \/ ReadAsDeclared(types[slot])
       \/ slot = 3 /\ op = EW_WRITEREG /\ reg_type(v[4], v[5]) = "MultiStr"
  /\ \A slot \in RootSlots(op) : types[slot].kind = "Int"
  /\ \A slot \in DataSlots(op, FALSE) : types[slot].kind = "DataOffset"
  /\ op = EW_EXECUTE /\ ~is_wait(op, v) =>
       ~\E slot \in 0 .. 5 : Table!is_variable(types[slot])

(* Every view reads the operands of its instruction as they are declared.  *)
LEMMA Declared ==
  ASSUME NEW op \in {20, 40, 41, 44, 45, 50, 51, 52, 62}, NEW v
  PROVE  ReadsAsDeclared(Table!param_layout(lookup(op), v).types, op, v)
<1> DEFINE types == Table!param_layout(lookup(op), v).types
           old   == lookup(op).types
<1> USE DEF EW_EXTRACTFILE, EW_SHELLEXEC, EW_EXECUTE, EW_PLUGIN, EW_CREATESHORTCUT,
            EW_DELREG, EW_WRITEREG, EW_READREGSTR, EW_UNINSTALLER
<1>1. /\ op \in {20, 40, 45, 52, 62} => \A slot \in 0 .. 5 : types[slot] = old[slot]
      /\ op = 41 => \A slot \in 0 .. 5 : types[slot] =
           IF slot = 1 /\ (v[2] = 0 \/ v[1] < 0) THEN Table!Unused ELSE old[slot]
      /\ op = 44 => \A slot \in 0 .. 5 : types[slot] =
           IF slot = 2 /\ v[2] = 0 THEN Table!Unused ELSE old[slot]
      /\ op = 50 => \A slot \in 0 .. 5 : types[slot] =
           IF slot = 3 /\ v[4] # 0 THEN Table!Unused ELSE old[slot]
      /\ op = 51 => \A slot \in 0 .. 5 : types[slot] =
           IF slot # 3 THEN old[slot]
           ELSE IF v[4] = 1 THEN Table!String
           ELSE IF v[4] = 3 THEN Table!DataOffset
           ELSE IF v[4] = 4 THEN Table!Number
           ELSE Table!Unused
  BY TypesOfLayout
<1>2. /\ op = 20 => old[1] = Table!String /\ old[2] = Table!DataOffset
      /\ op \in {40, 45} => \A slot \in 0 .. 2 : old[slot] = Table!String
      /\ op = 44 => \A slot \in 0 .. 1 : old[slot] = Table!String
      /\ op \in {50, 52} => old[1] = Table!Literal /\ \A slot \in 2 .. 3 : old[slot] = Table!String
      /\ op = 51 => old[0] = Table!Literal /\ \A slot \in 1 .. 2 : old[slot] = Table!String
      /\ op = 62 => old[0] = Table!String /\ old[1] = Table!DataOffset
  BY ViewRows
<1>3. op = 41 => /\ old[0] = Table!String
                 /\ \A slot \in 0 .. 5 : slot # 1 => ~Table!is_variable(old[slot])
  <2>1. lookup(41).types = Table!Typed(<<Table!String, Table!MAY_OUT, Table!Literal>>)
    BY ViewRows DEF Table!Op
  <2>2. QED
    BY <2>1, TypesDeclared DEF Table!Typed, Table!Slots
<1> HIDE DEF types, old
<1>4. CASE op = 20
  <2>1. StringSlots(op, v) = {1} /\ RootSlots(op) = {} /\ DataSlots(op, FALSE) = {2}
    BY <1>4 DEF StringSlots, RootSlots, DataSlots, ViewOf, FileStrings
  <2>2. types[1] = Table!String /\ types[2] = Table!DataOffset
    BY <1>1, <1>2, <1>4
  <2>3. ReadsAsDeclared(types, op, v)
    <3>1. \A slot \in StringSlots(op, v) :
            \/ ReadAsDeclared(types[slot])
            \/ slot = 3 /\ op = EW_WRITEREG /\ reg_type(v[4], v[5]) = "MultiStr"
      BY <1>4, <2>1, <2>2, TypesDeclared
    <3>2. \A slot \in RootSlots(op) : types[slot].kind = "Int"
      BY <1>4, <2>1, <2>2, TypesDeclared
    <3>3. \A slot \in DataSlots(op, FALSE) : types[slot].kind = "DataOffset"
      BY <1>4, <2>1, <2>2, TypesDeclared
    <3>4. op = EW_EXECUTE /\ ~is_wait(op, v) =>
            ~\E slot \in 0 .. 5 : Table!is_variable(types[slot])
      BY <1>4, <2>1, <2>2, TypesDeclared
    <3>5. QED
      BY <3>1, <3>2, <3>3, <3>4 DEF ReadsAsDeclared
  <2>4. QED
    BY <2>3 DEF types
<1>5. CASE op \in {40, 45}
  <2>1. StringSlots(op, v) = {0, 1, 2} /\ RootSlots(op) = {} /\ DataSlots(op, FALSE) = {}
    BY <1>5 DEF StringSlots, RootSlots, DataSlots, ViewOf, ShellExecStrings, ShortcutStrings
  <2>2. types[0] = Table!String /\ types[1] = Table!String /\ types[2] = Table!String
    BY <1>1, <1>2, <1>5
  <2>3. ReadsAsDeclared(types, op, v)
    <3>1. \A slot \in StringSlots(op, v) :
            \/ ReadAsDeclared(types[slot])
            \/ slot = 3 /\ op = EW_WRITEREG /\ reg_type(v[4], v[5]) = "MultiStr"
      BY <1>5, <2>1, <2>2, TypesDeclared
    <3>2. \A slot \in RootSlots(op) : types[slot].kind = "Int"
      BY <1>5, <2>1, <2>2, TypesDeclared
    <3>3. \A slot \in DataSlots(op, FALSE) : types[slot].kind = "DataOffset"
      BY <1>5, <2>1, <2>2, TypesDeclared
    <3>4. op = EW_EXECUTE /\ ~is_wait(op, v) =>
            ~\E slot \in 0 .. 5 : Table!is_variable(types[slot])
      BY <1>5, <2>1, <2>2, TypesDeclared
    <3>5. QED
      BY <3>1, <3>2, <3>3, <3>4 DEF ReadsAsDeclared
  <2>4. QED
    BY <2>3 DEF types
<1>6. CASE op = 41
  <2>1. StringSlots(op, v) = {0} /\ RootSlots(op) = {} /\ DataSlots(op, FALSE) = {}
    BY <1>6 DEF StringSlots, RootSlots, DataSlots, ViewOf, ExecStrings
  <2>2. types[0] = Table!String
    BY <1>1, <1>3, <1>6
  <2>3. ~is_wait(op, v) => ~\E slot \in 0 .. 5 : Table!is_variable(types[slot])
    BY <1>1, <1>3, <1>6, TypesDeclared DEF is_wait
  <2>4. ReadsAsDeclared(types, op, v)
    <3>1. \A slot \in StringSlots(op, v) :
            \/ ReadAsDeclared(types[slot])
            \/ slot = 3 /\ op = EW_WRITEREG /\ reg_type(v[4], v[5]) = "MultiStr"
      BY <1>6, <2>1, <2>2, <2>3, TypesDeclared
    <3>2. \A slot \in RootSlots(op) : types[slot].kind = "Int"
      BY <1>6, <2>1, <2>2, <2>3, TypesDeclared
    <3>3. \A slot \in DataSlots(op, FALSE) : types[slot].kind = "DataOffset"
      BY <1>6, <2>1, <2>2, <2>3, TypesDeclared
    <3>4. op = EW_EXECUTE /\ ~is_wait(op, v) =>
            ~\E slot \in 0 .. 5 : Table!is_variable(types[slot])
      BY <1>6, <2>1, <2>2, <2>3, TypesDeclared
    <3>5. QED
      BY <3>1, <3>2, <3>3, <3>4 DEF ReadsAsDeclared
  <2>5. QED
    BY <2>4 DEF types
<1>7. CASE op = 44
  <2>1. StringSlots(op, v) = {0, 1} /\ RootSlots(op) = {} /\ DataSlots(op, FALSE) = {}
    BY <1>7 DEF StringSlots, RootSlots, DataSlots, ViewOf, PluginStrings
  <2>2. types[0] = Table!String /\ types[1] = Table!String
    BY <1>1, <1>2, <1>7
  <2>3. ReadsAsDeclared(types, op, v)
    <3>1. \A slot \in StringSlots(op, v) :
            \/ ReadAsDeclared(types[slot])
            \/ slot = 3 /\ op = EW_WRITEREG /\ reg_type(v[4], v[5]) = "MultiStr"
      BY <1>7, <2>1, <2>2, TypesDeclared
    <3>2. \A slot \in RootSlots(op) : types[slot].kind = "Int"
      BY <1>7, <2>1, <2>2, TypesDeclared
    <3>3. \A slot \in DataSlots(op, FALSE) : types[slot].kind = "DataOffset"
      BY <1>7, <2>1, <2>2, TypesDeclared
    <3>4. op = EW_EXECUTE /\ ~is_wait(op, v) =>
            ~\E slot \in 0 .. 5 : Table!is_variable(types[slot])
      BY <1>7, <2>1, <2>2, TypesDeclared
    <3>5. QED
      BY <3>1, <3>2, <3>3, <3>4 DEF ReadsAsDeclared
  <2>4. QED
    BY <2>3 DEF types
<1>8. CASE op \in {50, 52}
  <2>1. StringSlots(op, v) = {2, 3} /\ RootSlots(op) = {1} /\ DataSlots(op, FALSE) = {}
    BY <1>8 DEF StringSlots, RootSlots, DataSlots, ViewOf, RegDeleteStrings, RegReadStrings
  <2>2. types[1] = Table!Literal /\ types[2] = Table!String /\ types[3] \in {Table!String, Table!Unused}
    BY <1>1, <1>2, <1>8
  <2>3. ReadsAsDeclared(types, op, v)
    <3>1. \A slot \in StringSlots(op, v) :
            \/ ReadAsDeclared(types[slot])
            \/ slot = 3 /\ op = EW_WRITEREG /\ reg_type(v[4], v[5]) = "MultiStr"
      BY <1>8, <2>1, <2>2, TypesDeclared
    <3>2. \A slot \in RootSlots(op) : types[slot].kind = "Int"
      BY <1>8, <2>1, <2>2, TypesDeclared
    <3>3. \A slot \in DataSlots(op, FALSE) : types[slot].kind = "DataOffset"
      BY <1>8, <2>1, <2>2, TypesDeclared
    <3>4. op = EW_EXECUTE /\ ~is_wait(op, v) =>
            ~\E slot \in 0 .. 5 : Table!is_variable(types[slot])
      BY <1>8, <2>1, <2>2, TypesDeclared
    <3>5. QED
      BY <3>1, <3>2, <3>3, <3>4 DEF ReadsAsDeclared
  <2>4. QED
    BY <2>3 DEF types
<1>9. CASE op = 51
  <2>1. /\ StringSlots(op, v) = {1, 2} \cup (IF reg_type(v[4], v[5]) = "Bin" THEN {} ELSE {3})
        /\ RootSlots(op) = {0} /\ DataSlots(op, FALSE) = {}
    BY <1>9 DEF StringSlots, RootSlots, DataSlots, ViewOf, RegWriteStrings
  <2>2. v[4] = 3 => reg_type(v[4], v[5]) \in {"MultiStr", "Bin"}
    BY DEF reg_type
  <2>3. v[4] # 3 => ReadAsDeclared(types[3])
    BY <1>1, <1>9, TypesDeclared
  <2>4. /\ \A slot \in {1, 2} : ReadAsDeclared(types[slot])
        /\ types[0].kind = "Int"
    BY <1>1, <1>2, <1>9, TypesDeclared
  <2>5. ReadsAsDeclared(types, op, v)
    <3>1. \A slot \in StringSlots(op, v) :
            \/ ReadAsDeclared(types[slot])
            \/ slot = 3 /\ op = EW_WRITEREG /\ reg_type(v[4], v[5]) = "MultiStr"
      BY <1>9, <2>1, <2>2, <2>3, <2>4
    <3>2. \A slot \in RootSlots(op) : types[slot].kind = "Int"
      BY <1>9, <2>1, <2>2, <2>3, <2>4
    <3>3. \A slot \in DataSlots(op, FALSE) : types[slot].kind = "DataOffset"
      BY <1>9, <2>1, <2>2, <2>3, <2>4
    <3>4. op = EW_EXECUTE /\ ~is_wait(op, v) =>
            ~\E slot \in 0 .. 5 : Table!is_variable(types[slot])
      BY <1>9, <2>1, <2>2, <2>3, <2>4
    <3>5. QED
      BY <3>1, <3>2, <3>3, <3>4 DEF ReadsAsDeclared
  <2>6. QED
    BY <2>5 DEF types
<1>10. CASE op = 62
  <2>1. StringSlots(op, v) = {0} /\ RootSlots(op) = {} /\ DataSlots(op, FALSE) = {1}
    BY <1>10 DEF StringSlots, RootSlots, DataSlots, ViewOf, UninstallerStrings
  <2>2. types[0] = Table!String /\ types[1] = Table!DataOffset
    BY <1>1, <1>2, <1>10
  <2>3. ReadsAsDeclared(types, op, v)
    <3>1. \A slot \in StringSlots(op, v) :
            \/ ReadAsDeclared(types[slot])
            \/ slot = 3 /\ op = EW_WRITEREG /\ reg_type(v[4], v[5]) = "MultiStr"
      BY <1>10, <2>1, <2>2, TypesDeclared
    <3>2. \A slot \in RootSlots(op) : types[slot].kind = "Int"
      BY <1>10, <2>1, <2>2, TypesDeclared
    <3>3. \A slot \in DataSlots(op, FALSE) : types[slot].kind = "DataOffset"
      BY <1>10, <2>1, <2>2, TypesDeclared
    <3>4. op = EW_EXECUTE /\ ~is_wait(op, v) =>
            ~\E slot \in 0 .. 5 : Table!is_variable(types[slot])
      BY <1>10, <2>1, <2>2, TypesDeclared
    <3>5. QED
      BY <3>1, <3>2, <3>3, <3>4 DEF ReadsAsDeclared
  <2>4. QED
    BY <2>3 DEF types
<1>11. QED
  BY <1>4, <1>5, <1>6, <1>7, <1>8, <1>9, <1>10

(* The typed views of analysis.rs and files.rs read every operand as what  *)
(* its layout declares, for all operands of an entry of NSIS 2, 3 or Park, *)
(* and the replay and the plugin calls take the entries whose effects say  *)
(* so.                                                                     *)
THEOREM ViewsAreOfTheLayout == Spec => [](build.version # "V1" => ViewsReadTheirSlots)
<1>1. ItemResolved => (build.version # "V1" => ViewsReadTheirSlots)
  <2> SUFFICES ASSUME ItemResolved, IsRead, build.version # "V1"
               PROVE  ViewsReadTheirSlots
    BY DEF ViewsReadTheirSlots
  <2> DEFINE op == item.op
             v == item.offsets
             types == Layout.types
  <2>1. /\ op \in 0 .. 73 /\ IsRowOf(item.row, op)
        /\ op # 37 => item.row = lookup(op)
        /\ Layout = Table!param_layout(item.row, v)
    BY ItemRow
  <2>2. /\ Layout.effects.outdir = "Write" <=> (op = 11 /\ v[1] # 0)
        /\ Layout.effects.plugin <=> (op = 44 /\ v[2] = 0)
    BY <2>1, EffectsOfLayout
  <2>3. ReadsAsDeclared(types, op, v)
    <3>1. CASE op \in {20, 40, 41, 44, 45, 50, 51, 52, 62}
      BY <2>1, <3>1, Declared
    <3>2. CASE op \notin {20, 40, 41, 44, 45, 50, 51, 52, 62}
      <4>1. StringSlots(op, v) = {} /\ RootSlots(op) = {} /\ DataSlots(op, FALSE) = {}
        BY <3>2 DEF StringSlots, RootSlots, DataSlots, ViewOf, EW_EXTRACTFILE, EW_SHELLEXEC,
             EW_EXECUTE, EW_PLUGIN, EW_CREATESHORTCUT, EW_DELREG, EW_WRITEREG, EW_READREGSTR,
             EW_UNINSTALLER
      <4>2. QED
        BY <3>2, <4>1 DEF EW_EXECUTE, ReadsAsDeclared
    <3>3. QED
      BY <3>1, <3>2
  <2>4. /\ DataSlots(op, build.version = "V1") = DataSlots(op, FALSE)
        /\ selects_out_dir(op, v) <=> (op = 11 /\ v[1] # 0)
        /\ is_plugin_call(op, v) <=> (op = 44 /\ v[2] = 0)
    BY DEF DataSlots, selects_out_dir, is_plugin_call, EW_CREATEDIR, EW_PLUGIN
  <2>5. QED
    BY <2>2, <2>3, <2>4
    DEF ViewsReadTheirSlots, ReadsAsDeclared, ReadAsDeclared, IsMultiString, Table!Slots
<1>2. QED
  BY <1>1, AlwaysResolved, PTL
===============================================================================
