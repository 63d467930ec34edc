-------------------------- MODULE InstallerParseProofs --------------------------
(***************************************************************************)
(* Theorems about InstallerParse, for every set of files: the header found *)
(* is the installer's own, whatever was compiled is read back, and damage  *)
(* to the block table stays in its table.                                  *)
(***************************************************************************)
EXTENDS InstallerParse, FiniteSetTheorems, WellFoundedInduction, TLAPS

(* Max and Min of a set of integers that has a greatest, or a least one.   *)
LEMMA GreatestIsMax ==
  ASSUME NEW S, S \subseteq Int, NEW m \in S, \A x \in S : x <= m
  PROVE  Max(S) = m
<1> DEFINE P(x) == \A y \in S : x >= y
<1>1. P(m)
  OBVIOUS
<1>2. \A x \in S : P(x) => x = m
  OBVIOUS
<1>3. Max(S) = CHOOSE x \in S : P(x)
  BY DEF Max
<1> HIDE DEF P
<1>. QED BY <1>1, <1>2, <1>3

LEMMA LeastIsMin ==
  ASSUME NEW S, S \subseteq Int, NEW m \in S, \A x \in S : m <= x
  PROVE  Min(S) = m
<1> DEFINE P(x) == \A y \in S : x <= y
<1>1. P(m)
  OBVIOUS
<1>2. \A x \in S : P(x) => x = m
  OBVIOUS
<1>3. Min(S) = CHOOSE x \in S : P(x)
  BY DEF Min
<1> HIDE DEF P
<1>. QED BY <1>1, <1>2, <1>3

(* A set of naturals with a member has its minimum.                        *)
LEMMA MinIsMember ==
  ASSUME NEW S, S \subseteq Nat, S # {}
  PROVE  Min(S) \in S
<1> DEFINE R == OpToRel(<, Nat)
<1>1. IsWellFoundedOn(R, Nat)
  BY NatLessThanWellFounded
<1>2. \A x, y \in Nat : y < x => <<y, x>> \in R
  BY DEF OpToRel
<1> HIDE DEF R
<1>3. PICK m \in S : \A x \in S : ~(<<x, m>> \in R)
  BY <1>1, WFMin
<1>4. \A x \in S : ~(x < m)
  BY <1>2, <1>3
<1>5. S \subseteq Int /\ \A x \in S : m <= x
  BY <1>4
<1>6. Min(S) = m
  BY <1>3, <1>5, LeastIsMin
<1>. QED BY <1>3, <1>6

-----------------------------------------------------------------------------

IsExe == \E f \in Files : exe = f.exe

(* Once it is sought, the overlay begins at the end of the stub.           *)
OverlayBehindStub ==
  pc \notin {"Locate", "Not32Bit"} =>
    pc # "OverlayNotFound" /\ overlay_offset = exe.stub

LEMMA ExeFacts ==
  ASSUME IsExe
  PROVE  /\ exe.stub \in Nat \ {0} /\ exe.len \in Nat
         /\ DOMAIN exe.at \subseteq 0 .. exe.len
         /\ \A s \in exe.sections :
              /\ s.pointer \in Nat /\ s.size \in Nat
              /\ s.pointer + s.size <= exe.stub \/ s.pointer + s.size > exe.len
         /\ \E s \in exe.sections : s.pointer + s.size = exe.stub
         /\ exe.own \in DOMAIN exe.at
         /\ exe.own >= exe.stub /\ exe.own + FirstHeaderSize <= exe.len
         /\ IsFirstHeader(exe.at[exe.own]) /\ has_plausible_lengths(exe.at[exe.own])
         /\ \A o \in DOMAIN exe.at :
              /\ o \in exe.stub .. exe.own - 1
              /\ IsFirstHeader(exe.at[o]) /\ has_plausible_lengths(exe.at[o])
              => (o - exe.stub) % Align # 0
<1>1. PICK f \in Files : exe = f.exe
  BY DEF IsExe
<1>. QED BY <1>1, FilesAssumption, OwnHeaderAssumption

(* Sections that claim more than the file holds do not move the overlay.   *)
LEMMA OverlayIsLocated ==
  ASSUME IsExe
  PROVE  Max({0} \cup section_ends) = exe.stub /\ exe.stub \notin {0, exe.len}
<1>1. exe.stub \in Nat \ {0} /\ exe.len \in Nat /\ exe.own \in 0 .. exe.len
        /\ exe.own >= exe.stub /\ exe.own + FirstHeaderSize <= exe.len
  BY ExeFacts
<1>2. exe.stub \in 0 .. exe.len /\ exe.stub < exe.len
  BY <1>1 DEF FirstHeaderSize
<1>3. exe.stub \in section_ends
  BY <1>2, ExeFacts DEF section_ends
<1>4. ASSUME NEW e \in section_ends PROVE e \in Int /\ e <= exe.stub
  BY <1>1, <1>4, ExeFacts DEF section_ends
<1>5. Max({0} \cup section_ends) = exe.stub
  BY <1>1, <1>3, <1>4, GreatestIsMax
<1>. QED BY <1>1, <1>2, <1>5

(* The scan finds the installer's own header where the alignment lets it.  *)
LEMMA OwnHeaderIsScanned ==
  ASSUME IsExe, overlay_offset = exe.stub
  PROVE  /\ scan_for_first_header # Nowhere
         /\ \/ (exe.own - exe.stub) % Align = 0
            \/ \A o \in Candidates : o >= exe.own /\ (o - exe.stub) % Align # 0
            => scan_for_first_header = exe.own
<1>1. exe.own \in Candidates
  BY ExeFacts DEF Candidates, IsCandidate
<1>2. Candidates \subseteq Nat /\ exe.own \in Nat
  BY ExeFacts DEF Candidates
<1>3. Aligned \subseteq Candidates
  BY DEF Aligned
<1>4. \A o \in Candidates : o \in Aligned <=> (o - exe.stub) % Align = 0
  BY DEF Aligned
<1>5. ASSUME NEW o \in Aligned PROVE exe.own <= o
  <2>1. o \in Nat /\ (o - exe.stub) % Align = 0
    BY <1>2, <1>3, <1>4, <1>5
  <2>2. /\ o \in DOMAIN exe.at /\ o >= exe.stub
        /\ IsFirstHeader(exe.at[o]) /\ has_plausible_lengths(exe.at[o])
    BY <1>3, <1>5 DEF Candidates, IsCandidate
  <2>3. o \notin exe.stub .. exe.own - 1
    BY <2>1, <2>2, ExeFacts
  <2>. QED BY <1>2, <2>1, <2>2, <2>3, ExeFacts
<1>6. ASSUME (exe.own - exe.stub) % Align = 0
      PROVE  scan_for_first_header = exe.own
  <2>1. exe.own \in Aligned
    BY <1>1, <1>4, <1>6
  <2>2. Aligned \subseteq Int
    BY <1>2, <1>3
  <2>3. Min(Aligned) = exe.own
    BY <1>5, <2>1, <2>2, LeastIsMin
  <2>. QED BY <2>1, <2>3 DEF scan_for_first_header
<1>7. ASSUME \A o \in Candidates : o >= exe.own /\ (o - exe.stub) % Align # 0
      PROVE  scan_for_first_header = exe.own
  <2>1. Aligned = {}
    BY <1>3, <1>4, <1>7
  <2>2. Candidates \subseteq Int /\ \A o \in Candidates : exe.own <= o
    BY <1>2, <1>7
  <2>3. Min(Candidates) = exe.own
    BY <1>1, <2>2, LeastIsMin
  <2>. QED BY <1>1, <2>1, <2>3 DEF scan_for_first_header
<1>8. scan_for_first_header # Nowhere
  <2>1. Aligned # {} => Min(Aligned) \in Nat
    BY <1>2, <1>3, MinIsMember
  <2>2. Candidates # {} /\ Min(Candidates) \in Nat
    BY <1>1, <1>2, MinIsMember
  <2>. QED BY <2>1, <2>2 DEF scan_for_first_header, Nowhere
<1>. QED BY <1>6, <1>7, <1>8

-----------------------------------------------------------------------------

LEMMA InitLocated == Init => IsExe /\ OverlayBehindStub /\ HeaderIsFound
BY DEF Init, IsExe, OverlayBehindStub, HeaderIsFound

LEMMA StepLocated ==
  IsExe /\ OverlayBehindStub /\ HeaderIsFound /\ [Next]_vars
    => IsExe' /\ OverlayBehindStub' /\ HeaderIsFound'
<1>. SUFFICES ASSUME IsExe, OverlayBehindStub, HeaderIsFound, [Next]_vars
              PROVE  IsExe' /\ OverlayBehindStub' /\ HeaderIsFound'
  OBVIOUS
<1>1. CASE Locate
  <2>1. exe' = exe /\ overlay_offset' = exe.stub
          /\ pc' \in {"Not32Bit", "Scan"}
    BY <1>1, OverlayIsLocated DEF Locate, file
  <2>. QED BY <2>1 DEF IsExe, OverlayBehindStub, HeaderIsFound
<1>2. CASE Scan
  <2>1. /\ exe' = exe /\ overlay_offset' = overlay_offset /\ overlay_offset = exe.stub
        /\ found' = scan_for_first_header
        /\ pc' = IF found' = Nowhere THEN "SignatureNotFound"
                 ELSE IF found' + FirstHeaderSize = exe.len THEN "NothingBehind"
                 ELSE IF found' = exe.own THEN "Header" ELSE "OtherInstaller"
    BY <1>2 DEF Scan, file, OverlayBehindStub
  <2>2. Candidates' = Candidates
    BY <2>1 DEF Candidates, IsCandidate
  <2>3. found' # Nowhere /\ pc' \in {"NothingBehind", "Header", "OtherInstaller"}
    BY <2>1, OwnHeaderIsScanned
  <2>. QED BY <2>1, <2>2, <2>3, OwnHeaderIsScanned DEF IsExe, OverlayBehindStub, HeaderIsFound
<1>3. CASE ~Locate /\ ~Scan
  <2>1. /\ exe' = exe /\ overlay_offset' = overlay_offset /\ found' = found
        /\ \/ pc' = pc
           \/ pc \in {"Header", "Measure"} /\ pc' \in {"Measure", "Refused", "Read"}
    BY <1>3 DEF Next, vars, file, ParseHeader, MeasureSections, OpenSection, ReadNext, Stop, Open
  <2>2. Candidates' = Candidates
    BY <2>1 DEF Candidates, IsCandidate
  <2>. QED BY <2>1, <2>2 DEF IsExe, OverlayBehindStub, HeaderIsFound
<1>. QED BY <1>1, <1>2, <1>3

(* Whatever an executable's section table claims and whatever the files in *)
(* the installer look like, parse locates the overlay and the installer's  *)
(* own header in it, unless that is out of alignment and another is not.   *)
THEOREM OwnHeaderIsFound == Spec => []HeaderIsFound
BY InitLocated, StepLocated, PTL DEF Spec

-----------------------------------------------------------------------------
(* Words and rows: what the writer puts where.                             *)

(* What Over and Words do.                                                 *)
LEMMA OverIs ==
  ASSUME NEW f, NEW g
  PROVE  /\ DOMAIN Over(f, g) = DOMAIN f \cup DOMAIN g
         /\ \A o \in DOMAIN f : Over(f, g)[o] = f[o]
         /\ \A o \in DOMAIN g : o \notin DOMAIN f => Over(f, g)[o] = g[o]
BY DEF Over

(* f is the n words of seq, from base on.                                  *)
AreWords(f, base, n, seq) ==
  /\ DOMAIN f = {base + 4 * (k - 1) : k \in 1 .. n}
  /\ \A k \in 1 .. n : f[base + 4 * (k - 1)] = seq[k]

LEMMA WordsAt ==
  ASSUME NEW base \in Int, NEW n \in Nat, NEW seq, DOMAIN seq = 1 .. n
  PROVE  AreWords(Words(base, seq), base, n, seq)
<1>1. DOMAIN Words(base, seq) = {base + 4 * (k - 1) : k \in 1 .. n}
  BY DEF Words
<1>2. ASSUME NEW k \in 1 .. n PROVE Words(base, seq)[base + 4 * (k - 1)] = seq[k]
  <2> DEFINE o == base + 4 * (k - 1)
  <2>1. ((o - base) \div 4) + 1 = k
    OBVIOUS
  <2>2. o \in {base + 4 * (j - 1) : j \in DOMAIN seq}
    OBVIOUS
  <2>3. Words(base, seq)[o] = seq[((o - base) \div 4) + 1]
    <3> HIDE DEF o
    <3>. QED BY <2>2 DEF Words
  <2>. QED BY <2>1, <2>3
<1>. QED BY <1>1, <1>2 DEF AreWords

(* Offsets in an item count from its own beginning.                        *)
LEMMA ItemAt ==
  ASSUME NEW n \in Nat, NEW seq, DOMAIN seq = 1 .. n
  PROVE  /\ DOMAIN Words(0, seq) = {4 * (k - 1) : k \in 1 .. n}
         /\ \A k \in 1 .. n : Words(0, seq)[4 * (k - 1)] = seq[k]
<1>1. AreWords(Words(0, seq), 0, n, seq)
  BY WordsAt
<1>2. \A k \in 1 .. n : 0 + 4 * (k - 1) = 4 * (k - 1)
  OBVIOUS
<1>. QED BY <1>1, <1>2 DEF AreWords

(* Rows of one size do not overlap.                                        *)
LEMMA RowsApart ==
  ASSUME NEW size \in Nat, NEW j \in Nat, NEW k \in Nat, j < k
  PROVE  size * (j - 1) + size <= size * (k - 1)
<1>1. PICK d \in Nat : k = j + 1 + d
  <2>1. k - j - 1 \in Nat
    OBVIOUS
  <2>. QED BY <2>1
<1>2. size * (k - 1) = size * (j - 1) + size + size * d
  BY <1>1
<1>3. size * d \in Nat
  BY <1>1
<1>4. size * (j - 1) \in Int
  OBVIOUS
<1>. QED BY <1>2, <1>3, <1>4

(* f has the words of the items that begin at base.                        *)
HoldsItems(f, base, size, n, items) ==
  \A k \in 1 .. n : \A w \in DOMAIN items[k] :
    /\ base + size * (k - 1) + w \in DOMAIN f
    /\ f[base + size * (k - 1) + w] = items[k][w]

(* Items keep to their size, so that each keeps to its row.                *)
ItemsFit(items, n, size) ==
  DOMAIN items = 1 .. n /\ \A k \in 1 .. n : DOMAIN items[k] \subseteq 0 .. size - 1

(* Items laid in rows are held there, and reach no further.                *)
LEMMA LaidAt ==
  ASSUME NEW base \in Int, NEW size \in Nat, NEW n \in Nat, NEW items,
         ItemsFit(items, n, size)
  PROVE  /\ HoldsItems(Laid(base, size, items), base, size, n, items)
         /\ \A o \in DOMAIN Laid(base, size, items) : o \in base .. base + size * n - 1
<1> USE DEF ItemsFit
<1> DEFINE begin(k) == base + size * (k - 1)
<1>1. ASSUME NEW k \in 1 .. n, NEW w \in DOMAIN items[k]
      PROVE  /\ begin(k) + w \in DOMAIN Laid(base, size, items)
             /\ Laid(base, size, items)[begin(k) + w] = items[k][w]
  <2> DEFINE o == begin(k) + w
             P(i) == begin(i) <= o /\ o < begin(i) + size
  <2>1. begin(k) \in Int /\ w \in 0 .. size - 1 /\ o \in Int
    OBVIOUS
  <2>2. P(k)
    <3> HIDE DEF begin
    <3>. QED BY <2>1
  <2>3. \A i \in 1 .. n : P(i) => i = k
    <3>1. SUFFICES ASSUME NEW i \in 1 .. n, P(i), i # k PROVE FALSE
      OBVIOUS
    <3>2. begin(i) \in Int
      OBVIOUS
    <3>3. i < k => begin(i) + size <= begin(k)
      BY <2>1, <3>2, RowsApart
    <3>4. k < i => begin(k) + size <= begin(i)
      BY <2>1, <3>2, RowsApart
    <3>5. i < k \/ k < i
      BY <3>1
    <3> HIDE DEF begin
    <3>. QED BY <2>1, <2>2, <3>1, <3>2, <3>3, <3>4, <3>5
  <2>4. (CHOOSE i \in DOMAIN items : P(i)) = k
    <3> HIDE DEF P
    <3>. QED BY <2>2, <2>3
  <2>5. o \in UNION {{begin(i) + v : v \in DOMAIN items[i]} : i \in DOMAIN items}
    <3> HIDE DEF begin
    <3>. QED OBVIOUS
  <2>6. o - begin(k) = w
    <3> HIDE DEF begin
    <3>. QED BY <2>1
  <2>7. Laid(base, size, items) =
          [x \in UNION {{begin(i) + v : v \in DOMAIN items[i]} : i \in DOMAIN items} |->
             items[CHOOSE i \in DOMAIN items : begin(i) <= x /\ x < begin(i) + size]
                  [x - begin(CHOOSE i \in DOMAIN items : begin(i) <= x /\ x < begin(i) + size)]]
    BY DEF Laid
  <2> HIDE DEF begin
  <2>. QED BY <2>4, <2>5, <2>6, <2>7
<1>2. ASSUME NEW o \in DOMAIN Laid(base, size, items)
      PROVE  o \in base .. base + size * n - 1
  <2>1. PICK k \in 1 .. n : \E w \in DOMAIN items[k] : o = begin(k) + w
    BY DEF Laid
  <2>5. PICK w \in DOMAIN items[k] : o = begin(k) + w
    BY <2>1
  <2>2. size * (k - 1) \in Int /\ size * n \in Int /\ w \in 0 .. size - 1
    OBVIOUS
  <2>3. size * (k - 1) + size <= size * n
    <3>1. k < n + 1 /\ n + 1 \in Nat
      OBVIOUS
    <3>2. size * (k - 1) + size <= size * ((n + 1) - 1)
      BY <3>1, RowsApart
    <3>3. (n + 1) - 1 = n
      OBVIOUS
    <3>. QED BY <3>2, <3>3
  <2>4. size * (k - 1) >= 0
    OBVIOUS
  <2>. QED BY <2>5, <2>2, <2>3, <2>4
<1>. QED BY <1>1, <1>2 DEF HoldsItems

(* Words of an item of n words, at its beginning.                          *)
LEMMA PageItemIs ==
  ASSUME NEW p \in PageFields
  PROVE  LET i == PageItem(p)
         IN /\ DOMAIN i = {4 * (k - 1) : k \in 1 .. 16}
            /\ i[0] = p.dlg_id /\ i[4] = p.wndproc_id /\ i[8] = p.prefunc
            /\ i[12] = p.showfunc /\ i[16] = p.leavefunc /\ i[20] = p.flags
            /\ i[24] = p.caption /\ i[28] = p.back /\ i[32] = p.next
            /\ i[36] = p.clicknext /\ i[40] = p.cancel
            /\ \A k \in 1 .. 5 : i[40 + 4 * k] = p.parms[k]
<1> DEFINE seq == <<p.dlg_id, p.wndproc_id, p.prefunc, p.showfunc, p.leavefunc, p.flags, p.caption,
             p.back, p.next, p.clicknext, p.cancel, p.parms[1], p.parms[2], p.parms[3],
             p.parms[4], p.parms[5]>>
           i == PageItem(p)
<1>1. DOMAIN seq = 1 .. 16
  OBVIOUS
<1>2. i = Words(0, seq)
  BY DEF PageItem
<1>3. \A k \in 1 .. 16 : i[4 * (k - 1)] = seq[k]
  <2> HIDE DEF seq
  <2>. QED BY <1>1, <1>2, ItemAt
<1>4. DOMAIN i = {4 * (k - 1) : k \in 1 .. 16}
  <2> HIDE DEF seq
  <2>. QED BY <1>1, <1>2, ItemAt
<1>5. /\ i[0] = seq[1] /\ i[4] = seq[2] /\ i[8] = seq[3] /\ i[12] = seq[4] /\ i[16] = seq[5]
      /\ i[20] = seq[6] /\ i[24] = seq[7] /\ i[28] = seq[8] /\ i[32] = seq[9]
      /\ i[36] = seq[10] /\ i[40] = seq[11] /\ i[44] = seq[12] /\ i[48] = seq[13]
      /\ i[52] = seq[14] /\ i[56] = seq[15] /\ i[60] = seq[16]
  <2> HIDE DEF seq, i
  <2>. QED BY <1>3
<1>6. /\ i[0] = p.dlg_id /\ i[4] = p.wndproc_id /\ i[8] = p.prefunc
      /\ i[12] = p.showfunc /\ i[16] = p.leavefunc /\ i[20] = p.flags
      /\ i[24] = p.caption /\ i[28] = p.back /\ i[32] = p.next
      /\ i[36] = p.clicknext /\ i[40] = p.cancel
      /\ i[44] = p.parms[1] /\ i[48] = p.parms[2] /\ i[52] = p.parms[3]
      /\ i[56] = p.parms[4] /\ i[60] = p.parms[5]
  <2> HIDE DEF i
  <2>. QED BY <1>5
<1>7. \A k \in 1 .. 5 : i[40 + 4 * k] = p.parms[k]
  <2> HIDE DEF i
  <2>. QED BY <1>6
<1>. QED BY <1>4, <1>6, <1>7

(* The words of each kind of item.                                         *)
LEMMA EntryItemIs ==
  ASSUME NEW e \in EntryFields
  PROVE  LET i == EntryItem(e)
         IN /\ DOMAIN i = {4 * (k - 1) : k \in 1 .. 7}
            /\ i[0] = e.which /\ \A k \in 1 .. 6 : i[4 * k] = e.offsets[k]
<1> DEFINE seq == <<e.which, e.offsets[1], e.offsets[2], e.offsets[3], e.offsets[4], e.offsets[5],
             e.offsets[6]>>
           i == EntryItem(e)
<1>1. DOMAIN seq = 1 .. 7
  OBVIOUS
<1>2. i = Words(0, seq)
  BY DEF EntryItem
<1>3. \A k \in 1 .. 7 : i[4 * (k - 1)] = seq[k]
  <2> HIDE DEF seq
  <2>. QED BY <1>1, <1>2, ItemAt
<1>4. DOMAIN i = {4 * (k - 1) : k \in 1 .. 7}
  <2> HIDE DEF seq
  <2>. QED BY <1>1, <1>2, ItemAt
<1>5. i[0] = seq[1] /\ i[4] = seq[2] /\ i[8] = seq[3] /\ i[12] = seq[4] /\ i[16] = seq[5]
      /\ i[20] = seq[6] /\ i[24] = seq[7]
  <2> HIDE DEF seq, i
  <2>. QED BY <1>3
<1>6. i[0] = e.which /\ \A k \in 1 .. 6 : i[4 * k] = e.offsets[k]
  <2> HIDE DEF i
  <2>. QED BY <1>5
<1>. QED BY <1>4, <1>6

LEMMA LegacyEntryItemIs ==
  ASSUME NEW e \in EntryFields
  PROVE  LET i == LegacyEntryItem(e)
         IN /\ DOMAIN i = {4 * (k - 1) : k \in 1 .. 6}
            /\ i[0] = e.which /\ \A k \in 1 .. 5 : i[4 * k] = e.offsets[k]
<1> DEFINE seq == <<e.which, e.offsets[1], e.offsets[2], e.offsets[3], e.offsets[4], e.offsets[5]>>
           i == LegacyEntryItem(e)
<1>1. DOMAIN seq = 1 .. 6
  OBVIOUS
<1>2. i = Words(0, seq)
  BY DEF LegacyEntryItem
<1>3. \A k \in 1 .. 6 : i[4 * (k - 1)] = seq[k]
  <2> HIDE DEF seq
  <2>. QED BY <1>1, <1>2, ItemAt
<1>4. DOMAIN i = {4 * (k - 1) : k \in 1 .. 6}
  <2> HIDE DEF seq
  <2>. QED BY <1>1, <1>2, ItemAt
<1>5. i[0] = seq[1] /\ i[4] = seq[2] /\ i[8] = seq[3] /\ i[12] = seq[4] /\ i[16] = seq[5]
      /\ i[20] = seq[6]
  <2> HIDE DEF seq, i
  <2>. QED BY <1>3
<1>6. i[0] = e.which /\ \A k \in 1 .. 5 : i[4 * k] = e.offsets[k]
  <2> HIDE DEF i
  <2>. QED BY <1>5
<1>. QED BY <1>4, <1>6

LEMMA SectionItemIs ==
  ASSUME NEW s, NEW n \in Nat, n % 4 = 0, NEW size \in Int, size = 24 + n
  PROVE  LET i == SectionItem(s, n)
         IN /\ DOMAIN i \subseteq 0 .. size - 1
            /\ {0, 4, 8, 12, 16, 20} \subseteq DOMAIN i
            /\ i[0] = s.name_ptr /\ i[4] = s.install_types /\ i[8] = s.flags
            /\ i[12] = s.code /\ i[16] = s.code_size /\ i[20] = s.size_kb
            /\ n # 0 => 24 \in DOMAIN i /\ i[24] = s.inline_name
<1> DEFINE seq == <<s.name_ptr, s.install_types, s.flags, s.code, s.code_size, s.size_kb>>
           m == n \div 4
           name == [k \in 1 .. m |-> IF k = 1 THEN s.inline_name ELSE 0]
           f == Words(0, seq)
           g == Words(24, name)
           i == SectionItem(s, n)
<1>1. DOMAIN seq = 1 .. 6 /\ DOMAIN name = 1 .. m /\ m \in Nat /\ n = 4 * m
  OBVIOUS
<1>2. i = Over(f, g)
  BY DEF SectionItem
<1>3. DOMAIN f = {4 * (k - 1) : k \in 1 .. 6} /\ \A k \in 1 .. 6 : f[4 * (k - 1)] = seq[k]
  <2> HIDE DEF seq
  <2>. QED BY <1>1, ItemAt
<1>4. DOMAIN g = {24 + 4 * (k - 1) : k \in 1 .. m} /\ \A k \in 1 .. m : g[24 + 4 * (k - 1)] = name[k]
  <2>1. 24 \in Int /\ m \in Nat /\ DOMAIN name = 1 .. m
    BY <1>1
  <2>2. AreWords(g, 24, m, name)
    <3> HIDE DEF name, m
    <3>. QED BY <2>1, WordsAt
  <2> HIDE DEF name, m, g
  <2>. QED BY <2>2 DEF AreWords
<1>5. /\ {0, 4, 8, 12, 16, 20} \subseteq DOMAIN f
      /\ f[0] = seq[1] /\ f[4] = seq[2] /\ f[8] = seq[3] /\ f[12] = seq[4] /\ f[16] = seq[5]
      /\ f[20] = seq[6]
  <2> HIDE DEF seq, f
  <2>. QED BY <1>3
<1>6. f[0] = s.name_ptr /\ f[4] = s.install_types /\ f[8] = s.flags
      /\ f[12] = s.code /\ f[16] = s.code_size /\ f[20] = s.size_kb
  <2> HIDE DEF f
  <2>. QED BY <1>5
<1>7. DOMAIN f \subseteq 0 .. 20 /\ DOMAIN g \subseteq 24 .. size - 1
  <2> HIDE DEF f, g, m
  <2>. QED BY <1>1, <1>3, <1>4
<1>8. n # 0 => 24 \in DOMAIN g /\ g[24] = s.inline_name
  <2>1. n # 0 => m >= 1
    BY <1>1
  <2>2. n # 0 => name[1] = s.inline_name
    BY <2>1
  <2>3. n # 0 => 24 + 4 * (1 - 1) \in DOMAIN g /\ g[24 + 4 * (1 - 1)] = name[1]
    <3> HIDE DEF g, name, m
    <3>. QED BY <1>1, <1>4, <2>1
  <2> HIDE DEF g, name, m
  <2>. QED BY <2>2, <2>3
<1> HIDE DEF f, g, m
<1>9. 24 \notin DOMAIN f
  BY <1>7
<1>10. DOMAIN i = DOMAIN f \cup DOMAIN g /\ (\A o \in DOMAIN f : i[o] = f[o])
         /\ \A o \in DOMAIN g : o \notin DOMAIN f => i[o] = g[o]
  BY <1>2 DEF Over
<1> HIDE DEF i
<1>11. DOMAIN i \subseteq 0 .. size - 1
  BY <1>7, <1>10
<1>12. {0, 4, 8, 12, 16, 20} \subseteq DOMAIN i
  BY <1>5, <1>10
<1>13. i[0] = s.name_ptr /\ i[4] = s.install_types /\ i[8] = s.flags
         /\ i[12] = s.code /\ i[16] = s.code_size /\ i[20] = s.size_kb
  BY <1>5, <1>6, <1>10
<1>14. n # 0 => 24 \in DOMAIN i /\ i[24] = s.inline_name
  BY <1>8, <1>9, <1>10
<1>. QED BY <1>11, <1>12, <1>13, <1>14 DEF i

LEMMA LangItemIs ==
  ASSUME NEW n \in Nat, NEW t \in LangFields(n), NEW size \in Int, size = 10 + 4 * n
  PROVE  LET i == LangItem(t)
         IN /\ DOMAIN i \subseteq 0 .. size - 1
            /\ {0, 2, 6} \subseteq DOMAIN i
            /\ i[0] = t.lang_id /\ i[2] = t.dlg_offset /\ i[6] = (IF t.is_rtl THEN 1 ELSE 0)
            /\ \A k \in 1 .. n : 6 + 4 * k \in DOMAIN i /\ i[6 + 4 * k] = t.strings[k]
<1> DEFINE f == [o \in {0, 2, 6} |-> IF o = 0 THEN t.lang_id ELSE IF o = 2 THEN t.dlg_offset
                            ELSE IF t.is_rtl THEN 1 ELSE 0]
           g == Words(10, t.strings)
           i == LangItem(t)
<1>1. DOMAIN t.strings = 1 .. n
  BY DEF LangFields
<1>2. i = Over(f, g)
  BY DEF LangItem
<1>3. DOMAIN f = {0, 2, 6} /\ f[0] = t.lang_id /\ f[2] = t.dlg_offset
      /\ f[6] = (IF t.is_rtl THEN 1 ELSE 0)
  OBVIOUS
<1>4. DOMAIN g = {10 + 4 * (k - 1) : k \in 1 .. n}
        /\ \A k \in 1 .. n : g[10 + 4 * (k - 1)] = t.strings[k]
  <2>1. AreWords(g, 10, n, t.strings)
    BY <1>1, WordsAt
  <2> HIDE DEF g
  <2>. QED BY <2>1 DEF AreWords
<1>5. \A k \in 1 .. n : 6 + 4 * k = 10 + 4 * (k - 1)
  OBVIOUS
<1> HIDE DEF f, g
<1>6. \A k \in 1 .. n : 6 + 4 * k \in DOMAIN g /\ g[6 + 4 * k] = t.strings[k] /\ 6 + 4 * k \notin DOMAIN f
  BY <1>3, <1>4, <1>5
<1>7. DOMAIN g \subseteq 0 .. size - 1
  BY <1>4
<1>8. DOMAIN f \subseteq 0 .. size - 1
  BY <1>3
<1>10. DOMAIN i = DOMAIN f \cup DOMAIN g /\ (\A o \in DOMAIN f : i[o] = f[o])
         /\ \A o \in DOMAIN g : o \notin DOMAIN f => i[o] = g[o]
  BY <1>2 DEF Over
<1> HIDE DEF i
<1>11. DOMAIN i \subseteq 0 .. size - 1
  BY <1>7, <1>8, <1>10
<1>12. {0, 2, 6} \subseteq DOMAIN i
  BY <1>3, <1>10
<1>13. i[0] = t.lang_id /\ i[2] = t.dlg_offset /\ i[6] = (IF t.is_rtl THEN 1 ELSE 0)
  BY <1>3, <1>10
<1>14. \A k \in 1 .. n : 6 + 4 * k \in DOMAIN i /\ i[6 + 4 * k] = t.strings[k]
  BY <1>6, <1>10
<1>. QED BY <1>11, <1>12, <1>13, <1>14 DEF i

(* The sizes of a header block's parts, and where they begin.              *)
StartsInOrder(p, s) ==
  /\ s[1] \in Nat /\ s[2] \in Nat /\ s[3] \in Nat /\ s[4] \in Nat
  /\ s[5] \in Nat /\ s[6] \in Nat /\ s[7] \in Nat /\ s[8] \in Nat
  /\ s[1] = 4 * p.header_words /\ s[1] >= 68
  /\ s[2] = s[1] + 64 * Len(p.pages) /\ s[3] = s[2] + SectionSize(p) * Len(p.sections)
  /\ s[4] = s[3] + 28 * Len(p.entries) /\ s[4] <= s[5]
  /\ s[6] = s[5] + LangSize(p) * Len(p.langs) /\ s[6] <= s[7] /\ s[8] = s[7] + 16 * p.fonts
  /\ s[1] <= s[2] /\ s[2] <= s[3] /\ s[3] <= s[4] /\ s[5] <= s[6] /\ s[7] <= s[8]

(* The blocks of a modern file begin where they do, in this order.         *)
LEMMA StartsAre ==
  ASSUME NEW p, IsModern(p)
  PROVE  /\ StartsInOrder(p, BlockStarts(p))
         /\ SectionSize(p) \in Nat /\ SectionSize(p) >= 24
         /\ LangSize(p) \in Nat /\ LangSize(p) >= 10
<1> DEFINE pages    == 4 * p.header_words
           sections == pages + PageSize * Len(p.pages)
           entries  == sections + SectionSize(p) * Len(p.sections)
           strings  == entries + EntrySize * Len(p.entries)
           langs    == strings + p.string_bytes
           colors   == langs + LangSize(p) * Len(p.langs)
           fonts    == colors + 24 * p.colors
           end      == fonts + 16 * p.fonts
           s == BlockStarts(p)
<1>1. HasTables(p) /\ HasSizes(p) /\ HeaderSuffices(p)
  BY DEF IsModern, IsProgram
<1>a. p.header_words \in 17 .. 75
  BY <1>1 DEF HeaderSuffices, HeaderWords
<1>b. p.name_size \in Nat /\ p.lang_strings \in Nat
  BY <1>1 DEF HasSizes
<1>c. p.string_bytes \in Nat /\ p.colors \in Nat /\ p.fonts \in Nat
  BY <1>1 DEF HasSizes
<1>d. Len(p.pages) \in Nat /\ Len(p.sections) \in Nat /\ Len(p.entries) \in Nat
        /\ Len(p.langs) \in Nat
  BY <1>1 DEF HasTables
<1>2. SectionSize(p) \in Nat /\ SectionSize(p) >= 24 /\ LangSize(p) \in Nat /\ LangSize(p) >= 10
  BY <1>b DEF SectionSize, LangSize
<1>3. SectionSize(p) * Len(p.sections) \in Nat /\ LangSize(p) * Len(p.langs) \in Nat
  <2>1. \A a, b \in Nat : a * b \in Nat
    OBVIOUS
  <2>. QED BY <1>2, <1>d, <2>1
<1>4. /\ s[1] = pages /\ s[2] = sections /\ s[3] = entries /\ s[4] = strings /\ s[5] = langs
      /\ s[6] = colors /\ s[7] = fonts /\ s[8] = end
  <2> HIDE DEF pages, sections, entries, strings, langs, colors, fonts, end
  <2>1. s = <<pages, sections, entries, strings, langs, colors, fonts, end>>
    BY DEF BlockStarts, pages, sections, entries, strings, langs, colors, fonts, end
  <2>. QED BY <2>1
<1>5. pages \in Nat /\ pages >= 68 /\ sections = pages + 64 * Len(p.pages)
      /\ sections \in Nat /\ pages <= sections
  <2>1. \A w \in 17 .. 75 : 4 * w \in Nat /\ 4 * w >= 68
    OBVIOUS
  <2>2. pages \in Nat /\ pages >= 68
    BY <1>a, <2>1
  <2>3. \A a, b \in Nat : a + 64 * b \in Nat /\ a <= a + 64 * b
    OBVIOUS
  <2>4. sections = pages + 64 * Len(p.pages)
    BY DEF PageSize
  <2> HIDE DEF pages, sections
  <2>. QED BY <1>d, <2>2, <2>3, <2>4
<1>6. entries \in Nat /\ sections <= entries
  <2> HIDE DEF sections
  <2>. QED BY <1>3, <1>5
<1>7. strings \in Nat /\ entries <= strings /\ strings = entries + 28 * Len(p.entries)
      /\ langs \in Nat /\ strings <= langs
  <2> HIDE DEF entries
  <2>. QED BY <1>c, <1>d, <1>6 DEF EntrySize
<1>8. colors \in Nat /\ langs <= colors
  <2> HIDE DEF langs
  <2>. QED BY <1>3, <1>7
<1>9. fonts \in Nat /\ colors <= fonts /\ end \in Nat /\ fonts <= end
  <2>1. fonts \in Nat /\ colors <= fonts
    <3> HIDE DEF colors
    <3>. QED BY <1>c, <1>8
  <2> HIDE DEF fonts
  <2>. QED BY <1>c, <2>1
<1>10. StartsInOrder(p, s)
  <2> HIDE DEF pages
  <2>1. s[3] = s[2] + SectionSize(p) * Len(p.sections)
    <3> HIDE DEF sections
    <3>. QED BY <1>4
  <2>2. s[6] = s[5] + LangSize(p) * Len(p.langs)
    <3> HIDE DEF langs
    <3>. QED BY <1>4
  <2>3. s[8] = s[7] + 16 * p.fonts
    <3> HIDE DEF fonts
    <3>. QED BY <1>4
  <2>4. s[1] = 4 * p.header_words
    BY <1>4 DEF pages
  <2> HIDE DEF s, sections, entries, strings, langs, colors, fonts, end
  <2>. QED BY <1>4, <1>5, <1>6, <1>7, <1>8, <1>9, <2>1, <2>2, <2>3, <2>4 DEF StartsInOrder
<1>. QED BY <1>2, <1>10

(* What a modern header block holds, and where.                            *)
PageItems(p)    == [k \in DOMAIN p.pages |-> PageItem(p.pages[k])]
SectionItems(p) == [k \in DOMAIN p.sections |-> SectionItem(p.sections[k], p.name_size)]
EntryItems(p)   == [k \in DOMAIN p.entries |-> EntryItem(p.entries[k])]
LangItems(p)    == [k \in DOMAIN p.langs |-> LangItem(p.langs[k])]

(* What a modern block holds, and where.                                   *)
HoldsModern(f, p, s) ==
  /\ \A o \in DOMAIN ModernHeader(p) : o < s[1] => o \in DOMAIN f /\ f[o] = ModernHeader(p)[o]
  /\ HoldsItems(f, s[1], 64, Len(p.pages), PageItems(p))
  /\ HoldsItems(f, s[2], SectionSize(p), Len(p.sections), SectionItems(p))
  /\ HoldsItems(f, s[3], 28, Len(p.entries), EntryItems(p))
  /\ HoldsItems(f, s[5], LangSize(p), Len(p.langs), LangItems(p))

(* Words found in f are found in what agrees with it.                      *)
LEMMA ItemsIn ==
  ASSUME NEW f, NEW g, NEW base, NEW size, NEW n, NEW items,
         HoldsItems(f, base, size, n, items),
         \A o \in DOMAIN f : o \in DOMAIN g /\ g[o] = f[o]
  PROVE  HoldsItems(g, base, size, n, items)
BY DEF HoldsItems

(* The items of each table fit the size of its rows.                       *)
LEMMA PagesFit ==
  ASSUME NEW p, IsModern(p)
  PROVE  ItemsFit(PageItems(p), Len(p.pages), 64)
<1>1. p.pages \in Seq(PageFields)
  BY DEF IsModern, IsProgram, HasTables, HasSizes, NamesFit
<1>2. ASSUME NEW k \in 1 .. Len(p.pages)
      PROVE  DOMAIN PageItems(p)[k] \subseteq 0 .. 64 - 1
  <2>1. p.pages[k] \in PageFields /\ PageItems(p)[k] = PageItem(p.pages[k])
    BY <1>1 DEF PageItems
  <2>2. DOMAIN PageItem(p.pages[k]) = {4 * (j - 1) : j \in 1 .. 16}
    BY <2>1, PageItemIs
  <2>. QED BY <2>1, <2>2
<1>3. DOMAIN PageItems(p) = 1 .. Len(p.pages)
  BY <1>1 DEF PageItems
<1>. QED BY <1>2, <1>3 DEF ItemsFit

LEMMA SectionsFit ==
  ASSUME NEW p, IsModern(p)
  PROVE  ItemsFit(SectionItems(p), Len(p.sections), SectionSize(p))
<1>1. p.sections \in Seq(SectionFields) /\ p.name_size \in Nat /\ p.name_size % 4 = 0
  BY DEF IsModern, IsProgram, HasTables, HasSizes, NamesFit
<1>2. ASSUME NEW k \in 1 .. Len(p.sections)
      PROVE  DOMAIN SectionItems(p)[k] \subseteq 0 .. SectionSize(p) - 1
  <2>1. SectionItems(p)[k] = SectionItem(p.sections[k], p.name_size)
    BY <1>1 DEF SectionItems
  <2>3. SectionSize(p) = 24 + p.name_size /\ SectionSize(p) \in Int
    BY <1>1 DEF SectionSize
  <2>4. DOMAIN SectionItem(p.sections[k], p.name_size) \subseteq 0 .. SectionSize(p) - 1
    BY <1>1, <2>3, SectionItemIs
  <2>. QED BY <2>1, <2>4
<1>3. DOMAIN SectionItems(p) = 1 .. Len(p.sections)
  BY <1>1 DEF SectionItems
<1>. QED BY <1>2, <1>3 DEF ItemsFit

LEMMA EntriesFit ==
  ASSUME NEW p, IsModern(p)
  PROVE  ItemsFit(EntryItems(p), Len(p.entries), 28)
<1>1. p.entries \in Seq(EntryFields)
  BY DEF IsModern, IsProgram, HasTables, HasSizes, NamesFit
<1>2. ASSUME NEW k \in 1 .. Len(p.entries)
      PROVE  DOMAIN EntryItems(p)[k] \subseteq 0 .. 28 - 1
  <2>1. p.entries[k] \in EntryFields /\ EntryItems(p)[k] = EntryItem(p.entries[k])
    BY <1>1 DEF EntryItems
  <2>2. DOMAIN EntryItem(p.entries[k]) = {4 * (j - 1) : j \in 1 .. 7}
    BY <2>1, EntryItemIs
  <2>. QED BY <2>1, <2>2
<1>3. DOMAIN EntryItems(p) = 1 .. Len(p.entries)
  BY <1>1 DEF EntryItems
<1>. QED BY <1>2, <1>3 DEF ItemsFit

LEMMA LangsFit ==
  ASSUME NEW p, IsModern(p)
  PROVE  ItemsFit(LangItems(p), Len(p.langs), LangSize(p))
<1>1. p.lang_strings \in Nat /\ p.langs \in Seq(LangFields(p.lang_strings))
  BY DEF IsModern, IsProgram, HasTables, HasSizes, NamesFit
<1>2. ASSUME NEW k \in 1 .. Len(p.langs)
      PROVE  DOMAIN LangItems(p)[k] \subseteq 0 .. LangSize(p) - 1
  <2>1. p.langs[k] \in LangFields(p.lang_strings) /\ LangItems(p)[k] = LangItem(p.langs[k])
    BY <1>1 DEF LangItems
  <2>3. LangSize(p) = 10 + 4 * p.lang_strings /\ LangSize(p) \in Int
    BY <1>1 DEF LangSize
  <2>4. DOMAIN LangItem(p.langs[k]) \subseteq 0 .. LangSize(p) - 1
    BY <1>1, <2>1, <2>3, LangItemIs
  <2>. QED BY <2>1, <2>4
<1>3. DOMAIN LangItems(p) = 1 .. Len(p.langs)
  BY <1>1 DEF LangItems
<1>. QED BY <1>2, <1>3 DEF ItemsFit

(* The writer puts each table where its block begins.                      *)
LEMMA ModernBlockIs ==
  ASSUME NEW p, IsModern(p)
  PROVE  /\ ModernBlock(p).len = BlockStarts(p)[8]
         /\ HoldsModern(ModernBlock(p).word, p, BlockStarts(p))
<1> DEFINE s == BlockStarts(p)
           head == Shortened(ModernHeader(p), s[1])
           pages == Laid(s[1], PageSize, PageItems(p))
           sections == Laid(s[2], SectionSize(p), SectionItems(p))
           entries == Laid(s[3], EntrySize, EntryItems(p))
           langs == Laid(s[5], LangSize(p), LangItems(p))
           word == ModernBlock(p).word
<1>1. ModernBlock(p).len = s[8]
      /\ word = Over(head, Over(pages, Over(sections, Over(entries, langs))))
  <2> HIDE DEF s
  <2>. QED BY DEF ModernBlock, PageItems, SectionItems, EntryItems, LangItems, s
<1> HIDE DEF s
<1>2. StartsInOrder(p, s) /\ SectionSize(p) \in Nat /\ LangSize(p) \in Nat
  BY StartsAre DEF s
<1>a. Len(p.pages) \in Nat /\ Len(p.sections) \in Nat /\ Len(p.entries) \in Nat
        /\ Len(p.langs) \in Nat
  <2>1. HasTables(p)
    BY DEF IsModern, IsProgram
  <2>. QED BY <2>1 DEF HasTables
<1>3. /\ s[1] \in Int /\ s[2] \in Int /\ s[3] \in Int /\ s[5] \in Int
      /\ s[1] + 64 * Len(p.pages) <= s[2]
      /\ s[2] + SectionSize(p) * Len(p.sections) <= s[3]
      /\ s[3] + 28 * Len(p.entries) <= s[5]
      /\ s[1] <= s[2] /\ s[2] <= s[3] /\ s[3] <= s[5]
  <2>1. s[1] \in Nat /\ s[2] \in Nat /\ s[3] \in Nat /\ s[4] \in Nat /\ s[5] \in Nat
    BY <1>2 DEF StartsInOrder
  <2>2. /\ s[2] = s[1] + 64 * Len(p.pages) /\ s[3] = s[2] + SectionSize(p) * Len(p.sections)
        /\ s[4] = s[3] + 28 * Len(p.entries)
        /\ s[1] <= s[2] /\ s[2] <= s[3] /\ s[3] <= s[4] /\ s[4] <= s[5]
    BY <1>2 DEF StartsInOrder
  <2>3. s[3] <= s[5]
    BY <2>1, <2>2
  <2>. QED BY <2>1, <2>2, <2>3
<1>b. s[1] \in Int /\ s[2] \in Int /\ s[3] \in Int /\ s[5] \in Int /\ s[1] <= s[2] /\ s[2] <= s[3] /\ s[3] <= s[5]
  BY <1>3
<1>4. /\ HoldsItems(pages, s[1], 64, Len(p.pages), PageItems(p))
      /\ \A o \in DOMAIN pages : o \in s[1] .. s[2] - 1
  <2>1. /\ HoldsItems(pages, s[1], 64, Len(p.pages), PageItems(p))
        /\ \A o \in DOMAIN pages : o \in s[1] .. s[1] + 64 * Len(p.pages) - 1
    BY <1>2, <1>a, <1>3, PagesFit, LaidAt DEF PageSize
  <2> DEFINE e == s[1] + 64 * Len(p.pages)
  <2>2. e \in Int /\ e <= s[2] /\ \A o \in DOMAIN pages : o \in s[1] .. e - 1
    BY <1>3, <1>a, <2>1
  <2> HIDE DEF e, pages
  <2>. QED BY <1>3, <2>1, <2>2
<1>5. /\ HoldsItems(sections, s[2], SectionSize(p), Len(p.sections), SectionItems(p))
      /\ \A o \in DOMAIN sections : o \in s[2] .. s[3] - 1
  <2>1. /\ HoldsItems(sections, s[2], SectionSize(p), Len(p.sections), SectionItems(p))
        /\ \A o \in DOMAIN sections : o \in s[2] .. s[2] + SectionSize(p) * Len(p.sections) - 1
    BY <1>2, <1>a, <1>3, SectionsFit, LaidAt
  <2>2. SectionSize(p) * Len(p.sections) \in Int
    BY <1>2, <1>a
  <2> DEFINE e == s[2] + SectionSize(p) * Len(p.sections)
  <2>3. e \in Int /\ e <= s[3] /\ \A o \in DOMAIN sections : o \in s[2] .. e - 1
    BY <1>3, <2>1, <2>2
  <2> HIDE DEF e, sections
  <2>. QED BY <1>3, <2>1, <2>3
<1>6. /\ HoldsItems(entries, s[3], 28, Len(p.entries), EntryItems(p))
      /\ \A o \in DOMAIN entries : o \in s[3] .. s[5] - 1
  <2>1. /\ HoldsItems(entries, s[3], 28, Len(p.entries), EntryItems(p))
        /\ \A o \in DOMAIN entries : o \in s[3] .. s[3] + 28 * Len(p.entries) - 1
    BY <1>2, <1>a, <1>3, EntriesFit, LaidAt DEF EntrySize
  <2>2. s[3] + 28 * Len(p.entries) \in Int /\ s[3] + 28 * Len(p.entries) <= s[5]
    BY <1>3, <1>a
  <2>3. ASSUME NEW o \in DOMAIN entries PROVE o \in s[3] .. s[5] - 1
    <3>1. o \in s[3] .. s[3] + 28 * Len(p.entries) - 1
      BY <2>1
    <3>. QED BY <1>b, <2>2, <3>1
  <2>. QED BY <2>1, <2>3
<1>7. /\ HoldsItems(langs, s[5], LangSize(p), Len(p.langs), LangItems(p))
      /\ \A o \in DOMAIN langs : o \in Int /\ s[5] <= o
  <2>1. /\ HoldsItems(langs, s[5], LangSize(p), Len(p.langs), LangItems(p))
        /\ \A o \in DOMAIN langs : o \in s[5] .. s[5] + LangSize(p) * Len(p.langs) - 1
    BY <1>2, <1>a, <1>3, LangsFit, LaidAt
  <2> HIDE DEF langs
  <2>. QED BY <1>2, <1>3, <2>1
<1>8. /\ \A o \in DOMAIN ModernHeader(p) : o < s[1] => o \in DOMAIN head /\ head[o] = ModernHeader(p)[o]
      /\ \A o \in DOMAIN head : o < s[1]
  BY DEF Shortened
<1> HIDE DEF head, pages, sections, entries, langs, word
<1>9. \A o \in DOMAIN head : o \in DOMAIN word /\ word[o] = head[o]
  BY <1>1 DEF Over
<1>10. \A o \in DOMAIN pages : o \in DOMAIN word /\ word[o] = pages[o]
  <2>1. ASSUME NEW o \in DOMAIN pages PROVE o \notin DOMAIN head
    BY <1>b, <1>4, <1>8
  <2>. QED BY <1>1, <2>1 DEF Over
<1>11. \A o \in DOMAIN sections : o \in DOMAIN word /\ word[o] = sections[o]
  <2>1. ASSUME NEW o \in DOMAIN sections PROVE o \notin DOMAIN head /\ o \notin DOMAIN pages
    BY <1>b, <1>4, <1>5, <1>8
  <2>. QED BY <1>1, <2>1 DEF Over
<1>12. \A o \in DOMAIN entries : o \in DOMAIN word /\ word[o] = entries[o]
  <2>1. ASSUME NEW o \in DOMAIN entries
        PROVE  o \notin DOMAIN head /\ o \notin DOMAIN pages /\ o \notin DOMAIN sections
    BY <1>b, <1>4, <1>5, <1>6, <1>8
  <2>. QED BY <1>1, <2>1 DEF Over
<1>13. \A o \in DOMAIN langs : o \in DOMAIN word /\ word[o] = langs[o]
  <2>1. ASSUME NEW o \in DOMAIN langs
        PROVE  /\ o \notin DOMAIN head /\ o \notin DOMAIN pages /\ o \notin DOMAIN sections
               /\ o \notin DOMAIN entries
    <3>1. o \in Int /\ s[5] <= o /\ s[3] <= o /\ s[2] <= o /\ s[1] <= o
      BY <1>b, <1>7
    <3>2. o \notin DOMAIN head
      BY <1>b, <1>8, <3>1
    <3>3. o \notin DOMAIN pages
      BY <1>b, <1>4, <3>1
    <3>4. o \notin DOMAIN sections
      BY <1>b, <1>5, <3>1
    <3>5. o \notin DOMAIN entries
      BY <1>b, <1>6, <3>1
    <3>. QED BY <3>2, <3>3, <3>4, <3>5
  <2>. QED BY <1>1, <2>1 DEF Over
<1>14. HoldsItems(word, s[1], 64, Len(p.pages), PageItems(p))
  BY <1>4, <1>10, ItemsIn
<1>15. HoldsItems(word, s[2], SectionSize(p), Len(p.sections), SectionItems(p))
  BY <1>5, <1>11, ItemsIn
<1>16. HoldsItems(word, s[3], 28, Len(p.entries), EntryItems(p))
  BY <1>6, <1>12, ItemsIn
<1>17. HoldsItems(word, s[5], LangSize(p), Len(p.langs), LangItems(p))
  BY <1>7, <1>13, ItemsIn
<1>18. \A o \in DOMAIN ModernHeader(p) : o < s[1] => o \in DOMAIN word /\ word[o] = ModernHeader(p)[o]
  BY <1>8, <1>9
<1>19. HoldsModern(word, p, s)
  BY <1>14, <1>15, <1>16, <1>17, <1>18 DEF HoldsModern
<1>. QED BY <1>1, <1>19 DEF s, word

-----------------------------------------------------------------------------
(* The header of NSIS 2 and 3, and its fields.                             *)

(* All of f lies from a up to b.                                           *)
Within(f, a, b) == \A o \in DOMAIN f : o \in Int /\ a <= o /\ o < b

LEMMA WordsWithin ==
  ASSUME NEW f, NEW base \in Int, NEW n \in Nat, NEW seq, AreWords(f, base, n, seq),
         NEW end \in Int, end = base + 4 * n
  PROVE  Within(f, base, end)
<1>1. DOMAIN f = {base + 4 * (k - 1) : k \in 1 .. n}
  BY DEF AreWords
<1>2. \A k \in 1 .. n : base + 4 * (k - 1) \in Int /\ base <= base + 4 * (k - 1)
                        /\ base + 4 * (k - 1) < end
  OBVIOUS
<1>. QED BY <1>1, <1>2 DEF Within

(* What lies behind f is found in what f is laid over.                     *)
Beneath(f, g, a) == \A o \in DOMAIN g : o >= a => o \in DOMAIN f /\ f[o] = g[o]

(* n words from base on, in f.                                             *)
HasWords(f, base, n, seq) ==
  \A k \in 1 .. n : base + 4 * (k - 1) \in DOMAIN f /\ f[base + 4 * (k - 1)] = seq[k]

(* What lies on top is seen, what lies beyond it too.                      *)
LEMMA OverTop ==
  ASSUME NEW f, NEW g, NEW base, NEW n, NEW seq, AreWords(f, base, n, seq)
  PROVE  HasWords(Over(f, g), base, n, seq)
<1>1. ASSUME NEW k \in 1 .. n
      PROVE  base + 4 * (k - 1) \in DOMAIN f /\ f[base + 4 * (k - 1)] = seq[k]
  BY DEF AreWords
<1>. QED BY <1>1, OverIs DEF HasWords

LEMMA OverBeneath ==
  ASSUME NEW f, NEW g, NEW a \in Int, NEW b \in Int, Within(f, a, b)
  PROVE  Beneath(Over(f, g), g, b)
<1>1. ASSUME NEW o \in DOMAIN g, o >= b
      PROVE  o \in DOMAIN Over(f, g) /\ Over(f, g)[o] = g[o]
  <2>1. o \notin DOMAIN f
    <3>1. SUFFICES ASSUME o \in DOMAIN f PROVE FALSE
      OBVIOUS
    <3>2. o \in Int /\ o < b
      BY <3>1 DEF Within
    <3>. QED BY <1>1, <3>2
  <2>2. DOMAIN Over(f, g) = DOMAIN f \cup DOMAIN g
    BY OverIs, Zenon
  <2>3. Over(f, g)[o] = g[o]
    BY <1>1, <2>1 DEF Over
  <2>. QED BY <2>2, <2>3
<1>. QED BY <1>1 DEF Beneath

LEMMA WordsBeneath ==
  ASSUME NEW f, NEW g, NEW a \in Int, NEW base \in Int, NEW n \in Nat, NEW seq,
         Beneath(f, g, a), base >= a, HasWords(g, base, n, seq)
  PROVE  HasWords(f, base, n, seq)
<1>1. ASSUME NEW k \in 1 .. n PROVE base + 4 * (k - 1) >= a
  OBVIOUS
<1>. QED BY <1>1 DEF Beneath, HasWords

(* The runs of words a modern header is made of.                           *)
ModernDescriptors(p) ==
  [i \in 1 .. 16 |-> IF i % 2 = 1 THEN BlockOffset(p, (i + 1) \div 2) ELSE BlockCounts(p)[i \div 2]]

ModernRegistry(p) ==
  <<p.strings.install_reg_rootkey, p.strings.install_reg_key, p.strings.install_reg_value>>

ModernSizes(p) == <<0, 0, 0, 0, 0, IF p.langs = <<>> THEN 0 ELSE LangSize(p), 0>>

ModernFont == [k \in 1 .. 33 |-> 0]

ModernDirs(p) ==
  <<p.strings.install_dir, p.strings.install_dir_auto_append, p.strings.uninstall_child,
    p.strings.uninstall_command, p.strings.wininit>>

(* No run of words hides another.                                          *)
LEMMA ModernHeaderIs ==
  ASSUME NEW p, DOMAIN p.callbacks = 1 .. 10
  PROVE  /\ HasWords(ModernHeader(p), 4, 16, ModernDescriptors(p))
         /\ HasWords(ModernHeader(p), 68, 3, ModernRegistry(p))
         /\ HasWords(ModernHeader(p), 80, 7, ModernSizes(p))
         /\ HasWords(ModernHeader(p), 108, 10, p.callbacks)
         /\ HasWords(ModernHeader(p), 148, 33, ModernFont)
         /\ HasWords(ModernHeader(p), 280, 5, ModernDirs(p))
<1> DEFINE f7 == Words(280, ModernDirs(p))
           f6 == Words(148, ModernFont)
           f5 == Words(108, p.callbacks)
           f4 == Words(80, ModernSizes(p))
           f3 == Words(68, ModernRegistry(p))
           f2 == Words(4, ModernDescriptors(p))
           f1 == Words(0, <<0>>)
           c6 == Over(f6, f7)
           c5 == Over(f5, c6)
           c4 == Over(f4, c5)
           c3 == Over(f3, c4)
           c2 == Over(f2, c3)
           c1 == Over(f1, c2)
<1>1. AreWords(f7, 280, 5, ModernDirs(p))
  <2>1. DOMAIN ModernDirs(p) = 1 .. 5
    BY DEF ModernDirs
  <2>. QED BY <2>1, WordsAt, 280 \in Int, 5 \in Nat, Zenon
<1>2. AreWords(f6, 148, 33, ModernFont) /\ Within(f6, 148, 280)
  <2>1. DOMAIN ModernFont = 1 .. 33
    BY DEF ModernFont
  <2>2. AreWords(f6, 148, 33, ModernFont)
    BY <2>1, WordsAt, 148 \in Int, 33 \in Nat, Zenon
  <2>3. 280 = 148 + 4 * 33
    OBVIOUS
  <2> HIDE DEF f6
  <2>4. Within(f6, 148, 280)
    BY <2>2, <2>3, WordsWithin, 148 \in Int, 280 \in Int, 33 \in Nat, ZenonT(60)
  <2>. QED BY <2>2, <2>4
<1>3. AreWords(f5, 108, 10, p.callbacks) /\ Within(f5, 108, 148)
  <2>2. AreWords(f5, 108, 10, p.callbacks)
    BY WordsAt, 108 \in Int, 10 \in Nat, Zenon
  <2>3. 148 = 108 + 4 * 10
    OBVIOUS
  <2> HIDE DEF f5
  <2>. QED BY <2>2, <2>3, WordsWithin, 108 \in Int, 148 \in Int, 10 \in Nat, Zenon
<1>4. AreWords(f4, 80, 7, ModernSizes(p)) /\ Within(f4, 80, 108)
  <2>1. DOMAIN ModernSizes(p) = 1 .. 7
    BY DEF ModernSizes
  <2>2. AreWords(f4, 80, 7, ModernSizes(p))
    BY <2>1, WordsAt, 80 \in Int, 7 \in Nat, Zenon
  <2>3. 108 = 80 + 4 * 7
    OBVIOUS
  <2> HIDE DEF f4
  <2>. QED BY <2>2, <2>3, WordsWithin, 80 \in Int, 108 \in Int, 7 \in Nat, Zenon
<1>5. AreWords(f3, 68, 3, ModernRegistry(p)) /\ Within(f3, 68, 80)
  <2>1. DOMAIN ModernRegistry(p) = 1 .. 3
    BY DEF ModernRegistry
  <2>2. AreWords(f3, 68, 3, ModernRegistry(p))
    BY <2>1, WordsAt, 68 \in Int, 3 \in Nat, Zenon
  <2>3. 80 = 68 + 4 * 3
    OBVIOUS
  <2> HIDE DEF f3
  <2>. QED BY <2>2, <2>3, WordsWithin, 68 \in Int, 80 \in Int, 3 \in Nat, Zenon
<1>6. AreWords(f2, 4, 16, ModernDescriptors(p)) /\ Within(f2, 4, 68)
  <2>1. DOMAIN ModernDescriptors(p) = 1 .. 16
    BY DEF ModernDescriptors
  <2>2. AreWords(f2, 4, 16, ModernDescriptors(p))
    BY <2>1, WordsAt, 4 \in Int, 16 \in Nat, Zenon
  <2>3. 68 = 4 + 4 * 16
    OBVIOUS
  <2> HIDE DEF f2
  <2>. QED BY <2>2, <2>3, WordsWithin, 4 \in Int, 68 \in Int, 16 \in Nat, Zenon
<1>7. Within(f1, 0, 4)
  <2>1. DOMAIN <<0>> = 1 .. 1
    OBVIOUS
  <2>2. AreWords(f1, 0, 1, <<0>>)
    BY <2>1, WordsAt, 0 \in Int, 1 \in Nat, Zenon
  <2>3. 4 = 0 + 4 * 1
    OBVIOUS
  <2> HIDE DEF f1
  <2>. QED BY <2>2, <2>3, WordsWithin, 0 \in Int, 4 \in Int, 1 \in Nat, Zenon
<1>8. ModernHeader(p) = c1
  BY DEF ModernHeader, ModernDescriptors, ModernRegistry, ModernSizes, ModernFont, ModernDirs
<1> HIDE DEF f1, f2, f3, f4, f5, f6, f7
<1>9. /\ Beneath(c6, f7, 280) /\ Beneath(c5, c6, 148) /\ Beneath(c4, c5, 108)
      /\ Beneath(c3, c4, 80) /\ Beneath(c2, c3, 68) /\ Beneath(c1, c2, 4)
  BY <1>2, <1>3, <1>4, <1>5, <1>6, <1>7, OverBeneath
<1>10. /\ HasWords(f7, 280, 5, ModernDirs(p))
       /\ HasWords(c6, 148, 33, ModernFont) /\ HasWords(c5, 108, 10, p.callbacks)
       /\ HasWords(c4, 80, 7, ModernSizes(p)) /\ HasWords(c3, 68, 3, ModernRegistry(p))
       /\ HasWords(c2, 4, 16, ModernDescriptors(p))
  <2>1. HasWords(f7, 280, 5, ModernDirs(p))
    BY <1>1 DEF HasWords, AreWords
  <2>2. HasWords(c6, 148, 33, ModernFont)
    BY <1>2, OverTop
  <2>3. HasWords(c5, 108, 10, p.callbacks)
    BY <1>3, OverTop
  <2>4. HasWords(c4, 80, 7, ModernSizes(p))
    BY <1>4, OverTop
  <2>5. HasWords(c3, 68, 3, ModernRegistry(p))
    BY <1>5, OverTop
  <2>6. HasWords(c2, 4, 16, ModernDescriptors(p))
    BY <1>6, OverTop
  <2>. QED BY <2>1, <2>2, <2>3, <2>4, <2>5, <2>6
<1> HIDE DEF c1, c2, c3, c4, c5, c6
<1>11. /\ HasWords(c5, 280, 5, ModernDirs(p)) /\ HasWords(c5, 148, 33, ModernFont)
  <2>1. HasWords(c6, 280, 5, ModernDirs(p))
    BY <1>9, <1>10, WordsBeneath
  <2>. QED BY <1>9, <1>10, <2>1, WordsBeneath
<1>12. /\ HasWords(c4, 280, 5, ModernDirs(p)) /\ HasWords(c4, 148, 33, ModernFont)
       /\ HasWords(c4, 108, 10, p.callbacks)
  BY <1>9, <1>10, <1>11, WordsBeneath
<1>13. /\ HasWords(c3, 280, 5, ModernDirs(p)) /\ HasWords(c3, 148, 33, ModernFont)
       /\ HasWords(c3, 108, 10, p.callbacks) /\ HasWords(c3, 80, 7, ModernSizes(p))
  BY <1>9, <1>10, <1>12, WordsBeneath
<1>14. /\ HasWords(c2, 280, 5, ModernDirs(p)) /\ HasWords(c2, 148, 33, ModernFont)
       /\ HasWords(c2, 108, 10, p.callbacks) /\ HasWords(c2, 80, 7, ModernSizes(p))
       /\ HasWords(c2, 68, 3, ModernRegistry(p))
  BY <1>9, <1>10, <1>13, WordsBeneath
<1>15. /\ HasWords(c1, 280, 5, ModernDirs(p)) /\ HasWords(c1, 148, 33, ModernFont)
       /\ HasWords(c1, 108, 10, p.callbacks) /\ HasWords(c1, 80, 7, ModernSizes(p))
       /\ HasWords(c1, 68, 3, ModernRegistry(p)) /\ HasWords(c1, 4, 16, ModernDescriptors(p))
  BY <1>9, <1>10, <1>14, WordsBeneath
<1>. QED BY <1>8, <1>15

(* The words of a modern header by the offsets the parser knows.           *)
IsField(f, o, v) == o \in DOMAIN f /\ f[o] = v

(* The fields of the header that the parser reads.                         *)
ModernFields(f, p) ==
  /\ \A k \in 1 .. 8 : IsField(f, 8 * k - 4, BlockOffset(p, k)) /\ IsField(f, 8 * k, BlockCounts(p)[k])
  /\ IsField(f, 68, p.strings.install_reg_rootkey) /\ IsField(f, 72, p.strings.install_reg_key)
  /\ IsField(f, 76, p.strings.install_reg_value)
  /\ IsField(f, 100, IF p.langs = <<>> THEN 0 ELSE LangSize(p))
  /\ \A k \in 1 .. 10 : IsField(f, 104 + 4 * k, p.callbacks[k])
  /\ IsField(f, 224, 0)
  /\ IsField(f, 280, p.strings.install_dir) /\ IsField(f, 284, p.strings.install_dir_auto_append)
  /\ IsField(f, 288, p.strings.uninstall_child) /\ IsField(f, 292, p.strings.uninstall_command)
  /\ IsField(f, 296, p.strings.wininit)

LEMMA ModernFieldsAre ==
  ASSUME NEW p, DOMAIN p.callbacks = 1 .. 10
  PROVE  ModernFields(ModernHeader(p), p)
<1> DEFINE h == ModernHeader(p)
<1>1. /\ HasWords(h, 4, 16, ModernDescriptors(p)) /\ HasWords(h, 68, 3, ModernRegistry(p))
      /\ HasWords(h, 80, 7, ModernSizes(p)) /\ HasWords(h, 108, 10, p.callbacks)
      /\ HasWords(h, 148, 33, ModernFont) /\ HasWords(h, 280, 5, ModernDirs(p))
  BY ModernHeaderIs
<1> HIDE DEF h
<1>2. ASSUME NEW k \in 1 .. 8
      PROVE  IsField(h, 8 * k - 4, BlockOffset(p, k)) /\ IsField(h, 8 * k, BlockCounts(p)[k])
  <2>1. 2 * k - 1 \in 1 .. 16 /\ 2 * k \in 1 .. 16
        /\ 4 + 4 * ((2 * k - 1) - 1) = 8 * k - 4 /\ 4 + 4 * (2 * k - 1) = 8 * k
        /\ (2 * k - 1) % 2 = 1 /\ (2 * k) % 2 = 0 /\ ((2 * k - 1) + 1) \div 2 = k
        /\ (2 * k) \div 2 = k
    OBVIOUS
  <2>2. ModernDescriptors(p)[2 * k - 1] = BlockOffset(p, k)
    BY <2>1 DEF ModernDescriptors
  <2>3. ModernDescriptors(p)[2 * k] = BlockCounts(p)[k]
    BY <2>1 DEF ModernDescriptors
  <2>4. /\ 4 + 4 * ((2 * k - 1) - 1) \in DOMAIN h
        /\ h[4 + 4 * ((2 * k - 1) - 1)] = ModernDescriptors(p)[2 * k - 1]
        /\ 4 + 4 * (2 * k - 1) \in DOMAIN h
        /\ h[4 + 4 * (2 * k - 1)] = ModernDescriptors(p)[2 * k]
    BY <1>1, <2>1 DEF HasWords
  <2>. QED BY <2>1, <2>2, <2>3, <2>4 DEF IsField
<1>3. IsField(h, 68, p.strings.install_reg_rootkey) /\ IsField(h, 72, p.strings.install_reg_key)
      /\ IsField(h, 76, p.strings.install_reg_value)
  <2>1. IsField(h, 68, ModernRegistry(p)[1]) /\ IsField(h, 72, ModernRegistry(p)[2])
        /\ IsField(h, 76, ModernRegistry(p)[3])
    BY <1>1 DEF HasWords, IsField
  <2>. QED BY <2>1 DEF ModernRegistry
<1>4. IsField(h, 100, IF p.langs = <<>> THEN 0 ELSE LangSize(p))
  <2>1. IsField(h, 100, ModernSizes(p)[6])
    BY <1>1 DEF HasWords, IsField
  <2>. QED BY <2>1 DEF ModernSizes
<1>5. ASSUME NEW k \in 1 .. 10
      PROVE  IsField(h, 104 + 4 * k, p.callbacks[k])
  <2>1. 104 + 4 * k = 108 + 4 * (k - 1)
    OBVIOUS
  <2>. QED BY <1>1, <2>1 DEF HasWords, IsField
<1>6. IsField(h, 224, 0)
  <2>1. IsField(h, 224, ModernFont[20])
    BY <1>1 DEF HasWords, IsField
  <2>. QED BY <2>1 DEF ModernFont
<1>7. IsField(h, 280, p.strings.install_dir) /\ IsField(h, 284, p.strings.install_dir_auto_append)
      /\ IsField(h, 288, p.strings.uninstall_child) /\ IsField(h, 292, p.strings.uninstall_command)
      /\ IsField(h, 296, p.strings.wininit)
  <2>1. /\ IsField(h, 280, ModernDirs(p)[1]) /\ IsField(h, 284, ModernDirs(p)[2])
        /\ IsField(h, 288, ModernDirs(p)[3]) /\ IsField(h, 292, ModernDirs(p)[4])
        /\ IsField(h, 296, ModernDirs(p)[5])
    BY <1>1 DEF HasWords, IsField
  <2>. QED BY <2>1 DEF ModernDirs
<1>. QED BY <1>2, <1>3, <1>4, <1>5, <1>6, <1>7 DEF ModernFields, h

-----------------------------------------------------------------------------
(* Damage to the block table.                                              *)

(* What may have happened to a file.                                       *)
MayBeDamage(d) == d = NoDamage \/ IsDamage(d)

(* The blocks have names of their own.                                     *)
LEMMA BlocksAre ==
  /\ Blocks[1] = "Pages" /\ Blocks[2] = "Sections" /\ Blocks[3] = "Entries"
  /\ Blocks[4] = "Strings" /\ Blocks[5] = "LangTables" /\ Blocks[6] = "CtlColors"
  /\ Blocks[7] = "BgFont" /\ Blocks[8] = "Data"
  /\ \A i, j \in 1 .. 8 : Blocks[i] = Blocks[j] => i = j
  /\ \A i \in 1 .. 8 : Blocks[i] # "None"
  /\ BLOCKS_NUM = 8 /\ COMMON_HEADER_MIN_SIZE = 68
<1>1. /\ Blocks[1] = "Pages" /\ Blocks[2] = "Sections" /\ Blocks[3] = "Entries"
      /\ Blocks[4] = "Strings" /\ Blocks[5] = "LangTables" /\ Blocks[6] = "CtlColors"
      /\ Blocks[7] = "BgFont" /\ Blocks[8] = "Data"
  BY DEF Blocks
<1>2. \A i, j \in 1 .. 8 : Blocks[i] = Blocks[j] => i = j
  BY <1>1
<1>3. \A i \in 1 .. 8 : Blocks[i] # "None"
  BY <1>1
<1>4. BLOCKS_NUM = 8
  BY DEF BLOCKS_NUM, Blocks
<1>5. COMMON_HEADER_MIN_SIZE = 68
  BY <1>4 DEF COMMON_HEADER_MIN_SIZE
<1>. QED BY <1>1, <1>2, <1>3, <1>4, <1>5

(* Where the font is said to lie: elsewhere if that is what was damaged.   *)
FontSays(d, v) == IF d.block = "BgFont" /\ d.field = "offset" THEN d.value ELSE v

(* Damage is to a word of the block table, and to that of its block only.  *)
DamagedOnly(g, len, w, d) ==
  /\ g.len = len
  /\ Beneath(g.word, w, 68)
  /\ \A k \in 1 .. 8 : Blocks[k] # d.block =>
       /\ \A v : IsField(w, 8 * k - 4, v) => IsField(g.word, 8 * k - 4, v)
       /\ \A v : IsField(w, 8 * k, v) => IsField(g.word, 8 * k, v)
  /\ \A o \in DOMAIN w : w[o] \in Int => IsField(g.word, o, g.word[o]) /\ g.word[o] \in Int
  /\ \A v : IsField(w, 52, v) => IsField(g.word, 52, FontSays(d, v))

(* One word was changed: the rest of the file stands.                      *)
LEMMA DamagedIs ==
  ASSUME NEW len, NEW w, NEW d, MayBeDamage(d)
  PROVE  DamagedOnly(Damaged([len |-> len, word |-> w], d), len, w, d)
<1> DEFINE h == [len |-> len, word |-> w]
           g == Damaged(h, d)
<1>1. CASE d = NoDamage
  <2>1. g = h
    BY <1>1 DEF Damaged
  <2>2. \A v : FontSays(d, v) = v
    BY <1>1 DEF FontSays, NoDamage
  <2>. QED BY <2>1, <2>2 DEF Beneath, IsField, DamagedOnly
<1>2. CASE d # NoDamage
  <2>1. IsDamage(d)
    BY <1>2 DEF MayBeDamage
  <2>2. PICK i \in 1 .. 7 : d.block = Blocks[i]
    BY <2>1 DEF IsDamage
  <2>3. d.value \in Int
    BY <2>1 DEF IsDamage
  <2>4. (CHOOSE j \in 1 .. 8 : Blocks[j] = d.block) = i
    BY <2>2, BlocksAre
  <2> DEFINE x == 8 * i - 4 + (IF d.field = "num" THEN 4 ELSE 0)
  <2>a. g = [h EXCEPT !.word[x] = d.value]
    BY <1>2, <2>4 DEF Damaged
  <2>5. x \in {8 * i - 4, 8 * i}
    OBVIOUS
  <2>b. /\ d.block = "BgFont" /\ d.field = "offset" => x = 52
        /\ ~(d.block = "BgFont" /\ d.field = "offset") => x # 52
    <3>1. i = 7 <=> d.block = "BgFont"
      BY <2>2, BlocksAre
    <3>2. d.field = "offset" <=> d.field # "num"
      BY <2>1 DEF IsDamage
    <3>3. CASE i = 7
      BY <3>1, <3>2, <3>3
    <3>4. CASE i # 7
      BY <2>5, <3>1, <3>4
    <3>. QED BY <3>3, <3>4
  <2> HIDE DEF x
  <2>6. g.len = len /\ g.word = [w EXCEPT ![x] = d.value]
    BY <2>a
  <2> HIDE DEF g
  <2>7. DOMAIN g.word = DOMAIN w /\ \A o \in DOMAIN w : o # x => g.word[o] = w[o]
    BY <2>6
  <2>8. x \in DOMAIN w => g.word[x] = d.value
    BY <2>6
  <2>9. x \in Int /\ x < 68
    BY <2>5
  <2>10. Beneath(g.word, w, 68)
    BY <2>7, <2>9 DEF Beneath
  <2>11. ASSUME NEW k \in 1 .. 8, Blocks[k] # d.block
         PROVE  8 * k - 4 # x /\ 8 * k # x
    <3>1. k # i
      BY <2>2, <2>11
    <3>. QED BY <2>5, <3>1
  <2>12. \A o \in DOMAIN w : w[o] \in Int => g.word[o] \in Int
    BY <2>3, <2>7, <2>8
  <2>13. ASSUME NEW v, IsField(w, 52, v) PROVE IsField(g.word, 52, FontSays(d, v))
    <3>1. 52 \in DOMAIN w /\ w[52] = v
      BY <2>13 DEF IsField
    <3>2. CASE d.block = "BgFont" /\ d.field = "offset"
      <4>1. x = 52 /\ 52 \in DOMAIN g.word /\ g.word[52] = d.value
        BY <2>7, <2>8, <2>b, <3>1, <3>2
      <4>. QED BY <3>2, <4>1 DEF IsField, FontSays
    <3>3. CASE ~(d.block = "BgFont" /\ d.field = "offset")
      <4>1. 52 \in DOMAIN g.word /\ g.word[52] = v
        BY <2>7, <2>b, <3>1, <3>3
      <4>. QED BY <3>3, <4>1 DEF IsField, FontSays
    <3>. QED BY <3>2, <3>3
  <2>. QED BY <2>6, <2>7, <2>10, <2>11, <2>12, <2>13 DEF IsField, g, DamagedOnly
<1>. QED BY <1>1, <1>2

(* A block with items is described where it begins.                        *)
LEMMA BlockOffsetsAre ==
  ASSUME NEW p, IsModern(p), NEW k \in 1 .. 8
  PROVE  /\ BlockOffset(p, k) \in Int /\ BlockCounts(p)[k] \in Nat
         /\ k # 8 /\ BlockCounts(p)[k] > 0 => BlockOffset(p, k) = BlockStarts(p)[k]
<1> DEFINE s == BlockStarts(p)
           c == BlockCounts(p)
<1>1. StartsInOrder(p, s)
  BY StartsAre
<1>2. s[k] \in Int
  <2> HIDE DEF s
  <2>1. /\ s[1] \in Nat /\ s[2] \in Nat /\ s[3] \in Nat /\ s[4] \in Nat
        /\ s[5] \in Nat /\ s[6] \in Nat /\ s[7] \in Nat /\ s[8] \in Nat
    BY <1>1 DEF StartsInOrder
  <2>. QED BY <2>1
<1>3. HasTables(p) /\ HasSizes(p)
  BY DEF IsModern, IsProgram
<1>4. Len(p.pages) \in Nat /\ Len(p.sections) \in Nat /\ Len(p.entries) \in Nat
        /\ Len(p.langs) \in Nat
  BY <1>3 DEF HasTables
<1>5. p.string_bytes \in Nat /\ p.colors \in Nat /\ p.fonts \in Nat
  BY <1>3 DEF HasSizes
<1>6. c[k] \in Nat
  <2>1. c = <<Len(p.pages), Len(p.sections), Len(p.entries), p.string_bytes, Len(p.langs),
              p.colors, p.fonts, 1>>
    BY DEF BlockCounts
  <2>2. c[1] \in Nat /\ c[2] \in Nat /\ c[3] \in Nat /\ c[4] \in Nat /\ c[5] \in Nat
        /\ c[6] \in Nat /\ c[7] \in Nat /\ c[8] \in Nat
    <3> HIDE DEF c
    <3>. QED BY <1>4, <1>5, <2>1
  <2> HIDE DEF c
  <2>. QED BY <2>2
<1>7. Blocks[k] = "Data" <=> k = 8
  BY BlocksAre
<1> DEFINE end == 1024 * 1024
<1>8. BlockOffset(p, k) = IF Blocks[k] = "Data" THEN end
                          ELSE IF c[k] = 0 /\ p.zero_empty THEN 0 ELSE s[k]
  <2> HIDE DEF s, c
  <2>. QED BY DEF BlockOffset, s, c
<1>9. end \in Int
  OBVIOUS
<1> HIDE DEF end, s, c
<1>10. BlockOffset(p, k) \in Int
  BY <1>2, <1>8, <1>9
<1>11. k # 8 /\ c[k] > 0 => BlockOffset(p, k) = s[k]
  BY <1>6, <1>7, <1>8
<1>. QED BY <1>6, <1>10, <1>11 DEF s, c

(* A field of the header, where the header reaches it.                     *)
FieldIn(f, end, o, v) == o < end => IsField(f, o, v)

(* The fields behind the block table, in a header of this length.          *)
LateFields(f, end, p) ==
  /\ FieldIn(f, end, 68, p.strings.install_reg_rootkey)
  /\ FieldIn(f, end, 72, p.strings.install_reg_key)
  /\ FieldIn(f, end, 76, p.strings.install_reg_value)
  /\ FieldIn(f, end, 100, IF p.langs = <<>> THEN 0 ELSE LangSize(p))
  /\ \A k \in 1 .. 10 : FieldIn(f, end, 104 + 4 * k, p.callbacks[k])
  /\ FieldIn(f, end, 224, 0)
  /\ FieldIn(f, end, 280, p.strings.install_dir)
  /\ FieldIn(f, end, 284, p.strings.install_dir_auto_append)
  /\ FieldIn(f, end, 288, p.strings.uninstall_child)
  /\ FieldIn(f, end, 292, p.strings.uninstall_command)
  /\ FieldIn(f, end, 296, p.strings.wininit)

(* The block of a modern file, under damage: what it still says.           *)
DescribesAllBut(h, p, d) ==
  \A k \in 1 .. 8 : /\ DescribedOffset(h, k) \in Int /\ DescribedCount(h, k) \in Int
                    /\ Blocks[k] # d.block => /\ DescribedOffset(h, k) = BlockOffset(p, k)
                                              /\ DescribedCount(h, k) = BlockCounts(p)[k]

(* Each table lies in its block.                                           *)
HoldsTables(f, p, s) ==
  /\ HoldsItems(f, s[1], 64, Len(p.pages), PageItems(p))
  /\ HoldsItems(f, s[2], SectionSize(p), Len(p.sections), SectionItems(p))
  /\ HoldsItems(f, s[3], 28, Len(p.entries), EntryItems(p))
  /\ HoldsItems(f, s[5], LangSize(p), Len(p.langs), LangItems(p))

(* A modern file that is whole, but for one descriptor.                    *)
IntactBut(h, p, d) ==
  /\ h.len = BlockStarts(p)[8]
  /\ DescribesAllBut(h, p, d)
  /\ IsField(h.word, 52, FontSays(d, BlockOffset(p, 7)))
  /\ LateFields(h.word, BlockStarts(p)[1], p)
  /\ HoldsTables(h.word, p, BlockStarts(p))

(* What changes a header leaves the tables behind it as they are.          *)
LEMMA ItemsBeneath ==
  ASSUME NEW f, NEW g, NEW a \in Int, NEW base \in Int, NEW size \in Nat, NEW n \in Nat, NEW items,
         Beneath(g, f, a), base >= a, ItemsFit(items, n, size), HoldsItems(f, base, size, n, items)
  PROVE  HoldsItems(g, base, size, n, items)
<1>1. ASSUME NEW k \in 1 .. n, NEW w \in DOMAIN items[k]
      PROVE  /\ base + size * (k - 1) + w \in DOMAIN g
             /\ g[base + size * (k - 1) + w] = items[k][w]
  <2>1. w \in Nat
    BY DEF ItemsFit
  <2>2. size * (k - 1) \in Nat
    <3>1. \A x, y \in Nat : x * y \in Nat
      OBVIOUS
    <3>. QED BY <3>1
  <2> DEFINE o == base + size * (k - 1) + w
  <2>3. o >= a
    BY <2>1, <2>2
  <2>4. o \in DOMAIN f /\ f[o] = items[k][w]
    BY DEF HoldsItems
  <2> HIDE DEF o
  <2>5. o \in DOMAIN g /\ g[o] = items[k][w]
    BY <2>3, <2>4 DEF Beneath
  <2>. QED BY <2>5 DEF o
<1>. QED BY <1>1 DEF HoldsItems

(* Every modern file is whole, but for its damage.                         *)
LEMMA ModernFileIs ==
  ASSUME NEW p, IsModern(p), NEW d, MayBeDamage(d)
  PROVE  IntactBut(Damaged(ModernBlock(p), d), p, d)
<1> DEFINE s == BlockStarts(p)
           w == ModernBlock(p).word
           h == Damaged(ModernBlock(p), d)
<1>1. ModernBlock(p) = [len |-> s[8], word |-> w]
  <2>1. \E word : ModernBlock(p) = [len |-> s[8], word |-> word]
    BY DEF ModernBlock
  <2>. QED BY <2>1
<1>2. HoldsModern(w, p, s)
  BY ModernBlockIs
<1>3. StartsInOrder(p, s) /\ SectionSize(p) \in Nat /\ LangSize(p) \in Nat
  BY StartsAre
<1> HIDE DEF s, w
<1>4. /\ h.len = s[8]
      /\ Beneath(h.word, w, 68)
      /\ \A k \in 1 .. 8 : Blocks[k] # d.block =>
           /\ \A v : IsField(w, 8 * k - 4, v) => IsField(h.word, 8 * k - 4, v)
           /\ \A v : IsField(w, 8 * k, v) => IsField(h.word, 8 * k, v)
      /\ \A o \in DOMAIN w : w[o] \in Int => IsField(h.word, o, h.word[o]) /\ h.word[o] \in Int
      /\ \A v : IsField(w, 52, v) => IsField(h.word, 52, FontSays(d, v))
  <2>1. DamagedOnly(h, s[8], w, d)
    BY <1>1, DamagedIs
  <2> HIDE DEF h
  <2>. QED BY <2>1 DEF DamagedOnly
<1> HIDE DEF h
<1>5. ModernFields(ModernHeader(p), p)
  <2>1. DOMAIN p.callbacks = 1 .. 10
    BY DEF IsModern, IsProgram
  <2>. QED BY <2>1, ModernFieldsAre
<1>6. \A o, v : IsField(ModernHeader(p), o, v) /\ o < s[1] => IsField(w, o, v)
  BY <1>2 DEF HoldsModern, IsField
<1>7. \A o, v : o >= 68 /\ IsField(w, o, v) => IsField(h.word, o, v)
  BY <1>4 DEF Beneath, IsField
<1>8. s[1] \in Int /\ s[2] \in Int /\ s[3] \in Int /\ s[5] \in Int /\ s[8] \in Int
      /\ s[1] >= 68 /\ s[2] >= 68 /\ s[3] >= 68 /\ s[5] >= 68 /\ s[8] >= 68
  <2>1. /\ s[1] \in Nat /\ s[2] \in Nat /\ s[3] \in Nat /\ s[4] \in Nat
        /\ s[5] \in Nat /\ s[6] \in Nat /\ s[7] \in Nat /\ s[8] \in Nat
    BY <1>3 DEF StartsInOrder
  <2>2. s[1] >= 68 /\ s[1] <= s[2] /\ s[2] <= s[3] /\ s[3] <= s[4] /\ s[4] <= s[5]
    BY <1>3 DEF StartsInOrder
  <2>3. s[5] <= s[6] /\ s[6] <= s[7] /\ s[7] <= s[8]
    BY <1>3 DEF StartsInOrder
  <2>. QED BY <2>1, <2>2, <2>3
<1>9. DescribesAllBut(h, p, d)
  <2> SUFFICES ASSUME NEW k \in 1 .. 8
               PROVE  /\ DescribedOffset(h, k) \in Int /\ DescribedCount(h, k) \in Int
                      /\ Blocks[k] # d.block => /\ DescribedOffset(h, k) = BlockOffset(p, k)
                                                /\ DescribedCount(h, k) = BlockCounts(p)[k]
    BY DEF DescribesAllBut
  <2> DEFINE o == 8 * k - 4
             c == 8 * k
  <2>1. o \in Int /\ c \in Int /\ o < s[1] /\ c < s[1] /\ ~(o + 4 > s[8]) /\ ~(c + 4 > s[8])
    BY <1>8
  <2>2. IsField(ModernHeader(p), o, BlockOffset(p, k)) /\ IsField(ModernHeader(p), c, BlockCounts(p)[k])
    BY <1>5 DEF ModernFields
  <2>3. DescribedOffset(h, k) = WordAt(h, o, s[8]) /\ DescribedCount(h, k) = WordAt(h, c, s[8])
    BY <1>4 DEF DescribedOffset, DescribedCount
  <2>4. Blocks[k] # d.block => /\ \A v : IsField(w, o, v) => IsField(h.word, o, v)
                               /\ \A v : IsField(w, c, v) => IsField(h.word, c, v)
    BY <1>4
  <2> HIDE DEF o, c
  <2>5. IsField(w, o, BlockOffset(p, k)) /\ IsField(w, c, BlockCounts(p)[k])
    BY <1>6, <2>1, <2>2
  <2>6. BlockOffset(p, k) \in Int /\ BlockCounts(p)[k] \in Int
    BY BlockOffsetsAre
  <2>7. IsField(h.word, o, h.word[o]) /\ h.word[o] \in Int
        /\ IsField(h.word, c, h.word[c]) /\ h.word[c] \in Int
    BY <1>4, <2>5, <2>6 DEF IsField
  <2>8. DescribedOffset(h, k) = h.word[o] /\ DescribedCount(h, k) = h.word[c]
    BY <2>1, <2>3, <2>7 DEF WordAt, IsField
  <2>9. Blocks[k] # d.block => h.word[o] = BlockOffset(p, k) /\ h.word[c] = BlockCounts(p)[k]
    BY <2>4, <2>5 DEF IsField
  <2>. QED BY <2>7, <2>8, <2>9
<1>10. LateFields(h.word, s[1], p)
  <2>1. \A o, v : o >= 68 /\ IsField(ModernHeader(p), o, v) => FieldIn(h.word, s[1], o, v)
    BY <1>6, <1>7 DEF FieldIn
  <2>2. ASSUME NEW k \in 1 .. 10
        PROVE  FieldIn(h.word, s[1], 104 + 4 * k, p.callbacks[k])
    <3>1. IsField(ModernHeader(p), 104 + 4 * k, p.callbacks[k])
      BY <1>5 DEF ModernFields
    <3>2. 104 + 4 * k >= 68
      OBVIOUS
    <3>. QED BY <2>1, <3>1, <3>2
  <2>3. /\ 68 >= 68 /\ 72 >= 68 /\ 76 >= 68 /\ 100 >= 68 /\ 224 >= 68
        /\ 280 >= 68 /\ 284 >= 68 /\ 288 >= 68 /\ 292 >= 68 /\ 296 >= 68
    OBVIOUS
  <2>. QED BY <1>5, <2>1, <2>2, <2>3, Zenon DEF ModernFields, LateFields
<1>11. HoldsTables(h.word, p, s)
  <2>1. HoldsItems(w, s[1], 64, Len(p.pages), PageItems(p))
        /\ HoldsItems(w, s[2], SectionSize(p), Len(p.sections), SectionItems(p))
        /\ HoldsItems(w, s[3], 28, Len(p.entries), EntryItems(p))
        /\ HoldsItems(w, s[5], LangSize(p), Len(p.langs), LangItems(p))
    BY <1>2 DEF HoldsModern
  <2>2. HasTables(p)
    BY DEF IsModern, IsProgram
  <2>3. Len(p.pages) \in Nat /\ Len(p.sections) \in Nat /\ Len(p.entries) \in Nat
          /\ Len(p.langs) \in Nat
    BY <2>2 DEF HasTables
  <2>4. Beneath(h.word, w, 68) /\ 68 \in Int /\ 64 \in Nat /\ 28 \in Nat
    BY <1>4
  <2>5. HoldsItems(h.word, s[1], 64, Len(p.pages), PageItems(p))
    BY <1>8, <2>1, <2>3, <2>4, PagesFit, ItemsBeneath
  <2>6. HoldsItems(h.word, s[2], SectionSize(p), Len(p.sections), SectionItems(p))
    <3> DEFINE size == SectionSize(p)
               n == Len(p.sections)
               items == SectionItems(p)
               base == s[2]
    <3>1. /\ ItemsFit(items, n, size) /\ size \in Nat /\ n \in Nat /\ base \in Int
          /\ base >= 68 /\ HoldsItems(w, base, size, n, items)
      BY <1>3, <1>8, <2>1, <2>3, SectionsFit
    <3> HIDE DEF size, n, items, base
    <3>2. HoldsItems(h.word, base, size, n, items)
      BY <2>4, <3>1, ItemsBeneath
    <3>. QED BY <3>2 DEF size, n, items, base
  <2>7. HoldsItems(h.word, s[3], 28, Len(p.entries), EntryItems(p))
    BY <1>8, <2>1, <2>3, <2>4, EntriesFit, ItemsBeneath
  <2>8. HoldsItems(h.word, s[5], LangSize(p), Len(p.langs), LangItems(p))
    <3> DEFINE size == LangSize(p)
               n == Len(p.langs)
               items == LangItems(p)
               base == s[5]
    <3>1. /\ ItemsFit(items, n, size) /\ size \in Nat /\ n \in Nat /\ base \in Int
          /\ base >= 68 /\ HoldsItems(w, base, size, n, items)
      BY <1>3, <1>8, <2>1, <2>3, LangsFit
    <3> HIDE DEF size, n, items, base
    <3>2. HoldsItems(h.word, base, size, n, items)
      BY <2>4, <3>1, ItemsBeneath
    <3>. QED BY <3>2 DEF size, n, items, base
  <2>. QED BY <2>5, <2>6, <2>7, <2>8 DEF HoldsTables
<1>12. IsField(h.word, 52, FontSays(d, BlockOffset(p, 7)))
  <2>1. IsField(ModernHeader(p), 8 * 7 - 4, BlockOffset(p, 7))
    BY <1>5 DEF ModernFields
  <2>2. 8 * 7 - 4 = 52 /\ 52 < s[1]
    BY <1>8
  <2>. QED BY <1>4, <1>6, <2>1, <2>2
<1>. QED BY <1>4, <1>9, <1>10, <1>11, <1>12 DEF IntactBut, s, h

-----------------------------------------------------------------------------
(* A modern file under its own layout.                                     *)

(* The blocks begin one behind the other.                                  *)
StartsAscend(s) ==
  /\ \A k \in 1 .. 8 : s[k] \in Nat
  /\ \A j, k \in 1 .. 8 : j < k => s[j] <= s[k]

LEMMA StartsGoUp ==
  ASSUME NEW p, NEW s, StartsInOrder(p, s)
  PROVE  StartsAscend(s)
<1>1. /\ s[1] \in Nat /\ s[2] \in Nat /\ s[3] \in Nat /\ s[4] \in Nat
      /\ s[5] \in Nat /\ s[6] \in Nat /\ s[7] \in Nat /\ s[8] \in Nat
  BY DEF StartsInOrder
<1>2. /\ s[1] <= s[2] /\ s[2] <= s[3] /\ s[3] <= s[4] /\ s[4] <= s[5]
      /\ s[5] <= s[6] /\ s[6] <= s[7] /\ s[7] <= s[8]
  <2>1. s[1] <= s[2] /\ s[2] <= s[3] /\ s[3] <= s[4] /\ s[4] <= s[5]
    BY DEF StartsInOrder
  <2>2. s[5] <= s[6] /\ s[6] <= s[7] /\ s[7] <= s[8]
    BY DEF StartsInOrder
  <2>. QED BY <2>1, <2>2
<1>3. \A k \in 1 .. 8 : s[k] \in Nat
  BY <1>1
<1>4. \A k \in 1 .. 7 : s[k] <= s[k + 1]
  BY <1>2
<1>5. ASSUME NEW j \in 1 .. 8, NEW k \in 1 .. 8, j < k
      PROVE  s[j] <= s[k]
  <2>1. \A i \in 1 .. 8 : i > 1 => s[1] <= s[i]
    BY <1>1, <1>2
  <2>2. \A i \in 1 .. 8 : i > 2 => s[2] <= s[i]
    BY <1>1, <1>2
  <2>3. \A i \in 1 .. 8 : i > 3 => s[3] <= s[i]
    BY <1>1, <1>2
  <2>4. \A i \in 1 .. 8 : i > 4 => s[4] <= s[i]
    BY <1>1, <1>2
  <2>5. \A i \in 1 .. 8 : i > 5 => s[5] <= s[i]
    BY <1>1, <1>2
  <2>6. \A i \in 1 .. 8 : i > 6 => s[6] <= s[i]
    BY <1>1, <1>2
  <2>7. \A i \in 1 .. 8 : i > 7 => s[7] <= s[i]
    BY <1>1, <1>2
  <2>8. j \in {1, 2, 3, 4, 5, 6, 7}
    BY <1>5
  <2>. QED BY <1>5, <2>1, <2>2, <2>3, <2>4, <2>5, <2>6, <2>7, <2>8
<1>. QED BY <1>3, <1>5 DEF StartsAscend

(* A block nobody damaged fits the layout it was written in.               *)
LEMMA ModernFits ==
  ASSUME NEW p, IsModern(p), NEW h, IntactBut(h, p, NoDamage)
  PROVE  FitsCommonHeader(h)
<1> DEFINE s == BlockStarts(p)
<1>1. StartsInOrder(p, s)
  BY StartsAre
<1>2. StartsAscend(s)
  BY <1>1, StartsGoUp
<1>3. h.len = s[8] /\ DescribesAllBut(h, p, NoDamage)
  BY DEF IntactBut
<1>4. ASSUME NEW k \in Written(h)
      PROVE  k \in 1 .. 7 /\ DescribedOffset(h, k) = s[k]
  <2>1. k \in 1 .. 8 /\ Blocks[k] # "Data" /\ DescribedCount(h, k) > 0
    BY BlocksAre DEF Written
  <2>2. k # 8
    BY <2>1, BlocksAre
  <2>3. Blocks[k] # NoDamage.block
    BY <2>1, BlocksAre DEF NoDamage
  <2>4. DescribedOffset(h, k) = BlockOffset(p, k) /\ DescribedCount(h, k) = BlockCounts(p)[k]
    BY <1>3, <2>1, <2>3 DEF DescribesAllBut
  <2>5. BlockOffset(p, k) = s[k]
    BY <2>1, <2>2, <2>4, BlockOffsetsAre
  <2>. QED BY <2>1, <2>2, <2>4, <2>5
<1>5. s[1] >= 68
  BY <1>1 DEF StartsInOrder
<1> HIDE DEF s
<1>6. h.len >= COMMON_HEADER_MIN_SIZE
  BY <1>2, <1>3, <1>5, BlocksAre DEF StartsAscend
<1>7. \A k \in Written(h) : DescribedOffset(h, k) \in 0 .. h.len
  BY <1>2, <1>3, <1>4 DEF StartsAscend
<1>8. \A j, k \in Written(h) : j < k => DescribedOffset(h, j) <= DescribedOffset(h, k)
  BY <1>2, <1>4 DEF StartsAscend
<1>. QED BY <1>6, <1>7, <1>8 DEF FitsCommonHeader

(* Where the header ends, its fields do.                                   *)
LEMMA HeaderEnds ==
  ASSUME NEW p, IsModern(p), NEW o \in 0 .. 296
  PROVE  /\ BlockStarts(p)[8] \in Nat /\ BlockStarts(p)[1] \in Nat
         /\ o + 4 <= BlockStarts(p)[8] => o < BlockStarts(p)[1]
         /\ ~(o + 4 <= BlockStarts(p)[8]) => 4 * p.header_words < o + 4
<1> DEFINE s == BlockStarts(p)
<1>1. StartsInOrder(p, s)
  BY StartsAre
<1>2. StartsAscend(s) /\ s[1] = 4 * p.header_words
  BY <1>1, StartsGoUp DEF StartsInOrder
<1>3. HeaderSuffices(p)
  BY DEF IsModern
<1>4. p.header_words \in 17 .. 75 /\ (p.header_words # 75 => s[8] = 4 * p.header_words)
  BY <1>3 DEF HeaderSuffices, HeaderWords
<1> HIDE DEF s
<1>5. s[8] \in Nat /\ s[1] \in Nat /\ s[1] <= s[8]
  BY <1>2 DEF StartsAscend
<1>6. CASE p.header_words = 75
  BY <1>2, <1>5, <1>6 DEF s
<1>7. CASE p.header_words # 75
  BY <1>2, <1>4, <1>5, <1>7 DEF s
<1>. QED BY <1>6, <1>7

(* A field reads as it was compiled, or as absent if that is what it was.  *)
LEMMA FieldRead ==
  ASSUME NEW p, IsModern(p), NEW h, h.len = BlockStarts(p)[8],
         NEW o \in 0 .. 296, NEW v, NEW absent, FieldIn(h.word, BlockStarts(p)[1], o, v),
         4 * p.header_words < o + 4 => v = absent
  PROVE  (IF o + 4 <= h.len THEN WordAt(h, o, h.len) ELSE absent) = v
<1>1. /\ BlockStarts(p)[8] \in Nat /\ BlockStarts(p)[1] \in Nat
      /\ o + 4 <= BlockStarts(p)[8] => o < BlockStarts(p)[1]
      /\ ~(o + 4 <= BlockStarts(p)[8]) => 4 * p.header_words < o + 4
  BY HeaderEnds
<1>2. CASE o + 4 <= h.len
  <2>1. IsField(h.word, o, v)
    BY <1>1, <1>2 DEF FieldIn
  <2>2. ~(o + 4 > h.len)
    BY <1>1, <1>2
  <2>. QED BY <1>2, <2>1, <2>2 DEF IsField, WordAt
<1>3. CASE ~(o + 4 <= h.len)
  BY <1>1, <1>3
<1>. QED BY <1>2, <1>3

(* What the layout of NSIS 2 and 3 reads in a file that was written in it. *)
ModernRead ==
  /\ is_v1 = FALSE
  /\ \A k \in 1 .. 8 : blocks[Blocks[k]] = BlockHeader(k)
  /\ langtable_size = IF program.langs = <<>> THEN 0 ELSE LangSize(program)
  /\ callbacks = program.callbacks
  /\ header_strings = program.strings

(* A header too short to say the size of a language table has none.        *)
LEMMA LangSizeIsRead ==
  ASSUME NEW p, IsModern(p), 4 * p.header_words < 104
  PROVE  p.langs = <<>>
<1> DEFINE s == BlockStarts(p)
<1>1. StartsInOrder(p, s) /\ LangSize(p) \in Nat /\ LangSize(p) >= 10
  BY StartsAre
<1>2. StartsAscend(s)
  BY <1>1, StartsGoUp
<1>3. HasTables(p)
  BY DEF IsModern, IsProgram
<1>4. p.langs \in Seq(LangFields(p.lang_strings)) /\ Len(p.langs) \in Nat
  BY <1>3 DEF HasTables
<1>5. HeaderSuffices(p)
  BY DEF IsModern
<1>6. p.header_words \in 17 .. 75 /\ (p.header_words # 75 => s[8] = 4 * p.header_words)
  BY <1>5 DEF HeaderSuffices, HeaderWords
<1> HIDE DEF s
<1>7. s[8] = 4 * p.header_words
  BY <1>6
<1>8. s[1] = 4 * p.header_words /\ s[6] = s[5] + LangSize(p) * Len(p.langs)
  BY <1>1 DEF StartsInOrder
<1>9. s[1] \in Nat /\ s[5] \in Nat /\ s[6] \in Nat /\ s[8] \in Nat /\ s[1] <= s[5] /\ s[6] <= s[8]
  BY <1>2 DEF StartsAscend
<1>10. Len(p.langs) = 0
  <2>1. SUFFICES ASSUME Len(p.langs) >= 1 PROVE FALSE
    BY <1>4
  <2>2. LangSize(p) * Len(p.langs) >= 10
    <3>1. \A a, b \in Nat : a >= 10 /\ b >= 1 => a * b >= 10 /\ a * b \in Nat
      <4>1. \A a, c \in Nat : a * c \in Nat /\ a * (c + 1) = a * c + a
        OBVIOUS
      <4>2. ASSUME NEW a \in Nat, NEW b \in Nat, a >= 10, b >= 1 PROVE a * b >= 10 /\ a * b \in Nat
        <5>1. PICK c \in Nat : b = c + 1
          BY <4>2
        <5>. QED BY <4>1, <4>2, <5>1
      <4>. QED BY <4>2
    <3>. QED BY <1>1, <1>4, <2>1, <3>1
  <2> DEFINE x == LangSize(p) * Len(p.langs)
  <2>3. x \in Int /\ x >= 10 /\ s[6] = s[5] + x
    BY <1>1, <1>4, <1>8, <2>2
  <2> HIDE DEF x
  <2>. QED BY <1>7, <1>8, <1>9, <2>3
<1>. QED BY <1>4, <1>10

(* What the parser makes of a block under its own layout.                  *)
LEMMA ModernIsRead ==
  ASSUME IsModern(program), IntactBut(header, program, damage), ReadCommonHeader,
         UNCHANGED <<program, header>>
  PROVE  ModernRead'
<1> DEFINE s == BlockStarts(program)
           str == program.strings
<1>1. header.len = s[8] /\ LateFields(header.word, s[1], program)
  BY DEF IntactBut
<1>2. \A o, absent : field_at(o, absent) = IF o + 4 <= header.len THEN WordAt(header, o, header.len) ELSE absent
  BY DEF field_at, read_i32_le
<1>3. ASSUME NEW o \in 0 .. 296, NEW v, NEW absent, FieldIn(header.word, s[1], o, v),
             4 * program.header_words < o + 4 => v = absent
      PROVE  field_at(o, absent) = v
  <2>1. (IF o + 4 <= header.len THEN WordAt(header, o, header.len) ELSE absent) = v
    BY <1>1, <1>3, FieldRead, Zenon
  <2>. QED BY <1>2, <2>1
<1>4. IsProgram(program) /\ CallbacksFit(program) /\ StringsFit(program)
  BY DEF IsModern
<1> HIDE DEF s
<1>5. langtable_size' = IF program.langs = <<>> THEN 0 ELSE LangSize(program)
  <2> DEFINE v == IF program.langs = <<>> THEN 0 ELSE LangSize(program)
  <2>1. FieldIn(header.word, s[1], 100, v)
    BY <1>1 DEF LateFields
  <2>2. 4 * program.header_words < 100 + 4 => v = 0
    BY LangSizeIsRead
  <2>3. langtable_size' = field_at(100, 0) /\ 100 \in 0 .. 296
    BY DEF ReadCommonHeader
  <2> HIDE DEF v
  <2>. QED BY <1>3, <2>1, <2>2, <2>3 DEF v
<1>6. callbacks' = program.callbacks
  <2>1. program.callbacks \in [1 .. 10 -> Nat \cup {-1}]
    BY <1>4 DEF IsProgram
  <2>2. ASSUME NEW k \in 1 .. 10 PROVE field_at(104 + 4 * k, -1) = program.callbacks[k]
    <3>1. FieldIn(header.word, s[1], 104 + 4 * k, program.callbacks[k])
      BY <1>1 DEF LateFields
    <3>2. 104 + 4 * k \in 0 .. 296 /\ (104 + 4 * k) + 4 = 108 + 4 * k
      OBVIOUS
    <3>3. 4 * program.header_words < (104 + 4 * k) + 4 => program.callbacks[k] = -1
      BY <1>4, <3>2 DEF CallbacksFit
    <3>. QED BY <1>3, <3>1, <3>2, <3>3
  <2>3. callbacks' = [k \in 1 .. 10 |-> field_at(104 + 4 * k, -1)]
    BY DEF ReadCommonHeader
  <2>4. callbacks' = [k \in 1 .. 10 |-> program.callbacks[k]]
    BY <2>2, <2>3, Zenon
  <2>. QED BY <2>1, <2>4
<1>7. /\ field_at(68, 0) = str.install_reg_rootkey
      /\ field_at(72, -1) = str.install_reg_key
      /\ field_at(76, -1) = str.install_reg_value
      /\ field_at(280, -1) = str.install_dir
      /\ field_at(284, -1) = str.install_dir_auto_append
      /\ field_at(288, -1) = str.uninstall_child
      /\ field_at(292, -1) = str.uninstall_command
      /\ field_at(296, -1) = str.wininit
  <2>1. /\ FieldIn(header.word, s[1], 68, str.install_reg_rootkey)
        /\ FieldIn(header.word, s[1], 72, str.install_reg_key)
        /\ FieldIn(header.word, s[1], 76, str.install_reg_value)
        /\ FieldIn(header.word, s[1], 280, str.install_dir)
        /\ FieldIn(header.word, s[1], 284, str.install_dir_auto_append)
        /\ FieldIn(header.word, s[1], 288, str.uninstall_child)
        /\ FieldIn(header.word, s[1], 292, str.uninstall_command)
        /\ FieldIn(header.word, s[1], 296, str.wininit)
    BY <1>1 DEF LateFields
  <2> DEFINE size == 4 * program.header_words
  <2>2. /\ size < 68 + 4 => str.install_reg_rootkey = 0
        /\ size < 72 + 4 => str.install_reg_key = -1
        /\ size < 76 + 4 => str.install_reg_value = -1
        /\ size < 280 + 4 => str.install_dir = -1
        /\ size < 284 + 4 => str.install_dir_auto_append = -1
        /\ size < 288 + 4 => str.uninstall_child = -1
        /\ size < 292 + 4 => str.uninstall_command = -1
        /\ size < 296 + 4 => str.wininit = -1
    <3>1. /\ 68 + 4 = 72 /\ 72 + 4 = 76 /\ 76 + 4 = 80 /\ 280 + 4 = 284 /\ 284 + 4 = 288
          /\ 288 + 4 = 292 /\ 292 + 4 = 296 /\ 296 + 4 = 300
      OBVIOUS
    <3>. QED BY <1>4, <3>1 DEF StringsFit
  <2>3. /\ 68 \in 0 .. 296 /\ 72 \in 0 .. 296 /\ 76 \in 0 .. 296 /\ 280 \in 0 .. 296
        /\ 284 \in 0 .. 296 /\ 288 \in 0 .. 296 /\ 292 \in 0 .. 296 /\ 296 \in 0 .. 296
    OBVIOUS
  <2> HIDE DEF str
  <2>. QED BY <1>3, <2>1, <2>2, <2>3
<1>8. header_strings' = program.strings
  <2>1. header_strings' =
          [install_dir             |-> str.install_dir,
           install_dir_auto_append |-> str.install_dir_auto_append,
           install_reg_key         |-> str.install_reg_key,
           install_reg_value       |-> str.install_reg_value,
           install_reg_rootkey     |-> str.install_reg_rootkey,
           uninstall_child         |-> str.uninstall_child,
           uninstall_command       |-> str.uninstall_command,
           wininit                 |-> str.wininit]
    <3>1. INSTALL_DIR_OFFSET = 280 /\ INSTALL_DIR_OFFSET + 4 = 284 /\ INSTALL_DIR_OFFSET + 8 = 288
            /\ INSTALL_DIR_OFFSET + 12 = 292 /\ INSTALL_DIR_OFFSET + 16 = 296
      BY DEF INSTALL_DIR_OFFSET
    <3> HIDE DEF str
    <3>. QED BY <1>7, <3>1 DEF ReadCommonHeader
  <2>2. program.strings \in [HeaderStrings -> Int]
    BY <1>4 DEF IsProgram
  <2>. QED BY <2>1, <2>2 DEF HeaderStrings
<1>9. ASSUME NEW k \in 1 .. 8
      PROVE  blocks'[Blocks[k]] = BlockHeader(k)'
  <2>1. blocks' = [b \in BlockType |-> BlockHeader(CHOOSE i \in 1 .. BLOCKS_NUM : Blocks[i] = b)]
    BY DEF ReadCommonHeader
  <2>2. Blocks[k] \in BlockType
    BY DEF BlockType
  <2>3. (CHOOSE i \in 1 .. BLOCKS_NUM : Blocks[i] = Blocks[k]) = k
    BY BlocksAre
  <2>4. blocks'[Blocks[k]] = BlockHeader(k)
    BY <2>1, <2>2, <2>3
  <2>. QED BY <2>4 DEF BlockHeader
<1>10. is_v1' = FALSE
  BY DEF ReadCommonHeader
<1>. QED BY <1>5, <1>6, <1>8, <1>9, <1>10 DEF ModernRead

(* A damaged table is only taken for a header of 1.x where it says that    *)
(* the font lies at so few bytes: they are counted as entries, and those   *)
(* have to fit.                                                            *)
LEMMA ModernAsV1 ==
  ASSUME IsModern(program), MayBeDamage(damage), IntactBut(header, program, damage), IsV1Header
  PROVE  FontOffset \in 0 .. header.len \div EntryV1Size
<1> DEFINE s == BlockStarts(program)
           n == FontOffset
           len == header.len
<1>1. StartsInOrder(program, s)
  BY StartsAre
<1>2. /\ len = s[8] /\ LateFields(header.word, s[1], program)
      /\ IsField(header.word, 52, n)
  BY DEF IntactBut, FontOffset, FontSays
<1>3. n \in Int
  <2>1. BlockOffset(program, 7) \in Int
    BY BlockOffsetsAre
  <2>2. damage.block = "BgFont" => damage.value \in Int
    BY DEF MayBeDamage, IsDamage, NoDamage
  <2>. QED BY <2>1, <2>2 DEF FontOffset
<1>4. len >= v1_size /\ num_sections >= 0 /\ num_entries >= 0 /\ strings_offset <= len
  BY DEF IsV1Header
<1>5. program.header_words \in 17 .. 75
        /\ (program.header_words # 75 => s[8] = 4 * program.header_words)
  <2>1. HeaderSuffices(program)
    BY DEF IsModern
  <2>. QED BY <2>1 DEF HeaderSuffices, HeaderWords
<1>6. s[1] = 4 * program.header_words /\ s[8] \in Nat
  BY <1>1 DEF StartsInOrder
<1> HIDE DEF s, n, len
<1>7. v1_size \in {240, 120}
  BY DEF v1_size
<1>8. num_entries = n
  <2>1. ~(52 + 4 > v1_size)
    BY <1>7
  <2>. QED BY <1>2, <2>1 DEF num_entries, v1_field, read_i32_le, WordAt, IsField
<1>9. num_sections = 0
  <2>1. CASE v1_kind = "Installer"
    <3>1. v1_size = 240 /\ ~(224 + 4 > v1_size)
      BY <2>1 DEF v1_size
    <3>2. 224 < s[1]
      BY <1>2, <1>4, <1>5, <1>6, <3>1
    <3>3. FieldIn(header.word, s[1], 224, 0)
      BY <1>2 DEF LateFields
    <3>4. IsField(header.word, 224, 0)
      BY <3>2, <3>3 DEF FieldIn
    <3>. QED BY <2>1, <3>1, <3>4 DEF num_sections, v1_field, read_i32_le, WordAt, IsField
  <2>2. CASE v1_kind # "Installer"
    BY <2>2 DEF num_sections
  <2>. QED BY <2>1, <2>2
<1>10. strings_offset = v1_size + 24 * n
  BY <1>3, <1>7, <1>8, <1>9 DEF strings_offset, entries_offset, SectionV1Size, EntryV1Size
<1>11. 24 * n <= len /\ 0 <= n /\ len \in Nat
  BY <1>2, <1>3, <1>4, <1>6, <1>7, <1>8, <1>10
<1>12. n \in 0 .. len \div 24
  BY <1>3, <1>11
<1>. QED BY <1>12 DEF EntryV1Size, n, len

-----------------------------------------------------------------------------
(* The tables of a modern file.                                            *)

(* The iterator over t hands out the table as it was compiled.             *)
TableLies(t) ==
  /\ blocks[t][1] \in Int /\ stride(t) \in Int
  /\ Or0(blocks[t][2]) = Len(Compiled(t))
  /\ \A k \in 1 .. Len(Compiled(t)) :
       Parsed(t, blocks[t][1] + stride(t) * (k - 1)) = [kind |-> t, of |-> Compiled(t)[k]]

(* Each word of a row is read in the bytes of that row.                    *)
RowsRead(base, size, n, items) ==
  \A k \in 1 .. n : \A w \in DOMAIN items[k] : w \in Int /\ w + 4 <= size =>
    \A o \in Int : o = base + size * (k - 1) => read_i32_le(o + w, o + size) = items[k][w]

(* A row that is held can be read, word by word.                           *)
LEMMA RowRead ==
  ASSUME NEW base \in Int, NEW size \in Nat, NEW n \in Nat, NEW items,
         HoldsItems(header.word, base, size, n, items)
  PROVE  RowsRead(base, size, n, items)
<1>. SUFFICES ASSUME NEW k \in 1 .. n, NEW w \in DOMAIN items[k], w \in Int, w + 4 <= size,
                     NEW o \in Int, o = base + size * (k - 1)
              PROVE  read_i32_le(o + w, o + size) = items[k][w]
  BY DEF RowsRead
<1>1. o + w \in DOMAIN header.word /\ header.word[o + w] = items[k][w]
  <2>1. /\ base + size * (k - 1) + w \in DOMAIN header.word
        /\ header.word[base + size * (k - 1) + w] = items[k][w]
    BY DEF HoldsItems
  <2>. QED BY <2>1
<1>2. ~((o + w) + 4 > o + size)
  OBVIOUS
<1>. QED BY <1>1, <1>2 DEF read_i32_le, WordAt

(* A row among n of them ends before they do.                              *)
LEMMA RowFits ==
  ASSUME NEW base \in Int, NEW size \in Nat, NEW n \in Nat, NEW len \in Int,
         base + size * n <= len, NEW k \in 1 .. n
  PROVE  /\ base + size * (k - 1) \in Int
         /\ base + size * (k - 1) + size <= len
<1>1. size * (k - 1) \in Int /\ size * n \in Int
  OBVIOUS
<1>2. size * (k - 1) + size <= size * ((n + 1) - 1)
  BY RowsApart
<1>3. (n + 1) - 1 = n
  OBVIOUS
<1>. QED BY <1>1, <1>2, <1>3

(* A modern file was parsed, up to its tables.                             *)
ModernState ==
  /\ IsModern(program) /\ IntactBut(header, program, damage) /\ ModernRead
  /\ section_size = measured_size

(* The descriptors the parser keeps, where they are sound.                 *)
LEMMA ModernDescribes ==
  ASSUME ModernState, NEW k \in 1 .. 7, Blocks[k] # damage.block
  PROVE  /\ blocks[Blocks[k]][1] \in Int /\ blocks[Blocks[k]][2] = BlockCounts(program)[k]
         /\ BlockCounts(program)[k] \in Nat
         /\ BlockCounts(program)[k] > 0 => blocks[Blocks[k]][1] = BlockStarts(program)[k]
<1>1. IsModern(program) /\ DescribesAllBut(header, program, damage) /\ ModernRead
  BY DEF ModernState, IntactBut
<1>2. blocks[Blocks[k]] = <<DescribedOffset(header, k), DescribedCount(header, k)>>
  BY <1>1 DEF ModernRead, BlockHeader
<1>3. DescribedOffset(header, k) = BlockOffset(program, k)
        /\ DescribedCount(header, k) = BlockCounts(program)[k]
        /\ DescribedOffset(header, k) \in Int
  BY <1>1 DEF DescribesAllBut
<1>4. /\ BlockOffset(program, k) \in Int /\ BlockCounts(program)[k] \in Nat
      /\ BlockCounts(program)[k] > 0 => BlockOffset(program, k) = BlockStarts(program)[k]
  BY <1>1, BlockOffsetsAre
<1>. QED BY <1>2, <1>3, <1>4

(* What is known of the block then.                                        *)
LEMMA ModernLayout ==
  ASSUME ModernState
  PROVE  /\ HoldsTables(header.word, program, BlockStarts(program))
         /\ StartsInOrder(program, BlockStarts(program)) /\ StartsAscend(BlockStarts(program))
         /\ header.len = BlockStarts(program)[8]
         /\ SectionSize(program) \in Nat /\ SectionSize(program) >= 24
         /\ LangSize(program) \in Nat /\ LangSize(program) >= 10
         /\ HasTables(program) /\ is_v1 = FALSE
<1>1. IsModern(program) /\ IntactBut(header, program, damage) /\ ModernRead
  BY DEF ModernState
<1>2. HoldsTables(header.word, program, BlockStarts(program)) /\ header.len = BlockStarts(program)[8]
  BY <1>1 DEF IntactBut
<1>. QED BY <1>1, <1>2, StartsAre, StartsGoUp DEF IsModern, IsProgram, ModernRead

(* An entry read at its place, by entries() or by section_entries().       *)
LEMMA ModernEntryRead ==
  ASSUME ModernState, NEW k \in 1 .. Len(program.entries),
         NEW o \in Int, o = BlockStarts(program)[3] + 28 * (k - 1)
  PROVE  /\ entry_size = 28 /\ o + 28 <= header.len
         /\ EntryAt(o) = program.entries[k]
<1> DEFINE s == BlockStarts(program)
           e == program.entries[k]
           i == EntryItem(e)
           n == Len(program.entries)
<1>1. /\ HoldsItems(header.word, s[3], 28, n, EntryItems(program))
      /\ s[3] \in Int /\ s[8] \in Int /\ s[4] = s[3] + 28 * n /\ s[4] <= s[8] /\ header.len = s[8]
      /\ program.entries \in Seq(EntryFields) /\ is_v1 = FALSE
  <2>1. HoldsItems(header.word, s[3], 28, n, EntryItems(program))
    BY ModernLayout DEF HoldsTables
  <2>2. s[4] = s[3] + 28 * n
    BY ModernLayout DEF StartsInOrder
  <2>3. s[3] \in Int /\ s[8] \in Int /\ s[4] <= s[8]
    <3>1. StartsAscend(s)
      BY ModernLayout
    <3> HIDE DEF s
    <3>. QED BY <3>1 DEF StartsAscend
  <2>4. program.entries \in Seq(EntryFields) /\ header.len = s[8] /\ is_v1 = FALSE
    BY ModernLayout DEF HasTables
  <2>. QED BY <2>1, <2>2, <2>3, <2>4
<1>2. n \in Nat /\ e \in EntryFields
  BY <1>1
<1>3. entry_size = 28
  BY <1>1 DEF entry_size
<1>4. EntryItems(program)[k] = i
  BY <1>1 DEF EntryItems
<1>5. DOMAIN i = {4 * (j - 1) : j \in 1 .. 7} /\ i[0] = e.which /\ \A j \in 1 .. 6 : i[4 * j] = e.offsets[j]
  BY <1>2, EntryItemIs
<1> HIDE DEF s, i, n
<1>6. ASSUME NEW w \in DOMAIN i PROVE read_i32_le(o + w, o + 28) = i[w]
  <2>1. w \in Int /\ w + 4 <= 28
    BY <1>5
  <2>2. o = s[3] + 28 * (k - 1)
    BY DEF s
  <2>3. k \in 1 .. n /\ 28 \in Nat
    BY DEF n
  <2>4. RowsRead(s[3], 28, n, EntryItems(program))
    BY <1>1, <1>2, <2>3, RowRead
  <2>. QED BY <1>4, <2>1, <2>2, <2>3, <2>4 DEF RowsRead
<1>7. o + 28 <= header.len
  <2>1. s[3] + 28 * n <= s[8] /\ k \in 1 .. n /\ 28 \in Nat
    BY <1>1 DEF n
  <2>2. s[3] + 28 * (k - 1) + 28 <= s[8]
    BY <1>1, <1>2, <2>1, RowFits, Zenon
  <2>. QED BY <1>1, <2>2 DEF s
<1>8. read_i32_le(o, o + 28) = e.which
  <2>1. 0 \in DOMAIN i /\ o + 0 = o
    BY <1>5
  <2>. QED BY <1>5, <1>6, <2>1
<1>9. ASSUME NEW j \in 1 .. 6 PROVE read_i32_le(o + 4 * j, o + 28) = e.offsets[j]
  <2>1. 4 * j \in DOMAIN i
    <3>1. j + 1 \in 1 .. 7 /\ 4 * j = 4 * ((j + 1) - 1)
      OBVIOUS
    <3>. QED BY <1>5, <3>1
  <2>. QED BY <1>5, <1>6, <2>1
<1>10. EntryAt(o) = [which |-> e.which, offsets |-> [j \in 1 .. 6 |-> e.offsets[j]]]
  BY <1>3, <1>8, <1>9 DEF EntryAt
<1>11. e = [which |-> e.which, offsets |-> [j \in 1 .. 6 |-> e.offsets[j]]]
  BY <1>2 DEF EntryFields
<1>. QED BY <1>3, <1>7, <1>10, <1>11

(* Each table of a modern file is read as compiled, unless it is suspect.  *)
LEMMA ModernEntriesLie ==
  ASSUME ModernState, damage.block # "Entries"
  PROVE  TableLies("Entries")
<1> DEFINE n == Len(program.entries)
           b == blocks["Entries"]
<1>1. Blocks[3] = "Entries"
  BY BlocksAre
<1>2. BlockCounts(program)[3] = n
  BY DEF BlockCounts
<1>3. /\ b[1] \in Int /\ b[2] = n /\ n \in Nat /\ (n > 0 => b[1] = BlockStarts(program)[3])
  <2>1. 3 \in 1 .. 7 /\ Blocks[3] # damage.block
    BY <1>1
  <2>. QED BY <1>1, <1>2, <2>1, ModernDescribes
<1>4. Compiled("Entries") = program.entries
  BY DEF Compiled
<1>5. stride("Entries") = 28 /\ needed("Entries") = 28
  BY ModernLayout DEF stride, needed, entry_size
<1> HIDE DEF n, b
<1>6. Or0(b[2]) = n
  BY <1>3 DEF Or0
<1>7. ASSUME NEW k \in 1 .. n
      PROVE  Parsed("Entries", b[1] + 28 * (k - 1)) = [kind |-> "Entries", of |-> program.entries[k]]
  <2> DEFINE o == b[1] + 28 * (k - 1)
  <2>1. o \in Int /\ o = BlockStarts(program)[3] + 28 * (k - 1)
    BY <1>3
  <2> HIDE DEF o
  <2>2. o + 28 <= header.len /\ EntryAt(o) = program.entries[k]
    BY <2>1, ModernEntryRead DEF n
  <2>3. header.len \in Int
    BY ModernLayout DEF StartsAscend
  <2>4. ~(o + needed("Entries") > header.len)
    BY <1>5, <2>1, <2>2, <2>3
  <2>. QED BY <2>2, <2>4 DEF Parsed, o
<1>. QED BY <1>3, <1>4, <1>5, <1>6, <1>7 DEF TableLies, n, b

LEMMA ModernPagesLie ==
  ASSUME ModernState, damage.block # "Pages"
  PROVE  TableLies("Pages")
<1> DEFINE n == Len(program.pages)
           b == blocks["Pages"]
           s == BlockStarts(program)
<1>1. Blocks[1] = "Pages"
  BY BlocksAre
<1>2. BlockCounts(program)[1] = n
  BY DEF BlockCounts
<1>3. /\ b[1] \in Int /\ b[2] = n /\ n \in Nat /\ (n > 0 => b[1] = s[1])
  <2>1. 1 \in 1 .. 7 /\ Blocks[1] # damage.block
    BY <1>1
  <2>. QED BY <1>1, <1>2, <2>1, ModernDescribes
<1>4. Compiled("Pages") = program.pages
  BY DEF Compiled
<1>5. stride("Pages") = 64 /\ needed("Pages") = 64
  BY DEF stride, needed
<1>6. /\ HoldsItems(header.word, s[1], 64, n, PageItems(program))
      /\ s[1] \in Int /\ s[8] \in Int /\ s[1] + 64 * n <= s[8] /\ header.len = s[8]
      /\ program.pages \in Seq(PageFields)
  <2>1. HoldsItems(header.word, s[1], 64, n, PageItems(program))
    BY ModernLayout DEF HoldsTables
  <2>2. s[2] = s[1] + 64 * n
    BY ModernLayout DEF StartsInOrder
  <2>3. s[1] \in Int /\ s[8] \in Int /\ s[2] <= s[8]
    <3>1. StartsAscend(s)
      BY ModernLayout
    <3> HIDE DEF s
    <3>. QED BY <3>1 DEF StartsAscend
  <2>4. program.pages \in Seq(PageFields) /\ header.len = s[8]
    BY ModernLayout DEF HasTables
  <2>. QED BY <2>1, <2>2, <2>3, <2>4
<1> HIDE DEF b, s
<1>7. RowsRead(s[1], 64, n, PageItems(program))
  <2>1. 64 \in Nat
    OBVIOUS
  <2> HIDE DEF n
  <2>. QED BY <1>3, <1>6, <2>1, RowRead
<1>8. ASSUME NEW k \in 1 .. n
      PROVE  Parsed("Pages", b[1] + 64 * (k - 1)) = [kind |-> "Pages", of |-> program.pages[k]]
  <2> DEFINE o == b[1] + 64 * (k - 1)
             p == program.pages[k]
             i == PageItem(p)
  <2>1. o \in Int /\ o = s[1] + 64 * (k - 1)
    BY <1>3
  <2>2. p \in PageFields /\ PageItems(program)[k] = i
    BY <1>6 DEF PageItems
  <2>3. /\ DOMAIN i = {4 * (j - 1) : j \in 1 .. 16}
        /\ i[0] = p.dlg_id /\ i[4] = p.wndproc_id /\ i[8] = p.prefunc
        /\ i[12] = p.showfunc /\ i[16] = p.leavefunc /\ i[20] = p.flags
        /\ i[24] = p.caption /\ i[28] = p.back /\ i[32] = p.next
        /\ i[36] = p.clicknext /\ i[40] = p.cancel
        /\ \A j \in 1 .. 5 : i[40 + 4 * j] = p.parms[j]
    BY <2>2, PageItemIs
  <2> HIDE DEF i, o
  <2>4. ASSUME NEW j \in 0 .. 15 PROVE read_i32_le(o + 4 * j, o + 64) = i[4 * j]
    <3>1. 4 * j \in DOMAIN i
      <4>1. j + 1 \in 1 .. 16 /\ 4 * j = 4 * ((j + 1) - 1)
        OBVIOUS
      <4>. QED BY <2>3, <4>1
    <3>2. 4 * j \in Int /\ 4 * j + 4 <= 64
      OBVIOUS
    <3> HIDE DEF p
    <3>. QED BY <1>7, <2>1, <2>2, <3>1, <3>2 DEF RowsRead
  <2>5. ~(o + needed("Pages") > header.len)
    <3>1. s[1] + 64 * (k - 1) + 64 <= s[8]
      <4>1. 64 \in Nat
        OBVIOUS
      <4> HIDE DEF n
      <4>. QED BY <1>3, <1>6, <4>1, RowFits, Zenon
    <3>. QED BY <1>5, <1>6, <2>1, <3>1
  <2>6. /\ read_i32_le(o + 4 * 0, o + 64) = p.dlg_id /\ read_i32_le(o + 4 * 1, o + 64) = p.wndproc_id
        /\ read_i32_le(o + 4 * 2, o + 64) = p.prefunc /\ read_i32_le(o + 4 * 3, o + 64) = p.showfunc
        /\ read_i32_le(o + 4 * 4, o + 64) = p.leavefunc /\ read_i32_le(o + 4 * 5, o + 64) = p.flags
        /\ read_i32_le(o + 4 * 6, o + 64) = p.caption /\ read_i32_le(o + 4 * 7, o + 64) = p.back
        /\ read_i32_le(o + 4 * 8, o + 64) = p.next /\ read_i32_le(o + 4 * 9, o + 64) = p.clicknext
        /\ read_i32_le(o + 4 * 10, o + 64) = p.cancel
    <3>1. /\ 4 * 0 = 0 /\ 4 * 1 = 4 /\ 4 * 2 = 8 /\ 4 * 3 = 12 /\ 4 * 4 = 16 /\ 4 * 5 = 20
          /\ 4 * 6 = 24 /\ 4 * 7 = 28 /\ 4 * 8 = 32 /\ 4 * 9 = 36 /\ 4 * 10 = 40
      OBVIOUS
    <3> DEFINE field(j) == read_i32_le(o + 4 * j, o + 64)
    <3>2. \A j \in 0 .. 15 : field(j) = i[4 * j]
      BY <2>4
    <3> HIDE DEF p, field
    <3>3. /\ field(0) = i[0] /\ field(1) = i[4] /\ field(2) = i[8] /\ field(3) = i[12]
          /\ field(4) = i[16] /\ field(5) = i[20] /\ field(6) = i[24] /\ field(7) = i[28]
          /\ field(8) = i[32] /\ field(9) = i[36] /\ field(10) = i[40]
      BY <3>1, <3>2
    <3>4. /\ field(0) = p.dlg_id /\ field(1) = p.wndproc_id /\ field(2) = p.prefunc
          /\ field(3) = p.showfunc /\ field(4) = p.leavefunc /\ field(5) = p.flags
          /\ field(6) = p.caption /\ field(7) = p.back /\ field(8) = p.next
          /\ field(9) = p.clicknext /\ field(10) = p.cancel
      BY <2>3, <3>3
    <3>. QED BY <3>4 DEF field
  <2>7. \A j \in 1 .. 5 : read_i32_le(o + 4 * (10 + j), o + 64) = p.parms[j]
    <3>1. \A j \in 1 .. 5 : 10 + j \in 0 .. 15 /\ 4 * (10 + j) = 40 + 4 * j
      OBVIOUS
    <3> HIDE DEF p
    <3>. QED BY <2>3, <2>4, <3>1
  <2>8. Page(o) =
          [dlg_id |-> p.dlg_id, wndproc_id |-> p.wndproc_id, prefunc |-> p.prefunc,
           showfunc |-> p.showfunc, leavefunc |-> p.leavefunc, flags |-> p.flags,
           caption |-> p.caption, back |-> p.back, next |-> p.next, clicknext |-> p.clicknext,
           cancel |-> p.cancel, parms |-> [j \in 1 .. 5 |-> p.parms[j]]]
    <3> HIDE DEF p
    <3>. QED BY <2>6, <2>7 DEF Page
  <2>9. p = [dlg_id |-> p.dlg_id, wndproc_id |-> p.wndproc_id, prefunc |-> p.prefunc,
             showfunc |-> p.showfunc, leavefunc |-> p.leavefunc, flags |-> p.flags,
             caption |-> p.caption, back |-> p.back, next |-> p.next, clicknext |-> p.clicknext,
             cancel |-> p.cancel, parms |-> [j \in 1 .. 5 |-> p.parms[j]]]
    <3> HIDE DEF p
    <3>. QED BY <2>2 DEF PageFields
  <2>10. Parsed("Pages", o) = [kind |-> "Pages", of |-> Page(o)]
    BY <2>5 DEF Parsed
  <2> HIDE DEF p
  <2>. QED BY <2>8, <2>9, <2>10 DEF o, p
<1>9. Or0(b[2]) = n
  BY <1>3 DEF Or0
<1>. QED BY <1>3, <1>4, <1>5, <1>8, <1>9 DEF TableLies, n, b

LEMMA ModernLangsLie ==
  ASSUME ModernState, damage.block # "LangTables"
  PROVE  TableLies("LangTables")
<1> DEFINE n == Len(program.langs)
           b == blocks["LangTables"]
           s == BlockStarts(program)
           size == LangSize(program)
           count == program.lang_strings
<1>1. Blocks[5] = "LangTables"
  BY BlocksAre
<1>2. BlockCounts(program)[5] = n
  BY DEF BlockCounts
<1>3. /\ b[1] \in Int /\ b[2] = n /\ n \in Nat /\ (n > 0 => b[1] = s[5])
  <2>1. 5 \in 1 .. 7 /\ Blocks[5] # damage.block
    BY <1>1
  <2>. QED BY <1>1, <1>2, <2>1, ModernDescribes
<1>4. Compiled("LangTables") = program.langs
  BY DEF Compiled
<1>5. /\ HoldsItems(header.word, s[5], size, n, LangItems(program))
      /\ s[5] \in Int /\ s[8] \in Int /\ s[5] + size * n <= s[8] /\ header.len = s[8]
      /\ program.langs \in Seq(LangFields(count)) /\ size \in Nat /\ size >= 10
  <2>1. HoldsItems(header.word, s[5], size, n, LangItems(program))
    BY ModernLayout DEF HoldsTables
  <2>2. s[6] = s[5] + size * n
    BY ModernLayout DEF StartsInOrder
  <2>3. s[5] \in Int /\ s[8] \in Int /\ s[6] <= s[8]
    <3>1. StartsAscend(s)
      BY ModernLayout
    <3> HIDE DEF s
    <3>. QED BY <3>1 DEF StartsAscend
  <2>4. program.langs \in Seq(LangFields(count)) /\ header.len = s[8]
    BY ModernLayout DEF HasTables
  <2>5. size \in Nat /\ size >= 10
    BY ModernLayout
  <2> HIDE DEF size, s
  <2>. QED BY <2>1, <2>2, <2>3, <2>4, <2>5
<1>6. n > 0 => langtable_size = size
  <2>1. langtable_size = IF program.langs = <<>> THEN 0 ELSE size
    BY DEF ModernState, ModernRead
  <2>2. n > 0 => program.langs # <<>>
    BY <1>5
  <2>. QED BY <2>1, <2>2
<1>7. stride("LangTables") \in Int /\ (n > 0 => stride("LangTables") = size /\ needed("LangTables") = size)
  <2>1. langtable_size \in Int
    <3>1. langtable_size = IF program.langs = <<>> THEN 0 ELSE size
      BY DEF ModernState, ModernRead
    <3>. QED BY <1>5, <3>1
  <2> HIDE DEF size
  <2>. QED BY <1>5, <1>6, <2>1 DEF stride, needed, AtLeast, LangMinSize
<1>a. count \in Nat /\ size = 10 + 4 * count
  <2>1. HasSizes(program)
    BY DEF ModernState, IsModern, IsProgram
  <2>. QED BY <2>1 DEF HasSizes, LangSize
<1> HIDE DEF b, s, size, count
<1>8. RowsRead(s[5], size, n, LangItems(program))
  <2> HIDE DEF n
  <2>. QED BY <1>3, <1>5, RowRead
<1>9. ASSUME NEW k \in 1 .. n
      PROVE  Parsed("LangTables", b[1] + stride("LangTables") * (k - 1))
               = [kind |-> "LangTables", of |-> program.langs[k]]
  <2> DEFINE o == b[1] + size * (k - 1)
             t == program.langs[k]
             i == LangItem(t)
  <2>1. o \in Int /\ o = s[5] + size * (k - 1)
    BY <1>3, <1>5
  <2>2. t \in LangFields(count) /\ LangItems(program)[k] = i
    BY <1>5 DEF LangItems
  <2>3. /\ {0, 2, 6} \subseteq DOMAIN i
        /\ i[0] = t.lang_id /\ i[2] = t.dlg_offset /\ i[6] = (IF t.is_rtl THEN 1 ELSE 0)
        /\ \A j \in 1 .. count : 6 + 4 * j \in DOMAIN i /\ i[6 + 4 * j] = t.strings[j]
    <3> HIDE DEF t
    <3>. QED BY <1>5, <1>a, <2>2, LangItemIs
  <2> HIDE DEF i, o
  <2>4. ASSUME NEW w \in DOMAIN i, w \in Int, w + 4 <= size
        PROVE  read_i32_le(o + w, o + size) = i[w]
    <3> HIDE DEF t
    <3>. QED BY <1>8, <2>1, <2>2, <2>4 DEF RowsRead
  <2>5. ~(o + needed("LangTables") > header.len)
    <3>1. s[5] + size * (k - 1) + size <= s[8]
      <4> HIDE DEF n
      <4>. QED BY <1>3, <1>5, RowFits, Zenon
    <3>. QED BY <1>5, <1>7, <2>1, <3>1
  <2>6. /\ read_i32_le(o, o + size) = t.lang_id /\ read_i32_le(o + 2, o + size) = t.dlg_offset
        /\ (read_i32_le(o + 6, o + size) # 0 <=> t.is_rtl)
    <3>1. o + 0 = o /\ 0 + 4 <= size /\ 2 + 4 <= size /\ 6 + 4 <= size
      BY <1>5, <2>1
    <3> HIDE DEF t
    <3>. QED BY <2>3, <2>4, <3>1
  <2>7. ASSUME NEW j \in 1 .. count PROVE read_i32_le(o + 6 + 4 * j, o + size) = t.strings[j]
    <3>1. 6 + 4 * j \in Int /\ (6 + 4 * j) + 4 <= size /\ o + 6 + 4 * j = o + (6 + 4 * j)
      BY <1>a, <2>1
    <3> HIDE DEF t
    <3>. QED BY <2>3, <2>4, <3>1
  <2>8. (size - LangMinSize) \div 4 = count
    BY <1>a DEF LangMinSize
  <2>a. t.is_rtl \in BOOLEAN
    BY <2>2 DEF LangFields
  <2>b. (read_i32_le(o + 6, o + size) # 0) = t.is_rtl
    BY <2>6, <2>a
  <2>9. LangTable(o, size) =
          [lang_id |-> t.lang_id, dlg_offset |-> t.dlg_offset, is_rtl |-> t.is_rtl,
           strings |-> [j \in 1 .. count |-> t.strings[j]]]
    <3>1. [j \in 1 .. count |-> read_i32_le(o + 6 + 4 * j, o + size)] = [j \in 1 .. count |-> t.strings[j]]
      BY <2>7
    <3> HIDE DEF t
    <3>. QED BY <2>6, <2>8, <2>b, <3>1, Zenon DEF LangTable
  <2>10. t = [lang_id |-> t.lang_id, dlg_offset |-> t.dlg_offset, is_rtl |-> t.is_rtl,
              strings |-> [j \in 1 .. count |-> t.strings[j]]]
    <3> HIDE DEF t
    <3>. QED BY <2>2 DEF LangFields
  <2>11. Parsed("LangTables", o) = [kind |-> "LangTables", of |-> LangTable(o, size)]
    BY <1>7, <2>5 DEF Parsed
  <2>12. stride("LangTables") = size
    BY <1>7
  <2> HIDE DEF t
  <2>. QED BY <2>9, <2>10, <2>11, <2>12 DEF o, t
<1>10. Or0(b[2]) = n
  BY <1>3 DEF Or0
<1>. QED BY <1>3, <1>4, <1>7, <1>9, <1>10 DEF TableLies, n, b

(* A gap shared out among what fills it.                                   *)
LEMMA Shares ==
  ASSUME NEW a \in Nat, NEW n \in Nat, n > 0
  PROVE  (a * n) \div n = a /\ a * n \in Nat /\ a * n >= a
<1>1. (a * n) \div n = a
  OBVIOUS
<1>2. a * n \in Nat /\ a * n >= a
  OBVIOUS
<1>. QED BY <1>1, <1>2

(* The size of a section is what the gap to the entries says.              *)
LEMMA ModernSectionsLie ==
  ASSUME ModernState, damage.block # "Sections", damage.block # "Entries"
  PROVE  TableLies("Sections")
<1> DEFINE n == Len(program.sections)
           b == blocks["Sections"]
           s == BlockStarts(program)
           size == SectionSize(program)
           names == program.name_size
<1>1. Blocks[2] = "Sections" /\ Blocks[3] = "Entries"
  BY BlocksAre
<1>2. BlockCounts(program)[2] = n /\ BlockCounts(program)[3] = Len(program.entries)
  BY DEF BlockCounts
<1>3. /\ b[1] \in Int /\ b[2] = n /\ n \in Nat /\ (n > 0 => b[1] = s[2])
  <2>1. 2 \in 1 .. 7 /\ Blocks[2] # damage.block
    BY <1>1
  <2>. QED BY <1>1, <1>2, <2>1, ModernDescribes
<1>a. /\ blocks["Entries"][1] \in Int
      /\ (Len(program.entries) > 0 => blocks["Entries"][1] = s[3])
  <2>1. 3 \in 1 .. 7 /\ Blocks[3] # damage.block
    BY <1>1
  <2>. QED BY <1>1, <1>2, <2>1, ModernDescribes
<1>4. Compiled("Sections") = program.sections
  BY DEF Compiled
<1>5. /\ HoldsItems(header.word, s[2], size, n, SectionItems(program))
      /\ s[2] \in Int /\ s[3] \in Int /\ s[8] \in Int /\ s[3] = s[2] + size * n /\ s[3] <= s[8]
      /\ header.len = s[8]
      /\ program.sections \in Seq(SectionFields) /\ size \in Nat /\ size >= 24
      /\ is_v1 = FALSE /\ program.entries \in Seq(EntryFields)
  <2>1. HoldsItems(header.word, s[2], size, n, SectionItems(program))
    BY ModernLayout DEF HoldsTables
  <2>2. s[3] = s[2] + size * n
    BY ModernLayout DEF StartsInOrder
  <2>3. s[2] \in Int /\ s[3] \in Int /\ s[8] \in Int /\ s[3] <= s[8]
    <3>1. StartsAscend(s)
      BY ModernLayout
    <3> HIDE DEF s
    <3>. QED BY <3>1 DEF StartsAscend
  <2>4. program.sections \in Seq(SectionFields) /\ header.len = s[8] /\ is_v1 = FALSE
          /\ program.entries \in Seq(EntryFields)
    BY ModernLayout DEF HasTables
  <2>5. size \in Nat /\ size >= 24
    BY ModernLayout
  <2> HIDE DEF size, s
  <2>. QED BY <2>1, <2>2, <2>3, <2>4, <2>5
<1>b. names \in Nat /\ names % 4 = 0 /\ size = 24 + names
      /\ (names = 0 => \A k \in DOMAIN program.sections : program.sections[k].inline_name = 0)
  <2>1. HasSizes(program) /\ NamesFit(program)
    BY DEF ModernState, IsModern, IsProgram
  <2>. QED BY <2>1 DEF HasSizes, NamesFit, SectionSize
<1>6. n > 0 => blocks["Entries"][1] = s[3]
  <2>1. SectionsHaveCode(program)
    BY DEF ModernState, IsModern, IsProgram
  <2>2. n > 0 => program.sections # <<>>
    BY <1>5
  <2>3. n > 0 => program.entries # <<>>
    BY <2>1, <2>2 DEF SectionsHaveCode
  <2>4. program.entries # <<>> => Len(program.entries) > 0
    BY <1>5
  <2>. QED BY <1>a, <2>3, <2>4
<1>7. section_size \in Int /\ (n > 0 => section_size = size)
  <2>1. section_size = measured_size
    BY DEF ModernState
  <2> DEFINE gap == blocks["Entries"][1] - b[1]
  <2>2. gap \in Int /\ (n > 0 => gap = size * n)
    <3>1. size * n \in Int
      BY <1>3, <1>5
    <3> DEFINE x == size * n
    <3>2. x \in Int /\ s[3] = s[2] + x
      BY <1>5, <3>1
    <3> HIDE DEF b, s, size, n, x
    <3>3. n > 0 => blocks["Entries"][1] - b[1] = x
      BY <1>3, <1>5, <1>6, <3>2
    <3>. QED BY <1>3, <1>a, <3>3 DEF x
  <2>3. measured_size = IF gap > 0 /\ b[2] > 0 THEN gap \div b[2] ELSE SectionBaseSize
    BY DEF measured_size
  <2> HIDE DEF b, s, size, n, gap
  <2>4. n > 0 => gap > 0 /\ gap \div n = size
    BY <1>3, <1>5, <2>2, Shares
  <2>5. CASE n > 0
    BY <1>3, <1>5, <2>1, <2>3, <2>4, <2>5
  <2>6. CASE ~(n > 0)
    <3>1. measured_size = SectionBaseSize
      BY <1>3, <2>3, <2>6
    <3>. QED BY <2>1, <2>6, <3>1 DEF SectionBaseSize
  <2>. QED BY <2>5, <2>6
<1>8. stride("Sections") = section_size /\ (n > 0 => stride("Sections") = size /\ needed("Sections") = size)
  <2> HIDE DEF size
  <2>. QED BY <1>5, <1>7 DEF stride, needed, AtLeast, SectionBaseSize
<1> HIDE DEF b, s, size, names
<1>9. RowsRead(s[2], size, n, SectionItems(program))
  <2> HIDE DEF n
  <2>. QED BY <1>3, <1>5, RowRead
<1>10. ASSUME NEW k \in 1 .. n
      PROVE  Parsed("Sections", b[1] + stride("Sections") * (k - 1))
               = [kind |-> "Sections", of |-> program.sections[k]]
  <2> DEFINE o == b[1] + size * (k - 1)
             t == program.sections[k]
             i == SectionItem(t, names)
  <2>1. o \in Int /\ o = s[2] + size * (k - 1)
    BY <1>3, <1>5
  <2>2. t \in SectionFields /\ SectionItems(program)[k] = i /\ k \in DOMAIN program.sections
    BY <1>5 DEF SectionItems, names
  <2>3. /\ {0, 4, 8, 12, 16, 20} \subseteq DOMAIN i
        /\ i[0] = t.name_ptr /\ i[4] = t.install_types /\ i[8] = t.flags
        /\ i[12] = t.code /\ i[16] = t.code_size /\ i[20] = t.size_kb
        /\ names # 0 => 24 \in DOMAIN i /\ i[24] = t.inline_name
    <3> HIDE DEF t
    <3>1. size \in Int
      BY <1>5
    <3>. QED BY <1>b, <3>1, SectionItemIs, Zenon DEF i
  <2> HIDE DEF i, o
  <2>4. ASSUME NEW w \in DOMAIN i, w \in Int, w + 4 <= size
        PROVE  read_i32_le(o + w, o + size) = i[w]
    <3> HIDE DEF t
    <3>. QED BY <1>9, <2>1, <2>2, <2>4 DEF RowsRead
  <2>5. ~(o + needed("Sections") > header.len)
    <3>1. s[2] + size * (k - 1) + size <= s[8]
      <4>1. s[2] + size * n <= s[8]
        BY <1>5
      <4> HIDE DEF n
      <4>. QED BY <1>3, <1>5, <4>1, RowFits, Zenon
    <3>. QED BY <1>5, <1>8, <2>1, <3>1
  <2>6. /\ read_i32_le(o + 4 * 0, o + size) = t.name_ptr
        /\ read_i32_le(o + 4 * 1, o + size) = t.install_types
        /\ read_i32_le(o + 4 * 2, o + size) = t.flags /\ read_i32_le(o + 4 * 3, o + size) = t.code
        /\ read_i32_le(o + 4 * 4, o + size) = t.code_size
        /\ read_i32_le(o + 4 * 5, o + size) = t.size_kb
    <3>1. /\ 4 * 0 = 0 /\ 4 * 1 = 4 /\ 4 * 2 = 8 /\ 4 * 3 = 12 /\ 4 * 4 = 16 /\ 4 * 5 = 20
          /\ 0 + 4 <= size /\ 4 + 4 <= size /\ 8 + 4 <= size /\ 12 + 4 <= size
          /\ 16 + 4 <= size /\ 20 + 4 <= size
      BY <1>5
    <3> HIDE DEF t
    <3>. QED BY <2>3, <2>4, <3>1
  <2>7. (IF size <= SectionBaseSize THEN 0 ELSE read_i32_le(o + 4 * 6, o + size)) = t.inline_name
    <3>1. CASE names = 0
      <4>1. size <= SectionBaseSize
        BY <1>b, <3>1 DEF SectionBaseSize
      <4>2. t.inline_name = 0
        BY <1>b, <2>2, <3>1
      <4>. QED BY <4>1, <4>2
    <3>2. CASE names # 0
      <4>1. ~(size <= SectionBaseSize) /\ 24 + 4 <= size /\ 4 * 6 = 24
        BY <1>b, <3>2 DEF SectionBaseSize
      <4> HIDE DEF t
      <4>2. read_i32_le(o + 24, o + size) = t.inline_name
        BY <2>3, <2>4, <3>2, <4>1
      <4>. QED BY <4>1, <4>2
    <3>. QED BY <3>1, <3>2
  <2>8. ModernSection(o, size) =
          [name_ptr |-> t.name_ptr, install_types |-> t.install_types, flags |-> t.flags,
           code |-> t.code, code_size |-> t.code_size, size_kb |-> t.size_kb,
           inline_name |-> t.inline_name]
    <3> HIDE DEF t
    <3>. QED BY <2>6, <2>7 DEF ModernSection
  <2>9. t = [name_ptr |-> t.name_ptr, install_types |-> t.install_types, flags |-> t.flags,
             code |-> t.code, code_size |-> t.code_size, size_kb |-> t.size_kb,
             inline_name |-> t.inline_name]
    <3> HIDE DEF t
    <3>. QED BY <2>2 DEF SectionFields
  <2>10. Parsed("Sections", o) = [kind |-> "Sections", of |-> ModernSection(o, size)]
    BY <1>5, <1>8, <2>5 DEF Parsed
  <2>11. stride("Sections") = size
    BY <1>8
  <2> HIDE DEF t
  <2>. QED BY <2>8, <2>9, <2>10, <2>11 DEF o, t
<1>11. Or0(b[2]) = n
  BY <1>3 DEF Or0
<1>. QED BY <1>3, <1>4, <1>7, <1>8, <1>10, <1>11 DEF TableLies, n, b

-----------------------------------------------------------------------------
(* The struct of NSIS 1.x, and its fields.                                 *)

(* The tables of NSIS 1.x.                                                 *)
LegacySectionItems(p) == [k \in DOMAIN p.sections |-> LegacySectionItem(p.sections[k])]
LegacyEntryItems(p)   == [k \in DOMAIN p.entries |-> LegacyEntryItem(p.entries[k])]

(* What a header block of 1.x holds, and where.                            *)
LegacyWords(f, p) ==
  /\ IsField(f, 52, Len(p.entries))
  /\ IsField(f, 76, p.callbacks[1]) /\ IsField(f, 80, p.callbacks[2])
  /\ IsField(f, 84, p.callbacks[3]) /\ IsField(f, 88, p.callbacks[4])
  /\ p.kind = "Installer" =>
       /\ IsField(f, 160, p.strings.install_reg_rootkey)
       /\ IsField(f, 164, p.strings.install_reg_key)
       /\ IsField(f, 168, p.strings.install_reg_value)
       /\ IsField(f, 204, p.strings.install_dir)
       /\ IsField(f, 224, Len(p.sections))
       /\ IsField(f, 232, p.callbacks[8]) /\ IsField(f, 236, p.callbacks[9])

(* Its tables, without a descriptor.                                       *)
LegacyTables(f, p) ==
  /\ HoldsItems(f, LegacySize(p), 20, Len(p.sections), LegacySectionItems(p))
  /\ HoldsItems(f, LegacyEntries(p), 24, Len(p.entries), LegacyEntryItems(p))

(* A word at o, in words from base on.                                     *)
LEMMA WordField ==
  ASSUME NEW f, NEW base, NEW n, NEW seq, AreWords(f, base, n, seq),
         NEW k \in 1 .. n, NEW o, o = base + 4 * (k - 1)
  PROVE  IsField(f, o, seq[k])
BY DEF AreWords, IsField

(* A field is seen through what does not reach it.                         *)
LEMMA FieldOver ==
  ASSUME NEW f, NEW g, NEW o, NEW v, IsField(f, o, v)
  PROVE  IsField(Over(f, g), o, v)
BY DEF IsField, Over

LEMMA FieldUnder ==
  ASSUME NEW f, NEW g, NEW a, NEW b, Within(f, a, b), NEW o \in Int, NEW v, IsField(g, o, v),
         ~(a <= o /\ o < b)
  PROVE  IsField(Over(f, g), o, v)
BY DEF IsField, Over, Within

LEMMA WithinOver ==
  ASSUME NEW f, NEW g, NEW a, NEW b, Within(f, a, b), Within(g, a, b)
  PROVE  Within(Over(f, g), a, b)
BY DEF Within, Over

LEMMA WithinWider ==
  ASSUME NEW f, NEW a \in Int, NEW b \in Int, Within(f, a, b), NEW c \in Int, NEW d \in Int,
         c <= a, b <= d
  PROVE  Within(f, c, d)
BY DEF Within

LEMMA WordsOne ==
  ASSUME NEW base \in Int, NEW seq, NEW n \in Nat, DOMAIN seq = 1 .. n, NEW end \in Int,
         end = base + 4 * n
  PROVE  AreWords(Words(base, seq), base, n, seq) /\ Within(Words(base, seq), base, end)
<1>1. AreWords(Words(base, seq), base, n, seq)
  BY WordsAt
<1> DEFINE f == Words(base, seq)
<1> HIDE DEF f
<1>2. Within(f, base, end)
  BY <1>1, WordsWithin DEF f
<1>. QED BY <1>1, <1>2 DEF f

(* The fields of each struct.                                              *)
LEMMA LegacyFieldsAre ==
  ASSUME NEW p
  PROVE  LET f == LegacyFields(p)
         IN /\ Within(f, 52, 96)
            /\ IsField(f, 52, Len(p.entries))
            /\ IsField(f, 76, p.callbacks[1]) /\ IsField(f, 80, p.callbacks[2])
            /\ IsField(f, 84, p.callbacks[3]) /\ IsField(f, 88, p.callbacks[4])
<1> DEFINE s1 == <<Len(p.entries)>>
           s2 == <<p.callbacks[1], p.callbacks[2], p.callbacks[3], p.callbacks[4], -1>>
           f1 == Words(52, s1)
           f2 == Words(76, s2)
<1>1. LegacyFields(p) = Over(f1, f2)
  BY DEF LegacyFields
<1>2. DOMAIN s1 = 1 .. 1 /\ DOMAIN s2 = 1 .. 5 /\ s1[1] = Len(p.entries)
      /\ s2[1] = p.callbacks[1] /\ s2[2] = p.callbacks[2] /\ s2[3] = p.callbacks[3]
      /\ s2[4] = p.callbacks[4]
  OBVIOUS
<1> HIDE DEF s1, s2
<1>3. AreWords(f1, 52, 1, s1) /\ Within(f1, 52, 56)
  <2>1. 52 \in Int /\ 1 \in Nat /\ 56 \in Int /\ 56 = 52 + 4 * 1
    OBVIOUS
  <2>. QED BY <1>2, <2>1, WordsOne, Zenon
<1>4. AreWords(f2, 76, 5, s2) /\ Within(f2, 76, 96)
  <2>1. 76 \in Int /\ 5 \in Nat /\ 96 \in Int /\ 96 = 76 + 4 * 5
    OBVIOUS
  <2>. QED BY <1>2, <2>1, WordsOne, Zenon
<1> HIDE DEF f1, f2
<1>5. Within(f1, 52, 96) /\ Within(f2, 52, 96)
  <2>1. 52 \in Int /\ 56 \in Int /\ 76 \in Int /\ 96 \in Int /\ 52 <= 52 /\ 56 <= 96 /\ 52 <= 76
        /\ 96 <= 96
    OBVIOUS
  <2>2. Within(f1, 52, 96)
    BY <1>3, <2>1, WithinWider, Zenon
  <2>3. Within(f2, 52, 96)
    BY <1>4, <2>1, WithinWider, Zenon
  <2>. QED BY <2>2, <2>3
<1>6. Within(LegacyFields(p), 52, 96)
  BY <1>1, <1>5, WithinOver
<1>7. IsField(f1, 52, s1[1])
  BY <1>3 DEF AreWords, IsField
<1>8. IsField(f2, 76, s2[1]) /\ IsField(f2, 80, s2[2]) /\ IsField(f2, 84, s2[3]) /\ IsField(f2, 88, s2[4])
  BY <1>4 DEF AreWords, IsField
<1>9. IsField(LegacyFields(p), 52, s1[1])
  BY <1>1, <1>7, FieldOver
<1>10. \A o \in Int : \A v : o >= 56 /\ IsField(f2, o, v) => IsField(LegacyFields(p), o, v)
  <2>1. \A o \in Int : o >= 56 => ~(52 <= o /\ o < 56)
    OBVIOUS
  <2>. QED BY <1>1, <1>3, <2>1, FieldUnder, Zenon
<1>11. 76 >= 56 /\ 80 >= 56 /\ 84 >= 56 /\ 88 >= 56
  OBVIOUS
<1>12. /\ IsField(LegacyFields(p), 76, s2[1]) /\ IsField(LegacyFields(p), 80, s2[2])
       /\ IsField(LegacyFields(p), 84, s2[3]) /\ IsField(LegacyFields(p), 88, s2[4])
  BY <1>8, <1>10, <1>11
<1>. QED BY <1>2, <1>6, <1>9, <1>12

LEMMA InstallerFieldsAre ==
  ASSUME NEW p
  PROVE  LET f == InstallerFields(p)
         IN /\ Within(f, 160, 240)
            /\ IsField(f, 160, p.strings.install_reg_rootkey)
            /\ IsField(f, 164, p.strings.install_reg_key)
            /\ IsField(f, 168, p.strings.install_reg_value)
            /\ IsField(f, 204, p.strings.install_dir)
            /\ IsField(f, 224, Len(p.sections))
            /\ IsField(f, 232, p.callbacks[8]) /\ IsField(f, 236, p.callbacks[9])
<1> DEFINE s1 == <<p.strings.install_reg_rootkey, p.strings.install_reg_key,
                   p.strings.install_reg_value>>
           s2 == <<p.strings.install_dir, -1>>
           s3 == <<Len(p.sections)>>
           s4 == <<-1, p.callbacks[8], p.callbacks[9]>>
           f1 == Words(160, s1)
           f2 == Words(204, s2)
           f3 == Words(224, s3)
           f4 == Words(228, s4)
           c3 == Over(f3, f4)
           c2 == Over(f2, c3)
           c1 == Over(f1, c2)
<1>1. InstallerFields(p) = c1
  BY DEF InstallerFields
<1>2. /\ DOMAIN s1 = 1 .. 3 /\ DOMAIN s2 = 1 .. 2 /\ DOMAIN s3 = 1 .. 1 /\ DOMAIN s4 = 1 .. 3
      /\ s1[1] = p.strings.install_reg_rootkey /\ s1[2] = p.strings.install_reg_key
      /\ s1[3] = p.strings.install_reg_value /\ s2[1] = p.strings.install_dir
      /\ s3[1] = Len(p.sections) /\ s4[2] = p.callbacks[8] /\ s4[3] = p.callbacks[9]
  OBVIOUS
<1> HIDE DEF s1, s2, s3, s4
<1>3. AreWords(f1, 160, 3, s1) /\ Within(f1, 160, 172)
  <2> DEFINE n == 3
  <2>1. n \in Nat /\ DOMAIN s1 = 1 .. n /\ 172 = 160 + 4 * n
    BY <1>2
  <2> HIDE DEF n
  <2>2. AreWords(f1, 160, n, s1) /\ Within(f1, 160, 172)
    BY <2>1, WordsOne
  <2>. QED BY <2>2 DEF n
<1>4. AreWords(f2, 204, 2, s2) /\ Within(f2, 204, 212)
  <2> DEFINE n == 2
  <2>1. n \in Nat /\ DOMAIN s2 = 1 .. n /\ 212 = 204 + 4 * n
    BY <1>2
  <2> HIDE DEF n
  <2>2. AreWords(f2, 204, n, s2) /\ Within(f2, 204, 212)
    BY <2>1, WordsOne
  <2>. QED BY <2>2 DEF n
<1>5. AreWords(f3, 224, 1, s3) /\ Within(f3, 224, 228)
  <2> DEFINE n == 1
  <2>1. n \in Nat /\ DOMAIN s3 = 1 .. n /\ 228 = 224 + 4 * n
    BY <1>2
  <2> HIDE DEF n
  <2>2. AreWords(f3, 224, n, s3) /\ Within(f3, 224, 228)
    BY <2>1, WordsOne
  <2>. QED BY <2>2 DEF n
<1>6. AreWords(f4, 228, 3, s4) /\ Within(f4, 228, 240)
  <2> DEFINE n == 3
  <2>1. n \in Nat /\ DOMAIN s4 = 1 .. n /\ 240 = 228 + 4 * n
    BY <1>2
  <2> HIDE DEF n
  <2>2. AreWords(f4, 228, n, s4) /\ Within(f4, 228, 240)
    BY <2>1, WordsOne
  <2>. QED BY <2>2 DEF n
<1> HIDE DEF f1, f2, f3, f4
<1>7. Within(f1, 160, 240) /\ Within(f2, 160, 240) /\ Within(f3, 160, 240) /\ Within(f4, 160, 240)
  <2>1. /\ 160 \in Int /\ 172 \in Int /\ 204 \in Int /\ 212 \in Int /\ 224 \in Int /\ 228 \in Int
        /\ 240 \in Int /\ 160 <= 160 /\ 160 <= 204 /\ 160 <= 224 /\ 160 <= 228
        /\ 172 <= 240 /\ 212 <= 240 /\ 228 <= 240 /\ 240 <= 240
    OBVIOUS
  <2>. QED BY <1>3, <1>4, <1>5, <1>6, <2>1, WithinWider
<1>8. Within(c1, 160, 240)
  <2>1. Within(c3, 160, 240)
    BY <1>7, WithinOver
  <2>2. Within(c2, 160, 240)
    BY <1>7, <2>1, WithinOver
  <2>. QED BY <1>7, <2>2, WithinOver
<1>9. /\ IsField(f1, 160, s1[1]) /\ IsField(f1, 164, s1[2]) /\ IsField(f1, 168, s1[3])
      /\ IsField(f2, 204, s2[1]) /\ IsField(f3, 224, s3[1])
      /\ IsField(f4, 232, s4[2]) /\ IsField(f4, 236, s4[3])
  BY <1>3, <1>4, <1>5, <1>6 DEF AreWords, IsField
<1>10. IsField(c3, 224, s3[1]) /\ IsField(c3, 232, s4[2]) /\ IsField(c3, 236, s4[3])
  <2>1. /\ 232 \in Int /\ 236 \in Int /\ ~(224 <= 232 /\ 232 < 228) /\ ~(224 <= 236 /\ 236 < 228)
    OBVIOUS
  <2>. QED BY <1>5, <1>9, <2>1, FieldOver, FieldUnder, Zenon
<1> HIDE DEF c3
<1>11. /\ IsField(c2, 204, s2[1])
       /\ IsField(c2, 224, s3[1]) /\ IsField(c2, 232, s4[2]) /\ IsField(c2, 236, s4[3])
  <2>1. /\ 224 \in Int /\ 232 \in Int /\ 236 \in Int /\ ~(204 <= 224 /\ 224 < 212)
        /\ ~(204 <= 232 /\ 232 < 212) /\ ~(204 <= 236 /\ 236 < 212)
    OBVIOUS
  <2>2. IsField(c2, 204, s2[1])
    BY <1>9, FieldOver, Zenon
  <2>3. IsField(c2, 224, s3[1])
    BY <1>4, <1>10, <2>1, FieldUnder, Zenon
  <2>4. IsField(c2, 232, s4[2])
    BY <1>4, <1>10, <2>1, FieldUnder, Zenon
  <2>5. IsField(c2, 236, s4[3])
    BY <1>4, <1>10, <2>1, FieldUnder, Zenon
  <2>. QED BY <2>2, <2>3, <2>4, <2>5
<1> HIDE DEF c2
<1>12. /\ IsField(c1, 160, s1[1]) /\ IsField(c1, 164, s1[2]) /\ IsField(c1, 168, s1[3])
       /\ IsField(c1, 204, s2[1])
       /\ IsField(c1, 224, s3[1]) /\ IsField(c1, 232, s4[2]) /\ IsField(c1, 236, s4[3])
  <2>1. \A o \in Int : o >= 172 => ~(160 <= o /\ o < 172)
    OBVIOUS
  <2>2. \A o \in Int : \A v : o >= 172 /\ IsField(c2, o, v) => IsField(c1, o, v)
    BY <1>3, <2>1, FieldUnder, Zenon
  <2>3. 204 >= 172 /\ 224 >= 172 /\ 232 >= 172 /\ 236 >= 172
    OBVIOUS
  <2>4. IsField(c1, 160, s1[1]) /\ IsField(c1, 164, s1[2]) /\ IsField(c1, 168, s1[3])
    BY <1>9, FieldOver
  <2> HIDE DEF c1
  <2>. QED BY <1>11, <2>2, <2>3, <2>4
<1> HIDE DEF c1
<1>. QED BY <1>1, <1>2, <1>8, <1>12

(* The words of a 1.x section.                                             *)
LEMMA LegacySectionItemIs ==
  ASSUME NEW s
  PROVE  LET i == LegacySectionItem(s)
         IN /\ DOMAIN i = {4 * (k - 1) : k \in 1 .. 5}
            /\ i[0] = s.name_ptr /\ i[4] = LegacyState(s) /\ i[8] = s.code
            /\ i[12] = s.code_size /\ i[16] = s.size_kb
<1> DEFINE state == LegacyState(s)
           seq == <<s.name_ptr, state, s.code, s.code_size, s.size_kb>>
           i == LegacySectionItem(s)
<1> HIDE DEF state
<1>1. DOMAIN seq = 1 .. 5
  OBVIOUS
<1>2. i = Words(0, seq)
  BY DEF LegacySectionItem, state
<1>3. \A k \in 1 .. 5 : i[4 * (k - 1)] = seq[k]
  <2> HIDE DEF seq
  <2>. QED BY <1>1, <1>2, ItemAt
<1>4. DOMAIN i = {4 * (k - 1) : k \in 1 .. 5}
  <2> HIDE DEF seq
  <2>. QED BY <1>1, <1>2, ItemAt
<1>5. i[0] = seq[1] /\ i[4] = seq[2] /\ i[8] = seq[3] /\ i[12] = seq[4] /\ i[16] = seq[5]
  <2> HIDE DEF seq, i
  <2>. QED BY <1>3
<1>6. i[0] = s.name_ptr /\ i[4] = state /\ i[8] = s.code /\ i[12] = s.code_size /\ i[16] = s.size_kb
  <2> HIDE DEF i
  <2>. QED BY <1>5
<1>. QED BY <1>4, <1>6 DEF state

(* The items fit the size of their rows.                                   *)
LEMMA LegacySectionsFit ==
  ASSUME NEW p, p.sections \in Seq(SectionFields)
  PROVE  ItemsFit(LegacySectionItems(p), Len(p.sections), 20)
<1>2. ASSUME NEW k \in 1 .. Len(p.sections)
      PROVE  DOMAIN LegacySectionItems(p)[k] \subseteq 0 .. 20 - 1
  <2>1. LegacySectionItems(p)[k] = LegacySectionItem(p.sections[k])
    BY DEF LegacySectionItems
  <2>2. DOMAIN LegacySectionItem(p.sections[k]) = {4 * (j - 1) : j \in 1 .. 5}
    BY LegacySectionItemIs
  <2>. QED BY <2>1, <2>2
<1>3. DOMAIN LegacySectionItems(p) = 1 .. Len(p.sections)
  BY DEF LegacySectionItems
<1>. QED BY <1>2, <1>3 DEF ItemsFit

LEMMA LegacyEntriesFit ==
  ASSUME NEW p, p.entries \in Seq(EntryFields)
  PROVE  ItemsFit(LegacyEntryItems(p), Len(p.entries), 24)
<1>2. ASSUME NEW k \in 1 .. Len(p.entries)
      PROVE  DOMAIN LegacyEntryItems(p)[k] \subseteq 0 .. 24 - 1
  <2>1. p.entries[k] \in EntryFields /\ LegacyEntryItems(p)[k] = LegacyEntryItem(p.entries[k])
    BY DEF LegacyEntryItems
  <2>2. DOMAIN LegacyEntryItem(p.entries[k]) = {4 * (j - 1) : j \in 1 .. 6}
    BY <2>1, LegacyEntryItemIs
  <2>. QED BY <2>1, <2>2
<1>3. DOMAIN LegacyEntryItems(p) = 1 .. Len(p.entries)
  BY DEF LegacyEntryItems
<1>. QED BY <1>2, <1>3 DEF ItemsFit

LEMMA KindFieldsAre ==
  ASSUME NEW p, p.kind \in {"Installer", "Uninstaller"}
  PROVE  LET f == IF p.kind = "Installer" THEN InstallerFields(p) ELSE UninstallerFields(p)
         IN /\ LegacySize(p) \in {240, 120}
            /\ Within(f, 0, LegacySize(p))
            /\ p.kind = "Installer" =>
                 /\ IsField(f, 160, p.strings.install_reg_rootkey)
                 /\ IsField(f, 164, p.strings.install_reg_key)
                 /\ IsField(f, 168, p.strings.install_reg_value)
                 /\ IsField(f, 204, p.strings.install_dir)
                 /\ IsField(f, 224, Len(p.sections))
                 /\ IsField(f, 232, p.callbacks[8]) /\ IsField(f, 236, p.callbacks[9])
<1>1. CASE p.kind = "Installer"
  <2>1. Within(InstallerFields(p), 160, 240)
    BY InstallerFieldsAre
  <2>2. Within(InstallerFields(p), 0, 240)
    BY <2>1, WithinWider
  <2>3. LegacySize(p) = 240
    BY <1>1 DEF LegacySize
  <2>. QED BY <1>1, <2>2, <2>3, InstallerFieldsAre
<1>2. CASE p.kind = "Uninstaller"
  <2> DEFINE seq == <<0, Len(p.entries)>>
             n == 2
  <2>1. n \in Nat /\ DOMAIN seq = 1 .. n /\ 120 = 112 + 4 * n
    OBVIOUS
  <2> HIDE DEF n, seq
  <2>2. Within(Words(112, seq), 112, 120)
    BY <2>1, WordsOne
  <2>3. UninstallerFields(p) = Words(112, seq)
    BY DEF UninstallerFields, seq
  <2>4. Within(UninstallerFields(p), 0, 120)
    BY <2>2, <2>3, WithinWider
  <2>5. LegacySize(p) = 120 /\ p.kind # "Installer"
    BY <1>2 DEF LegacySize
  <2>. QED BY <2>4, <2>5
<1>. QED BY <1>1, <1>2

(* The writer of 1.x puts fields and tables where they are looked for.     *)
LEMMA LegacyBlockIs ==
  ASSUME NEW p, IsLegacy(p)
  PROVE  /\ LegacyBlock(p).len = LegacyEntries(p) + 24 * Len(p.entries) + p.string_bytes
         /\ LegacyWords(LegacyBlock(p).word, p) /\ LegacyTables(LegacyBlock(p).word, p)
<1> DEFINE w == LegacyBlock(p).word
           size == LegacySize(p)
           f1 == LegacyFields(p)
           f2 == IF p.kind = "Installer" THEN InstallerFields(p) ELSE UninstallerFields(p)
           f3 == Filler(p, size \div 4)
           f4 == Laid(size, 20, LegacySectionItems(p))
           f5 == Laid(LegacyEntries(p), 24, LegacyEntryItems(p))
           c4 == Over(f4, f5)
           c3 == Over(f3, c4)
           c2 == Over(f2, c3)
           ns == Len(p.sections)
           ne == Len(p.entries)
<1>1. LegacyBlock(p).len = LegacyEntries(p) + 24 * Len(p.entries) + p.string_bytes
      /\ w = Over(f1, c2)
  BY DEF LegacyBlock, LegacySectionItems, LegacyEntryItems
<1>2. p.kind \in {"Installer", "Uninstaller"} /\ IsProgram(p)
  BY DEF IsLegacy
<1>3. HasTables(p)
  BY <1>2 DEF IsProgram
<1>4. p.sections \in Seq(SectionFields) /\ p.entries \in Seq(EntryFields) /\ ns \in Nat /\ ne \in Nat
  BY <1>3 DEF HasTables
<1>5. size \in {240, 120} /\ Within(f2, 0, size)
  BY <1>2, KindFieldsAre
<1>6. LegacyEntries(p) = size + 20 * ns
  BY DEF LegacyEntries
<1>7. Within(f1, 0, size)
  <2>1. Within(f1, 52, 96)
    BY LegacyFieldsAre
  <2>2. size \in Int /\ 96 <= size
    BY <1>5
  <2> HIDE DEF f1, size
  <2>. QED BY <2>1, <2>2, WithinWider
<1>8. Within(f3, 0, size)
  <2> DEFINE n == size \div 4
             seq == [k \in 1 .. n |-> p.pointers[((k - 1) % Len(p.pointers)) + 1]]
  <2>1. n \in Nat /\ size = 0 + 4 * n /\ size \in Int
    <3> HIDE DEF size
    <3>. QED BY <1>5
  <2>2. DOMAIN seq = 1 .. n
    OBVIOUS
  <2>3. f3 = Words(0, seq)
    BY DEF Filler
  <2> HIDE DEF n, seq, size, f3
  <2>4. Within(Words(0, seq), 0, size)
    BY <2>1, <2>2, 0 \in Int, WordsOne, Zenon
  <2>. QED BY <2>3, <2>4
<1>9. HoldsItems(f4, size, 20, ns, LegacySectionItems(p)) /\ Within(f4, size, LegacyEntries(p))
  <2>1. size \in Int /\ 20 \in Nat
    BY <1>5
  <2>2. /\ HoldsItems(f4, size, 20, ns, LegacySectionItems(p))
        /\ \A o \in DOMAIN f4 : o \in size .. size + 20 * ns - 1
    BY <1>4, <2>1, LegacySectionsFit, LaidAt
  <2> HIDE DEF f4, size, ns
  <2>3. ASSUME NEW o \in DOMAIN f4 PROVE o \in Int /\ size <= o /\ o < LegacyEntries(p)
    <3>1. o \in size .. size + 20 * ns - 1
      BY <2>2
    <3>. QED BY <1>4, <1>6, <2>1, <3>1
  <2>. QED BY <2>2, <2>3 DEF Within
<1>10. HoldsItems(f5, LegacyEntries(p), 24, ne, LegacyEntryItems(p))
  <2>1. LegacyEntries(p) \in Int /\ 24 \in Nat
    BY <1>4, <1>5, <1>6
  <2>. QED BY <1>4, <2>1, LegacyEntriesFit, LaidAt
<1> HIDE DEF f1, f2, f3, f4, f5, w, size, ns, ne
<1>11. size \in Int /\ LegacyEntries(p) \in Int /\ size <= LegacyEntries(p) /\ size >= 0
  BY <1>4, <1>5, <1>6
<1>12. HoldsItems(c4, LegacyEntries(p), 24, ne, LegacyEntryItems(p))
       /\ HoldsItems(c4, size, 20, ns, LegacySectionItems(p))
  <2>1. Beneath(c4, f5, LegacyEntries(p))
    BY <1>9, <1>11, OverBeneath
  <2>2. \A o \in DOMAIN f4 : o \in DOMAIN c4 /\ c4[o] = f4[o]
    BY DEF Over
  <2>3. ItemsFit(LegacyEntryItems(p), ne, 24) /\ 24 \in Nat /\ LegacyEntries(p) >= LegacyEntries(p)
    BY <1>4, <1>11, LegacyEntriesFit DEF ne
  <2> HIDE DEF c4
  <2>4. HoldsItems(c4, LegacyEntries(p), 24, ne, LegacyEntryItems(p))
    BY <1>4, <1>10, <1>11, <2>1, <2>3, ItemsBeneath
  <2>5. HoldsItems(c4, size, 20, ns, LegacySectionItems(p))
    BY <1>9, <2>2, ItemsIn
  <2>. QED BY <2>4, <2>5
<1> HIDE DEF c4
<1>13. ASSUME NEW f, NEW g, Within(f, 0, size),
              HoldsItems(g, LegacyEntries(p), 24, ne, LegacyEntryItems(p)),
              HoldsItems(g, size, 20, ns, LegacySectionItems(p))
       PROVE  /\ HoldsItems(Over(f, g), LegacyEntries(p), 24, ne, LegacyEntryItems(p))
              /\ HoldsItems(Over(f, g), size, 20, ns, LegacySectionItems(p))
  <2>1. Beneath(Over(f, g), g, size)
    BY <1>11, <1>13, OverBeneath
  <2>2. ItemsFit(LegacyEntryItems(p), ne, 24) /\ ItemsFit(LegacySectionItems(p), ns, 20)
        /\ 24 \in Nat /\ 20 \in Nat /\ size >= size /\ LegacyEntries(p) >= size
    BY <1>4, <1>11, LegacyEntriesFit, LegacySectionsFit DEF ne, ns
  <2> DEFINE h == Over(f, g)
  <2> HIDE DEF h
  <2>3. Beneath(h, g, size)
    BY <2>1 DEF h
  <2>4. HoldsItems(h, LegacyEntries(p), 24, ne, LegacyEntryItems(p))
    BY <1>4, <1>11, <1>13, <2>2, <2>3, ItemsBeneath
  <2>5. HoldsItems(h, size, 20, ns, LegacySectionItems(p))
    BY <1>4, <1>11, <1>13, <2>2, <2>3, ItemsBeneath
  <2>. QED BY <2>4, <2>5 DEF h
<1>14. LegacyTables(w, p)
  <2>1. /\ HoldsItems(c3, LegacyEntries(p), 24, ne, LegacyEntryItems(p))
        /\ HoldsItems(c3, size, 20, ns, LegacySectionItems(p))
    BY <1>8, <1>12, <1>13
  <2> HIDE DEF c3
  <2>2. /\ HoldsItems(c2, LegacyEntries(p), 24, ne, LegacyEntryItems(p))
        /\ HoldsItems(c2, size, 20, ns, LegacySectionItems(p))
    BY <1>5, <1>13, <2>1
  <2> HIDE DEF c2
  <2>3. /\ HoldsItems(w, LegacyEntries(p), 24, ne, LegacyEntryItems(p))
        /\ HoldsItems(w, size, 20, ns, LegacySectionItems(p))
    BY <1>1, <1>7, <1>13, <2>2
  <2>. QED BY <2>3 DEF LegacyTables, size, ns, ne
<1>15. LegacyWords(w, p)
  <2>1. /\ IsField(f1, 52, Len(p.entries))
        /\ IsField(f1, 76, p.callbacks[1]) /\ IsField(f1, 80, p.callbacks[2])
        /\ IsField(f1, 84, p.callbacks[3]) /\ IsField(f1, 88, p.callbacks[4])
        /\ Within(f1, 52, 96)
    BY LegacyFieldsAre DEF f1
  <2>2. p.kind = "Installer" =>
          /\ IsField(f2, 160, p.strings.install_reg_rootkey)
          /\ IsField(f2, 164, p.strings.install_reg_key)
          /\ IsField(f2, 168, p.strings.install_reg_value)
          /\ IsField(f2, 204, p.strings.install_dir)
          /\ IsField(f2, 224, Len(p.sections))
          /\ IsField(f2, 232, p.callbacks[8]) /\ IsField(f2, 236, p.callbacks[9])
    BY <1>2, KindFieldsAre DEF f2
  <2>3. \A o, v : IsField(f1, o, v) => IsField(w, o, v)
    BY <1>1, FieldOver
  <2>4. \A o, v : IsField(f2, o, v) => IsField(c2, o, v)
    BY FieldOver
  <2> HIDE DEF c2
  <2>5. \A o \in Int : \A v : o >= 96 /\ IsField(c2, o, v) => IsField(w, o, v)
    <3>1. \A o \in Int : o >= 96 => ~(52 <= o /\ o < 96)
      OBVIOUS
    <3>. QED BY <1>1, <2>1, <3>1, FieldUnder, Zenon
  <2>6. \A o \in Int : \A v : o >= 96 /\ IsField(f2, o, v) => IsField(w, o, v)
    BY <2>4, <2>5
  <2>7. /\ IsField(w, 52, Len(p.entries))
        /\ IsField(w, 76, p.callbacks[1]) /\ IsField(w, 80, p.callbacks[2])
        /\ IsField(w, 84, p.callbacks[3]) /\ IsField(w, 88, p.callbacks[4])
    BY <2>1, <2>3
  <2>8. p.kind = "Installer" =>
          /\ IsField(w, 160, p.strings.install_reg_rootkey)
          /\ IsField(w, 164, p.strings.install_reg_key)
          /\ IsField(w, 168, p.strings.install_reg_value)
          /\ IsField(w, 204, p.strings.install_dir)
          /\ IsField(w, 224, Len(p.sections))
          /\ IsField(w, 232, p.callbacks[8]) /\ IsField(w, 236, p.callbacks[9])
    BY <2>2, <2>6
  <2>. QED BY <2>7, <2>8 DEF LegacyWords
<1>. QED BY <1>1, <1>14, <1>15 DEF w

-----------------------------------------------------------------------------
(* A file of 1.x under its own layout.                                     *)

(* What the layout of 1.x reads in a file that was written in it.          *)
LegacyRead ==
  /\ is_v1 = TRUE /\ langtable_size = 0
  /\ blocks["Pages"] = <<0, 0>> /\ blocks["LangTables"] = <<0, 0>>
  /\ blocks["Sections"] = <<LegacySize(program), Len(program.sections)>>
  /\ blocks["Entries"] = <<LegacyEntries(program), Len(program.entries)>>
  /\ \A k \in CallbackFields : callbacks[k] = program.callbacks[k]
  /\ header_strings = program.strings

(* A file of 1.x, whose own header was found.                              *)
LegacyFile ==
  /\ IsLegacy(program) /\ header = LegacyBlock(program)
  /\ exe.at[found].flags = FirstFlags(program)

(* The flags say of a file what its accessors ask, in either numbering.    *)
LEMMA FlagsAre ==
  ASSUME IsLegacy(program) \/ IsModern(program), exe.at[found].flags = FirstFlags(program)
  PROVE  /\ IsLegacy(program) => /\ HasFlag(2) <=> program.kind = "Uninstaller"
                                 /\ HasFlag(4) <=> program.silent
         /\ IsModern(program) => /\ HasFlag(1) <=> program.uninstaller
                                 /\ HasFlag(2) <=> program.silent
<1> DEFINE u == program.uninstaller
           s == program.silent
           v == program.kind = "Uninstaller"
           f == exe.at[found].flags
<1>1. CASE IsLegacy(program)
  <2>1. f = 1 + (IF v THEN 2 ELSE 0) + (IF s THEN 4 ELSE 0)
    BY <1>1 DEF IsLegacy, FirstFlags
  <2>2. ~IsModern(program)
    BY <1>1 DEF IsLegacy, IsModern
  <2> HIDE DEF v, s, f
  <2>3. (f \div 2) % 2 = 1 <=> v
    <3>1. CASE v /\ s
      BY <2>1, <3>1
    <3>2. CASE v /\ ~s
      BY <2>1, <3>2
    <3>3. CASE ~v /\ s
      BY <2>1, <3>3
    <3>4. CASE ~v /\ ~s
      BY <2>1, <3>4
    <3>. QED BY <3>1, <3>2, <3>3, <3>4
  <2>4. (f \div 4) % 2 = 1 <=> s
    <3>1. CASE v /\ s
      BY <2>1, <3>1
    <3>2. CASE v /\ ~s
      BY <2>1, <3>2
    <3>3. CASE ~v /\ s
      BY <2>1, <3>3
    <3>4. CASE ~v /\ ~s
      BY <2>1, <3>4
    <3>. QED BY <3>1, <3>2, <3>3, <3>4
  <2>. QED BY <2>2, <2>3, <2>4 DEF HasFlag, v, s, f
<1>2. CASE IsModern(program)
  <2>1. f = (IF u THEN 1 ELSE 0) + (IF s THEN 2 ELSE 0) + 4
    BY <1>2 DEF IsModern, FirstFlags
  <2>2. ~IsLegacy(program)
    BY <1>2 DEF IsLegacy, IsModern
  <2> HIDE DEF u, s, f
  <2>3. (f \div 1) % 2 = 1 <=> u
    <3>1. CASE u /\ s
      BY <2>1, <3>1
    <3>2. CASE u /\ ~s
      BY <2>1, <3>2
    <3>3. CASE ~u /\ s
      BY <2>1, <3>3
    <3>4. CASE ~u /\ ~s
      BY <2>1, <3>4
    <3>. QED BY <3>1, <3>2, <3>3, <3>4
  <2>4. (f \div 2) % 2 = 1 <=> s
    <3>1. CASE u /\ s
      BY <2>1, <3>1
    <3>2. CASE u /\ ~s
      BY <2>1, <3>2
    <3>3. CASE ~u /\ s
      BY <2>1, <3>3
    <3>4. CASE ~u /\ ~s
      BY <2>1, <3>4
    <3>. QED BY <3>1, <3>2, <3>3, <3>4
  <2>. QED BY <2>2, <2>3, <2>4 DEF HasFlag, u, s, f
<1>. QED BY <1>1, <1>2

(* What the parser works out before it reads the tables.                   *)
LEMMA LegacyCounts ==
  ASSUME LegacyFile
  PROVE  /\ v1_kind = program.kind /\ v1_size = LegacySize(program) /\ v1_size \in {240, 120}
         /\ num_sections = Len(program.sections) /\ num_entries = Len(program.entries)
         /\ num_sections \in Nat /\ num_entries \in Nat
         /\ entries_offset = LegacyEntries(program) /\ entries_offset \in Nat
         /\ strings_offset = LegacyEntries(program) + 24 * Len(program.entries)
         /\ header.len \in Nat /\ strings_offset <= header.len /\ v1_size <= strings_offset
<1> DEFINE p == program
           w == header.word
           ns == Len(program.sections)
           ne == Len(program.entries)
<1>1. IsLegacy(p) /\ header = LegacyBlock(p) /\ exe.at[found].flags = FirstFlags(p)
  BY DEF LegacyFile
<1>2. LegacyWords(w, p) /\ header.len = LegacyEntries(p) + 24 * ne + p.string_bytes
  BY <1>1, LegacyBlockIs
<1>3. p.kind \in {"Installer", "Uninstaller"} /\ IsProgram(p)
        /\ (p.kind = "Uninstaller" => p.sections = <<>>)
  BY <1>1 DEF IsLegacy
<1>4. HasTables(p) /\ HasSizes(p)
  BY <1>3 DEF IsProgram
<1>5. ns \in Nat /\ ne \in Nat
  BY <1>4 DEF HasTables
<1>a. p.string_bytes \in Nat
  BY <1>4 DEF HasSizes
<1>6. v1_kind = p.kind
  <2>1. HasFlag(2) <=> p.kind = "Uninstaller"
    BY <1>1, FlagsAre
  <2>. QED BY <1>3, <2>1 DEF v1_kind
<1>7. v1_size = LegacySize(p) /\ v1_size \in {240, 120}
  BY <1>6 DEF v1_size, LegacySize
<1> HIDE DEF w, ns, ne
<1>8. num_entries = ne
  <2>1. IsField(w, 52, ne)
    BY <1>2 DEF LegacyWords, ne
  <2>2. ~(52 + 4 > v1_size)
    BY <1>7
  <2>. QED BY <2>1, <2>2 DEF num_entries, v1_field, read_i32_le, WordAt, IsField, w
<1>9. num_sections = ns
  <2>1. CASE p.kind = "Installer"
    <3>1. IsField(w, 224, ns)
      BY <1>2, <2>1 DEF LegacyWords, ns
    <3>2. v1_size = 240 /\ ~(224 + 4 > v1_size)
      BY <1>6, <2>1 DEF v1_size
    <3>. QED BY <1>6, <2>1, <3>1, <3>2 DEF num_sections, v1_field, read_i32_le, WordAt, IsField, w
  <2>2. CASE p.kind = "Uninstaller"
    <3>1. ns = 0
      BY <1>3, <2>2 DEF ns
    <3>2. num_sections = 0
      BY <1>6, <2>2 DEF num_sections
    <3>. QED BY <3>1, <3>2
  <2>. QED BY <1>3, <2>1, <2>2
<1>10. LegacyEntries(p) = v1_size + 20 * ns
  BY <1>7 DEF LegacyEntries, ns
<1>11. entries_offset = LegacyEntries(p) /\ entries_offset \in Nat /\ v1_size <= entries_offset
  BY <1>5, <1>7, <1>9, <1>10 DEF entries_offset, SectionV1Size
<1>12. strings_offset = LegacyEntries(p) + 24 * ne
  BY <1>5, <1>8, <1>11 DEF strings_offset, EntryV1Size
<1>13. header.len \in Nat /\ strings_offset <= header.len /\ v1_size <= strings_offset
  BY <1>2, <1>5, <1>7, <1>a, <1>11, <1>12
<1>. QED BY <1>5, <1>6, <1>7, <1>8, <1>9, <1>11, <1>12, <1>13 DEF ns, ne

(* A file of 1.x is taken for one, and for nothing else.                   *)
LEMMA LegacyFits == ASSUME LegacyFile PROVE IsV1Header /\ ~IsCommonHeader
<1>1. IsV1Header
  <2>1. header.len >= v1_size
    BY LegacyCounts
  <2>. QED BY <2>1, LegacyCounts DEF IsV1Header
<1>2. ~IsCommonHeader
  BY DEF LegacyFile, IsLegacy, IsCommonHeader
<1>. QED BY <1>1, <1>2

(* What the parser makes of its fields.                                    *)
LEMMA LegacyIsRead ==
  ASSUME LegacyFile, ReadV1Header, UNCHANGED <<program, header>>
  PROVE  LegacyRead'
<1> DEFINE p == program
           w == header.word
           str == program.strings
<1>1. IsLegacy(p) /\ LegacyWords(w, p)
  BY LegacyBlockIs DEF LegacyFile
<1>2. /\ p.kind \in {"Installer", "Uninstaller"} /\ IsProgram(p)
      /\ (p.kind = "Uninstaller" => \A f \in HeaderStrings : str[f] = -1)
      /\ \A f \in {"install_dir_auto_append", "uninstall_child", "uninstall_command", "wininit"} :
           str[f] = -1
  BY <1>1 DEF IsLegacy
<1>3. v1_kind = p.kind /\ v1_size \in {240, 120} /\ (p.kind = "Installer" => v1_size = 240)
  BY LegacyCounts DEF LegacySize
<1>4. \A o \in Int : \A v : IsField(w, o, v) /\ o + 4 <= v1_size => v1_field(o) = v
  BY <1>3 DEF v1_field, read_i32_le, WordAt, IsField
<1> HIDE DEF w
<1>5. /\ v1_field(76) = p.callbacks[1] /\ v1_field(80) = p.callbacks[2]
      /\ v1_field(84) = p.callbacks[3] /\ v1_field(88) = p.callbacks[4]
  <2>1. 76 + 4 <= v1_size /\ 80 + 4 <= v1_size /\ 84 + 4 <= v1_size /\ 88 + 4 <= v1_size
    BY <1>3
  <2>2. /\ IsField(w, 76, p.callbacks[1]) /\ IsField(w, 80, p.callbacks[2])
        /\ IsField(w, 84, p.callbacks[3]) /\ IsField(w, 88, p.callbacks[4])
    BY <1>1 DEF LegacyWords
  <2>. QED BY <1>4, <2>1, <2>2
<1>6. p.kind = "Installer" =>
        /\ v1_field(160) = str.install_reg_rootkey /\ v1_field(164) = str.install_reg_key
        /\ v1_field(168) = str.install_reg_value /\ v1_field(204) = str.install_dir
        /\ v1_field(232) = p.callbacks[8] /\ v1_field(236) = p.callbacks[9]
  <2>. SUFFICES ASSUME p.kind = "Installer"
                PROVE  /\ v1_field(160) = str.install_reg_rootkey /\ v1_field(164) = str.install_reg_key
                       /\ v1_field(168) = str.install_reg_value /\ v1_field(204) = str.install_dir
                       /\ v1_field(232) = p.callbacks[8] /\ v1_field(236) = p.callbacks[9]
    OBVIOUS
  <2>1. /\ 160 + 4 <= v1_size /\ 164 + 4 <= v1_size /\ 168 + 4 <= v1_size /\ 204 + 4 <= v1_size
        /\ 232 + 4 <= v1_size /\ 236 + 4 <= v1_size
    BY <1>3
  <2>2. /\ IsField(w, 160, str.install_reg_rootkey) /\ IsField(w, 164, str.install_reg_key)
        /\ IsField(w, 168, str.install_reg_value) /\ IsField(w, 204, str.install_dir)
        /\ IsField(w, 232, p.callbacks[8]) /\ IsField(w, 236, p.callbacks[9])
    BY <1>1 DEF LegacyWords
  <2>. QED BY <1>4, <2>1, <2>2
<1>7. \A k \in CallbackFields : callbacks'[k] = p.callbacks[k]
  <2>1. callbacks' = <<v1_callback(0), v1_callback(1), v1_callback(2), v1_callback(3), -1, -1, -1,
                       v1_callback(6), v1_callback(7), -1>>
    BY DEF ReadV1Header
  <2>2. /\ v1_callback(0) = v1_field(76) /\ v1_callback(1) = v1_field(80)
        /\ v1_callback(2) = v1_field(84) /\ v1_callback(3) = v1_field(88)
        /\ v1_callback(6) = v1_field(232) /\ v1_callback(7) = v1_field(236)
    BY DEF v1_callback
  <2>3. /\ callbacks'[1] = v1_field(76) /\ callbacks'[2] = v1_field(80)
        /\ callbacks'[3] = v1_field(84) /\ callbacks'[4] = v1_field(88)
        /\ callbacks'[8] = v1_field(232) /\ callbacks'[9] = v1_field(236)
    BY <2>1, <2>2
  <2>4. CASE p.kind = "Installer"
    <3>1. CallbackFields = {1, 2, 3, 4, 8, 9}
      BY <2>4 DEF CallbackFields
    <3>. QED BY <1>5, <1>6, <2>3, <2>4, <3>1
  <2>5. CASE p.kind = "Uninstaller"
    <3>1. CallbackFields = {1, 2, 3, 4}
      BY <2>5 DEF CallbackFields
    <3>. QED BY <1>5, <2>3, <3>1
  <2>. QED BY <1>2, <2>4, <2>5
<1>8. header_strings' = str
  <2>1. str \in [HeaderStrings -> Int]
    BY <1>2 DEF IsProgram
  <2>2. header_strings' =
          [f \in HeaderStrings |->
             IF f = "install_dir" THEN installer_field(204)
             ELSE IF f = "install_reg_rootkey" THEN installer_field(160)
             ELSE IF f = "install_reg_key" THEN installer_field(164)
             ELSE IF f = "install_reg_value" THEN installer_field(168)
             ELSE -1]
    BY DEF ReadV1Header
  <2>3. /\ installer_field(204) = str["install_dir"]
        /\ installer_field(160) = str["install_reg_rootkey"]
        /\ installer_field(164) = str["install_reg_key"]
        /\ installer_field(168) = str["install_reg_value"]
    <3>1. {"install_dir", "install_reg_rootkey", "install_reg_key", "install_reg_value"} \subseteq HeaderStrings
      BY DEF HeaderStrings
    <3>2. CASE p.kind = "Installer"
      BY <1>3, <1>6, <3>2 DEF installer_field
    <3>3. CASE p.kind = "Uninstaller"
      BY <1>2, <1>3, <3>1, <3>3 DEF installer_field
    <3>. QED BY <1>2, <3>2, <3>3
  <2>4. ASSUME NEW f \in HeaderStrings PROVE header_strings'[f] = str[f]
    <3>1. CASE f \in {"install_dir_auto_append", "uninstall_child", "uninstall_command", "wininit"}
      <4>1. str[f] = -1
        BY <1>2, <3>1
      <4>2. header_strings'[f] = -1
        BY <2>2, <3>1
      <4>. QED BY <4>1, <4>2
    <3>2. CASE f \in {"install_dir", "install_reg_rootkey", "install_reg_key", "install_reg_value"}
      BY <2>2, <2>3, <3>2
    <3>. QED BY <3>1, <3>2 DEF HeaderStrings
  <2>5. DOMAIN header_strings' = HeaderStrings
    BY <2>2
  <2> DEFINE g == header_strings'
  <2>6. g = [f \in HeaderStrings |-> g[f]]
    BY <2>2
  <2> HIDE DEF g, str
  <2>7. str = [f \in HeaderStrings |-> str[f]]
    BY <2>1
  <2>8. \A f \in HeaderStrings : g[f] = str[f]
    BY <2>4 DEF g
  <2>9. g = str
    BY <2>6, <2>7, <2>8
  <2>. QED BY <2>9 DEF g
<1>9. /\ blocks'["Pages"] = <<0, 0>> /\ blocks'["LangTables"] = <<0, 0>>
      /\ blocks'["Sections"] = <<LegacySize(p), Len(p.sections)>>
      /\ blocks'["Entries"] = <<LegacyEntries(p), Len(p.entries)>>
  <2>1. blocks' = [b \in BlockType |->
                  IF b = "Sections" THEN <<v1_size, num_sections>>
                  ELSE IF b = "Entries" THEN <<entries_offset, num_entries>>
                  ELSE IF b = "Strings" THEN <<strings_offset, header.len - strings_offset>>
                  ELSE <<0, 0>>]
    BY DEF ReadV1Header
  <2>2. {"Pages", "LangTables", "Sections", "Entries"} \subseteq BlockType
    <3>1. \A k \in 1 .. 8 : Blocks[k] \in BlockType
      BY DEF BlockType
    <3>. QED BY <3>1, BlocksAre
  <2>3. v1_size = LegacySize(p) /\ num_sections = Len(p.sections)
          /\ entries_offset = LegacyEntries(p) /\ num_entries = Len(p.entries)
    BY LegacyCounts
  <2>. QED BY <2>1, <2>2, <2>3
<1>10. is_v1' = TRUE /\ langtable_size' = 0
  BY DEF ReadV1Header
<1>11. CallbackFields' = CallbackFields /\ p' = p /\ str' = str
  BY DEF CallbackFields
<1>. QED BY <1>7, <1>8, <1>9, <1>10, <1>11 DEF LegacyRead

-----------------------------------------------------------------------------
(* The tables of a file of 1.x.                                            *)

(* A file of 1.x was parsed, up to its tables.                             *)
LegacyParsed == LegacyFile /\ LegacyRead /\ section_size = measured_size

(* The prover needs no more of the bit than this.                          *)
LEMMA BitIsInt == ReadOnlyBit \in Int
BY DEF ReadOnlyBit

LEMMA BitIsPositive == ReadOnlyBit > 0
BY DEF ReadOnlyBit

(* The top bits of the second word of a 1.x section, and what is below.    *)
LEMMA StateIsDecoded ==
  ASSUME NEW s \in SectionFields, s.install_types \in 0 .. ReadOnlyBit - 1, s.flags \in {0, 1, 16, 17}
  PROVE  LET state == LegacyState(s)
         IN /\ state % ReadOnlyBit = s.install_types
            /\ (IF state < 0 THEN 1 ELSE 0)
                 + (IF (state \div ReadOnlyBit) % 2 = 1 THEN 16 ELSE 0) = s.flags
<1> DEFINE R == ReadOnlyBit
           t == s.install_types
           state == LegacyState(s)
<1>1. R \in Int /\ R > 0
  BY BitIsInt, BitIsPositive
<1>2. t \in 0 .. R - 1
  OBVIOUS
<1>3. state = t + (IF s.flags % 2 = 1 THEN -R - R ELSE 0) + (IF s.flags \div 16 = 1 THEN R ELSE 0)
  BY DEF LegacyState
<1> HIDE DEF R, t, state
<1>4. CASE s.flags = 0
  <2>1. state = t
    BY <1>1, <1>2, <1>3, <1>4
  <2>2. state % R = t /\ state \div R = 0 /\ ~(state < 0)
    BY <1>1, <1>2, <2>1, SMT
  <2>. QED BY <1>4, <2>2 DEF R, t, state
<1>5. CASE s.flags = 1
  <2>1. state = t - R - R
    BY <1>1, <1>2, <1>3, <1>5
  <2>2. state % R = t /\ state \div R = -2 /\ state < 0
    BY <1>1, <1>2, <2>1, SMT
  <2>. QED BY <1>5, <2>2 DEF R, t, state
<1>6. CASE s.flags = 16
  <2>1. state = t + R
    BY <1>1, <1>2, <1>3, <1>6
  <2>2. state % R = t /\ state \div R = 1 /\ ~(state < 0)
    BY <1>1, <1>2, <2>1, SMT
  <2>. QED BY <1>6, <2>2 DEF R, t, state
<1>7. CASE s.flags = 17
  <2>1. state = t - R
    BY <1>1, <1>2, <1>3, <1>7
  <2>2. state % R = t /\ state \div R = -1 /\ state < 0
    BY <1>1, <1>2, <2>1, SMT
  <2>. QED BY <1>7, <2>2 DEF R, t, state
<1>. QED BY <1>4, <1>5, <1>6, <1>7

(* What is known of the block then.                                        *)
LEMMA LegacyLayout ==
  ASSUME LegacyParsed
  PROVE  /\ LegacyTables(header.word, program)
         /\ program.sections \in Seq(SectionFields) /\ program.entries \in Seq(EntryFields)
         /\ Len(program.sections) \in Nat /\ Len(program.entries) \in Nat
         /\ LegacySize(program) \in {240, 120}
         /\ LegacyEntries(program) = LegacySize(program) + 20 * Len(program.sections)
         /\ LegacyEntries(program) + 24 * Len(program.entries) <= header.len
         /\ header.len \in Nat /\ is_v1 = TRUE
<1>1. IsLegacy(program) /\ header = LegacyBlock(program) /\ LegacyFile /\ is_v1 = TRUE
  BY DEF LegacyParsed, LegacyFile, LegacyRead
<1>2. IsProgram(program)
  BY <1>1 DEF IsLegacy
<1>3. HasTables(program)
  BY <1>2 DEF IsProgram
<1>4. program.sections \in Seq(SectionFields) /\ program.entries \in Seq(EntryFields)
  BY <1>3 DEF HasTables
<1>5. LegacyTables(header.word, program)
  BY <1>1, LegacyBlockIs
<1>6. LegacyEntries(program) = LegacySize(program) + 20 * Len(program.sections)
  BY DEF LegacyEntries
<1>7. LegacySize(program) \in {240, 120}
      /\ LegacyEntries(program) + 24 * Len(program.entries) <= header.len /\ header.len \in Nat
  BY <1>1, LegacyCounts
<1>8. Len(program.sections) \in Nat /\ Len(program.entries) \in Nat
  BY <1>4
<1>. QED BY <1>1, <1>4, <1>5, <1>6, <1>7, <1>8

(* An entry of five operands, read at its place.                           *)
LEMMA LegacyEntryRead ==
  ASSUME LegacyParsed, NEW k \in 1 .. Len(program.entries),
         NEW o \in Int, o = LegacyEntries(program) + 24 * (k - 1)
  PROVE  /\ entry_size = 24 /\ o + 24 <= header.len
         /\ EntryAt(o) = program.entries[k]
<1> DEFINE base == LegacyEntries(program)
           e == program.entries[k]
           i == LegacyEntryItem(e)
           n == Len(program.entries)
<1>1. /\ HoldsItems(header.word, base, 24, n, LegacyEntryItems(program))
      /\ base \in Int /\ base + 24 * n <= header.len /\ header.len \in Int
      /\ program.entries \in Seq(EntryFields) /\ is_v1 = TRUE
  BY LegacyLayout DEF LegacyTables
<1>2. n \in Nat /\ e \in EntryFields /\ k \in DOMAIN program.entries
  BY <1>1
<1>a. e.offsets[6] = 0
  <2>1. IsLegacy(program)
    BY DEF LegacyParsed, LegacyFile
  <2>. QED BY <1>2, <2>1 DEF IsLegacy
<1>3. entry_size = 24
  BY <1>1 DEF entry_size, EntryV1Size
<1>4. LegacyEntryItems(program)[k] = i
  BY <1>1 DEF LegacyEntryItems
<1>5. DOMAIN i = {4 * (j - 1) : j \in 1 .. 6} /\ i[0] = e.which /\ \A j \in 1 .. 5 : i[4 * j] = e.offsets[j]
  BY <1>2, LegacyEntryItemIs
<1> HIDE DEF base, i, n
<1>6. ASSUME NEW w \in DOMAIN i PROVE read_i32_le(o + w, o + 24) = i[w]
  <2>1. w \in Int /\ w + 4 <= 24
    BY <1>5
  <2>2. o = base + 24 * (k - 1)
    BY DEF base
  <2>3. k \in 1 .. n /\ 24 \in Nat
    BY DEF n
  <2>4. RowsRead(base, 24, n, LegacyEntryItems(program))
    BY <1>1, <1>2, <2>3, RowRead
  <2>. QED BY <1>4, <2>1, <2>2, <2>3, <2>4 DEF RowsRead
<1>7. o + 24 <= header.len
  <2>1. k \in 1 .. n /\ 24 \in Nat
    BY DEF n
  <2>2. base + 24 * (k - 1) + 24 <= header.len
    BY <1>1, <1>2, <2>1, RowFits, Zenon
  <2>. QED BY <1>1, <2>2 DEF base
<1>8. read_i32_le(o, o + 24) = e.which
  <2>1. 0 \in DOMAIN i /\ o + 0 = o
    BY <1>5
  <2>. QED BY <1>5, <1>6, <2>1
<1>9. ASSUME NEW j \in 1 .. 6 PROVE read_i32_le(o + 4 * j, o + 24) = e.offsets[j]
  <2>1. CASE j \in 1 .. 5
    <3>1. 4 * j \in DOMAIN i
      <4>1. j + 1 \in 1 .. 6 /\ 4 * j = 4 * ((j + 1) - 1)
        BY <2>1
      <4>. QED BY <1>5, <4>1
    <3>. QED BY <1>5, <1>6, <2>1, <3>1
  <2>2. CASE j = 6
    <3>1. (o + 4 * j) + 4 > o + 24
      BY <2>2
    <3>. QED BY <1>a, <2>2, <3>1 DEF read_i32_le, WordAt
  <2>. QED BY <2>1, <2>2
<1>10. EntryAt(o) = [which |-> e.which, offsets |-> [j \in 1 .. 6 |-> e.offsets[j]]]
  BY <1>3, <1>8, <1>9 DEF EntryAt
<1>11. e = [which |-> e.which, offsets |-> [j \in 1 .. 6 |-> e.offsets[j]]]
  BY <1>2 DEF EntryFields
<1>. QED BY <1>3, <1>7, <1>10, <1>11

(* Each table of a file of 1.x is read as compiled.                        *)
LEMMA LegacyEntriesLie ==
  ASSUME LegacyParsed
  PROVE  TableLies("Entries")
<1> DEFINE n == Len(program.entries)
           b == blocks["Entries"]
<1>3. /\ b[1] = LegacyEntries(program) /\ b[2] = n /\ n \in Nat /\ b[1] \in Int
  <2>1. b = <<LegacyEntries(program), n>>
    BY DEF LegacyParsed, LegacyRead
  <2>2. n \in Nat /\ LegacyEntries(program) \in Int
    BY LegacyLayout
  <2>. QED BY <2>1, <2>2
<1>4. Compiled("Entries") = program.entries
  BY DEF Compiled
<1>5. stride("Entries") = 24 /\ needed("Entries") = 24
  BY LegacyLayout DEF stride, needed, entry_size, EntryV1Size
<1> HIDE DEF n, b
<1>6. Or0(b[2]) = n
  BY <1>3 DEF Or0
<1>7. ASSUME NEW k \in 1 .. n
      PROVE  Parsed("Entries", b[1] + 24 * (k - 1)) = [kind |-> "Entries", of |-> program.entries[k]]
  <2> DEFINE o == b[1] + 24 * (k - 1)
  <2>1. o \in Int /\ o = LegacyEntries(program) + 24 * (k - 1)
    BY <1>3
  <2> HIDE DEF o
  <2>2. o + 24 <= header.len /\ EntryAt(o) = program.entries[k]
    BY <2>1, LegacyEntryRead DEF n
  <2>3. header.len \in Int
    BY LegacyLayout
  <2>4. ~(o + needed("Entries") > header.len)
    BY <1>5, <2>1, <2>2, <2>3
  <2>. QED BY <2>2, <2>4 DEF Parsed, o
<1>. QED BY <1>3, <1>4, <1>5, <1>6, <1>7 DEF TableLies, n, b

LEMMA LegacySectionsLie ==
  ASSUME LegacyParsed
  PROVE  TableLies("Sections")
<1> DEFINE n == Len(program.sections)
           b == blocks["Sections"]
           size == LegacySize(program)
<1>1. b = <<size, n>> /\ blocks["Entries"] = <<LegacyEntries(program), Len(program.entries)>>
  BY DEF LegacyParsed, LegacyRead
<1>2. /\ HoldsItems(header.word, size, 20, n, LegacySectionItems(program))
      /\ n \in Nat /\ size \in Int /\ header.len \in Int /\ size + 20 * n <= header.len
      /\ LegacyEntries(program) = size + 20 * n
      /\ program.sections \in Seq(SectionFields) /\ is_v1 = TRUE
  <2>1. LegacyTables(header.word, program) /\ is_v1 = TRUE /\ program.sections \in Seq(SectionFields)
    BY LegacyLayout
  <2>a. /\ Len(program.entries) \in Nat /\ n \in Nat /\ size \in {240, 120} /\ header.len \in Int
        /\ LegacyEntries(program) = size + 20 * n
        /\ LegacyEntries(program) + 24 * Len(program.entries) <= header.len
    BY LegacyLayout
  <2>2. HoldsItems(header.word, size, 20, n, LegacySectionItems(program))
    BY <2>1 DEF LegacyTables
  <2> HIDE DEF size, n
  <2>3. size \in Int /\ size + 20 * n <= header.len
    <3> DEFINE e == LegacyEntries(program)
               m == Len(program.entries)
               l == header.len
    <3> HIDE DEF e, m, l
    <3>1. m \in Nat /\ n \in Nat /\ l \in Int /\ e = size + 20 * n /\ e + 24 * m <= l
      BY <2>a DEF e, m, l
    <3>2. size \in Int
      BY <2>a
    <3>3. size + 20 * n <= l
      BY <3>1, <3>2
    <3>. QED BY <3>2, <3>3 DEF l
  <2>. QED BY <2>1, <2>a, <2>2, <2>3
<1>3. b[1] = size /\ b[2] = n /\ blocks["Entries"][1] = size + 20 * n
  BY <1>1, <1>2
<1>4. Compiled("Sections") = program.sections
  BY DEF Compiled
<1> HIDE DEF b, size
<1>5. section_size \in Int /\ (n > 0 => section_size = 20)
  <2>1. section_size = measured_size
    BY DEF LegacyParsed
  <2> DEFINE gap == blocks["Entries"][1] - b[1]
  <2> HIDE DEF n
  <2>2. gap = 20 * n
    BY <1>2, <1>3
  <2>3. measured_size = IF gap > 0 /\ b[2] > 0 THEN gap \div b[2] ELSE SectionBaseSize
    BY DEF measured_size, b
  <2> HIDE DEF gap
  <2>4. n > 0 => gap > 0 /\ gap \div n = 20
    BY <1>2, <2>2
  <2>5. CASE n > 0
    BY <1>3, <2>1, <2>3, <2>4, <2>5
  <2>6. CASE ~(n > 0)
    <3>1. measured_size = SectionBaseSize
      BY <1>2, <1>3, <2>3, <2>6
    <3>. QED BY <2>1, <2>6, <3>1 DEF SectionBaseSize
  <2>. QED BY <2>5, <2>6
<1>6. stride("Sections") = section_size /\ needed("Sections") = 20
  BY <1>2 DEF stride, needed, SectionV1Size
<1>7. RowsRead(size, 20, n, LegacySectionItems(program))
  <2>1. 20 \in Nat
    OBVIOUS
  <2> HIDE DEF n
  <2>. QED BY <1>2, <2>1, RowRead
<1>8. ASSUME NEW k \in 1 .. n
      PROVE  Parsed("Sections", b[1] + stride("Sections") * (k - 1))
               = [kind |-> "Sections", of |-> program.sections[k]]
  <2> DEFINE o == b[1] + 20 * (k - 1)
             t == program.sections[k]
             i == LegacySectionItem(t)
             state == LegacyState(t)
  <2>1. o \in Int /\ o = size + 20 * (k - 1)
    BY <1>2, <1>3
  <2>2. t \in SectionFields /\ LegacySectionItems(program)[k] = i /\ k \in DOMAIN program.sections
    BY <1>2 DEF LegacySectionItems
  <2>3. /\ DOMAIN i = {4 * (j - 1) : j \in 1 .. 5}
        /\ i[0] = t.name_ptr /\ i[4] = state /\ i[8] = t.code
        /\ i[12] = t.code_size /\ i[16] = t.size_kb
    <3> HIDE DEF t
    <3>. QED BY LegacySectionItemIs
  <2>a. t.install_types \in 0 .. ReadOnlyBit - 1 /\ t.flags \in {0, 1, 16, 17} /\ t.inline_name = 0
    <3>1. IsLegacy(program)
      BY DEF LegacyParsed, LegacyFile
    <3>. QED BY <2>2, <3>1 DEF IsLegacy
  <2>b. /\ state % ReadOnlyBit = t.install_types
        /\ (IF state < 0 THEN 1 ELSE 0)
             + (IF (state \div ReadOnlyBit) % 2 = 1 THEN 16 ELSE 0) = t.flags
    <3> HIDE DEF t
    <3>. QED BY <2>2, <2>a, StateIsDecoded
  <2> HIDE DEF i, o, state
  <2>4. ASSUME NEW j \in 0 .. 4 PROVE read_i32_le(o + 4 * j, o + 20) = i[4 * j]
    <3>1. 4 * j \in DOMAIN i
      <4>1. j + 1 \in 1 .. 5 /\ 4 * j = 4 * ((j + 1) - 1)
        OBVIOUS
      <4>. QED BY <2>3, <4>1
    <3>2. 4 * j \in Int /\ 4 * j + 4 <= 20
      OBVIOUS
    <3> HIDE DEF t
    <3>. QED BY <1>7, <2>1, <2>2, <3>1, <3>2 DEF RowsRead
  <2>5. ~(o + needed("Sections") > header.len)
    <3>1. size + 20 * (k - 1) + 20 <= header.len
      <4>1. 20 \in Nat
        OBVIOUS
      <4> HIDE DEF n
      <4>. QED BY <1>2, <4>1, RowFits, Zenon
    <3>. QED BY <1>2, <1>6, <2>1, <3>1
  <2>6. /\ read_i32_le(o + 4 * 0, o + SectionV1Size) = t.name_ptr
        /\ read_i32_le(o + 4 * 1, o + SectionV1Size) = state
        /\ read_i32_le(o + 4 * 2, o + SectionV1Size) = t.code
        /\ read_i32_le(o + 4 * 3, o + SectionV1Size) = t.code_size
        /\ read_i32_le(o + 4 * 4, o + SectionV1Size) = t.size_kb
    <3>1. /\ 4 * 0 = 0 /\ 4 * 1 = 4 /\ 4 * 2 = 8 /\ 4 * 3 = 12 /\ 4 * 4 = 16 /\ SectionV1Size = 20
      BY DEF SectionV1Size
    <3> HIDE DEF t
    <3>. QED BY <2>3, <2>4, <3>1
  <2>8. LegacySection(o) =
          [name_ptr |-> t.name_ptr, install_types |-> t.install_types, flags |-> t.flags,
           code |-> t.code, code_size |-> t.code_size, size_kb |-> t.size_kb,
           inline_name |-> t.inline_name]
    <3> HIDE DEF t
    <3>. QED BY <2>6, <2>a, <2>b DEF LegacySection
  <2>9. t = [name_ptr |-> t.name_ptr, install_types |-> t.install_types, flags |-> t.flags,
             code |-> t.code, code_size |-> t.code_size, size_kb |-> t.size_kb,
             inline_name |-> t.inline_name]
    <3> HIDE DEF t
    <3>. QED BY <2>2 DEF SectionFields
  <2>10. Parsed("Sections", o) = [kind |-> "Sections", of |-> LegacySection(o)]
    BY <1>2, <2>5 DEF Parsed
  <2>11. stride("Sections") = 20
    BY <1>5, <1>6
  <2> HIDE DEF t
  <2>. QED BY <2>8, <2>9, <2>10, <2>11 DEF o, t
<1>11. Or0(b[2]) = n
  BY <1>2, <1>3 DEF Or0
<1>. QED BY <1>2, <1>3, <1>4, <1>5, <1>6, <1>8, <1>11 DEF TableLies, n, b

(* It has no pages and no languages.                                       *)
LEMMA LegacyOthersLie ==
  ASSUME LegacyParsed, NEW t \in {"Pages", "LangTables"}
  PROVE  TableLies(t)
<1>1. blocks[t] = <<0, 0>> /\ langtable_size = 0 /\ IsLegacy(program)
  BY DEF LegacyParsed, LegacyRead, LegacyFile
<1>2. Compiled(t) = <<>>
  BY <1>1 DEF Compiled, IsLegacy
<1>3. stride(t) \in Int
  BY <1>1 DEF stride, AtLeast, LangMinSize
<1>4. Or0(blocks[t][2]) = 0 /\ blocks[t][1] \in Int
  BY <1>1 DEF Or0
<1>. QED BY <1>2, <1>3, <1>4 DEF TableLies

-----------------------------------------------------------------------------
(* The invariant: what was written, what was parsed, what was taken.       *)

(* The file is as a compiler wrote it, but for the damage.                 *)
FileWritten ==
  /\ IsModern(program) \/ IsLegacy(program)
  /\ exe.at[exe.own].flags = FirstFlags(program)
  /\ damage # NoDamage => program.kind = "Modern" /\ IsDamage(damage)
  /\ header = Damaged(HeaderBlock(program), damage)

(* A damaged file is taken for one of 1.x, which only one can be that says *)
(* of its font it lies where 1.x would have few entries.                   *)
Mistaken ==
  /\ is_v1 = TRUE /\ program.kind = "Modern" /\ damage # NoDamage
  /\ FontOffset \in 0 .. header.len \div EntryV1Size

(* How far the parse has got with it.                                      *)
HeaderParsed ==
  /\ pc \in {"Header", "Measure", "Read", "Refused"} => found = exe.own
  /\ pc \in {"Measure", "Read"} =>
       Mistaken \/ IF program.kind = "Modern" THEN ModernRead ELSE LegacyRead
  /\ pc = "Refused" => damage # NoDamage
  /\ pc = "Read" => section_size = measured_size

(* An iterator over t that has handed out n items, the last one just now.  *)
TableTaken(t, n) ==
  /\ iter = [table |-> t, base |-> blocks[t][1], offset |-> stride(t) * n, taken |-> n,
             remaining |-> Len(Compiled(t)) - n]
  /\ item = IF n = 0 THEN NoItem ELSE [kind |-> t, of |-> Compiled(t)[n]]

(* An iterator over t that is where it should be.                          *)
TakenFrom(t) == \E n \in 0 .. Len(Compiled(t)) : TableTaken(t, n)

(* And one over the entries of section s.                                  *)
SectionTaken(s, n) ==
  /\ iter = [table |-> "SectionEntries", base |-> blocks["Entries"][1] + entry_size * s.code,
             offset |-> entry_size * n, taken |-> n, remaining |-> s.code_size - n]
  /\ item = IF n = 0 THEN [kind |-> "Opened", of |-> s]
            ELSE [kind |-> "SectionEntries", of |-> program.entries[s.code + n],
                  first |-> iter.base]

(* One over a section of the program that is.                              *)
TakenFromSection ==
  \E s \in Range(program.sections) : \E n \in 0 .. s.code_size : SectionTaken(s, n)

(* An iterator has these fields.                                           *)
IsIter ==
  iter = [table |-> iter.table, base |-> iter.base, offset |-> iter.offset,
          taken |-> iter.taken, remaining |-> iter.remaining]

(* Iterators are where they should be, but over a suspect table or in a    *)
(* file that is mistaken.                                                  *)
ItemsTaken ==
  /\ IsIter
  /\ pc # "Read" => iter = NoIter /\ item = NoItem
  /\ pc = "Read" =>
       /\ ~Mistaken => \A t \in Tables \ Suspect : iter.table = t => TakenFrom(t)
       /\ damage = NoDamage =>
            (iter = NoIter /\ item = NoItem) \/ iter.table \in Tables \/ TakenFromSection

(* The files are those the assumptions speak of.                           *)
LEMMA FilesAreWritten == Init => FileWritten
<1>. SUFFICES ASSUME Init PROVE FileWritten
  OBVIOUS
<1>1. PICK f \in Files : exe = f.exe /\ program = f.program /\ damage = f.damage
  BY DEF Init
<1>2. header = Damaged(HeaderBlock(program), damage)
  BY DEF Init
<1>. QED BY <1>1, <1>2, ProgramsAssumption DEF FileWritten

(* What that says of a file of either layout.                              *)
LEMMA ModernIsIntact ==
  ASSUME FileWritten, program.kind = "Modern"
  PROVE  IsModern(program) /\ MayBeDamage(damage) /\ IntactBut(header, program, damage)
<1>1. IsModern(program)
  BY DEF FileWritten, IsLegacy
<1>2. MayBeDamage(damage)
  BY DEF FileWritten, MayBeDamage
<1>3. header = Damaged(ModernBlock(program), damage)
  BY DEF FileWritten, HeaderBlock
<1>. QED BY <1>1, <1>2, <1>3, ModernFileIs

LEMMA LegacyIsIntact ==
  ASSUME FileWritten, program.kind # "Modern"
  PROVE  /\ IsLegacy(program) /\ header = LegacyBlock(program) /\ damage = NoDamage
         /\ found = exe.own => LegacyFile
<1>1. IsLegacy(program) /\ damage = NoDamage
  BY DEF FileWritten, IsModern
<1>2. header = LegacyBlock(program)
  BY <1>1 DEF FileWritten, HeaderBlock, Damaged
<1>. QED BY <1>1, <1>2 DEF FileWritten, LegacyFile

(* What a parse that got through reads at every place of every table.      *)
LEMMA TablesLie ==
  ASSUME FileWritten, HeaderParsed, pc = "Read", ~Mistaken, NEW t \in Tables \ Suspect
  PROVE  TableLies(t)
<1>1. section_size = measured_size /\ found = exe.own
  BY DEF HeaderParsed
<1>2. CASE program.kind = "Modern"
  <2>1. ModernState
    BY <1>1, <1>2, ModernIsIntact DEF ModernState, HeaderParsed
  <2>2. t # damage.block /\ (damage.block = "Entries" => t # "Sections")
    BY DEF Suspect
  <2>. QED BY <2>1, <2>2, ModernPagesLie, ModernSectionsLie, ModernEntriesLie, ModernLangsLie DEF Tables
<1>3. CASE program.kind # "Modern"
  <2>1. LegacyParsed
    BY <1>1, <1>3, LegacyIsIntact DEF LegacyParsed, HeaderParsed
  <2>. QED BY <2>1, LegacyEntriesLie, LegacySectionsLie, LegacyOthersLie DEF Tables
<1>. QED BY <1>2, <1>3

(* Without damage, no table is suspect and no file mistaken.               *)
LEMMA NothingSuspect ==
  ASSUME damage = NoDamage PROVE ~Mistaken /\ \A t \in Tables : t \notin Suspect
BY DEF NoDamage, Suspect, Tables, Mistaken

(* Types of what was compiled.                                             *)
LEMMA ProgramIs ==
  ASSUME FileWritten
  PROVE  /\ IsProgram(program) /\ HasTables(program) /\ SectionsHaveCode(program)
         /\ program.sections \in Seq(SectionFields) /\ program.entries \in Seq(EntryFields)
         /\ \A t : Len(Compiled(t)) \in Nat
         /\ header.len \in Int
<1>1. IsProgram(program)
  BY DEF FileWritten, IsModern, IsLegacy
<1>2. HasTables(program) /\ SectionsHaveCode(program)
  BY <1>1 DEF IsProgram
<1>3. \A t : Len(Compiled(t)) \in Nat
  BY <1>2 DEF HasTables, Compiled
<1>4. header.len \in Int
  <2>1. CASE program.kind = "Modern"
    <3>1. IsModern(program) /\ header.len = BlockStarts(program)[8]
      BY <2>1, ModernIsIntact DEF IntactBut
    <3> DEFINE s == BlockStarts(program)
    <3>2. StartsInOrder(program, s) /\ header.len = s[8]
      BY <3>1, StartsAre
    <3> HIDE DEF s
    <3>3. s[8] \in Nat
      BY <3>2 DEF StartsInOrder
    <3>. QED BY <3>2, <3>3
  <2>2. CASE program.kind # "Modern"
    <3>1. IsLegacy(program) /\ header = LegacyBlock(program) /\ HasSizes(program)
      BY <1>1, <2>2, LegacyIsIntact DEF IsProgram
    <3>2. header.len = LegacyEntries(program) + 24 * Len(program.entries) + program.string_bytes
      BY <3>1, LegacyBlockIs
    <3>3. Len(program.entries) \in Nat /\ Len(program.sections) \in Nat /\ program.string_bytes \in Nat
      BY <1>2, <3>1 DEF HasTables, HasSizes
    <3>4. LegacySize(program) \in Nat
      BY DEF LegacySize
    <3>5. LegacyEntries(program) \in Nat
      BY <3>3, <3>4 DEF LegacyEntries
    <3> DEFINE entries == LegacyEntries(program)
    <3> HIDE DEF entries
    <3>6. header.len = entries + 24 * Len(program.entries) + program.string_bytes /\ entries \in Nat
      BY <3>2, <3>5 DEF entries
    <3>. QED BY <3>3, <3>6
  <2>. QED BY <2>1, <2>2
<1>. QED BY <1>1, <1>2, <1>3, <1>4 DEF HasTables

(* Nothing is parsed or taken at first.                                    *)
LEMMA InitParsed == Init => HeaderParsed /\ ItemsTaken
<1>. SUFFICES ASSUME Init PROVE HeaderParsed /\ ItemsTaken
  OBVIOUS
<1>1. pc = "Locate" /\ iter = NoIter /\ item = NoItem
  BY DEF Init
<1>2. HeaderParsed
  BY <1>1 DEF HeaderParsed
<1>3. IsIter
  BY <1>1 DEF IsIter, NoIter
<1>. QED BY <1>1, <1>2, <1>3 DEF ItemsTaken

(* The parser takes the file for what it is, or refuses it.                *)
LEMMA StepParses ==
  ASSUME FileWritten, HeaderParsed, ParseHeader
  PROVE  HeaderParsed'
<1>1. /\ pc = "Header" /\ found = exe.own /\ found' = found /\ exe' = exe /\ damage' = damage
      /\ UNCHANGED <<program, header>>
  BY DEF ParseHeader, file, HeaderParsed
<1>2. CASE IsCommonHeader /\ ReadCommonHeader /\ pc' = "Measure"
  <2>1. program.kind = "Modern"
    BY <1>1, <1>2, LegacyIsIntact, LegacyFits
  <2>2. ModernRead'
    BY <1>1, <1>2, <2>1, ModernIsIntact, ModernIsRead
  <2>. QED BY <1>1, <1>2, <2>1, <2>2 DEF HeaderParsed
<1>3. CASE ~IsCommonHeader /\ IsV1Header /\ ReadV1Header /\ pc' = "Measure"
  <2>1. CASE program.kind = "Modern"
    <3>1. IsModern(program) /\ MayBeDamage(damage) /\ IntactBut(header, program, damage)
      BY <2>1, ModernIsIntact
    <3>2. damage # NoDamage
      BY <1>3, <3>1, ModernFits DEF IsCommonHeader
    <3>3. FontOffset \in 0 .. header.len \div EntryV1Size
      BY <1>3, <3>1, ModernAsV1
    <3>4. is_v1' = TRUE
      BY <1>3 DEF ReadV1Header
    <3>5. FontOffset' = FontOffset
      BY <1>1 DEF FontOffset
    <3>6. Mistaken'
      BY <1>1, <2>1, <3>2, <3>3, <3>4, <3>5 DEF Mistaken
    <3>. QED BY <1>1, <1>3, <3>6 DEF HeaderParsed
  <2>2. CASE program.kind # "Modern"
    <3>1. LegacyRead'
      BY <1>1, <1>3, <2>2, LegacyIsIntact, LegacyIsRead
    <3>. QED BY <1>1, <1>3, <2>2, <3>1 DEF HeaderParsed
  <2>. QED BY <2>1, <2>2
<1>4. CASE ~IsCommonHeader /\ ~IsV1Header /\ pc' = "Refused"
  <2>1. damage # NoDamage
    <3>1. CASE program.kind = "Modern"
      BY <1>4, <3>1, ModernIsIntact, ModernFits DEF IsCommonHeader
    <3>2. CASE program.kind # "Modern"
      BY <1>1, <1>4, <3>2, LegacyIsIntact, LegacyFits
    <3>. QED BY <3>1, <3>2
  <2>. QED BY <1>1, <1>4, <2>1 DEF HeaderParsed
<1>. QED BY <1>2, <1>3, <1>4 DEF ParseHeader

(* What was parsed is kept.                                                *)
LEMMA ReadingStays ==
  ASSUME UNCHANGED <<file, found, parsed>>
  PROVE  /\ ModernRead' <=> ModernRead
         /\ LegacyRead' <=> LegacyRead
         /\ Mistaken' <=> Mistaken
         /\ measured_size' = measured_size
<1>1. UNCHANGED <<exe, program, damage, header, found, is_v1, blocks, langtable_size, callbacks,
                  header_strings, section_size>>
  BY DEF file, parsed
<1>2. ModernRead' <=> ModernRead
  BY <1>1 DEF ModernRead, BlockHeader
<1>3. LegacyRead' <=> LegacyRead
  BY <1>1 DEF LegacyRead, CallbackFields
<1>4. measured_size' = measured_size
  BY <1>1 DEF measured_size
<1>5. Mistaken' <=> Mistaken
  BY <1>1 DEF Mistaken, FontOffset
<1>. QED BY <1>2, <1>3, <1>4, <1>5

(* The tables are read once the sections are measured.                     *)
LEMMA StepMeasures ==
  ASSUME HeaderParsed, MeasureSections
  PROVE  HeaderParsed'
<1>1. /\ UNCHANGED <<exe, program, damage, header, found, is_v1, blocks, langtable_size, callbacks,
                     header_strings>>
      /\ pc = "Measure" /\ pc' = "Read" /\ section_size' = measured_size
  BY DEF MeasureSections, file
<1>2. ModernRead' <=> ModernRead
  BY <1>1 DEF ModernRead, BlockHeader
<1>3. LegacyRead' <=> LegacyRead
  BY <1>1 DEF LegacyRead, CallbackFields
<1>4. measured_size' = measured_size
  BY <1>1 DEF measured_size
<1>5. Mistaken' <=> Mistaken
  BY <1>1 DEF Mistaken, FontOffset
<1>. QED BY <1>1, <1>2, <1>3, <1>4, <1>5 DEF HeaderParsed

LEMMA StepKeepsParsed ==
  ASSUME HeaderParsed, pc' = pc, UNCHANGED <<file, found, parsed>>
  PROVE  HeaderParsed'
<1>1. UNCHANGED <<exe, program, damage, found, section_size>>
  BY DEF file, parsed
<1>. QED BY <1>1, ReadingStays DEF HeaderParsed

(* So the parse goes on as it should.                                      *)
LEMMA StepParsed ==
  ASSUME FileWritten, HeaderParsed, [Next]_vars
  PROVE  FileWritten' /\ HeaderParsed'
<1>1. UNCHANGED file
  BY DEF Next, vars, Locate, Scan, ParseHeader, MeasureSections, OpenSection, ReadNext, Stop, Open
<1>2. FileWritten'
  BY <1>1 DEF FileWritten, file
<1>3. ASSUME Locate PROVE HeaderParsed'
  <2>1. pc' \in {"Not32Bit", "OverlayNotFound", "Scan"}
    BY <1>3 DEF Locate
  <2>. QED BY <2>1 DEF HeaderParsed
<1>4. ASSUME Scan PROVE HeaderParsed'
  <2>1. /\ exe' = exe
        /\ \/ pc' \in {"SignatureNotFound", "NothingBehind", "OtherInstaller"}
           \/ pc' = "Header" /\ found' = exe.own
    BY <1>4 DEF Scan, file
  <2>. QED BY <2>1 DEF HeaderParsed
<1>5. ASSUME ~(Locate \/ Scan \/ ParseHeader \/ MeasureSections) PROVE HeaderParsed'
  <2>1. pc' = pc /\ UNCHANGED <<file, found, parsed>>
    BY <1>5 DEF Next, vars, OpenSection, ReadNext, Stop, Open
  <2>. QED BY <2>1, StepKeepsParsed
<1>. QED BY <1>2, <1>3, <1>4, <1>5, StepParses, StepMeasures

-----------------------------------------------------------------------------
(* The iterators.                                                          *)

(* Tables and strides are kept with it.                                    *)
LEMMA TablesStay ==
  ASSUME UNCHANGED <<file, found, parsed>>
  PROVE  /\ UNCHANGED <<program, damage, header, blocks>> /\ Suspect' = Suspect
         /\ entry_size' = entry_size /\ (Mistaken' <=> Mistaken)
         /\ \A t : Compiled(t)' = Compiled(t) /\ stride(t)' = stride(t)
<1>1. UNCHANGED <<exe, program, damage, header, found, is_v1, blocks, langtable_size, callbacks,
                  header_strings, section_size>>
  BY DEF file, parsed
<1>2. Suspect' = Suspect /\ entry_size' = entry_size
  BY <1>1 DEF Suspect, entry_size
<1>3. ASSUME NEW t PROVE Compiled(t)' = Compiled(t) /\ stride(t)' = stride(t)
  BY <1>1 DEF Compiled, stride, AtLeast, entry_size
<1>. QED BY <1>1, <1>2, <1>3, ReadingStays

(* An iterator over a table begins at its first item, with all to come.    *)
LEMMA StepOpens ==
  ASSUME FileWritten, HeaderParsed, NEW t \in Tables, Open(t)
  PROVE  ItemsTaken'
<1>1. /\ pc = "Read" /\ pc' = "Read" /\ item' = NoItem /\ UNCHANGED <<file, found, parsed>>
      /\ iter' = [table |-> t, base |-> blocks[t][1], offset |-> 0, taken |-> 0,
                  remaining |-> Or0(blocks[t][2])]
  BY DEF Open
<1>2. /\ UNCHANGED <<program, damage, blocks>> /\ Suspect' = Suspect
      /\ Compiled(t)' = Compiled(t) /\ stride(t)' = stride(t) /\ (Mistaken' <=> Mistaken)
  BY <1>1, TablesStay
<1>3. IsIter'
  BY <1>1 DEF IsIter
<1>4. iter'.table = t
  BY <1>1
<1>5. ASSUME t \notin Suspect, ~Mistaken PROVE TakenFrom(t)'
  <2>1. TableLies(t)
    BY <1>1, <1>5, TablesLie
  <2>2. stride(t) * 0 = 0 /\ Or0(blocks[t][2]) = Len(Compiled(t))
    BY <2>1 DEF TableLies
  <2>3. Len(Compiled(t)) \in Nat
    BY ProgramIs
  <2>4. iter' = [table |-> t, base |-> blocks[t][1], offset |-> stride(t) * 0, taken |-> 0,
                 remaining |-> Len(Compiled(t)) - 0]
    BY <1>1, <2>2, <2>3
  <2>5. TableTaken(t, 0)'
    BY <1>1, <1>2, <2>4 DEF TableTaken
  <2>6. 0 \in 0 .. Len(Compiled(t))'
    BY <1>2, <2>3
  <2>. QED BY <2>5, <2>6 DEF TakenFrom
<1>6. Tables' = Tables
  BY DEF Tables
<1>. QED BY <1>1, <1>2, <1>3, <1>4, <1>5, <1>6 DEF ItemsTaken

(* The next item of a table that lies where its iterator is.               *)
LEMMA TakesItem ==
  ASSUME FileWritten, HeaderParsed, ~Mistaken, NEW t \in Tables \ Suspect, TakenFrom(t), ReadNext
  PROVE  TakenFrom(t)'
<1>1. /\ pc = "Read" /\ iter.remaining > 0 /\ UNCHANGED <<file, found, parsed>>
      /\ iter' = [iter EXCEPT !.remaining = @ - 1, !.taken = @ + 1,
                              !.offset = @ + stride(iter.table)]
      /\ iter.table # "SectionEntries" => item' = Parsed(iter.table, iter.base + iter.offset)
  BY DEF ReadNext
<1>2. PICK n \in 0 .. Len(Compiled(t)) : TableTaken(t, n)
  BY DEF TakenFrom
<1> DEFINE len == Len(Compiled(t))
           size == stride(t)
           base == blocks[t][1]
<1>3. TableLies(t)
  BY <1>1, TablesLie
<1>4. /\ base \in Int /\ size \in Int /\ len \in Nat
      /\ \A k \in 1 .. len : Parsed(t, base + size * (k - 1)) = [kind |-> t, of |-> Compiled(t)[k]]
  BY <1>3, ProgramIs DEF TableLies
<1>5. iter = [table |-> t, base |-> base, offset |-> size * n, taken |-> n, remaining |-> len - n]
  BY <1>2 DEF TableTaken
<1>6. /\ blocks' = blocks /\ Compiled(t)' = Compiled(t) /\ stride(t)' = stride(t)
  BY <1>1, TablesStay
<1>7. t # "SectionEntries"
  BY DEF Tables
<1> HIDE DEF len, size, base
<1>8. len - n > 0 /\ n \in 0 .. len
  BY <1>1, <1>2, <1>5 DEF len
<1>9. n + 1 \in 1 .. len /\ (n + 1) - 1 = n /\ n + 1 # 0
  BY <1>4, <1>8
<1>10. size * n + size = size * (n + 1) /\ len - n - 1 = len - (n + 1)
  BY <1>4, <1>8
<1>11. iter' = [table |-> t, base |-> base, offset |-> size * (n + 1), taken |-> n + 1,
                remaining |-> len - (n + 1)]
  BY <1>1, <1>5, <1>10 DEF size
<1>12. item' = [kind |-> t, of |-> Compiled(t)[n + 1]]
  <2>1. item' = Parsed(t, base + size * n)
    BY <1>1, <1>5, <1>7
  <2>. QED BY <1>4, <1>9, <2>1
<1>13. TableTaken(t, n + 1)'
  BY <1>6, <1>9, <1>11, <1>12 DEF TableTaken, len, size, base
<1>14. n + 1 \in 0 .. Len(Compiled(t))'
  BY <1>4, <1>6, <1>9 DEF len
<1>. QED BY <1>13, <1>14 DEF TakenFrom

(* The code of a section is in the entries.                                *)
LEMMA SectionIs ==
  ASSUME FileWritten, NEW s \in Range(program.sections)
  PROVE  /\ s.code \in Nat /\ s.code_size \in Nat
         /\ s.code + s.code_size <= Len(program.entries)
<1>1. program.sections \in Seq(SectionFields) /\ SectionsHaveCode(program)
  BY ProgramIs
<1>2. PICK k \in DOMAIN program.sections : s = program.sections[k]
  BY DEF Range
<1>3. s \in SectionFields
  BY <1>1, <1>2
<1>. QED BY <1>1, <1>2, <1>3 DEF SectionsHaveCode, SectionFields

(* section_entries() reads where entries() reads.                          *)
LEMMA EntryIsRead ==
  ASSUME FileWritten, TableLies("Entries"), NEW k \in 1 .. Len(program.entries),
         NEW o, o = blocks["Entries"][1] + entry_size * (k - 1)
  PROVE  /\ Parsed("SectionEntries", o) = [kind |-> "SectionEntries", of |-> program.entries[k]]
         /\ o \in Int /\ o + entry_size <= header.len
<1>1. entry_size \in {24, 28}
  BY DEF entry_size, EntryV1Size
<1>2. stride("Entries") = entry_size /\ needed("Entries") = entry_size
        /\ needed("SectionEntries") = entry_size
  BY DEF stride, needed
<1>3. Compiled("Entries") = program.entries
  BY DEF Compiled
<1>4. blocks["Entries"][1] \in Int
        /\ Parsed("Entries", o) = [kind |-> "Entries", of |-> program.entries[k]]
  BY <1>2, <1>3 DEF TableLies
<1>5. ~(o + needed("Entries") > header.len) /\ EntryAt(o) = program.entries[k]
  <2>1. Parsed("Entries", o) = IF o + needed("Entries") > header.len THEN TooShort
                               ELSE [kind |-> "Entries", of |-> EntryAt(o)]
    BY DEF Parsed
  <2>2. ~(o + needed("Entries") > header.len)
    <3>1. TooShort.kind = "TooShort"
      BY DEF TooShort
    <3>2. Parsed("Entries", o).kind = "Entries"
      BY <1>4
    <3>. QED BY <2>1, <3>1, <3>2
  <2>3. Parsed("Entries", o).of = EntryAt(o)
    BY <2>1, <2>2
  <2>4. Parsed("Entries", o).of = program.entries[k]
    BY <1>4
  <2>. QED BY <2>2, <2>3, <2>4
<1>6. Parsed("SectionEntries", o) = [kind |-> "SectionEntries", of |-> EntryAt(o)]
  BY <1>2, <1>5 DEF Parsed
<1> DEFINE size == entry_size
           base == blocks["Entries"][1]
<1> HIDE DEF size, base
<1>7. o \in Int
  <2>1. base \in Int /\ size \in Int /\ o = base + size * (k - 1)
    BY <1>1, <1>4 DEF base, size
  <2>2. size * (k - 1) \in Int
    BY <2>1
  <2>. QED BY <2>1, <2>2
<1>8. o + size <= header.len
  BY <1>1, <1>2, <1>5, <1>7, ProgramIs DEF size
<1>. QED BY <1>5, <1>6, <1>7, <1>8 DEF size

(* A section is opened on what was read of it: its code, all of it.        *)
LEMMA OpensSection ==
  ASSUME FileWritten, TableLies("Entries"), NEW s \in Range(program.sections),
         OpenSection, item.of = s
  PROVE  TakenFromSection'
<1>1. /\ UNCHANGED <<file, found, parsed>> /\ item' = [kind |-> "Opened", of |-> s]
      /\ LET start == blocks["Entries"][1] + entry_size * Or0(s.code)
         IN iter' = [table |-> "SectionEntries", base |-> start, offset |-> 0, taken |-> 0,
                     remaining |-> IF start > header.len THEN 0 ELSE Or0(s.code_size)]
  BY DEF OpenSection
<1>2. s.code \in Nat /\ s.code_size \in Nat /\ s.code + s.code_size <= Len(program.entries)
        /\ Len(program.entries) \in Nat
  BY SectionIs, ProgramIs
<1> DEFINE base == blocks["Entries"][1]
           size == entry_size
           start == base + size * s.code
           len == header.len
           left == IF start > len THEN 0 ELSE s.code_size
<1>3. Or0(s.code) = s.code /\ Or0(s.code_size) = s.code_size
  BY <1>2 DEF Or0
<1>4. size \in {24, 28} /\ base \in Int /\ len \in Int
  BY ProgramIs DEF entry_size, EntryV1Size, TableLies
<1>5. left = s.code_size
  <2>1. CASE s.code_size = 0
    BY <2>1
  <2>2. CASE s.code_size > 0
    <3> DEFINE k == s.code + 1
    <3>1. k \in 1 .. Len(program.entries) /\ k - 1 = s.code
      BY <1>2, <2>2
    <3> HIDE DEF k
    <3>2. start + size <= len /\ start \in Int
      BY <3>1, EntryIsRead
    <3> HIDE DEF start, size, len
    <3>3. ~(start > len)
      BY <1>4, <3>2
    <3>. QED BY <3>3
  <2>. QED BY <1>2, <2>1, <2>2
<1>6. iter' = [table |-> "SectionEntries", base |-> start, offset |-> 0, taken |-> 0,
               remaining |-> left]
  BY <1>1, <1>3
<1>7. size * 0 = 0 /\ s.code_size - 0 = s.code_size
  BY <1>2, <1>4
<1> HIDE DEF left
<1>8. iter' = [table |-> "SectionEntries", base |-> start, offset |-> size * 0, taken |-> 0,
               remaining |-> s.code_size - 0]
  BY <1>5, <1>6, <1>7
<1>9. UNCHANGED <<program, blocks>> /\ entry_size' = entry_size
  BY <1>1, TablesStay
<1>10. SectionTaken(s, 0)'
  BY <1>1, <1>8, <1>9 DEF SectionTaken
<1>11. 0 \in 0 .. s.code_size /\ s \in Range(program.sections)'
  BY <1>2, <1>9
<1>. QED BY <1>10, <1>11 DEF TakenFromSection

(* And its entries follow, one by one.                                     *)
LEMMA TakesEntry ==
  ASSUME FileWritten, TableLies("Entries"), TakenFromSection, ReadNext
  PROVE  TakenFromSection'
<1>1. /\ pc = "Read" /\ iter.remaining > 0 /\ UNCHANGED <<file, found, parsed>>
      /\ iter' = [iter EXCEPT !.remaining = @ - 1, !.taken = @ + 1,
                              !.offset = @ + stride(iter.table)]
      /\ LET read == Parsed(iter.table, iter.base + iter.offset)
         IN item' = IF iter.table = "SectionEntries" /\ read # TooShort
                      THEN [kind |-> "SectionEntries", of |-> read.of, first |-> iter.base]
                      ELSE read
  BY DEF ReadNext
<1>2. PICK s \in Range(program.sections) : \E n \in 0 .. s.code_size : SectionTaken(s, n)
  BY DEF TakenFromSection
<1>3. PICK n \in 0 .. s.code_size : SectionTaken(s, n)
  BY <1>2
<1> DEFINE base == blocks["Entries"][1] + entry_size * s.code
           size == entry_size
           all == s.code_size
<1>4. iter = [table |-> "SectionEntries", base |-> base, offset |-> size * n, taken |-> n,
              remaining |-> all - n]
  BY <1>3 DEF SectionTaken
<1>5. /\ s.code \in Nat /\ all \in Nat /\ s.code + all <= Len(program.entries)
      /\ Len(program.entries) \in Nat /\ size \in {24, 28} /\ blocks["Entries"][1] \in Int
  BY SectionIs, ProgramIs DEF entry_size, EntryV1Size, TableLies
<1>6. UNCHANGED <<program, blocks>> /\ entry_size' = entry_size
  BY <1>1, TablesStay
<1>7. stride("SectionEntries") = size
  BY DEF stride
<1> DEFINE k == s.code + n + 1
           o == base + size * n
<1>8. n < all
  <2> HIDE DEF base, size, all
  <2>1. all - n > 0
    BY <1>1, <1>4
  <2>. QED BY <1>3, <1>5, <2>1
<1>9. k \in 1 .. Len(program.entries) /\ k - 1 = s.code + n /\ k = s.code + (n + 1)
        /\ n + 1 \in 0 .. all /\ n + 1 # 0 /\ n \in Nat
  <2> HIDE DEF base, size, all
  <2>. QED BY <1>3, <1>5, <1>8 DEF all
<1>10. o = blocks["Entries"][1] + entry_size * (k - 1)
  <2>1. ASSUME NEW a \in Int, NEW b \in {24, 28}, NEW c \in Nat, NEW d \in Nat
        PROVE  a + b * c + b * d = a + b * (c + d)
    <3>1. CASE b = 24
      BY <3>1
    <3>2. CASE b = 28
      BY <3>2
    <3>. QED BY <3>1, <3>2
  <2> DEFINE e == blocks["Entries"][1]
             c == s.code
  <2>2. e \in Int /\ size \in {24, 28} /\ c \in Nat /\ n \in Nat /\ k - 1 = c + n
    BY <1>5, <1>9
  <2>3. o = e + size * c + size * n
    OBVIOUS
  <2> HIDE DEF e, c, size, k, o
  <2>4. e + size * c + size * n = e + size * (c + n)
    BY <2>1, <2>2, Zenon
  <2>5. o = e + size * (k - 1)
    BY <2>2, <2>3, <2>4
  <2>. QED BY <2>5 DEF e, size
<1> HIDE DEF k, o
<1>11. Parsed("SectionEntries", o) = [kind |-> "SectionEntries", of |-> program.entries[k]]
  BY <1>9, <1>10, EntryIsRead
<1>12. item' = [kind |-> "SectionEntries", of |-> program.entries[k], first |-> base]
  <2>1. iter.table = "SectionEntries" /\ iter.base = base /\ iter.base + iter.offset = o
    <3> HIDE DEF base, size, all
    <3>. QED BY <1>4 DEF o
  <2>2. Parsed("SectionEntries", o) # TooShort
    <3>1. TooShort.kind = "TooShort" /\ Parsed("SectionEntries", o).kind = "SectionEntries"
      BY <1>11 DEF TooShort
    <3>. QED BY <3>1
  <2>3. Parsed("SectionEntries", o).of = program.entries[k]
    BY <1>11
  <2> HIDE DEF base
  <2>. QED BY <1>1, <2>1, <2>2, <2>3
<1>13. iter' = [table |-> "SectionEntries", base |-> base, offset |-> size * (n + 1),
                taken |-> n + 1, remaining |-> all - (n + 1)]
  <2>1. size * n + size = size * (n + 1)
    <3>1. CASE size = 24
      BY <1>9, <3>1
    <3>2. CASE size = 28
      BY <1>9, <3>2
    <3> HIDE DEF size
    <3>. QED BY <1>5, <3>1, <3>2
  <2>2. all - n - 1 = all - (n + 1)
    <3> HIDE DEF all
    <3>. QED BY <1>5, <1>9
  <2>3. stride(iter.table) = size
    BY <1>4, <1>7
  <2> HIDE DEF base, size, all
  <2>. QED BY <1>1, <1>4, <2>1, <2>2, <2>3
<1>14. SectionTaken(s, n + 1)'
  BY <1>6, <1>9, <1>12, <1>13 DEF SectionTaken
<1>15. s \in Range(program.sections)' /\ n + 1 \in 0 .. s.code_size
  BY <1>6, <1>9
<1>. QED BY <1>14, <1>15 DEF TakenFromSection

(* A step that changes nothing.                                            *)
LEMMA IteratorsStay ==
  ASSUME ItemsTaken, UNCHANGED vars
  PROVE  ItemsTaken'
<1>1. UNCHANGED <<file, found, parsed>> /\ UNCHANGED <<pc, iter, item>>
  BY DEF vars
<1>2. /\ UNCHANGED <<program, damage, header, blocks>> /\ Suspect' = Suspect
      /\ entry_size' = entry_size /\ (Mistaken' <=> Mistaken)
      /\ \A t : Compiled(t)' = Compiled(t) /\ stride(t)' = stride(t)
  BY <1>1, TablesStay
<1>3. ASSUME NEW t PROVE TakenFrom(t)' <=> TakenFrom(t)
  <2>1. \A n : TableTaken(t, n)' <=> TableTaken(t, n)
    BY <1>1, <1>2 DEF TableTaken
  <2>2. Compiled(t)' = Compiled(t)
    BY <1>2
  <2>. QED BY <2>1, <2>2 DEF TakenFrom
<1>4. TakenFromSection' <=> TakenFromSection
  BY <1>1, <1>2 DEF TakenFromSection, SectionTaken
<1>5. IsIter' <=> IsIter
  BY <1>1 DEF IsIter
<1>. QED BY <1>1, <1>2, <1>3, <1>4, <1>5 DEF ItemsTaken

(* Only what was read of a section can be opened.                          *)
LEMMA StepOpensSection ==
  ASSUME FileWritten, HeaderParsed, ItemsTaken, OpenSection
  PROVE  ItemsTaken'
<1>1. /\ pc = "Read" /\ pc' = "Read" /\ item.kind = "Sections" /\ UNCHANGED <<file, found, parsed>>
  BY DEF OpenSection
<1>2. iter'.table = "SectionEntries" /\ IsIter'
  BY DEF OpenSection, IsIter
<1>3. UNCHANGED <<program, damage>>
  BY <1>1, TablesStay
<1>4. ASSUME damage = NoDamage PROVE TakenFromSection'
  <2>1. (iter = NoIter /\ item = NoItem) \/ iter.table \in Tables \/ TakenFromSection
    BY <1>1, <1>4 DEF ItemsTaken
  <2>2. ~(iter = NoIter /\ item = NoItem)
    BY <1>1 DEF NoItem
  <2>3. ~TakenFromSection
    <3>. SUFFICES ASSUME NEW s \in Range(program.sections), NEW n \in 0 .. s.code_size,
                         SectionTaken(s, n)
                  PROVE  FALSE
      BY DEF TakenFromSection
    <3>1. item = IF n = 0 THEN [kind |-> "Opened", of |-> s]
                 ELSE [kind |-> "SectionEntries", of |-> program.entries[s.code + n],
                       first |-> iter.base]
      BY DEF SectionTaken
    <3>2. item.kind \in {"Opened", "SectionEntries"}
      BY <3>1
    <3>. QED BY <1>1, <3>2
  <2>4. iter.table \in Tables
    BY <2>1, <2>2, <2>3
  <2>5. TakenFrom(iter.table)
    BY <1>1, <1>4, <2>4, NothingSuspect DEF ItemsTaken
  <2> DEFINE t == iter.table
  <2>6. PICK n \in 0 .. Len(Compiled(t)) : TableTaken(t, n)
    BY <2>5 DEF TakenFrom
  <2>7. item = IF n = 0 THEN NoItem ELSE [kind |-> t, of |-> Compiled(t)[n]]
    BY <2>6 DEF TableTaken
  <2>8. n # 0 /\ t = "Sections" /\ item.of = program.sections[n] /\ n \in 1 .. Len(program.sections)
    <3>1. n # 0
      BY <1>1, <2>7 DEF NoItem
    <3>2. item = [kind |-> t, of |-> Compiled(t)[n]]
      BY <2>7, <3>1
    <3>3. t = "Sections" /\ item.of = Compiled(t)[n]
      <4> HIDE DEF t
      <4>. QED BY <1>1, <3>2
    <3>4. Compiled("Sections") = program.sections
      BY DEF Compiled
    <3> HIDE DEF t
    <3>5. n \in 0 .. Len(program.sections) /\ item.of = program.sections[n]
      BY <2>6, <3>3, <3>4
    <3>6. Len(program.sections) \in Nat
      BY ProgramIs
    <3>. QED BY <3>1, <3>3, <3>5, <3>6
  <2>9. item.of \in Range(program.sections)
    <3>1. program.sections \in Seq(SectionFields)
      BY ProgramIs
    <3>2. n \in DOMAIN program.sections
      BY <2>8, <3>1
    <3>. QED BY <2>8, <3>2 DEF Range
  <2>10. TableLies("Entries")
    <3>1. "Entries" \in Tables
      BY DEF Tables
    <3>. QED BY <1>1, <1>4, <3>1, NothingSuspect, TablesLie
  <2>. QED BY <2>9, <2>10, OpensSection
<1>5. "SectionEntries" \notin Tables
  BY DEF Tables
<1>6. Tables' = Tables
  BY DEF Tables
<1>. QED BY <1>1, <1>2, <1>3, <1>4, <1>5, <1>6 DEF ItemsTaken

(* The next item, of whatever iterator.                                    *)
LEMMA StepReadsNext ==
  ASSUME FileWritten, HeaderParsed, ItemsTaken, ReadNext
  PROVE  ItemsTaken'
<1>1. /\ pc = "Read" /\ pc' = "Read" /\ iter.remaining > 0 /\ UNCHANGED <<file, found, parsed>>
      /\ iter' = [iter EXCEPT !.remaining = @ - 1, !.taken = @ + 1,
                              !.offset = @ + stride(iter.table)]
  BY DEF ReadNext
<1>2. UNCHANGED <<program, damage>> /\ Suspect' = Suspect /\ (Mistaken' <=> Mistaken)
  BY <1>1, TablesStay
<1>3. iter'.table = iter.table /\ IsIter'
  <2> DEFINE z == stride(iter.table)
  <2>1. iter' = [table |-> iter.table, base |-> iter.base, offset |-> iter.offset + z,
                 taken |-> iter.taken + 1, remaining |-> iter.remaining - 1]
    <3>1. iter' = [iter EXCEPT !.remaining = @ - 1, !.taken = @ + 1, !.offset = @ + z]
      BY <1>1
    <3>2. iter = [table |-> iter.table, base |-> iter.base, offset |-> iter.offset,
                  taken |-> iter.taken, remaining |-> iter.remaining]
      BY DEF ItemsTaken, IsIter
    <3> HIDE DEF z
    <3>. QED BY <3>1, <3>2
  <2> HIDE DEF z
  <2>. QED BY <2>1 DEF IsIter
<1>4. ASSUME ~Mistaken, NEW t \in Tables \ Suspect, iter.table = t PROVE TakenFrom(t)'
  <2>1. TakenFrom(t)
    BY <1>1, <1>4 DEF ItemsTaken
  <2>. QED BY <1>4, <2>1, TakesItem
<1>5. ASSUME damage = NoDamage, iter.table \notin Tables PROVE TakenFromSection'
  <2>1. iter # NoIter
    BY <1>1 DEF NoIter
  <2>2. TakenFromSection
    BY <1>1, <1>5, <2>1 DEF ItemsTaken
  <2>3. TableLies("Entries")
    <3>1. "Entries" \in Tables
      BY DEF Tables
    <3>. QED BY <1>1, <1>5, <3>1, NothingSuspect, TablesLie
  <2>. QED BY <2>2, <2>3, TakesEntry
<1>6. Tables' = Tables
  BY DEF Tables
<1>. QED BY <1>1, <1>2, <1>3, <1>4, <1>5, <1>6 DEF ItemsTaken

(* So iterators stay where they should be.                                 *)
LEMMA StepTakes ==
  ASSUME FileWritten, HeaderParsed, ItemsTaken, [Next]_vars
  PROVE  ItemsTaken'
<1>1. ASSUME Locate \/ Scan \/ ParseHeader PROVE ItemsTaken'
  <2>1. pc # "Read" /\ pc' # "Read" /\ UNCHANGED <<iter, item>>
    BY <1>1 DEF Locate, Scan, ParseHeader
  <2>2. IsIter' <=> IsIter
    BY <2>1 DEF IsIter
  <2>. QED BY <2>1, <2>2 DEF ItemsTaken
<1>2. ASSUME MeasureSections PROVE ItemsTaken'
  <2>1. pc # "Read" /\ pc' = "Read" /\ UNCHANGED <<iter, item>>
    BY <1>2 DEF MeasureSections
  <2>2. IsIter' <=> IsIter
    BY <2>1 DEF IsIter
  <2>3. iter' = NoIter /\ item' = NoItem /\ iter'.table \notin Tables
    BY <2>1 DEF ItemsTaken, NoIter, NoItem, Tables
  <2>4. Tables' = Tables /\ NoIter' = NoIter /\ NoItem' = NoItem
    BY DEF Tables, NoIter, NoItem
  <2>. QED BY <2>1, <2>2, <2>3, <2>4 DEF ItemsTaken
<1>3. ASSUME UNCHANGED vars PROVE ItemsTaken'
  BY <1>3, IteratorsStay
<1>4. ASSUME Stop PROVE ItemsTaken'
  BY <1>3, <1>4 DEF Stop
<1>. QED BY <1>1, <1>2, <1>3, <1>4, StepOpens, StepOpensSection, StepReadsNext DEF Next

-----------------------------------------------------------------------------
(* The theorems.                                                           *)

(* An iterator that is where it should be reads its table.                 *)
LEMMA TakenIsRead ==
  ASSUME FileWritten, NEW t, iter.table = t => TakenFrom(t)
  PROVE  ReadsTable(t)
<1>. SUFFICES ASSUME iter.table = t
              PROVE  /\ iter.taken + iter.remaining = Len(Compiled(t))
                     /\ iter.taken > 0 => item = [kind |-> t, of |-> Compiled(t)[iter.taken]]
  BY DEF ReadsTable
<1>1. PICK n \in 0 .. Len(Compiled(t)) : TableTaken(t, n)
  BY DEF TakenFrom
<1>2. iter.taken = n /\ iter.remaining = Len(Compiled(t)) - n
  BY <1>1 DEF TableTaken
<1>3. Len(Compiled(t)) \in Nat
  BY ProgramIs
<1>4. n > 0 => item = [kind |-> t, of |-> Compiled(t)[n]]
  BY <1>1 DEF TableTaken
<1>. QED BY <1>2, <1>3, <1>4

(* How many entries a section contains.                                    *)
LEMMA EntriesContained ==
  ASSUME FileWritten, NEW s \in Range(program.sections)
  PROVE  /\ \A k \in 1 .. Len(program.entries) :
              contains_entry(s, k - 1) <=> k \in s.code + 1 .. s.code + s.code_size
         /\ Cardinality({k \in DOMAIN program.entries : contains_entry(s, k - 1)}) = s.code_size
<1> DEFINE n == Len(program.entries)
           a == s.code
           b == s.code_size
<1>1. a \in Nat /\ b \in Nat /\ a + b <= n /\ n \in Nat /\ DOMAIN program.entries = 1 .. n
  BY SectionIs, ProgramIs
<1>2. Or0(a) = a /\ Or0(b) = b
  BY <1>1 DEF Or0
<1>3. ASSUME NEW k \in 1 .. n
      PROVE  contains_entry(s, k - 1) <=> k \in a + 1 .. a + b
  <2>1. contains_entry(s, k - 1) <=> k - 1 >= a /\ k - 1 < a + b
    BY <1>2 DEF contains_entry
  <2> HIDE DEF a, b, n
  <2>. QED BY <1>1, <2>1
<1>4. {k \in DOMAIN program.entries : contains_entry(s, k - 1)} = a + 1 .. a + b
  <2>1. a + 1 .. a + b \subseteq 1 .. n
    <3> HIDE DEF a, b, n
    <3>. QED BY <1>1
  <2>. QED BY <1>1, <1>3, <2>1
<1>5. Cardinality(a + 1 .. a + b) = b
  <2> HIDE DEF a, b, n
  <2>1. a + 1 \in Int /\ a + b \in Int
    BY <1>1
  <2> DEFINE c == a + 1
             d == a + b
  <2>2. c \in Int /\ d \in Int
    BY <2>1
  <2>3. c = a + 1 /\ d = a + b
    OBVIOUS
  <2> HIDE DEF c, d
  <2>4. Cardinality(c .. d) = IF c > d THEN 0 ELSE d - c + 1
    BY <2>2, FS_Interval, Zenon
  <2>5. (IF c > d THEN 0 ELSE d - c + 1) = b
    BY <1>1, <2>3
  <2>. QED BY <2>4, <2>5 DEF c, d
<1>. QED BY <1>3, <1>4, <1>5

(* One over a section reads the entries the section contains.              *)
LEMMA SectionIsRead ==
  ASSUME FileWritten, iter.table = "SectionEntries" => TakenFromSection
  PROVE  ReadsSectionEntries
<1>. SUFFICES ASSUME iter.table = "SectionEntries"
     PROVE  /\ item.kind = "Opened" =>
                 iter.remaining
                   = Cardinality({k \in DOMAIN program.entries : contains_entry(item.of, k - 1)})
            /\ iter.taken > 0 =>
                 \E s \in Range(program.sections), k \in DOMAIN program.entries :
                   /\ contains_entry(s, k - 1) /\ k = s.code + iter.taken
                   /\ item.of = program.entries[k]
  BY DEF ReadsSectionEntries
<1>1. PICK s \in Range(program.sections) : \E n \in 0 .. s.code_size : SectionTaken(s, n)
  BY DEF TakenFromSection
<1>2. PICK n \in 0 .. s.code_size : SectionTaken(s, n)
  BY <1>1
<1>3. iter.taken = n /\ iter.remaining = s.code_size - n
  BY <1>2 DEF SectionTaken
<1>4. item = IF n = 0 THEN [kind |-> "Opened", of |-> s]
             ELSE [kind |-> "SectionEntries", of |-> program.entries[s.code + n],
                   first |-> iter.base]
  BY <1>2 DEF SectionTaken
<1>5. /\ s.code \in Nat /\ s.code_size \in Nat /\ s.code + s.code_size <= Len(program.entries)
      /\ Len(program.entries) \in Nat /\ DOMAIN program.entries = 1 .. Len(program.entries)
  BY SectionIs, ProgramIs
<1>6. ASSUME item.kind = "Opened"
      PROVE  iter.remaining
               = Cardinality({k \in DOMAIN program.entries : contains_entry(item.of, k - 1)})
  <2>1. n = 0 /\ item.of = s
    BY <1>4, <1>6
  <2>2. iter.remaining = s.code_size
    BY <1>3, <1>5, <2>1
  <2>. QED BY <2>1, <2>2, EntriesContained
<1>7. ASSUME iter.taken > 0
      PROVE  \E s2 \in Range(program.sections), k \in DOMAIN program.entries :
               /\ contains_entry(s2, k - 1) /\ k = s2.code + iter.taken
               /\ item.of = program.entries[k]
  <2> DEFINE k == s.code + n
  <2>1. n > 0 /\ item.of = program.entries[k] /\ k = s.code + iter.taken
    BY <1>3, <1>4, <1>7
  <2>2. k \in 1 .. Len(program.entries) /\ k \in s.code + 1 .. s.code + s.code_size
    BY <1>5, <2>1
  <2> HIDE DEF k
  <2>3. contains_entry(s, k - 1)
    BY <2>2, EntriesContained
  <2>. QED BY <1>5, <2>1, <2>2, <2>3
<1>. QED BY <1>6, <1>7

(* What the accessors say of a header that was read.                       *)
LEMMA AccessorsAgree ==
  ASSUME FileWritten, HeaderParsed, pc = "Read", ~Mistaken
  PROVE  /\ is_v1 <=> program.kind # "Modern"
         /\ \A k \in CallbackFields : callback(k) = program.callbacks[k]
         /\ header_strings = program.strings
         /\ is_uninstaller <=> program.uninstaller
         /\ is_silent <=> program.silent
<1>1. IF program.kind = "Modern" THEN ModernRead ELSE LegacyRead
  BY DEF HeaderParsed
<1>2. exe.at[found].flags = FirstFlags(program)
  BY DEF HeaderParsed, FileWritten
<1>3. program.callbacks \in [1 .. 10 -> Nat \cup {-1}]
  BY ProgramIs DEF IsProgram
<1>4. ASSUME NEW k \in 1 .. 10, callbacks[k] = program.callbacks[k]
      PROVE  callback(k) = program.callbacks[k]
  <2>1. program.callbacks[k] \in Nat \cup {-1}
    BY <1>3
  <2>. QED BY <1>4, <2>1 DEF callback, Nowhere
<1>5. CallbackFields \subseteq 1 .. 10
  BY DEF CallbackFields
<1>6. CASE program.kind = "Modern"
  <2>1. ModernRead /\ IsModern(program)
    BY <1>1, <1>6, ModernIsIntact
  <2>2. (HasFlag(1) <=> program.uninstaller) /\ (HasFlag(2) <=> program.silent)
    BY <1>2, <2>1, FlagsAre
  <2>3. is_v1 = FALSE /\ callbacks = program.callbacks /\ header_strings = program.strings
    BY <2>1 DEF ModernRead
  <2>. QED BY <1>4, <1>5, <1>6, <2>2, <2>3 DEF is_uninstaller, is_silent
<1>7. CASE program.kind # "Modern"
  <2>1. LegacyRead /\ IsLegacy(program)
    BY <1>1, <1>7, LegacyIsIntact
  <2>2. (HasFlag(2) <=> program.kind = "Uninstaller") /\ (HasFlag(4) <=> program.silent)
    BY <1>2, <2>1, FlagsAre
  <2>3. /\ is_v1 = TRUE /\ header_strings = program.strings
        /\ \A k \in CallbackFields : callbacks[k] = program.callbacks[k]
    BY <2>1 DEF LegacyRead
  <2>4. program.uninstaller <=> program.kind = "Uninstaller"
    BY <2>1 DEF IsLegacy
  <2>. QED BY <1>4, <1>5, <1>7, <2>2, <2>3, <2>4 DEF is_uninstaller, is_silent
<1>. QED BY <1>6, <1>7

(* What the iterators hand out.                                            *)
LEMMA TablesAreRead ==
  ASSUME FileWritten, ItemsTaken, pc = "Read"
  PROVE  /\ ~Mistaken => \A t \in Tables \ Suspect : ReadsTable(t)
         /\ damage = NoDamage => ReadsSectionEntries
<1>1. ASSUME ~Mistaken, NEW t \in Tables \ Suspect PROVE ReadsTable(t)
  <2>1. iter.table = t => TakenFrom(t)
    BY <1>1 DEF ItemsTaken
  <2>. QED BY <2>1, TakenIsRead
<1>2. ASSUME damage = NoDamage PROVE ReadsSectionEntries
  <2>1. (iter = NoIter /\ item = NoItem) \/ iter.table \in Tables \/ TakenFromSection
    BY <1>2 DEF ItemsTaken
  <2>2. NoIter.table # "SectionEntries" /\ "SectionEntries" \notin Tables
    BY DEF NoIter, Tables
  <2>3. iter.table = "SectionEntries" => TakenFromSection
    BY <2>1, <2>2
  <2>. QED BY <2>3, SectionIsRead
<1>. QED BY <1>1, <1>2

(* The invariant says both properties.                                     *)
LEMMA WrittenIsRead ==
  FileWritten /\ HeaderParsed /\ ItemsTaken => FileReadsAsWritten /\ DamageStaysInItsTable
<1>. SUFFICES ASSUME FileWritten, HeaderParsed, ItemsTaken
              PROVE  FileReadsAsWritten /\ DamageStaysInItsTable
  OBVIOUS
<1>1. pc = "Refused" => damage # NoDamage
  BY DEF HeaderParsed
<1>2. ASSUME damage = NoDamage, pc = "Read"
      PROVE  (\A t \in Tables : ReadsTable(t)) /\ ReadsSectionEntries
  BY <1>2, TablesAreRead, NothingSuspect
<1>3. FileReadsAsWritten
  BY <1>1, <1>2, AccessorsAgree, NothingSuspect DEF FileReadsAsWritten
<1>4. damage # NoDamage => program.kind = "Modern"
  BY DEF FileWritten
<1>5. CASE Mistaken
  BY <1>3, <1>5 DEF Mistaken, DamageStaysInItsTable
<1>6. CASE ~Mistaken
  BY <1>3, <1>4, <1>6, TablesAreRead, AccessorsAgree DEF DamageStaysInItsTable
<1>. QED BY <1>5, <1>6

(* It holds at first, and every step keeps it.                             *)
LEMMA InitReads == Init => FileWritten /\ HeaderParsed /\ ItemsTaken
BY FilesAreWritten, InitParsed

LEMMA StepReads ==
  FileWritten /\ HeaderParsed /\ ItemsTaken /\ [Next]_vars
    => FileWritten' /\ HeaderParsed' /\ ItemsTaken'
BY StepParsed, StepTakes

(* Every file a compiler wrote, of NSIS 1.x, 2 or 3, with or without any of *)
(* its tables and late fields, is read back as it was compiled: its header  *)
(* is accepted under its own layout, and all pages, sections, entries,      *)
(* language tables, callbacks, strings and flags come out as they went in.  *)
THEOREM EveryFileReadsAsWritten == Spec => []FileReadsAsWritten
BY InitReads, StepReads, WrittenIsRead, PTL DEF Spec

(* One damaged descriptor, any of them and of any file, costs the file or  *)
(* the table it describes, never another: NsisInstaller::parse refuses the *)
(* header or every other table, and the strings, are read as compiled.     *)
(* Only a header that says its background font lies at 0 (a compiler may,  *)
(* of a script without one) or within the first 24th of it may be taken    *)
(* for one of 1.x, nsisinstaller.rs:453.                                   *)
THEOREM DamageIsContained == Spec => []DamageStaysInItsTable
BY InitReads, StepReads, WrittenIsRead, PTL DEF Spec
================================================================================
