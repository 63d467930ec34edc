----------------------------- MODULE MCStringCodecs -----------------------------
(* Tables of every compiler: strings of up to three parts, alone or after  *)
(* a string that begins with a variable.                                   *)
EXTENDS StringCodecs

(* Separators, a drive, dots, and characters that are codes elsewhere.     *)
PlainText  == {65, 58, 92, 47, 46}
CodeText(c) == IF IsWide(c) THEN {3, 57345} ELSE {3, 252}

Refs(c, count) ==
  IF c = "V1" THEN {Variable(0), Variable(22), Variable(31)}
  ELSE {Variable(21), Variable(28), Variable(count + 200), LangString(0), LangString(300),
        Shell(16, 25), Shell(12, 35), Shell(60, 15), Registry(1, 0), Registry(2, 1)}

Parts(c, count) == {Text(t) : t \in PlainText \cup CodeText(c)} \cup Refs(c, count)

Short(c, count) == UNION {[1 .. n -> Parts(c, count)] : n \in 1 .. 2}

(* A drive at the head of a path, behind a separator, a name or another.   *)
Drives == [1 .. 4 -> {Text(t) : t \in {65, 58, 92}}]
            \cup {<<Text(65), Text(58)>> \o s : s \in [1 .. 3 -> {Text(t) : t \in {65, 58, 92}}]}

Paths == {<<Variable(21)>> \o s : s \in [1 .. 3 -> {Text(t) : t \in PlainText}]}
           \cup [1 .. 4 -> {Text(t) : t \in {46, 47, 92}}] \cup Drives

Opening(c) == {<<>>, <<<<Variable(21), Text(65)>>>>}

(* What lies around the table: other blocks before it, and behind it the   *)
(* language tables, here one with the pointers 1 and p.                    *)
LangTable(p) == <<9, 4, 0, 0, 0, 0, 1, 0, 0, 0, p % 256, p \div 256, 0, 0>>

File(c, count, strings, behind) ==
  [compiler |-> c, built_in |-> count, strings |-> strings, before |-> <<7, 0>>,
   behind |-> behind]

(* A block that ends within a code.                                        *)
CutCodes(c) ==
  IF c = "V1" THEN {<<255>>}
  ELSE {Chars(c, <<Code[c][k]>>) \o more : k \in DOMAIN Code[c], more \in {<<>>, <<0>>, <<0, 0>>}}

Layouts(c) == IF c = "V2" THEN {29, 30, 32} ELSE {32}

(* The list of 2.03 is read as the newest one from its 28th variable on.   *)
Named(count, s) == count # 29 \/ \A k \in DOMAIN s : s[k] # Variable(28)

FilesOf(c) ==
  UNION {{File(c, n, Append(o, s), LangTable(11)) :
            o \in Opening(c), s \in {x \in Short(c, n) \cup Paths : Named(n, x)}} :
         n \in Layouts(c)}
  \cup {File(c, 32, <<>>, cut) : cut \in {<<>>} \cup CutCodes(c)}
  \cup {File(c, 32, <<<<r>>>>, <<>>) : r \in Refs(c, 32)}

MCFiles == UNION {FilesOf(c) : c \in Compilers}

(* A table with text enough that a pointer into it needs its second byte.  *)
LargeFiles == {File("V2", 32, <<<<Variable(21), Text(65)>>>>, LangTable(p)) :
                 p \in {3, 32770, 32771}}
================================================================================
