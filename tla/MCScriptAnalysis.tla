--------------------------- MODULE MCScriptAnalysis ---------------------------
(* Small scripts for ScriptAnalysis: every sequence of Length entries drawn *)
(* from an alphabet of instructions, under every choice of root operands.   *)
EXTENDS ScriptAnalysis

Args(f) == [s \in Slots |-> IF s \in DOMAIN f THEN f[s] ELSE 0]
Ins(op, f) == [op |-> op, args |-> Args(f)]

At(s, v)         == [x \in {s} |-> v]
Two(s, v, t, w)  == [x \in {s, t} |-> IF x = s THEN v ELSE w]

Ret         == Ins("RET", <<>>)
Plain       == Ins("OTHER", <<>>)
Nop         == Ins("NOP", <<>>)
Jump(r)     == Ins("NOP", At(0, r))
CallTo(r)   == Ins("CALL", At(0, r))
CallLbl(r)  == Ins("CALL", Two(0, r, 1, 1))
Flag(a, b)  == Ins("IFFLAG", Two(0, a, 1, b))
IntCmp(a, b)  == Ins("INTCMP", Two(2, a, 4, b))
MsgBox(a, b) == Ins("MESSAGEBOX", Two(3, a, 5, b))

ScriptsOver(alphabet, length, hooks) ==
  [count : {length}, code : [0 .. length - 1 -> alphabet], hooks : hooks,
   readable : {TRUE}]

Unreadable == [count |-> 1, code |-> [i \in {0} |-> Ret], hooks |-> {}, readable |-> FALSE]

Hook(k, r) == [kind |-> k, raw |-> r]

(* Jumps, calls and branches between the entries of a short script; one    *)
(* root besides entry zero.                                                *)
RegionAlphabet ==
  {Ret, Plain, CallTo(2), CallTo(4), CallLbl(3)} \cup {Jump(t) : t \in 1 .. 4}
    \cup {Flag(0, t) : t \in 1 .. 4}

RegionHooks == {{}, {Hook("Section", 2)}}

(* Of four entries: one call of each kind, three targets of jump and branch.*)
FourEntryAlphabet == RegionAlphabet \ {CallTo(4), Jump(2), Flag(0, 3)}

RegionScripts ==
  ScriptsOver(RegionAlphabet, 3, RegionHooks)
    \cup ScriptsOver(FourEntryAlphabet, 4, RegionHooks)

(* Every form of operand: absent, static, past the end, a variable, and    *)
(* negative beyond the range of variables.                                 *)
Raws == {0, 1, 3, 4, -1, -65537}

OperandAlphabet ==
  {Ret, Ins("ABORT", <<>>), Ins("QUIT", <<>>), Plain, Nop}
    \cup {Jump(t) : t \in Raws \ {0}}
    \cup {CallTo(t) : t \in Raws} \cup {CallLbl(t) : t \in Raws}
    \cup {IntCmp(a, b) : a \in {0, 2}, b \in {1, -1}}
    \cup {MsgBox(a, b) : a \in {0, 2}, b \in {0, 1}}
    \cup {Ins("IFFILEEXISTS", Two(1, 1, 2, 3)), Ins("STRCMP", At(3, 2)),
          Ins("ISWINDOW", At(1, 4))}

OperandHooks == {{Hook("Callback", -1), Hook("Page", 1)}, {Hook("Section", 3)}}

(* The last of three entries is one of few: every form of operand is met   *)
(* before it, and in scripts of one entry.                                 *)
LastEntries == {Ret, Plain, Jump(1), Jump(2), CallLbl(1)}

ThreeEntries == {c \in [0 .. 2 -> OperandAlphabet] : c[2] \in LastEntries}

OperandScripts ==
  ScriptsOver(OperandAlphabet, 0, OperandHooks)
    \cup ScriptsOver(OperandAlphabet, 1, OperandHooks)
    \cup [count : {3}, code : ThreeEntries, hooks : OperandHooks,
          readable : {TRUE}]

MCScripts == OperandScripts \cup RegionScripts \cup {Unreadable}
===============================================================================
