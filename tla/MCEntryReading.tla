------------------------------ MODULE MCEntryReading ------------------------------
(* Every compiler, with every instruction it has in each of its forms, and *)
(* pairs of the instructions the detection looks at.                       *)
EXTENDS EntryReading, TLC

MCStrings ==
  2 :> <<-2>> @@ 3 :> <<21, -2>> @@ 5 :> <<-5>> @@ 7 :> <<27>> @@ 8 :> <<22>> @@ 9 :> <<29>>

I(op, operands, strings) ==
  [op |-> op, strings |-> strings,
   values |-> [s \in 0 .. 5 |-> IF s < Len(operands) THEN operands[s + 1] ELSE 0]]

Key == -2147483646

(* A REG_MULTI_SZ is compiled as a binary value: its data is an offset.    *)
MultiString == I(51, <<Key, 5, 2, 4, 3, 7>>, {1, 2})

(* Below EW_REGISTERDLL; opcode 37 is the compiler's.                      *)
Plain ==
  {I(0, <<>>, {}), I(1, <<>>, {}), I(2, <<1>>, {}), I(2, <<>>, {}), I(3, <<5>>, {0}),
   I(4, <<>>, {}), I(5, <<2, 0>>, {}), I(5, <<2, 1>>, {}), I(6, <<5>>, {0}),
   I(7, <<5>>, {0}), I(8, <<>>, {}), I(9, <<1, 1>>, {}), I(10, <<5, 1>>, {0}),
   I(11, <<5, 1>>, {0}), I(11, <<5, 0>>, {0}), I(12, <<5, 1, 0>>, {0}),
   I(13, <<2, 5, 0>>, {1}), I(13, <<2, 0, 1>>, {}), I(14, <<1, 0, 2, -1>>, {}),
   I(15, <<1, 2>>, {}), I(16, <<5, 2, 1, 2>>, {0, 1, 3}), I(17, <<5, 1, 0>>, {0}),
   I(18, <<1, 5>>, {1}), I(19, <<1, 5>>, {1}), I(20, <<1, 2, 4, 0, 0, 5>>, {1, 5}),
   I(21, <<5, 4>>, {0}), I(22, <<1, 5, 6, 1>>, {1}), I(22, <<1, 5, 6, 1, 7, 2>>, {1}),
   I(22, <<1, 5>>, {1}), I(23, <<5, 4>>, {0}), I(24, <<1, 5>>, {1}),
   I(25, <<1, 5, 2, 0>>, {1, 2}), I(26, <<5, 2, 1, 0, 0>>, {0, 1}),
   I(27, <<1, 5, 1>>, {1}), I(28, <<5, 2, 1, 0, 2, 1>>, {0, 1}),
   I(29, <<1, 5, 2, 3>>, {1, 2}), I(30, <<1, 5, 2, 0>>, {1, 2}),
   I(31, <<5, 0, 0>>, {0}), I(31, <<1, 1, 0>>, {}), I(31, <<0, 0, 1>>, {}),
   I(32, <<1, 5, 2, 5, 5>>, {1, 2, 3, 4}), I(33, <<-1, 5, 2, 5, 5, 3>>, {1, 2, 3, 4}),
   I(34, <<5, 1, 2>>, {0}), I(36, <<5, 1>>, {0}), I(38, <<1, 5, 2, 5, 1>>, {1, 2, 3}),
   I(39, <<5, 2, 0, 1>>, {0, 1}), I(40, <<5, 2, 5, 1, 0, 5>>, {0, 1, 2, 5}),
   I(41, <<5, 1, 1>>, {0}), I(41, <<5, 0, 0>>, {0}), I(42, <<1, 2, 5>>, {2}),
   I(43, <<1, 2, 5>>, {2})}

(* From EW_REGISTERDLL on.                                                 *)
Shifted ==
  {I(44, <<5, 2, 0, 1>>, {0, 1}), I(44, <<5, 2, 5, 0>>, {0, 1, 2}),
   I(45, <<5, 2, 5, 2, 32769, 5>>, {0, 1, 2, 3, 5}), I(46, <<5, 2, 1, 5>>, {0, 1, 3}),
   I(47, <<195948557>>, {}), I(48, <<5, 2, 5, 5, 1>>, {0, 1, 2, 3}),
   I(48, <<5, 0, 0, 5, 0>>, {0, 3}), I(49, <<1, 5, 2, 5>>, {1, 2, 3}),
   I(50, <<0, Key, 5, 2, 0>>, {2, 3}), I(50, <<0, 1, 5, 0, 1>>, {2}),
   I(51, <<Key, 5, 2, 5, 1, 1>>, {1, 2, 3}), I(51, <<Key, 5, 2, 5, 4, 4>>, {1, 2, 3}),
   I(51, <<Key, 5, 2, 5, 3, 3>>, {1, 2}), MultiString, I(52, <<1, Key, 5, 2, 0>>, {2, 3}),
   I(53, <<1, Key, 5, 2, 0>>, {2, 3}), I(54, <<1>>, {}), I(55, <<1, 3, 3, 5>>, {3}),
   I(56, <<1, 5, 0>>, {1}), I(56, <<1, 5, 1>>, {1}), I(57, <<1, 2, 5, 0>>, {2}),
   I(58, <<2, 3, 5, 2>>, {2}), I(58, <<1, -1, 5, 0>>, {2}), I(59, <<1>>, {}),
   I(60, <<1, 2>>, {}), I(61, <<1, 2, 5>>, {2}), I(62, <<2, 9, 0, 3>>, {0, 3}),
   I(63, <<5, 0, -1, 0, 5>>, {0, 4}), I(63, <<5, 2, -3, 1>>, {0, 1}),
   I(63, <<5, 1, 2>>, {0}), I(64, <<5, 1, 0, 0>>, {0}), I(64, <<5, 2, 1, 0>>, {0, 1}),
   I(64, <<5, 0, 1, 1>>, {0}), I(67, <<1>>, {})}

Wide   == {I(68, <<1, 5, 0>>, {1}), I(69, <<1, 2, 5, 0>>, {2})}
System == {I(65, <<0, 1, 5, 0>>, {2}), I(65, <<0, 1, 5, 1, 2>>, {2, 4})}
Log    == {I(70, <<0, 5>>, {1}), I(70, <<1, 1>>, {})}
Fonts  == <<I(72, <<1, 5>>, {1}), I(73, <<1, 5>>, {1})>>

(* Dialog items and saves of the output directory, where they were.        *)
OldVars(window, outdir) ==
  {I(35, <<1, window, 5>>, {1, 2}), I(25, <<outdir, 8, 0, 0>>, {1})}

Vars(b) ==
  IF b.version = "V2" /\ b.vars # "From226" THEN OldVars(7, 29) ELSE OldVars(9, 31)

Instructions(b) ==
  Plain \cup Shifted \cup Vars(b)
    \cup (IF b.log THEN Log ELSE {})
    \cup (IF b.version = "V3"
            THEN Wide \cup System \cup {I(37, <<1, 5, 2, 65536>>, {1}), I(37, <<-1, 9, 2, 256>>, {2})}
            ELSE {I(37, <<5, 9, 1>>, {0})})
    \cup (IF b.version = "Park"
            THEN Wide \cup {I(71, <<1, 5>>, {1})} \cup {Fonts[k] : k \in 1 .. FontInserts(b.sub)}
            ELSE {})

(* What the detection looks at, or what looks like it.                     *)
Telling(b) ==
  {i \in Instructions(b) : i.op \in {25, 35, 45, 58, 62, 63, 64, 65, 67, 69, 70, 71, 73}}

Singles(b) == {<<i>> : i \in Instructions(b)}
Pairs(b)   == {<<i, j>> : i \in Telling(b), j \in Telling(b)}

MCBuilds ==
  {[version |-> "V2", sub |-> "Park1", vars |-> v, log |-> l] :
     v \in Nsis2SubVersion, l \in BOOLEAN}
  \cup {[version |-> "V3", sub |-> "Park1", vars |-> "From226", log |-> l] : l \in BOOLEAN}
  \cup {[version |-> "Park", sub |-> s, vars |-> "From226", log |-> s = "Park3"] :
          s \in ParkSubVersion}

MCCodes == [b \in MCBuilds |-> Singles(b) \cup Pairs(b)]

(* An NSIS 3 file that writes one.                                         *)
MultiStringBuilds == {b \in MCBuilds : b.version = "V3"}
MultiStringCodes  == [b \in MultiStringBuilds |-> {<<MultiString>>}]

(* NSIS 1.x, in its own numbers: a message box with two buttons.           *)
LegacyBuild ==
  [version |-> "V1", sub |-> "Park1", vars |-> "UpTo203", log |-> TRUE]

Legacy ==
  {I(1, <<>>, {}), I(2, <<1>>, {}), I(3, <<5>>, {0}), I(5, <<2, 0>>, {}), I(7, <<5>>, {0}),
   I(15, <<5, 1, 2>>, {0}), I(27, <<5, 2, 1, 2>>, {0, 1}), I(36, <<5, 1, 2>>, {0}),
   I(23, <<1, 5, 6, 1, 2>>, {1})}

LegacyBuilds == {LegacyBuild}
LegacyCodes ==
  [b \in LegacyBuilds |-> {<<i>> : i \in Legacy} \cup {<<i, j>> : i \in Legacy, j \in Legacy}]
===============================================================================
