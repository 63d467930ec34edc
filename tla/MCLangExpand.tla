----------------------------- MODULE MCLangExpand -----------------------------
(* Small language tables for LangExpand.                                    *)
EXTENDS LangExpand

T    == [tag |-> "Text", value |-> "text"]
L(i) == [tag |-> "LangString", value |-> i]

Segments == {T} \cup {L(i) : i \in Index}

StringsUpTo(n) == UNION {[1 .. k -> Segments] : k \in 0 .. n}

Readings(strings) == {[ok |-> TRUE, string |-> s] : s \in strings} \cup {[ok |-> FALSE]}

(* Tables of three strings; the index past them is in no table.  The first *)
(* two strings are any of at most two segments.                            *)
SmallTables ==
  LET any  == Readings(StringsUpTo(2))
      last == Readings({<<T>>, <<L(0)>>, <<L(1), T>>})
  IN  {[i \in 0 .. 2 |-> IF i = 0 THEN a ELSE IF i = 1 THEN b ELSE c] :
         a \in any, b \in any, c \in last}

SmallCalls ==
  [name : {"read_lang"}, index : {0, 2, 3}]
    \cup [name : {"resolve_lang"}, string : {<<L(0), L(1)>>, <<L(2)>>, <<L(3), T>>}]
===============================================================================
