---------------------------- MODULE ExtractionPath ----------------------------
(***************************************************************************)
(* strings/mod.rs, sanitize_extraction_path: the relative path a rendered  *)
(* string stands for.  Characters are numbers; a symbol that stands for a  *)
(* name is above every character.                                          *)
(***************************************************************************)
EXTENDS Integers, Sequences

Slash      == 47
Backslash  == 92
Separators == {Slash, Backslash}

Dot        == <<46>>
DotDot     == <<46, 46>>
Underscore == <<95>>

starts_with_drive_letter(text) ==
  Len(text) >= 2 /\ text[1] \in 65 .. 90 \cup 97 .. 122 /\ text[2] = 58

is_drive_letter(part) == Len(part) = 2 /\ starts_with_drive_letter(part)

(* rendered.split, one character after another.                            *)
Divided(parts, c, separators) ==
  IF c \in separators THEN Append(parts, <<>>)
  ELSE [parts EXCEPT ![Len(parts)] = Append(@, c)]

SplitUpTo(separators, text) ==
  LET split[n \in 0 .. Len(text)] ==
        IF n = 0 THEN <<<<>>>> ELSE Divided(split[n - 1], text[n], separators)
  IN  split

SplitOn(separators, text) == SplitUpTo(separators, text)[Len(text)]

(* The loop over the components: one is skipped or appended.               *)
IsSkipped(part, position) ==
  part \in {<<>>, Dot} \/ (position = 1 /\ is_drive_letter(part))

Name(part) == IF part = DotDot THEN Underscore ELSE part

Extended(path, part, position) ==
  IF IsSkipped(part, position) THEN path
  ELSE IF path = <<>> THEN Name(part)
  ELSE Append(path, Slash) \o Name(part)

PathUpTo(parts) ==
  LET path[k \in 0 .. Len(parts)] ==
        IF k = 0 THEN <<>> ELSE Extended(path[k - 1], parts[k], k)
  IN  path

PathOf(parts) == PathUpTo(parts)[Len(parts)]

(* Mutant: only the installer's own separator splits.                      *)
sanitize_backslashes(text) == PathOf(SplitOn({Backslash}, text))

sanitize_extraction_path(text) == PathOf(SplitOn(Separators, text))

-----------------------------------------------------------------------------

(* The places where the components of a path begin and end.                *)
Edges(path) == {0, Len(path) + 1} \cup {i \in DOMAIN path : path[i] \in Separators}

Adjacent(path, i, j) ==
  i \in Edges(path) /\ j \in Edges(path) /\ i < j
    /\ \A k \in Edges(path) : k <= i \/ k >= j

(* No component of the path is empty, "." or "..".                         *)
IsTraversalFree(path) ==
  path # <<>> =>
    \A i, j \in 0 .. Len(path) + 1 :
      Adjacent(path, i, j) => SubSeq(path, i + 1, j - 1) \notin {<<>>, Dot, DotDot}

(* Joined to a directory, the path names a place in it: it is free of      *)
(* traversals and does not begin with a drive of its own.                  *)
StaysBelow(path) == IsTraversalFree(path) /\ ~starts_with_drive_letter(path)

(* The drives of a text can be told where each is the whole first component*)
(* or has a name before it, behind which it cannot lead the path.          *)
IsPlainName(part) == part \notin {<<>>, Dot} /\ ~starts_with_drive_letter(part)

DrivesAreTold(text) ==
  LET parts == SplitOn(Separators, text)
  IN \A k \in DOMAIN parts : starts_with_drive_letter(parts[k]) =>
       (k = 1 /\ Len(parts[k]) = 2) \/ \E j \in 1 .. k - 1 : IsPlainName(parts[j])

(* The sanitised path of a text.                                           *)
IsSafe(path, text) ==
  IsTraversalFree(path) /\ (DrivesAreTold(text) => StaysBelow(path))
===============================================================================
