---------------------------- MODULE AnalysisCache -----------------------------
(***************************************************************************)
(* NsisInstaller::script_analysis() called by several threads on one       *)
(* installer.  The cell is a std::sync::OnceLock: get() sees a value only  *)
(* once it is complete; get_or_init() lets one caller write and makes the  *)
(* others wait for it.  An analysis is a reference: two computed from the  *)
(* same installer are equal but not the same.                              *)
(***************************************************************************)
EXTENDS Naturals

CONSTANTS
  Callers,       (* Threads that share the installer.                      *)
  Nobody, Empty, (* No caller writes; the cell holds nothing.              *)
  MaxAnalyses    (* Bound: a caller stops calling after so many analyses.  *)

ASSUME CallersAssumption == Nobody \notin Callers
ASSUME BoundAssumption   == MaxAnalyses \in Nat

(* The n-th analysis a caller computes.                                    *)
Analyses == [by : Callers, n : Nat]

ASSUME EmptyAssumption == Empty \notin Analyses

VARIABLES
  readable,  (* Whether every structure of the installer parses.           *)
  cell,      (* NsisInstaller::analysis.                                   *)
  writer,    (* The caller get_or_init() lets write.                       *)
  pc,        (* Where each caller is.                                      *)
  made,      (* How many analyses each caller has computed.                *)
  answers    (* The references each caller has been given.                 *)

vars == <<readable, cell, writer, pc, made, answers>>

Init ==
  /\ readable \in BOOLEAN
  /\ cell = Empty /\ writer = Nobody
  /\ pc = [c \in Callers |-> "idle"]
  /\ made = [c \in Callers |-> 0]
  /\ answers = [c \in Callers |-> {}]

Goto(c, from, to) == pc[c] = from /\ pc' = [pc EXCEPT ![c] = to]

Call(c) ==
  /\ Goto(c, "idle", "get")
  /\ made[c] < MaxAnalyses
  /\ UNCHANGED <<readable, cell, writer, made, answers>>

Return(c) == answers' = [answers EXCEPT ![c] = @ \cup {cell}]

Hit(c) ==
  /\ cell # Empty
  /\ Goto(c, "get", "idle")
  /\ Return(c)
  /\ UNCHANGED <<readable, cell, writer, made>>

(* Mutant: the cell is not looked at before analysing.                     *)
MissAlways(c) ==
  /\ Goto(c, "get", "analyze")
  /\ UNCHANGED <<readable, cell, writer, made, answers>>

Miss(c) ==
  /\ cell = Empty
  /\ Goto(c, "get", "analyze")
  /\ UNCHANGED <<readable, cell, writer, made, answers>>

(* script::analyze() fails for all callers or for none; a failure returns  *)
(* before anything is published.                                           *)
Analyze(c) ==
  /\ Goto(c, "analyze", IF readable THEN "publish" ELSE "idle")
  /\ made' = [made EXCEPT ![c] = @ + 1]
  /\ UNCHANGED <<readable, cell, writer, answers>>

(* Mutant: a caller does not wait for the one that writes.                 *)
ClaimAnyway(c) ==
  /\ Goto(c, "publish", "write")
  /\ writer' = c
  /\ UNCHANGED <<readable, cell, made, answers>>

(* get_or_init(): the first caller to come claims the cell, ...            *)
Claim(c) ==
  /\ cell = Empty /\ writer = Nobody
  /\ Goto(c, "publish", "write")
  /\ writer' = c
  /\ UNCHANGED <<readable, cell, made, answers>>

(* Mutant: a claim ends without a value and is never given back.           *)
WriteNothing(c) ==
  /\ Goto(c, "write", "publish")
  /\ UNCHANGED <<readable, cell, writer, made, answers>>

(* ... writes its analysis, ...                                            *)
Write(c) ==
  /\ Goto(c, "write", "publish")
  /\ cell' = [by |-> c, n |-> made[c]]
  /\ writer' = Nobody
  /\ UNCHANGED <<readable, made, answers>>

(* ... and it and everyone who waited return what the cell holds.          *)
Take(c) ==
  /\ cell # Empty
  /\ Goto(c, "publish", "idle")
  /\ Return(c)
  /\ UNCHANGED <<readable, cell, writer, made>>

Step(c) == Hit(c) \/ Miss(c) \/ Analyze(c) \/ Claim(c) \/ Write(c) \/ Take(c)

(* Nobody has to call.                                                     *)
Quiet == (\A c \in Callers : pc[c] = "idle") /\ UNCHANGED vars

Next == (\E c \in Callers : Call(c) \/ Step(c)) \/ Quiet

(* A call that was made keeps running: the threads are scheduled fairly.   *)
Spec == Init /\ [][Next]_vars /\ \A c \in Callers : WF_vars(Step(c))
-----------------------------------------------------------------------------
(* Properties.                                                             *)

(* Types; and the cell is written, once, by the caller that claimed it.    *)
TypeOK ==
  /\ readable \in BOOLEAN
  /\ cell \in Analyses \cup {Empty} /\ writer \in Callers \cup {Nobody}
  /\ pc \in [Callers -> {"idle", "get", "analyze", "publish", "write"}]
  /\ made \in [Callers -> 0 .. MaxAnalyses]
  /\ answers \in [Callers -> SUBSET Analyses]
  /\ \A c \in Callers : pc[c] = "write" <=> writer = c
  /\ writer # Nobody => cell = Empty

(* "The first to finish wins and the other's copy is dropped"              *)
(* (nsisinstaller.rs:1541): however calls overlap there is one analysis,   *)
(* it is never replaced, and every call that succeeds returns that one.    *)
Memo == INSTANCE AnalysisMemo WITH value <- cell, Undecided <- Empty

ImplementsMemo == Memo!Spec

(* A readable installer is analysed at most once by each caller, however   *)
(* often it calls: the race costs one analysis per thread, not per call.   *)
AnalysedOnce == readable => \A c \in Callers : made[c] <= 1

(* No caller waits for ever for another one's analysis.                    *)
EveryCallReturns == \A c \in Callers : pc[c] # "idle" ~> pc[c] = "idle"
===============================================================================
