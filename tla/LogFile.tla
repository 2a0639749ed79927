------------------------------- MODULE LogFile -------------------------------
(***************************************************************************)
(* A log file that other programs write and rotate, and what its followers *)
(* make of it.                                                             *)
(*                                                                         *)
(*   iter_new_lines                 sensors/collector/tailer.py            *)
(*   FileTailer.read_new_lines      agent/agent.py                         *)
(*                                                                         *)
(* A line is written in two pieces, together or one after the other; an    *)
(* offset counts pieces.  A file whose inode differs is another file; one  *)
(* that is truncated keeps its inode.                                      *)
(***************************************************************************)
EXTENDS Naturals, Sequences, FiniteSets, FiniteSetsExt

CONSTANTS
  MaxHappenings,    \* bounds of a run: lines, rotations, truncations, visits,
  MaxFaults         \*   deaths of followers, failed posts and sends

ASSUME LogFileConstants == {MaxHappenings, MaxFaults} \subseteq Nat

VARIABLES
  file,         \* the file under the path: its inode, and its pieces <<line, half>>
  written,      \* lines begun so far
  turns,        \* rotations and truncations so far
  happenings, faults

fileVars == <<file, written, turns, happenings>>

LineIds == 1 .. MaxHappenings

FileInit ==
  /\ file = [inode |-> 1, pieces |-> <<>>]
  /\ written = 0 /\ turns = 0
  /\ happenings = 0 /\ faults = 0

Happens == happenings < MaxHappenings /\ happenings' = happenings + 1

Fault == faults < MaxFaults /\ faults' = faults + 1

Size == Len(file.pieces)

InLine == Size > 0 /\ file.pieces[Size][2] = 1

WriteLine ==
  /\ ~InLine
  /\ Happens
  /\ written' = written + 1
  /\ \E halves \in {<<1>>, <<1, 2>>} :
       file' = [file EXCEPT !.pieces = @ \o [i \in DOMAIN halves |-> <<written', halves[i]>>]]
  /\ UNCHANGED turns

FinishLine ==
  /\ InLine
  /\ file' = [file EXCEPT !.pieces = @ \o <<<<written, 2>>>>]
  /\ UNCHANGED <<written, turns, happenings>>

Turn ==
  /\ ~InLine
  /\ Happens
  /\ turns' = turns + 1
  /\ UNCHANGED written

Rotate   == Turn /\ file' = [inode |-> file.inode + 1, pieces |-> <<>>]
Truncate == Turn /\ file' = [file EXCEPT !.pieces = <<>>]

FileStep == (WriteLine \/ FinishLine \/ Rotate \/ Truncate) /\ UNCHANGED faults

-----------------------------------------------------------------------------
(* A follower keeps the inode it saw, 0 at first, and an offset. *)

Nowhere == [inode |-> 0, offset |-> 0]

\* Mutation of StartAt: a follower at the end of the file starts over.
StartAtEnd(p) ==
  IF (p.inode # 0 /\ p.inode # file.inode) \/ p.offset >= Size THEN 0 ELSE p.offset

\* Where a follower starts, of the file as stat sees it.
StartAt(p) ==
  IF (p.inode # 0 /\ p.inode # file.inode) \/ p.offset > Size THEN 0 ELSE p.offset

\* What it reads then, of the file as open finds it.
ReadFrom(start) == SubSeq(file.pieces, start + 1, Size)

\* What lies before that.
Before(start) == SubSeq(file.pieces, 1, IF start > Size THEN Size ELSE start)

\* Where it is then: a seek behind the end stays there.
EndsAt(start) == IF start > Size THEN start ELSE Size

HalvesOf(pieces, n) == {h \in {1, 2} : \E i \in DOMAIN pieces : pieces[i] = <<n, h>>}

\* The lines of pieces, those of which a half is missing included.  Lines are
\* numbered as they stand in the file, so who takes the least takes the next.
LinesIn(pieces) == {n \in LineIds : HalvesOf(pieces, n) # {}}

IsWhole(pieces, n) == HalvesOf(pieces, n) = {1, 2}
=============================================================================
