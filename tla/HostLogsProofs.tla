--------------------------- MODULE HostLogsProofs ---------------------------
(***************************************************************************)
(* Theorems about HostLogs, for any number of lines, rotations,            *)
(* truncations, visits and faults, any sizes of batches and pages.         *)
(*                                                                         *)
(* A follower sends a line twice only if it reads it twice.  What carries  *)
(* the theorems is that the whole of a line that was read in its place     *)
(* lies behind the offset of the follower for as long as the file is the   *)
(* one of its inode, and is gone from any other.                           *)
(*                                                                         *)
(* It skips a line only if it passes it: what lies before an offset about  *)
(* this turn of the file was read, and what was read is held until it      *)
(* arrives.  A visit is skipped only if the place in the history passes    *)
(* it, which is that of a visit that was read.                             *)
(***************************************************************************)
EXTENDS HostLogs, FiniteSetTheorems, WellFoundedInduction, NaturalsInduction, TLAPS

(* Numbers. *)

\* Every set of numbers that is not empty has a least one.
LEMMA LeastNumber ==
  ASSUME NEW T \in SUBSET Nat, T # {}
  PROVE  \E x \in T : \A y \in T : x <= y
<1> DEFINE R == {ss \in Nat \X Nat : ss[1] < ss[2]}
<1>1. IsWellFoundedOn(R, Nat)
  BY NatLessThanWellFounded DEF OpToRel
<1>2. \A x, y \in Nat : y < x => <<y, x>> \in R
  OBVIOUS
<1>3. \E x \in T : \A y \in T : ~ (<<y, x>> \in R)
  <2> HIDE DEF R
  <2> QED  BY <1>1, WFMin, Zenon
<1>4. \A x, y \in Nat : ~ (y < x) => x <= y
  OBVIOUS
<1> HIDE DEF R
<1> QED  BY <1>2, <1>3, <1>4, Zenon

\* Min takes a member.
LEMMA MinIsMember ==
  ASSUME NEW T \in SUBSET Nat, T # {}
  PROVE  Min(T) \in T
<1>1. \E x \in T : \A y \in T : x <= y
  BY LeastNumber
<1> QED  BY <1>1 DEF Min

\* Max takes a member, and none is greater, as long as there is a bound.
LEMMA MaxIsGreatest ==
  ASSUME NEW T \in SUBSET Nat, T # {}, NEW n \in Nat, \A x \in T : x <= n
  PROVE  Max(T) \in T /\ \A y \in T : Max(T) >= y
<1> DEFINE gaps == {n - x : x \in T}
<1>1. gaps \in SUBSET Nat /\ gaps # {}
  OBVIOUS
<1>2. PICK d \in gaps : \A e \in gaps : d <= e
  <2> HIDE DEF gaps
  <2> QED  BY <1>1, LeastNumber
<1>3. PICK x \in T : d = n - x
  OBVIOUS
<1>4. \A y \in T : x >= y
  BY <1>2, <1>3
<1>5. \E z \in T : \A y \in T : z >= y
  BY <1>4
<1> QED  BY <1>5 DEF Max

-----------------------------------------------------------------------------
(* The file. *)

\* Lines are numbered as they are begun, and nothing stands between their halves.
FileInOrder ==
  /\ file.inode > 0 /\ written <= happenings
  /\ \A i \in DOMAIN file.pieces : file.pieces[i][1] <= written
  /\ \A i, j \in DOMAIN file.pieces :
       i < j /\ file.pieces[i][2] = 2 => file.pieces[i][1] < file.pieces[j][1]
  /\ InLine => file.pieces[Size][1] = written

\* Line n is complete, and who is at place p does not read it again.
Behind(p, n) ==
  /\ n <= written /\ ~ (InLine /\ n = written)
  /\ \A i \in DOMAIN file.pieces :
       file.pieces[i][1] = n => p.inode = file.inode /\ i <= p.offset /\ p.offset <= Size

InSensor(n) == sensor.at \in {"add", "post"} /\ n \in sensor.todo \cup sensor.batch

InAgent(n) == agent.at = "lines" /\ n \in agent.todo

\* A line that the collector read in its place is behind the collector and
\* behind what it has saved.
SensorIsAhead ==
  tears = 0 =>
    \A n \in LineIds \ raced :
      arrived[n] > 0 \/ InSensor(n) =>
        Behind(state, n) /\ (sensor.at # "down" => Behind(sensor.place, n))

\* It is in one place, and in none once it has arrived.
SensorHoldsOnce ==
  /\ sensor.at \in {"add", "post"} => sensor.todo \cap sensor.batch = {}
  /\ tears = 0 => \A n \in LineIds \ (raced \cup repeated) : ~ (arrived[n] > 0 /\ InSensor(n))

\* The same for the agent, since it was started.
AgentIsAhead ==
  \A n \in LineIds \ misread :
    /\ sent[n] > 0 \/ InAgent(n) => Behind(agent.place, n)
    /\ ~ (sent[n] > 0 /\ InAgent(n))

\* The place in the history is that of a visit that was read, and not after the
\* last one.
VisitsAreKnown ==
  /\ \A u \in Urls : lastVisit[u] <= happenings
  /\ urlState > 0 => /\ \E v \in Urls : <<v, urlState>> \in read
                     /\ \E v \in Urls : urlState <= lastVisit[v]

\* A half that is read from a place stands in the file after that place.
LEMMA ReadIsAfter ==
  ASSUME TypeOK, NEW start \in Nat, NEW n \in LineIds, NEW h \in HalvesOf(ReadFrom(start), n)
  PROVE  \E i \in DOMAIN file.pieces : i > start /\ file.pieces[i] = <<n, h>>
<1> DEFINE pieces == file.pieces
<1>1. pieces \in Seq(LineIds \X {1, 2})
  BY DEF TypeOK
<1>2. PICK k \in DOMAIN SubSeq(pieces, start + 1, Len(pieces)) :
           SubSeq(pieces, start + 1, Len(pieces))[k] = <<n, h>>
  BY DEF HalvesOf, ReadFrom, Size
<1> HIDE DEF pieces
<1>3. k \in 1 .. Len(pieces) - start /\ start + k \in 1 .. Len(pieces)
      /\ SubSeq(pieces, start + 1, Len(pieces))[k] = pieces[start + k]
  BY <1>1, <1>2
<1> QED  BY <1>1, <1>2, <1>3 DEF pieces

\* What is read whole was behind nobody who starts there, and is behind who has
\* read it in the file of its inode.
LEMMA WholeIsRead ==
  ASSUME TypeOK, FileInOrder, NEW p \in Place, NEW n \in LineIds,
         IsWhole(ReadFrom(p.offset), n)
  PROVE  /\ ~ Behind(p, n)
         /\ p.inode = file.inode => Behind([p EXCEPT !.offset = EndsAt(p.offset)], n)
<1>1. p.offset \in Nat /\ file.pieces \in Seq(LineIds \X {1, 2}) /\ Size \in Nat
  BY DEF Place, TypeOK, Size
<1>2. 1 \in HalvesOf(ReadFrom(p.offset), n) /\ 2 \in HalvesOf(ReadFrom(p.offset), n)
  BY DEF IsWhole
<1>3. PICK i \in DOMAIN file.pieces : i > p.offset /\ file.pieces[i] = <<n, 2>>
  BY <1>1, <1>2, ReadIsAfter
<1>4. i \in 1 .. Size /\ file.pieces[i][1] = n /\ file.pieces[i][2] = 2
  BY <1>1, <1>3 DEF Size
<1>5. ~ Behind(p, n)
  BY <1>1, <1>3, <1>4 DEF Behind
<1>6. n <= written
  BY <1>3, <1>4 DEF FileInOrder
<1>7. ~ (InLine /\ n = written)
  <2> SUFFICES ASSUME InLine, n = written PROVE FALSE
    OBVIOUS
  <2>1. file.pieces[Size][2] = 1 /\ file.pieces[Size][1] = written
    BY DEF InLine, FileInOrder
  <2>2. i # Size
    BY <1>4, <2>1
  <2>3. i < Size /\ Size \in DOMAIN file.pieces
    BY <1>1, <1>4, <2>2 DEF Size
  <2>4. file.pieces[i][1] < file.pieces[Size][1]
    BY <1>3, <1>4, <2>3 DEF FileInOrder
  <2>5. n \in Nat
    BY DEF LineIds
  <2> QED  BY <1>4, <2>1, <2>4, <2>5
<1>8. ASSUME p.inode = file.inode PROVE Behind([p EXCEPT !.offset = EndsAt(p.offset)], n)
  <2> DEFINE q == [p EXCEPT !.offset = EndsAt(p.offset)]
  <2>1. EndsAt(p.offset) = Size
    BY <1>1, <1>3, <1>4 DEF EndsAt
  <2>2. q.inode = file.inode /\ q.offset = Size
    BY <1>8, <2>1 DEF Place
  <2> HIDE DEF q
  <2>3. \A j \in DOMAIN file.pieces : j <= Size
    BY <1>1 DEF Size
  <2>4. Behind(q, n)
    BY <1>1, <1>6, <1>7, <2>2, <2>3 DEF Behind
  <2> QED  BY <2>4 DEF q
<1> QED  BY <1>5, <1>8

\* What is behind a follower stays so when it looks at the file again,
LEMMA BehindAfterStat ==
  ASSUME TypeOK, NEW p \in Place, NEW n \in LineIds, Behind(p, n)
  PROVE  Behind([inode |-> file.inode, offset |-> StartAt(p)], n)
<1> DEFINE q == [inode |-> file.inode, offset |-> StartAt(p)]
<1>1. q.inode = file.inode /\ q.offset = StartAt(p)
  OBVIOUS
<1>2. p.offset \in Nat /\ Size \in Nat
  BY DEF Place, TypeOK, Size
<1>3. p.inode = file.inode /\ p.offset <= Size => StartAt(p) = p.offset
  BY <1>2 DEF StartAt
<1> HIDE DEF q
<1>4. Behind(q, n)
  BY <1>1, <1>3 DEF Behind
<1> QED  BY <1>4 DEF q

\* and when it reads.
LEMMA BehindAfterRead ==
  ASSUME TypeOK, NEW p \in Place, NEW n \in LineIds, Behind(p, n)
  PROVE  Behind([p EXCEPT !.offset = EndsAt(p.offset)], n)
<1> DEFINE q == [p EXCEPT !.offset = EndsAt(p.offset)]
<1>1. q.inode = p.inode /\ q.offset = EndsAt(p.offset)
  BY DEF Place
<1>2. p.offset \in Nat /\ Size \in Nat
  BY DEF Place, TypeOK, Size
<1>3. p.offset <= Size => EndsAt(p.offset) = Size
  BY <1>2 DEF EndsAt
<1>4. \A i \in DOMAIN file.pieces : i <= Size
  BY DEF TypeOK, Size
<1> HIDE DEF q
<1>5. Behind(q, n)
  BY <1>1, <1>2, <1>3, <1>4 DEF Behind
<1> QED  BY <1>5 DEF q

\* What a write makes of the file: what stood in it stands where it stood, and
\* what is new is of the line being written.
LEMMA WriteGrows ==
  ASSUME TypeOK, FileInOrder, WriteLine \/ FinishLine
  PROVE  /\ file'.inode = file.inode /\ Size' \in Nat /\ Size < Size'
         /\ DOMAIN file.pieces = 1 .. Size /\ (DOMAIN file.pieces)' = 1 .. Size'
         /\ \A i \in 1 .. Size : file'.pieces[i] = file.pieces[i]
         /\ \A i \in Size + 1 .. Size' : file'.pieces[i][1] = written'
         /\ \A i \in Size + 1 .. Size' : i < Size' => file'.pieces[i][2] = 1
         /\ WriteLine => ~ InLine /\ written' = written + 1 /\ happenings' = happenings + 1
         /\ FinishLine => InLine /\ ~ InLine' /\ UNCHANGED <<written, happenings>>
<1>1. file \in [inode : Nat, pieces : Seq(LineIds \X {1, 2})]
  BY DEF TypeOK
<1>2. ASSUME NEW add \in Seq(Nat \X {1, 2}), Len(add) \in 1 .. 2,
             file' = [file EXCEPT !.pieces = @ \o add],
             \A i \in 1 .. Len(add) : add[i][1] = written',
             \A i \in 1 .. Len(add) : i < Len(add) => add[i][2] = 1
      PROVE  /\ file'.inode = file.inode /\ Size' \in Nat /\ Size < Size'
             /\ DOMAIN file.pieces = 1 .. Size /\ (DOMAIN file.pieces)' = 1 .. Size'
             /\ \A i \in 1 .. Size : file'.pieces[i] = file.pieces[i]
             /\ \A i \in Size + 1 .. Size' : file'.pieces[i][1] = written'
             /\ \A i \in Size + 1 .. Size' : i < Size' => file'.pieces[i][2] = 1
             /\ Size' = Size + Len(add) /\ file'.pieces[Size'] = add[Len(add)]
  <2>1. file'.inode = file.inode /\ file'.pieces = file.pieces \o add
    BY <1>1, <1>2
  <2> DEFINE old == file.pieces
  <2>2. old \in Seq(Nat \X {1, 2})
    BY <1>1 DEF LineIds
  <2>3. Size = Len(old) /\ Size' = Len(old \o add)
    BY <2>1 DEF Size
  <2> HIDE DEF old
  <2>4. Len(old \o add) = Len(old) + Len(add) /\ Len(old) \in Nat
    BY <1>2, <2>2
  <2>5. /\ \A i \in 1 .. Len(old) : (old \o add)[i] = old[i]
        /\ \A i \in 1 .. Len(add) : (old \o add)[Len(old) + i] = add[i]
    BY <1>2, <2>2
  <2>6. DOMAIN old = 1 .. Len(old) /\ DOMAIN (old \o add) = 1 .. Len(old) + Len(add)
    BY <1>2, <2>2
  <2>7. \A i \in Size + 1 .. Size' : i - Len(old) \in 1 .. Len(add) /\ Len(old) + (i - Len(old)) = i
    BY <1>2, <2>3, <2>4
  <2>8. \A i \in Size + 1 .. Size' : (old \o add)[i] = add[i - Len(old)]
    BY <2>5, <2>7
  <2>9. \A i \in Size + 1 .. Size' : i < Size' => i - Len(old) < Len(add)
    BY <1>2, <2>3, <2>4
  <2>10. file'.pieces = old \o add /\ file.pieces = old
    BY <2>1 DEF old
  <2>11. Len(add) \in Nat /\ Len(add) >= 1
    BY <1>2
  <2>12. Size' = Size + Len(add) /\ Size \in Nat /\ Size' \in Nat /\ Size < Size'
    BY <2>3, <2>4, <2>11
  <2>13. DOMAIN file.pieces = 1 .. Size /\ (DOMAIN file.pieces)' = 1 .. Size'
    BY <2>3, <2>4, <2>6, <2>10
  <2>14. \A i \in 1 .. Size : file'.pieces[i] = file.pieces[i]
    BY <2>3, <2>5, <2>10
  <2>15. \A i \in Size + 1 .. Size' : file'.pieces[i][1] = written'
    BY <1>2, <2>7, <2>8, <2>10
  <2>16. \A i \in Size + 1 .. Size' : i < Size' => file'.pieces[i][2] = 1
    BY <1>2, <2>7, <2>8, <2>9, <2>10
  <2>17. file'.pieces[Size'] = add[Len(add)]
    BY <2>3, <2>4, <2>5, <2>10, <2>11
  <2> QED  BY <2>1, <2>12, <2>13, <2>14, <2>15, <2>16, <2>17
<1>3. CASE WriteLine
  <2>1. PICK halves \in {<<1>>, <<1, 2>>} :
             file' = [file EXCEPT !.pieces = @ \o [i \in DOMAIN halves |-> <<written', halves[i]>>]]
    BY <1>3 DEF WriteLine
  <2> DEFINE add == [i \in DOMAIN halves |-> <<written', halves[i]>>]
  <2>2. written' \in Nat /\ written' = written + 1 /\ ~ InLine /\ happenings' = happenings + 1
    <3>1. written \in Nat
      BY DEF TypeOK
    <3>2. written' = written + 1 /\ ~ InLine /\ happenings' = happenings + 1
      BY <1>3 DEF WriteLine, Happens
    <3> QED  BY <3>1, <3>2
  <2>3. /\ add \in Seq(Nat \X {1, 2}) /\ Len(add) \in 1 .. 2
        /\ \A i \in 1 .. Len(add) : add[i][1] = written'
        /\ \A i \in 1 .. Len(add) : i < Len(add) => add[i][2] = 1
    <3>1. CASE halves = <<1>>
      <4>1. add = <<<<written', 1>>>>
        BY <3>1
      <4> HIDE DEF add
      <4> QED  BY <2>2, <4>1
    <3>2. CASE halves = <<1, 2>>
      <4>1. add = <<<<written', 1>>, <<written', 2>>>>
        BY <3>2
      <4> HIDE DEF add
      <4> QED  BY <2>2, <4>1
    <3> QED  BY <2>1, <3>1, <3>2
  <2>4. ~ FinishLine
    BY <2>2 DEF FinishLine
  <2> HIDE DEF add
  <2>5. file' = [file EXCEPT !.pieces = @ \o add]
    BY <2>1 DEF add
  <2> QED  BY <1>2, <2>2, <2>3, <2>4, <2>5
<1>4. CASE FinishLine
  <2> DEFINE add == <<<<written, 2>>>>
  <2>1. InLine /\ UNCHANGED <<written, happenings>> /\ written \in Nat
    BY <1>4 DEF FinishLine, TypeOK
  <2>3. file' = [file EXCEPT !.pieces = @ \o add]
    BY <1>4 DEF FinishLine
  <2>4. /\ add \in Seq(Nat \X {1, 2}) /\ Len(add) = 1 /\ add[1] = <<written, 2>>
        /\ Len(add) \in 1 .. 2
    BY <2>1
  <2> HIDE DEF add
  <2>5. \A i \in 1 .. Len(add) : add[i][1] = written' /\ ~ (i < Len(add))
    BY <2>1, <2>4
  <2>6. ~ WriteLine
    BY <2>1 DEF WriteLine
  <2>7. /\ file'.inode = file.inode /\ Size' \in Nat /\ Size < Size'
        /\ DOMAIN file.pieces = 1 .. Size /\ (DOMAIN file.pieces)' = 1 .. Size'
        /\ \A i \in 1 .. Size : file'.pieces[i] = file.pieces[i]
        /\ \A i \in Size + 1 .. Size' : file'.pieces[i][1] = written'
        /\ \A i \in Size + 1 .. Size' : i < Size' => file'.pieces[i][2] = 1
        /\ file'.pieces[Size'] = add[Len(add)]
    BY <1>2, <2>3, <2>4, <2>5, Zenon
  <2>8. file'.pieces[Size'] = <<written, 2>>
    BY <2>4, <2>7
  <2>9. ~ InLine'
    BY <2>8 DEF InLine
  <2> QED  BY <2>1, <2>6, <2>7, <2>9, Zenon
<1> QED  BY <1>3, <1>4

\* Behind of the next state, for who stays at p.
StillBehind(p, n) ==
  /\ n <= written' /\ ~ (InLine' /\ n = written')
  /\ \A i \in (DOMAIN file.pieces)' :
       file'.pieces[i][1] = n => p.inode = file'.inode /\ i <= p.offset /\ p.offset <= Size'

\* The file keeps its order, and no line of it comes back.
LEMMA FileStepKeeps ==
  ASSUME TypeOK, FileInOrder, FileStep
  PROVE  FileInOrder' /\ \A q \in Place, n \in LineIds : Behind(q, n) => StillBehind(q, n)
<1>1. /\ written \in Nat /\ happenings \in Nat /\ Size \in Nat /\ DOMAIN file.pieces = 1 .. Size
      /\ \A q \in Place : q.offset \in Nat
      /\ \A i \in 1 .. Size : file.pieces[i][1] \in Nat /\ file.pieces[i][1] <= written
  <2>1. /\ file.pieces \in Seq(LineIds \X {1, 2}) /\ written \in Nat /\ happenings \in Nat
        /\ \A q \in Place : q.offset \in Nat
    BY DEF TypeOK, Place
  <2>2. Size \in Nat /\ DOMAIN file.pieces = 1 .. Size
    BY <2>1 DEF Size
  <2>3. \A i \in 1 .. Size : file.pieces[i] \in LineIds \X {1, 2}
    BY <2>1, <2>2
  <2>4. \A i \in 1 .. Size : file.pieces[i][1] \in Nat
    BY <2>3 DEF LineIds
  <2>5. \A i \in 1 .. Size : file.pieces[i][1] <= written
    BY <2>2 DEF FileInOrder
  <2> QED  BY <2>1, <2>2, <2>4, <2>5
<1>2. CASE WriteLine \/ FinishLine
  <2>1. /\ file'.inode = file.inode /\ Size' \in Nat /\ Size < Size'
        /\ (DOMAIN file.pieces)' = 1 .. Size'
        /\ \A i \in 1 .. Size : file'.pieces[i] = file.pieces[i]
        /\ \A i \in Size + 1 .. Size' : file'.pieces[i][1] = written'
        /\ \A i \in Size + 1 .. Size' : i < Size' => file'.pieces[i][2] = 1
        /\ WriteLine => ~ InLine /\ written' = written + 1 /\ happenings' = happenings + 1
        /\ FinishLine => InLine /\ ~ InLine' /\ UNCHANGED <<written, happenings>>
    BY <1>2, WriteGrows
  <2>2. /\ \A i \in 1 .. Size' : i \in 1 .. Size \/ i \in Size + 1 .. Size'
        /\ \A i \in 1 .. Size : /\ file'.pieces[i][1] = file.pieces[i][1]
                                /\ file'.pieces[i][2] = file.pieces[i][2]
    BY <1>1, <2>1
  <2>3. written' \in Nat /\ written <= written' /\ written' <= happenings'
    BY <1>1, <1>2, <2>1 DEF FileInOrder
  <2>4. \A i \in 1 .. Size' : file'.pieces[i][1] <= written'
    <3>1. \A i \in 1 .. Size : file'.pieces[i][1] <= written'
      <4> SUFFICES ASSUME NEW i \in 1 .. Size PROVE file'.pieces[i][1] <= written'
        OBVIOUS
      <4>1. file'.pieces[i][1] = file.pieces[i][1]
        BY <2>2
      <4> QED  BY <1>1, <2>3, <4>1
    <3> QED  BY <2>1, <2>2, <2>3, <3>1
  <2>5. ASSUME NEW i \in 1 .. Size', NEW j \in 1 .. Size', i < j, file'.pieces[i][2] = 2
        PROVE  file'.pieces[i][1] < file'.pieces[j][1]
    <3>1. i \in 1 .. Size
      BY <1>1, <2>1, <2>2, <2>5
    <3>2. CASE j \in 1 .. Size
      BY <1>1, <2>1, <2>2, <2>5, <3>1, <3>2 DEF FileInOrder
    <3>3. CASE j \in Size + 1 .. Size' /\ WriteLine
      <4>1. file'.pieces[i][1] = file.pieces[i][1] /\ file'.pieces[j][1] = written + 1
        BY <2>1, <2>2, <3>1, <3>3
      <4> QED  BY <1>1, <3>1, <4>1
    <3>4. CASE j \in Size + 1 .. Size' /\ FinishLine
      <4>1. file.pieces[Size][2] = 1 /\ file.pieces[Size][1] = written /\ Size \in 1 .. Size
        BY <1>1, <2>1, <3>4 DEF InLine, FileInOrder
      <4>2. i < Size /\ file.pieces[i][2] = 2
        BY <1>1, <2>2, <2>5, <3>1, <4>1
      <4>3. file.pieces[i][1] < file.pieces[Size][1]
        BY <1>1, <3>1, <4>1, <4>2 DEF FileInOrder
      <4> QED  BY <2>1, <2>2, <3>1, <3>4, <4>1, <4>3
    <3> QED  BY <1>2, <2>2, <3>2, <3>3, <3>4
  <2>6. file'.pieces[Size'][1] = written'
    BY <1>1, <2>1
  <2>7. FileInOrder'
    BY <2>1, <2>3, <2>4, <2>5, <2>6 DEF FileInOrder
  <2>8. ASSUME NEW q \in Place, NEW n \in LineIds, Behind(q, n) PROVE StillBehind(q, n)
    <3>1. n \in Nat /\ n <= written /\ ~ (InLine /\ n = written)
      BY <2>8 DEF LineIds, Behind
    <3>2. n <= written' /\ ~ (InLine' /\ n = written')
      BY <1>1, <1>2, <2>1, <3>1
    <3>3. n # written' \/ ~ FinishLine
      BY <2>1, <3>1
    <3>4. \A i \in Size + 1 .. Size' : file'.pieces[i][1] # n
      BY <1>1, <1>2, <2>1, <3>1
    <3>5. \A i \in 1 .. Size :
            file'.pieces[i][1] = n => q.inode = file'.inode /\ i <= q.offset /\ q.offset <= Size'
      <4> SUFFICES ASSUME NEW i \in 1 .. Size, file'.pieces[i][1] = n
                   PROVE  q.inode = file'.inode /\ i <= q.offset /\ q.offset <= Size'
        OBVIOUS
      <4>1. q.inode = file.inode /\ i <= q.offset /\ q.offset <= Size
        BY <1>1, <2>2, <2>8 DEF Behind
      <4> QED  BY <1>1, <2>1, <4>1
    <3> QED  BY <2>1, <2>2, <3>2, <3>4, <3>5 DEF StillBehind
  <2> QED  BY <2>7, <2>8
<1>3. CASE Rotate \/ Truncate
  <2>1. /\ ~ InLine /\ written' = written /\ happenings' = happenings + 1
        /\ file'.pieces = <<>> /\ file'.inode > 0
    <3>1. file \in [inode : Nat, pieces : Seq(LineIds \X {1, 2})] /\ file.inode > 0
      BY DEF TypeOK, FileInOrder
    <3>2. Turn /\ ~ InLine /\ written' = written /\ happenings' = happenings + 1
      BY <1>3 DEF Rotate, Truncate, Turn, Happens
    <3>3. CASE Rotate
      BY <3>1, <3>2, <3>3 DEF Rotate
    <3>4. CASE Truncate
      BY <3>1, <3>2, <3>4 DEF Truncate
    <3> QED  BY <1>3, <3>3, <3>4
  <2>2. (DOMAIN file.pieces)' = {} /\ ~ InLine'
    BY <2>1 DEF InLine, Size
  <2>3. FileInOrder'
    BY <1>1, <2>1, <2>2 DEF FileInOrder
  <2> QED  BY <2>1, <2>2, <2>3 DEF Behind, StillBehind
<1> QED  BY <1>2, <1>3 DEF FileStep

\* Who looks at the file from the outside leaves it as it is.
LEMMA FileStays ==
  ASSUME UNCHANGED <<file, written>>, NEW p, NEW n, Behind(p, n)
  PROVE  StillBehind(p, n)
  BY DEF Behind, StillBehind, InLine, Size

-----------------------------------------------------------------------------
(* Types. *)

\* What is written is made of halves of lines.
LEMMA FileType ==
  ASSUME TypeOK, FileInOrder, FileStep
  PROVE  /\ file' \in [inode : Nat, pieces : Seq(LineIds \X {1, 2})]
         /\ written' \in Nat /\ turns' \in Nat /\ happenings' \in 0 .. MaxHappenings
         /\ faults' = faults
<1>1. file \in [inode : Nat, pieces : Seq(LineIds \X {1, 2})] /\ written \in Nat /\ turns \in Nat
      /\ happenings \in 0 .. MaxHappenings /\ MaxHappenings \in Nat
  BY LogFileConstants DEF TypeOK
<1>2. CASE WriteLine
  <2>1. PICK halves \in {<<1>>, <<1, 2>>} :
             file' = [file EXCEPT !.pieces = @ \o [i \in DOMAIN halves |-> <<written', halves[i]>>]]
    BY <1>2 DEF WriteLine
  <2>2. /\ written' = written + 1 /\ happenings < MaxHappenings /\ happenings' = happenings + 1
        /\ turns' = turns
    BY <1>2 DEF WriteLine, Happens
  <2>3. written' \in LineIds
    BY <1>1, <2>2 DEF FileInOrder, LineIds
  <2> DEFINE add == [i \in DOMAIN halves |-> <<written', halves[i]>>]
  <2>4. add \in Seq(LineIds \X {1, 2})
    BY <2>1, <2>3
  <2>5. file' = [file EXCEPT !.pieces = @ \o add]
    BY <2>1
  <2> HIDE DEF add
  <2>6. file.pieces \o add \in Seq(LineIds \X {1, 2})
    BY <1>1, <2>4
  <2>7. file' = [inode |-> file.inode, pieces |-> file.pieces \o add]
    BY <1>1, <2>5
  <2> QED  BY <1>1, <2>2, <2>6, <2>7 DEF FileStep
<1>3. CASE FinishLine
  <2>1. /\ file' = [file EXCEPT !.pieces = @ \o <<<<written, 2>>>>]
        /\ UNCHANGED <<written, turns, happenings>> /\ InLine
    BY <1>3 DEF FinishLine
  <2>2. written \in LineIds
    <3>1. Size \in DOMAIN file.pieces /\ file.pieces[Size][1] = written
      BY <1>1, <2>1 DEF InLine, Size, FileInOrder
    <3> QED  BY <1>1, <3>1
  <2> DEFINE add == <<<<written, 2>>>>
  <2>3. add \in Seq(LineIds \X {1, 2}) /\ file' = [file EXCEPT !.pieces = @ \o add]
    BY <2>1, <2>2
  <2> HIDE DEF add
  <2>4. file.pieces \o add \in Seq(LineIds \X {1, 2})
    BY <1>1, <2>3
  <2>5. file' = [inode |-> file.inode, pieces |-> file.pieces \o add]
    BY <1>1, <2>3
  <2>6. file' \in [inode : Nat, pieces : Seq(LineIds \X {1, 2})]
    BY <1>1, <2>4, <2>5
  <2>7. UNCHANGED <<written, turns, happenings, faults>>
    BY <2>1 DEF FileStep
  <2> QED  BY <1>1, <2>6, <2>7
<1>4. CASE Rotate \/ Truncate
  <2>1. /\ written' = written /\ turns' = turns + 1
        /\ happenings < MaxHappenings /\ happenings' = happenings + 1
    BY <1>4 DEF Rotate, Truncate, Turn, Happens
  <2>2. <<>> \in Seq(LineIds \X {1, 2})
    OBVIOUS
  <2>3. CASE Rotate
    BY <1>1, <2>1, <2>2, <2>3 DEF Rotate, FileStep
  <2>4. CASE Truncate
    <3>1. file' = [inode |-> file.inode, pieces |-> <<>>]
      BY <1>1, <2>4 DEF Truncate
    <3> QED  BY <1>1, <2>1, <2>2, <3>1 DEF FileStep
  <2> QED  BY <1>4, <2>3, <2>4
<1> QED  BY <1>2, <1>3, <1>4 DEF FileStep

\* A follower's place after a look at the file and after a read.
LEMMA PlaceType ==
  ASSUME TypeOK, NEW p \in Place
  PROVE  /\ [inode |-> file.inode, offset |-> StartAt(p)] \in Place
         /\ [p EXCEPT !.offset = EndsAt(p.offset)] \in Place
         /\ Nowhere \in Place
<1>1. file.inode \in Nat /\ Size \in Nat
  BY DEF TypeOK, Size
<1>2. p.offset \in Nat /\ p.inode \in Nat
  BY DEF Place
<1>3. StartAt(p) \in Nat /\ EndsAt(p.offset) \in Nat
  BY <1>1, <1>2 DEF StartAt, EndsAt
<1> QED  BY <1>1, <1>2, <1>3 DEF Place, Nowhere

\* What the collector does when it has a place, and when it has lines.
LEMMA SensorForm ==
  ASSUME TypeOK
  PROVE  /\ sensor.at \in {"sleep", "open", "add", "post", "down"}
         /\ sensor.at # "down" => sensor.place \in Place
         /\ sensor.at \in {"add", "post"} =>
              /\ sensor.todo \in SUBSET LineIds /\ sensor.batch \in SUBSET LineIds
              /\ sensor = [at |-> sensor.at, place |-> sensor.place, todo |-> sensor.todo,
                           batch |-> sensor.batch]
  BY DEF TypeOK, SensorStates

\* A round that goes on has what it began with.
LEMMA RoundType ==
  ASSUME NEW p \in Place, NEW todo \in SUBSET LineIds, NEW batch \in SUBSET LineIds
  PROVE  /\ Round(p, todo, batch) \in SensorStates
         /\ Round(p, todo, batch).at # "down" /\ Round(p, todo, batch).place = p
         /\ Round(p, todo, batch).at \in {"add", "post"} =>
              Round(p, todo, batch).todo = todo /\ Round(p, todo, batch).batch = batch
  BY DEF Round, SensorStates

\* What the collector does keeps its types,
LEMMA SensorType ==
  ASSUME TypeOK, SensorStep \/ PostFails \/ SensorDies
  PROVE  /\ sensor' \in SensorStates /\ state' \in Place
         /\ arrived' \in [LineIds -> Nat]
         /\ UNION {lost', broken', passed', repeated', raced'} \subseteq LineIds
         /\ tears' \in Nat /\ lastRead' \in Nat
         /\ faults' \in 0 .. MaxFaults
<1>1. /\ UNION {lost, broken, passed, repeated, raced} \subseteq LineIds
      /\ tears \in Nat /\ lastRead \in Nat /\ turns \in Nat /\ state \in Place
      /\ faults \in 0 .. MaxFaults /\ MaxFaults \in Nat /\ arrived \in [LineIds -> Nat]
      /\ sensor \in SensorStates
  BY LogFileConstants DEF TypeOK
<1>2. CASE SensorStats \/ SensorStarts
  <2>1. sensor' \in SensorStates
    <3>1. CASE SensorStats
      <4>1. /\ sensor.at = "sleep" /\ sensor.place \in Place
            /\ sensor' = [at |-> "open", place |-> [inode |-> file.inode, offset |-> StartAt(sensor.place)]]
        BY <3>1, SensorForm DEF SensorStats
      <4>2. [inode |-> file.inode, offset |-> StartAt(sensor.place)] \in Place
        BY <4>1, PlaceType
      <4> QED  BY <4>1, <4>2 DEF SensorStates
    <3>2. CASE SensorStarts
      BY <1>1, <3>2 DEF SensorStarts, SensorStates
    <3> QED  BY <1>2, <3>1, <3>2
  <2> QED  BY <1>1, <1>2, <2>1 DEF SensorStats, SensorStarts, sensorHistory
<1>3. CASE SensorReads
  <2> DEFINE start == sensor.place.offset
             pieces == ReadFrom(start)
             place == [sensor.place EXCEPT !.offset = EndsAt(start)]
             whole == {n \in LinesIn(pieces) : IsWhole(pieces, n)}
  <2>1. place \in Place
    BY <1>3, SensorForm, PlaceType DEF SensorReads
  <2>2. whole \in SUBSET LineIds /\ LinesIn(Before(start)) \in SUBSET LineIds
    BY DEF LinesIn
  <2>3. /\ sensor' = Round(place, whole, {}) /\ state' = place
        /\ broken' = broken \cup {n \in LineIds : Cardinality(HalvesOf(pieces, n)) = 1}
        /\ passed' \in {passed, passed \cup LinesIn(Before(start))}
        /\ raced' \in {raced, raced \cup whole}
        /\ lastRead' \in {lastRead, turns}
        /\ UNCHANGED <<arrived, lost, repeated, tears, faults>>
    BY <1>3 DEF SensorReads
  <2> HIDE DEF start, pieces, place, whole
  <2>4. sensor' \in SensorStates
    BY <2>1, <2>2, <2>3, RoundType
  <2> QED  BY <1>1, <2>1, <2>2, <2>3, <2>4
<1>4. CASE AddToBatch \/ EndRound
  <2>1. sensor' \in SensorStates
    <3>1. CASE AddToBatch
      <4> DEFINE line == Min(sensor.todo)
      <4>1. PICK at \in {"add", "post"} :
                 sensor' = [sensor EXCEPT !.at = at, !.todo = @ \ {line}, !.batch = sensor.batch \cup {line}]
        BY <3>1 DEF AddToBatch
      <4>2. line \in sensor.todo /\ sensor.at = "add"
        <5>1. sensor.at = "add" /\ sensor.todo # {}
          BY <3>1 DEF AddToBatch
        <5>2. sensor.todo \in SUBSET Nat
          BY <5>1, SensorForm DEF LineIds
        <5> QED  BY <5>1, <5>2, MinIsMember
      <4> HIDE DEF line
      <4>3. sensor' = [at |-> at, place |-> sensor.place, todo |-> sensor.todo \ {line},
                       batch |-> sensor.batch \cup {line}]
        BY <4>1, <4>2, SensorForm
      <4> QED  BY <4>2, <4>3, SensorForm DEF SensorStates
    <3>2. CASE EndRound
      <4>1. sensor.at = "add" /\ sensor' = [sensor EXCEPT !.at = "post"]
        BY <3>2 DEF EndRound
      <4>2. sensor' = [at |-> "post", place |-> sensor.place, todo |-> sensor.todo,
                       batch |-> sensor.batch]
        BY <4>1, SensorForm
      <4> QED  BY <4>1, <4>2, SensorForm DEF SensorStates
    <3> QED  BY <1>4, <3>1, <3>2
  <2> QED  BY <1>1, <1>4, <2>1 DEF AddToBatch, EndRound, sensorHistory
<1>5. ArrivedOnceMore \in [LineIds -> Nat]
  BY <1>1 DEF ArrivedOnceMore
<1>6. CASE PostSucceeds
  <2>1. sensor.at = "post" /\ sensor' = Round(sensor.place, sensor.todo, {}) /\ arrived' = ArrivedOnceMore
        /\ UNCHANGED <<state, sensorHistory, faults>>
    BY <1>6 DEF PostSucceeds
  <2>2. sensor' \in SensorStates
    BY <2>1, SensorForm, RoundType
  <2> QED  BY <1>1, <1>5, <2>1, <2>2 DEF sensorHistory
<1>7. CASE PostFails
  <2>1. sensor.batch \in SUBSET LineIds
    BY <1>7, SensorForm DEF PostFails
  <2> QED  BY <1>1, <1>5, <1>7, <2>1 DEF PostFails, AfterError, Fault
<1>8. CASE SensorDies
  <2>1. lost' \subseteq LineIds
    BY <1>1, <1>8, SensorForm DEF SensorDies, Held
  <2>2. sensor' \in SensorStates
    BY <1>8 DEF SensorDies, SensorStates
  <2>3. state' \in Place /\ tears' \in Nat
    BY <1>1, <1>8 DEF SensorDies, Place, Nowhere
  <2>4. faults' \in 0 .. MaxFaults
    BY <1>1, <1>8 DEF SensorDies, Fault
  <2> QED  BY <1>1, <1>8, <2>1, <2>2, <2>3, <2>4 DEF SensorDies
<1> QED  BY <1>2, <1>3, <1>4, <1>6, <1>7, <1>8 DEF SensorStep

\* What the agent does when it has a place, and when it has something to send.
LEMMA AgentForm ==
  ASSUME TypeOK
  PROVE  /\ agent.at \in {"logs", "open", "visits", "lines", "rows"} /\ agent.place \in Place
         /\ agent.at = "lines" => agent.todo \in SUBSET LineIds
         /\ agent.at = "rows" => agent.todo \in SUBSET (Urls \X Nat)
  BY DEF TypeOK, AgentStates

\* With nothing to send the agent goes on.
LEMMA SendingType ==
  ASSUME NEW p \in Place
  PROVE  /\ \A todo \in SUBSET LineIds :
              LET a == Sending("lines", todo, p) IN
              /\ a \in AgentStates /\ a.place = p
              /\ a.at = "lines" => a.todo = todo
         /\ \A todo \in SUBSET (Urls \X Nat) :
              LET a == Sending("rows", todo, p) IN
              a \in AgentStates /\ a.place = p /\ a.at # "lines"
<1>1. ASSUME NEW todo \in SUBSET LineIds
      PROVE  /\ Sending("lines", todo, p) \in AgentStates /\ Sending("lines", todo, p).place = p
             /\ Sending("lines", todo, p).at = "lines" => Sending("lines", todo, p).todo = todo
  BY DEF Sending, AgentStates
<1>2. ASSUME NEW todo \in SUBSET (Urls \X Nat)
      PROVE  /\ Sending("rows", todo, p) \in AgentStates /\ Sending("rows", todo, p).place = p
             /\ Sending("rows", todo, p).at # "lines"
  BY DEF Sending, AgentStates
<1> QED  BY <1>1, <1>2, Zenon

\* The rows of a page are rows of the browser behind the agent's place; none of
\* them is newer than one that is left out.
LEMMA PageType ==
  ASSUME TypeOK, NEW page \in Pages(NewVisits)
  PROVE  /\ page \in SUBSET (Urls \X Nat)
         /\ \A row \in page : lastVisit[row[1]] = row[2] /\ row[2] > urlState
         /\ \A u \in Urls : lastVisit[u] > urlState /\ <<u, lastVisit[u]>> \notin page =>
              \A row \in page : row[2] <= lastVisit[u]
<1>1. page \subseteq NewVisits /\ \A row \in page, other \in NewVisits \ page : row[2] <= other[2]
  BY DEF Pages
<1>2. \A row \in NewVisits : row \in Urls \X Nat /\ lastVisit[row[1]] = row[2] /\ row[2] > urlState
  BY DEF NewVisits, TypeOK
<1>3. \A u \in Urls : lastVisit[u] > urlState => <<u, lastVisit[u]>> \in NewVisits
  BY DEF NewVisits
<1> QED  BY <1>1, <1>2, <1>3

\* The newest visit of a page, or the place as it was.
LEMMA PageMax ==
  ASSUME TypeOK, VisitsAreKnown, NEW page \in Pages(NewVisits)
  PROVE  LET newest == Max({row[2] : row \in page} \cup {urlState}) IN
         /\ newest \in Nat /\ newest >= urlState
         /\ newest = urlState \/ \E row \in page : row[2] = newest
<1> DEFINE times == {row[2] : row \in page} \cup {urlState}
<1>1. \A row \in page : row[1] \in Urls /\ row[2] \in Nat /\ lastVisit[row[1]] = row[2]
  BY PageType
<1>2. happenings \in Nat /\ urlState \in Nat
  BY DEF TypeOK
<1>3. \A row \in page : row[2] <= happenings
  BY <1>1 DEF VisitsAreKnown
<1>4. urlState <= happenings
  <2>1. CASE urlState = 0
    BY <1>2, <2>1
  <2>2. CASE urlState > 0
    <3>1. PICK v \in Urls : urlState <= lastVisit[v]
      BY <2>2 DEF VisitsAreKnown
    <3>2. lastVisit[v] <= happenings /\ lastVisit[v] \in Nat
      BY DEF VisitsAreKnown, TypeOK
    <3> QED  BY <1>2, <3>1, <3>2
  <2> QED  BY <1>2, <2>1, <2>2
<1>5. times \in SUBSET Nat /\ times # {} /\ \A t \in times : t <= happenings
  BY <1>1, <1>2, <1>3, <1>4
<1>6. Max(times) \in times /\ \A t \in times : Max(times) >= t
  <2> HIDE DEF times
  <2> QED  BY <1>2, <1>5, MaxIsGreatest
<1>7. urlState \in times
  OBVIOUS
<1>8. Max(times) \in Nat /\ Max(times) >= urlState
  BY <1>5, <1>6, <1>7
<1> QED  BY <1>6, <1>8

\* and what the agent does.
LEMMA AgentType ==
  ASSUME TypeOK, VisitsAreKnown, AgentStep
  PROVE  /\ agent' \in AgentStates /\ urlState' \in Nat /\ sent' \in [LineIds -> Nat]
         /\ misread' \subseteq LineIds /\ read' \subseteq Urls \X Nat
         /\ lastVisit' = lastVisit /\ faults' \in 0 .. MaxFaults
<1>1. /\ agent \in AgentStates /\ urlState \in Nat /\ sent \in [LineIds -> Nat]
      /\ misread \subseteq LineIds /\ read \subseteq Urls \X Nat
      /\ faults \in 0 .. MaxFaults /\ MaxFaults \in Nat
  BY LogFileConstants DEF TypeOK
<1>2. Fault => faults' \in 0 .. MaxFaults
  BY <1>1 DEF Fault
<1>3. CASE AgentStats
  <2>1. /\ agent' = [at |-> "open", place |-> [inode |-> file.inode, offset |-> StartAt(agent.place)]]
        /\ [inode |-> file.inode, offset |-> StartAt(agent.place)] \in Place
    BY <1>3, AgentForm, PlaceType DEF AgentStats
  <2>2. agent' \in AgentStates
    BY <2>1 DEF AgentStates
  <2> QED  BY <1>1, <1>3, <2>2 DEF AgentStats
<1>4. CASE AgentReads
  <2> DEFINE lines == LinesIn(ReadFrom(agent.place.offset))
             place == [agent.place EXCEPT !.offset = EndsAt(agent.place.offset)]
  <2>1. lines \in SUBSET LineIds /\ place \in Place
    BY AgentForm, PlaceType DEF LinesIn
  <2>2. agent' = Sending("lines", lines, place) /\ UNCHANGED <<lastVisit, urlState, sent, read, faults>>
    BY <1>4 DEF AgentReads
  <2>3. misread' \subseteq misread \cup lines
    BY <1>4 DEF AgentReads
  <2> HIDE DEF lines, place
  <2>4. agent' \in AgentStates
    BY <2>1, <2>2, SendingType
  <2> QED  BY <1>1, <2>1, <2>2, <2>3, <2>4
<1>5. CASE SendLine
  <2>1. agent.todo \in SUBSET LineIds /\ agent.place \in Place
    BY <1>5, AgentForm DEF SendLine
  <2> DEFINE line == Min(agent.todo)
  <2>2. /\ agent' = Sending("lines", agent.todo \ {line}, agent.place)
        /\ \/ sent' = [sent EXCEPT ![line] = @ + 1] /\ UNCHANGED faults
           \/ Fault /\ UNCHANGED sent
        /\ UNCHANGED <<lastVisit, urlState, misread, read>>
    BY <1>5 DEF SendLine
  <2> HIDE DEF line
  <2>3. agent' \in AgentStates
    BY <2>1, <2>2, SendingType
  <2>4. sent' \in [LineIds -> Nat]
    BY <1>1, <2>2
  <2> QED  BY <1>1, <1>2, <2>2, <2>3, <2>4
<1>6. CASE SendVisit
  <2>1. agent.todo \in SUBSET (Urls \X Nat) /\ agent.place \in Place
    BY <1>6, AgentForm DEF SendVisit
  <2>2. PICK row \in agent.todo : agent' = Sending("rows", agent.todo \ {row}, agent.place)
    BY <1>6 DEF SendVisit
  <2>3. agent' \in AgentStates
    BY <2>1, <2>2, SendingType
  <2> QED  BY <1>1, <1>2, <1>6, <2>3 DEF SendVisit
<1>7. CASE CollectVisits
  <2>1. PICK page \in Pages(NewVisits) :
             /\ read' = read \cup page
             /\ urlState' = Max({row[2] : row \in page} \cup {urlState})
             /\ agent' = Sending("rows", page, agent.place)
    BY <1>7 DEF CollectVisits
  <2>2. page \in SUBSET (Urls \X Nat) /\ agent.place \in Place
    BY PageType, AgentForm
  <2>3. agent' \in AgentStates
    BY <2>1, <2>2, SendingType
  <2>4. urlState' \in Nat
    BY <2>1, PageMax
  <2> QED  BY <1>1, <1>7, <2>1, <2>2, <2>3, <2>4 DEF CollectVisits
<1>8. CASE SkipVisits
  <2>1. agent.at = "visits" /\ agent' = [agent EXCEPT !.at = "logs"]
    BY <1>8 DEF SkipVisits
  <2>2. agent' = [at |-> "logs", place |-> agent.place]
    BY <1>1, <2>1 DEF AgentStates
  <2>3. agent' \in AgentStates
    BY <2>2, AgentForm DEF AgentStates
  <2> QED  BY <1>1, <1>8, <2>3 DEF SkipVisits
<1>9. CASE AgentRestarts
  <2>1. agent' \in AgentStates
    BY <1>9 DEF AgentRestarts, AgentStates, Place, Nowhere
  <2>2. urlState' \in Nat /\ sent' \in [LineIds -> Nat]
    BY <1>1, <1>9 DEF AgentRestarts
  <2> QED  BY <1>1, <1>2, <1>9, <2>1, <2>2 DEF AgentRestarts
<1> QED  BY <1>3, <1>4, <1>5, <1>6, <1>7, <1>8, <1>9 DEF AgentStep

\* A visit is not before any other.
LEMMA VisitIsLater ==
  ASSUME TypeOK, VisitsAreKnown, NEW u \in Urls, Visit(u)
  PROVE  \E time \in Nat :
           /\ time > 0 /\ time <= happenings' /\ lastVisit' = [lastVisit EXCEPT ![u] = time]
           /\ \A v \in Urls : lastVisit[v] <= time
           /\ (\E v \in Urls : lastVisit[v] = time) \/ (\A v \in Urls : lastVisit[v] < time)
           /\ lastVisit' \in [Urls -> Nat] /\ happenings' = happenings + 1
<1> DEFINE times == {lastVisit[v] : v \in Urls}
<1>1. lastVisit \in [Urls -> Nat] /\ happenings \in Nat /\ happenings' = happenings + 1
  BY DEF TypeOK, Visit, Happens
<1>2. times \in SUBSET Nat /\ times # {} /\ \A t \in times : t <= happenings
  BY <1>1 DEF VisitsAreKnown
<1>3. Max(times) \in times /\ \A t \in times : Max(times) >= t
  <2> HIDE DEF times
  <2> QED  BY <1>1, <1>2, MaxIsGreatest
<1>4. PICK step \in {0, 1} :
           Max(times) + step > 0 /\ lastVisit' = [lastVisit EXCEPT ![u] = Max(times) + step]
  BY DEF Visit
<1> DEFINE time == Max(times) + step
<1>5. Max(times) \in Nat /\ Max(times) <= happenings
  BY <1>2, <1>3
<1>6. time \in Nat /\ time > 0 /\ time <= happenings'
  BY <1>1, <1>4, <1>5
<1>7. \A v \in Urls : lastVisit[v] <= Max(times) /\ lastVisit[v] \in Nat
  BY <1>1, <1>3
<1>8. \E v \in Urls : lastVisit[v] = Max(times)
  BY <1>3
<1> HIDE DEF times
<1>9. \A v \in Urls : lastVisit[v] <= time
  BY <1>4, <1>5, <1>7
<1>10. (\E v \in Urls : lastVisit[v] = time) \/ (\A v \in Urls : lastVisit[v] < time)
  <2>1. CASE step = 0
    BY <1>5, <1>8, <2>1
  <2>2. CASE step = 1
    BY <1>5, <1>7, <2>2
  <2> QED  BY <1>4, <2>1, <2>2
<1>11. lastVisit' = [lastVisit EXCEPT ![u] = time]
  BY <1>4
<1> HIDE DEF time
<1>12. lastVisit' \in [Urls -> Nat]
  BY <1>1, <1>6, <1>11
<1> QED  BY <1>1, <1>6, <1>9, <1>10, <1>11, <1>12

\* Every step keeps the types.
LEMMA TypeStep ==
  ASSUME TypeOK, FileInOrder, VisitsAreKnown, [Next]_vars
  PROVE  TypeOK'
<1>1. CASE FileStep /\ UNCHANGED <<sensorVars, agentVars>>
  <2>1. /\ file' \in [inode : Nat, pieces : Seq(LineIds \X {1, 2})]
        /\ written' \in Nat /\ turns' \in Nat /\ happenings' \in 0 .. MaxHappenings
        /\ faults' \in 0 .. MaxFaults
    BY <1>1, FileType DEF TypeOK
  <2> QED  BY <1>1, <2>1 DEF TypeOK, sensorVars, sensorHistory, agentVars
<1>2. CASE (SensorStep \/ PostFails \/ SensorDies) /\ UNCHANGED <<fileVars, agentVars>>
  <2>1. /\ sensor' \in SensorStates /\ state' \in Place
        /\ arrived' \in [LineIds -> Nat]
        /\ UNION {lost', broken', passed', repeated', raced'} \subseteq LineIds
        /\ tears' \in Nat /\ lastRead' \in Nat
        /\ faults' \in 0 .. MaxFaults
    BY <1>2, SensorType
  <2> QED  BY <1>2, <2>1 DEF TypeOK, fileVars, agentVars
<1>3. CASE AgentStep /\ UNCHANGED <<fileVars, sensorVars>>
  <2>1. /\ agent' \in AgentStates /\ urlState' \in Nat /\ sent' \in [LineIds -> Nat]
        /\ misread' \subseteq LineIds /\ read' \subseteq Urls \X Nat
        /\ lastVisit' = lastVisit /\ faults' \in 0 .. MaxFaults
    BY <1>3, AgentType
  <2> QED  BY <1>3, <2>1 DEF TypeOK, fileVars, sensorVars, sensorHistory
<1>4. ASSUME NEW u \in Urls, Visit(u), UNCHANGED <<file, written, turns, sensorVars>>
      PROVE  TypeOK'
  <2>1. happenings' \in 0 .. MaxHappenings
    BY <1>4, LogFileConstants DEF Visit, Happens, TypeOK
  <2>2. lastVisit' \in [Urls -> Nat]
    BY <1>4, VisitIsLater
  <2> QED  BY <1>4, <2>1, <2>2 DEF TypeOK, Visit, sensorVars, sensorHistory
<1>5. CASE UNCHANGED vars
  BY <1>5 DEF TypeOK, vars, fileVars, sensorVars, sensorHistory, agentVars
<1> QED  BY <1>1, <1>2, <1>3, <1>4, <1>5 DEF Next

-----------------------------------------------------------------------------
(* The collector. *)

SensorInv == SensorIsAhead /\ SensorHoldsOnce /\ OnceUnlessFault

\* What is behind the collector stays so while it is elsewhere.
LEMMA SensorUndisturbed ==
  ASSUME TypeOK, SensorInv, UNCHANGED sensorVars,
         \A q \in Place, n \in LineIds : Behind(q, n) => StillBehind(q, n)
  PROVE  SensorInv'
<1>1. UNCHANGED <<sensor, state, arrived, tears, raced, repeated>>
  BY DEF sensorVars, sensorHistory
<1>2. state \in Place /\ (sensor.at # "down" => sensor.place \in Place)
  BY SensorForm DEF TypeOK
<1>3. SensorIsAhead'
  <2> SUFFICES ASSUME tears = 0, NEW n \in LineIds \ raced, arrived[n] > 0 \/ InSensor(n)
               PROVE  Behind(state, n)' /\ (sensor.at # "down" => Behind(sensor.place, n)')
    BY <1>1 DEF SensorIsAhead, InSensor
  <2>1. Behind(state, n) /\ (sensor.at # "down" => Behind(sensor.place, n))
    BY DEF SensorInv, SensorIsAhead
  <2>2. StillBehind(state, n) /\ (sensor.at # "down" => StillBehind(sensor.place, n))
    BY <1>2, <2>1
  <2>3. Behind(state, n)'
    BY <1>1, <2>2 DEF StillBehind, Behind
  <2>4. ASSUME sensor.at # "down" PROVE Behind(sensor.place, n)'
    BY <1>1, <2>2, <2>4 DEF StillBehind, Behind
  <2> QED  BY <2>3, <2>4
<1>4. SensorHoldsOnce' /\ OnceUnlessFault'
  BY <1>1 DEF SensorInv, SensorHoldsOnce, OnceUnlessFault, InSensor
<1> QED  BY <1>3, <1>4 DEF SensorInv

\* What the collector is ahead of, told of the file as it is.
AheadNext ==
  tears' = 0 =>
    \A n \in LineIds \ raced' :
      arrived'[n] > 0 \/ InSensor(n)' =>
        Behind(state', n) /\ (sensor'.at # "down" => Behind(sensor'.place, n))

\* The file is where it was.
LEMMA SensorIsAheadNext ==
  ASSUME UNCHANGED <<file, written>>, AheadNext
  PROVE  SensorIsAhead'
  BY DEF AheadNext, SensorIsAhead, Behind, InLine, Size

\* A look at the file, and a start, hold no line.
LEMMA SensorLooks ==
  ASSUME TypeOK, SensorInv, UNCHANGED <<file, written>>, SensorStats \/ SensorStarts
  PROVE  SensorInv'
<1>1. UNCHANGED <<state, arrived, tears, raced, repeated>>
  BY DEF SensorStats, SensorStarts, sensorHistory
<1>2. sensor'.at \in {"open", "sleep"}
  BY DEF SensorStats, SensorStarts
<1>3. AheadNext
  <2> SUFFICES ASSUME tears = 0, NEW n \in LineIds \ raced, arrived[n] > 0
               PROVE  Behind(state, n) /\ Behind(sensor'.place, n)
    BY <1>1, <1>2 DEF AheadNext, InSensor
  <2>1. Behind(state, n) /\ (sensor.at # "down" => Behind(sensor.place, n))
    BY DEF SensorInv, SensorIsAhead
  <2>2. CASE SensorStats
    <3>1. /\ sensor.at = "sleep" /\ sensor.place \in Place
          /\ sensor'.place = [inode |-> file.inode, offset |-> StartAt(sensor.place)]
      BY <2>2, SensorForm DEF SensorStats
    <3> QED  BY <2>1, <3>1, BehindAfterStat
  <2>3. CASE SensorStarts
    BY <2>1, <2>3 DEF SensorStarts
  <2> QED  BY <2>2, <2>3
<1>4. SensorIsAhead'
  BY <1>3, SensorIsAheadNext
<1>5. SensorHoldsOnce' /\ OnceUnlessFault'
  BY <1>1, <1>2 DEF SensorInv, SensorHoldsOnce, OnceUnlessFault, InSensor
<1> QED  BY <1>4, <1>5 DEF SensorInv

\* A line that is read again was not read in its place before.
LEMMA SensorReadsOnce ==
  ASSUME TypeOK, FileInOrder, SensorInv, UNCHANGED <<file, written>>, SensorReads
  PROVE  SensorInv'
<1> DEFINE pieces == ReadFrom(sensor.place.offset)
           place == [sensor.place EXCEPT !.offset = EndsAt(sensor.place.offset)]
           whole == {n \in LinesIn(pieces) : IsWhole(pieces, n)}
<1>1. /\ sensor.at = "open" /\ sensor' = Round(place, whole, {}) /\ state' = place
      /\ raced' = IF sensor.place.inode = file.inode THEN raced ELSE raced \cup whole
      /\ UNCHANGED <<arrived, repeated, tears>>
  BY DEF SensorReads
<1>2. sensor.place \in Place /\ place \in Place
  BY <1>1, SensorForm, PlaceType
<1>3. whole \in SUBSET LineIds /\ {} \in SUBSET LineIds
  BY DEF LinesIn
<1>4. \A n \in LineIds : n \in whole =>
        /\ ~ Behind(sensor.place, n)
        /\ n \notin raced' => Behind(place, n)
  BY <1>1, <1>2, WholeIsRead
<1>5. \A n \in LineIds : Behind(sensor.place, n) => Behind(place, n)
  BY <1>2, BehindAfterRead
<1>6. raced \subseteq raced'
  BY <1>1
<1> HIDE DEF pieces, place, whole
<1>7. /\ sensor'.at # "down" /\ sensor'.place = place
      /\ sensor'.at \in {"add", "post"} => sensor'.todo = whole /\ sensor'.batch = {}
  BY <1>1, <1>2, <1>3, RoundType
<1>8. \A n \in LineIds : InSensor(n)' => n \in whole
  BY <1>7 DEF InSensor
<1>9. tears = 0 => \A n \in LineIds \ raced : arrived[n] > 0 => Behind(sensor.place, n)
  BY <1>1 DEF SensorInv, SensorIsAhead
<1>10. AheadNext
  BY <1>1, <1>4, <1>5, <1>6, <1>7, <1>8, <1>9 DEF AheadNext
<1>11. SensorIsAhead'
  BY <1>10, SensorIsAheadNext
<1>12. SensorHoldsOnce'
  BY <1>1, <1>4, <1>6, <1>7, <1>8, <1>9 DEF SensorHoldsOnce
<1>13. OnceUnlessFault'
  BY <1>1, <1>6 DEF SensorInv, OnceUnlessFault
<1> QED  BY <1>11, <1>12, <1>13 DEF SensorInv

\* A line moves from the round to the batch.
LEMMA BatchMoves ==
  ASSUME TypeOK, AddToBatch \/ EndRound
  PROVE  /\ sensor.at = "add" /\ sensor'.at \in {"add", "post"} /\ sensor'.place = sensor.place
         /\ sensor'.todo \cup sensor'.batch = sensor.todo \cup sensor.batch
         /\ sensor.todo \cap sensor.batch = {} => sensor'.todo \cap sensor'.batch = {}
<1>1. CASE AddToBatch
  <2> DEFINE line == Min(sensor.todo)
  <2>1. PICK at \in {"add", "post"} :
             sensor' = [sensor EXCEPT !.at = at, !.todo = @ \ {line}, !.batch = sensor.batch \cup {line}]
    BY <1>1 DEF AddToBatch
  <2>2. line \in sensor.todo /\ sensor.at = "add"
    <3>1. sensor.at = "add" /\ sensor.todo # {}
      BY <1>1 DEF AddToBatch
    <3>2. sensor.todo \in SUBSET Nat
      BY <3>1, SensorForm DEF LineIds
    <3> QED  BY <3>1, <3>2, MinIsMember
  <2> HIDE DEF line
  <2>3. sensor' = [at |-> at, place |-> sensor.place, todo |-> sensor.todo \ {line},
                   batch |-> sensor.batch \cup {line}]
    BY <2>1, <2>2, SensorForm
  <2> QED  BY <2>2, <2>3
<1>2. CASE EndRound
  <2>1. sensor.at = "add" /\ sensor' = [sensor EXCEPT !.at = "post"]
    BY <1>2 DEF EndRound
  <2>2. sensor' = [at |-> "post", place |-> sensor.place, todo |-> sensor.todo,
                   batch |-> sensor.batch]
    BY <2>1, SensorForm
  <2> QED  BY <2>1, <2>2
<1> QED  BY <1>1, <1>2

\* It is as much ahead as it was.
LEMMA SensorBatches ==
  ASSUME TypeOK, SensorInv, UNCHANGED <<file, written>>, AddToBatch \/ EndRound
  PROVE  SensorInv'
<1>1. UNCHANGED <<state, arrived, tears, raced, repeated>>
  BY DEF AddToBatch, EndRound, sensorHistory
<1>2. /\ sensor.at = "add" /\ sensor'.at \in {"add", "post"} /\ sensor'.place = sensor.place
      /\ sensor'.todo \cup sensor'.batch = sensor.todo \cup sensor.batch
      /\ sensor.todo \cap sensor.batch = {} => sensor'.todo \cap sensor'.batch = {}
  BY BatchMoves
<1>3. \A n \in LineIds : InSensor(n)' <=> InSensor(n)
  BY <1>2 DEF InSensor
<1>4. AheadNext
  BY <1>1, <1>2, <1>3 DEF AheadNext, SensorInv, SensorIsAhead
<1>5. SensorIsAhead'
  BY <1>4, SensorIsAheadNext
<1>6. SensorHoldsOnce'
  BY <1>1, <1>2, <1>3 DEF SensorInv, SensorHoldsOnce
<1>7. OnceUnlessFault'
  BY <1>1 DEF SensorInv, OnceUnlessFault
<1> QED  BY <1>5, <1>6, <1>7 DEF SensorInv

\* What a post that arrives does to the counts.
LEMMA ArrivedType ==
  ASSUME TypeOK, arrived' = ArrivedOnceMore
  PROVE  \A n \in LineIds : /\ arrived[n] \in Nat
                            /\ n \in sensor.batch => arrived'[n] = arrived[n] + 1
                            /\ n \notin sensor.batch => arrived'[n] = arrived[n]
  BY DEF TypeOK, ArrivedOnceMore

\* A batch that is answered is not sent again; one that is not answered is, and
\* its lines are told from the others.
LEMMA SensorPosts ==
  ASSUME TypeOK, SensorInv, UNCHANGED <<file, written>>, PostSucceeds \/ PostFails
  PROVE  SensorInv'
<1>1. /\ sensor.at = "post" /\ sensor.place \in Place
      /\ sensor.todo \in SUBSET LineIds /\ sensor.batch \in SUBSET LineIds
      /\ UNCHANGED <<state, tears, raced>>
  BY SensorForm DEF PostSucceeds, PostFails, sensorHistory
<1>2. sensor.todo \cap sensor.batch = {}
  BY <1>1 DEF SensorInv, SensorHoldsOnce
<1>3. \A n \in LineIds : InSensor(n) <=> n \in sensor.todo \cup sensor.batch
  BY <1>1 DEF InSensor
<1>4. tears = 0 => \A n \in LineIds \ raced :
        arrived[n] > 0 \/ InSensor(n) => Behind(state, n) /\ Behind(sensor.place, n)
  BY <1>1 DEF SensorInv, SensorIsAhead
<1>5. CASE PostSucceeds
  <2>1. /\ sensor' = Round(sensor.place, sensor.todo, {}) /\ arrived' = ArrivedOnceMore
        /\ repeated' = repeated /\ {} \in SUBSET LineIds
    BY <1>5 DEF PostSucceeds, sensorHistory
  <2>2. /\ sensor'.at # "down" /\ sensor'.place = sensor.place
        /\ sensor'.at \in {"add", "post"} => sensor'.todo = sensor.todo /\ sensor'.batch = {}
    BY <1>1, <2>1, RoundType
  <2>3. \A n \in LineIds : InSensor(n)' => n \in sensor.todo
    BY <2>2 DEF InSensor
  <2>4. \A n \in LineIds : /\ arrived[n] \in Nat
                           /\ n \in sensor.batch => arrived'[n] = arrived[n] + 1
                           /\ n \notin sensor.batch => arrived'[n] = arrived[n]
    BY <2>1, ArrivedType
  <2>5. AheadNext
    <3> SUFFICES ASSUME tears = 0, NEW n \in LineIds \ raced, arrived'[n] > 0 \/ InSensor(n)'
                 PROVE  Behind(state, n) /\ Behind(sensor.place, n)
      BY <1>1, <2>2 DEF AheadNext
    <3>1. arrived[n] > 0 \/ InSensor(n)
      BY <1>3, <2>3, <2>4
    <3> QED  BY <1>4, <3>1
  <2>6. SensorIsAhead'
    BY <2>5, SensorIsAheadNext
  <2>7. SensorHoldsOnce'
    <3>1. ASSUME tears = 0, NEW n \in LineIds \ (raced \cup repeated), InSensor(n)'
          PROVE  ~ (arrived'[n] > 0)
      <4>1. n \in sensor.todo /\ n \notin sensor.batch /\ InSensor(n)
        BY <1>2, <1>3, <2>3, <3>1
      <4>2. ~ (arrived[n] > 0)
        BY <3>1, <4>1 DEF SensorInv, SensorHoldsOnce
      <4> QED  BY <2>4, <4>1, <4>2
    <3> QED  BY <1>1, <2>1, <2>2, <3>1 DEF SensorHoldsOnce
  <2>8. OnceUnlessFault'
    <3>1. ASSUME NEW n \in LineIds, arrived'[n] > 1
          PROVE  n \in repeated \cup raced \/ tears > 0
      <4>1. CASE n \in sensor.batch
        <5>1. arrived[n] > 0 /\ InSensor(n)
          BY <1>3, <2>4, <3>1, <4>1
        <5>2. tears # 0 \/ n \in repeated \cup raced
          BY <5>1 DEF SensorInv, SensorHoldsOnce
        <5> QED  BY <5>2 DEF TypeOK
      <4>2. CASE n \notin sensor.batch
        BY <2>4, <3>1, <4>2 DEF SensorInv, OnceUnlessFault
      <4> QED  BY <4>1, <4>2
    <3> QED  BY <1>1, <2>1, <3>1 DEF OnceUnlessFault
  <2> QED  BY <2>6, <2>7, <2>8 DEF SensorInv
<1>6. CASE PostFails
  <2>1. /\ sensor' = sensor
        /\ \/ UNCHANGED <<arrived, repeated>>
           \/ arrived' = ArrivedOnceMore /\ repeated' = repeated \cup sensor.batch
    BY <1>6 DEF PostFails, AfterError
  <2>2. CASE UNCHANGED <<arrived, repeated>>
    <3>1. AheadNext
      BY <1>1, <2>1, <2>2 DEF AheadNext, SensorInv, SensorIsAhead, InSensor
    <3>2. SensorIsAhead'
      BY <3>1, SensorIsAheadNext
    <3> QED  BY <1>1, <2>1, <2>2, <3>2
             DEF SensorInv, SensorHoldsOnce, OnceUnlessFault, InSensor
  <2>3. CASE arrived' = ArrivedOnceMore /\ repeated' = repeated \cup sensor.batch
    <3>1. \A n \in LineIds : /\ arrived[n] \in Nat
                             /\ n \in sensor.batch => arrived'[n] = arrived[n] + 1
                             /\ n \notin sensor.batch => arrived'[n] = arrived[n]
      BY <2>3, ArrivedType
    <3>2. \A n \in LineIds : InSensor(n)' <=> InSensor(n)
      BY <2>1 DEF InSensor
    <3>3. AheadNext
      <4> SUFFICES ASSUME tears = 0, NEW n \in LineIds \ raced, arrived'[n] > 0 \/ InSensor(n)
                   PROVE  Behind(state, n) /\ Behind(sensor.place, n)
        BY <1>1, <2>1, <3>2 DEF AheadNext
      <4>1. arrived[n] > 0 \/ InSensor(n)
        BY <1>3, <3>1
      <4> QED  BY <1>4, <4>1
    <3>4. SensorIsAhead'
      BY <3>3, SensorIsAheadNext
    <3>5. SensorHoldsOnce'
      <4>1. ASSUME tears = 0, NEW n \in LineIds \ (raced \cup repeated'), InSensor(n)
            PROVE  ~ (arrived'[n] > 0)
        <5>1. n \notin sensor.batch /\ n \notin repeated
          BY <2>3, <4>1
        <5>2. ~ (arrived[n] > 0)
          BY <4>1, <5>1 DEF SensorInv, SensorHoldsOnce
        <5> QED  BY <3>1, <5>1, <5>2
      <4> QED  BY <1>1, <1>2, <2>1, <3>2, <4>1 DEF SensorHoldsOnce
    <3>6. OnceUnlessFault'
      <4>1. ASSUME NEW n \in LineIds, arrived'[n] > 1
            PROVE  n \in repeated' \cup raced \/ tears > 0
        <5>1. CASE n \in sensor.batch
          BY <2>3, <5>1
        <5>2. CASE n \notin sensor.batch
          BY <2>3, <3>1, <4>1, <5>2 DEF SensorInv, OnceUnlessFault
        <5> QED  BY <5>1, <5>2
      <4> QED  BY <1>1, <4>1 DEF OnceUnlessFault
    <3> QED  BY <3>4, <3>5, <3>6 DEF SensorInv
  <2> QED  BY <2>1, <2>2, <2>3
<1> QED  BY <1>5, <1>6

\* A dead collector holds nothing; its place is what it saved, unless it died
\* while it saved it.
LEMMA SensorDown ==
  ASSUME TypeOK, SensorInv, UNCHANGED <<file, written>>, SensorDies
  PROVE  SensorInv'
<1>1. /\ sensor'.at = "down" /\ UNCHANGED <<arrived, raced, repeated>>
      /\ UNCHANGED <<state, tears>> \/ tears' = tears + 1
  BY DEF SensorDies
<1>2. \A n \in LineIds : ~ InSensor(n)'
  BY <1>1 DEF InSensor
<1>3. tears' # 0 \/ UNCHANGED <<state, tears>>
  BY <1>1 DEF TypeOK
<1>4. AheadNext
  BY <1>1, <1>2, <1>3 DEF AheadNext, SensorInv, SensorIsAhead
<1>5. SensorIsAhead'
  BY <1>4, SensorIsAheadNext
<1>6. SensorHoldsOnce'
  BY <1>1, <1>2 DEF SensorHoldsOnce
<1>7. tears > 0 => tears' > 0
  BY <1>1 DEF TypeOK
<1>8. OnceUnlessFault'
  BY <1>1, <1>7 DEF SensorInv, OnceUnlessFault
<1> QED  BY <1>5, <1>6, <1>8 DEF SensorInv

\* Whatever the collector does.
LEMMA SensorStepKeeps ==
  ASSUME TypeOK, FileInOrder, SensorInv, SensorStep \/ PostFails \/ SensorDies,
         UNCHANGED <<file, written>>
  PROVE  SensorInv'
  BY SensorLooks, SensorReadsOnce, SensorBatches, SensorPosts, SensorDown DEF SensorStep

-----------------------------------------------------------------------------
(* What the collector has passed. *)

\* A place in the file it last read is not behind the end.
OffsetInFile ==
  /\ lastRead <= turns
  /\ lastRead = turns => \A place \in Places : place.offset <= Size

SkipInv == OffsetInFile /\ NoLineSkipped

\* The pieces of a file are numbered halves of lines.
LEMMA PiecesType ==
  ASSUME TypeOK
  PROVE  /\ Size \in Nat /\ DOMAIN file.pieces = 1 .. Size /\ file.pieces \in Seq(LineIds \X {1, 2})
         /\ \A i \in 1 .. Size :
              /\ file.pieces[i][1] \in LineIds
              /\ \E h \in {1, 2} : file.pieces[i] = <<file.pieces[i][1], h>>
         /\ lastRead \in Nat /\ turns \in Nat
         /\ \A place \in Places : place \in Place
<1>1. /\ file.pieces \in Seq(LineIds \X {1, 2}) /\ lastRead \in Nat /\ turns \in Nat
      /\ state \in Place
  BY DEF TypeOK
<1>2. Size \in Nat /\ DOMAIN file.pieces = 1 .. Size
  BY <1>1 DEF Size
<1>3. \A i \in 1 .. Size : file.pieces[i] \in LineIds \X {1, 2}
  BY <1>1, <1>2
<1>4. ASSUME NEW i \in 1 .. Size
      PROVE  /\ file.pieces[i][1] \in LineIds
             /\ \E h \in {1, 2} : file.pieces[i] = <<file.pieces[i][1], h>>
  <2>1. PICK n \in LineIds, h \in {1, 2} : file.pieces[i] = <<n, h>>
    BY <1>3
  <2> QED  BY <2>1
<1>5. \A place \in Places : place \in Place
  BY <1>1, SensorForm DEF Places
<1> QED  BY <1>1, <1>2, <1>4, <1>5

\* Nothing is skipped when the file is where it was and each place is one that
\* was, or the beginning.
LEMMA SkipKept ==
  ASSUME TypeOK, SkipInv, UNCHANGED <<file, turns, lastRead>>,
         \A n \in LineIds : IsAccounted(n) => IsAccounted(n)',
         \A place \in Places' : place.offset = 0 \/ \E was \in Places : place.offset = was.offset
  PROVE  SkipInv'
<1>1. Size \in Nat /\ DOMAIN file.pieces = 1 .. Size /\ Size' = Size
      /\ \A i \in 1 .. Size : file.pieces[i][1] \in LineIds
  BY PiecesType DEF Size
<1>2. OffsetInFile'
  BY <1>1 DEF SkipInv, OffsetInFile
<1>3. NoLineSkipped'
  <2> SUFFICES ASSUME lastRead = turns, NEW place \in Places', NEW i \in 1 .. Size,
                      i <= place.offset
               PROVE  IsAccounted(file.pieces[i][1])'
    BY <1>1 DEF NoLineSkipped
  <2>1. place.offset # 0
    OBVIOUS
  <2>2. PICK was \in Places : place.offset = was.offset
    BY <2>1
  <2>3. IsAccounted(file.pieces[i][1])
    BY <1>1, <2>2 DEF SkipInv, NoLineSkipped
  <2> DEFINE n == file.pieces[i][1]
  <2>4. n \in LineIds /\ IsAccounted(n) /\ n = file'.pieces[i][1]
    BY <1>1, <2>3
  <2> HIDE DEF n
  <2>5. arrived'[n] > 0 \/ n \in Held' \cup lost' \cup broken' \cup passed'
    BY <2>4 DEF IsAccounted
  <2> QED  BY <2>4, <2>5 DEF IsAccounted
<1> QED  BY <1>2, <1>3 DEF SkipInv

\* What is read of a file is told in one of three ways.
LEMMA ReadIsAccounted ==
  ASSUME TypeOK, NEW start \in Nat, start <= Size, NEW i \in 1 .. Size,
         NEW n \in LineIds, n = file.pieces[i][1]
  PROVE  /\ i <= start => n \in LinesIn(Before(start))
         /\ i > start => /\ n \in LinesIn(ReadFrom(start))
                         /\ \/ IsWhole(ReadFrom(start), n)
                            \/ Cardinality(HalvesOf(ReadFrom(start), n)) = 1
<1> DEFINE pieces == file.pieces
<1>1. /\ Size \in Nat /\ Size = Len(pieces) /\ pieces \in Seq(LineIds \X {1, 2})
      /\ \E h \in {1, 2} : pieces[i] = <<n, h>>
  BY PiecesType DEF Size
<1>2. PICK h \in {1, 2} : pieces[i] = <<n, h>>
  BY <1>1
<1> HIDE DEF pieces
<1>3. CASE i <= start
  <2>1. Before(start) = SubSeq(pieces, 1, start)
    BY <1>1 DEF Before, pieces
  <2>2. i \in DOMAIN SubSeq(pieces, 1, start) /\ SubSeq(pieces, 1, start)[i] = pieces[i]
    BY <1>1, <1>3
  <2>3. h \in HalvesOf(Before(start), n)
    BY <1>2, <2>1, <2>2 DEF HalvesOf
  <2> QED  BY <1>3, <2>3 DEF LinesIn
<1>4. CASE i > start
  <2>1. ReadFrom(start) = SubSeq(pieces, start + 1, Size)
    BY DEF ReadFrom, pieces
  <2>2. /\ i - start \in DOMAIN SubSeq(pieces, start + 1, Size)
        /\ SubSeq(pieces, start + 1, Size)[i - start] = pieces[i]
    BY <1>1, <1>4
  <2>3. h \in HalvesOf(ReadFrom(start), n)
    BY <1>2, <2>1, <2>2 DEF HalvesOf
  <2>4. HalvesOf(ReadFrom(start), n) \in SUBSET {1, 2}
    BY DEF HalvesOf
  <2>5. \/ HalvesOf(ReadFrom(start), n) = {1, 2}
        \/ HalvesOf(ReadFrom(start), n) = {1} \/ HalvesOf(ReadFrom(start), n) = {2}
    BY <2>3, <2>4
  <2>6. Cardinality({1}) = 1 /\ Cardinality({2}) = 1
    BY FS_Singleton
  <2>7. IsWhole(ReadFrom(start), n) \/ Cardinality(HalvesOf(ReadFrom(start), n)) = 1
    BY <2>5, <2>6 DEF IsWhole
  <2> QED  BY <1>4, <2>3, <2>7 DEF LinesIn
<1>5. i <= start \/ i > start
  BY <1>1
<1> QED  BY <1>3, <1>4, <1>5

\* A read leaves behind it what it takes, and what it takes for known.
LEMMA SkipRead ==
  ASSUME TypeOK, SkipInv, SensorReads, UNCHANGED <<file, turns>>
  PROVE  SkipInv'
<1> DEFINE start == sensor.place.offset
           pieces == ReadFrom(start)
           place == [sensor.place EXCEPT !.offset = EndsAt(start)]
           whole == {n \in LinesIn(pieces) : IsWhole(pieces, n)}
<1>1. /\ sensor.at = "open" /\ sensor' = Round(place, whole, {}) /\ state' = place
      /\ broken' = broken \cup {n \in LineIds : Cardinality(HalvesOf(pieces, n)) = 1}
      /\ passed' = IF lastRead = turns THEN passed ELSE passed \cup LinesIn(Before(start))
      /\ lastRead' = IF start > Size THEN lastRead ELSE turns
      /\ UNCHANGED <<arrived, lost>>
  BY DEF SensorReads
<1>2. sensor.place \in Place /\ place \in Place /\ start \in Nat /\ place.offset = EndsAt(start)
  BY <1>1, SensorForm, PlaceType DEF Place
<1>3. whole \in SUBSET LineIds /\ {} \in SUBSET LineIds
  BY DEF LinesIn
<1>4. /\ Size \in Nat /\ DOMAIN file.pieces = 1 .. Size /\ lastRead \in Nat /\ turns \in Nat
      /\ \A i \in 1 .. Size : file.pieces[i][1] \in LineIds
  BY PiecesType
<1>5. sensor.place \in Places
  BY <1>1 DEF Places
<1>6. Size' = Size
  BY DEF Size
<1>7. \A i \in 1 .. Size, n \in LineIds : n = file.pieces[i][1] /\ start <= Size =>
        /\ i <= start => n \in LinesIn(Before(start))
        /\ i > start => n \in whole \/ Cardinality(HalvesOf(pieces, n)) = 1
  BY <1>2, ReadIsAccounted
<1>8. \A n \in LineIds : IsAccounted(n) => arrived[n] > 0 \/ n \in lost \cup broken \cup passed
  BY <1>1 DEF IsAccounted, Held
<1>9. EndsAt(start) = IF start > Size THEN start ELSE Size
  BY DEF EndsAt
<1> HIDE DEF start, pieces, place, whole
<1>10. whole # {} => Held' = whole
  BY <1>1, <1>2, <1>3 DEF Round, Held
<1>11. sensor'.place = place
  BY <1>1, <1>2, <1>3, RoundType
<1>12. \A p \in Places' : p = place
  BY <1>1, <1>11 DEF Places
<1>13. CASE start > Size
  <2>1. lastRead # turns /\ lastRead <= turns
    <3>1. lastRead = turns => start <= Size
      BY <1>5 DEF SkipInv, OffsetInFile, start
    <3> QED  BY <1>2, <1>4, <1>13, <3>1 DEF SkipInv, OffsetInFile
  <2> QED  BY <1>1, <1>13, <2>1 DEF SkipInv, OffsetInFile, NoLineSkipped
<1>14. CASE ~ (start > Size)
  <2>1. lastRead' = turns' /\ EndsAt(start) = Size /\ start <= Size
    BY <1>1, <1>2, <1>4, <1>9, <1>14
  <2>2. OffsetInFile'
    BY <1>2, <1>4, <1>6, <1>12, <2>1 DEF OffsetInFile
  <2>3. ASSUME NEW i \in 1 .. Size
        PROVE  IsAccounted(file.pieces[i][1])'
    <3> DEFINE n == file.pieces[i][1]
    <3>1. n \in LineIds /\ file'.pieces[i][1] = n
      BY <1>4
    <3>2. /\ i <= start => n \in LinesIn(Before(start))
          /\ i > start => n \in whole \/ Cardinality(HalvesOf(pieces, n)) = 1
      BY <1>7, <2>1, <3>1
    <3>3. i <= start /\ lastRead = turns => IsAccounted(n)
      BY <1>4, <1>5 DEF SkipInv, NoLineSkipped, start
    <3> HIDE DEF n
    <3>4. arrived'[n] > 0 \/ n \in Held' \cup lost' \cup broken' \cup passed'
      <4>1. CASE i <= start /\ lastRead = turns
        BY <1>1, <1>8, <3>1, <3>3, <4>1
      <4>2. CASE i <= start /\ lastRead # turns
        BY <1>1, <3>2, <4>2
      <4>3. CASE i > start /\ n \in whole
        BY <1>10, <4>3
      <4>4. CASE i > start /\ Cardinality(HalvesOf(pieces, n)) = 1
        BY <1>1, <3>1, <4>4
      <4>5. i <= start \/ i > start
        BY <1>2
      <4> QED  BY <3>2, <4>1, <4>2, <4>3, <4>4, <4>5
    <3> QED  BY <3>1, <3>4 DEF IsAccounted
  <2>4. NoLineSkipped'
    BY <1>4, <2>3 DEF NoLineSkipped
  <2> QED  BY <2>2, <2>4 DEF SkipInv
<1> QED  BY <1>13, <1>14

\* Whatever else the collector does.
LEMMA SkipStep ==
  ASSUME TypeOK, SkipInv, SensorStep \/ PostFails \/ SensorDies, UNCHANGED fileVars
  PROVE  SkipInv'
<1>1. UNCHANGED <<file, turns>>
  BY DEF fileVars
<1>2. sensor.at # "down" => sensor.place \in Place
  BY SensorForm
<1>3. \A n \in LineIds : arrived[n] \in Nat
  BY DEF TypeOK
<1>4. state \in Places /\ (sensor.at # "down" => sensor.place \in Places)
  BY DEF Places
<1>5. CASE SensorReads
  BY <1>1, <1>5, SkipRead
<1>6. CASE SensorStats
  <2>1. /\ sensor.at = "sleep" /\ sensor'.at = "open" /\ sensor'.place.offset = StartAt(sensor.place)
        /\ UNCHANGED <<state, arrived, lost, broken, passed, lastRead>>
    BY <1>6 DEF SensorStats, sensorHistory
  <2>2. StartAt(sensor.place) \in {0, sensor.place.offset}
    BY DEF StartAt
  <2>3. \A n \in LineIds : IsAccounted(n) => IsAccounted(n)'
    BY <2>1 DEF IsAccounted, Held
  <2>4. \A p \in Places' : p = state \/ p.offset = StartAt(sensor.place)
    BY <2>1 DEF Places
  <2>5. \A p \in Places' : p.offset = 0 \/ \E was \in Places : p.offset = was.offset
    BY <1>4, <2>1, <2>2, <2>4
  <2> QED  BY <1>1, <2>1, <2>3, <2>5, SkipKept
<1>7. CASE SensorStarts
  <2>1. /\ sensor.at = "down" /\ sensor'.at = "sleep" /\ sensor'.place = state
        /\ UNCHANGED <<state, arrived, lost, broken, passed, lastRead>>
    BY <1>7 DEF SensorStarts, sensorHistory
  <2>2. \A n \in LineIds : IsAccounted(n) => IsAccounted(n)'
    BY <2>1 DEF IsAccounted, Held
  <2>3. \A p \in Places' : p = state
    BY <2>1 DEF Places
  <2> QED  BY <1>1, <1>4, <2>1, <2>2, <2>3, SkipKept
<1>8. CASE SensorDies
  <2>1. /\ sensor'.at = "down" /\ lost' = lost \cup Held /\ state' \in {state, Nowhere}
        /\ UNCHANGED <<arrived, broken, passed, lastRead>>
    BY <1>8 DEF SensorDies
  <2>2. \A n \in LineIds : IsAccounted(n) => IsAccounted(n)'
    BY <2>1 DEF IsAccounted
  <2>3. \A p \in Places' : p = state \/ p.offset = 0
    BY <2>1 DEF Places, Nowhere
  <2> QED  BY <1>1, <1>4, <2>1, <2>2, <2>3, SkipKept
<1>9. CASE AddToBatch \/ EndRound
  <2>1. /\ sensor'.place = sensor.place /\ sensor.at = "add" /\ Held' = Held
        /\ UNCHANGED <<state, arrived, lost, broken, passed, lastRead>>
    <3>1. sensor.at = "add" /\ UNCHANGED <<state, arrived, lost, broken, passed, lastRead>>
      BY <1>9 DEF AddToBatch, EndRound, sensorHistory
    <3>2. /\ sensor'.at \in {"add", "post"} /\ sensor'.place = sensor.place
          /\ sensor'.todo \cup sensor'.batch = sensor.todo \cup sensor.batch
      BY <1>9, BatchMoves
    <3> QED  BY <3>1, <3>2 DEF Held
  <2>2. \A n \in LineIds : IsAccounted(n) => IsAccounted(n)'
    BY <2>1 DEF IsAccounted
  <2>3. \A p \in Places' : p = state \/ p = sensor.place
    BY <2>1 DEF Places
  <2> QED  BY <1>1, <1>4, <2>1, <2>2, <2>3, SkipKept
<1>10. CASE PostSucceeds
  <2>1. /\ sensor.at = "post" /\ sensor.place \in Place
        /\ sensor.todo \in SUBSET LineIds /\ {} \in SUBSET LineIds
        /\ sensor' = Round(sensor.place, sensor.todo, {}) /\ arrived' = ArrivedOnceMore
        /\ UNCHANGED <<state, lost, broken, passed, lastRead>>
    BY <1>10, SensorForm DEF PostSucceeds, sensorHistory
  <2>2. sensor'.place = sensor.place /\ (sensor.todo # {} => Held' = sensor.todo)
    <3>1. sensor'.place = sensor.place
      BY <2>1, RoundType
    <3>2. ASSUME sensor.todo # {} PROVE Held' = sensor.todo
      <4>1. sensor' = [at |-> "add", place |-> sensor.place, todo |-> sensor.todo, batch |-> {}]
        BY <2>1, <3>2 DEF Round
      <4> QED  BY <4>1 DEF Held
    <3> QED  BY <3>1, <3>2
  <2>3. \A n \in LineIds : /\ n \in sensor.batch => arrived'[n] = arrived[n] + 1
                           /\ n \notin sensor.batch => arrived'[n] = arrived[n]
    BY <2>1, ArrivedType
  <2>4. Held = sensor.todo \cup sensor.batch
    BY <2>1 DEF Held
  <2>5. \A n \in LineIds : IsAccounted(n) => IsAccounted(n)'
    BY <1>3, <2>1, <2>2, <2>3, <2>4 DEF IsAccounted
  <2>6. \A p \in Places' : p = state \/ p = sensor.place
    BY <2>1, <2>2 DEF Places
  <2> QED  BY <1>1, <1>4, <2>1, <2>5, <2>6, SkipKept
<1>11. CASE PostFails
  <2>1. /\ sensor.at = "post" /\ sensor' = sensor /\ arrived' \in {arrived, ArrivedOnceMore}
        /\ UNCHANGED <<state, lost, broken, passed, lastRead>>
    BY <1>11 DEF PostFails, AfterError
  <2>2. \A n \in LineIds : arrived[n] > 0 => arrived'[n] > 0
    BY <1>3, <2>1, ArrivedType
  <2>3. \A n \in LineIds : IsAccounted(n) => IsAccounted(n)'
    BY <2>1, <2>2 DEF IsAccounted, Held
  <2>4. \A p \in Places' : p = state \/ p = sensor.place
    BY <2>1 DEF Places
  <2> QED  BY <1>1, <1>4, <2>1, <2>3, <2>4, SkipKept
<1> QED  BY <1>5, <1>6, <1>7, <1>8, <1>9, <1>10, <1>11 DEF SensorStep

\* What is written lies after every place, and another file is not the one that
\* was read.
LEMMA SkipFile ==
  ASSUME TypeOK, FileInOrder, SkipInv, FileStep, UNCHANGED sensorVars
  PROVE  SkipInv'
<1>1. /\ UNCHANGED <<sensor, state, arrived, lost, broken, passed, lastRead>>
      /\ Places' = Places /\ \A n : IsAccounted(n) => IsAccounted(n)'
  BY DEF sensorVars, sensorHistory, Places, IsAccounted, Held
<1>2. /\ Size \in Nat /\ DOMAIN file.pieces = 1 .. Size /\ lastRead \in Nat /\ turns \in Nat
      /\ \A p \in Places : p.offset \in Nat
  BY PiecesType DEF Place
<1>3. CASE WriteLine \/ FinishLine
  <2>1. /\ Size' \in Nat /\ Size < Size' /\ (DOMAIN file.pieces)' = 1 .. Size'
        /\ \A i \in 1 .. Size : file'.pieces[i] = file.pieces[i]
    BY <1>3, WriteGrows
  <2>2. turns' = turns
    BY <1>3 DEF WriteLine, FinishLine
  <2>3. OffsetInFile'
    BY <1>1, <1>2, <2>1, <2>2 DEF SkipInv, OffsetInFile
  <2>4. NoLineSkipped'
    <3> SUFFICES ASSUME lastRead = turns, NEW p \in Places, NEW i \in 1 .. Size', i <= p.offset
                 PROVE  IsAccounted(file.pieces[i][1])'
      BY <1>1, <2>1, <2>2 DEF NoLineSkipped
    <3>1. p.offset <= Size
      BY DEF SkipInv, OffsetInFile
    <3>2. i \in 1 .. Size
      BY <1>2, <2>1, <3>1
    <3>3. IsAccounted(file.pieces[i][1]) /\ file'.pieces[i] = file.pieces[i]
      BY <1>2, <2>1, <3>2 DEF SkipInv, NoLineSkipped
    <3> QED  BY <1>1, <3>3 DEF IsAccounted, Held
  <2> QED  BY <2>3, <2>4 DEF SkipInv
<1>4. CASE Rotate \/ Truncate
  <2>1. turns' = turns + 1
    BY <1>4 DEF Rotate, Truncate, Turn
  <2>2. lastRead' <= turns' /\ lastRead' # turns'
    BY <1>1, <1>2, <2>1 DEF SkipInv, OffsetInFile
  <2> QED  BY <2>2 DEF SkipInv, OffsetInFile, NoLineSkipped
<1> QED  BY <1>3, <1>4 DEF FileStep

\* Others than the collector and the writer leave both alone.
LEMMA SkipUndisturbed ==
  ASSUME SkipInv, UNCHANGED <<file, turns, sensorVars>>
  PROVE  SkipInv'
  BY DEF SkipInv, OffsetInFile, NoLineSkipped, Places, IsAccounted, Held, Size,
         sensorVars, sensorHistory

-----------------------------------------------------------------------------
(* The agent. *)

AgentInv == AgentIsAhead /\ OncePerStart

\* What is behind the agent stays so while it is elsewhere.
LEMMA AgentUndisturbed ==
  ASSUME TypeOK, AgentInv, UNCHANGED <<agent, sent, misread>>,
         \A q \in Place, n \in LineIds : Behind(q, n) => StillBehind(q, n)
  PROVE  AgentInv'
<1>1. AgentIsAhead'
  <2> SUFFICES ASSUME NEW n \in LineIds \ misread
               PROVE  /\ sent[n] > 0 \/ InAgent(n) => Behind(agent.place, n)'
                      /\ ~ (sent[n] > 0 /\ InAgent(n))
    BY DEF AgentIsAhead, InAgent
  <2>1. ~ (sent[n] > 0 /\ InAgent(n))
    BY DEF AgentInv, AgentIsAhead
  <2>2. ASSUME sent[n] > 0 \/ InAgent(n) PROVE Behind(agent.place, n)'
    <3>1. Behind(agent.place, n) /\ agent.place \in Place
      BY <2>2, AgentForm DEF AgentInv, AgentIsAhead
    <3>2. StillBehind(agent.place, n)
      BY <3>1
    <3> QED  BY <3>2 DEF StillBehind, Behind
  <2> QED  BY <2>1, <2>2
<1>2. OncePerStart'
  BY DEF AgentInv, OncePerStart
<1> QED  BY <1>1, <1>2 DEF AgentInv

\* What the agent is ahead of, told of the file as it is.
AgentAheadNext ==
  \A n \in LineIds \ misread' :
    /\ sent'[n] > 0 \/ InAgent(n)' => Behind(agent'.place, n)
    /\ ~ (sent'[n] > 0 /\ InAgent(n)')

\* The file is where it was.
LEMMA AgentIsAheadNext ==
  ASSUME UNCHANGED <<file, written>>, AgentAheadNext
  PROVE  AgentIsAhead'
  BY DEF AgentAheadNext, AgentIsAhead, Behind, InLine, Size

\* A line that is read again was not read in its place since the agent started.
LEMMA AgentReadsOnce ==
  ASSUME TypeOK, FileInOrder, AgentInv, UNCHANGED <<file, written>>, AgentReads
  PROVE  AgentInv'
<1> DEFINE pieces == ReadFrom(agent.place.offset)
           place == [agent.place EXCEPT !.offset = EndsAt(agent.place.offset)]
           lines == LinesIn(pieces)
<1>1. /\ agent.at = "open" /\ agent' = Sending("lines", lines, place)
      /\ misread' = misread \cup {n \in lines : ~ IsWhole(pieces, n)
                                               \/ agent.place.inode # file.inode}
      /\ sent' = sent
  BY DEF AgentReads
<1>2. agent.place \in Place /\ place \in Place /\ lines \in SUBSET LineIds
  BY AgentForm, PlaceType DEF LinesIn
<1>3. \A n \in LineIds : n \in lines /\ n \notin misread' =>
        ~ Behind(agent.place, n) /\ Behind(place, n)
  BY <1>1, <1>2, WholeIsRead
<1>4. \A n \in LineIds : Behind(agent.place, n) => Behind(place, n)
  BY <1>2, BehindAfterRead
<1>5. misread \subseteq misread'
  BY <1>1
<1> HIDE DEF pieces, place, lines
<1>6. agent'.place = place /\ (agent'.at = "lines" => agent'.todo = lines)
  BY <1>1, <1>2, SendingType
<1>7. \A n \in LineIds : InAgent(n)' => n \in lines
  BY <1>6 DEF InAgent
<1>8. \A n \in LineIds \ misread : sent[n] > 0 => Behind(agent.place, n)
  BY DEF AgentInv, AgentIsAhead
<1>9. AgentAheadNext
  BY <1>1, <1>3, <1>4, <1>5, <1>6, <1>7, <1>8 DEF AgentAheadNext
<1>10. AgentIsAhead'
  BY <1>9, AgentIsAheadNext
<1>11. OncePerStart'
  BY <1>1, <1>5 DEF AgentInv, OncePerStart
<1> QED  BY <1>10, <1>11 DEF AgentInv

\* A line is sent, or not, and is not held any more.
LEMMA AgentSends ==
  ASSUME TypeOK, AgentInv, UNCHANGED <<file, written>>, SendLine
  PROVE  AgentInv'
<1> DEFINE line == Min(agent.todo)
<1>1. /\ agent.at = "lines" /\ agent.place \in Place /\ agent.todo \in SUBSET LineIds
      /\ sent \in [LineIds -> Nat]
  BY AgentForm DEF SendLine, TypeOK
<1>2. /\ agent' = Sending("lines", agent.todo \ {line}, agent.place)
      /\ sent' = [sent EXCEPT ![line] = @ + 1] \/ sent' = sent
      /\ misread' = misread
  BY DEF SendLine
<1>3. agent.todo # {} => line \in agent.todo
  <2>1. agent.todo \in SUBSET Nat
    BY <1>1 DEF LineIds
  <2> QED  BY <2>1, MinIsMember
<1>4. agent.todo # {}
  BY <1>1 DEF TypeOK, AgentStates
<1> HIDE DEF line
<1>5. agent'.place = agent.place /\ (agent'.at = "lines" => agent'.todo = agent.todo \ {line})
  BY <1>1, <1>2, SendingType
<1>6. \A n \in LineIds : InAgent(n)' => InAgent(n) /\ n # line
  BY <1>1, <1>5 DEF InAgent
<1>7. line \in LineIds /\ InAgent(line)
  BY <1>1, <1>3, <1>4 DEF InAgent
<1>8. \A n \in LineIds : sent'[n] = sent[n] \/ (n = line /\ sent'[n] = sent[n] + 1)
  BY <1>1, <1>2
<1>9. AgentAheadNext
  <2> SUFFICES ASSUME NEW n \in LineIds \ misread
               PROVE  /\ sent'[n] > 0 \/ InAgent(n)' => Behind(agent.place, n)
                      /\ ~ (sent'[n] > 0 /\ InAgent(n)')
    BY <1>2, <1>5 DEF AgentAheadNext
  <2>1. /\ sent[n] > 0 \/ InAgent(n) => Behind(agent.place, n)
        /\ ~ (sent[n] > 0 /\ InAgent(n))
    BY DEF AgentInv, AgentIsAhead
  <2> QED  BY <1>6, <1>7, <1>8, <2>1
<1>10. AgentIsAhead'
  BY <1>9, AgentIsAheadNext
<1>11. OncePerStart'
  <2> SUFFICES ASSUME NEW n \in LineIds \ misread PROVE ~ (sent'[n] > 1)
    BY <1>2 DEF OncePerStart
  <2>1. sent[n] \in Nat /\ ~ (sent[n] > 1) /\ ~ (sent[n] > 0 /\ InAgent(n))
    BY <1>1 DEF AgentInv, OncePerStart, AgentIsAhead
  <2> QED  BY <1>7, <1>8, <2>1
<1> QED  BY <1>10, <1>11 DEF AgentInv

\* What else the agent does, a start apart, leaves its lines alone.
LEMMA AgentGoesOn ==
  ASSUME TypeOK, AgentInv, UNCHANGED <<file, written>>,
         AgentStats \/ SendVisit \/ CollectVisits \/ SkipVisits
  PROVE  AgentInv'
<1>1. sent' = sent /\ misread' = misread /\ agent.place \in Place
  BY AgentForm DEF AgentStats, SendVisit, CollectVisits, SkipVisits
<1>2. /\ agent'.at # "lines"
      /\ agent'.place \in {agent.place, [inode |-> file.inode, offset |-> StartAt(agent.place)]}
  <2>1. CASE AgentStats
    BY <2>1 DEF AgentStats
  <2>2. CASE SendVisit
    <3>1. agent.todo \in SUBSET (Urls \X Nat)
      BY <2>2, AgentForm DEF SendVisit
    <3>2. PICK row \in agent.todo : agent' = Sending("rows", agent.todo \ {row}, agent.place)
      BY <2>2 DEF SendVisit
    <3> QED  BY <1>1, <3>1, <3>2, SendingType
  <2>3. CASE CollectVisits
    <3>1. PICK page \in Pages(NewVisits) : agent' = Sending("rows", page, agent.place)
      BY <2>3 DEF CollectVisits
    <3>2. page \in SUBSET (Urls \X Nat)
      BY PageType
    <3> QED  BY <1>1, <3>1, <3>2, SendingType
  <2>4. CASE SkipVisits
    <3>1. agent.at = "visits" /\ agent' = [agent EXCEPT !.at = "logs"]
      BY <2>4 DEF SkipVisits
    <3>2. agent' = [at |-> "logs", place |-> agent.place]
      BY <3>1 DEF TypeOK, AgentStates
    <3> QED  BY <3>2
  <2> QED  BY <2>1, <2>2, <2>3, <2>4
<1>3. \A n \in LineIds \ misread : sent[n] > 0 => Behind(agent'.place, n)
  BY <1>1, <1>2, BehindAfterStat DEF AgentInv, AgentIsAhead
<1>4. AgentAheadNext
  BY <1>1, <1>2, <1>3 DEF AgentAheadNext, InAgent
<1>5. AgentIsAhead'
  BY <1>4, AgentIsAheadNext
<1>6. OncePerStart'
  BY <1>1 DEF AgentInv, OncePerStart
<1> QED  BY <1>5, <1>6 DEF AgentInv

\* After a start it has sent nothing.
LEMMA AgentStartsAnew ==
  ASSUME AgentRestarts
  PROVE  AgentInv'
<1>1. agent'.at = "logs" /\ \A n \in LineIds : sent'[n] = 0
  BY DEF AgentRestarts
<1> QED  BY <1>1 DEF AgentInv, AgentIsAhead, OncePerStart, InAgent

\* Whatever the agent does.
LEMMA AgentStepKeeps ==
  ASSUME TypeOK, FileInOrder, AgentInv, AgentStep, UNCHANGED <<file, written>>
  PROVE  AgentInv'
  BY AgentReadsOnce, AgentSends, AgentGoesOn, AgentStartsAnew DEF AgentStep

-----------------------------------------------------------------------------
(* The visits. *)

VisitsInv == VisitsAreKnown /\ NoVisitSkipped

\* A page is read up to its newest visit; what is left out is not before it.
LEMMA VisitsCollected ==
  ASSUME TypeOK, VisitsInv, CollectVisits, UNCHANGED happenings
  PROVE  VisitsInv'
<1>1. PICK page \in Pages(NewVisits) :
           /\ read' = read \cup page
           /\ urlState' = Max({row[2] : row \in page} \cup {urlState})
  BY DEF CollectVisits
<1>2. lastVisit' = lastVisit /\ lastVisit \in [Urls -> Nat] /\ urlState \in Nat
  BY DEF CollectVisits, TypeOK
<1>3. /\ \A row \in page : /\ row = <<row[1], row[2]>> /\ row[1] \in Urls
                           /\ lastVisit[row[1]] = row[2]
      /\ \A u \in Urls : lastVisit[u] > urlState /\ <<u, lastVisit[u]>> \notin page =>
           \A row \in page : row[2] <= lastVisit[u]
  BY PageType
<1>4. /\ urlState' \in Nat /\ urlState' >= urlState
      /\ urlState' = urlState \/ \E row \in page : row[2] = urlState'
  BY <1>1, PageMax DEF VisitsInv
<1>5. \A u \in Urls : lastVisit[u] <= happenings
  BY DEF VisitsInv, VisitsAreKnown
<1>6. VisitsAreKnown'
  <2>1. CASE urlState' = urlState
    BY <1>1, <1>2, <2>1 DEF VisitsInv, VisitsAreKnown
  <2>2. CASE urlState' # urlState
    <3>1. PICK row \in page : row[2] = urlState'
      BY <1>4, <2>2
    <3>2. <<row[1], urlState'>> \in read' /\ row[1] \in Urls /\ lastVisit[row[1]] = urlState'
      BY <1>1, <1>3, <3>1
    <3>3. urlState' <= lastVisit'[row[1]]
      BY <1>2, <1>4, <3>2
    <3> QED  BY <1>2, <1>5, <3>2, <3>3 DEF VisitsAreKnown
  <2> QED  BY <2>1, <2>2
<1>7. NoVisitSkipped'
  <2> SUFFICES ASSUME NEW u \in Urls, lastVisit[u] \in 1 .. urlState'
               PROVE  \E v \in Urls : <<v, lastVisit[u]>> \in read'
    BY <1>2 DEF NoVisitSkipped
  <2>1. CASE lastVisit[u] <= urlState
    <3>1. lastVisit[u] \in 1 .. urlState
      BY <1>2, <2>1
    <3> QED  BY <1>1, <3>1 DEF VisitsInv, NoVisitSkipped
  <2>2. CASE lastVisit[u] > urlState /\ <<u, lastVisit[u]>> \in page
    BY <1>1, <2>2
  <2>3. CASE lastVisit[u] > urlState /\ <<u, lastVisit[u]>> \notin page
    <3>1. PICK row \in page : row[2] = urlState'
      BY <1>2, <1>4, <2>3
    <3>2. row[2] <= lastVisit[u]
      BY <1>3, <2>3
    <3>3. row[2] = lastVisit[u]
      BY <1>2, <1>4, <3>1, <3>2
    <3> QED  BY <1>1, <1>3, <3>3
  <2>4. lastVisit[u] \in Nat
    BY <1>2
  <2> QED  BY <1>2, <2>1, <2>2, <2>3, <2>4
<1> QED  BY <1>6, <1>7 DEF VisitsInv

\* A page that is visited again is not before the agent's place.
LEMMA VisitsGrow ==
  ASSUME TypeOK, VisitsInv, NEW u \in Urls, Visit(u)
  PROVE  VisitsInv'
<1>1. PICK time \in Nat :
           /\ time <= happenings' /\ lastVisit' = [lastVisit EXCEPT ![u] = time]
           /\ \A v \in Urls : lastVisit[v] <= time
           /\ happenings' = happenings + 1
  BY VisitIsLater DEF VisitsInv
<1>2. /\ UNCHANGED <<urlState, read>> /\ lastVisit \in [Urls -> Nat]
      /\ urlState \in Nat /\ happenings \in Nat
  BY DEF Visit, TypeOK
<1>3. lastVisit'[u] = time /\ \A v \in Urls \ {u} : lastVisit'[v] = lastVisit[v]
  BY <1>1, <1>2
<1>4. VisitsAreKnown'
  <2>1. \A v \in Urls : lastVisit'[v] <= happenings'
    BY <1>1, <1>2, <1>3 DEF VisitsInv, VisitsAreKnown
  <2>2. ASSUME urlState > 0
        PROVE  /\ \E v \in Urls : <<v, urlState>> \in read
               /\ \E v \in Urls : urlState <= lastVisit'[v]
    <3>1. PICK v \in Urls : urlState <= lastVisit[v]
      BY <2>2 DEF VisitsInv, VisitsAreKnown
    <3>2. urlState <= lastVisit'[u]
      BY <1>1, <1>2, <1>3, <3>1
    <3> QED  BY <2>2, <3>2 DEF VisitsInv, VisitsAreKnown
  <2> QED  BY <1>2, <2>1, <2>2 DEF VisitsAreKnown
<1>5. NoVisitSkipped'
  <2> SUFFICES ASSUME NEW w \in Urls, lastVisit'[w] \in 1 .. urlState
               PROVE  \E v \in Urls : <<v, lastVisit'[w]>> \in read
    BY <1>2 DEF NoVisitSkipped
  <2>1. CASE w # u
    BY <1>3, <2>1 DEF VisitsInv, NoVisitSkipped
  <2>2. CASE w = u
    <3>1. urlState > 0 /\ lastVisit'[w] = time /\ time <= urlState
      BY <1>1, <1>2, <1>3, <2>2
    <3>2. PICK v \in Urls : urlState <= lastVisit[v]
      BY <3>1 DEF VisitsInv, VisitsAreKnown
    <3>3. time = urlState
      BY <1>1, <1>2, <3>1, <3>2
    <3> QED  BY <3>1, <3>3 DEF VisitsInv, VisitsAreKnown
  <2> QED  BY <2>1, <2>2
<1> QED  BY <1>4, <1>5 DEF VisitsInv

\* What else happens leaves the visits alone; a torn state begins before them.
LEMMA VisitsUndisturbed ==
  ASSUME TypeOK, VisitsInv, UNCHANGED <<lastVisit, read>>, urlState' \in {0, urlState},
         happenings' \in Nat, happenings' >= happenings
  PROVE  VisitsInv'
<1>1. lastVisit \in [Urls -> Nat] /\ urlState \in Nat /\ happenings \in Nat
  BY DEF TypeOK
<1>2. VisitsAreKnown'
  <2>1. \A u \in Urls : lastVisit[u] <= happenings'
    <3>1. \A u \in Urls : lastVisit[u] \in Nat /\ lastVisit[u] <= happenings
      BY <1>1 DEF VisitsInv, VisitsAreKnown
    <3> QED  BY <1>1, <3>1
  <2>2. urlState' > 0 => urlState' = urlState
    OBVIOUS
  <2>3. urlState > 0 => /\ \E v \in Urls : <<v, urlState>> \in read
                        /\ \E v \in Urls : urlState <= lastVisit[v]
    BY DEF VisitsInv, VisitsAreKnown
  <2> QED  BY <2>1, <2>2, <2>3 DEF VisitsAreKnown
<1>3. NoVisitSkipped'
  BY <1>1 DEF VisitsInv, NoVisitSkipped
<1> QED  BY <1>2, <1>3 DEF VisitsInv

\* Whatever the agent does.
LEMMA VisitsStep ==
  ASSUME TypeOK, VisitsInv, AgentStep, UNCHANGED happenings
  PROVE  VisitsInv'
<1>1. CASE CollectVisits
  BY <1>1, VisitsCollected
<1>2. CASE ~ CollectVisits
  <2>1. UNCHANGED <<lastVisit, read>> /\ urlState' \in {0, urlState}
    BY <1>2 DEF AgentStep, AgentStats, AgentReads, SendLine, SendVisit, SkipVisits, AgentRestarts
  <2>2. happenings' \in Nat /\ happenings' >= happenings
    BY DEF TypeOK
  <2> QED  BY <2>1, <2>2, VisitsUndisturbed
<1> QED  BY <1>1, <1>2

-----------------------------------------------------------------------------
(* The host. *)

HostInv == TypeOK /\ FileInOrder /\ SensorInv /\ SkipInv /\ AgentInv /\ VisitsInv

\* It holds at first,
LEMMA HostInitially == Init => HostInv
<1> SUFFICES ASSUME Init PROVE HostInv
  OBVIOUS
<1>1. /\ file = [inode |-> 1, pieces |-> <<>>] /\ written = 0 /\ happenings = 0
      /\ faults = 0 /\ turns = 0
      /\ sensor = [at |-> "sleep", place |-> Nowhere] /\ state = Nowhere
      /\ arrived = [n \in LineIds |-> 0] /\ tears = 0 /\ lastRead = 0
      /\ lost = {} /\ broken = {} /\ passed = {} /\ repeated = {} /\ raced = {}
      /\ agent = [at |-> "logs", place |-> Nowhere]
      /\ lastVisit = [u \in Urls |-> 0] /\ urlState = 0
      /\ sent = [n \in LineIds |-> 0] /\ misread = {} /\ read = {}
  BY DEF Init, FileInit, SensorInit, AgentInit
<1>2. Nowhere \in Place
  BY DEF Nowhere, Place
<1>3. sensor \in SensorStates /\ agent \in AgentStates
  BY <1>1, <1>2 DEF SensorStates, AgentStates
<1>4. file \in [inode : Nat, pieces : Seq(LineIds \X {1, 2})]
  BY <1>1
<1>5. arrived \in [LineIds -> Nat] /\ sent \in [LineIds -> Nat] /\ lastVisit \in [Urls -> Nat]
  BY <1>1
<1>6. happenings \in 0 .. MaxHappenings /\ faults \in 0 .. MaxFaults
  BY <1>1, LogFileConstants
<1>7. TypeOK
  BY <1>1, <1>2, <1>3, <1>4, <1>5, <1>6 DEF TypeOK
<1>8. FileInOrder
  BY <1>1 DEF FileInOrder, InLine, Size
<1>9. SensorInv
  BY <1>1 DEF SensorInv, SensorIsAhead, SensorHoldsOnce, OnceUnlessFault, InSensor
<1>10. AgentInv
  BY <1>1 DEF AgentInv, AgentIsAhead, OncePerStart, InAgent
<1>11. VisitsInv
  BY <1>1 DEF VisitsInv, VisitsAreKnown, NoVisitSkipped
<1>12. SkipInv
  BY <1>1 DEF SkipInv, OffsetInFile, NoLineSkipped, Places, Nowhere, Size
<1> QED  BY <1>7, <1>8, <1>9, <1>10, <1>11, <1>12 DEF HostInv

\* and is kept by every step.
LEMMA HostStep == HostInv /\ [Next]_vars => HostInv'
<1> SUFFICES ASSUME HostInv, [Next]_vars PROVE HostInv'
  OBVIOUS
<1>1. TypeOK /\ FileInOrder /\ SensorInv /\ SkipInv /\ AgentInv /\ VisitsInv /\ happenings \in Nat
  BY DEF HostInv, TypeOK
<1>2. TypeOK'
  BY <1>1, TypeStep DEF VisitsInv
<1>3. happenings' \in Nat
  BY <1>2 DEF TypeOK
<1>4. ASSUME UNCHANGED <<file, written>>
      PROVE  \A q \in Place, n \in LineIds : Behind(q, n) => StillBehind(q, n)
  BY <1>4, FileStays
<1>5. ASSUME UNCHANGED <<file, written, happenings>> PROVE FileInOrder'
  BY <1>1, <1>5 DEF FileInOrder, InLine, Size
<1>6. CASE FileStep /\ UNCHANGED <<sensorVars, agentVars>>
  <2>1. FileInOrder' /\ \A q \in Place, n \in LineIds : Behind(q, n) => StillBehind(q, n)
    BY <1>1, <1>6, FileStepKeeps
  <2>2. happenings' >= happenings
    BY <1>1, <1>6 DEF FileStep, WriteLine, FinishLine, Rotate, Truncate, Turn, Happens
  <2>3. UNCHANGED <<agent, sent, misread, lastVisit, read>> /\ urlState' \in {0, urlState}
    BY <1>6 DEF agentVars
  <2>4. SensorInv' /\ AgentInv' /\ VisitsInv'
    BY <1>1, <1>3, <1>6, <2>1, <2>2, <2>3, SensorUndisturbed, AgentUndisturbed, VisitsUndisturbed
  <2>5. SkipInv'
    BY <1>1, <1>6, SkipFile
  <2> QED  BY <1>2, <2>1, <2>4, <2>5 DEF HostInv
<1>7. CASE (SensorStep \/ PostFails \/ SensorDies) /\ UNCHANGED <<fileVars, agentVars>>
  <2>1. UNCHANGED <<file, written, happenings, agent, sent, misread, lastVisit, read, urlState>>
    BY <1>7 DEF fileVars, agentVars
  <2>2. FileInOrder' /\ SensorInv' /\ SkipInv'
    BY <1>1, <1>5, <1>7, <2>1, SensorStepKeeps, SkipStep
  <2>3. AgentInv' /\ VisitsInv'
    BY <1>1, <1>4, <2>1, AgentUndisturbed, VisitsUndisturbed
  <2> QED  BY <1>2, <2>2, <2>3 DEF HostInv
<1>8. CASE AgentStep /\ UNCHANGED <<fileVars, sensorVars>>
  <2>1. UNCHANGED <<file, written, turns, happenings, sensorVars>>
    BY <1>8 DEF fileVars
  <2>2. FileInOrder' /\ AgentInv' /\ VisitsInv'
    BY <1>1, <1>5, <1>8, <2>1, AgentStepKeeps, VisitsStep
  <2>3. SensorInv' /\ SkipInv'
    BY <1>1, <1>4, <2>1, SensorUndisturbed, SkipUndisturbed
  <2> QED  BY <1>2, <2>2, <2>3 DEF HostInv
<1>9. ASSUME NEW u \in Urls, Visit(u), UNCHANGED <<file, written, turns, sensorVars>>
      PROVE  HostInv'
  <2>1. UNCHANGED <<file, written, sensorVars, agent, sent, misread>> /\ happenings' = happenings + 1
    BY <1>9 DEF Visit, Happens
  <2>2. FileInOrder'
    <3>1. written' <= happenings'
      BY <1>1, <2>1 DEF FileInOrder, TypeOK
    <3> QED  BY <1>1, <2>1, <3>1 DEF FileInOrder, InLine, Size
  <2>3. SensorInv' /\ SkipInv' /\ AgentInv'
    BY <1>1, <1>4, <1>9, <2>1, SensorUndisturbed, SkipUndisturbed, AgentUndisturbed
  <2>4. VisitsInv'
    BY <1>1, <1>9, VisitsGrow
  <2> QED  BY <1>2, <2>2, <2>3, <2>4 DEF HostInv
<1>10. CASE UNCHANGED vars
  <2>1. UNCHANGED <<file, written, turns, happenings, sensorVars, agent, sent, misread, lastVisit, read, urlState>>
    BY <1>10 DEF vars, fileVars, agentVars
  <2>2. FileInOrder' /\ SensorInv' /\ SkipInv' /\ AgentInv' /\ VisitsInv'
    BY <1>1, <1>4, <1>5, <2>1, SensorUndisturbed, SkipUndisturbed, AgentUndisturbed, VisitsUndisturbed
  <2> QED  BY <1>2, <2>2 DEF HostInv
<1> QED  BY <1>6, <1>7, <1>8, <1>9, <1>10 DEF Next

\* The types of the host hold: a follower's place and the lines it holds are what
\* the tailers and the loops of the collector and the agent keep.
THEOREM TypeCorrect == Spec => []TypeOK
<1>1. Init => HostInv
  BY HostInitially
<1>2. HostInv /\ [Next]_vars => HostInv'
  BY HostStep
<1>3. HostInv => TypeOK
  BY DEF HostInv
<1> QED  BY <1>1, <1>2, <1>3, PTL DEF Spec

\* The collector's lines are repeated only by a post that was not answered, a
\* torn state.json or a rotation between stat and open; the agent sends no line
\* twice as long as it runs, and its collect_url_visit_events steps over no
\* instant whose visits it has not read, however many are new.
THEOREM ReadOnceCorrect == Spec => []HostIsReadOnce
<1>1. Init => HostInv
  BY HostInitially
<1>2. HostInv /\ [Next]_vars => HostInv'
  BY HostStep
<1>3. HostInv => HostIsReadOnce
  BY DEF HostInv, SensorInv, SkipInv, AgentInv, VisitsInv, HostIsReadOnce, LinesAreSentOnce
<1> QED  BY <1>1, <1>2, <1>3, PTL DEF Spec
=============================================================================
