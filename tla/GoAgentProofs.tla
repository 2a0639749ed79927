---------------------------- MODULE GoAgentProofs ----------------------------
(***************************************************************************)
(* Theorems about GoAgent, for any number and sizes of snapshots, any      *)
(* limits of the spool, any number of deaths and failed calls.             *)
(*                                                                         *)
(* RunningMeansEnrolled is about two files that are written one after the  *)
(* other, and a row that another host may take.  What carries it is that   *)
(* the second file is there only with the first, and only with the row.    *)
(*                                                                         *)
(* SnapshotsAreKept and LosesOldestFirst are about the ways of a snapshot: *)
(* from the hand of the agent to the backend or the spool, and from there  *)
(* through a batch.  What carries them is where the copies of a snapshot   *)
(* can be at each point of these ways, and that the files of the spool     *)
(* are older than what the agent holds.                                    *)
(***************************************************************************)
EXTENDS GoAgent, FiniteSetTheorems, WellFoundedInduction, NaturalsInduction, TLAPS

\* The id was saved after the key, and the key after the row was committed.
IdComesLast == idFile = "saved" => keyFile = "saved" /\ owner = "agent"

\* Between the answer and the files the agent has the row and its key, and no
\* id of an earlier enrollment.
EnrolledWhileSaving ==
  pc \in {"save_key", "save_id"} =>
    /\ owner = "agent" /\ key = "issued" /\ idFile # "saved"
    /\ pc = "save_id" => keyFile = "saved"

EnrollInv ==
  /\ pc \in PCs
  /\ IdComesLast
  /\ EnrolledWhileSaving
  /\ RunningMeansEnrolled

LEMMA EnrollStep ==
  ASSUME EnrollInv, [Next]_vars
  PROVE  EnrollInv'
<1> USE DEF EnrollInv, IdComesLast, EnrolledWhileSaving, RunningMeansEnrolled, PCs, InLoop,
            Calling, state, backend, history, budgets
<1>1. CASE Start
  BY <1>1 DEF Start
<1>2. CASE Enroll \/ EnrollRefused \/ EnrollFails \/ RivalEnrolls
  BY <1>2 DEF Enroll, EnrollRefused, EnrollFails, RivalEnrolls, FirstSave
<1>3. CASE SaveAPIKey \/ SaveServerAgentID
  BY <1>3 DEF SaveAPIKey, SaveServerAgentID, AfterSave, FirstSave
<1>4. CASE CollectInventory \/ FlushSpool
  BY <1>4 DEF CollectInventory, FlushSpool, Post
<1>5. CASE CallSucceeds \/ CallRefused \/ CallFails
  BY <1>5 DEF CallSucceeds, CallRefused, CallFails, OnError, AfterError, AfterAnswer
<1>6. CASE Enqueue \/ EnqueueFails \/ Ack \/ BackToLoop
  BY <1>6 DEF Enqueue, EnqueueFails, Ack, BackToLoop
<1>7. CASE StoreSnapshot \/ StoreOrphan \/ Tick
  BY <1>7 DEF StoreSnapshot, StoreOrphan, Tick
<1>8. CASE Crash
  BY <1>8 DEF Crash
<1>9. CASE UNCHANGED vars
  BY <1>9 DEF vars
<1> QED  BY <1>1, <1>2, <1>3, <1>4, <1>5, <1>6, <1>7, <1>8, <1>9 DEF Next, AgentStep

\* An agent that reports does so under its own row and with its own key, both
\* of them on the disk, wherever it died on the way there.
THEOREM EnrollmentCorrect == Spec => []RunningMeansEnrolled
<1>1. Init => EnrollInv
  BY DEF Init, EnrollInv, PCs, IdComesLast, EnrolledWhileSaving, RunningMeansEnrolled, InLoop, Calling
<1>2. EnrollInv /\ [Next]_vars => EnrollInv'
  BY EnrollStep
<1>3. EnrollInv => RunningMeansEnrolled
  BY DEF EnrollInv
<1> QED  BY <1>1, <1>2, <1>3, PTL DEF Spec

-----------------------------------------------------------------------------
(* Numbers and bytes. *)

\* Every set of numbers that is not empty has a least one.
LEMMA LeastNumber ==
  ASSUME NEW T \in SUBSET Nat, T # {}
  PROVE  \E x \in T : \A y \in T : x <= y
<1> DEFINE R == {ss \in Nat \X Nat : ss[1] < ss[2]}
<1>1. IsWellFoundedOn(R, Nat)
  BY NatLessThanWellFounded DEF OpToRel
<1>2. \A x, y \in Nat : y < x => <<y, x>> \in R
  OBVIOUS
<1>3. \E x \in T : \A y \in T : ~ (<<y, x>> \in R)
  <2> HIDE DEF R
  <2> QED  BY <1>1, WFMin, Zenon
<1>4. \A x, y \in Nat : ~ (y < x) => x <= y
  OBVIOUS
<1> HIDE DEF R
<1> QED  BY <1>2, <1>3, <1>4, Zenon

\* Min takes a member, and none is less.
LEMMA MinIsLeast ==
  ASSUME NEW T \in SUBSET Nat, T # {}
  PROVE  Min(T) \in T /\ \A y \in T : Min(T) <= y
<1>1. \E x \in T : \A y \in T : x <= y
  BY LeastNumber
<1> QED  BY <1>1 DEF Min

\* The first file of a batch is one of it, and none is older.
LEMMA FirstIsOldest ==
  ASSUME NEW files \in SUBSET File, files # {}
  PROVE  First(files) \in files /\ \A g \in files : First(files).snap <= g.snap
<1> DEFINE numbers == {f.snap : f \in files}
<1>1. numbers \in SUBSET Nat /\ numbers # {}
  BY SpoolConstants DEF File, Snaps
<1>2. \E x \in numbers : \A y \in numbers : x <= y
  <2> HIDE DEF numbers
  <2> QED  BY <1>1, LeastNumber
<1>3. \E f \in files : \A g \in files : f.snap <= g.snap
  BY <1>2
<1> QED  BY <1>3 DEF First

\* The bytes of one file.
Room(f) == {f} \X (1 .. FileSize(f))

\* A file is as large as its size says.
LEMMA RoomOfFile ==
  ASSUME NEW f \in File
  PROVE  /\ FileSize(f) \in Nat
         /\ IsFiniteSet(Room(f)) /\ Cardinality(Room(f)) = FileSize(f)
<1>1. FileSize(f) \in Nat
  BY SpoolConstants DEF FileSize, File
<1>2. IsFiniteSet({f}) /\ Cardinality({f}) = 1
  BY FS_Singleton
<1>3. IsFiniteSet(1 .. FileSize(f)) /\ Cardinality(1 .. FileSize(f)) = FileSize(f)
  BY <1>1, FS_Interval
<1>4. Cardinality({f} \X (1 .. FileSize(f))) = 1 * FileSize(f) /\ IsFiniteSet({f} \X (1 .. FileSize(f)))
  <2>1. Cardinality({f} \X (1 .. FileSize(f))) = Cardinality({f}) * Cardinality(1 .. FileSize(f))
    BY <1>2, <1>3, FS_Product, Zenon
  <2>2. IsFiniteSet({f} \X (1 .. FileSize(f)))
    BY <1>2, <1>3, FS_Product, Zenon
  <2> QED  BY <1>2, <1>3, <2>1, <2>2, Zenon
<1> QED  BY <1>1, <1>4 DEF Room

\* Finitely many files take a finite number of bytes.
LEMMA RoomIsFinite ==
  ASSUME NEW files \in SUBSET File, IsFiniteSet(files)
  PROVE  IsFiniteSet(UNION {Room(f) : f \in files}) /\ DirSize(files) \in Nat
<1> DEFINE rooms == {Room(f) : f \in files}
           map == [f \in files |-> Room(f)]
<1>1. map \in Surjection(files, rooms)
  BY DEF Surjection
<1>2. IsFiniteSet(rooms)
  BY <1>1, FS_Surjection
<1>3. \A r \in rooms : IsFiniteSet(r)
  BY RoomOfFile
<1>4. IsFiniteSet(UNION rooms)
  BY <1>2, <1>3, FS_UNION
<1>5. DirSize(files) = Cardinality(UNION rooms)
  BY DEF DirSize, Room
<1> QED  BY <1>4, <1>5, FS_CardinalityType

\* The bytes of disjoint sets of files add up.
LEMMA BytesAddUp ==
  ASSUME NEW A \in SUBSET File, IsFiniteSet(A), NEW B \in SUBSET File, IsFiniteSet(B), A \cap B = {}
  PROVE  DirSize(A \cup B) = DirSize(A) + DirSize(B)
<1> DEFINE a == UNION {Room(f) : f \in A}
           b == UNION {Room(f) : f \in B}
<1>1. IsFiniteSet(a) /\ IsFiniteSet(b)
  BY RoomIsFinite
<1>2. a \cap b = {}
  BY DEF Room
<1>3. UNION {Room(f) : f \in A \cup B} = a \cup b
  OBVIOUS
<1>4. Cardinality(a \cap b) = 0
  BY <1>2, FS_EmptySet
<1>5. Cardinality(a \cup b) = Cardinality(a) + Cardinality(b)
  <2> HIDE DEF a, b
  <2>1. Cardinality(a \cup b) = Cardinality(a) + Cardinality(b) - Cardinality(a \cap b)
    BY <1>1, FS_Union
  <2>2. Cardinality(a) \in Nat /\ Cardinality(b) \in Nat
    BY <1>1, FS_CardinalityType
  <2> QED  BY <1>4, <2>1, <2>2
<1> QED  BY <1>3, <1>5 DEF DirSize, Room

\* Fewer files take no more bytes.
LEMMA BytesShrink ==
  ASSUME NEW A \in SUBSET File, IsFiniteSet(A), NEW B \in SUBSET A
  PROVE  IsFiniteSet(B) /\ DirSize(B) <= DirSize(A)
<1>1. IsFiniteSet(B) /\ IsFiniteSet(A \ B)
  BY FS_Subset
<1>2. DirSize(B \cup (A \ B)) = DirSize(B) + DirSize(A \ B)
  BY <1>1, BytesAddUp
<1>3. B \cup (A \ B) = A
  OBVIOUS
<1>5. DirSize(A) = DirSize(B) + DirSize(A \ B)
  BY <1>2, <1>3, Zenon
<1>4. DirSize(B) \in Nat /\ DirSize(A \ B) \in Nat
  BY <1>1, RoomIsFinite
<1> QED  BY <1>1, <1>4, <1>5

\* A file is written into the room that enforceLimits has made.
LEMMA FileAddsItsSize ==
  ASSUME NEW A \in SUBSET File, IsFiniteSet(A), NEW f \in File
  PROVE  /\ IsFiniteSet(A \cup {f})
         /\ DirSize(A \cup {f}) <= DirSize(A) + FileSize(f)
<1>1. IsFiniteSet(A \cup {f}) /\ IsFiniteSet({f})
  BY FS_AddElement, FS_Singleton
<1>2. UNION {Room(g) : g \in {f}} = Room(f)
  OBVIOUS
<1>3. DirSize({f}) = FileSize(f)
  BY <1>2, RoomOfFile DEF DirSize, Room
<1>4. DirSize(A) \in Nat /\ FileSize(f) \in Nat
  BY RoomIsFinite, RoomOfFile
<1>5. CASE f \in A
  <2>1. A \cup {f} = A
    BY <1>5
  <2>2. IsFiniteSet(A \cup {f}) /\ DirSize(A \cup {f}) = DirSize(A)
    BY <2>1, Zenon
  <2> QED  BY <1>4, <2>2
<1>6. CASE f \notin A
  BY <1>1, <1>3, <1>4, <1>6, BytesAddUp
<1> QED  BY <1>5, <1>6

\* What enforceLimits leaves: the files from some number on that are not too
\* old, and with them room for what is to be written unless it fails.
LEMMA EnforcedLeaves ==
  ASSUME NEW files \in SUBSET File, IsFiniteSet(files), NEW time \in Nat, NEW incoming \in Nat
  PROVE  LET left == Enforced(files, time, incoming) IN
         /\ left \subseteq files /\ IsFiniteSet(left)
         /\ left = {} \/ \E s \in Nat : left = Since(Fresh(files, time), s)
         /\ DirSize(left) \in Nat
         /\ ~ IsFull(files, time, incoming) => DirSize(left) + incoming <= MaxBytes
<1> DEFINE kept == Fresh(files, time)
           enough == Enough(files, time, incoming)
           left == Enforced(files, time, incoming)
<1>1. kept \subseteq files
  BY DEF Fresh
<1>2. enough \in SUBSET Nat
  BY SpoolConstants DEF Enough
<1>3. CASE enough = {}
  <2>1. left = {}
    BY <1>3 DEF Enforced
  <2>2. IsFull(files, time, incoming)
    BY <1>3 DEF IsFull
  <2> QED  BY <2>1, <2>2, FS_EmptySet, RoomIsFinite
<1>4. CASE enough # {}
  <2> DEFINE s == Min(enough)
  <2>1. s \in enough
    <3> HIDE DEF enough
    <3> QED  BY <1>2, <1>4, MinIsLeast
  <2>2. s \in Nat /\ Fits(files, time, incoming, s)
    BY <1>2, <2>1 DEF Enough
  <2>3. left = Since(kept, s)
    BY <1>4 DEF Enforced
  <2> HIDE DEF s, enough
  <2>4. left \subseteq kept
    BY <2>3 DEF Since
  <2>5. IsFiniteSet(kept) /\ DirSize(kept) <= DirSize(files)
    BY <1>1, BytesShrink
  <2>6. IsFiniteSet(left) /\ IsFiniteSet(kept \ left)
    BY <2>4, <2>5, FS_Subset
  <2>7. DirSize(left) \in Nat /\ DirSize(kept \ left) \in Nat /\ DirSize(files) \in Nat
    BY <1>1, <2>4, <2>6, RoomIsFinite
  <2>8. DirSize(left \cup (kept \ left)) = DirSize(left) + DirSize(kept \ left)
    BY <1>1, <2>4, <2>6, BytesAddUp
  <2>9. left \cup (kept \ left) = kept
    BY <2>4
  <2>10. DirSize(files) + incoming <= MaxBytes + DirSize(kept \ left)
    BY <2>2, <2>3 DEF Fits
  <2>11. DirSize(left) + incoming <= MaxBytes
    BY <2>5, <2>7, <2>8, <2>9, <2>10, SpoolConstants
  <2> QED  BY <1>1, <2>2, <2>3, <2>4, <2>6, <2>7, <2>11
<1> QED  BY <1>3, <1>4

-----------------------------------------------------------------------------
(* Types. *)

\* The files of a batch are files of the spool, and what it says are snapshots.
LEMMA BatchType ==
  ASSUME NEW files \in SUBSET File
  PROVE  /\ Batch(files) \subseteq files
         /\ Readable(Batch(files)) \subseteq Batch(files)
         /\ Payload(Batch(files)) \subseteq Snaps
  BY DEF Batch, Readable, Payload, SnapsOf, File

\* Where the store of a request goes on, and where requests are left behind.
LEMMA OrphansType ==
  ASSUME TypeOK
  PROVE  /\ StoreOrphan => orphans' \in Seq(SUBSET Snaps)
         /\ Abandon => orphans' \in Seq(SUBSET Snaps) /\ serving' = {}
<1>1. ASSUME StoreOrphan PROVE orphans' \in Seq(SUBSET Snaps)
  <2>1. PICK i \in DOMAIN orphans :
             orphans' = IF orphans[i] = {Min(orphans[i])} THEN RemoveAt(orphans, i)
                        ELSE [orphans EXCEPT ![i] = @ \ {Min(@)}]
    BY <1>1 DEF StoreOrphan
  <2>2. orphans \in Seq(SUBSET Snaps) /\ i \in 1 .. Len(orphans)
    BY DEF TypeOK
  <2>3. RemoveAt(orphans, i) \in Seq(SUBSET Snaps)
    BY <2>2 DEF RemoveAt
  <2>4. orphans[i] \ {Min(orphans[i])} \in SUBSET Snaps
    BY <2>2
  <2>5. [orphans EXCEPT ![i] = orphans[i] \ {Min(orphans[i])}] \in Seq(SUBSET Snaps)
    BY <2>2, <2>4
  <2> QED  BY <2>1, <2>3, <2>5
<1>2. ASSUME Abandon PROVE orphans' \in Seq(SUBSET Snaps) /\ serving' = {}
  <2>1. orphans' = orphans \/ orphans' = Append(orphans, serving)
    BY <1>2 DEF Abandon
  <2>2. orphans \in Seq(SUBSET Snaps) /\ serving \in SUBSET Snaps
    BY DEF TypeOK
  <2> QED  BY <1>2, <2>1, <2>2 DEF Abandon
<1> QED  BY <1>1, <1>2

\* A copy more is a copy.
LEMMA OneMoreCopy ==
  ASSUME copies \in [Snaps -> Nat], NEW s, copies' = [copies EXCEPT ![s] = @ + 1]
  PROVE  /\ copies' \in [Snaps -> Nat]
         /\ \A r \in Snaps : copies'[r] >= copies[r]
         /\ \A r \in Snaps : r # s => copies'[r] = copies[r]
         /\ (s \in Snaps => copies'[s] = copies[s] + 1)
<1>1. CASE s \in Snaps
  BY <1>1
<1>2. CASE s \notin Snaps
  <2>1. copies' = copies
    BY <1>2
  <2>2. copies' \in [Snaps -> Nat] /\ \A r \in Snaps : copies'[r] = copies[r]
    BY <2>1, Zenon
  <2>3. \A r \in Snaps : copies'[r] >= copies[r]
    BY <2>2
  <2> QED  BY <1>2, <2>2, <2>3, Zenon
<1> QED  BY <1>1, <1>2, Zenon

\* The agent writes the next file: what becomes of the spool has its types.
LEMMA WriteType ==
  ASSUME TypeOK, pc = "spooling", hand # {}, IsFiniteSet(spool)
  PROVE  /\ Min(hand) \in hand /\ Min(hand) \in Snaps /\ Size[Min(hand)] \in Nat
         /\ \A r \in hand : Min(hand) <= r
         /\ \A t \in BOOLEAN : [snap |-> Min(hand), at |-> now, torn |-> t] \in File
         /\ Enforced(spool, now, Size[Min(hand)]) \subseteq spool
         /\ SnapsOf(spool) \subseteq Snaps
<1>1. hand \in SUBSET Nat
  BY DEF TypeOK, Snaps
<1>2. Min(hand) \in hand /\ \A r \in hand : Min(hand) <= r
  BY <1>1, MinIsLeast
<1>3. Min(hand) \in Snaps /\ now \in Nat
  BY <1>2, AgentConstants DEF TypeOK
<1>4. Size[Min(hand)] \in Nat
  BY <1>3, SpoolConstants
<1>5. \A t \in BOOLEAN : [snap |-> Min(hand), at |-> now, torn |-> t] \in File
  BY <1>3 DEF File
<1>6. Enforced(spool, now, Size[Min(hand)]) \subseteq spool
  BY <1>3, <1>4, EnforcedLeaves DEF TypeOK
<1>7. SnapsOf(spool) \subseteq Snaps
  BY DEF SnapsOf, TypeOK, File
<1> QED  BY <1>2, <1>3, <1>4, <1>5, <1>6, <1>7

\* Every step keeps the types.
LEMMA TypeStep ==
  ASSUME TypeOK, IsFiniteSet(spool), [Next]_vars
  PROVE  TypeOK'
<1> USE AgentConstants DEF TypeOK, PCs, InLoop, Calling, FileStates, state, backend, history, budgets
<1>1. CASE Start \/ Enroll \/ EnrollRefused \/ EnrollFails \/ RivalEnrolls
  BY <1>1 DEF Start, Enroll, EnrollRefused, EnrollFails, RivalEnrolls, FirstSave
<1>2. CASE SaveAPIKey \/ SaveServerAgentID \/ BackToLoop \/ Tick
  BY <1>2 DEF SaveAPIKey, SaveServerAgentID, AfterSave, FirstSave, BackToLoop, Tick
<1>3. CASE CollectInventory
  <2>1. PICK n \in 1 .. TickSize :
             /\ collected + n <= MaxSnaps /\ collected' = collected + n
             /\ Post(collected + 1 .. collected + n, "sending")
    BY <1>3 DEF CollectInventory
  <2>2. collected' \in 0 .. MaxSnaps /\ (collected + 1 .. collected + n) \subseteq Snaps
    BY <2>1, SpoolConstants DEF Snaps
  <2> QED  BY <1>3, <2>1, <2>2 DEF CollectInventory, Post
<1>4. CASE FlushSpool
  <2>1. batch' \subseteq spool /\ Readable(batch') \subseteq batch' /\ Payload(batch') \subseteq Snaps
    BY <1>4, BatchType DEF FlushSpool
  <2>2. spool' \subseteq spool /\ batch' \subseteq File
    BY <1>4, <2>1 DEF FlushSpool
  <2> QED  BY <1>4, <2>1, <2>2 DEF FlushSpool, Post
<1>5. CASE StoreSnapshot
  <2>1. copies' \in [Snaps -> Nat]
    BY <1>5, OneMoreCopy DEF StoreSnapshot
  <2> QED  BY <1>5, <2>1 DEF StoreSnapshot
<1>6. CASE StoreOrphan
  <2>1. copies' \in [Snaps -> Nat]
    BY <1>6, OneMoreCopy DEF StoreOrphan
  <2>2. orphans' \in Seq(SUBSET Snaps)
    BY <1>6, OrphansType
  <2> QED  BY <1>6, <2>1, <2>2 DEF StoreOrphan
<1>7. CASE CallSucceeds \/ CallRefused
  BY <1>7 DEF CallSucceeds, CallRefused, OnError, AfterError, AfterAnswer
<1>8. CASE CallFails
  <2>1. orphans' \in Seq(SUBSET Snaps) /\ serving' = {}
    BY <1>8, OrphansType DEF CallFails
  <2> QED  BY <1>8, <2>1 DEF CallFails, OnError, AfterError
<1>9. CASE Enqueue
  <2>1. spool' \subseteq File /\ shed' \subseteq Snaps /\ hand' \subseteq Snaps
    BY <1>9, WriteType DEF Enqueue
  <2> QED  BY <1>9, <2>1 DEF Enqueue
<1>10. CASE EnqueueFails
  <2>1. spool' \subseteq File /\ shed' \subseteq Snaps /\ died' \subseteq Snaps
    BY <1>10, WriteType DEF EnqueueFails, Tear
  <2> QED  BY <1>10, <2>1 DEF EnqueueFails
<1>11. CASE Ack
  BY <1>11 DEF Ack
<1>12. CASE Crash
  <2>1. orphans' \in Seq(SUBSET Snaps) /\ serving' = {}
    BY <1>12, OrphansType DEF Crash
  <2>2. spool' \subseteq File /\ shed' \subseteq Snaps
    BY <1>12, WriteType DEF Crash, Tear
  <2> QED  BY <1>12, <2>1, <2>2 DEF Crash
<1>13. CASE UNCHANGED vars
  BY <1>13 DEF vars
<1> QED
  BY <1>1, <1>2, <1>3, <1>4, <1>5, <1>6, <1>7, <1>8, <1>9, <1>10, <1>11, <1>12, <1>13
  DEF Next, AgentStep

-----------------------------------------------------------------------------
(* The ways of a snapshot. *)

\* One file per snapshot, the later ones not older, and no snapshot is spooled
\* before it is collected.
SpoolIsOrdered ==
  /\ IsFiniteSet(spool)
  /\ \A f \in spool : f.at <= now /\ f.snap <= collected
  /\ \A f, g \in spool : f.snap < g.snap => f.at <= g.at
  /\ \A f, g \in spool : f.snap = g.snap => f = g

\* What the agent holds is younger than what it has spooled, or is what a
\* flush has read: the oldest files there are.
HandIsKnown ==
  /\ pc \in {"sending", "spooling"} =>
       /\ \A s \in hand : s <= collected
       /\ \A s \in hand, f \in spool : f.snap < s
  /\ pc = "flushing" => hand = Payload(batch)
  /\ pc \in {"flushing", "acking"} =>
       /\ Readable(batch) \subseteq spool
       /\ \A f \in spool, g \in batch : f.snap < g.snap => f \in batch

\* The backend works for the agent on what this holds, as long as it waits, and
\* has stored the rest of it.
ServingIsHeld ==
  /\ serving \subseteq hand
  /\ serving # {} => pc \in Calling /\ Accepts(hand)
  /\ pc \in Calling /\ Accepts(hand) => \A s \in hand : copies[s] > 0 \/ s \in serving
  /\ pc = "acking" => \A f \in Readable(batch) : copies[f.snap] > 0

\* Until something fails, no request is orphaned, and a snapshot that is to be
\* stored yet has no copy: one being stored, one in a hand that is refused, and
\* one in the spool unless it is of the batch being delivered.
NotStoredYet ==
  crashes = 0 /\ faults = 0 =>
    /\ orphans = <<>>
    /\ \A s \in Snaps : s > collected \/ s \in serving => copies[s] = 0
    /\ pc = "spooling" \/ (pc \in Calling /\ ~ Accepts(hand)) =>
         \A s \in hand : copies[s] = 0
    /\ \A f \in spool :
         copies[f.snap] > 0 /\ ~ f.torn =>
           f \in batch /\ (pc = "acking" \/ (pc = "flushing" /\ Accepts(hand)))

KeptInv ==
  SpoolIsOrdered /\ HandIsKnown /\ ServingIsHeld /\ NotStoredYet /\ SnapshotsAreKept

\* A step of LosesOldestFirst.
OldestFirst ==
  \A f, g \in spool : f.snap < g.snap /\ ~ g.torn /\ f \in spool' => g \in spool'

\* A snapshot has a copy or none.
LEMMA CopiesAreCounted ==
  ASSUME TypeOK, NEW s \in Snaps
  PROVE  copies[s] \in Nat /\ (copies[s] > 0 \/ copies[s] = 0)
  BY DEF TypeOK

\* Steps that leave the snapshots where they are.
LEMMA QuietStep ==
  ASSUME TypeOK, EnrollInv, KeptInv,
         Start \/ Enroll \/ EnrollRefused \/ EnrollFails \/ RivalEnrolls
           \/ SaveAPIKey \/ SaveServerAgentID \/ Tick \/ UNCHANGED vars
  PROVE  KeptInv' /\ OldestFirst
<1>1. /\ UNCHANGED <<hand, batch, spool, serving, orphans, copies, collected, shed, died>>
      /\ \/ pc \notin InLoop /\ (pc' \notin InLoop \/ pc' = "loop")
         \/ pc' = pc /\ UNCHANGED <<key, owner>>
      /\ crashes' = crashes /\ (faults' = faults \/ faults' = faults + 1)
      /\ now' = now \/ now' = now + 1
  BY DEF Start, Enroll, EnrollRefused, EnrollFails, RivalEnrolls, SaveAPIKey, SaveServerAgentID,
         Tick, vars, AfterSave, FirstSave, InLoop, Calling, EnrollInv, PCs, RunningMeansEnrolled,
         state, backend, history, budgets
<1>2. now \in Nat /\ faults \in Nat /\ \A f \in spool : f.at \in Nat
  BY AgentConstants DEF TypeOK, File
<1>3. SpoolIsOrdered'
  BY <1>1, <1>2 DEF KeptInv, SpoolIsOrdered
<1>4. HandIsKnown'
  BY <1>1 DEF KeptInv, HandIsKnown, InLoop, Calling
<1>5. Accepts(hand)' = Accepts(hand) \/ pc \notin InLoop
  BY <1>1 DEF Accepts
<1>6. ServingIsHeld'
  BY <1>1, <1>5 DEF KeptInv, ServingIsHeld, InLoop, Calling
<1>7. crashes' = 0 /\ faults' = 0 => crashes = 0 /\ faults = 0
  BY <1>1, <1>2
<1>8. NotStoredYet'
  BY <1>1, <1>5, <1>7 DEF KeptInv, NotStoredYet, InLoop, Calling
<1>9. SnapshotsAreKept'
  <2>1. SpoolWithinLimit'
    BY <1>1 DEF KeptInv, SnapshotsAreKept, SpoolWithinLimit
  <2>2. NothingVanishes'
    <3>1. \A s : Spooled(s) => Spooled(s)'
      BY <1>1 DEF Spooled
    <3>2. \A s : InMemory(s) => InMemory(s)'
      <4>1. pc \in {"sending", "spooling"} => pc' = pc
        BY <1>1 DEF InLoop, Calling
      <4> QED  BY <1>1, <4>1 DEF InMemory
    <3> QED  BY <1>1, <3>1, <3>2, Zenon DEF KeptInv, SnapshotsAreKept, NothingVanishes
  <2>3. NoDuplicateWithoutFault'
    BY <1>1, <1>7 DEF KeptInv, SnapshotsAreKept, NoDuplicateWithoutFault
  <2> QED  BY <2>1, <2>2, <2>3 DEF SnapshotsAreKept
<1> QED  BY <1>1, <1>3, <1>4, <1>6, <1>8, <1>9 DEF KeptInv, OldestFirst

\* New snapshots are younger than all there were, and have no copy.
LEMMA CollectStep ==
  ASSUME TypeOK, TypeOK', EnrollInv, KeptInv, CollectInventory
  PROVE  KeptInv' /\ OldestFirst
<1>1. PICK n \in 1 .. TickSize :
           /\ collected + n <= MaxSnaps /\ collected' = collected + n
           /\ Post(collected + 1 .. collected + n, "sending")
  BY DEF CollectInventory
<1>2. /\ pc = "loop" /\ pc' = "sending"
      /\ UNCHANGED <<key, batch, spool, owner, orphans, copies, shed, died, now, crashes, faults>>
      /\ hand' = collected + 1 .. collected + n
      /\ serving' = IF Accepts(hand') THEN hand' ELSE {}
  BY <1>1 DEF CollectInventory, Post, state, history, budgets
<1>3. Accepts(hand)' = Accepts(hand')
  BY <1>2 DEF Accepts
<1>4. n \in Nat \ {0} /\ collected \in Nat /\ collected' = collected + n
  BY <1>1, AgentConstants DEF TypeOK
<1>5. \A s \in hand' : s \in Snaps /\ s \in Nat /\ s > collected /\ s <= collected'
  BY <1>2, <1>4 DEF TypeOK, Snaps
<1>6. \A f \in spool : f.snap \in Snaps /\ f.snap \in Nat
  BY DEF TypeOK, File, Snaps
<1>7. SpoolIsOrdered'
  BY <1>2, <1>4, <1>6 DEF KeptInv, SpoolIsOrdered
<1>8. HandIsKnown'
  BY <1>2, <1>4, <1>5, <1>6 DEF KeptInv, HandIsKnown, SpoolIsOrdered
<1>9. ServingIsHeld'
  BY <1>2, <1>3 DEF ServingIsHeld, Calling
<1>10. NotStoredYet'
  <2> SUFFICES ASSUME crashes = 0, faults = 0 PROVE NotStoredYet'
    BY <1>2 DEF NotStoredYet
  <2>1. orphans = <<>> /\ \A s \in Snaps : s > collected => copies[s] = 0
    BY DEF KeptInv, NotStoredYet
  <2>2. \A f \in spool : ~ f.torn => ~ (copies[f.snap] > 0)
    BY <1>2 DEF KeptInv, NotStoredYet
  <2>3. \A s \in Snaps : s > collected' \/ s \in serving' => s > collected
    BY <1>2, <1>4, <1>5 DEF Snaps
  <2> QED  BY <1>2, <1>5, <2>1, <2>2, <2>3 DEF NotStoredYet
<1>11. SnapshotsAreKept'
  <2>1. SpoolWithinLimit' /\ NoDuplicateWithoutFault'
    BY <1>2 DEF KeptInv, SnapshotsAreKept, SpoolWithinLimit, NoDuplicateWithoutFault
  <2>2. \A s \in 1 .. collected' : s \in 1 .. collected \/ s \in hand'
    BY <1>2, <1>4
  <2>3. NothingVanishes'
    BY <1>2, <2>2 DEF KeptInv, SnapshotsAreKept, NothingVanishes, Spooled, InMemory
  <2> QED  BY <2>1, <2>3 DEF SnapshotsAreKept
<1> QED  BY <1>2, <1>7, <1>8, <1>9, <1>10, <1>11 DEF KeptInv, OldestFirst

\* The files of a batch are the oldest there are.
LEMMA BatchIsOldest ==
  ASSUME NEW files \in SUBSET File, IsFiniteSet(files),
         NEW f \in files, NEW g \in Batch(files), f.snap < g.snap
  PROVE  f \in Batch(files)
<1> DEFINE before(h) == {k \in files : k.snap < h.snap}
<1>1. g \in files /\ Cardinality(before(g)) < BatchLimit
  BY DEF Batch
<1>2. \A k \in files : k.snap \in Nat
  BY DEF File, Snaps
<1>3. before(f) \in SUBSET before(g)
  BY <1>1, <1>2
<1>4. IsFiniteSet(before(g)) /\ IsFiniteSet(before(f))
  BY FS_Subset
<1>5. Cardinality(before(f)) <= Cardinality(before(g))
  <2> HIDE DEF before
  <2> QED  BY <1>3, <1>4, FS_Subset
<1>6. Cardinality(before(f)) \in Nat /\ Cardinality(before(g)) \in Nat
  <2> HIDE DEF before
  <2> QED  BY <1>4, FS_CardinalityType
<1>7. Cardinality(before(f)) < BatchLimit
  <2> HIDE DEF before
  <2> QED  BY <1>1, <1>5, <1>6, SpoolConstants
<1> QED  BY <1>7 DEF Batch

\* A flush takes the oldest files into its hand; those that are torn go.
LEMMA FlushStep ==
  ASSUME TypeOK, TypeOK', EnrollInv, KeptInv, FlushSpool
  PROVE  KeptInv' /\ OldestFirst
<1>1. /\ pc = "loop" /\ pc' = "flushing"
      /\ batch' = Batch(spool) /\ hand' = Payload(batch')
      /\ serving' = IF Accepts(hand') THEN hand' ELSE {}
      /\ spool' = (spool \ batch') \cup Readable(batch')
      /\ UNCHANGED <<key, owner, orphans, copies, collected, shed, died, now, crashes, faults>>
  BY DEF FlushSpool, Post, state, history, budgets
<1>2. spool \in SUBSET File /\ IsFiniteSet(spool)
  BY DEF TypeOK, KeptInv, SpoolIsOrdered
<1>3. batch' \subseteq spool /\ Readable(batch') \subseteq batch'
  BY <1>1, <1>2, BatchType
<1>4. spool' \subseteq spool /\ Readable(batch') \subseteq spool'
  BY <1>1, <1>3
<1>5. \A f \in spool : ~ f.torn => f \in spool'
  BY <1>1 DEF Readable
<1>6. \A s \in hand' : \E f \in batch' : f \in spool /\ ~ f.torn /\ f.snap = s
  BY <1>1, <1>3 DEF Payload, SnapsOf, Readable
<1>7. Accepts(hand)' = Accepts(hand')
  BY <1>1 DEF Accepts
<1>8. SpoolIsOrdered'
  <2>1. IsFiniteSet(spool')
    BY <1>2, <1>4, FS_Subset
  <2> QED  BY <1>1, <1>4, <2>1 DEF KeptInv, SpoolIsOrdered
<1>9. HandIsKnown'
  <2>1. ASSUME NEW f \in spool', NEW g \in batch', f.snap < g.snap PROVE f \in batch'
    BY <1>1, <1>2, <1>4, <2>1, BatchIsOldest
  <2> QED  BY <1>1, <1>4, <2>1 DEF HandIsKnown
<1>10. ServingIsHeld'
  BY <1>1, <1>7 DEF ServingIsHeld, Calling
<1>11. NotStoredYet'
  <2> SUFFICES ASSUME crashes = 0, faults = 0 PROVE NotStoredYet'
    BY <1>1 DEF NotStoredYet
  <2>1. orphans = <<>> /\ \A s \in Snaps : s > collected => copies[s] = 0
    BY DEF KeptInv, NotStoredYet
  <2>2. \A f \in spool : ~ f.torn => ~ (copies[f.snap] > 0)
    BY <1>1 DEF KeptInv, NotStoredYet
  <2>3. \A s \in hand' : copies[s] = 0
    BY <1>2, <1>6, <2>2, CopiesAreCounted DEF File
  <2> QED  BY <1>1, <1>4, <2>1, <2>2, <2>3 DEF NotStoredYet
<1>12. SnapshotsAreKept'
  <2>1. SpoolWithinLimit'
    <3>1. DirSize(spool') <= DirSize(spool) /\ IsFiniteSet(spool')
      BY <1>2, <1>4, BytesShrink
    <3>2. DirSize(spool') \in Nat /\ DirSize(spool) \in Nat
      BY <1>2, <1>4, <3>1, RoomIsFinite
    <3> QED  BY <3>1, <3>2, SpoolConstants DEF KeptInv, SnapshotsAreKept, SpoolWithinLimit
  <2>2. NoDuplicateWithoutFault'
    BY <1>1 DEF KeptInv, SnapshotsAreKept, NoDuplicateWithoutFault
  <2>3. NothingVanishes'
    <3>1. \A s : Spooled(s) => Spooled(s)'
      BY <1>5 DEF Spooled
    <3>2. \A s : ~ InMemory(s)
      BY <1>1 DEF InMemory
    <3> QED  BY <1>1, <3>1, <3>2, Zenon DEF KeptInv, SnapshotsAreKept, NothingVanishes
  <2> QED  BY <2>1, <2>2, <2>3 DEF SnapshotsAreKept
<1> QED  BY <1>5, <1>8, <1>9, <1>10, <1>11, <1>12 DEF KeptInv, OldestFirst

\* The backend stores one snapshot of the request.
LEMMA StoreStep ==
  ASSUME TypeOK, TypeOK', EnrollInv, KeptInv, StoreSnapshot
  PROVE  KeptInv' /\ OldestFirst
<1> DEFINE s == Min(serving)
<1>1. /\ serving # {} /\ serving' = serving \ {s}
      /\ copies' = [copies EXCEPT ![s] = @ + 1]
      /\ UNCHANGED <<pc, key, hand, batch, spool, owner, orphans, collected, shed, died, now,
                     crashes, faults>>
  BY DEF StoreSnapshot, state, history, budgets
<1>2. s \in serving
  BY <1>1, MinIsLeast DEF TypeOK, Snaps
<1>3. /\ pc \in Calling /\ Accepts(hand) /\ serving \subseteq hand /\ hand \subseteq Snaps
      /\ s \in Snaps
  BY <1>1, <1>2 DEF KeptInv, ServingIsHeld, TypeOK
<1>4. /\ \A r \in Snaps : copies[r] \in Nat /\ copies'[r] \in Nat /\ copies'[r] >= copies[r]
      /\ \A r \in Snaps : r # s => copies'[r] = copies[r]
      /\ copies'[s] = copies[s] + 1
  BY <1>1, <1>3, OneMoreCopy DEF TypeOK
<1> HIDE DEF s
<1>5. Accepts(hand)'
  BY <1>1, <1>3 DEF Accepts
<1>6. SpoolIsOrdered'
  BY <1>1 DEF KeptInv, SpoolIsOrdered
<1>7. HandIsKnown'
  BY <1>1 DEF KeptInv, HandIsKnown
<1>8. ServingIsHeld'
  BY <1>1, <1>3, <1>4, <1>5 DEF KeptInv, ServingIsHeld, Calling
<1>9. \A f \in spool : ~ f.torn /\ f.snap = s => pc = "flushing" /\ f \in batch
  <2> SUFFICES ASSUME NEW f \in spool, ~ f.torn, f.snap = s PROVE pc = "flushing" /\ f \in batch
    OBVIOUS
  <2>1. s \in hand
    BY <1>2, <1>3
  <2>2. CASE pc = "sending"
    <3>1. f.snap < s
      BY <2>1, <2>2 DEF KeptInv, HandIsKnown
    <3>2. s \in Nat
      BY <1>3 DEF Snaps
    <3> QED  BY <3>1, <3>2
  <2>3. CASE pc = "flushing"
    <3>1. PICK g \in Readable(batch) : g.snap = s
      BY <2>1, <2>3 DEF KeptInv, HandIsKnown, Payload, SnapsOf
    <3>2. g \in spool /\ g \in batch
      BY <2>3 DEF KeptInv, HandIsKnown, Readable
    <3> QED  BY <2>3, <3>1, <3>2 DEF KeptInv, SpoolIsOrdered
  <2> QED  BY <1>3, <2>2, <2>3 DEF Calling
<1>10. NotStoredYet' /\ NoDuplicateWithoutFault'
  <2> SUFFICES ASSUME crashes = 0, faults = 0 PROVE NotStoredYet' /\ NoDuplicateWithoutFault'
    BY <1>1 DEF NotStoredYet, NoDuplicateWithoutFault
  <2>1. /\ orphans = <<>>
        /\ \A r \in Snaps : r > collected \/ r \in serving => copies[r] = 0
        /\ \A f \in spool : copies[f.snap] > 0 /\ ~ f.torn =>
              f \in batch /\ (pc = "acking" \/ (pc = "flushing" /\ Accepts(hand)))
    BY DEF KeptInv, NotStoredYet
  <2>2. s <= collected
    <3>1. s \in hand
      BY <1>2, <1>3
    <3>2. CASE pc = "sending"
      BY <3>1, <3>2 DEF KeptInv, HandIsKnown
    <3>3. CASE pc = "flushing"
      <4>1. PICK g \in Readable(batch) : g.snap = s
        BY <3>1, <3>3 DEF KeptInv, HandIsKnown, Payload, SnapsOf
      <4>2. g \in spool
        BY <3>3 DEF KeptInv, HandIsKnown, Readable
      <4> QED  BY <4>1, <4>2 DEF KeptInv, SpoolIsOrdered
    <3> QED  BY <1>3, <3>2, <3>3 DEF Calling
  <2>3. s \in Nat /\ collected \in Nat
    BY <1>3 DEF Snaps, TypeOK
  <2>4. \A r \in Snaps : r > collected' \/ r \in serving' => copies'[r] = 0
    BY <1>1, <1>4, <2>1, <2>2, <2>3 DEF Snaps
  <2>5. \A f \in spool' : copies'[f.snap] > 0 /\ ~ f.torn =>
              f \in batch' /\ (pc' = "acking" \/ (pc' = "flushing" /\ Accepts(hand)'))
    <3> SUFFICES ASSUME NEW f \in spool, copies'[f.snap] > 0, ~ f.torn
                 PROVE  f \in batch' /\ (pc' = "acking" \/ (pc' = "flushing" /\ Accepts(hand)'))
      BY <1>1
    <3>1. f.snap \in Snaps
      BY DEF TypeOK, File
    <3>2. CASE f.snap = s
      BY <1>1, <1>5, <1>9, <3>2
    <3>3. CASE f.snap # s
      BY <1>1, <1>4, <1>5, <2>1, <3>1, <3>3
    <3> QED  BY <3>2, <3>3
  <2>6. NotStoredYet'
    BY <1>1, <1>3, <1>5, <2>1, <2>4, <2>5 DEF NotStoredYet, Calling
  <2>7. \A r \in Snaps : copies[r] <= 1
    BY DEF KeptInv, SnapshotsAreKept, NoDuplicateWithoutFault
  <2>8. \A r \in Snaps : copies'[r] <= 1
    BY <1>2, <1>3, <1>4, <2>1, <2>7
  <2> QED  BY <2>6, <2>8 DEF NoDuplicateWithoutFault
<1>11. SpoolWithinLimit'
  BY <1>1 DEF KeptInv, SnapshotsAreKept, SpoolWithinLimit
<1>12. NothingVanishes'
  <2>1. \A r : Spooled(r) = Spooled(r)' /\ InMemory(r) = InMemory(r)'
    BY <1>1 DEF Spooled, InMemory
  <2>2. \A r \in 1 .. collected : copies[r] > 0 => copies'[r] > 0
    <3>1. 1 .. collected \subseteq Snaps
      BY SpoolConstants DEF TypeOK, Snaps
    <3> QED  BY <1>4, <3>1
  <2> QED  BY <1>1, <2>1, <2>2, Zenon DEF KeptInv, SnapshotsAreKept, NothingVanishes
<1> QED  BY <1>1, <1>6, <1>7, <1>8, <1>10, <1>11, <1>12 DEF KeptInv, SnapshotsAreKept, OldestFirst

\* The backend stores one snapshot of a request that nobody waits for.
LEMMA OrphanStep ==
  ASSUME TypeOK, TypeOK', EnrollInv, KeptInv, StoreOrphan
  PROVE  KeptInv' /\ OldestFirst
<1>1. PICK i \in DOMAIN orphans : copies' = [copies EXCEPT ![Min(orphans[i])] = @ + 1]
  BY DEF StoreOrphan
<1>2. UNCHANGED <<pc, key, hand, batch, spool, owner, serving, collected, shed, died, now,
                  crashes, faults>>
  BY DEF StoreOrphan, state, history, budgets
<1>3. \A r \in Snaps : copies[r] \in Nat /\ copies'[r] \in Nat /\ copies'[r] >= copies[r]
  BY <1>1, OneMoreCopy DEF TypeOK
<1>4. ~ (crashes = 0 /\ faults = 0)
  BY <1>1 DEF KeptInv, NotStoredYet
<1>5. SpoolIsOrdered' /\ HandIsKnown'
  BY <1>2 DEF KeptInv, SpoolIsOrdered, HandIsKnown
<1>6. ServingIsHeld'
  <2>1. \A r \in Snaps : copies[r] > 0 => copies'[r] > 0
    BY <1>3
  <2>2. hand \subseteq Snaps /\ \A f \in batch : f.snap \in Snaps
    BY DEF TypeOK, File
  <2>3. Accepts(hand)' = Accepts(hand)
    BY <1>2 DEF Accepts
  <2> QED  BY <1>2, <2>1, <2>2, <2>3 DEF KeptInv, ServingIsHeld, Readable
<1>7. NotStoredYet' /\ NoDuplicateWithoutFault'
  BY <1>2, <1>4 DEF NotStoredYet, NoDuplicateWithoutFault
<1>8. SpoolWithinLimit'
  BY <1>2 DEF KeptInv, SnapshotsAreKept, SpoolWithinLimit
<1>9. NothingVanishes'
  <2>1. \A r : Spooled(r) = Spooled(r)' /\ InMemory(r) = InMemory(r)'
    BY <1>2 DEF Spooled, InMemory
  <2>2. \A r \in 1 .. collected : copies[r] > 0 => copies'[r] > 0
    <3>1. 1 .. collected \subseteq Snaps
      BY SpoolConstants DEF TypeOK, Snaps
    <3> QED  BY <1>3, <3>1
  <2> QED  BY <1>2, <2>1, <2>2, Zenon DEF KeptInv, SnapshotsAreKept, NothingVanishes
<1> QED  BY <1>2, <1>5, <1>6, <1>7, <1>8, <1>9 DEF KeptInv, SnapshotsAreKept, OldestFirst

\* An answer: what was in the hand is stored.
LEMMA SuccessStep ==
  ASSUME TypeOK, TypeOK', EnrollInv, KeptInv, CallSucceeds
  PROVE  KeptInv' /\ OldestFirst
<1>1. /\ pc \in Calling /\ serving = {} /\ Accepts(hand)
      /\ hand' = {} /\ pc' = AfterAnswer
      /\ UNCHANGED <<key, batch, spool, owner, serving, orphans, copies, collected, shed, died,
                     now, crashes, faults>>
  BY DEF CallSucceeds, state, backend, history, budgets
<1>2. \/ pc = "flushing" /\ pc' = "acking"
      \/ pc = "sending" /\ pc' = "loop"
  BY <1>1 DEF AfterAnswer, Calling
<1>3. \A s \in hand : copies[s] > 0
  BY <1>1 DEF KeptInv, ServingIsHeld
<1>4. SpoolIsOrdered'
  BY <1>1 DEF KeptInv, SpoolIsOrdered
<1>5. HandIsKnown'
  BY <1>1, <1>2 DEF KeptInv, HandIsKnown
<1>6. ServingIsHeld'
  <2>1. pc = "flushing" => \A f \in Readable(batch) : copies[f.snap] > 0
    BY <1>3 DEF KeptInv, HandIsKnown, Payload, SnapsOf
  <2> QED  BY <1>1, <1>2, <2>1 DEF ServingIsHeld, Calling
<1>7. NotStoredYet'
  BY <1>1, <1>2 DEF KeptInv, NotStoredYet, Calling
<1>8. SpoolWithinLimit' /\ NoDuplicateWithoutFault'
  BY <1>1 DEF KeptInv, SnapshotsAreKept, SpoolWithinLimit, NoDuplicateWithoutFault
<1>9. NothingVanishes'
  <2>1. \A r : Spooled(r) = Spooled(r)' /\ (InMemory(r) => copies[r] > 0)
    BY <1>1, <1>3 DEF Spooled, InMemory
  <2> QED  BY <1>1, <2>1, Zenon DEF KeptInv, SnapshotsAreKept, NothingVanishes
<1> QED  BY <1>1, <1>4, <1>5, <1>6, <1>7, <1>8, <1>9 DEF KeptInv, SnapshotsAreKept, OldestFirst

\* An error: what was collected is spooled next, a flush tries again later.
LEMMA ErrorStep ==
  ASSUME TypeOK, TypeOK', EnrollInv, KeptInv, CallRefused \/ CallFails
  PROVE  KeptInv' /\ OldestFirst
<1>1. /\ pc \in Calling
      /\ pc' = AfterError /\ hand' = IF pc = "flushing" THEN {} ELSE hand
      /\ UNCHANGED <<key, batch, spool, owner, copies, collected, shed, died, now, crashes>>
  BY DEF CallRefused, CallFails, OnError, state, history
<1>2. \/ pc = "flushing" /\ pc' = "loop" /\ hand' = {}
      \/ pc = "sending" /\ pc' = "spooling" /\ hand' = hand
  BY <1>1 DEF AfterError, Calling
<1>3. serving' = {}
  BY DEF CallRefused, CallFails, Abandon, KeptInv, ServingIsHeld
<1>4. faults' = 0 => faults = 0 /\ ~ Accepts(hand) /\ UNCHANGED orphans
  <2>1. faults \in Nat
    BY AgentConstants DEF TypeOK
  <2> QED  BY <2>1 DEF CallRefused, CallFails
<1>5. SpoolIsOrdered'
  BY <1>1 DEF KeptInv, SpoolIsOrdered
<1>6. HandIsKnown'
  BY <1>1, <1>2 DEF KeptInv, HandIsKnown
<1>7. ServingIsHeld'
  BY <1>2, <1>3 DEF ServingIsHeld, Calling
<1>8. NotStoredYet' /\ NoDuplicateWithoutFault'
  <2> SUFFICES ASSUME crashes' = 0, faults' = 0 PROVE NotStoredYet' /\ NoDuplicateWithoutFault'
    BY DEF NotStoredYet, NoDuplicateWithoutFault
  <2>1. crashes = 0 /\ faults = 0 /\ ~ Accepts(hand) /\ orphans' = orphans
    BY <1>1, <1>4
  <2>2. NotStoredYet'
    BY <1>1, <1>2, <1>3, <2>1 DEF KeptInv, NotStoredYet, Calling
  <2> QED  BY <1>1, <2>1, <2>2 DEF KeptInv, SnapshotsAreKept, NoDuplicateWithoutFault
<1>9. SpoolWithinLimit'
  BY <1>1 DEF KeptInv, SnapshotsAreKept, SpoolWithinLimit
<1>10. NothingVanishes'
  <2>1. \A r : Spooled(r) = Spooled(r)' /\ (InMemory(r) => InMemory(r)')
    BY <1>1, <1>2 DEF Spooled, InMemory
  <2> QED  BY <1>1, <2>1, Zenon DEF KeptInv, SnapshotsAreKept, NothingVanishes
<1> QED  BY <1>1, <1>5, <1>6, <1>7, <1>8, <1>9, <1>10 DEF KeptInv, SnapshotsAreKept, OldestFirst

\* The agent has acknowledged or spooled everything.
LEMMA BackStep ==
  ASSUME TypeOK, TypeOK', EnrollInv, KeptInv, BackToLoop
  PROVE  KeptInv' /\ OldestFirst
<1>1. /\ (pc = "spooling" /\ hand = {}) \/ (pc = "acking" /\ batch = {})
      /\ pc' = "loop"
      /\ UNCHANGED <<key, hand, batch, spool, owner, serving, orphans, copies, collected, shed,
                     died, now, crashes, faults>>
  BY DEF BackToLoop, state, backend, history, budgets
<1>2. SpoolIsOrdered' /\ HandIsKnown'
  BY <1>1 DEF KeptInv, SpoolIsOrdered, HandIsKnown
<1>3. ServingIsHeld'
  BY <1>1 DEF KeptInv, ServingIsHeld, Calling
<1>4. NotStoredYet'
  BY <1>1 DEF KeptInv, NotStoredYet, Calling
<1>5. SpoolWithinLimit' /\ NoDuplicateWithoutFault'
  BY <1>1 DEF KeptInv, SnapshotsAreKept, SpoolWithinLimit, NoDuplicateWithoutFault
<1>6. NothingVanishes'
  <2>1. \A r : Spooled(r) = Spooled(r)' /\ ~ InMemory(r)
    BY <1>1 DEF Spooled, InMemory
  <2> QED  BY <1>1, <2>1, Zenon DEF KeptInv, SnapshotsAreKept, NothingVanishes
<1> QED  BY <1>1, <1>2, <1>3, <1>4, <1>5, <1>6 DEF KeptInv, SnapshotsAreKept, OldestFirst

\* The agent acknowledges the next file of the batch.
LEMMA AckStep ==
  ASSUME TypeOK, TypeOK', EnrollInv, KeptInv, Ack
  PROVE  KeptInv' /\ OldestFirst
<1> DEFINE f0 == First(batch)
<1>1. /\ pc = "acking" /\ batch # {}
      /\ spool' = spool \ {f0} /\ batch' = batch \ {f0}
      /\ UNCHANGED <<pc, key, hand, owner, serving, orphans, copies, collected, shed, died, now,
                     crashes, faults>>
  BY DEF Ack, state, backend, history, budgets
<1>2. f0 \in batch /\ \A g \in batch : f0.snap <= g.snap
  BY <1>1, FirstIsOldest DEF TypeOK
<1>3. \A f \in batch : f.snap \in Nat
  BY DEF TypeOK, File, Snaps
<1> HIDE DEF f0
<1>4. SpoolIsOrdered'
  <2>1. IsFiniteSet(spool')
    BY <1>1, FS_Subset DEF KeptInv, SpoolIsOrdered
  <2> QED  BY <1>1, <2>1 DEF KeptInv, SpoolIsOrdered
<1>5. HandIsKnown'
  BY <1>1 DEF KeptInv, HandIsKnown, Readable
<1>6. ServingIsHeld'
  BY <1>1 DEF KeptInv, ServingIsHeld, Calling, Readable
<1>7. NotStoredYet'
  BY <1>1 DEF KeptInv, NotStoredYet, Calling
<1>8. NoDuplicateWithoutFault'
  BY <1>1 DEF KeptInv, SnapshotsAreKept, NoDuplicateWithoutFault
<1>9. SpoolWithinLimit'
  <2>1. spool \in SUBSET File /\ IsFiniteSet(spool) /\ spool' \in SUBSET spool
    BY <1>1 DEF TypeOK, KeptInv, SpoolIsOrdered
  <2>2. DirSize(spool') <= DirSize(spool) /\ IsFiniteSet(spool')
    BY <2>1, BytesShrink
  <2>3. DirSize(spool') \in Nat /\ DirSize(spool) \in Nat
    BY <2>1, <2>2, RoomIsFinite
  <2> QED  BY <2>2, <2>3, SpoolConstants DEF KeptInv, SnapshotsAreKept, SpoolWithinLimit
<1>10. NothingVanishes'
  <2>1. \A r : Spooled(r) => Spooled(r)' \/ copies[r] > 0
    <3> SUFFICES ASSUME NEW f \in spool, ~ f.torn
                 PROVE  f \in spool' \/ copies[f.snap] > 0
      BY DEF Spooled
    <3>1. CASE f = f0
      BY <1>1, <1>2, <3>1 DEF KeptInv, ServingIsHeld, Readable
    <3>2. CASE f # f0
      BY <1>1, <3>2
    <3> QED  BY <3>1, <3>2
  <2>2. \A r : InMemory(r) = InMemory(r)'
    BY <1>1 DEF InMemory
  <2> QED  BY <1>1, <2>1, <2>2, Zenon DEF KeptInv, SnapshotsAreKept, NothingVanishes
<1>11. OldestFirst
  <2> SUFFICES ASSUME NEW f \in spool, f.snap < f0.snap, f # f0 PROVE FALSE
    BY <1>1 DEF OldestFirst
  <2>1. f \in batch
    BY <1>1, <1>2 DEF KeptInv, HandIsKnown
  <2> QED  BY <1>2, <1>3, <2>1
<1> QED  BY <1>4, <1>5, <1>6, <1>7, <1>8, <1>9, <1>10, <1>11 DEF KeptInv, SnapshotsAreKept

\* What becomes of the spool, and of what it held, when the next file of the
\* hand is written, whole or torn, or the limits leave no room for it.
Writes(s) ==
  LET left == Enforced(spool, now, Size[s]) IN
  /\ shed' = shed \cup (SnapsOf(spool) \ SnapsOf(left))
               \cup (IF IsFull(spool, now, Size[s]) THEN {s} ELSE {})
  /\ \/ IsFull(spool, now, Size[s]) /\ spool' = left
     \/ /\ ~ IsFull(spool, now, Size[s])
        /\ \E t \in BOOLEAN : spool' = left \cup {[snap |-> s, at |-> now, torn |-> t]}

\* A file that is written is the youngest, what was evicted for it were the
\* oldest, and there was room.
LEMMA WrittenSpool ==
  ASSUME TypeOK, TypeOK', KeptInv, pc = "spooling", hand # {}, Writes(Min(hand)),
         now' = now, collected' = collected
  PROVE  /\ Min(hand) \in hand /\ Min(hand) \in Snaps /\ \A r \in hand : Min(hand) <= r
         /\ SpoolIsOrdered' /\ SpoolWithinLimit' /\ OldestFirst
         /\ \A f \in spool' : f \in spool \/ (f.snap = Min(hand) /\ f.at = now)
         /\ \A f \in spool : f \in spool' \/ f.torn \/ f.snap \in shed'
<1> DEFINE s == Min(hand)
           left == Enforced(spool, now, Size[s])
<1>1. /\ s \in hand /\ s \in Snaps /\ Size[s] \in Nat /\ \A r \in hand : s <= r
      /\ \A t \in BOOLEAN : [snap |-> s, at |-> now, torn |-> t] \in File
  BY WriteType DEF KeptInv, SpoolIsOrdered
<1>2. s \in Nat /\ now \in Nat /\ spool \in SUBSET File /\ IsFiniteSet(spool)
  BY <1>1, AgentConstants DEF Snaps, TypeOK, KeptInv, SpoolIsOrdered
<1>3. /\ left \subseteq spool /\ IsFiniteSet(left) /\ DirSize(left) \in Nat
      /\ left = {} \/ \E n \in Nat : left = Since(Fresh(spool, now), n)
      /\ ~ IsFull(spool, now, Size[s]) => DirSize(left) + Size[s] <= MaxBytes
  BY <1>1, <1>2, EnforcedLeaves
<1>4. /\ shed' = shed \cup (SnapsOf(spool) \ SnapsOf(left))
                   \cup (IF IsFull(spool, now, Size[s]) THEN {s} ELSE {})
      /\ \/ IsFull(spool, now, Size[s]) /\ spool' = left
         \/ /\ ~ IsFull(spool, now, Size[s])
            /\ \E t \in BOOLEAN : spool' = left \cup {[snap |-> s, at |-> now, torn |-> t]}
  BY DEF Writes
<1>5. IsFull(spool, now, Size[s]) => left = {}
  BY DEF IsFull, Enforced
<1> HIDE DEF s, left
<1>6. s <= collected /\ \A f \in spool : f.snap < s
  BY <1>1 DEF KeptInv, HandIsKnown
<1>7. \A f \in spool : f.snap \in Nat /\ f.at \in Nat /\ f.at <= now
  BY <1>2 DEF File, Snaps, KeptInv, SpoolIsOrdered
<1>8. \A f \in spool, g \in spool : f.snap < g.snap /\ f \in left => g \in left
  <2> SUFFICES ASSUME NEW f \in spool, NEW g \in spool, f.snap < g.snap, f \in left
               PROVE  g \in left
    OBVIOUS
  <2>1. PICK n \in Nat : left = Since(Fresh(spool, now), n)
    BY <1>3
  <2>2. f.at <= g.at
    BY DEF KeptInv, SpoolIsOrdered
  <2>3. f.at + Retention >= now /\ f.snap >= n
    BY <2>1 DEF Since, Fresh
  <2>4. g.at + Retention >= now /\ g.snap >= n
    BY <1>2, <1>7, <2>2, <2>3, SpoolConstants
  <2> QED  BY <2>1, <2>4 DEF Since, Fresh
<1>9. CASE IsFull(spool, now, Size[s])
  <2>1. spool' = {} /\ s \in shed' /\ left = {}
    BY <1>4, <1>5, <1>9
  <2>2. SpoolIsOrdered'
    BY <2>1, FS_EmptySet DEF SpoolIsOrdered
  <2>3. DirSize(spool') <= MaxBytes
    BY <1>3, <2>1, FS_EmptySet, SpoolConstants DEF DirSize
  <2>4. \A f \in spool : f.snap \in shed'
    BY <1>4, <2>1 DEF SnapsOf
  <2> QED  BY <1>1, <2>1, <2>2, <2>3, <2>4 DEF SpoolWithinLimit, OldestFirst, s
<1>10. CASE ~ IsFull(spool, now, Size[s])
  <2>1. PICK t \in BOOLEAN : spool' = left \cup {[snap |-> s, at |-> now, torn |-> t]}
    BY <1>4, <1>10
  <2> DEFINE new == [snap |-> s, at |-> now, torn |-> t]
  <2>2. new \in File /\ new.snap = s /\ new.at = now /\ new.torn = t
    BY <1>1
  <2>3. spool' = left \cup {new}
    BY <2>1
  <2>4. FileSize(new) <= Size[s]
    BY <1>1, <2>2 DEF FileSize
  <2> HIDE DEF new
  <2>5. /\ IsFiniteSet(spool') /\ DirSize(spool') <= DirSize(left) + FileSize(new)
        /\ FileSize(new) \in Nat
    BY <1>2, <1>3, <2>2, <2>3, FileAddsItsSize, RoomOfFile
  <2>6. DirSize(spool') \in Nat
    BY <2>5, RoomIsFinite DEF TypeOK
  <2>7. SpoolWithinLimit'
    BY <1>1, <1>3, <1>10, <2>4, <2>5, <2>6, SpoolConstants DEF SpoolWithinLimit
  <2>8. \A f \in spool' : f \in spool \/ f = new
    BY <1>3, <2>3
  <2>9. SpoolIsOrdered'
    <3>1. \A f \in spool' : f.at <= now' /\ f.snap <= collected'
      BY <1>2, <1>6, <2>2, <2>8 DEF KeptInv, SpoolIsOrdered
    <3>2. ASSUME NEW f \in spool', NEW g \in spool'
          PROVE  (f.snap < g.snap => f.at <= g.at) /\ (f.snap = g.snap => f = g)
      <4>1. CASE f \in spool /\ g \in spool
        BY <4>1 DEF KeptInv, SpoolIsOrdered
      <4>2. CASE f = new /\ g \in spool
        BY <1>2, <1>6, <1>7, <2>2, <4>2
      <4>3. CASE f \in spool /\ g = new
        BY <1>2, <1>6, <1>7, <2>2, <4>3
      <4>4. CASE f = new /\ g = new
        BY <1>2, <2>2, <4>4
      <4> QED  BY <2>8, <4>1, <4>2, <4>3, <4>4
    <3> QED  BY <2>5, <3>1, <3>2 DEF SpoolIsOrdered
  <2>10. OldestFirst
    <3> SUFFICES ASSUME NEW f \in spool, NEW g \in spool, f.snap < g.snap, f \in spool'
                 PROVE  g \in spool'
      BY DEF OldestFirst
    <3>1. f # new
      BY <1>2, <1>6, <1>7, <2>2
    <3> QED  BY <1>8, <2>3, <3>1
  <2>11. \A f \in spool : f \in spool' \/ f.snap \in shed'
    <3> SUFFICES ASSUME NEW f \in spool, f \notin left PROVE f.snap \in shed'
      BY <2>3
    <3>1. f.snap \notin SnapsOf(left)
      BY <1>3 DEF SnapsOf, KeptInv, SpoolIsOrdered
    <3> QED  BY <1>4, <3>1 DEF SnapsOf
  <2> QED  BY <1>1, <2>2, <2>7, <2>8, <2>9, <2>10, <2>11 DEF s
<1> QED  BY <1>9, <1>10

\* A torn file is written as any other.
LEMMA TearWrites ==
  ASSUME Tear
  PROVE  pc = "spooling" /\ hand # {} /\ Writes(Min(hand))
  BY DEF Tear, Writes

\* The next file is written, or the spool is full.
LEMMA EnqueueStep ==
  ASSUME TypeOK, TypeOK', EnrollInv, KeptInv, Enqueue
  PROVE  KeptInv' /\ OldestFirst
<1> DEFINE s == Min(hand)
<1>1. /\ pc = "spooling" /\ hand # {} /\ hand' = hand \ {s}
      /\ UNCHANGED <<pc, key, batch, owner, serving, orphans, copies, collected, died, now,
                     crashes, faults>>
  BY DEF Enqueue, state, backend, history, budgets
<1>2. /\ Writes(s)
      /\ IF IsFull(spool, now, Size[s]) THEN s \in shed'
         ELSE [snap |-> s, at |-> now, torn |-> FALSE] \in spool'
  BY DEF Enqueue, Writes
<1>3. /\ s \in hand /\ s \in Snaps /\ \A r \in hand : s <= r
      /\ SpoolIsOrdered' /\ SpoolWithinLimit' /\ OldestFirst
      /\ \A f \in spool' : f \in spool \/ (f.snap = s /\ f.at = now)
      /\ \A f \in spool : f \in spool' \/ f.torn \/ f.snap \in shed'
  BY <1>1, <1>2, WrittenSpool
<1>4. shed \subseteq shed'
  BY <1>2 DEF Writes
<1> HIDE DEF s
<1>5. HandIsKnown'
  <2>1. \A r \in hand' : r \in hand /\ r \in Nat /\ s < r
    BY <1>1, <1>3 DEF TypeOK, Snaps
  <2>2. \A f \in spool', r \in hand' : f.snap < r
    BY <1>1, <1>3, <2>1 DEF KeptInv, HandIsKnown
  <2> QED  BY <1>1, <2>1, <2>2 DEF KeptInv, HandIsKnown
<1>6. ServingIsHeld'
  BY <1>1 DEF KeptInv, ServingIsHeld, Calling
<1>7. NotStoredYet'
  <2> SUFFICES ASSUME crashes = 0, faults = 0 PROVE NotStoredYet'
    BY <1>1 DEF NotStoredYet
  <2>1. orphans = <<>> /\ \A r \in Snaps : r > collected \/ r \in serving => copies[r] = 0
    BY DEF KeptInv, NotStoredYet
  <2>2. \A r \in hand : copies[r] = 0
    BY <1>1 DEF KeptInv, NotStoredYet
  <2>3. \A f \in spool' : copies[f.snap] > 0 => f \in spool
    BY <1>3, <2>2
  <2>4. \A f \in spool : ~ (copies[f.snap] > 0 /\ ~ f.torn)
    BY <1>1 DEF KeptInv, NotStoredYet
  <2> QED  BY <1>1, <2>1, <2>2, <2>3, <2>4 DEF NotStoredYet
<1>8. NoDuplicateWithoutFault'
  BY <1>1 DEF KeptInv, SnapshotsAreKept, NoDuplicateWithoutFault
<1>9. NothingVanishes'
  <2>1. \A r : Spooled(r) => Spooled(r)' \/ r \in shed'
    BY <1>3 DEF Spooled
  <2>2. \A r : InMemory(r) => InMemory(r)' \/ Spooled(r)' \/ r \in shed'
    <3> SUFFICES ASSUME NEW r, InMemory(r) PROVE InMemory(r)' \/ Spooled(r)' \/ r \in shed'
      OBVIOUS
    <3>1. r \in hand
      BY DEF InMemory
    <3>2. CASE r # s
      BY <1>1, <3>1, <3>2 DEF InMemory
    <3>3. CASE r = s /\ IsFull(spool, now, Size[s])
      BY <1>2, <3>3
    <3>4. CASE r = s /\ ~ IsFull(spool, now, Size[s])
      <4> DEFINE new == [snap |-> s, at |-> now, torn |-> FALSE]
      <4>1. new \in spool' /\ new.snap = s /\ ~ new.torn
        BY <1>2, <3>4
      <4> HIDE DEF new
      <4> QED  BY <3>4, <4>1 DEF Spooled
    <3> QED  BY <3>2, <3>3, <3>4
  <2> QED  BY <1>1, <1>4, <2>1, <2>2, Zenon DEF KeptInv, SnapshotsAreKept, NothingVanishes
<1> QED  BY <1>3, <1>5, <1>6, <1>7, <1>8, <1>9 DEF KeptInv, SnapshotsAreKept

\* The disk is full: a torn file is left, the snapshot is gone.
LEMMA EnqueueFailsStep ==
  ASSUME TypeOK, TypeOK', EnrollInv, KeptInv, EnqueueFails
  PROVE  KeptInv' /\ OldestFirst
<1> DEFINE s == Min(hand)
<1>1. /\ pc = "spooling" /\ hand # {} /\ Writes(s)
      /\ hand' = hand \ {s} /\ died' = died \cup {s} /\ faults' = faults + 1
      /\ UNCHANGED <<pc, key, batch, owner, serving, orphans, copies, collected, now, crashes>>
  BY TearWrites DEF EnqueueFails, state, backend
<1>2. /\ s \in hand /\ s \in Snaps /\ \A r \in hand : s <= r
      /\ SpoolIsOrdered' /\ SpoolWithinLimit' /\ OldestFirst
      /\ \A f \in spool' : f \in spool \/ (f.snap = s /\ f.at = now)
      /\ \A f \in spool : f \in spool' \/ f.torn \/ f.snap \in shed'
  BY <1>1, WrittenSpool
<1>3. shed \subseteq shed'
  BY <1>1 DEF Writes
<1> HIDE DEF s
<1>4. HandIsKnown'
  <2>1. \A r \in hand' : r \in hand /\ r \in Nat /\ s < r
    BY <1>1, <1>2 DEF TypeOK, Snaps
  <2>2. \A f \in spool', r \in hand' : f.snap < r
    BY <1>1, <1>2, <2>1 DEF KeptInv, HandIsKnown
  <2> QED  BY <1>1, <2>1, <2>2 DEF KeptInv, HandIsKnown
<1>5. ServingIsHeld'
  BY <1>1 DEF KeptInv, ServingIsHeld, Calling
<1>6. NotStoredYet' /\ NoDuplicateWithoutFault'
  <2>1. faults' # 0
    BY <1>1, AgentConstants DEF TypeOK
  <2> QED  BY <2>1 DEF NotStoredYet, NoDuplicateWithoutFault
<1>7. NothingVanishes'
  <2>1. \A r : Spooled(r) => Spooled(r)' \/ r \in shed'
    BY <1>2 DEF Spooled
  <2>2. \A r : InMemory(r) => InMemory(r)' \/ r \in died'
    BY <1>1 DEF InMemory
  <2>3. died \subseteq died'
    BY <1>1
  <2> QED  BY <1>1, <1>3, <2>1, <2>2, <2>3, Zenon DEF KeptInv, SnapshotsAreKept, NothingVanishes
<1> QED  BY <1>2, <1>4, <1>5, <1>6, <1>7 DEF KeptInv, SnapshotsAreKept

\* The agent dies: what it had in memory alone is gone.
LEMMA CrashStep ==
  ASSUME TypeOK, TypeOK', EnrollInv, KeptInv, Crash
  PROVE  KeptInv' /\ OldestFirst
<1>1. /\ pc' = "down" /\ hand' = {} /\ batch' = {} /\ serving' = {} /\ crashes' = crashes + 1
      /\ died' = IF pc \in {"sending", "spooling"} THEN died \cup hand ELSE died
      /\ UNCHANGED <<copies, collected, now, faults>>
  BY DEF Crash, Abandon
<1>2. /\ SpoolIsOrdered' /\ SpoolWithinLimit' /\ OldestFirst /\ shed \subseteq shed'
      /\ \A f \in spool : f \in spool' \/ f.torn \/ f.snap \in shed'
  <2>1. CASE Tear
    <3>1. pc = "spooling" /\ hand # {} /\ Writes(Min(hand))
      BY <2>1, TearWrites
    <3>2. shed \subseteq shed'
      BY <3>1 DEF Writes
    <3> QED  BY <1>1, <3>1, <3>2, WrittenSpool
  <2>2. CASE UNCHANGED <<spool, shed>>
    <3>1. SpoolIsOrdered'
      BY <1>1, <2>2 DEF KeptInv, SpoolIsOrdered
    <3>2. SpoolWithinLimit'
      BY <2>2 DEF KeptInv, SnapshotsAreKept, SpoolWithinLimit
    <3> QED  BY <2>2, <3>1, <3>2 DEF OldestFirst
  <2> QED  BY <2>1, <2>2 DEF Crash
<1>3. HandIsKnown' /\ ServingIsHeld'
  BY <1>1 DEF HandIsKnown, ServingIsHeld, Calling
<1>4. NotStoredYet' /\ NoDuplicateWithoutFault'
  <2>1. crashes' # 0
    BY <1>1, AgentConstants DEF TypeOK
  <2> QED  BY <2>1 DEF NotStoredYet, NoDuplicateWithoutFault
<1>5. NothingVanishes'
  <2>1. \A r : Spooled(r) => Spooled(r)' \/ r \in shed'
    BY <1>2 DEF Spooled
  <2>2. \A r : InMemory(r) => r \in died'
    BY <1>1 DEF InMemory
  <2>3. died \subseteq died'
    BY <1>1
  <2> QED  BY <1>1, <1>2, <2>1, <2>2, <2>3, Zenon DEF KeptInv, SnapshotsAreKept, NothingVanishes
<1> QED  BY <1>2, <1>3, <1>4, <1>5 DEF KeptInv, SnapshotsAreKept

\* Every step keeps the ways of the snapshots.
LEMMA KeptStep ==
  ASSUME TypeOK, TypeOK', EnrollInv, KeptInv, [Next]_vars
  PROVE  KeptInv' /\ OldestFirst
  BY QuietStep, CollectStep, FlushStep, StoreStep, OrphanStep, SuccessStep, ErrorStep, BackStep,
     AckStep, EnqueueStep, EnqueueFailsStep, CrashStep, Zenon DEF Next, AgentStep

\* What holds at each moment of a run.
AgentInv == TypeOK /\ EnrollInv /\ KeptInv

LEMMA AgentInvHolds ==
  /\ Init => AgentInv
  /\ AgentInv /\ [Next]_vars => AgentInv' /\ OldestFirst
<1>1. ASSUME Init PROVE AgentInv
  <2>1. TypeOK
    BY <1>1, AgentConstants, SpoolConstants DEF Init, TypeOK, PCs, InLoop, Calling, FileStates
  <2>2. EnrollInv
    BY <1>1 DEF Init, EnrollInv, PCs, IdComesLast, EnrolledWhileSaving, RunningMeansEnrolled,
                InLoop, Calling
  <2>3. SpoolIsOrdered /\ HandIsKnown /\ ServingIsHeld
    BY <1>1, FS_EmptySet DEF Init, SpoolIsOrdered, HandIsKnown, ServingIsHeld, Calling
  <2>4. NotStoredYet /\ NoDuplicateWithoutFault
    BY <1>1 DEF Init, NotStoredYet, NoDuplicateWithoutFault, Calling
  <2>5. DirSize(spool) = 0
    BY <1>1, FS_EmptySet DEF Init, DirSize
  <2>6. SpoolWithinLimit /\ NothingVanishes
    BY <1>1, <2>5, SpoolConstants DEF Init, SpoolWithinLimit, NothingVanishes
  <2> QED  BY <2>1, <2>2, <2>3, <2>4, <2>6 DEF AgentInv, KeptInv, SnapshotsAreKept
<1>2. ASSUME AgentInv, [Next]_vars PROVE AgentInv' /\ OldestFirst
  <2>1. TypeOK'
    BY <1>2, TypeStep DEF AgentInv, KeptInv, SpoolIsOrdered
  <2>2. EnrollInv'
    BY <1>2, EnrollStep DEF AgentInv
  <2>3. KeptInv' /\ OldestFirst
    BY <1>2, <2>1, KeptStep DEF AgentInv
  <2> QED  BY <2>1, <2>2, <2>3 DEF AgentInv
<1> QED  BY <1>1, <1>2

\* Types: the spool is made of files, each request of snapshots.
THEOREM TypeCorrect == Spec => []TypeOK
<1>1. AgentInv => TypeOK
  BY DEF AgentInv
<1> QED  BY <1>1, AgentInvHolds, PTL DEF Spec

\* For any number and sizes of snapshots, limits, deaths and failed calls: the
\* spool keeps to its limit, no snapshot vanishes but for a limit, a death or a
\* full disk, and none is stored twice as long as nothing fails.
THEOREM KeptCorrect == Spec => []SnapshotsAreKept
<1>1. AgentInv => SnapshotsAreKept
  BY DEF AgentInv, KeptInv
<1> QED  BY <1>1, AgentInvHolds, PTL DEF Spec

\* No step takes a file that can be read out of the spool and leaves an older.
THEOREM OrderCorrect == Spec => LosesOldestFirst
<1>1. AgentInv /\ [Next]_vars => [OldestFirst]_vars
  BY AgentInvHolds
<1>2. [OldestFirst]_vars => [\A f, g \in spool :
        f.snap < g.snap /\ ~ g.torn /\ f \in spool' => g \in spool']_vars
  BY DEF OldestFirst
<1> QED  BY <1>1, <1>2, AgentInvHolds, PTL DEF Spec, LosesOldestFirst
=============================================================================
