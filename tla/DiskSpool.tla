----------------------------- MODULE DiskSpool -----------------------------
(***************************************************************************)
(* The disk queue of the Go agent (agent/common/queue/spool.go): one file  *)
(* per inventory snapshot the backend did not take.                        *)
(*                                                                         *)
(* A spool is the set of its files.  The agent has one thread and numbers  *)
(* its snapshots as it collects them, so the order of the numbers is that  *)
(* of the writes: by name, which is the time of the write, and by          *)
(* modification time, as long as the clock advances between two writes.    *)
(***************************************************************************)
EXTENDS Naturals, Sequences, SequencesExt, FiniteSets, FiniteSetsExt

CONSTANTS
  MaxSnaps,    \* bound: the snapshots collected in a run are 1 .. MaxSnaps
  Size,        \* Size[s]: bytes of snapshot s as JSON
  MaxBytes,    \* max_spool_mb
  Retention,   \* how old a file may become
  BatchLimit   \* files read by one DequeueBatch

Snaps == 1 .. MaxSnaps

ASSUME SpoolConstants ==
  /\ MaxSnaps \in Nat
  /\ Size \in [Snaps -> Nat]
  /\ MaxBytes \in Nat
  /\ Retention \in Nat
  /\ BatchLimit \in Nat \ {0}

\* A file whose writer died in WriteFile is torn: it exists and is no JSON.
File == [snap : Snaps, at : Nat, torn : BOOLEAN]

FileSize(f) == IF f.torn THEN 0 ELSE Size[f.snap]

\* dirSize: a byte is a file and a position in it.
DirSize(files) == Cardinality(UNION {{f} \X (1 .. FileSize(f)) : f \in files})

Bytes(snaps) == Cardinality(UNION {{s} \X (1 .. Size[s]) : s \in snaps})

\* pruneOlderThan
Fresh(files, now) == {f \in files : f.at + Retention >= now}

Since(files, s) == {f \in files : f.snap >= s}

\* The loop of enforceLimits ends when everything before s is removed.  Its
\* total was taken before the files too old were pruned and still counts them.
Fits(files, now, incoming, s) ==
  LET kept == Fresh(files, now)
  IN  DirSize(files) + incoming <= MaxBytes + DirSize(kept \ Since(kept, s))

Enough(files, now, incoming) ==
  {s \in 1 .. MaxSnaps + 1 : Fits(files, now, incoming, s)}

\* Mutation of Enforced: the newest files are evicted.
EnforcedNewest(files, now, incoming) ==
  LET kept   == Fresh(files, now)
      enough == {s \in 1 .. MaxSnaps + 1 :
                   DirSize(files) + incoming <= MaxBytes + DirSize(Since(kept, s))}
  IN  IF enough = {} THEN {} ELSE kept \ Since(kept, Max(enough))

\* What enforceLimits leaves.  When no number of evictions is enough every
\* file is gone by the time the caller learns that the spool is full.
Enforced(files, now, incoming) ==
  IF Enough(files, now, incoming) = {} THEN {}
  ELSE Since(Fresh(files, now), Min(Enough(files, now, incoming)))

\* enforceLimits returns an error and nothing is written.
IsFull(files, now, incoming) == Enough(files, now, incoming) = {}

\* Mutation of Due: a flush waits for a full batch.
DueFull(files) == Cardinality(files) >= BatchLimit

\* flushSpool returns at once when there is nothing to send.
Due(files) == files # {}

\* DequeueBatch: the first files by name.
Batch(files) == {f \in files : Cardinality({g \in files : g.snap < f.snap}) < BatchLimit}

Readable(files) == {f \in files : ~ f.torn}

SnapsOf(files) == {f.snap : f \in files}

Payload(files) == SnapsOf(Readable(files))

\* The next file of a batch.
First(files) == CHOOSE f \in files : \A g \in files : f.snap <= g.snap
=============================================================================
