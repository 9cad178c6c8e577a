----------------------- MODULE InteractionLog_proofs ------------------------
(***************************************************************************)
(* Proofs about InteractionLog for every set of runs and every bound: the  *)
(* log keeps the promise of AuditLog and its durable part only grows.      *)
(***************************************************************************)
EXTENDS InteractionLog, SequenceTheorems, TLAPS

Pieces == [rec : Record, whole : BOOLEAN]

(* What the proof needs of the types. *)
LogShape ==
    /\ file \in Seq(Pieces)
    /\ synced \in 0..Len(file)
    /\ stage \in [Runs -> Stages]
    /\ count \in [Runs -> 0..MaxWrites]

(* A call of write() is under way only for a record that was begun; once   *)
(* its line is written the line is in the file.                            *)
UnderWay ==
    /\ \A r \in Runs : stage[r] \in {"buffered", "written"} => count[r] >= 1
    /\ \A r \in Runs : stage[r] = "written" => Current(r) \in LinesUpTo(Len(file))

LogInv == LogShape /\ UnderWay

(* Lines stay where they are when the file keeps a prefix. *)
LEMMA LinesMonotone ==
    ASSUME NEW f \in Seq(Pieces), NEW g \in Seq(Pieces),
           NEW m \in 0..Len(f), NEW n \in 0..Len(g), m <= n,
           \A i \in 1..m : g[i] = f[i]
    PROVE  {f[i].rec : i \in {j \in 1..m : f[j].whole}}
              \subseteq {g[i].rec : i \in {j \in 1..n : g[j].whole}}
<1> SUFFICES ASSUME NEW i \in 1..m, f[i].whole
             PROVE  f[i].rec \in {g[k].rec : k \in {j \in 1..n : g[j].whole}}
  OBVIOUS
<1>1. i \in 1..n /\ g[i] = f[i]
  OBVIOUS
<1> QED
  BY <1>1

LEMMA LinesAreRecords ==
    ASSUME NEW f \in Seq(Pieces), NEW n \in 0..Len(f)
    PROVE  {f[i].rec : i \in {j \in 1..n : f[j].whole}} \subseteq Record
<1> SUFFICES ASSUME NEW i \in 1..n
             PROVE  f[i].rec \in Record
  OBVIOUS
<1>1. f[i] \in Pieces
  OBVIOUS
<1> QED
  BY <1>1 DEF Pieces

(* A piece appended at the end. *)
LEMMA AppendedLine ==
    ASSUME LogShape, NEW p \in Pieces, file' = Append(file, p)
    PROVE  /\ file' \in Seq(Pieces)
           /\ Len(file') = Len(file) + 1
           /\ synced \in 0..Len(file')
           /\ \A i \in 1..Len(file) : file'[i] = file[i]
           /\ file'[Len(file) + 1] = p
           /\ LinesUpTo(Len(file)) \subseteq LinesUpTo(Len(file))'
<1>1. /\ file' \in Seq(Pieces)
      /\ Len(file') = Len(file) + 1
      /\ \A i \in 1..Len(file) : file'[i] = file[i]
      /\ file'[Len(file) + 1] = p
  BY DEF LogShape
<1>2. Len(file) \in Nat /\ synced \in 0..Len(file)
  BY DEF LogShape
<1>3. LinesUpTo(Len(file)) \subseteq LinesUpTo(Len(file))'
  BY <1>1, <1>2, LinesMonotone DEF LogShape, LinesUpTo
<1> QED
  BY <1>1, <1>2, <1>3

(* The crash keeps a prefix at least as long as what was synced. *)
LEMMA CrashKeeps ==
    ASSUME LogShape, Crash
    PROVE  /\ file' \in Seq(Pieces)
           /\ synced' = Len(file')
           /\ synced <= synced'
           /\ \A i \in 1..synced : file'[i] = file[i]
<1>1. PICK n \in synced..Len(file) :
         \/ file' = SubSeq(file, 1, n)
         \/ /\ n < Len(file)
            /\ file' = Append(SubSeq(file, 1, n), Piece(file[n + 1].rec, FALSE))
  BY DEF Crash
<1>2. /\ n \in Nat /\ synced \in Nat /\ synced <= n /\ n <= Len(file)
      /\ file \in Seq(Pieces)
  BY DEF LogShape
<1> DEFINE kept == SubSeq(file, 1, n)
<1>3. /\ kept \in Seq(Pieces)
      /\ Len(kept) = n
      /\ \A i \in 1..n : kept[i] = file[i]
  BY <1>2
<1>4. synced' = Len(file')
  BY DEF Crash
<1> HIDE DEF kept
<1>5. CASE file' = kept
  BY <1>2, <1>3, <1>4, <1>5
<1>6. CASE /\ n < Len(file)
           /\ file' = Append(kept, Piece(file[n + 1].rec, FALSE))
  <2>1. file[n + 1] \in Pieces
    BY <1>2, <1>6
  <2>2. Piece(file[n + 1].rec, FALSE) \in Pieces
    BY <2>1 DEF Piece, Pieces
  <2>3. /\ file' \in Seq(Pieces)
        /\ Len(file') = n + 1
        /\ \A i \in 1..n : file'[i] = kept[i]
    <3> DEFINE torn == Piece(file[n + 1].rec, FALSE)
    <3>1. torn \in Pieces /\ file' = Append(kept, torn)
      BY <1>6, <2>2
    <3> HIDE DEF torn
    <3>2. /\ Append(kept, torn) \in Seq(Pieces)
          /\ Len(Append(kept, torn)) = Len(kept) + 1
          /\ \A i \in 1..Len(kept) : Append(kept, torn)[i] = kept[i]
      BY <1>3, <3>1, AppendProperties
    <3> QED
      BY <1>3, <3>1, <3>2
  <2> QED
    BY <1>2, <1>3, <1>4, <2>3
<1> QED
  BY <1>1, <1>5, <1>6 DEF kept

LEMMA CurrentIsRecord ==
    ASSUME LogInv, NEW r \in Runs, stage[r] \in {"buffered", "written"}
    PROVE  Current(r) \in Record
<1>1. count[r] \in 1..MaxWrites
  BY LogAssumption DEF LogInv, LogShape, UnderWay
<1> QED
  BY <1>1 DEF Current, Record

----------------------------------------------------------------------------
LEMMA LogInit == Init => LogInv
  BY LogAssumption DEF Init, LogInv, LogShape, UnderWay, Stages

(* The record a run is writing, after a step of another run. *)
LEMMA OthersKeep ==
    ASSUME LogInv, NEW r \in Runs,
           NEW next \in Stages \ {"written"},
           stage' = [stage EXCEPT ![r] = next],
           next = "buffered" => count'[r] >= 1,
           \A q \in Runs : q # r => count'[q] = count[q],
           LinesUpTo(Len(file)) \subseteq LinesUpTo(Len(file))'
    PROVE  UnderWay'
<1>1. stage \in [Runs -> Stages]
  BY DEF LogInv, LogShape
<1>2. ASSUME NEW q \in Runs, stage'[q] \in {"buffered", "written"}
      PROVE  count'[q] >= 1
  <2>1. CASE q = r
    BY <1>1, <1>2, <2>1 DEF Stages
  <2>2. CASE q # r
    BY <1>1, <1>2, <2>2 DEF LogInv, UnderWay
  <2> QED
    BY <2>1, <2>2
<1>3. ASSUME NEW q \in Runs, stage'[q] = "written"
      PROVE  Current(q)' \in LinesUpTo(Len(file))'
  <2>1. q # r /\ stage[q] = "written"
    BY <1>1, <1>3
  <2>2. Current(q)' = Current(q)
    BY <2>1 DEF Current
  <2>3. Current(q) \in LinesUpTo(Len(file))
    BY <2>1 DEF LogInv, UnderWay
  <2> QED
    BY <2>2, <2>3
<1> QED
  BY <1>2, <1>3 DEF UnderWay

LEMMA LogStep == LogInv /\ [Next]_vars => LogInv'
<1> SUFFICES ASSUME LogInv, [Next]_vars
             PROVE  LogInv'
  OBVIOUS
<1> USE DEF LogInv
<1>1. ASSUME NEW r \in Runs, Buffer(r)
      PROVE  LogInv'
  <2>1. /\ stage' = [stage EXCEPT ![r] = "buffered"]
        /\ count' = [count EXCEPT ![r] = @ + 1]
        /\ count[r] < MaxWrites
        /\ file' = file /\ synced' = synced
    BY <1>1 DEF Buffer
  <2>2. LogShape'
    BY <2>1, LogAssumption DEF LogShape, Stages
  <2>3. count'[r] >= 1 /\ \A q \in Runs : q # r => count'[q] = count[q]
    BY <2>1, LogAssumption DEF LogShape
  <2>4. LinesUpTo(Len(file)) = LinesUpTo(Len(file))'
    BY <2>1 DEF LinesUpTo
  <2>5. UnderWay'
    BY <2>1, <2>3, <2>4, OthersKeep DEF Stages
  <2> QED
    BY <2>2, <2>5
<1>2. ASSUME NEW r \in Runs, AppendLine(r)
      PROVE  LogInv'
  <2>1. /\ stage[r] = "buffered"
        /\ stage' = [stage EXCEPT ![r] = "written"]
        /\ file' = Append(file, Piece(Current(r), TRUE))
        /\ count' = count /\ synced' = synced
    BY <1>2 DEF AppendLine
  <2>2. Piece(Current(r), TRUE) \in Pieces
    BY <2>1, CurrentIsRecord DEF Piece, Pieces
  <2>3. /\ file' \in Seq(Pieces)
        /\ Len(file') = Len(file) + 1
        /\ synced \in 0..Len(file')
        /\ file'[Len(file) + 1] = Piece(Current(r), TRUE)
        /\ LinesUpTo(Len(file)) \subseteq LinesUpTo(Len(file))'
    BY <2>1, <2>2, AppendedLine
  <2>4. LogShape'
    BY <2>1, <2>3 DEF LogShape, Stages
  <2>5. Current(r) \in LinesUpTo(Len(file))'
    BY <2>3 DEF LinesUpTo, Piece, LogShape
  <2>6. UnderWay'
    BY <2>1, <2>3, <2>5 DEF UnderWay, LogShape, Current
  <2> QED
    BY <2>4, <2>6
<1>3. ASSUME NEW r \in Runs, Sync(r)
      PROVE  LogInv'
  <2>1. /\ stage' = [stage EXCEPT ![r] = "idle"]
        /\ file' = file /\ count' = count /\ synced' = Len(file)
    BY <1>3 DEF Sync
  <2>2. LogShape'
    BY <2>1 DEF LogShape, Stages
  <2>3. UnderWay'
    BY <2>1, OthersKeep DEF Stages, LinesUpTo
  <2> QED
    BY <2>2, <2>3
<1>4. ASSUME NEW r \in Runs, AppendFails(r) \/ SyncFails(r)
      PROVE  LogInv'
  <2>1. /\ stage' = [stage EXCEPT ![r] = "idle"]
        /\ count' = count /\ synced' = synced
    BY <1>4 DEF AppendFails, SyncFails, Raise
  <2>2. CASE file' = file
    <3>1. UnderWay'
      BY <2>1, <2>2, OthersKeep DEF Stages, LinesUpTo
    <3> QED
      BY <2>1, <2>2, <3>1 DEF LogShape, Stages
  <2>3. CASE stage[r] = "buffered" /\ file' = Append(file, Piece(Current(r), FALSE))
    <3>1. Piece(Current(r), FALSE) \in Pieces
      BY <2>3, CurrentIsRecord DEF Piece, Pieces
    <3>2. /\ file' \in Seq(Pieces)
          /\ synced \in 0..Len(file')
          /\ LinesUpTo(Len(file)) \subseteq LinesUpTo(Len(file))'
      BY <2>3, <3>1, AppendedLine
    <3>3. UnderWay'
      BY <2>1, <3>2, OthersKeep DEF Stages
    <3> QED
      BY <2>1, <3>2, <3>3 DEF LogShape, Stages
  <2> QED
    BY <1>4, <2>2, <2>3 DEF AppendFails, SyncFails
<1>5. CASE Crash
  <2>1. /\ \A r \in Runs : stage'[r] \in {"idle", "dead"}
        /\ stage' \in [Runs -> Stages]
        /\ count' = count
    BY <1>5 DEF Crash, Stages
  <2>2. file' \in Seq(Pieces) /\ synced' \in 0..Len(file')
    BY <1>5, CrashKeeps
  <2> QED
    BY <2>1, <2>2 DEF LogShape, UnderWay
<1>6. CASE UNCHANGED vars
  BY <1>6 DEF vars, LogShape, UnderWay, LinesUpTo, Current
<1> QED
  BY <1>1, <1>2, <1>3, <1>4, <1>5, <1>6 DEF Next

LEMMA LogInvHolds == Spec => []LogInv
  BY LogInit, LogStep, PTL DEF Spec

----------------------------------------------------------------------------
(* What an fsync has covered is a prefix that every step keeps. *)
LEMMA DurableGrows ==
    ASSUME LogInv, [Next]_vars
    PROVE  /\ synced <= synced'
           /\ \A i \in 1..synced : file'[i] = file[i]
<1>1. synced \in Nat /\ Len(file) \in Nat /\ synced <= Len(file)
  BY DEF LogInv, LogShape
<1>2. ASSUME NEW r \in Runs, Buffer(r) \/ Sync(r) \/ SyncFails(r)
      PROVE  file' = file /\ synced <= synced'
  BY <1>1, <1>2 DEF Buffer, Sync, SyncFails, Raise
<1>3. ASSUME NEW r \in Runs, AppendLine(r) \/ AppendFails(r)
      PROVE  synced' = synced /\ \A i \in 1..synced : file'[i] = file[i]
  <2>1. synced' = synced
    BY <1>3 DEF AppendLine, AppendFails, Raise
  <2>2. CASE file' = file
    BY <2>1, <2>2
  <2>3. ASSUME NEW whole \in BOOLEAN, stage[r] = "buffered",
               file' = Append(file, Piece(Current(r), whole))
        PROVE  \A i \in 1..synced : file'[i] = file[i]
    <3>1. Piece(Current(r), whole) \in Pieces
      BY <2>3, CurrentIsRecord DEF Piece, Pieces
    <3>2. \A i \in 1..Len(file) : file'[i] = file[i]
      BY <2>3, <3>1, AppendedLine DEF LogInv
    <3> QED
      BY <1>1, <3>2
  <2> QED
    BY <1>3, <2>1, <2>2, <2>3 DEF AppendLine, AppendFails
<1>4. CASE Crash
  BY <1>4, CrashKeeps DEF LogInv
<1>5. CASE UNCHANGED vars
  BY <1>1, <1>5 DEF vars
<1> QED
  BY <1>1, <1>2, <1>3, <1>4, <1>5 DEF Next

LEMMA StoredGrows ==
    ASSUME LogInv, LogInv', [Next]_vars
    PROVE  /\ LinesUpTo(synced) \subseteq LinesUpTo(synced)'
           /\ LinesUpTo(synced)' \subseteq Record
<1>1. /\ file \in Seq(Pieces) /\ synced \in 0..Len(file)
      /\ file' \in Seq(Pieces) /\ synced' \in 0..Len(file')
  BY DEF LogInv, LogShape
<1>2. synced <= synced' /\ \A i \in 1..synced : file'[i] = file[i]
  BY DurableGrows
<1>3. LinesUpTo(synced) \subseteq LinesUpTo(synced)'
  BY <1>1, <1>2, LinesMonotone DEF LinesUpTo
<1>4. LinesUpTo(synced)' \subseteq Record
  BY <1>1, LinesAreRecords DEF LinesUpTo
<1> QED
  BY <1>3, <1>4

LEMMA AuditStep ==
    ASSUME LogInv, LogInv', [Next]_vars
    PROVE  [Audit!Next]_<<LinesUpTo(synced), acked>>
<1>1. /\ LinesUpTo(synced) \subseteq LinesUpTo(synced)'
      /\ LinesUpTo(synced)' \subseteq Record
  BY StoredGrows
<1>2. CASE acked' = acked
  BY <1>1, <1>2 DEF Audit!Next, Audit!Store
<1>3. ASSUME NEW r \in Runs, Sync(r)
      PROVE  Audit!Promise
  <2>1. Current(r) \in LinesUpTo(Len(file))
    BY <1>3 DEF Sync, LogInv, UnderWay
  <2>2. LinesUpTo(synced)' = LinesUpTo(Len(file))
    BY <1>3 DEF Sync, LinesUpTo
  <2>3. acked' = acked \cup {Current(r)}
    BY <1>3 DEF Sync
  <2> QED
    BY <1>1, <2>1, <2>2, <2>3 DEF Audit!Promise
<1> QED
  BY <1>2, <1>3 DEF Next, vars, Buffer, AppendLine, AppendFails, SyncFails,
                    Raise, Crash, Audit!Next

(* A record whose write() has returned is in the file for good: the log    *)
(* implements AuditLog, whatever the runs, crashes and I/O errors.         *)
THEOREM LogImplementsAuditLog == Spec => ImplementsAuditLog
<1>1. Init => Audit!Init
  BY DEF Init, Audit!Init, LinesUpTo
<1>2. LogInv /\ LogInv' /\ [Next]_vars => [Audit!Next]_<<LinesUpTo(synced), acked>>
  BY AuditStep
<1> QED
  BY <1>1, <1>2, LogInvHolds, PTL DEF Spec, ImplementsAuditLog, Audit!Spec

(* The durable part of the file is never rewritten or shortened. *)
THEOREM LogIsAppendOnly == Spec => AppendOnly
<1>1. ASSUME LogInv, LogInv', [Next]_vars
      PROVE  synced' >= synced /\ SubSeq(file', 1, synced) = SubSeq(file, 1, synced)
  <2>1. /\ file \in Seq(Pieces) /\ synced \in 0..Len(file)
        /\ file' \in Seq(Pieces) /\ synced' \in 0..Len(file')
    BY <1>1 DEF LogInv, LogShape
  <2>2. synced <= synced' /\ \A i \in 1..synced : file'[i] = file[i]
    BY <1>1, DurableGrows
  <2>3. synced \in 0..Len(file')
    BY <2>1, <2>2
  <2>4. SubSeq(file', 1, synced) = SubSeq(file, 1, synced)
    BY <2>1, <2>2, <2>3
  <2> QED
    BY <2>1, <2>2, <2>4
<1> QED
  BY <1>1, LogInvHolds, PTL DEF Spec, AppendOnly

----------------------------------------------------------------------------
(* A crash leaves, in every place that is left, the record that was there. *)
LEMMA CrashKeepsPlaces ==
    ASSUME LogShape, Crash
    PROVE  /\ Len(file') <= Len(file)
           /\ \A i \in 1..Len(file') : file'[i].rec = file[i].rec
<1>1. PICK n \in synced..Len(file) :
         \/ file' = SubSeq(file, 1, n)
         \/ /\ n < Len(file)
            /\ file' = Append(SubSeq(file, 1, n), Piece(file[n + 1].rec, FALSE))
  BY DEF Crash
<1>2. /\ n \in Nat /\ n <= Len(file) /\ file \in Seq(Pieces)
  BY DEF LogShape
<1> DEFINE kept == SubSeq(file, 1, n)
<1>3. /\ kept \in Seq(Pieces)
      /\ Len(kept) = n
      /\ \A i \in 1..n : kept[i] = file[i]
  BY <1>2
<1> HIDE DEF kept
<1>4. CASE file' = kept
  BY <1>2, <1>3, <1>4
<1>5. CASE /\ n < Len(file)
           /\ file' = Append(kept, Piece(file[n + 1].rec, FALSE))
  <2> DEFINE torn == Piece(file[n + 1].rec, FALSE)
  <2>1. file[n + 1] \in Pieces
    BY <1>2, <1>5
  <2>2. torn \in Pieces /\ torn.rec = file[n + 1].rec
    BY <2>1 DEF Piece, Pieces
  <2>3. file' = Append(kept, torn)
    BY <1>5
  <2> HIDE DEF torn
  <2>4. /\ Len(file') = n + 1
        /\ \A i \in 1..n : file'[i] = kept[i]
        /\ file'[n + 1] = torn
    BY <1>3, <2>2, <2>3, AppendProperties
  <2>5. \A i \in 1..(n + 1) : i \in 1..n \/ i = n + 1
    BY <1>2
  <2>6. ASSUME NEW i \in 1..(n + 1)
        PROVE  file'[i].rec = file[i].rec
    <3>1. CASE i \in 1..n
      BY <1>3, <2>4, <3>1
    <3>2. CASE i = n + 1
      BY <2>2, <2>4, <3>2
    <3> QED
      BY <2>5, <3>1, <3>2
  <2>7. n + 1 <= Len(file)
    BY <1>2, <1>5
  <2>8. \A i \in 1..Len(file') : file'[i].rec = file[i].rec
    BY <2>4, <2>6
  <2> QED
    BY <2>4, <2>7, <2>8
<1> QED
  BY <1>1, <1>4, <1>5 DEF kept

(* The numbers of a run's lines do not run ahead of its count, and a       *)
(* record that is still to be appended has no piece in the file.           *)
Ahead ==
    \A i \in 1..Len(file) :
        LET rec == file[i].rec
        IN /\ rec.seq <= count[rec.run]
           /\ stage[rec.run] = "buffered" => rec.seq < count[rec.run]

OrderInv == LogInv /\ RunInOrder /\ Ahead

LEMMA PieceType == ASSUME LogShape, NEW i \in 1..Len(file)
                   PROVE  file[i].rec.run \in Runs /\ file[i].rec.seq \in Nat
<1>1. file[i] \in Pieces
  BY DEF LogShape
<1> QED
  BY <1>1 DEF Pieces, Record

(* The next piece of a run's record goes after all its earlier ones.       *)
LEMMA AppendInOrder ==
    ASSUME OrderInv, NEW r \in Runs, NEW whole \in BOOLEAN,
           stage[r] = "buffered",
           file' = Append(file, Piece(Current(r), whole)),
           count' = count,
           \E to \in {"idle", "written"} : stage' = [stage EXCEPT ![r] = to]
    PROVE  RunInOrder' /\ Ahead'
<1>1. Piece(Current(r), whole) \in Pieces
  BY CurrentIsRecord DEF Piece, Pieces, OrderInv
<1>2. /\ Len(file') = Len(file) + 1
      /\ \A i \in 1..Len(file) : file'[i] = file[i]
      /\ file'[Len(file) + 1] = Piece(Current(r), whole)
  BY <1>1, AppendedLine DEF OrderInv, LogInv
<1>3. /\ Len(file) \in Nat
      /\ \A i \in 1..Len(file') : i \in 1..Len(file) \/ i = Len(file) + 1
  BY <1>2 DEF OrderInv, LogInv, LogShape
<1>4. LET rec == file'[Len(file) + 1].rec IN rec.run = r /\ rec.seq = count[r]
  BY <1>2 DEF Piece, Current
<1>5. /\ \A i \in 1..Len(file) : file[i].rec.run \in Runs /\ file[i].rec.seq \in Nat
      /\ count[r] \in Nat
  BY PieceType, LogAssumption DEF OrderInv, LogInv, LogShape
<1>6. \A i \in 1..Len(file) : file[i].rec.run = r => file[i].rec.seq < count[r]
  BY DEF OrderInv, Ahead
<1>7. RunInOrder'
  <2> SUFFICES ASSUME NEW i \in 1..Len(file'), NEW j \in 1..Len(file'),
                      i < j, file'[i].rec.run = file'[j].rec.run
               PROVE  file'[i].rec.seq < file'[j].rec.seq
    BY DEF RunInOrder
  <2>1. CASE j \in 1..Len(file)
    <3>1. i \in 1..Len(file)
      BY <1>3, <2>1
    <3> QED
      BY <1>2, <2>1, <3>1 DEF OrderInv, RunInOrder
  <2>2. CASE j = Len(file) + 1
    <3>1. i \in 1..Len(file)
      BY <1>2, <1>3, <2>2
    <3> QED
      BY <1>2, <1>4, <1>6, <2>2, <3>1
  <2> QED
    BY <1>3, <2>1, <2>2
<1>8. Ahead'
  <2> SUFFICES ASSUME NEW i \in 1..Len(file')
               PROVE  /\ file'[i].rec.seq <= count[file'[i].rec.run]
                      /\ stage'[file'[i].rec.run] = "buffered"
                            => file'[i].rec.seq < count[file'[i].rec.run]
    BY DEF Ahead
  <2>1. stage'[r] # "buffered" /\ \A q \in Runs \ {r} : stage'[q] = stage[q]
    BY DEF OrderInv, LogInv, LogShape
  <2>2. CASE i \in 1..Len(file)
    BY <1>2, <1>5, <2>1, <2>2 DEF OrderInv, Ahead
  <2>3. CASE i = Len(file) + 1
    BY <1>4, <1>5, <2>1, <2>3
  <2> QED
    BY <1>3, <2>2, <2>3
<1> QED
  BY <1>7, <1>8

LEMMA OrderInit == Init => OrderInv
  BY LogInit DEF Init, OrderInv, RunInOrder, Ahead

LEMMA OrderStep == OrderInv /\ [Next]_vars => OrderInv'
<1> SUFFICES ASSUME OrderInv, [Next]_vars
             PROVE  OrderInv'
  OBVIOUS
<1>1. LogInv'
  BY LogStep DEF OrderInv
<1>2. LogShape
  BY DEF OrderInv, LogInv
<1>3. ASSUME NEW r \in Runs, Buffer(r)
      PROVE  RunInOrder' /\ Ahead'
  <2>1. /\ file' = file
        /\ count' = [count EXCEPT ![r] = @ + 1]
        /\ stage' = [stage EXCEPT ![r] = "buffered"]
    BY <1>3 DEF Buffer
  <2>2. RunInOrder'
    BY <2>1 DEF OrderInv, RunInOrder
  <2>3. ASSUME NEW i \in 1..Len(file)
        PROVE  LET rec == file[i].rec
               IN /\ rec.seq <= count'[rec.run]
                  /\ stage'[rec.run] = "buffered" => rec.seq < count'[rec.run]
    <3>1. /\ file[i].rec.run \in Runs /\ file[i].rec.seq \in Nat
          /\ count[file[i].rec.run] \in Nat
          /\ file[i].rec.seq <= count[file[i].rec.run]
          /\ stage[file[i].rec.run] = "buffered"
                => file[i].rec.seq < count[file[i].rec.run]
      BY <1>2, PieceType, LogAssumption DEF OrderInv, Ahead, LogShape
    <3>2. CASE file[i].rec.run = r
      BY <1>2, <2>1, <3>1, <3>2 DEF LogShape
    <3>3. CASE file[i].rec.run # r
      BY <1>2, <2>1, <3>1, <3>3 DEF LogShape
    <3> QED
      BY <3>2, <3>3
  <2>4. Ahead'
    BY <2>1, <2>3 DEF Ahead
  <2> QED
    BY <2>2, <2>4
<1>4. ASSUME NEW r \in Runs, AppendLine(r)
      PROVE  RunInOrder' /\ Ahead'
  BY <1>4, AppendInOrder DEF AppendLine
<1>5. ASSUME NEW r \in Runs, Sync(r) \/ SyncFails(r) \/ (AppendFails(r) /\ file' = file)
      PROVE  RunInOrder' /\ Ahead'
  <2>1. /\ file' = file /\ count' = count
        /\ stage' = [stage EXCEPT ![r] = "idle"]
    BY <1>5 DEF Sync, SyncFails, AppendFails, Raise
  <2>2. RunInOrder'
    BY <2>1 DEF OrderInv, RunInOrder
  <2>3. Ahead'
    BY <1>2, <2>1, PieceType DEF OrderInv, Ahead, LogShape
  <2> QED
    BY <2>2, <2>3
<1>6. ASSUME NEW r \in Runs, AppendFails(r), file' # file
      PROVE  RunInOrder' /\ Ahead'
  <2>1. /\ stage[r] = "buffered"
        /\ file' = Append(file, Piece(Current(r), FALSE))
        /\ count' = count
        /\ stage' = [stage EXCEPT ![r] = "idle"]
    BY <1>6 DEF AppendFails, Raise
  <2> QED
    BY <2>1, AppendInOrder
<1>7. CASE Crash
  <2>1. /\ Len(file') <= Len(file)
        /\ \A i \in 1..Len(file') : file'[i].rec = file[i].rec
    BY <1>2, <1>7, CrashKeepsPlaces
  <2>2. Len(file') \in Nat /\ Len(file) \in Nat
    BY <1>1, <1>2 DEF LogInv, LogShape
  <2>3. RunInOrder'
    BY <2>1, <2>2 DEF OrderInv, RunInOrder
  <2>4. count' = count /\ \A q \in Runs : stage'[q] # "buffered"
    BY <1>7 DEF Crash
  <2>5. Ahead'
    <3> SUFFICES ASSUME NEW i \in 1..Len(file')
                 PROVE  /\ file'[i].rec.seq <= count'[file'[i].rec.run]
                        /\ stage'[file'[i].rec.run] # "buffered"
      BY DEF Ahead
    <3>1. i \in 1..Len(file) /\ file'[i].rec = file[i].rec
      BY <2>1, <2>2
    <3> QED
      BY <1>2, <2>4, <3>1, PieceType DEF OrderInv, Ahead
  <2> QED
    BY <1>1, <2>3, <2>5 DEF OrderInv
<1>8. CASE UNCHANGED vars
  BY <1>1, <1>8 DEF vars, OrderInv, RunInOrder, Ahead
<1> QED
  BY <1>1, <1>3, <1>4, <1>5, <1>6, <1>7, <1>8 DEF Next, OrderInv

(* The lines of one run are in the order of its writes and no record has   *)
(* two, torn lines included, however the threads' appends, failures and    *)
(* crashes are interleaved.                                                *)
THEOREM RunsAreInOrder == Spec => []RunInOrder
<1>1. OrderInv => RunInOrder
  BY DEF OrderInv
<1> QED
  BY <1>1, OrderInit, OrderStep, PTL DEF Spec

----------------------------------------------------------------------------
(* The types of what LogShape leaves out. *)
BufferShape ==
    /\ buffer \in Seq(Record)
    /\ acked \subseteq Record
    /\ raised \subseteq Record
    /\ crashes \in 0..MaxCrashes

(* A buffered record has its line, or its write is still to append it, for *)
(* as long as no write of this process has raised.                         *)
Pending ==
    raised = {} =>
        \A i \in 1..Len(buffer) :
            \/ buffer[i] \in LinesUpTo(Len(file))
            \/ /\ stage[buffer[i].run] = "buffered"
               /\ buffer[i] = Current(buffer[i].run)

BufferInv == LogInv /\ BufferShape /\ Pending

LEMMA BufferInit == Init => BufferInv
  BY LogInit, LogAssumption DEF Init, BufferInv, BufferShape, Pending

(* A step that adds nothing to the buffer and raises nothing. *)
LEMMA PendingKept ==
    ASSUME BufferInv, UNCHANGED <<buffer, raised, count>>, NEW r \in Runs,
           \A q \in Runs \ {r} : stage'[q] = stage[q],
           LinesUpTo(Len(file)) \subseteq LinesUpTo(Len(file))',
           stage[r] = "buffered" => Current(r) \in LinesUpTo(Len(file))'
    PROVE  Pending'
<1> SUFFICES ASSUME raised = {}, NEW i \in 1..Len(buffer),
                    buffer[i] \notin LinesUpTo(Len(file))'
             PROVE  /\ stage'[buffer[i].run] = "buffered"
                    /\ buffer[i] = Current(buffer[i].run)'
  BY DEF Pending
<1>1. /\ stage[buffer[i].run] = "buffered"
      /\ buffer[i] = Current(buffer[i].run)
  BY DEF BufferInv, Pending
<1>2. buffer[i].run \in Runs
  <2>1. buffer[i] \in Record
    BY DEF BufferInv, BufferShape
  <2> QED
    BY <2>1 DEF Record
<1>3. buffer[i].run # r
  BY <1>1
<1> QED
  BY <1>1, <1>2, <1>3 DEF Current

LEMMA BufferStep == BufferInv /\ [Next]_vars => BufferInv'
<1> SUFFICES ASSUME BufferInv, [Next]_vars
             PROVE  BufferInv'
  OBVIOUS
<1>1. LogInv' /\ LogInv /\ LogShape
  BY LogStep DEF BufferInv, LogInv
<1>2. ASSUME NEW r \in Runs, Buffer(r)
      PROVE  BufferShape' /\ Pending'
  <2> DEFINE rec == [run |-> r, seq |-> count[r] + 1]
  <2>1. /\ stage[r] = "idle" /\ count[r] < MaxWrites
        /\ file' = file
        /\ count' = [count EXCEPT ![r] = @ + 1]
        /\ stage' = [stage EXCEPT ![r] = "buffered"]
        /\ buffer' = Append(buffer, rec)
        /\ UNCHANGED <<acked, raised, crashes>>
    BY <1>2 DEF Buffer
  <2>2. rec \in Record /\ rec.run = r /\ rec = Current(r)'
    BY <1>1, <2>1, LogAssumption DEF Record, LogShape, Current
  <2> HIDE DEF rec
  <2>3. buffer \in Seq(Record)
    BY DEF BufferInv, BufferShape
  <2>4. /\ buffer' \in Seq(Record)
        /\ Len(buffer') = Len(buffer) + 1
        /\ \A i \in 1..Len(buffer) : buffer'[i] = buffer[i]
        /\ buffer'[Len(buffer) + 1] = rec
    BY <2>1, <2>2, <2>3, AppendProperties
  <2>5. BufferShape'
    BY <2>1, <2>4 DEF BufferInv, BufferShape
  <2>6. LinesUpTo(Len(file))' = LinesUpTo(Len(file))
    BY <2>1 DEF LinesUpTo
  <2>7. stage'[r] = "buffered"
        /\ \A q \in Runs \ {r} : stage'[q] = stage[q] /\ Current(q)' = Current(q)
    BY <1>1, <2>1 DEF LogShape, Current
  <2>8. Pending'
    <3> SUFFICES ASSUME raised = {}, NEW i \in 1..Len(buffer')
                 PROVE  \/ buffer'[i] \in LinesUpTo(Len(file))'
                        \/ /\ stage'[buffer'[i].run] = "buffered"
                           /\ buffer'[i] = [run |-> buffer'[i].run,
                                            seq |-> count'[buffer'[i].run]]
      BY <2>1 DEF Pending, Current
    <3>1. CASE i \in 1..Len(buffer)
      <4>1. buffer[i].run \in Runs
        <5>1. buffer[i] \in Record
          BY <2>3, <3>1
        <5> QED
          BY <5>1 DEF Record
      <4>2. \/ buffer[i] \in LinesUpTo(Len(file))
            \/ /\ stage[buffer[i].run] = "buffered"
               /\ buffer[i] = Current(buffer[i].run)
        BY <3>1 DEF BufferInv, Pending
      <4>3. CASE buffer[i] \in LinesUpTo(Len(file))
        BY <2>4, <2>6, <3>1, <4>3
      <4>4. CASE /\ stage[buffer[i].run] = "buffered"
                 /\ buffer[i] = Current(buffer[i].run)
        <5>1. buffer[i].run # r
          BY <2>1, <4>4
        <5> QED
          BY <2>4, <2>7, <3>1, <4>1, <4>4, <5>1 DEF Current
      <4> QED
        BY <4>2, <4>3, <4>4
    <3>2. CASE i = Len(buffer) + 1
      BY <2>2, <2>4, <2>7, <3>2 DEF Current
    <3> QED
      BY <2>3, <2>4, <3>1, <3>2
  <2> QED
    BY <2>5, <2>8
<1>3. ASSUME NEW r \in Runs, AppendLine(r)
      PROVE  BufferShape' /\ Pending'
  <2>1. /\ stage[r] = "buffered"
        /\ file' = Append(file, Piece(Current(r), TRUE))
        /\ stage' = [stage EXCEPT ![r] = "written"]
        /\ UNCHANGED <<buffer, count, acked, raised, crashes>>
    BY <1>3 DEF AppendLine
  <2>2. Piece(Current(r), TRUE) \in Pieces
    BY <1>1, <2>1, CurrentIsRecord DEF Piece, Pieces
  <2>3. /\ Len(file') = Len(file) + 1
        /\ file'[Len(file) + 1] = Piece(Current(r), TRUE)
        /\ LinesUpTo(Len(file)) \subseteq LinesUpTo(Len(file))'
    BY <1>1, <2>1, <2>2, AppendedLine
  <2>4. Current(r) \in LinesUpTo(Len(file))'
    BY <1>1, <2>3 DEF LinesUpTo, Piece, LogShape
  <2>5. \A q \in Runs \ {r} : stage'[q] = stage[q]
    BY <1>1, <2>1 DEF LogShape
  <2>6. Pending'
    BY <2>1, <2>3, <2>4, <2>5, PendingKept
  <2> QED
    BY <2>1, <2>6 DEF BufferInv, BufferShape
<1>4. ASSUME NEW r \in Runs, Sync(r)
      PROVE  BufferShape' /\ Pending'
  <2>1. /\ stage[r] = "written"
        /\ file' = file
        /\ stage' = [stage EXCEPT ![r] = "idle"]
        /\ acked' = acked \cup {Current(r)}
        /\ UNCHANGED <<buffer, count, raised, crashes>>
    BY <1>4 DEF Sync
  <2>2. Current(r) \in Record
    BY <1>1, <2>1, CurrentIsRecord
  <2>3. LinesUpTo(Len(file))' = LinesUpTo(Len(file))
    BY <2>1 DEF LinesUpTo
  <2>4. \A q \in Runs \ {r} : stage'[q] = stage[q]
    BY <1>1, <2>1 DEF LogShape
  <2>5. Pending'
    BY <2>1, <2>3, <2>4, PendingKept
  <2> QED
    BY <2>1, <2>2, <2>5 DEF BufferInv, BufferShape
<1>5. ASSUME NEW r \in Runs, AppendFails(r) \/ SyncFails(r)
      PROVE  BufferShape' /\ Pending'
  <2>1. /\ stage[r] \in {"buffered", "written"}
        /\ raised' = raised \cup {Current(r)}
        /\ UNCHANGED <<buffer, acked, crashes>>
    BY <1>5 DEF AppendFails, SyncFails, Raise
  <2>2. Current(r) \in Record
    BY <1>1, <2>1, CurrentIsRecord
  <2>3. raised' # {}
    BY <2>1
  <2> QED
    BY <2>1, <2>2, <2>3 DEF BufferInv, BufferShape, Pending
<1>6. CASE Crash
  <2>1. /\ buffer' = << >> /\ raised' = {}
        /\ crashes < MaxCrashes /\ crashes' = crashes + 1
        /\ acked' = acked
    BY <1>6 DEF Crash
  <2>2. BufferShape'
    BY <2>1, LogAssumption DEF BufferInv, BufferShape
  <2>3. Pending'
    BY <2>1 DEF Pending
  <2> QED
    BY <1>1, <2>2, <2>3 DEF BufferInv
<1>7. CASE UNCHANGED vars
  BY <1>1, <1>7 DEF vars, BufferInv, BufferShape, Pending, LinesUpTo, Current
<1> QED
  BY <1>1, <1>2, <1>3, <1>4, <1>5, <1>6, <1>7 DEF Next, BufferInv

(* Type correctness. *)
THEOREM LogTypeCorrect == Spec => []TypeOK
<1>1. BufferInv => TypeOK
  BY DEF BufferInv, LogInv, LogShape, BufferShape, TypeOK, Pieces
<1> QED
  BY <1>1, BufferInit, BufferStep, PTL DEF Spec

(* What the process reports from memory between its writes is on file, as  *)
(* long as none of its writes has raised.                                  *)
THEOREM BufferIsHonest == Spec => []BufferIsOnFile
<1>1. BufferInv => BufferIsOnFile
  BY DEF BufferInv, Pending, BufferIsOnFile
<1> QED
  BY <1>1, BufferInit, BufferStep, PTL DEF Spec
=============================================================================
