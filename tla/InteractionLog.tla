--------------------------- MODULE InteractionLog ---------------------------
(***************************************************************************)
(* The interaction log (fsa_telemetry/interactions.py) and its reader      *)
(* (scripts/trace.py).  Request threads call write() without a lock; each  *)
(* call appends to an in-memory buffer, then to a JSONL file it opens,     *)
(* flushes and fsyncs.                                                     *)
(*                                                                         *)
(* The file is a sequence of pieces.  A whole piece is one record's line   *)
(* with its newline; a torn piece is the beginning of a line, without a    *)
(* newline, left by a write that stopped part way.  A line in the page     *)
(* cache is durable once an fsync has covered it.                          *)
(***************************************************************************)
EXTENDS Naturals, Sequences

CONSTANTS
    Runs,       \* run ids; a run is one request on one thread
    MaxWrites,  \* bound: write() calls of a run
    MaxCrashes  \* bound: crashes of the machine or the process

ASSUME LogAssumption == MaxWrites \in Nat /\ MaxCrashes \in Nat

Record == [run : Runs, seq : 1..MaxWrites]

VARIABLES
    buffer,   \* InteractionLog._buffer
    file,     \* the file: pieces [rec, whole]
    synced,   \* how many pieces an fsync has made durable
    stage,    \* stage[r]: how far the write() of run r has come
    count,    \* count[r]: write() calls run r has begun
    acked,    \* records whose write() has returned
    raised,   \* records of this process whose write() has raised
    crashes   \* crashes so far

vars == <<buffer, file, synced, stage, count, acked, raised, crashes>>

Stages == {"idle", "buffered", "written", "dead"}

(* Mutant: a record is numbered past its own. *)
CurrentOffByOne(r) == [run |-> r, seq |-> count[r] + 1]

Current(r) == [run |-> r, seq |-> count[r]]

Piece(rec, whole) == [rec |-> rec, whole |-> whole]

(* The records that have a line of their own in the first n pieces. *)
LinesUpTo(n) == {file[i].rec : i \in {j \in 1..n : file[j].whole}}

----------------------------------------------------------------------------
Init ==
    /\ buffer = <<>>
    /\ file = <<>>
    /\ synced = 0
    /\ stage = [r \in Runs |-> "idle"]
    /\ count = [r \in Runs |-> 0]
    /\ acked = {}
    /\ raised = {}
    /\ crashes = 0

(* write() up to the buffer: the record is copied and redacted, turned     *)
(* into a line (a stand-in line when it cannot be serialised, so this      *)
(* never raises), and buffered.                                            *)
Buffer(r) ==
    /\ stage[r] = "idle"
    /\ count[r] < MaxWrites
    /\ count' = [count EXCEPT ![r] = @ + 1]
    /\ buffer' = Append(buffer, [run |-> r, seq |-> count[r] + 1])
    /\ stage' = [stage EXCEPT ![r] = "buffered"]
    /\ UNCHANGED <<file, synced, acked, raised, crashes>>

(* Mutant: the file is opened for writing, not for appending. *)
AppendLineTruncates(r) ==
    /\ stage[r] = "buffered"
    /\ file' = <<Piece(Current(r), TRUE)>>
    /\ synced' = 0
    /\ stage' = [stage EXCEPT ![r] = "written"]
    /\ UNCHANGED <<buffer, count, acked, raised, crashes>>

(* The line is appended to the file; O_APPEND puts it after whatever other *)
(* threads have appended.                                                  *)
AppendLine(r) ==
    /\ stage[r] = "buffered"
    /\ file' = Append(file, Piece(Current(r), TRUE))
    /\ stage' = [stage EXCEPT ![r] = "written"]
    /\ UNCHANGED <<buffer, synced, count, acked, raised, crashes>>

(* Mutant: write() returns after the flush, without an fsync. *)
SyncSkipped(r) ==
    /\ stage[r] = "written"
    /\ acked' = acked \cup {Current(r)}
    /\ stage' = [stage EXCEPT ![r] = "idle"]
    /\ UNCHANGED <<buffer, file, synced, count, raised, crashes>>

(* fsync returns and so does write(). *)
Sync(r) ==
    /\ stage[r] = "written"
    /\ synced' = Len(file)
    /\ acked' = acked \cup {Current(r)}
    /\ stage' = [stage EXCEPT ![r] = "idle"]
    /\ UNCHANGED <<buffer, file, count, raised, crashes>>

(* Mutant: the log falls back to memory when the disk refuses the line. *)
RaiseSwallowed(r) ==
    /\ stage' = [stage EXCEPT ![r] = "idle"]
    /\ UNCHANGED <<buffer, synced, count, acked, raised, crashes>>

(* open, write or fsync raises OSError, which write() does not catch: the  *)
(* line is missing, torn (a full disk takes only its beginning), or whole. *)
Raise(r) ==
    /\ raised' = raised \cup {Current(r)}
    /\ stage' = [stage EXCEPT ![r] = "idle"]
    /\ UNCHANGED <<buffer, synced, count, acked, crashes>>

(* Mutant: an append that failed is tried once more before it raises. *)
AppendFailsAfterRetry(r) ==
    /\ stage[r] = "buffered"
    /\ file' = file \o <<Piece(Current(r), FALSE), Piece(Current(r), TRUE)>>
    /\ Raise(r)

AppendFails(r) ==
    /\ stage[r] = "buffered"
    /\ \/ UNCHANGED file
       \/ file' = Append(file, Piece(Current(r), FALSE))
    /\ Raise(r)

SyncFails(r) ==
    /\ stage[r] = "written"
    /\ UNCHANGED file
    /\ Raise(r)

(* The process dies; its buffer goes with it and runs it had begun never   *)
(* write again.  Of the lines no fsync covered, a prefix survives, and the *)
(* first line lost may leave its beginning; the next process finds on disk *)
(* what is there.                                                          *)
Crash ==
    /\ crashes < MaxCrashes
    /\ crashes' = crashes + 1
    /\ \E n \in synced..Len(file) :
          \/ file' = SubSeq(file, 1, n)
          \/ /\ n < Len(file)
             /\ file' = Append(SubSeq(file, 1, n), Piece(file[n + 1].rec, FALSE))
    /\ synced' = Len(file')
    /\ buffer' = <<>>
    /\ raised' = {}
    /\ stage' = [r \in Runs |-> IF count[r] = 0 THEN "idle" ELSE "dead"]
    /\ UNCHANGED <<count, acked>>

Next ==
    \/ \E r \in Runs :
          \/ Buffer(r)
          \/ AppendLine(r)
          \/ Sync(r)
          \/ AppendFails(r)
          \/ SyncFails(r)
    \/ Crash

Spec == Init /\ [][Next]_vars

----------------------------------------------------------------------------
(* trace.py load(): the file is split at its newlines and a line that is   *)
(* not JSON is skipped.  A torn piece has no newline, so it spoils itself  *)
(* and the line that follows it.                                           *)
Readable ==
    {file[i].rec : i \in {j \in 1..Len(file) :
                             file[j].whole /\ (j = 1 \/ file[j - 1].whole)}}

TypeOK ==
    /\ buffer \in Seq(Record)
    /\ file \in Seq([rec : Record, whole : BOOLEAN])
    /\ synced \in 0..Len(file)
    /\ stage \in [Runs -> Stages]
    /\ count \in [Runs -> 0..MaxWrites]
    /\ acked \subseteq Record
    /\ raised \subseteq Record
    /\ crashes \in 0..MaxCrashes

(* A record whose write() returned has its line in the part of the file    *)
(* that no crash can take, and keeps it: "an audit log the page cache can  *)
(* lose is not one".                                                       *)
Audit == INSTANCE AuditLog WITH
            Entries <- Record, stored <- LinesUpTo(synced), promised <- acked

ImplementsAuditLog == Audit!Spec

(* Append-only, as the disk sees it: what is durable stays, in place.      *)
AppendOnly ==
    [][synced' >= synced /\ SubSeq(file', 1, synced) = SubSeq(file, 1, synced)]_vars

(* The lines of one run are in the order its stages wrote them, and no     *)
(* record has two: trace.py reassembles a run's timeline from them.        *)
RunInOrder ==
    \A i, j \in 1..Len(file) :
        i < j /\ file[i].rec.run = file[j].rec.run
            => file[i].rec.seq < file[j].rec.seq

(* Between writes, and as long as none of this process raised, what the    *)
(* process reports from memory is what it wrote: every buffered record has *)
(* its line, whole.                                                        *)
BufferIsOnFile ==
    raised = {} =>
        \A i \in 1..Len(buffer) :
            stage[buffer[i].run] = "idle" => buffer[i] \in LinesUpTo(Len(file))

(* trace.py:43-44: "A torn final line means the process died mid-write.    *)
(* Skip it rather than refusing to show the 900 good records before it" -  *)
(* so a record that was written and acknowledged is one the reader shows.  *)
AckedIsReadable == acked \subseteq Readable
=============================================================================
