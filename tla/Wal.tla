-------------------------------- MODULE Wal --------------------------------
(***************************************************************************)
(* The segment of the write-ahead log, unit by unit: what append hands to  *)
(* the buffered writer, what of it reaches the file, and what replay makes *)
(* of the file after a crash (src/engine/wal.rs).                          *)
(*                                                                         *)
(* A unit is two bytes.  An entry is two units of magic, one of version,   *)
(* two of length, the payload and two of checksum.  The log is one         *)
(* segment: segment_number stays 0, because find_latest_segment looks for  *)
(* the only file there ever is.  How truncate runs into appends of other   *)
(* tasks is in module StorageEngine.                                       *)
(***************************************************************************)
EXTENDS Naturals, Sequences, FiniteSets

CONSTANTS
  Frames,       \* the frames to be logged, each at most once
  Size,         \* units of a frame's serialized form
  Capacity,     \* units the BufWriter holds (8 KiB)
  None,
  MaxCrashes,   \* bound: crashes of the process
  MaxPowerCuts, \* bound: losses of what was not synced
  MaxDiskFull   \* bound: writes the file system refuses

ASSUME SizeAssumption == Size \in [Frames -> Nat \ {0}]
\* No part of an entry but the payload is as large as the buffer.
ASSUME CapacityAssumption == Capacity \in Nat /\ Capacity > 2
ASSUME NoneAssumption == None \notin Frames
ASSUME BoundsAssumption == MaxCrashes \in Nat /\ MaxPowerCuts \in Nat /\ MaxDiskFull \in Nat

VARIABLES
  file,     \* the units in the segment file
  synced,   \* how many of them a loss of power leaves
  buffer,   \* the units in the BufWriter
  writing,  \* the frame append is working on, None while current_segment is not locked
  calls,    \* the slices it has still to write
  up,       \* the process runs
  memtable, \* the frames it serves: replayed at its start, then inserted by write
  owed,     \* history: frames whose append returned Ok, not in a table yet
  durable,  \* history: those of owed that a sync has covered
  torn,     \* history: a start has found an entry cut short
  unsure,   \* history: frames whose append failed or was cut short, or that power has taken
  begun, crashes, powerCuts, diskFull

segment == <<file, synced, buffer>>
limits == <<begun, crashes, powerCuts, diskFull>>
vars == <<segment, writing, calls, up, memtable, owed, durable, torn, unsure, limits>>

----------------------------------------------------------------------------
(* Entries                                                                 *)

Unit(part, index, of) == [part |-> part, index |-> index, of |-> of]
Magic == <<Unit("magic", 1, None), Unit("magic", 2, None)>>
Version == <<Unit("version", 1, None)>>
\* A payload is far below 64 KiB, so the upper half of its length is 0.
Length(f) == <<Unit("length", Size[f], None), Unit("length", 0, None)>>
Payload(f) == [i \in 1..Size[f] |-> Unit("payload", i, f)]
Checksum(f) == <<Unit("checksum", 1, f), Unit("checksum", 2, f)>>
\* The slices append passes to write_all.
Slices(f) == <<Magic, Version, Length(f), Payload(f), Checksum(f)>>
Entry(f) == Magic \o Version \o Length(f) \o Payload(f) \o Checksum(f)

----------------------------------------------------------------------------
(* replay_segment                                                          *)

Stop == [ok |-> TRUE, frames |-> <<>>]     \* break
Failure == [ok |-> FALSE, frames |-> <<>>] \* `?`
\* The length two units stand for.  Units of other parts read as a length make 85071
\* bytes or more, which is beyond the end of any file of the model.
LengthRead(low, high, beyond) ==
  IF low.part = "length" /\ high = Unit("length", 0, None) THEN low.index ELSE beyond

Verified_NoChecksum(s, i, size) ==
  {f \in Frames : SubSeq(s, i, i + size + 2) = Version \o Length(f) \o Payload(f)}
\* The frames whose version, length, payload and checksum lie in s from i on.
Verified(s, i, size) ==
  {f \in Frames : SubSeq(s, i, i + size + 4) = Version \o Length(f) \o Payload(f) \o Checksum(f)}

\* Each entry by read_exact, from unit i: the end of the file in place of a magic or a
\* version ends the replay, further on it is an error; a wrong magic ends it too; after
\* a wrong checksum the next magic is expected behind the units just read.  from[k] is
\* what comes of the units from k on.
ReplayFrom(s, i, from) ==
  LET end == Len(s)
  IN IF i + 1 > end \/ SubSeq(s, i, i + 1) # Magic \/ i + 2 > end
     THEN Stop
     ELSE IF i + 4 > end
     THEN Failure
     ELSE LET size == LengthRead(s[i + 3], s[i + 4], end)
          IN IF i + size + 6 > end
             THEN Failure
             ELSE LET rest == from[i + size + 7]
                      found == Verified(s, i + 2, size)
                  IN IF found = {} THEN rest
                     ELSE [rest EXCEPT !.frames = <<CHOOSE f \in found : TRUE>> \o @]
ReplaySegment(s) ==
  LET from[i \in 1..(Len(s) + 1)] == ReplayFrom(s, i, from)
  IN from[1]

\* WriteAheadLog::replay logs the error of a segment and goes on without its frames.
Replay(s) ==
  LET result == ReplaySegment(s)
  IN IF result.ok THEN {result.frames[i] : i \in DOMAIN result.frames} ELSE {}

----------------------------------------------------------------------------
(* append                                                                  *)

AppendBegin(f) ==
  /\ up /\ writing = None
  /\ f \notin begun
  /\ begun' = begun \union {f}
  /\ writing' = f
  /\ calls' = Slices(f)
  /\ UNCHANGED <<segment, up, memtable, owed, durable, torn, unsure, crashes, powerCuts, diskFull>>

Appending == up /\ writing # None
Spare == Capacity - Len(buffer)

\* BufWriter::write_all of a slice that fits.
WriteBuffered ==
  /\ Appending /\ calls # <<>>
  /\ Len(Head(calls)) <= Spare /\ Len(Head(calls)) < Capacity
  /\ buffer' = buffer \o Head(calls)
  /\ calls' = Tail(calls)
  /\ UNCHANGED <<file, synced, writing, up, memtable, owed, durable, torn, unsure, limits>>

\* BufWriter::flush_buf, because the next slice does not fit.
MustSpill == Appending /\ calls # <<>> /\ buffer # <<>> /\ Len(Head(calls)) > Spare
WriteSpill ==
  /\ MustSpill
  /\ file' = file \o buffer
  /\ buffer' = <<>>
  /\ UNCHANGED <<synced, writing, calls, up, memtable, owed, durable, torn, unsure, limits>>

\* A slice of the size of the buffer or more goes to the file as it is.
Direct == Appending /\ calls # <<>> /\ buffer = <<>> /\ Len(Head(calls)) >= Capacity
WriteDirect ==
  /\ Direct
  /\ file' = file \o Head(calls)
  /\ calls' = Tail(calls)
  /\ UNCHANGED <<synced, buffer, writing, up, memtable, owed, durable, torn, unsure, limits>>

Flushed_Kept == file
\* What the file holds after a flush.
Flushed == file \o buffer
Flushing == Appending /\ calls = <<>>
\* The flush at the end of append, and the insert that StorageEngine::write does next.
AppendFlush ==
  /\ Flushing
  /\ file' = Flushed
  /\ buffer' = <<>>
  /\ writing' = None
  /\ memtable' = memtable \union {writing}
  /\ owed' = owed \union {writing}
  /\ UNCHANGED <<synced, calls, up, durable, torn, unsure, limits>>

\* What the next write to the file is given.
Pending == IF Direct THEN Head(calls) ELSE buffer
\* The file takes the first n units of it and then no more: append returns the error, and
\* the BufWriter keeps what it could not write, but not the slice at hand.
DiskFull(n) ==
  /\ diskFull < MaxDiskFull
  /\ diskFull' = diskFull + 1
  /\ MustSpill \/ Direct \/ Flushing
  /\ file' = file \o SubSeq(Pending, 1, n)
  /\ buffer' = IF Direct THEN buffer ELSE SubSeq(buffer, n + 1, Len(buffer))
  /\ calls' = <<>>
  /\ writing' = None
  /\ unsure' = unsure \union {writing}
  /\ UNCHANGED <<synced, up, memtable, owed, durable, torn, begun, crashes, powerCuts>>

----------------------------------------------------------------------------
(* truncate and sync                                                       *)

SyncedAfterTruncate_Kept == synced
SyncedAfterTruncate == 0
\* flush_memtable has put the memtable into a table.  The old BufWriter writes what it
\* still holds to the unlinked file when it is dropped.
Truncate ==
  /\ up /\ writing = None
  /\ file' = <<>>
  /\ synced' = SyncedAfterTruncate
  /\ buffer' = <<>>
  /\ memtable' = {}
  /\ owed' = {}
  /\ durable' = {}
  /\ torn' = FALSE
  /\ unsure' = {}
  /\ UNCHANGED <<writing, calls, up, limits>>

\* Called by StorageEngine::shutdown and by nothing else: the sync interval of the
\* configuration has no user.
Sync ==
  /\ up /\ writing = None
  /\ file' = Flushed
  /\ buffer' = <<>>
  /\ synced' = Len(file')
  /\ durable' = owed
  /\ UNCHANGED <<writing, calls, up, memtable, owed, torn, unsure, limits>>

----------------------------------------------------------------------------
(* The end of a process, and the next one                                  *)

Down ==
  /\ up /\ up' = FALSE
  /\ writing' = None
  /\ calls' = <<>>
  /\ buffer' = <<>>
  /\ memtable' = {}
  /\ UNCHANGED <<torn, begun, diskFull>>

\* The page cache outlives the process.
Crash ==
  /\ crashes < MaxCrashes
  /\ crashes' = crashes + 1
  /\ Down
  /\ unsure' = unsure \union ({writing} \ {None})
  /\ UNCHANGED <<file, synced, owed, durable, powerCuts>>

\* A prefix of the file survives, no shorter than what was synced.
PowerCut ==
  /\ powerCuts < MaxPowerCuts
  /\ powerCuts' = powerCuts + 1
  /\ Down
  /\ \E n \in synced..Len(file) : file' = SubSeq(file, 1, n) /\ synced' = n
  /\ owed' = durable
  /\ unsure' = unsure \union (owed \ durable) \union ({writing} \ {None})
  /\ UNCHANGED <<durable, crashes>>

\* The file is a series of entries and nothing else.
WholeFrom(s, i, from) ==
  \/ i = Len(s) + 1
  \/ \E f \in Frames : LET next == i + Len(Entry(f))
                       IN /\ next <= Len(s) + 1
                          /\ SubSeq(s, i, next - 1) = Entry(f)
                          /\ from[next]
Whole(s) ==
  LET from[i \in 1..(Len(s) + 1)] == WholeFrom(s, i, from)
  IN from[1]

\* StorageEngine::new: open in append mode behind whatever is there, replay, insert.
Restart ==
  /\ ~up
  /\ up' = TRUE
  /\ memtable' = Replay(file)
  /\ torn' = (torn \/ ~Whole(file))
  /\ UNCHANGED <<segment, writing, calls, owed, durable, unsure, limits>>

----------------------------------------------------------------------------

Init ==
  /\ file = <<>> /\ synced = 0 /\ buffer = <<>>
  /\ writing = None /\ calls = <<>>
  /\ up = TRUE /\ memtable = {}
  /\ owed = {} /\ durable = {} /\ torn = FALSE /\ unsure = {}
  /\ begun = {} /\ crashes = 0 /\ powerCuts = 0 /\ diskFull = 0

Next ==
  \/ \E f \in Frames : AppendBegin(f)
  \/ WriteBuffered \/ WriteSpill \/ WriteDirect \/ AppendFlush
  \/ \E n \in 0..(Len(Pending) - 1) : DiskFull(n)
  \/ Truncate \/ Sync \/ Crash \/ PowerCut \/ Restart

Spec == Init /\ [][Next]_vars

----------------------------------------------------------------------------
(* Properties                                                              *)

Parts == {"magic", "version", "length", "payload", "checksum"}
SlicesFrom(f, i) == SubSeq(Slices(f), i, Len(Slices(f)))
SlicesLeft == {<<>>} \union {SlicesFrom(f, i) : f \in Frames, i \in 1..5}
\* The variables have their types, and no more is synced than there is.
WalTypeOK ==
  /\ \A i \in DOMAIN file : file[i].part \in Parts
  /\ \A i \in DOMAIN buffer : buffer[i].part \in Parts
  /\ synced \in 0..Len(file) /\ Len(buffer) <= Capacity
  /\ writing \in Frames \union {None} /\ calls \in SlicesLeft
  /\ up \in BOOLEAN /\ torn \in BOOLEAN
  /\ memtable \subseteq Frames /\ begun \subseteq Frames
  /\ durable \subseteq owed /\ owed \subseteq begun /\ unsure \subseteq begun

\* Every frame whose append returned Ok, and that no table holds, is served: before a
\* crash, and after a restart that found the segment uncut.  After a loss of power this
\* is owed for synced frames only.
IntactLogServed == up /\ ~torn => owed \subseteq memtable

Complete(s) ==
  {f \in Frames : \E i \in DOMAIN s : /\ i + Len(Entry(f)) <= Len(s) + 1
                                     /\ SubSeq(s, i, i + Len(Entry(f)) - 1) = Entry(f)}
\* Whatever follows the whole entries at the front of a segment, a start replays all of
\* them or none, and nothing whose entry is not complete somewhere in the file.
ReplayAllOrNothing ==
  ~up => /\ Replay(file) \subseteq Complete(file)
         /\ \A n \in 0..Len(file) :
              LET front == SubSeq(file, 1, n)
              IN Whole(front) => Replay(file) = {} \/ Replay(front) \subseteq Replay(file)

\* The log, unit by unit, keeps the promise of a log of whole entries: an append is in it
\* as one step, when it returns Ok; only an append that failed, or that a crash or a loss
\* of power cut short, may be in it or not; and until there is one of those a start finds
\* nothing cut and serves exactly what is logged.
Log == INSTANCE DurableLog WITH
         pending <- writing, logged <- owed, synced <- durable,
         doubtful <- unsure, served <- memtable, damaged <- torn
ImplementsLog == Log!Spec

----------------------------------------------------------------------------
\* README.md: "Crash Recovery: CRC32-checksummed WAL entries with automatic replay".  The
\* same as IntactLogServed, but for any segment.
LogServed == up => owed \subseteq memtable

=============================================================================
