------------------------------ MODULE SSTable ------------------------------
(***************************************************************************)
(* One SSTable file: how it is written entry by entry with its header      *)
(* last, what a crash leaves of it, and what a reader answers from it      *)
(* (src/engine/sstable.rs, src/util/bloom.rs, the keys of memtable.rs).    *)
(*                                                                         *)
(* A device is the number of its normalized name in the order of names.    *)
(* Bytes, compression and checksums are left out: a file is never changed  *)
(* once it is finished, and a crash of the process keeps what was written. *)
(***************************************************************************)
EXTENDS Integers, Sequences, FiniteSets, SequencesExt

CONSTANTS
  Devices,    \* normalized names, as numbers
  Times,
  Sequence,   \* the sequence numbers of frames of one device and time
  Apps,       \* the applications of frames
  NoApp,      \* that of a join
  Hashes,     \* the positions in the bloom filter's bits of each device
  MaxEntries  \* bound: entries of the table

ASSUME DevicesAssumption == Devices \subseteq Nat
ASSUME HashesAssumption == \A d \in Devices : Hashes[d] # {}
ASSUME MaxEntriesAssumption == MaxEntries \in Nat

Keys == Devices \X Times \X Sequence
Entries == [key : Keys, app : Apps \union {NoApp}]
Bits == UNION {Hashes[d] : d \in Devices}

VARIABLES
  writer,   \* "none", "adding", "header", "finished" or "gone"
  entries,  \* those the writer was given, in this order
  bits,     \* the bits of its bloom filter
  body,     \* how many of the entries are in the file
  footed,   \* index and footer are
  header,   \* how many of the parts of the header are
  appsSeen  \* the applications it has met

fileVars == <<body, footed, header>>
tableVars == <<writer, entries, bits, fileVars, appsSeen>>

----------------------------------------------------------------------------
(* Keys                                                                    *)

\* The derived order of MemtableKey.
Below(k, l) ==
  \/ k[1] < l[1]
  \/ k[1] = l[1] /\ k[2] < l[2]
  \/ k[1] = l[1] /\ k[2] = l[2] /\ k[3] < l[3]
AtMost(k, l) == Below(k, l) \/ k = l

\* i64::MIN and MAX, u64::MAX.
Unbounded == -1
Earliest == -1
Latest == 1000
ASSUME KeysAssumption == Times \subseteq 0..Latest /\ Sequence \subseteq 0..Latest
\* range_start and range_end; Unbounded stands for None.
RangeStart(d, from) == <<d, IF from = Unbounded THEN Earliest ELSE from, 0>>
RangeEnd_FirstOfTime(d, to) == <<d, IF to = Unbounded THEN Latest ELSE to, 0>>
RangeEnd(d, to) == <<d, IF to = Unbounded THEN Latest ELSE to, Latest>>

----------------------------------------------------------------------------
(* The writer                                                              *)

HeaderParts == <<"magic", "version", "id", "count", "bloom size", "bloom">>

Create_HeaderFirst ==
  /\ writer = "none"
  /\ writer' = "adding" /\ header' = Len(HeaderParts)
  /\ UNCHANGED <<entries, bits, body, footed, appsSeen>>
\* Creates the file with zeros in place of the header.
Create ==
  /\ writer = "none"
  /\ writer' = "adding"
  /\ UNCHANGED <<entries, bits, fileVars, appsSeen>>

\* The check of add: above the last key.
InOrder(k) == entries # <<>> => Below(entries[Len(entries)].key, k)

SetBits(k) == bits \union Hashes[k[1]]
Add(e) ==
  /\ writer = "adding" /\ Len(entries) < MaxEntries
  /\ InOrder(e.key)
  /\ entries' = Append(entries, e)
  /\ bits' = SetBits(e.key)
  /\ appsSeen' = appsSeen \union ({e.app} \ {NoApp})
  /\ UNCHANGED <<writer, fileVars>>

\* The buffered writer passes on what it holds when it is full.
Spill ==
  /\ writer = "adding" /\ body < Len(entries)
  /\ body' = body + 1
  /\ UNCHANGED <<writer, entries, bits, footed, header, appsSeen>>

\* finish: index, footer and flush; an empty table is refused.
Finish ==
  /\ writer = "adding" /\ entries # <<>>
  /\ body' = Len(entries)
  /\ footed' = TRUE
  /\ writer' = "header"
  /\ UNCHANGED <<entries, bits, header, appsSeen>>

\* One write_all of the header that replaces the zeros.
WriteHeader ==
  /\ writer = "header"
  /\ header' = header + 1
  /\ writer' = IF header' = Len(HeaderParts) THEN "finished" ELSE "header"
  /\ UNCHANGED <<entries, bits, body, footed, appsSeen>>

\* A crash, or an error that drops the writer; dropping it flushes its buffer.
Abandon ==
  /\ writer \in {"adding", "header"}
  /\ writer' = "gone"
  /\ \/ UNCHANGED body
     \/ body' = Len(entries)
  /\ UNCHANGED <<entries, bits, footed, header, appsSeen>>

----------------------------------------------------------------------------
(* The reader                                                              *)

\* The parts without which open fails: a wrong magic or version, no bloom filter to read.
\* With a size and zeros in its place, the filter reads as one of no hash functions.
NeededParts == 5
Openable == writer \in {"finished", "gone"} /\ header >= NeededParts

MightContain(d) == header < Len(HeaderParts) \/ Hashes[d] \subseteq bits
Index == IF footed THEN entries ELSE <<>>
IterAll == SubSeq(Index, 1, body)

\* binary_search_by: where the key is or belongs.
Position(k) == 1 + Cardinality({i \in DOMAIN Index : Below(Index[i].key, k)})

\* From there until the first key past the end.
Scan(d, from, to) ==
  LET position == Position(RangeStart(d, from))
      past == {i \in position..Len(Index) : ~AtMost(Index[i].key, RangeEnd(d, to))}
      end == IF past = {} THEN Len(Index) ELSE Min(past) - 1
  IN IF MightContain(d) THEN SubSeq(Index, position, end) ELSE <<>>

IterUniqueDeviceFrames_SkipsFirst ==
  LET changes == {i \in DOMAIN Index : i > 1 /\ Index[i - 1].key[1] # Index[i].key[1]}
  IN {Index[i] : i \in changes}
\* One frame of each device: the first after a change of the device.
IterUniqueDeviceFrames ==
  LET first == {i \in DOMAIN Index : i = 1 \/ Index[i - 1].key[1] # Index[i].key[1]}
  IN {Index[i] : i \in first}

ApplicationIds_OnePerDevice == {e.app : e \in IterUniqueDeviceFrames} \ {NoApp}
\* Collected from the frames: every reader comes from open, which leaves the set in its metadata
\* empty, so application_ids never answers from there.
ApplicationIds == {IterAll[i].app : i \in DOMAIN IterAll} \ {NoApp}

----------------------------------------------------------------------------
TableInit ==
  /\ writer = "none"
  /\ entries = <<>> /\ bits = {}
  /\ body = 0 /\ footed = FALSE /\ header = 0
  /\ appsSeen = {}

TableNext ==
  \/ Create \/ (\E e \in Entries : Add(e)) \/ Spill \/ Finish \/ WriteHeader \/ Abandon
TableSpec == TableInit /\ [][TableNext]_tableVars

----------------------------------------------------------------------------
(* Properties                                                              *)

\* The type invariant; the entries of a table are in the order of their keys.
TableTypeOK ==
  /\ writer \in {"none", "adding", "header", "finished", "gone"}
  /\ entries \in Seq(Entries) /\ Len(entries) <= MaxEntries
  /\ \A i, j \in DOMAIN entries : i < j => Below(entries[i].key, entries[j].key)
  /\ bits \subseteq Bits
  /\ body \in 0..Len(entries) /\ footed \in BOOLEAN /\ header \in 0..Len(HeaderParts)
  /\ footed => body = Len(entries)
  /\ appsSeen \subseteq Apps

\* A crash at any point of the writing leaves a file that does not open or one
\* with every entry: the header comes last.
WholeOrRefused == Openable => footed /\ IterAll = entries

Ends == Times \union {Unbounded}
Covers(from, to, t) == (from = Unbounded \/ from <= t) /\ (to = Unbounded \/ t <= to)
\* scan: bloom filter, binary search and early end answer exactly the entries of the device and
\* the period, both ends included, in the order of their keys.
ScanExact ==
  Openable =>
    \A d \in Devices, from, to \in Ends :
      LET found == Scan(d, from, to)
      IN /\ ToSet(found) = {e \in ToSet(entries) : e.key[1] = d /\ Covers(from, to, e.key[2])}
         /\ \A i, j \in DOMAIN found : i < j => Below(found[i].key, found[j].key)

\* The registry rebuilt at start from iter_unique_device_frames knows each device of the table.
EveryDeviceFound ==
  Openable => {e.key[1] : e \in IterUniqueDeviceFrames} = {e.key[1] : e \in ToSet(entries)}

\* The retention check judges a table that opens by every application with a frame in it, and by
\* no other.
SameApplications == Openable => ApplicationIds = appsSeen
=============================================================================
