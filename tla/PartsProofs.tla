---------------------------- MODULE PartsProofs ----------------------------
(***************************************************************************)
(* The memtable, the tables, the segment of the log and queries, each for  *)
(* every value of its constants: any inserting and deleting tasks, any     *)
(* frames and flushes; any devices, times, applications, hash positions    *)
(* and sizes of the entries, and the writer stopped anywhere; any frames,  *)
(* sizes of their payloads and of the buffer, failed writes, crashes and   *)
(* losses of power; any names and numbers in a query, any limits.          *)
(*                                                                         *)
(* MapInv: the sequence keeps the keys of the map and of the inserts under *)
(* way apart. CountInv: the counter, with what is inserted and not yet     *)
(* counted, is what the map holds, with what is taken out and not yet      *)
(* subtracted. TableInv: what the file has at each step of the writer.     *)
(* WalInv: where in the segment the entries of the owed frames are, and    *)
(* that what append has written of an entry is the end of it. LogInv: the  *)
(* file is entries one behind the other until an append fails or is cut    *)
(* short, and has units of no frame the log of module DurableLog does not  *)
(* know. QueryInv: what was stored since a query began is among what it    *)
(* has read or can still read. ParserInv: the queries whose text begins    *)
(* with the tokens read are those that agree with what the parser has made *)
(* of them.                                                                *)
(***************************************************************************)
EXTENDS MCParts, DataInduction, TLAPS

----------------------------------------------------------------------------
(* The memtable: its map                                                   *)

Putting(t) == inserting[t] = "put"

\* The types of what the argument is about.
MapType ==
  /\ data \subseteq Item /\ sequence \in Nat
  /\ inserting \in [Inserters -> {"idle", "put", "count"}]
  /\ new \in [Inserters -> Rows \union {Idle}]
  /\ number \in [Inserters -> Nat]

\* All numbers in use lie below the next one, and no two uses are of one number.
NumbersApart ==
  /\ \A e \in data : e.key[3] < sequence
  /\ \A t \in Inserters : Putting(t) => number[t] < sequence
  /\ \A t \in Inserters, e \in data : Putting(t) => e.key[3] # number[t]
  /\ \A t, u \in Inserters : Putting(t) /\ Putting(u) /\ t # u => number[t] # number[u]

\* A frame to be put in is not in the map and is put in by one task.
FramesApart ==
  /\ \A t \in Inserters : Putting(t) => new[t] \in Rows /\ new[t] \notin held
  /\ \A t, u \in Inserters : Putting(t) /\ Putting(u) /\ t # u => new[t] # new[u]

\* The map has one entry of each frame and of each key.
OneEntry ==
  /\ \A e, g \in data : e.key = g.key => e = g
  /\ \A e, g \in data : e.frame = g.frame => e = g

\* The inductive invariant.
MapInv == MapType /\ NumbersApart /\ FramesApart /\ OneEntry /\ NothingOverwritten

\* What concerns the map and the inserts; the steps of a deletion but one leave it alone.
mapVars == <<data, sequence, inserting, new, number, held>>

LEMMA Elsewhere == ASSUME MapInv, UNCHANGED mapVars PROVE MapInv'
  BY DEF MapInv, mapVars, MapType, NumbersApart, FramesApart, OneEntry, NothingOverwritten,
    Putting

LEMMA InitMap == MemtableInit => MapInv
  BY DEF MemtableInit, MapInv, MapType, NumbersApart, FramesApart, OneEntry,
    NothingOverwritten, Putting

LEMMA TakeNumberMap ==
  ASSUME MapInv, NEW t \in Inserters, NEW f \in Rows, TakeNumber(t, f)
  PROVE  MapInv'
<1>1. /\ number' = [number EXCEPT ![t] = sequence] /\ sequence' = sequence + 1
      /\ new' = [new EXCEPT ![t] = f] /\ inserting' = [inserting EXCEPT ![t] = "put"]
      /\ UNCHANGED <<data, held>> /\ f \notin held /\ \A u \in Inserters : new[u] # f
  BY DEF TakeNumber, NextSequence
<1>2. MapType'
  BY <1>1 DEF MapInv, MapType
<1>3. /\ Putting(t)' /\ number'[t] = sequence /\ new'[t] = f
      /\ \A u \in Inserters : u # t =>
           (Putting(u)' <=> Putting(u)) /\ number'[u] = number[u] /\ new'[u] = new[u]
  BY <1>1 DEF MapInv, MapType, Putting
<1>4. \A e \in data : e.key[3] \in Nat
  BY DEF MapInv, MapType, Item, MemtableKeys
<1>5. NumbersApart'
  <2>1. \A e \in data' : e.key[3] < sequence'
    BY <1>1, <1>4 DEF MapInv, MapType, NumbersApart
  <2>2. ASSUME NEW u \in Inserters, Putting(u)' PROVE number'[u] < sequence'
    BY <1>1, <1>3, <2>2 DEF MapInv, MapType, NumbersApart
  <2>3. ASSUME NEW u \in Inserters, NEW e \in data', Putting(u)'
        PROVE  e.key[3] # number'[u]
    BY <1>1, <1>3, <1>4, <2>3 DEF MapInv, MapType, NumbersApart
  <2>4. ASSUME NEW u \in Inserters, NEW v \in Inserters, Putting(u)', Putting(v)', u # v
        PROVE  number'[u] # number'[v]
    BY <1>1, <1>3, <2>4 DEF MapInv, MapType, NumbersApart
  <2> QED BY <2>1, <2>2, <2>3, <2>4 DEF NumbersApart
<1>6. FramesApart'
  BY <1>1, <1>3 DEF MapInv, FramesApart
<1> QED BY <1>1, <1>2, <1>5, <1>6 DEF MapInv, OneEntry, NothingOverwritten

LEMMA PutMap == ASSUME MapInv, NEW t \in Inserters, Put(t) PROVE MapInv'
<1> DEFINE entry == [key |-> KeyOf(t), frame |-> new[t]]
<1>1. /\ inserting' = [inserting EXCEPT ![t] = "count"] /\ Putting(t)
      /\ held' = held \union {new[t]}
      /\ UNCHANGED <<sequence, new, number>>
  BY DEF Put, Putting
<1>2. new[t] \in Rows /\ new[t] \notin held /\ number[t] \in Nat
  BY <1>1 DEF MapInv, MapType, FramesApart
<1>3. entry \in Item /\ KeyOf(t)[3] = number[t]
  BY <1>2, RowsAssumption DEF KeyOf, Item, MemtableKeys
<1>4. \A e \in data : e.key # KeyOf(t) /\ e.frame # new[t]
  BY <1>1, <1>2, <1>3 DEF MapInv, NumbersApart, NothingOverwritten
<1>5. data' = data \union {entry}
  BY <1>4 DEF Put
<1>6. \A u \in Inserters : Putting(u)' <=> (Putting(u) /\ u # t)
  BY <1>1 DEF MapInv, MapType, Putting
<1>7. MapType'
  BY <1>1, <1>3, <1>5 DEF MapInv, MapType
<1>8. NumbersApart'
  BY <1>1, <1>3, <1>5, <1>6 DEF MapInv, NumbersApart
<1>9. FramesApart'
  BY <1>1, <1>2, <1>6 DEF MapInv, FramesApart
<1>10. OneEntry'
  BY <1>4, <1>5 DEF MapInv, OneEntry
<1>11. NothingOverwritten'
  <2>1. entry.frame = new[t] /\ held = {e.frame : e \in data}
    BY DEF MapInv, NothingOverwritten
  <2>2. ASSUME NEW f \in held' PROVE \E e \in data' : e.frame = f
    BY <1>1, <1>5, <2>1, <2>2
  <2>3. ASSUME NEW e \in data' PROVE e.frame \in held'
    BY <1>1, <1>5, <2>1, <2>3
  <2> HIDE DEF entry
  <2> QED BY <2>2, <2>3 DEF NothingOverwritten
<1> QED BY <1>7, <1>8, <1>9, <1>10, <1>11 DEF MapInv

LEMMA CountMap == ASSUME MapInv, NEW t \in Inserters, Count(t) PROVE MapInv'
<1>1. /\ inserting' = [inserting EXCEPT ![t] = "idle"] /\ new' = [new EXCEPT ![t] = Idle]
      /\ UNCHANGED <<data, sequence, number, held>> /\ ~Putting(t)
  BY DEF Count, Putting
<1>2. MapType'
  BY <1>1 DEF MapInv, MapType
<1>3. \A u \in Inserters : Putting(u)' => Putting(u) /\ new'[u] = new[u] /\ number'[u] = number[u]
  BY <1>1 DEF MapInv, MapType, Putting
<1> QED BY <1>1, <1>2, <1>3
  DEF MapInv, NumbersApart, FramesApart, OneEntry, NothingOverwritten

LEMMA TakeOutMap ==
  ASSUME MapInv, NEW t \in Erasers, NEW k, TakeOut(t, k)
  PROVE  MapInv'
<1> DEFINE gone == {e \in data : e.key = k}
<1>1. /\ data' = data \ gone /\ held' = held \ {e.frame : e \in gone}
      /\ UNCHANGED <<sequence, inserting, new, number>>
  BY DEF TakeOut, insertion
<1>2. MapType' /\ NumbersApart' /\ FramesApart' /\ OneEntry'
  BY <1>1 DEF MapInv, MapType, NumbersApart, FramesApart, OneEntry, Putting
<1>3. NothingOverwritten'
  <2>1. ASSUME NEW f \in held' PROVE f \in {e.frame : e \in data'}
    BY <1>1, <2>1 DEF MapInv, NothingOverwritten
  <2>2. ASSUME NEW e \in data' PROVE e.frame \in held'
    BY <1>1, <2>2 DEF MapInv, NothingOverwritten, OneEntry
  <2> QED BY <2>1, <2>2 DEF NothingOverwritten
<1> QED BY <1>2, <1>3 DEF MapInv

LEMMA ClearMap == ASSUME MapInv, Clear PROVE MapInv'
  BY DEF MapInv, Clear, Quiet, insertion, MapType, NumbersApart, FramesApart, OneEntry,
    NothingOverwritten, Putting

LEMMA StepMap == MapInv /\ [MemtableNext]_memtableVars => MapInv'
<1> SUFFICES ASSUME MapInv, [MemtableNext]_memtableVars PROVE MapInv'
  OBVIOUS
<1>1. ASSUME NEW t \in Erasers, NEW d \in Motes, EraseBegin(t, d) PROVE MapInv'
  BY <1>1, Elsewhere DEF EraseBegin, insertion, mapVars
<1>2. ASSUME NEW t \in Erasers, Collect(t) \/ Load(t) \/ Store(t) PROVE MapInv'
  BY <1>2, Elsewhere DEF Collect, Load, Store, insertion, mapVars
<1>3. CASE UNCHANGED memtableVars
  BY <1>3, Elsewhere DEF memtableVars, insertion, mapVars
<1> QED
  BY <1>1, <1>2, <1>3, TakeNumberMap, PutMap, CountMap, TakeOutMap, ClearMap
  DEF MemtableNext, Insert, Erase

\* Frames of one device and time never replace each other in the memtable, and none stays that a
\* deletion has taken out, whatever tasks insert, delete and flush at once.
THEOREM KeysStayApart == MemtableSpec => []NothingOverwritten
<1>1. MemtableSpec => []MapInv
  BY InitMap, StepMap, PTL DEF MemtableSpec
<1>2. MapInv => NothingOverwritten
  BY DEF MapInv
<1> QED BY <1>1, <1>2, PTL

----------------------------------------------------------------------------
(* The memtable: its counter of bytes                                      *)

\* The weight of each entry, and of the frame each inserter works on.
Sizes == [e \in Item |-> SizeOf[e.frame]]
Loads == [t \in Inserters |-> SizeOf[new[t]]]
\* The inserts that are in the map and not yet counted; the deletions that have taken out entries
\* and not yet subtracted them.
Counting == {t \in Inserters : inserting[t] = "count"}
Removing == {t \in Erasers : erasing[t] \in {"remove", "store"}}

\* What the counter has to be: what the map holds, but for those.
Conserved == size + Total(Loads, Counting) = Total(Sizes, data) + Total(bytes, Removing)

\* No deletion but one is between its load and its store, and the counter is still what it
\* loaded.
StoreAlone ==
  \A t \in Erasers : erasing[t] = "store" =>
    current[t] = size /\ \A u \in Erasers : erasing[u] = "store" => u = t

FewAtWork ==
  /\ IsFiniteSet(data) /\ IsFiniteSet(Counting) /\ IsFiniteSet(Removing)
  /\ \A t \in Counting : new[t] \in Rows
  /\ \A t \in Erasers : erasing[t] \notin {"remove", "store"} => bytes[t] = 0

\* The inductive invariant.
CountInv == MapInv /\ MemtableTypeOK /\ FewAtWork /\ (~raced => Conserved /\ StoreAlone)

LEMMA BytesTotal ==
  ASSUME NEW S \in SUBSET Item, IsFiniteSet(S)
  PROVE  BytesOf(S) = Total(Sizes, S) /\ BytesOf(S) \in Nat
<1>1. \A x \in Item : Sizes[x] = SizeOf[x.frame] /\ Sizes[x] \in Nat
  BY RowsAssumption DEF Sizes, Item
<1>2. PICK f : Sums(Sizes, S, f)
  BY <1>1, SumsExist
<1>3. \A s \in SUBSET S : s # {} => Picked(s) \in Item
  BY DEF Picked
<1>4. f = [s \in SUBSET S |-> IF s = {} THEN 0 ELSE Sizes[Picked(s)] + f[s \ {Picked(s)}]]
  BY <1>2, SumsFold DEF Folds
<1>5. f = [s \in SUBSET S |->
             IF s = {} THEN 0 ELSE SizeOf[Picked(s).frame] + f[s \ {Picked(s)}]]
  BY <1>1, <1>3, <1>4
<1>6. PICK g : /\ g = [s \in SUBSET S |->
                         IF s = {} THEN 0 ELSE SizeOf[Picked(s).frame] + g[s \ {Picked(s)}]]
               /\ BytesOf(S) = g[S]
  BY <1>5 DEF BytesOf, MapThenSumSet, MapThenFoldSet, Picked
<1>7. Folds(Sizes, S, g)
  BY <1>1, <1>3, <1>6 DEF Folds
<1>8. Total(Sizes, S) \in Nat
  BY <1>1, TotalNat
<1> QED BY <1>2, <1>6, <1>7, <1>8, FoldIsSum, TotalIsSum

LEMMA InitCount == MemtableInit => CountInv
<1> SUFFICES ASSUME MemtableInit PROVE CountInv
  OBVIOUS
<1>1. data = {} /\ Counting = {} /\ Removing = {} /\ size = 0 /\ IsFiniteSet({})
  BY FS_EmptySet DEF MemtableInit, Counting, Removing
<1>2. MapInv
  BY InitMap
<1>3. MemtableTypeOK
  <2>1. data \subseteq Item /\ size \in Nat /\ sequence \in Nat /\ held \subseteq Rows
    BY DEF MemtableInit
  <2>2. /\ erasures \in 0..MaxErasures
        /\ raced \in BOOLEAN
    <3>1. erasures \in 0..MaxErasures
      BY MemtableBoundsAssumption, SMT DEF MemtableInit
    <3>2. raced \in BOOLEAN
      BY Zenon DEF MemtableInit
    <3> QED BY <3>1, <3>2
  <2>3. /\ inserting \in [Inserters -> {"idle", "put", "count"}]
        /\ new \in [Inserters -> Rows \union {Idle}] /\ number \in [Inserters -> Nat]
    BY DEF MemtableInit
  <2>4. /\ erasing \in [Erasers -> {"idle", "collect", "remove", "load", "store"}]
        /\ device \in [Erasers -> Motes \union {Idle}]
    BY DEF MemtableInit
  <2>5. /\ doomed \in [Erasers -> SUBSET MemtableKeys]
        /\ bytes \in [Erasers -> Nat] /\ current \in [Erasers -> Nat]
    BY DEF MemtableInit
  <2> QED BY <2>1, <2>2, <2>3, <2>4, <2>5 DEF MemtableTypeOK
<1>4. FewAtWork
  BY <1>1 DEF MemtableInit, FewAtWork
<1>5. Conserved
  BY <1>1, TotalEmpty DEF Conserved
<1>6. StoreAlone
  BY DEF MemtableInit, StoreAlone
<1> QED BY <1>2, <1>3, <1>4, <1>5, <1>6 DEF CountInv

\* The weights are numbers.
LEMMA Weights ==
  ASSUME CountInv
  PROVE  /\ \A e \in Item : Sizes[e] = SizeOf[e.frame] /\ Sizes[e] \in Nat
         /\ \A t \in Counting : Loads[t] = SizeOf[new[t]] /\ Loads[t] \in Nat
         /\ \A t \in Erasers : bytes[t] \in Nat
         /\ data \in SUBSET Item /\ Counting \subseteq Inserters /\ Removing \subseteq Erasers
         /\ IsFiniteSet(data) /\ IsFiniteSet(Counting) /\ IsFiniteSet(Removing)
         /\ Total(Loads, Counting) \in Nat /\ Total(Sizes, data) \in Nat
         /\ Total(bytes, Removing) \in Nat
<1>1. \A e \in Item : Sizes[e] = SizeOf[e.frame] /\ Sizes[e] \in Nat
  BY RowsAssumption DEF Sizes, Item
<1>2. Counting \subseteq Inserters /\ Removing \subseteq Erasers
  BY DEF Counting, Removing
<1>3. \A t \in Counting : Loads[t] = SizeOf[new[t]] /\ Loads[t] \in Nat
  BY <1>2, RowsAssumption DEF CountInv, FewAtWork, Loads
<1>4. \A t \in Erasers : bytes[t] \in Nat
  BY DEF CountInv, MemtableTypeOK
<1>5. data \in SUBSET Item /\ IsFiniteSet(data) /\ IsFiniteSet(Counting) /\ IsFiniteSet(Removing)
  BY DEF CountInv, MemtableTypeOK, FewAtWork
<1>6. Total(Loads, Counting) \in Nat /\ Total(Sizes, data) \in Nat
  BY <1>1, <1>3, <1>5, TotalNat
<1>7. Total(bytes, Removing) \in Nat
  BY <1>2, <1>4, <1>5, TotalNat
<1> QED BY <1>1, <1>2, <1>3, <1>4, <1>5, <1>6, <1>7

LEMMA TakeNumberCount ==
  ASSUME CountInv, NEW t \in Inserters, NEW f \in Rows, TakeNumber(t, f)
  PROVE  CountInv'
<1>1. /\ inserting[t] = "idle" /\ inserting' = [inserting EXCEPT ![t] = "put"]
      /\ new' = [new EXCEPT ![t] = f] /\ number' = [number EXCEPT ![t] = sequence]
      /\ sequence' = sequence + 1
      /\ UNCHANGED <<data, size, erasing, device, doomed, bytes, current, held, raced, erasures>>
  BY DEF TakeNumber, NextSequence, erasure
<1>2. inserting \in [Inserters -> {"idle", "put", "count"}]
      /\ new \in [Inserters -> Rows \union {Idle}]
  BY DEF CountInv, MemtableTypeOK
<1>3. Counting' = Counting /\ Removing' = Removing /\ t \notin Counting
  BY <1>1, <1>2 DEF Counting, Removing
<1>4. \A u \in Counting : new'[u] = new[u] /\ Loads'[u] = Loads[u]
  BY <1>1, <1>2, <1>3 DEF Loads, Counting
<1>5. Total(Loads', Counting) = Total(Loads, Counting)
  BY <1>4, Weights, TotalSame
<1>6. MapInv'
  BY TakeNumberMap DEF CountInv
<1>7. MemtableTypeOK'
  BY <1>1 DEF CountInv, MemtableTypeOK
<1>8. FewAtWork'
  BY <1>1, <1>3, <1>4 DEF CountInv, FewAtWork
<1>9. ~raced' => Conserved' /\ StoreAlone'
  BY <1>1, <1>3, <1>5 DEF CountInv, Conserved, StoreAlone
<1> QED BY <1>6, <1>7, <1>8, <1>9 DEF CountInv

LEMMA PutCount == ASSUME CountInv, NEW t \in Inserters, Put(t) PROVE CountInv'
<1> DEFINE entry == [key |-> KeyOf(t), frame |-> new[t]]
<1>1. /\ inserting[t] = "put" /\ inserting' = [inserting EXCEPT ![t] = "count"]
      /\ data' = {e \in data : e.key # KeyOf(t)} \union {entry}
      /\ held' = held \union {new[t]}
      /\ UNCHANGED <<size, sequence, new, number, erasing, device, doomed, bytes, current, raced,
                     erasures>>
  BY DEF Put, erasure
<1>2. /\ inserting \in [Inserters -> {"idle", "put", "count"}]
      /\ new[t] \in Rows /\ number[t] \in Nat
  BY <1>1 DEF CountInv, MemtableTypeOK, MapInv, FramesApart, Putting
<1>3. entry \in Item /\ KeyOf(t)[3] = number[t]
  BY <1>2, RowsAssumption DEF KeyOf, Item, MemtableKeys
<1>4. \A e \in data : e.key # KeyOf(t)
  BY <1>1, <1>3 DEF CountInv, MapInv, NumbersApart, Putting
<1>5. data' = data \union {entry} /\ entry \notin data
  BY <1>1, <1>4
<1>6. Counting' = Counting \union {t} /\ t \notin Counting /\ Removing' = Removing
  BY <1>1, <1>2 DEF Counting, Removing
<1>7. Loads' = Loads /\ Loads[t] = SizeOf[new[t]] /\ Loads[t] \in Nat
  BY <1>1, <1>2, RowsAssumption DEF Loads
<1>8. Sizes[entry] = SizeOf[new[t]]
  BY <1>3 DEF Sizes
<1> HIDE DEF entry
<1>9. Total(Loads, Counting \union {t}) = Total(Loads, Counting) + Loads[t]
  <2>1. \A u \in Counting \union {t} : Loads[u] \in Nat
    BY <1>7, Weights
  <2>2. IsFiniteSet(Counting) /\ t \notin Counting
    BY <1>6, Weights
  <2> QED BY <2>1, <2>2, TotalAdd
<1>10. Total(Sizes, data \union {entry}) = Total(Sizes, data) + Sizes[entry]
  <2>1. \A e \in data \union {entry} : Sizes[e] \in Nat
    BY <1>3, Weights
  <2>2. IsFiniteSet(data) /\ entry \notin data
    BY <1>5, Weights
  <2> QED BY <2>1, <2>2, TotalAdd
<1>11. IsFiniteSet(data') /\ IsFiniteSet(Counting')
  BY <1>5, <1>6, Weights, FS_AddElement
<1>12. MapInv'
  BY PutMap DEF CountInv
<1>13. MemtableTypeOK'
  BY <1>1, <1>2, <1>3, <1>5 DEF CountInv, MemtableTypeOK
<1>14. FewAtWork'
  BY <1>1, <1>2, <1>6, <1>11 DEF CountInv, FewAtWork
<1>15. ~raced' => Conserved' /\ StoreAlone'
  <2>1. ~raced => size \in Nat /\ Conserved /\ StoreAlone
    BY DEF CountInv, MemtableTypeOK
  <2>2. StoreAlone => StoreAlone'
    BY <1>1 DEF StoreAlone
  <2>3. Conserved /\ size \in Nat => Conserved'
    <3>1. size' = size /\ Sizes' = Sizes /\ bytes' = bytes
      BY <1>1 DEF Sizes
    <3>2. /\ Total(Loads', Counting') = Total(Loads, Counting) + SizeOf[new[t]]
          /\ Total(Sizes', data') = Total(Sizes, data) + SizeOf[new[t]]
          /\ Total(bytes', Removing') = Total(bytes, Removing)
      BY <1>5, <1>6, <1>7, <1>8, <1>9, <1>10, <3>1
    <3>3. /\ SizeOf[new[t]] \in Nat /\ Total(Loads, Counting) \in Nat
          /\ Total(Sizes, data) \in Nat /\ Total(bytes, Removing) \in Nat
      BY <1>7, Weights
    <3> QED BY <3>1, <3>2, <3>3 DEF Conserved
  <2> QED BY <1>1, <2>1, <2>2, <2>3
<1> QED BY <1>12, <1>13, <1>14, <1>15 DEF CountInv

LEMMA CountCount == ASSUME CountInv, NEW t \in Inserters, Count(t) PROVE CountInv'
<1>1. /\ inserting[t] = "count" /\ inserting' = [inserting EXCEPT ![t] = "idle"]
      /\ size' = size + SizeOf[new[t]] /\ new' = [new EXCEPT ![t] = Idle]
      /\ (~raced' => ~raced /\ \A u \in Erasers : erasing[u] # "store") /\ raced' \in BOOLEAN
      /\ UNCHANGED <<data, sequence, number, erasing, device, doomed, bytes, current, held, erasures>>
  BY DEF Count, erasure, Subtracting, CountInv, MemtableTypeOK
<1>2. inserting \in [Inserters -> {"idle", "put", "count"}]
      /\ new \in [Inserters -> Rows \union {Idle}] /\ size \in Nat
  BY DEF CountInv, MemtableTypeOK
<1>3. t \in Counting /\ Counting' = Counting \ {t} /\ Removing' = Removing
  BY <1>1, <1>2 DEF Counting, Removing
<1>4. \A u \in Counting \ {t} : new'[u] = new[u] /\ Loads'[u] = Loads[u]
  BY <1>1, <1>2 DEF Loads, Counting
<1>5. IsFiniteSet(Counting \ {t}) /\ (Counting \ {t}) \union {t} = Counting
  BY <1>3, Weights, FS_RemoveElement
<1>6. Loads[t] = SizeOf[new[t]] /\ Loads[t] \in Nat
  BY <1>3, Weights
<1>7. Total(Loads, Counting) = Total(Loads, Counting \ {t}) + Loads[t]
  <2>1. \A u \in (Counting \ {t}) \union {t} : Loads[u] \in Nat
    BY <1>5, Weights
  <2>2. t \notin Counting \ {t}
    OBVIOUS
  <2>3. Total(Loads, (Counting \ {t}) \union {t}) = Total(Loads, Counting \ {t}) + Loads[t]
    BY <1>5, <2>1, <2>2, TotalAdd
  <2> QED BY <1>5, <2>3
<1>8. Total(Loads', Counting \ {t}) = Total(Loads, Counting \ {t})
      /\ Total(Loads, Counting \ {t}) \in Nat
  <2>1. \A u \in Counting \ {t} : Loads[u] \in Nat /\ Loads'[u] = Loads[u]
    BY <1>4, Weights
  <2> QED BY <1>5, <2>1, TotalSame, TotalNat
<1>9. MapInv'
  BY CountMap DEF CountInv
<1>10. MemtableTypeOK'
  BY <1>1, <1>2, <1>6 DEF CountInv, MemtableTypeOK
<1>11. FewAtWork'
  BY <1>1, <1>3, <1>4, <1>5 DEF CountInv, FewAtWork
<1>12. ~raced' => Conserved' /\ StoreAlone'
  <2>1. ~raced => Conserved
    BY DEF CountInv
  <2>2. ~raced' => StoreAlone'
    BY <1>1 DEF StoreAlone
  <2>3. Conserved => Conserved'
    BY <1>1, <1>2, <1>3, <1>6, <1>7, <1>8, Weights DEF Conserved
  <2> QED BY <1>1, <2>1, <2>2, <2>3
<1> QED BY <1>9, <1>10, <1>11, <1>12 DEF CountInv

LEMMA CollectCount ==
  ASSUME CountInv, NEW t \in Erasers,
         (\E d \in Motes : EraseBegin(t, d)) \/ Collect(t)
  PROVE  CountInv'
<1>1. /\ erasing[t] \in {"idle", "collect"}
      /\ UNCHANGED <<data, size, sequence, inserting, new, number, bytes, current, held, raced>>
  BY DEF EraseBegin, Collect, insertion
<1>2. \/ erasing[t] = "idle" /\ erasing' = [erasing EXCEPT ![t] = "collect"]
      \/ erasing[t] = "collect" /\ erasing' = [erasing EXCEPT ![t] = "remove"]
  BY DEF EraseBegin, Collect
<1>3. /\ erasing \in [Erasers -> {"idle", "collect", "remove", "load", "store"}]
      /\ bytes[t] = 0
  BY <1>1 DEF CountInv, MemtableTypeOK, FewAtWork
<1>4. /\ Counting' = Counting /\ t \notin Removing
      /\ Removing' \in {Removing, Removing \union {t}}
  BY <1>1, <1>2, <1>3 DEF Counting, Removing
<1>5. Total(bytes, Removing \union {t}) = Total(bytes, Removing)
  <2>1. \A u \in Removing \union {t} : bytes[u] \in Nat
    BY Weights
  <2>2. Total(bytes, Removing \union {t}) = Total(bytes, Removing) + bytes[t]
    <3>1. IsFiniteSet(Removing) /\ t \notin Removing
      BY <1>4, Weights
    <3> QED BY <2>1, <3>1, TotalAdd
  <2> QED BY <1>3, <2>2, Weights
<1>6. IsFiniteSet(Removing')
  BY <1>4, Weights, FS_AddElement
<1>7. MapInv'
  BY <1>1, Elsewhere DEF mapVars, CountInv
<1>8. MemtableTypeOK'
  <2>1. doomed' \in [Erasers -> SUBSET MemtableKeys]
    BY DEF EraseBegin, Collect, CountInv, MemtableTypeOK, Item
  <2>2. device' \in [Erasers -> Motes \union {Idle}] /\ erasures' \in 0..MaxErasures
    BY MemtableBoundsAssumption DEF EraseBegin, Collect, CountInv, MemtableTypeOK
  <2>3. erasing' \in [Erasers -> {"idle", "collect", "remove", "load", "store"}]
    BY <1>2, <1>3
  <2> QED BY <1>1, <2>1, <2>2, <2>3 DEF CountInv, MemtableTypeOK
<1>9. FewAtWork'
  <2>1. \A u \in Erasers : erasing'[u] \notin {"remove", "store"} => bytes'[u] = 0
    BY <1>1, <1>2, <1>3 DEF CountInv, FewAtWork
  <2> QED BY <1>1, <1>4, <1>6, <2>1 DEF CountInv, FewAtWork
<1>10. ~raced' => Conserved' /\ StoreAlone'
  <2>1. Conserved => Conserved'
    BY <1>1, <1>4, <1>5 DEF Conserved, Loads
  <2>2. StoreAlone => StoreAlone'
    BY <1>1, <1>2, <1>3 DEF StoreAlone
  <2> QED BY <1>1, <2>1, <2>2 DEF CountInv
<1> QED BY <1>7, <1>8, <1>9, <1>10 DEF CountInv

\* What one deletion has taken out counts apart from the others.
LEMMA OneRemoves ==
  ASSUME CountInv, NEW t \in Removing, NEW b, \A u \in Removing : b[u] \in Nat,
         \A u \in Removing \ {t} : b[u] = bytes[u]
  PROVE  /\ Total(bytes, Removing) = Total(bytes, Removing \ {t}) + bytes[t]
         /\ Total(b, Removing) = Total(bytes, Removing \ {t}) + b[t]
         /\ Total(b, Removing \ {t}) = Total(bytes, Removing \ {t})
         /\ Total(bytes, Removing \ {t}) \in Nat /\ IsFiniteSet(Removing \ {t})
<1> DEFINE R == Removing \ {t}
<1>1. IsFiniteSet(R) /\ R \union {t} = Removing /\ t \notin R
  BY Weights, FS_RemoveElement
<1>2. \A u \in R \union {t} : b[u] \in Nat /\ bytes[u] \in Nat
  BY Weights
<1>3. \A u \in R : bytes[u] \in Nat /\ b[u] = bytes[u]
  BY <1>2
<1> HIDE DEF R
<1>4. Total(b, R) = Total(bytes, R)
  BY <1>1, <1>3, TotalSame
<1>5. Total(bytes, R \union {t}) = Total(bytes, R) + bytes[t]
  BY <1>1, <1>2, TotalAdd
<1>6. Total(b, R \union {t}) = Total(b, R) + b[t]
  BY <1>1, <1>2, TotalAdd
<1>7. Total(bytes, R) \in Nat
  BY <1>1, <1>3, TotalNat
<1> QED BY <1>1, <1>4, <1>5, <1>6, <1>7 DEF R

LEMMA TakeOutCount ==
  ASSUME CountInv, NEW t \in Erasers, NEW k \in doomed[t], TakeOut(t, k)
  PROVE  CountInv'
<1> DEFINE gone == {e \in data : e.key = k}
<1>1. /\ erasing[t] = "remove" /\ data' = data \ gone
      /\ held' = held \ {e.frame : e \in gone}
      /\ doomed' = [doomed EXCEPT ![t] = @ \ {k}]
      /\ bytes' = [bytes EXCEPT ![t] = @ + BytesOf(gone)]
      /\ UNCHANGED <<size, sequence, inserting, new, number, erasing, device, current, raced,
                     erasures>>
  BY DEF TakeOut, insertion
<1>2. bytes \in [Erasers -> Nat] /\ t \in Removing
  BY <1>1 DEF CountInv, MemtableTypeOK, Removing
<1>3. gone = {} \/ \E e \in data : gone = {e}
  BY DEF CountInv, MapInv, OneEntry
<1> HIDE DEF gone
<1>4. /\ Total(Sizes, data) = Total(Sizes, data \ gone) + BytesOf(gone)
      /\ BytesOf(gone) \in Nat /\ Total(Sizes, data \ gone) \in Nat
      /\ IsFiniteSet(data \ gone)
  <2>1. CASE gone = {}
    <3>1. BytesOf({}) = 0
      <4>1. {} \in SUBSET Item /\ IsFiniteSet({}) /\ Total(Sizes, {}) = 0
        BY TotalEmpty, FS_EmptySet
      <4> QED BY <4>1, BytesTotal
    <3>2. data \ gone = data /\ BytesOf(gone) = 0
      BY <2>1, <3>1
    <3>3. Total(Sizes, data) \in Nat /\ IsFiniteSet(data)
      BY Weights
    <3> QED BY <3>2, <3>3
  <2>2. ASSUME NEW e \in data, gone = {e}
        PROVE  /\ Total(Sizes, data) = Total(Sizes, data \ gone) + BytesOf(gone)
               /\ BytesOf(gone) \in Nat /\ Total(Sizes, data \ gone) \in Nat
               /\ IsFiniteSet(data \ gone)
    <3>1. IsFiniteSet(data \ {e}) /\ (data \ {e}) \union {e} = data /\ e \notin data \ {e}
      BY Weights, FS_RemoveElement
    <3>2. \A x \in (data \ {e}) \union {e} : Sizes[x] \in Nat
      BY Weights
    <3>3. Total(Sizes, (data \ {e}) \union {e}) = Total(Sizes, data \ {e}) + Sizes[e]
      BY <3>1, <3>2, TotalAdd
    <3>4. Total(Sizes, data \ {e}) \in Nat
      BY <3>1, <3>2, TotalNat
    <3>5. {} \union {e} = {e} /\ IsFiniteSet({e}) /\ {e} \in SUBSET Item /\ Sizes[e] \in Nat
      BY Weights, FS_Singleton
    <3>6. Total(Sizes, {} \union {e}) = Total(Sizes, {}) + Sizes[e]
      BY <3>5, FS_EmptySet, TotalAdd
    <3>7. BytesOf({e}) = Sizes[e]
      BY <3>5, <3>6, BytesTotal, TotalEmpty
    <3> QED BY <2>2, <3>1, <3>3, <3>4, <3>5, <3>7
  <2> QED BY <1>3, <2>1, <2>2
<1>5. /\ bytes' \in [Erasers -> Nat] /\ bytes'[t] = bytes[t] + BytesOf(gone)
      /\ \A u \in Erasers : u # t => bytes'[u] = bytes[u]
  BY <1>1, <1>2, <1>4
<1>6. Counting' = Counting /\ Removing' = Removing /\ Loads' = Loads
  BY <1>1 DEF Counting, Removing, Loads
<1>7. Total(bytes', Removing) = Total(bytes, Removing) + BytesOf(gone)
  <2>1. \A u \in Removing : bytes'[u] \in Nat
    BY <1>5, Weights
  <2>2. \A u \in Removing \ {t} : bytes'[u] = bytes[u]
    BY <1>5, Weights
  <2>3. /\ Total(bytes, Removing) = Total(bytes, Removing \ {t}) + bytes[t]
        /\ Total(bytes', Removing) = Total(bytes, Removing \ {t}) + bytes'[t]
        /\ Total(bytes, Removing \ {t}) \in Nat
    BY <1>2, <2>1, <2>2, OneRemoves
  <2> QED BY <1>2, <1>4, <1>5, <2>3
<1>8. MapInv'
  BY TakeOutMap DEF CountInv
<1>9. MemtableTypeOK'
  BY <1>1, <1>5 DEF CountInv, MemtableTypeOK
<1>10. FewAtWork'
  BY <1>1, <1>2, <1>4, <1>5, <1>6 DEF CountInv, FewAtWork
<1>11. ~raced' => Conserved' /\ StoreAlone'
  <2>1. StoreAlone => StoreAlone'
    BY <1>1 DEF StoreAlone
  <2>2. Conserved => Conserved'
    BY <1>1, <1>4, <1>6, <1>7, Weights DEF Conserved, CountInv, MemtableTypeOK
  <2> QED BY <1>1, <2>1, <2>2 DEF CountInv
<1> QED BY <1>8, <1>9, <1>10, <1>11 DEF CountInv

LEMMA LoadCount == ASSUME CountInv, NEW t \in Erasers, Load(t) PROVE CountInv'
<1>1. /\ erasing[t] = "remove" /\ erasing' = [erasing EXCEPT ![t] = "store"]
      /\ current' = [current EXCEPT ![t] = size]
      /\ (~raced' => ~raced /\ \A u \in Erasers : erasing[u] # "store") /\ raced' \in BOOLEAN
      /\ UNCHANGED <<data, size, sequence, inserting, new, number, device, doomed, bytes, held,
                     erasures>>
  BY DEF Load, insertion, Subtracting, CountInv, MemtableTypeOK
<1>2. /\ erasing \in [Erasers -> {"idle", "collect", "remove", "load", "store"}]
      /\ current \in [Erasers -> Nat] /\ size \in Nat
  BY DEF CountInv, MemtableTypeOK
<1>3. Counting' = Counting /\ Removing' = Removing /\ Loads' = Loads
  BY <1>1, <1>2 DEF Counting, Removing, Loads
<1>4. MapInv'
  BY <1>1, Elsewhere DEF mapVars, CountInv
<1>5. MemtableTypeOK'
  BY <1>1, <1>2 DEF CountInv, MemtableTypeOK
<1>6. FewAtWork'
  BY <1>1, <1>2, <1>3 DEF CountInv, FewAtWork
<1>7. ~raced' => Conserved' /\ StoreAlone'
  <2>1. Conserved => Conserved'
    BY <1>1, <1>3 DEF Conserved
  <2>2. ~raced' => StoreAlone'
    BY <1>1, <1>2 DEF StoreAlone
  <2> QED BY <1>1, <2>1, <2>2 DEF CountInv
<1> QED BY <1>4, <1>5, <1>6, <1>7 DEF CountInv

LEMMA StoreCount == ASSUME CountInv, NEW t \in Erasers, Store(t) PROVE CountInv'
<1>1. /\ erasing[t] = "store" /\ erasing' = [erasing EXCEPT ![t] = "idle"]
      /\ size' = (IF bytes[t] <= current[t] THEN current[t] - bytes[t] ELSE 0)
      /\ (~raced' => ~raced /\ ~(bytes[t] > current[t])) /\ raced' \in BOOLEAN
      /\ device' = [device EXCEPT ![t] = Idle] /\ bytes' = [bytes EXCEPT ![t] = 0]
      /\ current' = [current EXCEPT ![t] = 0]
      /\ UNCHANGED <<data, sequence, inserting, new, number, doomed, held, erasures>>
  BY DEF Store, Difference, insertion, CountInv, MemtableTypeOK
<1>2. /\ erasing \in [Erasers -> {"idle", "collect", "remove", "load", "store"}]
      /\ current \in [Erasers -> Nat] /\ size \in Nat /\ bytes \in [Erasers -> Nat]
      /\ device \in [Erasers -> Motes \union {Idle}]
  BY DEF CountInv, MemtableTypeOK
<1>3. Counting' = Counting /\ Removing' = Removing \ {t} /\ Loads' = Loads /\ t \in Removing
  BY <1>1, <1>2 DEF Counting, Removing, Loads
<1>4. /\ bytes' \in [Erasers -> Nat] /\ bytes'[t] = 0
      /\ \A u \in Erasers : u # t => bytes'[u] = bytes[u]
  BY <1>1, <1>2
<1>5. /\ Total(bytes, Removing) = Total(bytes', Removing \ {t}) + bytes[t]
      /\ Total(bytes', Removing \ {t}) \in Nat /\ IsFiniteSet(Removing \ {t})
  <2>1. \A u \in Removing : bytes'[u] \in Nat
    BY <1>4, Weights
  <2>2. \A u \in Removing \ {t} : bytes'[u] = bytes[u]
    BY <1>4, Weights
  <2>3. /\ Total(bytes, Removing) = Total(bytes, Removing \ {t}) + bytes[t]
        /\ Total(bytes', Removing \ {t}) = Total(bytes, Removing \ {t})
        /\ Total(bytes, Removing \ {t}) \in Nat /\ IsFiniteSet(Removing \ {t})
    BY <1>3, <2>1, <2>2, OneRemoves
  <2> QED BY <2>3
<1>6. MapInv'
  BY <1>1, Elsewhere DEF mapVars, CountInv
<1>7. MemtableTypeOK'
  <2>1. size' \in Nat
    BY <1>1, <1>2
  <2> QED BY <1>1, <1>2, <1>4, <2>1 DEF CountInv, MemtableTypeOK
<1>8. FewAtWork'
  <2>1. \A u \in Erasers : erasing'[u] \notin {"remove", "store"} => bytes'[u] = 0
    BY <1>1, <1>2, <1>4 DEF CountInv, FewAtWork
  <2> QED BY <1>1, <1>3, <1>5, <2>1 DEF CountInv, FewAtWork
<1>9. ~raced' => Conserved' /\ StoreAlone'
  <2>1. ~raced' => size' = size - bytes[t] /\ bytes[t] \in Nat /\ Conserved
    BY <1>1, <1>2 DEF CountInv, StoreAlone
  <2>2. ~raced' => StoreAlone'
    BY <1>1, <1>2 DEF CountInv, StoreAlone
  <2>3. size' = size - bytes[t] /\ bytes[t] \in Nat /\ Conserved => Conserved'
    BY <1>1, <1>2, <1>3, <1>5, Weights DEF Conserved
  <2> QED BY <2>1, <2>2, <2>3
<1> QED BY <1>6, <1>7, <1>8, <1>9 DEF CountInv

LEMMA AtRest ==
  ASSUME CountInv, Quiet
  PROVE  Counting = {} /\ Removing = {} /\ \A t \in Erasers : bytes[t] = 0
  BY DEF Quiet, Counting, Removing, CountInv, FewAtWork

LEMMA ClearCount == ASSUME CountInv, Clear PROVE CountInv'
<1>1. /\ Quiet /\ data' = {} /\ size' = 0 /\ sequence' = 0 /\ held' = {} /\ raced' = FALSE
      /\ UNCHANGED <<inserting, new, number, erasing, device, doomed, bytes, current, erasures>>
  BY DEF Clear, insertion, erasure
<1>2. Counting' = {} /\ Removing' = {} /\ IsFiniteSet({})
  BY <1>1, AtRest, FS_EmptySet DEF Counting, Removing
<1>3. MapInv'
  BY ClearMap DEF CountInv
<1>4. MemtableTypeOK'
  BY <1>1 DEF CountInv, MemtableTypeOK
<1>5. FewAtWork'
  BY <1>1, <1>2, AtRest DEF FewAtWork
<1>6. Conserved'
  BY <1>1, <1>2, TotalEmpty DEF Conserved
<1>7. StoreAlone'
  BY <1>1 DEF StoreAlone, Quiet
<1> QED BY <1>3, <1>4, <1>5, <1>6, <1>7 DEF CountInv

LEMMA StepCount == CountInv /\ [MemtableNext]_memtableVars => CountInv'
<1> SUFFICES ASSUME CountInv, [MemtableNext]_memtableVars PROVE CountInv'
  OBVIOUS
<1>1. CASE UNCHANGED memtableVars
  <2>1. MapInv'
    BY <1>1, Elsewhere DEF memtableVars, insertion, mapVars, CountInv
  <2>2. Counting' = Counting /\ Removing' = Removing /\ Loads' = Loads
    BY <1>1 DEF memtableVars, insertion, erasure, Counting, Removing, Loads
  <2> QED BY <1>1, <2>1, <2>2
      DEF memtableVars, insertion, erasure, CountInv, MemtableTypeOK, FewAtWork, Conserved, StoreAlone
<1> QED
  BY <1>1, TakeNumberCount, PutCount, CountCount, CollectCount, TakeOutCount, LoadCount, StoreCount,
    ClearCount
  DEF MemtableNext, Insert, Erase

\* The map, the counter and the tasks stay of their types; the counter never goes below zero.
THEOREM MemtableTypes == MemtableSpec => []MemtableTypeOK
<1>1. CountInv => MemtableTypeOK
  BY DEF CountInv
<1> QED BY <1>1, InitCount, StepCount, PTL DEF MemtableSpec

\* The counter should_flush goes by is what the map holds whenever no insert or deletion is under
\* way and none overlapped a deletion's load and store since the last flush.
THEOREM CounterExact == MemtableSpec => []CountExact
<1>1. CountInv => CountExact
  <2> SUFFICES ASSUME CountInv, Quiet, ~raced PROVE size = BytesOf(data)
    BY DEF CountExact
  <2>1. Conserved /\ size \in Nat
    BY DEF CountInv, MemtableTypeOK
  <2>2. size = Total(Sizes, data)
    <3>1. Counting = {} /\ Removing = {}
      BY AtRest
    <3>2. Total(Loads, Counting) = 0 /\ Total(bytes, Removing) = 0
      BY <3>1, TotalEmpty
    <3>3. Total(Sizes, data) \in Nat
      BY Weights
    <3> QED BY <2>1, <3>2, <3>3 DEF Conserved
  <2> QED BY <2>2, Weights, BytesTotal
<1> QED BY <1>1, InitCount, StepCount, PTL DEF MemtableSpec

----------------------------------------------------------------------------
(* Tables: the invariant of the writer                                     *)

\* What the file has at each step of the writer.
FileInv ==
  /\ writer = "none" => entries = <<>>
  /\ writer \in {"none", "adding"} => ~footed /\ header = 0
  /\ writer \in {"header", "finished"} => footed
  /\ header > 0 => footed
  /\ writer = "header" => header < Len(HeaderParts)

\* The bits and the applications are those of the entries.
SummaryInv ==
  /\ bits = UNION {Hashes[entries[i].key[1]] : i \in DOMAIN entries}
  /\ appsSeen = {entries[i].app : i \in DOMAIN entries} \ {NoApp}

\* The inductive invariant.
TableInv == TableTypeOK /\ FileInv /\ SummaryInv

LEMMA SixParts == Len(HeaderParts) = 6
  BY DEF HeaderParts

LEMMA KeyParts ==
  ASSUME NEW k \in Keys
  PROVE  /\ k[1] \in Devices /\ k[1] \in Int
         /\ k[2] \in Times /\ k[2] \in 0..Latest
         /\ k[3] \in 0..Latest
<1>1. k[1] \in Devices /\ k[2] \in Times /\ k[3] \in Sequence
  BY DEF Keys
<1>2. k[1] \in Nat
  BY <1>1, DevicesAssumption
<1>3. k[2] \in 0..Latest /\ k[3] \in 0..Latest
  <2> HIDE DEF Latest
  <2> QED BY <1>1, KeysAssumption, Zenon
<1> QED BY <1>1, <1>2, <1>3

Triples == Int \X Int \X Int

LEMMA KeyTriple == Keys \subseteq Triples
<1> SUFFICES ASSUME NEW k \in Keys PROVE k \in Triples
  OBVIOUS
<1>1. k = <<k[1], k[2], k[3]>>
  BY DEF Keys
<1>2. k[1] \in Int /\ k[2] \in Int /\ k[3] \in Int
  <2>1. Latest \in Int
    BY DEF Latest
  <2> QED BY <2>1, KeyParts
<1> QED BY <1>1, <1>2 DEF Triples

\* The order of keys is one.
LEMMA BelowBelow ==
  ASSUME NEW k \in Triples, NEW l \in Triples, NEW m \in Triples, Below(k, l)
  PROVE  /\ Below(l, m) => Below(k, m)
         /\ AtMost(l, m) => AtMost(k, m)
  BY DEF Triples, Below, AtMost

LEMMA InitTable == TableInit => TableInv
<1> SUFFICES ASSUME TableInit PROVE TableInv
  OBVIOUS
<1>1. entries = <<>> /\ entries \in Seq(Entries) /\ Len(entries) = 0 /\ DOMAIN entries = {}
  BY EmptySeq DEF TableInit
<1>2. TableTypeOK
  <2>1. /\ bits = {} /\ appsSeen = {} /\ body = 0 /\ header = 0 /\ footed = FALSE
        /\ writer = "none"
    BY DEF TableInit
  <2>2. \A i, j \in DOMAIN entries : i < j => Below(entries[i].key, entries[j].key)
    BY <1>1
  <2>3. 0 \in 0..0 /\ 0 \in 0..6 /\ 0 <= MaxEntries
    BY MaxEntriesAssumption
  <2> QED BY <1>1, <2>1, <2>2, <2>3, SixParts DEF TableTypeOK
<1>3. SummaryInv
  <2>1. UNION {Hashes[entries[i].key[1]] : i \in DOMAIN entries} = {}
    BY <1>1
  <2> QED BY <1>1, <2>1 DEF TableInit, SummaryInv
<1>4. FileInv
  BY <1>1, SixParts DEF TableInit, FileInv
<1> QED BY <1>2, <1>3, <1>4 DEF TableInv

\* Steps of the writer that add no entry.
LEMMA WriterTable ==
  ASSUME TableInv, Create \/ Spill \/ Finish \/ WriteHeader \/ Abandon
  PROVE  TableInv'
<1>1. UNCHANGED <<entries, bits, appsSeen>>
  BY DEF Create, Spill, Finish, WriteHeader, Abandon
<1>2. Len(entries) \in Nat /\ body \in 0..Len(entries) /\ header \in 0..6
  BY LenProperties, SixParts DEF TableInv, TableTypeOK
<1>3. writer' \in {"none", "adding", "header", "finished", "gone"} /\ footed' \in BOOLEAN
  BY DEF Create, Spill, Finish, WriteHeader, Abandon, fileVars, TableInv, TableTypeOK
<1>4. body' \in 0..Len(entries) /\ (footed' => body' = Len(entries))
  BY <1>2 DEF Create, Spill, Finish, WriteHeader, Abandon, fileVars, TableInv, TableTypeOK, FileInv
<1>5. header' \in 0..6 /\ FileInv'
  <2>1. CASE WriteHeader
    <3>1. header < 6 /\ header' = header + 1 /\ footed /\ footed' = footed
      BY <2>1, SixParts DEF WriteHeader, TableInv, FileInv
    <3>2. header' \in 0..6 /\ writer' = IF header' = 6 THEN "finished" ELSE "header"
      BY <1>2, <2>1, <3>1, SixParts DEF WriteHeader
    <3>3. header' # 6 => header' < 6
      BY <3>2
    <3> QED BY <3>1, <3>2, <3>3, SixParts DEF FileInv
  <2>2. CASE Finish
    <3>1. header = 0 /\ header' = 0 /\ footed' = TRUE /\ writer' = "header"
      BY <2>2 DEF Finish, TableInv, FileInv
    <3> QED BY <3>1, SixParts DEF FileInv
  <2>3. CASE Create \/ Spill \/ Abandon
    <3>1. header' = header /\ footed' = footed /\ entries' = entries
      BY <2>3 DEF Create, Spill, Abandon, fileVars
    <3>2. \/ writer' \in {writer, "gone"} /\ writer # "none"
          \/ writer = "none" /\ writer' = "adding"
      BY <2>3 DEF Create, Spill, Abandon
    <3> QED BY <1>2, <3>1, <3>2 DEF FileInv, TableInv
  <2> QED BY <2>1, <2>2, <2>3
<1>6. TableTypeOK'
  BY <1>1, <1>3, <1>4, <1>5, SixParts DEF TableInv, TableTypeOK
<1>7. SummaryInv'
  BY <1>1 DEF TableInv, SummaryInv
<1> QED BY <1>5, <1>6, <1>7 DEF TableInv

\* An entry goes above all others, and its device and application into the summaries.
LEMMA AddTable ==
  ASSUME TableInv, NEW e \in Entries, Add(e)
  PROVE  TableInv'
<1> DEFINE n == Len(entries)
<1>1. /\ n \in Nat /\ entries \in Seq(Entries) /\ DOMAIN entries = 1..n
      /\ \A i \in 1..n : entries[i] \in Entries
      /\ n < MaxEntries /\ MaxEntries \in Nat
  BY LenProperties, ElementOfSeq, MaxEntriesAssumption DEF Add, TableInv, TableTypeOK
<1>2. /\ entries' \in Seq(Entries) /\ Len(entries') = n + 1 /\ DOMAIN entries' = 1..(n + 1)
      /\ \A i \in 1..n : entries'[i] = entries[i]
      /\ entries'[n + 1] = e
  BY <1>1, AppendProperties DEF Add
<1>3. e.key \in Keys /\ e.app \in Apps \union {NoApp}
  BY DEF Entries
<1> HIDE DEF n
<1>4. \A i, j \in 1..(n + 1) : i < j => Below(entries'[i].key, entries'[j].key)
  <2> SUFFICES ASSUME NEW i \in 1..(n + 1), NEW j \in 1..(n + 1), i < j
               PROVE  Below(entries'[i].key, entries'[j].key)
    OBVIOUS
  <2>1. i \in 1..n /\ entries'[i] = entries[i]
    BY <1>1, <1>2
  <2>2. \A k \in 1..n : i < k => Below(entries[i].key, entries[k].key)
    BY <1>1, <2>1 DEF TableInv, TableTypeOK
  <2>3. CASE j # n + 1
    <3>1. j \in 1..n
      BY <1>1, <2>3
    <3> QED BY <1>2, <2>1, <2>2, <3>1
  <2>4. CASE j = n + 1
    <3>1. n \in 1..n /\ entries # <<>>
      BY <1>1, <2>1
    <3>2. Below(entries[n].key, e.key)
      BY <3>1 DEF Add, InOrder, n
    <3>3. i = n \/ Below(entries[i].key, entries[n].key)
      BY <2>1, <2>2, <3>1, <1>1
    <3>4. entries[i].key \in Triples /\ entries[n].key \in Triples /\ e.key \in Triples
      BY <1>1, <1>3, <2>1, <3>1, KeyTriple DEF Entries
    <3>5. Below(entries[i].key, e.key)
      BY <3>2, <3>3, <3>4, BelowBelow
    <3> QED BY <1>2, <2>1, <2>4, <3>5
  <2> QED BY <2>3, <2>4
<1>5. /\ writer' = writer /\ writer = "adding" /\ UNCHANGED <<body, footed, header>>
      /\ bits' = bits \union Hashes[e.key[1]]
      /\ appsSeen' = appsSeen \union ({e.app} \ {NoApp})
  BY DEF Add, SetBits, fileVars
<1>6. ~footed /\ header = 0
  BY <1>5 DEF TableInv, FileInv
<1>7. bits' \subseteq Bits /\ appsSeen' \subseteq Apps
  <2>1. Hashes[e.key[1]] \subseteq Bits
    BY <1>3, KeyParts DEF Bits
  <2> QED BY <1>3, <1>5, <2>1 DEF TableInv, TableTypeOK
<1>8. body \in 0..n /\ n + 1 <= MaxEntries
  <2>1. body \in 0..n
    BY DEF TableInv, TableTypeOK, n
  <2> QED BY <1>1, <2>1
<1>9. body' \in 0..(n + 1)
  BY <1>1, <1>5, <1>8
<1>10. TableTypeOK'
  <2>1. writer' \in {"none", "adding", "header", "finished", "gone"} /\ header' \in 0..6
        /\ footed' = FALSE
    BY <1>5, <1>6 DEF TableInv, TableTypeOK
  <2> QED BY <1>2, <1>4, <1>7, <1>8, <1>9, <2>1, SixParts DEF TableTypeOK
<1>11. FileInv'
  BY <1>5, <1>6 DEF FileInv
<1>12. SummaryInv'
  <2>1. \A x : x \in UNION {Hashes[entries'[i].key[1]] : i \in 1..(n + 1)} <=>
               x \in UNION {Hashes[entries[i].key[1]] : i \in 1..n} \/ x \in Hashes[e.key[1]]
    <3>1. 1..(n + 1) = 1..n \union {n + 1}
      BY <1>1
    <3> QED BY <1>2, <3>1
  <2>2. \A a : a \in {entries'[i].app : i \in 1..(n + 1)} <=>
               a \in {entries[i].app : i \in 1..n} \/ a = e.app
    <3>1. 1..(n + 1) = 1..n \union {n + 1}
      BY <1>1
    <3> QED BY <1>2, <3>1
  <2>3. bits' = UNION {Hashes[entries'[i].key[1]] : i \in 1..(n + 1)}
    BY <1>1, <1>5, <2>1 DEF TableInv, SummaryInv
  <2>4. appsSeen' = {entries'[i].app : i \in 1..(n + 1)} \ {NoApp}
    BY <1>1, <1>5, <2>2 DEF TableInv, SummaryInv
  <2> QED BY <1>2, <2>3, <2>4 DEF SummaryInv
<1> QED BY <1>10, <1>11, <1>12 DEF TableInv

LEMMA StepTable == TableInv /\ [TableNext]_tableVars => TableInv'
<1> SUFFICES ASSUME TableInv, [TableNext]_tableVars PROVE TableInv'
  OBVIOUS
<1>1. CASE \E e \in Entries : Add(e)
  BY <1>1, AddTable
<1>2. CASE Create \/ Spill \/ Finish \/ WriteHeader \/ Abandon
  BY <1>2, WriterTable
<1>3. CASE UNCHANGED tableVars
  BY <1>3 DEF tableVars, fileVars, TableInv, TableTypeOK, FileInv, SummaryInv
<1> QED BY <1>1, <1>2, <1>3 DEF TableNext
----------------------------------------------------------------------------
(* Tables: what a reader finds                                             *)

\* A file that opens is whole.
LEMMA OpensWhole ==
  ASSUME TableInv, Openable
  PROVE  /\ footed /\ body = Len(entries) /\ Index = entries /\ IterAll = entries
         /\ header \in 0..6 /\ entries \in Seq(Entries)
         /\ Len(entries) \in Nat /\ DOMAIN entries = 1..Len(entries)
         /\ \A i \in 1..Len(entries) : entries[i] \in Entries
<1>1. header >= 5 /\ header \in 0..6 /\ footed
  BY SixParts DEF TableInv, TableTypeOK, FileInv, Openable, NeededParts
<1>2. body = Len(entries) /\ Index = entries
  BY <1>1 DEF TableInv, TableTypeOK, Index
<1>3. /\ entries \in Seq(Entries) /\ Len(entries) \in Nat /\ DOMAIN entries = 1..Len(entries)
      /\ \A i \in 1..Len(entries) : entries[i] \in Entries
  BY LenProperties, ElementOfSeq DEF TableInv, TableTypeOK
<1>4. IterAll = entries
  BY <1>2, <1>3, SubSeqFull DEF IterAll
<1> QED BY <1>1, <1>2, <1>3, <1>4

LEMMA WholeTable == TableInv => WholeOrRefused
  BY OpensWhole DEF WholeOrRefused

LEMMA AppsTable == TableInv => SameApplications
  BY OpensWhole DEF SameApplications, ApplicationIds, TableInv, SummaryInv

\* The first entry of a device is the first of the table, or comes after one of another.
LEMMA DevicesTable == TableInv => EveryDeviceFound
<1> SUFFICES ASSUME TableInv, Openable
             PROVE  {e.key[1] : e \in IterUniqueDeviceFrames} = {e.key[1] : e \in ToSet(entries)}
  BY DEF EveryDeviceFound
<1> DEFINE n == Len(entries)
           initial == {i \in 1..n : i = 1 \/ entries[i - 1].key[1] # entries[i].key[1]}
<1>1. n \in Nat /\ DOMAIN entries = 1..n /\ Index = entries
  BY OpensWhole
<1>2. IterUniqueDeviceFrames = {entries[i] : i \in initial}
  BY <1>1 DEF IterUniqueDeviceFrames
<1>3. ToSet(entries) = {entries[i] : i \in 1..n}
  BY <1>1 DEF ToSet
<1>4. ASSUME NEW i \in 1..n
      PROVE  \E j \in initial : entries[j].key[1] = entries[i].key[1]
  <2> DEFINE S == {j \in 1..n : entries[j].key[1] = entries[i].key[1]}
  <2>1. S \in SUBSET Nat /\ i \in S
    BY <1>1
  <2> HIDE DEF S
  <2>2. PICK j \in S : \A m \in S : j <= m
    BY <2>1, LeastOf
  <2> USE DEF S
  <2>3. j \in 1..n /\ entries[j].key[1] = entries[i].key[1]
    BY <2>2
  <2>4. j # 1 => j - 1 \in 1..n /\ ~(j <= j - 1)
    BY <1>1, <2>3
  <2>5. j # 1 => j - 1 \notin S
    BY <2>2, <2>4
  <2> QED BY <2>3, <2>4, <2>5
<1>5. initial \subseteq 1..n
  OBVIOUS
<1> HIDE DEF n, initial
<1>6. \A d : (\E i \in initial : d = entries[i].key[1]) <=> \E i \in 1..n : d = entries[i].key[1]
  BY <1>4, <1>5
<1>7. /\ {e.key[1] : e \in IterUniqueDeviceFrames} = {entries[i].key[1] : i \in initial}
      /\ {e.key[1] : e \in ToSet(entries)} = {entries[i].key[1] : i \in 1..n}
  BY <1>2, <1>3
<1> QED BY <1>6, <1>7

\* The binary search finds the first entry not below the start of the range.
LEMMA PositionOf ==
  ASSUME TableInv, Openable, NEW k \in Triples
  PROVE  \E p \in 1..(Len(entries) + 1) :
           /\ Position(k) = p
           /\ \A i \in 1..Len(entries) : Below(entries[i].key, k) <=> i < p
<1> DEFINE n == Len(entries)
           S == {i \in 1..(n + 1) : i = n + 1 \/ ~Below(entries[i].key, k)}
           low == {i \in 1..n : Below(entries[i].key, k)}
<1>1. n \in Nat /\ DOMAIN entries = 1..n /\ Index = entries
      /\ \A i \in 1..n : entries[i] \in Entries
  BY OpensWhole
<1>2. \A i \in 1..n : entries[i].key \in Triples
  BY <1>1, KeyTriple DEF Entries
<1>3. \A i, j \in 1..n : i < j => Below(entries[i].key, entries[j].key)
  BY <1>1 DEF TableInv, TableTypeOK
<1>4. Position(k) = 1 + Cardinality(low)
  BY <1>1 DEF Position
<1> HIDE DEF n
<1>5. PICK p \in S : \A m \in S : p <= m
  <2>1. S \in SUBSET Nat /\ n + 1 \in S
    BY <1>1
  <2> HIDE DEF S
  <2> QED BY <2>1, LeastOf
<1>6. p \in 1..(n + 1) /\ (p = n + 1 \/ ~Below(entries[p].key, k))
  BY <1>5
<1>7. \A i \in 1..n : i < p => Below(entries[i].key, k)
  <2> TAKE i \in 1..n
  <2>1. i \in 1..(n + 1) /\ i # n + 1
    BY <1>1
  <2>2. i < p => i \notin S
    BY <1>1, <1>5, <1>6
  <2> QED BY <2>1, <2>2
<1>8. \A i \in 1..n : Below(entries[i].key, k) => i < p
  <2> SUFFICES ASSUME NEW i \in 1..n, Below(entries[i].key, k), p <= i PROVE FALSE
    BY <1>1, <1>6
  <2>1. p \in 1..n /\ ~Below(entries[p].key, k)
    BY <1>1, <1>6
  <2>2. p = i \/ Below(entries[p].key, entries[i].key)
    BY <1>1, <1>3, <2>1
  <2> QED BY <1>2, <2>1, <2>2, BelowBelow
<1>9. low = 1..(p - 1)
  <2>1. \A i : i \in 1..(p - 1) <=> i \in 1..n /\ i < p
    BY <1>1, <1>6
  <2> QED BY <2>1, <1>7, <1>8
<1>10. Cardinality(1..(p - 1)) = p - 1
  <2>1. p - 1 \in Nat
    BY <1>1, <1>6
  <2>2. Cardinality(1..(p - 1)) = IF 1 > p - 1 THEN 0 ELSE (p - 1) - 1 + 1
    BY <2>1, FS_Interval
  <2> QED BY <2>1, <2>2
<1> HIDE DEF low, S
<1>11. Position(k) = p
  BY <1>1, <1>4, <1>6, <1>9, <1>10
<1> QED BY <1>6, <1>7, <1>8, <1>11 DEF n

\* From there the scan takes entries up to the first past the end.
LEMMA ScanTakes ==
  ASSUME TableInv, Openable, NEW d \in Devices, NEW from \in Ends, NEW to \in Ends,
         MightContain(d)
  PROVE  \E p, q \in 1..(Len(entries) + 1) :
           /\ Scan(d, from, to) = SubSeq(entries, p, q - 1) /\ p <= q
           /\ \A i \in 1..Len(entries) :
                /\ Below(entries[i].key, RangeStart(d, from)) <=> i < p
                /\ i >= p => (AtMost(entries[i].key, RangeEnd(d, to)) <=> i < q)
<1> DEFINE n == Len(entries)
           start == RangeStart(d, from)
           stop == RangeEnd(d, to)
<1>1. n \in Nat /\ DOMAIN entries = 1..n /\ Index = entries
      /\ \A i \in 1..n : entries[i] \in Entries
  BY OpensWhole
<1>2. \A i \in 1..n : entries[i].key \in Triples
  BY <1>1, KeyTriple DEF Entries
<1>3. \A i, j \in 1..n : i < j => Below(entries[i].key, entries[j].key)
  BY <1>1 DEF TableInv, TableTypeOK
<1>4. start \in Triples /\ stop \in Triples
  <2>1. d \in Int /\ from \in Int /\ to \in Int
    BY DevicesAssumption, KeysAssumption DEF Ends, Unbounded, Latest
  <2> QED BY <2>1 DEF Triples, RangeStart, RangeEnd, Earliest, Latest
<1> HIDE DEF start, stop
<1>5. PICK p \in 1..(n + 1) : /\ Position(start) = p
                              /\ \A i \in 1..n : Below(entries[i].key, start) <=> i < p
  BY <1>4, PositionOf
<1> DEFINE past == {i \in p..n : ~AtMost(entries[i].key, stop)}
           end == IF past = {} THEN n ELSE Min(past) - 1
<1>6. Scan(d, from, to) = SubSeq(entries, p, end)
  <2>1. Position(RangeStart(d, from)) = p
    BY <1>5 DEF start
  <2>2. {i \in p..Len(Index) : ~AtMost(Index[i].key, RangeEnd(d, to))} = past
    BY <1>1 DEF stop
  <2> HIDE DEF past
  <2> QED BY <1>1, <2>1, <2>2 DEF Scan
<1> HIDE DEF n
<1>7. PICK q \in p..(n + 1) : /\ q = end + 1 /\ end \in Int
                              /\ \A i \in p..n : AtMost(entries[i].key, stop) <=> i < q
  <2>1. CASE past = {}
    <3>1. end \in Int /\ end + 1 = n + 1 /\ n + 1 \in p..(n + 1)
      BY <1>1, <1>5, <2>1
    <3>2. \A i \in p..n : AtMost(entries[i].key, stop) /\ i < n + 1
      BY <1>1, <1>5, <2>1
    <3> HIDE DEF end, past
    <3> QED BY <3>1, <3>2
  <2>2. CASE past # {}
    <3>1. past \in SUBSET Nat
      BY <1>1, <1>5
    <3>2. \E i \in past : \A j \in past : i <= j
      <4> HIDE DEF past
      <4> QED BY <2>2, <3>1, LeastOf
    <3> DEFINE m == Min(past)
    <3>3. m \in past /\ \A j \in past : m <= j
      <4> HIDE DEF past
      <4> QED BY <3>2 DEF Min
    <3>4. end = m - 1
      BY <2>2
    <3> HIDE DEF m, end
    <3>5. m \in p..n /\ ~AtMost(entries[m].key, stop) /\ end + 1 = m /\ end \in Int
      BY <1>1, <1>5, <3>3, <3>4
    <3>6. \A i \in p..n : i < m => AtMost(entries[i].key, stop)
      BY <1>5, <3>3, <3>5
    <3>7. \A i \in p..n : AtMost(entries[i].key, stop) => i < m
      <4> SUFFICES ASSUME NEW i \in p..n, AtMost(entries[i].key, stop), m <= i PROVE FALSE
        BY <1>1, <1>5, <3>5
      <4>1. m \in 1..n /\ i \in 1..n
        BY <1>1, <1>5, <3>5
      <4>2. m = i \/ Below(entries[m].key, entries[i].key)
        BY <1>3, <4>1 DEF n
      <4> QED BY <1>2, <1>4, <3>5, <4>1, <4>2, BelowBelow DEF n
    <3>8. m \in p..(n + 1)
      BY <1>1, <1>5, <3>5
    <3> QED BY <3>5, <3>6, <3>7, <3>8
  <2> QED BY <2>1, <2>2
<1> HIDE DEF past, end
<1>8. q \in 1..(n + 1) /\ p <= q /\ end = q - 1
  BY <1>1, <1>5, <1>7
<1>9. \A i \in 1..n : i >= p => (AtMost(entries[i].key, stop) <=> i < q)
  BY <1>1, <1>5, <1>7
<1> QED BY <1>5, <1>6, <1>8, <1>9 DEF n, start, stop

\* What lies between the ends of a range is what it asks for.
LEMMA InRange ==
  ASSUME NEW k \in Keys, NEW d \in Devices, NEW from \in Ends, NEW to \in Ends
  PROVE  ~Below(k, RangeStart(d, from)) /\ AtMost(k, RangeEnd(d, to))
           <=> k[1] = d /\ Covers(from, to, k[2])
<1>1. k[1] \in Int /\ k[2] \in 0..Latest /\ k[3] \in 0..Latest /\ k = <<k[1], k[2], k[3]>>
  BY KeyParts DEF Keys
<1>2. d \in Int /\ from \in 0..Latest \union {Unbounded} /\ to \in 0..Latest \union {Unbounded}
  <2>1. Times \subseteq 0..Latest
    BY KeysAssumption
  <2> HIDE DEF Latest, Unbounded
  <2> QED BY <2>1, DevicesAssumption DEF Ends
<1> DEFINE x == k[1]
           y == k[2]
           z == k[3]
           low == IF from = Unbounded THEN Earliest ELSE from
           high == IF to = Unbounded THEN Latest ELSE to
<1>3. Below(k, RangeStart(d, from)) <=> x < d \/ (x = d /\ (y < low \/ (y = low /\ z < 0)))
  BY DEF Below, RangeStart
<1>4. Below(k, RangeEnd(d, to)) <=> x < d \/ (x = d /\ (y < high \/ (y = high /\ z < Latest)))
  BY DEF Below, RangeEnd
<1>5. k = RangeEnd(d, to) <=> x = d /\ y = high /\ z = Latest
  BY <1>1 DEF RangeEnd
<1>6. low \in Int /\ high \in Int /\ x \in Int /\ y \in 0..1000 /\ z \in 0..1000
  <2>1. from \in Int /\ to \in Int
    BY <1>2 DEF Unbounded, Latest
  <2> QED BY <1>1, <2>1 DEF Earliest, Latest
<1>7. Covers(from, to, y) <=> low <= y /\ y <= high
  <2> HIDE DEF y
  <2>1. (from = Unbounded \/ from <= y) <=> low <= y
    BY <1>6 DEF Earliest, Unbounded
  <2>2. (to = Unbounded \/ y <= to) <=> y <= high
    BY <1>6 DEF Latest
  <2> QED BY <2>1, <2>2 DEF Covers
<1> HIDE DEF x, y, z, low, high
<1>8. ~(x < d \/ (x = d /\ (y < low \/ (y = low /\ z < 0)))) <=> x > d \/ (x = d /\ y >= low)
  BY <1>2, <1>6
<1>9. ((x < d \/ (x = d /\ (y < high \/ (y = high /\ z < 1000)))) \/ (x = d /\ y = high /\ z = 1000))
        <=> x < d \/ (x = d /\ y <= high)
  BY <1>2, <1>6
<1>10. (x > d \/ (x = d /\ y >= low)) /\ (x < d \/ (x = d /\ y <= high))
         <=> x = d /\ low <= y /\ y <= high
  BY <1>2, <1>6
<1>11. ~Below(k, RangeStart(d, from)) <=> x > d \/ (x = d /\ y >= low)
  BY <1>3, <1>8
<1>12. AtMost(k, RangeEnd(d, to)) <=> x < d \/ (x = d /\ y <= high)
  BY <1>4, <1>5, <1>9 DEF AtMost, Latest
<1>13. x = k[1] /\ y = k[2]
  BY DEF x, y
<1> QED BY <1>7, <1>10, <1>11, <1>12, <1>13

\* Without all its bits in the filter no entry is of the device.
LEMMA NoneMissed ==
  ASSUME TableInv, Openable, NEW d \in Devices, ~MightContain(d),
         NEW i \in 1..Len(entries)
  PROVE  entries[i].key[1] # d
<1>1. \A j \in DOMAIN entries : Hashes[entries[j].key[1]] \subseteq bits
  BY DEF TableInv, SummaryInv
<1>2. i \in DOMAIN entries
  BY OpensWhole
<1> QED BY <1>1, <1>2 DEF MightContain

LEMMA ScanTable == TableInv => ScanExact
<1> SUFFICES ASSUME TableInv, Openable, NEW d \in Devices, NEW from \in Ends, NEW to \in Ends
             PROVE  LET found == Scan(d, from, to)
                    IN /\ ToSet(found) = {e \in ToSet(entries) :
                                            e.key[1] = d /\ Covers(from, to, e.key[2])}
                       /\ \A i, j \in DOMAIN found : i < j => Below(found[i].key, found[j].key)
  BY DEF ScanExact
<1> DEFINE n == Len(entries)
           found == Scan(d, from, to)
           Sought(e) == e.key[1] = d /\ Covers(from, to, e.key[2])
<1>1. /\ n \in Nat /\ entries \in Seq(Entries) /\ DOMAIN entries = 1..n
      /\ \A i \in 1..n : entries[i] \in Entries /\ entries[i].key \in Keys
  BY OpensWhole DEF Entries
<1>2. ToSet(entries) = {entries[i] : i \in 1..n}
  BY <1>1 DEF ToSet
<1>3. CASE ~MightContain(d)
  <2>1. found = <<>> /\ DOMAIN found = {} /\ ToSet(found) = {}
    BY <1>3 DEF Scan, ToSet
  <2>2. \A i \in 1..n : ~Sought(entries[i])
    BY <1>3, NoneMissed
  <2> QED BY <1>2, <2>1, <2>2
<1>4. CASE MightContain(d)
  <2> HIDE DEF n
  <2>1. PICK p \in 1..(n + 1), q \in 1..(n + 1) :
          /\ found = SubSeq(entries, p, q - 1) /\ p <= q
          /\ \A i \in 1..n : /\ Below(entries[i].key, RangeStart(d, from)) <=> i < p
                             /\ i >= p => (AtMost(entries[i].key, RangeEnd(d, to)) <=> i < q)
    BY <1>4, ScanTakes DEF n
  <2>2. \A i \in 1..n : Sought(entries[i]) <=> p <= i /\ i < q
    <3> TAKE i \in 1..n
    <3>1. Sought(entries[i]) <=> /\ ~Below(entries[i].key, RangeStart(d, from))
                                 /\ AtMost(entries[i].key, RangeEnd(d, to))
      BY <1>1, InRange
    <3>2. ~Below(entries[i].key, RangeStart(d, from)) <=> p <= i
      BY <1>1, <2>1
    <3> QED BY <1>1, <2>1, <3>1, <3>2
  <2> HIDE DEF Sought, found
  <2>3. /\ Len(found) = q - p /\ DOMAIN found = 1..(q - p)
        /\ \A i \in 1..(q - p) : found[i] = entries[p + i - 1]
    <3>1. \A i \in p..(q - 1) : entries[i] \in Entries
      BY <1>1, <2>1
    <3>2. p \in Int /\ q - 1 \in Int /\ (p <= q - 1 => q - 1 - p + 1 = q - p)
          /\ (p > q - 1 => q - p = 0)
      BY <1>1, <2>1
    <3>3. /\ Len(found) = IF p <= q - 1 THEN q - 1 - p + 1 ELSE 0
          /\ found \in Seq(Entries)
          /\ \A i \in 1..(q - 1 - p + 1) : found[i] = entries[p + i - 1]
      BY <2>1, <3>1, <3>2, SubSeqProperties
    <3>4. Len(found) = q - p /\ q - 1 - p + 1 = q - p
      BY <1>1, <2>1, <3>2, <3>3
    <3> QED BY <3>3, <3>4, LenProperties
  <2>4. \A i \in 1..(q - p) : p + i - 1 \in 1..n /\ p <= p + i - 1 /\ p + i - 1 < q
    BY <1>1, <2>1
  <2>5. \A i \in 1..n : p <= i /\ i < q => i - p + 1 \in 1..(q - p) /\ p + (i - p + 1) - 1 = i
    BY <1>1, <2>1
  <2>6. ToSet(found) = {found[i] : i \in 1..(q - p)}
    BY <2>3 DEF ToSet
  <2>7. \A e \in ToSet(found) : e \in ToSet(entries) /\ Sought(e)
    BY <1>2, <2>2, <2>3, <2>4, <2>6
  <2>8. ASSUME NEW e \in ToSet(entries), Sought(e) PROVE e \in ToSet(found)
    <3>1. PICK i \in 1..n : e = entries[i]
      BY <1>2
    <3>2. p <= i /\ i < q
      BY <2>2, <2>8, <3>1
    <3>3. i - p + 1 \in 1..(q - p) /\ found[i - p + 1] = e
      BY <2>3, <2>5, <3>1, <3>2
    <3> QED BY <2>6, <3>3
  <2>9. ASSUME NEW i \in DOMAIN found, NEW j \in DOMAIN found, i < j
        PROVE  Below(found[i].key, found[j].key)
    <3>1. p + i - 1 \in 1..n /\ p + j - 1 \in 1..n /\ p + i - 1 < p + j - 1
      <4>1. i \in 1..(q - p) /\ j \in 1..(q - p)
        BY <2>3
      <4>2. i \in Nat /\ j \in Nat /\ p \in Nat
        BY <1>1, <2>1, <4>1
      <4> QED BY <2>4, <2>9, <4>1, <4>2
    <3>2. Below(entries[p + i - 1].key, entries[p + j - 1].key)
      BY <1>1, <3>1 DEF TableInv, TableTypeOK
    <3>3. found[i] = entries[p + i - 1] /\ found[j] = entries[p + j - 1]
      BY <2>3
    <3> QED BY <3>2, <3>3
  <2>10. ToSet(found) = {e \in ToSet(entries) : Sought(e)}
    BY <2>7, <2>8
  <2> QED BY <2>9, <2>10 DEF Sought, found
<1> QED BY <1>3, <1>4

\* The writer's state and its file stay of their types: the entries are in the order of their keys.
THEOREM TableTypes == TableSpec => []TableTypeOK
<1>1. TableInv => TableTypeOK
  BY DEF TableInv
<1> QED BY <1>1, InitTable, StepTable, PTL DEF TableSpec

\* A file that opens is one the writer finished: all its entries, its header and its footer.
THEOREM TablesWhole == TableSpec => []WholeOrRefused
  BY InitTable, StepTable, WholeTable, PTL DEF TableSpec

\* scan returns the entries of the device in the range of times, in order and each once: the
\* entry the index sends it to is not beyond the first one wanted, and it stops after the last.
THEOREM ScansExact == TableSpec => []ScanExact
  BY InitTable, StepTable, ScanTable, PTL DEF TableSpec

\* iter_unique_device_frames, from which the registry is rebuilt, gives every device of the entries.
THEOREM DevicesFound == TableSpec => []EveryDeviceFound
  BY InitTable, StepTable, DevicesTable, PTL DEF TableSpec

\* application_ids collects from the frames of a table that opens every application whose frames the
\* writer was given, and no other.
THEOREM ApplicationsSame == TableSpec => []SameApplications
  BY InitTable, StepTable, AppsTable, PTL DEF TableSpec

----------------------------------------------------------------------------
(* The log: units and entries                                              *)

Units == [part : Parts, index : Nat, of : Frames \union {None}]
Width(f) == Size[f] + 7
\* The unit at each place of an entry.
UnitOf(f, k) ==
  IF k = 1 THEN Unit("magic", 1, None)
  ELSE IF k = 2 THEN Unit("magic", 2, None)
  ELSE IF k = 3 THEN Unit("version", 1, None)
  ELSE IF k = 4 THEN Unit("length", Size[f], None)
  ELSE IF k = 5 THEN Unit("length", 0, None)
  ELSE IF k = Size[f] + 6 THEN Unit("checksum", 1, f)
  ELSE IF k = Size[f] + 7 THEN Unit("checksum", 2, f)
  ELSE Unit("payload", k - 5, f)
\* An entry of f lies in s from unit i on.
Lies(f, s, i) == i + Width(f) <= Len(s) + 1 /\ \A k \in 1..Width(f) : s[i + k - 1] = UnitOf(f, k)

\* s is the m units of an entry of f behind the first o.
Reads(s, f, o, m) ==
  s \in Seq(Units) /\ Len(s) = m /\ \A k \in 1..m : s[k] = UnitOf(f, k + o)

\* The five slices, unit by unit.
LEMMA SliceUnits ==
  ASSUME NEW f \in Frames
  PROVE  /\ Size[f] \in Nat /\ Size[f] > 0
         /\ Reads(Magic, f, 0, 2) /\ Reads(Version, f, 2, 1) /\ Reads(Length(f), f, 3, 2)
         /\ Reads(Payload(f), f, 5, Size[f]) /\ Reads(Checksum(f), f, Size[f] + 5, 2)
<1>1. Size[f] \in Nat /\ Size[f] > 0
  BY SizeAssumption
<1>2. Reads(Magic, f, 0, 2)
  BY DEF Magic, Unit, Units, Parts, UnitOf, Reads
<1>3. Reads(Version, f, 2, 1)
  BY DEF Version, Unit, Units, Parts, UnitOf, Reads
<1>4. Reads(Length(f), f, 3, 2)
  <2>1. /\ Length(f) = <<Unit("length", Size[f], None), Unit("length", 0, None)>>
        /\ Unit("length", Size[f], None) \in Units /\ Unit("length", 0, None) \in Units
    BY <1>1 DEF Length, Unit, Units, Parts
  <2>2. UnitOf(f, 4) = Unit("length", Size[f], None) /\ UnitOf(f, 5) = Unit("length", 0, None)
    BY DEF UnitOf
  <2> QED BY <2>1, <2>2 DEF Reads
<1>5. Reads(Payload(f), f, 5, Size[f])
  <2>1. \A k \in 1..Size[f] : Unit("payload", k, f) \in Units
    BY <1>1 DEF Unit, Units, Parts
  <2>2. \A k \in 1..Size[f] : UnitOf(f, k + 5) = Unit("payload", k, f)
    BY <1>1 DEF UnitOf
  <2> QED BY <1>1, <2>1, <2>2 DEF Payload, Reads
<1>6. Reads(Checksum(f), f, Size[f] + 5, 2)
  <2>1. /\ Checksum(f) = <<Unit("checksum", 1, f), Unit("checksum", 2, f)>>
        /\ Unit("checksum", 1, f) \in Units /\ Unit("checksum", 2, f) \in Units
    BY DEF Checksum, Unit, Units, Parts
  <2>2. UnitOf(f, Size[f] + 6) = Unit("checksum", 1, f) /\ UnitOf(f, Size[f] + 7) = Unit("checksum", 2, f)
    BY <1>1 DEF UnitOf
  <2>3. 1 + (Size[f] + 5) = Size[f] + 6 /\ 2 + (Size[f] + 5) = Size[f] + 7
    BY <1>1
  <2>4. \A k \in 1..2 : k = 1 \/ k = 2
    OBVIOUS
  <2> QED BY <2>1, <2>2, <2>3, <2>4 DEF Reads
<1> QED BY <1>1, <1>2, <1>3, <1>4, <1>5, <1>6

\* What one slice behind another says.
LEMMA Join ==
  ASSUME NEW f, NEW o \in Nat, NEW s, NEW t, NEW m \in Nat, NEW n \in Nat, NEW p, NEW q,
         Reads(s, f, o, m), Reads(t, f, p, n), p = m + o, q = m + n
  PROVE  Reads(s \o t, f, o, q)
<1> DEFINE c == s \o t
<1>1. /\ s \in Seq(Units) /\ t \in Seq(Units) /\ Len(s) = m /\ Len(t) = n
      /\ \A k \in 1..m : s[k] = UnitOf(f, k + o)
      /\ \A k \in 1..n : t[k] = UnitOf(f, k + p)
  BY DEF Reads
<1>2. /\ c \in Seq(Units) /\ Len(c) = m + n
      /\ \A k \in 1..(m + n) : c[k] = IF k <= m THEN s[k] ELSE t[k - m]
  BY <1>1, ConcatProperties
<1> HIDE DEF c
<1>3. ASSUME NEW k \in 1..(m + n) PROVE c[k] = UnitOf(f, k + o)
  <2>1. CASE k <= m
    BY <1>1, <1>2, <2>1
  <2>2. CASE k > m
    <3>1. k - m \in 1..n /\ (k - m) + p = k + o /\ ~(k <= m)
      BY <2>2
    <3>2. t[k - m] = UnitOf(f, (k - m) + p)
      BY <1>1, <3>1
    <3> QED BY <1>2, <3>1, <3>2
  <2> QED BY <2>1, <2>2
<1>4. Reads(c, f, o, q)
  BY <1>2, <1>3 DEF Reads
<1> QED BY <1>4 DEF c

\* What replay compares with the units behind a magic.
LEMMA VerifiedUnits ==
  ASSUME NEW f \in Frames
  PROVE  Reads(Version \o Length(f) \o Payload(f) \o Checksum(f), f, 2, Size[f] + 5)
<1>1. Size[f] \in Nat /\ Size[f] + 3 \in Nat /\ Size[f] + 5 = (Size[f] + 3) + 2
      /\ Size[f] + 5 = (Size[f] + 3) + 2 /\ Size[f] + 3 = 3 + Size[f]
  BY SliceUnits
<1>2. Reads(Version \o Length(f), f, 2, 3)
  BY SliceUnits, Join
<1>3. Reads(Version \o Length(f) \o Payload(f), f, 2, Size[f] + 3)
  BY <1>1, <1>2, SliceUnits, Join
<1> QED BY <1>1, <1>3, SliceUnits, Join

\* What append writes of an entry is all of it, in order.
LEMMA EntryUnits == ASSUME NEW f \in Frames PROVE Reads(Entry(f), f, 0, Width(f))
<1>1. /\ Size[f] \in Nat /\ Size[f] + 5 \in Nat /\ Size[f] + 5 = 5 + Size[f]
      /\ Size[f] + 5 = (Size[f] + 5) + 0 /\ Width(f) = (Size[f] + 5) + 2
  BY SliceUnits DEF Width
<1>2. Reads(Magic \o Version, f, 0, 3)
  BY SliceUnits, Join
<1>3. Reads(Magic \o Version \o Length(f), f, 0, 5)
  BY <1>2, SliceUnits, Join
<1>4. Reads(Magic \o Version \o Length(f) \o Payload(f), f, 0, Size[f] + 5)
  <2>1. Reads(Payload(f), f, 5, Size[f])
    BY SliceUnits
  <2> HIDE DEF Entry
  <2> QED BY <1>1, <1>3, <2>1, Join
<1>5. Reads(Magic \o Version \o Length(f) \o Payload(f) \o Checksum(f), f, 0, Width(f))
  BY <1>1, <1>4, SliceUnits, Join
<1> QED BY <1>5 DEF Entry

\* The n units of s from i on are those of t.
Same(s, t, i, n) == \A k \in 1..n : s[i + k - 1] = t[k]

Part(s, i, m) == SubSeq(s, i, m)

\* The units of a part of s.
LEMMA PartOf ==
  ASSUME NEW s \in Seq(Units), NEW i \in 1..Len(s), NEW m, NEW n \in Nat,
         n # 0, m = i + n - 1, m <= Len(s)
  PROVE  /\ SubSeq(s, i, m) \in Seq(Units) /\ Len(SubSeq(s, i, m)) = n
         /\ \A k \in 1..n : SubSeq(s, i, m)[k] = s[i + k - 1]
<1> DEFINE r == SubSeq(s, i, m)
<1>1. i \in Int /\ m \in Int /\ i <= m /\ m - i + 1 = n /\ Len(s) \in Nat
  BY LenProperties
<1>2. \A j \in i..m : s[j] \in Units
  BY <1>1
<1>3. /\ r \in Seq(Units) /\ Len(r) = IF i <= m THEN m - i + 1 ELSE 0
      /\ \A k \in 1..(m - i + 1) : r[k] = s[i + k - 1]
  BY <1>1, <1>2, SubSeqProperties
<1> HIDE DEF r
<1>4. r \in Seq(Units) /\ Len(r) = n /\ \A k \in 1..n : r[k] = s[i + k - 1]
  BY <1>1, <1>3
<1> QED BY <1>4 DEF r

\* A part of s equals t unit by unit.
LEMMA SubSeqIs ==
  ASSUME NEW s \in Seq(Units), NEW t \in Seq(Units), NEW i \in 1..Len(s), NEW m, NEW n \in Nat,
         Len(t) = n, n # 0, m = i + n - 1, m <= Len(s)
  PROVE  Part(s, i, m) = t <=> Same(s, t, i, n)
<1> DEFINE r == SubSeq(s, i, m)
<1>1. r \in Seq(Units) /\ Len(r) = n /\ \A k \in 1..n : r[k] = s[i + k - 1]
  BY PartOf
<1> HIDE DEF r
<1>2. r = t <=> \A k \in 1..n : r[k] = t[k]
  <2>1. Len(r) = Len(t)
    BY <1>1
  <2>2. (\A k \in 1..Len(r) : r[k] = t[k]) => r = t
    BY <1>1, <2>1, SeqEqual
  <2> QED BY <1>1, <2>1, <2>2
<1> QED BY <1>1, <1>2 DEF r, Same, Part

\* The magic of an entry.
LEMMA MagicAt ==
  ASSUME NEW f \in Frames, NEW s \in Seq(Units), NEW i \in 1..Len(s), i + 1 <= Len(s)
  PROVE  SubSeq(s, i, i + 1) = Magic <=> s[i] = UnitOf(f, 1) /\ s[i + 1] = UnitOf(f, 2)
<1> DEFINE m == i + 1
           n == 2
<1>1. m = i + n - 1 /\ m <= Len(s) /\ n \in Nat /\ n # 0
  OBVIOUS
<1>2. Magic \in Seq(Units) /\ Len(Magic) = n /\ Magic[1] = UnitOf(f, 1) /\ Magic[2] = UnitOf(f, 2)
  BY SliceUnits DEF Reads
<1> HIDE DEF m, n
<1>3. Part(s, i, m) = Magic <=> Same(s, Magic, i, n)
  BY <1>1, <1>2, SubSeqIs
<1>4. Same(s, Magic, i, n) <=> s[i] = Magic[1] /\ s[i + 1] = Magic[2]
  <2>1. n = 2 /\ i + 1 - 1 = i /\ i + 2 - 1 = i + 1 /\ \A k \in 1..2 : k = 1 \/ k = 2
    BY DEF n
  <2> QED BY <2>1 DEF Same
<1>5. Part(s, i, m) = SubSeq(s, i, i + 1)
  BY DEF Part, m
<1> QED BY <1>2, <1>3, <1>4, <1>5

LEMMA EntryLies ==
  ASSUME NEW f \in Frames, NEW s \in Seq(Units), NEW i \in 1..Len(s)
  PROVE  (i + Len(Entry(f)) <= Len(s) + 1 /\ SubSeq(s, i, i + Len(Entry(f)) - 1) = Entry(f))
           <=> Lies(f, s, i)
<1> DEFINE e == Entry(f)
           w == Width(f)
<1>1. /\ e \in Seq(Units) /\ Len(e) = w /\ w \in Nat /\ w # 0
      /\ \A k \in 1..w : e[k] = UnitOf(f, k)
  <2>1. \A k \in 1..w : k + 0 = k
    OBVIOUS
  <2>2. w \in Nat /\ w # 0
    BY SliceUnits DEF Width
  <2> QED BY <2>1, <2>2, EntryUnits DEF Reads
<1> HIDE DEF e, w
<1>2. CASE i + w <= Len(s) + 1
  <2> DEFINE m == i + w - 1
  <2>1. m = i + w - 1 /\ m <= Len(s)
    BY <1>1, <1>2, LenProperties
  <2> HIDE DEF m
  <2>2. Part(s, i, m) = e <=> Same(s, e, i, w)
    BY <1>1, <2>1, SubSeqIs
  <2>3. Part(s, i, m) = SubSeq(s, i, i + Len(e) - 1)
    BY <1>1, <2>1 DEF Part
  <2> QED BY <1>1, <1>2, <2>2, <2>3 DEF Lies, e, w, Same
<1>3. CASE ~(i + w <= Len(s) + 1)
  BY <1>1, <1>3 DEF Lies, e, w
<1> QED BY <1>2, <1>3

\* What lies where.
LEMMA LiesOnce ==
  ASSUME NEW s \in Seq(Units), NEW f \in Frames, NEW h \in Frames, NEW i \in Nat,
         Lies(f, s, i), Lies(h, s, i)
  PROVE  f = h
<1>1. Size[f] \in Nat /\ Size[h] \in Nat /\ Size[f] > 0 /\ Size[h] > 0
  BY SliceUnits
<1>2. 4 \in 1..Width(f) /\ 4 \in 1..Width(h)
  BY <1>1 DEF Width
<1>3. UnitOf(f, 4) = UnitOf(h, 4)
  BY <1>2 DEF Lies
<1>4. Size[f] = Size[h]
  BY <1>3 DEF UnitOf, Unit
<1>5. Size[f] + 7 \in 1..Width(f) /\ Size[f] + 7 \in 1..Width(h)
  BY <1>1, <1>4 DEF Width
<1>6. UnitOf(f, Size[f] + 7) = UnitOf(h, Size[f] + 7)
  BY <1>5 DEF Lies
<1>7. UnitOf(f, Size[f] + 7) = Unit("checksum", 2, f) /\ UnitOf(h, Size[f] + 7) = Unit("checksum", 2, h)
  BY <1>1, <1>4 DEF UnitOf
<1> QED BY <1>6, <1>7 DEF Unit

LEMMA LiesApart ==
  ASSUME NEW s \in Seq(Units), NEW f \in Frames, NEW h \in Frames, NEW i \in Nat, NEW j \in Nat,
         Lies(f, s, i), Lies(h, s, j), i < j
  PROVE  i + Width(f) <= j
<1>1. Size[f] \in Nat /\ Size[h] \in Nat /\ Size[f] > 0 /\ Size[h] > 0
  BY SliceUnits
<1>2. SUFFICES ASSUME j < i + Width(f) PROVE FALSE
  BY <1>1 DEF Width
<1> DEFINE k == j - i + 1
<1>3. k \in 2..Width(f) /\ k \in 1..Width(f) /\ i + k - 1 = j /\ 1 \in 1..Width(h) /\ j + 1 - 1 = j
  BY <1>1, <1>2 DEF Width
<1> HIDE DEF k
<1>4. s[j] = UnitOf(f, k) /\ s[j] = UnitOf(h, 1)
  BY <1>3 DEF Lies
<1>5. UnitOf(h, 1) = Unit("magic", 1, None)
  BY DEF UnitOf
<1>6. UnitOf(f, k).part # "magic" \/ UnitOf(f, k).index = 2
  BY <1>3 DEF UnitOf, Unit
<1> QED BY <1>4, <1>5, <1>6 DEF Unit

----------------------------------------------------------------------------
(* The log: one entry by replay                                            *)

Sized(s, i) == LengthRead(s[i + 3], s[i + 4], Len(s))
\* Replay reads an entry at unit i to its end.
Goes(s, i) ==
  /\ i + 4 <= Len(s) /\ SubSeq(s, i, i + 1) = Magic
  /\ i + Sized(s, i) + 6 <= Len(s)
FoundAt(s, i) == Verified(s, i + 2, Sized(s, i))

LEMMA SizedNat ==
  ASSUME NEW s \in Seq(Units), NEW i \in 1..Len(s), i + 4 <= Len(s)
  PROVE  Sized(s, i) \in Nat
<1>1. s[i + 3] \in Units /\ Len(s) \in Nat
  BY LenProperties
<1> QED BY <1>1 DEF Sized, LengthRead, Units

LEMMA FoundLies ==
  ASSUME NEW s \in Seq(Units), NEW i \in 1..Len(s), NEW f \in Frames, Goes(s, i), f \in FoundAt(s, i)
  PROVE  Lies(f, s, i) /\ Size[f] = Sized(s, i)
<1> DEFINE z == Sized(s, i)
           v == Version \o Length(f) \o Payload(f) \o Checksum(f)
           n == Size[f] + 5
           b == i + 2
           m == i + 2 + z + 4
           q == z + 5
<1>1. z \in Nat /\ Len(s) \in Nat /\ i \in Nat /\ Size[f] \in Nat
  BY SizedNat, SliceUnits, LenProperties DEF Goes
<1>2. SubSeq(s, b, m) = v
  BY DEF FoundAt, Verified
<1>3. v \in Seq(Units) /\ Len(v) = n /\ \A k \in 1..n : v[k] = UnitOf(f, k + 2)
  BY VerifiedUnits DEF Reads
<1>4. i + z + 6 <= Len(s) /\ i + 1 <= Len(s)
  BY <1>1 DEF Goes
<1> HIDE DEF z
<1>5. q \in Nat /\ q # 0 /\ b \in 1..Len(s) /\ m = b + q - 1 /\ m <= Len(s)
  BY <1>1, <1>4
<1> HIDE DEF v, n, b, m, q
<1>6. Len(v) = q /\ \A k \in 1..q : v[k] = s[b + k - 1]
  BY <1>2, <1>5, PartOf
<1>7. n = q
  BY <1>3, <1>6
<1>8. \A k \in 1..n : s[b + k - 1] = UnitOf(f, k + 2)
  BY <1>3, <1>6, <1>7
<1>9. s[i] = UnitOf(f, 1) /\ s[i + 1] = UnitOf(f, 2)
  BY <1>4, MagicAt DEF Goes
<1>10. \A k \in 1..Width(f) : s[i + k - 1] = UnitOf(f, k)
  <2> TAKE k \in 1..Width(f)
  <2>1. CASE k = 1
    BY <1>1, <1>9, <2>1
  <2>2. CASE k = 2
    BY <1>1, <1>9, <2>2
  <2>3. CASE ~(k = 1 \/ k = 2)
    <3>1. k - 2 \in 1..n /\ b + (k - 2) - 1 = i + k - 1 /\ k - 2 + 2 = k
      BY <1>1, <2>3 DEF Width, n, b
    <3> QED BY <1>8, <3>1
  <2> QED BY <2>1, <2>2, <2>3
<1>11. Size[f] = z
  BY <1>1, <1>7 DEF n, q
<1> QED BY <1>1, <1>4, <1>10, <1>11 DEF Lies, Width, z

LEMMA LiesFound ==
  ASSUME NEW s \in Seq(Units), NEW i \in 1..Len(s), NEW f \in Frames, Lies(f, s, i)
  PROVE  Goes(s, i) /\ f \in FoundAt(s, i) /\ Sized(s, i) = Size[f]
<1>1. Len(s) \in Nat /\ i \in Nat /\ Size[f] \in Nat /\ Size[f] > 0
  BY SliceUnits, LenProperties
<1>2. i + Size[f] + 7 <= Len(s) + 1 /\ \A k \in 1..(Size[f] + 7) : s[i + k - 1] = UnitOf(f, k)
  BY <1>1 DEF Lies, Width
<1>3. s[i + 3] = UnitOf(f, 4) /\ s[i + 4] = UnitOf(f, 5) /\ s[i] = UnitOf(f, 1) /\ s[i + 1] = UnitOf(f, 2)
  <2>1. 4 \in 1..(Size[f] + 7) /\ 5 \in 1..(Size[f] + 7) /\ 1 \in 1..(Size[f] + 7) /\ 2 \in 1..(Size[f] + 7)
    BY <1>1
  <2>2. i + 4 - 1 = i + 3 /\ i + 5 - 1 = i + 4 /\ i + 1 - 1 = i /\ i + 2 - 1 = i + 1
    BY <1>1
  <2> QED BY <1>2, <2>1, <2>2
<1>4. Sized(s, i) = Size[f]
  BY <1>3 DEF Sized, LengthRead, UnitOf, Unit
<1>5. SubSeq(s, i, i + 1) = Magic
  <2>1. i + 1 <= Len(s)
    <3>1. i + Size[f] + 7 <= Len(s) + 1
      BY <1>2
    <3> QED BY <1>1, <3>1
  <2> QED BY <1>3, <2>1, MagicAt
<1>6. Goes(s, i)
  BY <1>1, <1>2, <1>4, <1>5 DEF Goes
<1> DEFINE v == Version \o Length(f) \o Payload(f) \o Checksum(f)
           n == Size[f] + 5
           b == i + 2
           m == i + 2 + Size[f] + 4
<1>7. v \in Seq(Units) /\ Len(v) = n /\ \A k \in 1..n : v[k] = UnitOf(f, k + 2)
  BY VerifiedUnits DEF Reads
<1>8. n \in Nat /\ n # 0 /\ b \in 1..Len(s) /\ m = b + n - 1 /\ m <= Len(s)
  <2>1. i + Size[f] + 7 <= Len(s) + 1
    BY <1>2
  <2>2. n \in Nat /\ n # 0 /\ b \in Nat /\ 1 <= b
    BY <1>1
  <2>3. b <= Len(s)
    BY <1>1, <2>1
  <2>4. m = b + n - 1
    BY <1>1
  <2>5. m <= Len(s)
    BY <1>1, <2>1
  <2>6. b \in 1..Len(s)
    BY <1>1, <2>2, <2>3
  <2> QED BY <2>2, <2>4, <2>5, <2>6
<1>9. Same(s, v, b, n)
  <2>1. ASSUME NEW k \in 1..n PROVE s[b + k - 1] = v[k]
    <3>1. k + 2 \in 1..(Size[f] + 7) /\ i + (k + 2) - 1 = b + k - 1
      BY <1>1
    <3>2. s[i + (k + 2) - 1] = UnitOf(f, k + 2)
      BY <1>2, <3>1
    <3> HIDE DEF n, b, v
    <3> QED BY <1>7, <3>1, <3>2
  <2> QED BY <2>1 DEF Same
<1>10. Part(s, b, m) = v
  <2> HIDE DEF n, b, v, m
  <2> QED BY <1>7, <1>8, <1>9, SubSeqIs
<1>11. f \in FoundAt(s, i)
  BY <1>4, <1>10 DEF FoundAt, Verified, Part
<1> QED BY <1>4, <1>6, <1>11

----------------------------------------------------------------------------
(* The log: the whole replay                                               *)

\* Where replay goes on after the entry at i.
Behind(s, i) == i + Sized(s, i) + 7
\* How it ends where it does not.
EndAt(s, i) ==
  IF i + 1 > Len(s) \/ SubSeq(s, i, i + 1) # Magic \/ i + 2 > Len(s) THEN Stop ELSE Failure
\* What replay makes of a segment, and the frames in it.
Results == [ok : BOOLEAN, frames : Seq(Frames)]
Taken(r) == {r.frames[k] : k \in DOMAIN r.frames}
Taking(f, r) == [r EXCEPT !.frames = <<f>> \o @]

LEMMA TakingTakes ==
  ASSUME NEW r \in Results, NEW f \in Frames
  PROVE  /\ Taking(f, r) \in Results /\ Taking(f, r).ok = r.ok
         /\ Taken(Taking(f, r)) = Taken(r) \union {f}
<1> DEFINE c == <<f>> \o r.frames
           n == Len(r.frames)
<1>1. r.frames \in Seq(Frames) /\ <<f>> \in Seq(Frames) /\ Len(<<f>>) = 1 /\ <<f>>[1] = f
  BY DEF Results
<1>2. n \in Nat /\ DOMAIN r.frames = 1..n
  BY <1>1, LenProperties
<1>3. /\ c \in Seq(Frames) /\ Len(c) = 1 + n
      /\ \A k \in 1..(1 + n) : c[k] = IF k <= 1 THEN <<f>>[k] ELSE r.frames[k - 1]
  BY <1>1, ConcatProperties
<1>4. Taking(f, r) = [r EXCEPT !.frames = c]
  BY DEF Taking
<1> HIDE DEF c, n
<1>5. Taking(f, r) \in Results /\ Taking(f, r).ok = r.ok /\ Taking(f, r).frames = c
  BY <1>3, <1>4 DEF Results
<1>6. DOMAIN c = 1..(1 + n)
  BY <1>3, LenProperties
<1>7. c[1] = f /\ \A k \in 1..n : k + 1 \in 1..(1 + n) /\ c[k + 1] = r.frames[k]
  <2>1. ASSUME NEW k \in 1..n PROVE k + 1 \in 1..(1 + n) /\ c[k + 1] = r.frames[k]
    <3>1. k + 1 \in 1..(1 + n) /\ ~(k + 1 <= 1) /\ k + 1 - 1 = k
      BY <1>2
    <3> QED BY <1>3, <3>1
  <2> QED BY <1>1, <1>2, <1>3, <2>1
<1>8. ASSUME NEW k \in 1..(1 + n) PROVE k = 1 \/ (k - 1 \in 1..n /\ c[k] = r.frames[k - 1])
  BY <1>2, <1>3
<1>9. \A x : x \in Taken(Taking(f, r)) <=> \E k \in 1..(1 + n) : x = c[k]
  BY <1>5, <1>6 DEF Taken
<1>10. \A x : x \in Taken(r) <=> \E k \in 1..n : x = r.frames[k]
  BY <1>2 DEF Taken
<1>11. 1 \in 1..(1 + n)
  BY <1>2
<1>12. ASSUME NEW x PROVE x \in Taken(Taking(f, r)) <=> x \in Taken(r) \/ x = f
  <2>1. ASSUME x \in Taken(Taking(f, r)) PROVE x \in Taken(r) \/ x = f
    <3>1. PICK k \in 1..(1 + n) : x = c[k]
      BY <1>9, <2>1
    <3>2. CASE k = 1
      BY <1>7, <3>1, <3>2
    <3>3. CASE k - 1 \in 1..n /\ c[k] = r.frames[k - 1]
      BY <1>10, <3>1, <3>3
    <3> QED BY <1>8, <3>2, <3>3
  <2>2. ASSUME x \in Taken(r) PROVE x \in Taken(Taking(f, r))
    <3>1. PICK k \in 1..n : x = r.frames[k]
      BY <1>10, <2>2
    <3>2. k + 1 \in 1..(1 + n) /\ x = c[k + 1]
      BY <1>7, <3>1
    <3> QED BY <1>9, <3>2
  <2>3. f \in Taken(Taking(f, r))
    BY <1>7, <1>9, <1>11
  <2> QED BY <2>1, <2>2, <2>3
<1> QED BY <1>5, <1>12

LEMMA AfterRange ==
  ASSUME NEW s \in Seq(Units), NEW i \in 1..Len(s), Goes(s, i)
  PROVE  Behind(s, i) \in 1..(Len(s) + 1) /\ Behind(s, i) > i
<1>1. Sized(s, i) \in Nat /\ Len(s) \in Nat /\ i \in Nat
  BY SizedNat, LenProperties DEF Goes
<1> QED BY <1>1 DEF Behind, Goes

\* What replay does at unit i, given h for the units behind.
LEMMA ReplayStep ==
  ASSUME NEW s \in Seq(Units), NEW i \in 1..(Len(s) + 1), NEW h
  PROVE  /\ ~(i \in 1..Len(s) /\ Goes(s, i)) => ReplayFrom(s, i, h) = EndAt(s, i)
         /\ i \in 1..Len(s) /\ Goes(s, i) /\ FoundAt(s, i) = {} => ReplayFrom(s, i, h) = h[Behind(s, i)]
         /\ \A f \in Frames : i \in 1..Len(s) /\ Goes(s, i) /\ f \in FoundAt(s, i) =>
              ReplayFrom(s, i, h) = Taking(f, h[Behind(s, i)])
<1>1. Len(s) \in Nat /\ i \in Nat
  BY LenProperties
<1>2. ASSUME ~(i \in 1..Len(s) /\ Goes(s, i)) PROVE ReplayFrom(s, i, h) = EndAt(s, i)
  <2>1. CASE i + 1 > Len(s) \/ SubSeq(s, i, i + 1) # Magic \/ i + 2 > Len(s)
    BY <2>1 DEF ReplayFrom, EndAt
  <2>2. CASE ~(i + 1 > Len(s) \/ SubSeq(s, i, i + 1) # Magic \/ i + 2 > Len(s)) /\ i + 4 > Len(s)
    BY <2>2 DEF ReplayFrom, EndAt
  <2>3. CASE ~(i + 1 > Len(s) \/ SubSeq(s, i, i + 1) # Magic \/ i + 2 > Len(s)) /\ ~(i + 4 > Len(s))
    <3>1. i \in 1..Len(s) /\ i + 4 <= Len(s) /\ SubSeq(s, i, i + 1) = Magic
      BY <1>1, <2>3
    <3>2. Sized(s, i) \in Nat
      BY <3>1, SizedNat
    <3>3. ~(i + Sized(s, i) + 6 <= Len(s))
      BY <1>2, <3>1 DEF Goes
    <3>4. i + Sized(s, i) + 6 > Len(s)
      BY <1>1, <3>2, <3>3
    <3> QED BY <2>3, <3>4 DEF ReplayFrom, Sized, EndAt
  <2> QED BY <2>1, <2>2, <2>3
<1>3. ASSUME i \in 1..Len(s), Goes(s, i)
      PROVE  ReplayFrom(s, i, h) =
               IF FoundAt(s, i) = {} THEN h[Behind(s, i)]
               ELSE Taking(CHOOSE f \in FoundAt(s, i) : TRUE, h[Behind(s, i)])
  <2>1. Sized(s, i) \in Nat
    BY <1>3, SizedNat DEF Goes
  <2>2. ~(i + 1 > Len(s) \/ SubSeq(s, i, i + 1) # Magic \/ i + 2 > Len(s)) /\ ~(i + 4 > Len(s))
    BY <1>1, <1>3 DEF Goes
  <2>3. ~(i + Sized(s, i) + 6 > Len(s))
    BY <1>1, <1>3, <2>1 DEF Goes
  <2> QED BY <2>2, <2>3 DEF ReplayFrom, Sized, FoundAt, Behind, Taking
<1>4. ASSUME NEW f \in Frames, i \in 1..Len(s), Goes(s, i), f \in FoundAt(s, i)
      PROVE  ReplayFrom(s, i, h) = Taking(f, h[Behind(s, i)])
  <2> DEFINE g == CHOOSE e \in FoundAt(s, i) : TRUE
  <2>1. g \in FoundAt(s, i) /\ g \in Frames
    BY <1>4 DEF FoundAt, Verified
  <2> HIDE DEF g
  <2>2. Lies(f, s, i) /\ Lies(g, s, i)
    BY <1>4, <2>1, FoundLies
  <2>3. f = g
    BY <1>1, <2>1, <2>2, LiesOnce
  <2> QED BY <1>3, <1>4, <2>3 DEF g
<1> QED BY <1>2, <1>3, <1>4

LEMMA ReplayTyped ==
  ASSUME NEW s \in Seq(Units), NEW i \in 1..(Len(s) + 1), NEW h,
         \A j \in 1..(Len(s) + 1) : j > i => h[j] \in Results
  PROVE  ReplayFrom(s, i, h) \in Results
<1>1. Stop \in Results /\ Failure \in Results
  BY DEF Stop, Failure, Results
<1> EndAt(s, i) \in Results
  BY <1>1 DEF EndAt
<1>2. CASE ~(i \in 1..Len(s) /\ Goes(s, i))
  BY <1>1, <1>2, ReplayStep
<1>3. CASE i \in 1..Len(s) /\ Goes(s, i)
  <2>1. h[Behind(s, i)] \in Results
    BY <1>3, AfterRange
  <2>2. CASE FoundAt(s, i) = {}
    BY <1>3, <2>1, <2>2, ReplayStep
  <2>3. ASSUME NEW f \in FoundAt(s, i) PROVE ReplayFrom(s, i, h) \in Results
    <3>1. f \in Frames
      BY <2>3 DEF FoundAt, Verified
    <3>2. ReplayFrom(s, i, h) = Taking(f, h[Behind(s, i)])
      BY <1>3, <2>3, <3>1, ReplayStep
    <3> QED BY <2>1, <3>1, <3>2, TakingTakes
  <2> QED BY <2>2, <2>3
<1> QED BY <1>2, <1>3

LEMMA ReplayDepends ==
  ASSUME NEW s \in Seq(Units), NEW i \in 1..(Len(s) + 1), NEW h, NEW g,
         \A j \in 1..(Len(s) + 1) : j > i => h[j] = g[j]
  PROVE  ReplayFrom(s, i, h) = ReplayFrom(s, i, g)
<1>1. CASE i \in 1..Len(s) /\ Goes(s, i)
  <2>1. h[Behind(s, i)] = g[Behind(s, i)]
    BY <1>1, AfterRange
  <2>2. CASE FoundAt(s, i) = {}
    BY <1>1, <2>1, <2>2, ReplayStep
  <2>3. ASSUME NEW f \in FoundAt(s, i) PROVE ReplayFrom(s, i, h) = ReplayFrom(s, i, g)
    <3>1. f \in Frames
      BY <2>3 DEF FoundAt, Verified
    <3> QED BY <1>1, <2>1, <2>3, <3>1, ReplayStep
  <2> QED BY <2>2, <2>3
<1>2. CASE ~(i \in 1..Len(s) /\ Goes(s, i))
  BY <1>2, ReplayStep
<1> QED BY <1>1, <1>2

\* The function by which ReplaySegment is defined exists, and its value at 1 is the replay.
LEMMA ReplayRuns ==
  ASSUME NEW s \in Seq(Units)
  PROVE  \E g : /\ g = [i \in 1..(Len(s) + 1) |-> ReplayFrom(s, i, g)]
                /\ ReplaySegment(s) = g[1]
<1> DEFINE n == Len(s) + 1
           Candidates == [1..n -> Results]
           step == [h \in Candidates |-> [i \in 1..n |-> ReplayFrom(s, i, h)]]
<1>1. n \in Nat
  BY LenProperties
<1>2. step \in [Candidates -> Candidates]
  <2>1. ASSUME NEW h \in Candidates, NEW i \in 1..n PROVE ReplayFrom(s, i, h) \in Results
    BY <2>1, ReplayTyped
  <2> QED BY <2>1
<1>3. Candidates # {}
  <2>1. Stop \in Results
    BY DEF Stop, Results
  <2>2. [i \in 1..n |-> Stop] \in Candidates
    BY <2>1
  <2> QED BY <2>2
<1>4. LooksUp(step, Candidates, n)
  <2>1. ASSUME NEW h \in Candidates, NEW g \in Candidates, NEW i \in 1..n, \A j \in 1..n : j > i => h[j] = g[j]
        PROVE  step[h][i] = step[g][i]
    <3>1. ReplayFrom(s, i, h) = ReplayFrom(s, i, g)
      BY <2>1, ReplayDepends
    <3> QED BY <3>1
  <2> HIDE DEF step, Candidates, n
  <2> QED BY <2>1 DEF LooksUp
<1>5. \E f \in Candidates : step[f] = f
  <2>1. Descends(step, Candidates, n)
    <3>1. \E A : Candidates = [1..n -> A]
      OBVIOUS
    <3> HIDE DEF step, n, Candidates
    <3> QED BY <1>1, <1>2, <1>3, <1>4, <3>1 DEF Descends
  <2> HIDE DEF step, n, Candidates
  <2> QED BY <2>1, Descent
<1>6. PICK f \in Candidates : f = [i \in 1..n |-> ReplayFrom(s, i, f)]
  BY <1>5
<1>7. f = [i \in 1..(Len(s) + 1) |-> ReplayFrom(s, i, f)]
  BY <1>6
<1> QED BY <1>7 DEF ReplaySegment

\* Replay takes only frames whose entry is in the segment.
LEMMA TakenLie ==
  ASSUME NEW s \in Seq(Units), NEW g, g = [i \in 1..(Len(s) + 1) |-> ReplayFrom(s, i, g)]
  PROVE  \A i \in 1..(Len(s) + 1) :
           g[i] \in Results /\ \A f \in Taken(g[i]) : f \in Frames /\ \E j \in 1..Len(s) : Lies(f, s, j)
<1> DEFINE n == Len(s) + 1
           Fine(i) == g[i] \in Results
                      /\ \A f \in Taken(g[i]) : f \in Frames /\ \E j \in 1..Len(s) : Lies(f, s, j)
           S == {i \in 1..n : Fine(i)}
<1>1. n \in Nat
  BY LenProperties
<1>2. ASSUME NEW i \in 1..n, \A j \in 1..n : j > i => j \in S PROVE i \in S
  <2>1. g[i] = ReplayFrom(s, i, g)
    OBVIOUS
  <2>2. g[i] \in Results
    BY <1>2, <2>1, ReplayTyped
  <2>3. CASE ~(i \in 1..Len(s) /\ Goes(s, i))
    <3>1. g[i] = Stop \/ g[i] = Failure
      BY <2>1, <2>3, ReplayStep DEF EndAt
    <3>2. Taken(g[i]) = {}
      BY <3>1 DEF Taken, Stop, Failure
    <3> QED BY <2>2, <3>2
  <2>4. CASE i \in 1..Len(s) /\ Goes(s, i)
    <3>1. Fine(Behind(s, i))
      BY <1>2, <2>4, AfterRange
    <3>2. CASE FoundAt(s, i) = {}
      BY <2>1, <2>4, <3>1, <3>2, ReplayStep
    <3>3. ASSUME NEW f \in FoundAt(s, i) PROVE Fine(i)
      <4>1. f \in Frames
        BY <3>3 DEF FoundAt, Verified
      <4>2. g[i] = Taking(f, g[Behind(s, i)])
        BY <2>1, <2>4, <3>3, <4>1, ReplayStep
      <4>3. Lies(f, s, i)
        BY <2>4, <3>3, <4>1, FoundLies
      <4>4. Taken(g[i]) = Taken(g[Behind(s, i)]) \union {f}
        BY <3>1, <4>1, <4>2, TakingTakes
      <4> QED BY <2>2, <2>4, <3>1, <4>1, <4>3, <4>4
    <3>4. Fine(i)
      BY <3>2, <3>3
    <3> QED BY <3>4
  <2> QED BY <2>3, <2>4
<1>3. \A i \in 1..n : i \in S
  <2> HIDE DEF S, n
  <2> QED BY <1>1, <1>2, CountDown
<1> QED BY <1>3

----------------------------------------------------------------------------
(* The log: whole segments                                                 *)

LEMMA CompleteLies ==
  ASSUME NEW s \in Seq(Units), NEW f \in Frames
  PROVE  f \in Complete(s) <=> \E i \in 1..Len(s) : Lies(f, s, i)
<1>1. DOMAIN s = 1..Len(s)
  BY LenProperties
<1>2. f \in Complete(s) <=> \E i \in 1..Len(s) :
        i + Len(Entry(f)) <= Len(s) + 1 /\ SubSeq(s, i, i + Len(Entry(f)) - 1) = Entry(f)
  BY <1>1 DEF Complete
<1>3. \A i \in 1..Len(s) :
        (i + Len(Entry(f)) <= Len(s) + 1 /\ SubSeq(s, i, i + Len(Entry(f)) - 1) = Entry(f))
          <=> Lies(f, s, i)
  BY EntryLies
<1> QED BY <1>2, <1>3

LEMMA WholeStep ==
  ASSUME NEW s \in Seq(Units), NEW i \in 1..(Len(s) + 1), NEW h
  PROVE  WholeFrom(s, i, h) <=>
           \/ i = Len(s) + 1
           \/ i \in 1..Len(s) /\ \E f \in Frames : Lies(f, s, i) /\ h[i + Width(f)]
<1>0. Len(s) \in Nat /\ i \in Nat
  BY LenProperties
<1>1. CASE i = Len(s) + 1
  BY <1>1 DEF WholeFrom
<1>2. CASE i # Len(s) + 1
  <2>1. i \in 1..Len(s)
    BY <1>0, <1>2
  <2>2. \A f \in Frames : Len(Entry(f)) = Width(f)
    BY EntryUnits DEF Reads
  <2>3. \A f \in Frames :
          (i + Len(Entry(f)) <= Len(s) + 1 /\ SubSeq(s, i, i + Len(Entry(f)) - 1) = Entry(f))
            <=> Lies(f, s, i)
    BY <2>1, EntryLies
  <2>4. WholeFrom(s, i, h) <=> \E f \in Frames :
          (i + Len(Entry(f)) <= Len(s) + 1 /\ SubSeq(s, i, i + Len(Entry(f)) - 1) = Entry(f))
          /\ h[i + Len(Entry(f))]
    BY <1>2 DEF WholeFrom
  <2> QED BY <1>2, <2>1, <2>2, <2>3, <2>4
<1> QED BY <1>1, <1>2

\* Behind an entry there is less of the segment.
LEMMA LiesBefore ==
  ASSUME NEW s \in Seq(Units), NEW i \in 1..Len(s), NEW f \in Frames, Lies(f, s, i)
  PROVE  i + Width(f) \in 1..(Len(s) + 1) /\ i + Width(f) > i
<1>1. Len(s) \in Nat /\ i \in Nat /\ Size[f] \in Nat /\ Size[f] > 0
  BY SliceUnits, LenProperties
<1> QED BY <1>1 DEF Lies, Width

LEMMA WholeDepends ==
  ASSUME NEW s \in Seq(Units), NEW i \in 1..(Len(s) + 1), NEW h, NEW g,
         \A j \in 1..(Len(s) + 1) : j > i => (h[j] <=> g[j])
  PROVE  WholeFrom(s, i, h) <=> WholeFrom(s, i, g)
<1>1. \A f \in Frames : i \in 1..Len(s) /\ Lies(f, s, i) => (h[i + Width(f)] <=> g[i + Width(f)])
  BY LiesBefore
<1> QED BY <1>1, WholeStep

\* The function by which Whole is defined exists.
LEMMA WholeRuns ==
  ASSUME NEW s \in Seq(Units)
  PROVE  \E w : /\ w \in [1..(Len(s) + 1) -> BOOLEAN]
                /\ \A i \in 1..(Len(s) + 1) : w[i] <=> WholeFrom(s, i, w)
                /\ Whole(s) <=> w[1]
<1> DEFINE n == Len(s) + 1
           Candidates == [1..n -> BOOLEAN]
           step == [h \in Candidates |-> [i \in 1..n |-> WholeFrom(s, i, h)]]
<1>1. n \in Nat
  BY LenProperties
<1>2. step \in [Candidates -> Candidates]
  <2>1. ASSUME NEW h \in Candidates, NEW i \in 1..n PROVE WholeFrom(s, i, h) \in BOOLEAN
    BY DEF WholeFrom
  <2> QED BY <2>1
<1>3. Candidates # {}
  <2>1. [i \in 1..n |-> TRUE] \in Candidates
    OBVIOUS
  <2> QED BY <2>1
<1>4. LooksUp(step, Candidates, n)
  <2>1. ASSUME NEW h \in Candidates, NEW g \in Candidates, NEW i \in 1..n, \A j \in 1..n : j > i => h[j] = g[j]
        PROVE  step[h][i] = step[g][i]
    <3>1. WholeFrom(s, i, h) <=> WholeFrom(s, i, g)
      BY <2>1, WholeDepends
    <3>2. WholeFrom(s, i, h) = WholeFrom(s, i, g)
      BY <3>1 DEF WholeFrom
    <3> QED BY <3>2
  <2> HIDE DEF step, Candidates, n
  <2> QED BY <2>1 DEF LooksUp
<1>5. \E f \in Candidates : step[f] = f
  <2>1. Descends(step, Candidates, n)
    <3>1. \E A : Candidates = [1..n -> A]
      OBVIOUS
    <3> HIDE DEF step, n, Candidates
    <3> QED BY <1>1, <1>2, <1>3, <1>4, <3>1 DEF Descends
  <2> HIDE DEF step, n, Candidates
  <2> QED BY <2>1, Descent
<1>6. PICK f \in Candidates : f = [i \in 1..n |-> WholeFrom(s, i, f)]
  BY <1>5
<1>7. \E w : w = [i \in 1..(Len(s) + 1) |-> WholeFrom(s, i, w)] /\ Whole(s) = w[1]
  BY <1>6 DEF Whole
<1>8. PICK w : w = [i \in 1..(Len(s) + 1) |-> WholeFrom(s, i, w)] /\ Whole(s) = w[1]
  BY <1>7
<1>9. w \in [1..(Len(s) + 1) -> BOOLEAN]
  BY <1>8 DEF WholeFrom
<1>10. \A i \in 1..(Len(s) + 1) : w[i] <=> WholeFrom(s, i, w)
  BY <1>8
<1>11. Whole(s) <=> w[1]
  BY <1>8
<1> QED BY <1>9, <1>10, <1>11

\* t is the front of s.
Begins(t, s) ==
  t \in Seq(Units) /\ Len(t) <= Len(s) /\ \A k \in 1..Len(t) : t[k] = s[k]

LEMMA FrontLies ==
  ASSUME NEW s \in Seq(Units), NEW t, Begins(t, s), NEW f \in Frames, NEW i \in 1..Len(t), Lies(f, t, i)
  PROVE  i \in 1..Len(s) /\ Lies(f, s, i)
<1>1. Len(s) \in Nat /\ Len(t) \in Nat /\ i \in Nat /\ Size[f] \in Nat /\ Size[f] > 0
  BY SliceUnits, LenProperties DEF Begins
<1>2. \A k \in 1..Width(f) : i + k - 1 \in 1..Len(t)
  BY <1>1 DEF Lies, Width
<1>3. i \in 1..Len(s) /\ i + Width(f) <= Len(s) + 1
  <2>1. i + Width(f) <= Len(t) + 1 /\ Len(t) <= Len(s) /\ Width(f) \in Nat
    BY <1>1 DEF Lies, Begins, Width
  <2> QED BY <1>1, <2>1
<1>4. \A k \in 1..Width(f) : s[i + k - 1] = UnitOf(f, k)
  <2> TAKE k \in 1..Width(f)
  <2>1. t[i + k - 1] = UnitOf(f, k)
    BY DEF Lies
  <2>2. t[i + k - 1] = s[i + k - 1]
    BY <1>2 DEF Begins
  <2> QED BY <2>1, <2>2
<1> QED BY <1>3, <1>4 DEF Lies

\* Replay of s goes through the whole entries of a front t and takes every frame in it.
LEMMA FrontTaken ==
  ASSUME NEW s \in Seq(Units), NEW t, Begins(t, s),
         NEW g, g = [i \in 1..(Len(s) + 1) |-> ReplayFrom(s, i, g)],
         NEW w, \A i \in 1..(Len(t) + 1) : w[i] <=> WholeFrom(t, i, w)
  PROVE  \A i \in 1..(Len(t) + 1) : w[i] =>
           /\ \A f \in Frames, j \in 1..Len(t) : i <= j /\ Lies(f, t, j) => f \in Taken(g[i])
           /\ Len(t) = Len(s) => g[i].ok
<1> DEFINE n == Len(t) + 1
           Full(i) == \A f \in Frames, j \in 1..Len(t) : i <= j /\ Lies(f, t, j) => f \in Taken(g[i])
           Fine(i) == Full(i) /\ (Len(t) = Len(s) => g[i].ok)
           S == {i \in 1..n : w[i] => Fine(i)}
<1>1. n \in Nat /\ Len(t) \in Nat /\ Len(s) \in Nat /\ t \in Seq(Units) /\ Len(t) <= Len(s)
  BY LenProperties DEF Begins
<1>2. ASSUME NEW i \in 1..n, \A j \in 1..n : j > i => j \in S, w[i] PROVE Fine(i)
  <2>0. i \in Nat /\ i \in 1..(Len(s) + 1) /\ g[i] = ReplayFrom(s, i, g)
    <3>1. i \in Nat /\ i \in 1..(Len(s) + 1)
      BY <1>1
    <3> HIDE DEF S
    <3>2. g[i] = ReplayFrom(s, i, g)
      BY <3>1
    <3> QED BY <3>1, <3>2
  <2>1. CASE i = Len(t) + 1
    <3>1. Full(i)
      BY <1>1, <2>1
    <3>2. ASSUME Len(t) = Len(s) PROVE g[i].ok
      <4>1. ~(i \in 1..Len(s) /\ Goes(s, i)) /\ i + 1 > Len(s)
        BY <1>1, <2>1, <3>2
      <4>2. g[i] = EndAt(s, i)
        BY <2>0, <4>1, ReplayStep
      <4> QED BY <4>1, <4>2 DEF EndAt, Stop
    <3> QED BY <3>1, <3>2
  <2>2. CASE i # Len(t) + 1
    <3>1. i \in 1..Len(t)
      BY <1>1, <2>0, <2>2
    <3>2. PICK h \in Frames : Lies(h, t, i) /\ w[i + Width(h)]
      BY <1>1, <1>2, <2>2, WholeStep
    <3>3. i \in 1..Len(s) /\ Lies(h, s, i)
      BY <3>1, <3>2, FrontLies
    <3>4. Goes(s, i) /\ h \in FoundAt(s, i) /\ Sized(s, i) = Size[h]
      BY <3>3, LiesFound
    <3> DEFINE a == i + Width(h)
    <3>5. Size[h] \in Nat /\ a = Behind(s, i)
      BY <2>0, <3>4, SliceUnits DEF Width, Behind
    <3>6. a \in 1..n /\ a > i
      BY <1>1, <3>1, <3>2, LiesBefore
    <3> HIDE DEF a
    <3>7. g[i] = Taking(h, g[a])
      BY <2>0, <3>3, <3>4, <3>5, ReplayStep
    <3>8. w[a]
      BY <3>2 DEF a
    <3>9. Fine(a)
      BY <1>2, <3>6, <3>8
    <3>10. a \in 1..(Len(s) + 1)
      BY <1>1, <3>6
    <3>11. g[a] \in Results
      BY <3>10, TakenLie
    <3>12. Taken(g[i]) = Taken(g[a]) \union {h} /\ g[i].ok = g[a].ok
      BY <3>7, <3>11, TakingTakes
    <3>13. Full(i)
      <4>1. ASSUME NEW f \in Frames, NEW j \in 1..Len(t), i <= j, Lies(f, t, j)
            PROVE  f \in Taken(g[i])
        <5>1. CASE i = j
          <6>1. f = h
            BY <1>1, <2>0, <3>2, <4>1, <5>1, LiesOnce
          <6> QED BY <3>12, <6>1
        <5>2. CASE i < j
          <6>1. j \in Nat
            BY <1>1
          <6>2. a <= j
            BY <1>1, <2>0, <3>2, <4>1, <5>2, <6>1, LiesApart DEF a
          <6>3. f \in Taken(g[a])
            BY <3>9, <4>1, <6>2
          <6> QED BY <3>12, <6>3
        <5> QED BY <2>0, <4>1, <5>1, <5>2
      <4> QED BY <4>1
    <3>14. Len(t) = Len(s) => g[i].ok
      BY <3>9, <3>12
    <3> QED BY <3>13, <3>14
  <2> QED BY <2>1, <2>2
<1>3. \A i \in 1..n : i \in S
  <2>1. \A i \in 1..n : (\A j \in 1..n : j > i => j \in S) => i \in S
    BY <1>2
  <2> HIDE DEF S, n
  <2> QED BY <1>1, <2>1, CountDown
<1> QED BY <1>3

LEMMA ReplaySound == ASSUME NEW s \in Seq(Units) PROVE Replay(s) \subseteq Complete(s)
<1>1. PICK g : g = [i \in 1..(Len(s) + 1) |-> ReplayFrom(s, i, g)] /\ ReplaySegment(s) = g[1]
  BY ReplayRuns
<1>2. 1 \in 1..(Len(s) + 1)
  BY LenProperties
<1>3. \A f \in Taken(g[1]) : f \in Frames /\ \E j \in 1..Len(s) : Lies(f, s, j)
  BY <1>1, <1>2, TakenLie
<1>4. Replay(s) = IF g[1].ok THEN Taken(g[1]) ELSE {}
  BY <1>1 DEF Replay, Taken
<1> QED BY <1>3, <1>4, CompleteLies

\* Replay takes all of a whole front, or nothing.
LEMMA ReplayFront ==
  ASSUME NEW s \in Seq(Units), NEW t, Begins(t, s), Whole(t)
  PROVE  /\ Replay(s) = {} \/ Complete(t) \subseteq Replay(s)
         /\ Len(t) = Len(s) => Complete(t) \subseteq Replay(s)
<1>1. PICK g : g = [i \in 1..(Len(s) + 1) |-> ReplayFrom(s, i, g)] /\ ReplaySegment(s) = g[1]
  BY ReplayRuns
<1>2. t \in Seq(Units)
  BY DEF Begins
<1>3. PICK w : /\ w \in [1..(Len(t) + 1) -> BOOLEAN]
               /\ \A i \in 1..(Len(t) + 1) : w[i] <=> WholeFrom(t, i, w)
               /\ Whole(t) <=> w[1]
  BY <1>2, WholeRuns
<1>4. 1 \in 1..(Len(t) + 1) /\ w[1] /\ \A j \in 1..Len(t) : 1 <= j
  BY <1>2, <1>3, LenProperties
<1>5. /\ \A f \in Frames, j \in 1..Len(t) : 1 <= j /\ Lies(f, t, j) => f \in Taken(g[1])
      /\ Len(t) = Len(s) => g[1].ok
  BY <1>1, <1>3, <1>4, FrontTaken
<1>6. Replay(s) = IF g[1].ok THEN Taken(g[1]) ELSE {}
  BY <1>1 DEF Replay, Taken
<1>7. Complete(t) \subseteq Taken(g[1])
  <2>1. \A f \in Complete(t) : f \in Frames
    BY DEF Complete
  <2> QED BY <1>2, <1>4, <1>5, <2>1, CompleteLies
<1> QED BY <1>5, <1>6, <1>7

LEMMA FrontOf ==
  ASSUME NEW s \in Seq(Units), NEW n \in 0..Len(s)
  PROVE  Begins(SubSeq(s, 1, n), s) /\ Len(SubSeq(s, 1, n)) = n
<1> DEFINE r == SubSeq(s, 1, n)
<1>1. Len(s) \in Nat /\ n \in Nat
  BY LenProperties
<1>2. \A j \in 1..n : s[j] \in Units
  BY <1>1
<1>3. /\ r \in Seq(Units) /\ Len(r) = IF 1 <= n THEN n - 1 + 1 ELSE 0
      /\ \A k \in 1..(n - 1 + 1) : r[k] = s[1 + k - 1]
  BY <1>1, <1>2, SubSeqProperties
<1> HIDE DEF r
<1>4. Len(r) = n /\ r \in Seq(Units) /\ \A k \in 1..n : r[k] = s[k]
  BY <1>1, <1>3
<1>5. Begins(r, s) /\ Len(r) = n
  BY <1>1, <1>4 DEF Begins
<1> QED BY <1>5 DEF r

LEMMA AllOrNothing ==
  ASSUME file \in Seq(Units)
  PROVE  ReplayAllOrNothing
<1>1. Replay(file) \subseteq Complete(file)
  BY ReplaySound
<1>2. ASSUME NEW n \in 0..Len(file), Whole(SubSeq(file, 1, n))
      PROVE  Replay(file) = {} \/ Replay(SubSeq(file, 1, n)) \subseteq Replay(file)
  <2>1. Begins(SubSeq(file, 1, n), file)
    BY FrontOf
  <2>2. Replay(file) = {} \/ Complete(SubSeq(file, 1, n)) \subseteq Replay(file)
    BY <1>2, <2>1, ReplayFront
  <2>3. Replay(SubSeq(file, 1, n)) \subseteq Complete(SubSeq(file, 1, n))
    BY <2>1, ReplaySound DEF Begins
  <2> QED BY <2>2, <2>3
<1> QED BY <1>1, <1>2 DEF ReplayAllOrNothing

----------------------------------------------------------------------------
(* The log: what append still has to write                                 *)

\* The units of an entry before its slice c, 6 standing for its end.
Upto(f, c) ==
  IF c = 1 THEN 0 ELSE IF c = 2 THEN 2 ELSE IF c = 3 THEN 3 ELSE IF c = 4 THEN 5
  ELSE IF c = 5 THEN Size[f] + 5 ELSE Size[f] + 7
\* r is the slices of f from c on.
Left(r, f, c) ==
  /\ r \in Seq(Seq(Units)) /\ Len(r) = 6 - c
  /\ \A k \in 1..(6 - c) : r[k] = Slices(f)[c + k - 1]
\* The last m units of s are the first of an entry of f.
EndsIn(s, f, m) == m <= Len(s) /\ \A k \in 1..m : s[Len(s) - m + k] = UnitOf(f, k)
\* An entry of f lies in the first n units of s.
Inside(s, f, n) == \E i \in 1..Len(s) : Lies(f, s, i) /\ i + Width(f) <= n + 1

Segment == file \in Seq(Units) /\ buffer \in Seq(Units) /\ Len(buffer) <= Capacity
Histories ==
  /\ up \in BOOLEAN /\ torn \in BOOLEAN
  /\ memtable \subseteq Frames /\ begun \subseteq Frames
  /\ durable \subseteq owed /\ owed \subseteq begun /\ unsure \subseteq begun
\* The entries of the frames that are owed are in the file, of those that are synced in the
\* part of it that a loss of power leaves.
Logged ==
  /\ synced \in 0..Len(file)
  /\ \A f \in owed : Inside(file, f, Len(file))
  /\ \A f \in durable : Inside(file, f, synced)
\* What of its entry append has written is the end of the file and the buffer.
Written ==
  /\ writing = None => calls = <<>>
  /\ writing # None => /\ writing \in begun
                       /\ \E c \in 1..6 : Left(calls, writing, c)
                                          /\ EndsIn(file \o buffer, writing, Upto(writing, c))
WalInv == Segment /\ Histories /\ Logged /\ Written /\ IntactLogServed

LEMMA UptoNat ==
  ASSUME NEW f \in Frames, NEW c \in 1..6
  PROVE  Upto(f, c) \in Nat /\ Upto(f, 1) = 0 /\ Upto(f, 6) = Width(f)
  BY SliceUnits DEF Upto, Width

\* Slice c is what comes behind the slices before it.
LEMMA SliceReads ==
  ASSUME NEW f \in Frames, NEW c \in 1..5
  PROVE  \E n \in Nat : Reads(Slices(f)[c], f, Upto(f, c), n) /\ Upto(f, c + 1) = Upto(f, c) + n
<1>1. Size[f] \in Nat
  BY SliceUnits
<1>2. /\ Slices(f)[1] = Magic /\ Slices(f)[2] = Version /\ Slices(f)[3] = Length(f)
      /\ Slices(f)[4] = Payload(f) /\ Slices(f)[5] = Checksum(f)
  BY DEF Slices
<1>3. CASE c = 1
  <2>1. Upto(f, c) = 0 /\ Upto(f, c + 1) = 2 /\ Slices(f)[c] = Magic
    BY <1>2, <1>3 DEF Upto
  <2>2. Reads(Slices(f)[c], f, Upto(f, c), 2) /\ Upto(f, c + 1) = Upto(f, c) + 2
    BY <2>1, SliceUnits
  <2> QED BY <2>2
<1>4. CASE c = 2
  <2>1. Upto(f, c) = 2 /\ Upto(f, c + 1) = 3 /\ Slices(f)[c] = Version
    BY <1>2, <1>4 DEF Upto
  <2>2. Reads(Slices(f)[c], f, Upto(f, c), 1) /\ Upto(f, c + 1) = Upto(f, c) + 1
    BY <2>1, SliceUnits
  <2> QED BY <2>2
<1>5. CASE c = 3
  <2>1. Upto(f, c) = 3 /\ Upto(f, c + 1) = 5 /\ Slices(f)[c] = Length(f)
    BY <1>2, <1>5 DEF Upto
  <2>2. Reads(Slices(f)[c], f, Upto(f, c), 2) /\ Upto(f, c + 1) = Upto(f, c) + 2
    BY <2>1, SliceUnits
  <2> QED BY <2>2
<1>6. CASE c = 4
  <2>1. Upto(f, c) = 5 /\ Upto(f, c + 1) = Size[f] + 5 /\ Slices(f)[c] = Payload(f)
    BY <1>2, <1>6 DEF Upto
  <2>2. Reads(Slices(f)[c], f, Upto(f, c), Size[f]) /\ Upto(f, c + 1) = Upto(f, c) + Size[f]
    BY <1>1, <2>1, SliceUnits
  <2> QED BY <1>1, <2>2
<1>7. CASE c = 5
  <2>1. Upto(f, c) = Size[f] + 5 /\ Upto(f, c + 1) = Size[f] + 7 /\ Slices(f)[c] = Checksum(f)
    BY <1>2, <1>7 DEF Upto
  <2>2. Reads(Slices(f)[c], f, Upto(f, c), 2) /\ Upto(f, c + 1) = Upto(f, c) + 2
    BY <1>1, <2>1, SliceUnits
  <2> QED BY <2>2
<1> QED BY <1>3, <1>4, <1>5, <1>6, <1>7

LEMMA LeftAll ==
  ASSUME NEW f \in Frames
  PROVE  Left(Slices(f), f, 1)
<1>1. /\ Magic \in Seq(Units) /\ Version \in Seq(Units) /\ Length(f) \in Seq(Units)
      /\ Payload(f) \in Seq(Units) /\ Checksum(f) \in Seq(Units)
  BY SliceUnits DEF Reads
<1> DEFINE A == Seq(Units)
<1>2. Slices(f) \in Seq(A) /\ Len(Slices(f)) = 5
  <2> HIDE DEF A
  <2>1. /\ Magic \in A /\ Version \in A /\ Length(f) \in A /\ Payload(f) \in A /\ Checksum(f) \in A
    BY <1>1 DEF A
  <2> QED BY <2>1 DEF Slices
<1>3. \A k \in 1..(6 - 1) : 1 + k - 1 = k
  OBVIOUS
<1> QED BY <1>2, <1>3 DEF Left

\* The next slice, and what is left behind it.
LEMMA LeftNext ==
  ASSUME NEW f \in Frames, NEW c \in 1..6, NEW r, Left(r, f, c), r # <<>>
  PROVE  c \in 1..5 /\ Head(r) = Slices(f)[c] /\ Head(r) \in Seq(Units) /\ Left(Tail(r), f, c + 1)
<1> DEFINE A == Seq(Units)
<1>1. r \in Seq(A) /\ Len(r) = 6 - c /\ \A k \in 1..(6 - c) : r[k] = Slices(f)[c + k - 1]
  BY DEF Left
<1> HIDE DEF A
<1>2. Len(r) # 0
  BY <1>1, EmptySeq
<1>3. c \in 1..5 /\ 1 \in 1..(6 - c) /\ c + 1 - 1 = c
  BY <1>1, <1>2
<1>4. /\ Head(r) \in A /\ Tail(r) \in Seq(A) /\ Len(Tail(r)) = Len(r) - 1 /\ Head(r) = r[1]
      /\ \A k \in 1..(Len(r) - 1) : Tail(r)[k] = r[k + 1]
  <2>1. Head(r) \in A /\ Tail(r) \in Seq(A)
    BY <1>1, HeadTailProperties
  <2>2. Len(Tail(r)) = Len(r) - 1 /\ \A k \in 1..Len(Tail(r)) : Tail(r)[k] = r[k + 1]
    BY <1>1, HeadTailProperties
  <2> QED BY <2>1, <2>2
<1>5. \A k \in 1..(6 - (c + 1)) : Tail(r)[k] = Slices(f)[(c + 1) + k - 1]
  <2> TAKE k \in 1..(6 - (c + 1))
  <2>1. k \in 1..(Len(r) - 1) /\ k + 1 \in 1..(6 - c) /\ c + (k + 1) - 1 = (c + 1) + k - 1
    BY <1>1, <1>3
  <2> QED BY <1>1, <1>4, <2>1
<1>6. Len(Tail(r)) = 6 - (c + 1)
  BY <1>1, <1>3, <1>4
<1> QED BY <1>1, <1>3, <1>4, <1>5, <1>6 DEF Left, A

LEMMA LeftDone ==
  ASSUME NEW f \in Frames, NEW c \in 1..6, Left(<<>>, f, c)
  PROVE  c = 6
  BY DEF Left

\* The last m units and then the next n.
LEMMA EndsMore ==
  ASSUME NEW f \in Frames, NEW s \in Seq(Units), NEW m \in Nat, NEW n \in Nat, NEW t,
         EndsIn(s, f, m), Reads(t, f, m, n)
  PROVE  s \o t \in Seq(Units) /\ EndsIn(s \o t, f, m + n)
<1> DEFINE u == s \o t
<1>1. t \in Seq(Units) /\ Len(t) = n /\ \A k \in 1..n : t[k] = UnitOf(f, k + m)
  BY DEF Reads
<1>2. /\ u \in Seq(Units) /\ Len(u) = Len(s) + n
      /\ \A k \in 1..(Len(s) + n) : u[k] = IF k <= Len(s) THEN s[k] ELSE t[k - Len(s)]
  BY <1>1, ConcatProperties
<1>3. Len(s) \in Nat /\ m <= Len(s) /\ \A k \in 1..m : s[Len(s) - m + k] = UnitOf(f, k)
  BY LenProperties DEF EndsIn
<1> HIDE DEF u
<1>4. \A k \in 1..(m + n) : u[Len(u) - (m + n) + k] = UnitOf(f, k)
  <2> TAKE k \in 1..(m + n)
  <2>1. Len(u) - (m + n) + k = Len(s) - m + k /\ Len(s) - m + k \in 1..(Len(s) + n)
    BY <1>2, <1>3
  <2>2. CASE k <= m
    <3>1. k \in 1..m /\ Len(s) - m + k <= Len(s)
      BY <1>3, <2>2
    <3> QED BY <1>2, <1>3, <2>1, <3>1
  <2>3. CASE k > m
    <3>1. k - m \in 1..n /\ ~(Len(s) - m + k <= Len(s)) /\ (Len(s) - m + k) - Len(s) = k - m
          /\ (k - m) + m = k
      BY <1>3, <2>3
    <3>2. t[k - m] = UnitOf(f, (k - m) + m)
      BY <1>1, <3>1
    <3> QED BY <1>2, <2>1, <3>1, <3>2
  <2> QED BY <2>2, <2>3
<1>5. m + n <= Len(u)
  BY <1>2, <1>3
<1>6. EndsIn(u, f, m + n)
  BY <1>4, <1>5 DEF EndsIn
<1> QED BY <1>2, <1>6 DEF u

LEMMA EndsLies ==
  ASSUME NEW f \in Frames, NEW s \in Seq(Units), EndsIn(s, f, Width(f))
  PROVE  Inside(s, f, Len(s))
<1> DEFINE i == Len(s) - Width(f) + 1
<1>1. Len(s) \in Nat /\ Width(f) \in Nat /\ Width(f) > 0 /\ Width(f) <= Len(s)
  BY SliceUnits, LenProperties DEF EndsIn, Width
<1>2. i \in 1..Len(s) /\ i + Width(f) <= Len(s) + 1
  BY <1>1
<1>3. \A k \in 1..Width(f) : s[i + k - 1] = UnitOf(f, k)
  <2> TAKE k \in 1..Width(f)
  <2>1. i + k - 1 = Len(s) - Width(f) + k
    BY <1>1
  <2> QED BY <2>1 DEF EndsIn
<1> HIDE DEF i
<1>4. Lies(f, s, i)
  BY <1>2, <1>3 DEF Lies
<1> QED BY <1>2, <1>4 DEF Inside

\* What lies within a front of s lies within s, and what lies within the first n units of s
\* within a front of as many.
LEMMA WithinFront ==
  ASSUME NEW s \in Seq(Units), NEW t, Begins(t, s), NEW f \in Frames, NEW n, Inside(t, f, n)
  PROVE  Inside(s, f, n)
  BY FrontLies DEF Inside

LEMMA WithinCut ==
  ASSUME NEW s \in Seq(Units), NEW t, Begins(t, s), NEW f \in Frames, NEW n \in Nat, Inside(s, f, n),
         n <= Len(t)
  PROVE  Inside(t, f, n)
<1>1. PICK i \in 1..Len(s) : Lies(f, s, i) /\ i + Width(f) <= n + 1
  BY DEF Inside
<1>2. Len(s) \in Nat /\ Len(t) \in Nat /\ i \in Nat /\ Size[f] \in Nat /\ Size[f] > 0
  BY SliceUnits, LenProperties DEF Begins
<1>3. i \in 1..Len(t) /\ i + Width(f) <= Len(t) + 1 /\ \A k \in 1..Width(f) : i + k - 1 \in 1..Len(t)
  BY <1>1, <1>2 DEF Width
<1>4. \A k \in 1..Width(f) : t[i + k - 1] = UnitOf(f, k)
  <2> TAKE k \in 1..Width(f)
  <2>1. t[i + k - 1] = s[i + k - 1]
    BY <1>3 DEF Begins
  <2> QED BY <1>1, <2>1 DEF Lies
<1>5. Lies(f, t, i)
  BY <1>3, <1>4 DEF Lies
<1> QED BY <1>1, <1>3, <1>5 DEF Inside

LEMMA WithinMore ==
  ASSUME NEW s \in Seq(Units), NEW f \in Frames, NEW n \in Nat, NEW m \in Nat, n <= m, Inside(s, f, n)
  PROVE  Inside(s, f, m)
<1>1. PICK i \in 1..Len(s) : Lies(f, s, i) /\ i + Width(f) <= n + 1
  BY DEF Inside
<1>2. i \in Nat /\ Width(f) \in Nat
  BY SliceUnits DEF Width
<1>3. i + Width(f) <= m + 1
  BY <1>1, <1>2
<1> QED BY <1>1, <1>3 DEF Inside

LEMMA WithinComplete ==
  ASSUME NEW s \in Seq(Units), NEW f \in Frames, NEW n, Inside(s, f, n)
  PROVE  f \in Complete(s)
  BY CompleteLies DEF Inside

LEMMA FrontAppended ==
  ASSUME NEW s \in Seq(Units), NEW t \in Seq(Units)
  PROVE  /\ s \o t \in Seq(Units) /\ Begins(s, s \o t) /\ Len(s \o t) = Len(s) + Len(t)
         /\ Len(s) \in Nat /\ Len(t) \in Nat
<1> DEFINE u == s \o t
<1>1. /\ u \in Seq(Units) /\ Len(u) = Len(s) + Len(t)
      /\ \A k \in 1..(Len(s) + Len(t)) : u[k] = IF k <= Len(s) THEN s[k] ELSE t[k - Len(s)]
  BY ConcatProperties
<1>2. Len(s) \in Nat /\ Len(t) \in Nat
  BY LenProperties
<1> HIDE DEF u
<1>3. \A k \in 1..Len(s) : s[k] = u[k]
  BY <1>1, <1>2
<1>4. Begins(s, u)
  BY <1>1, <1>2, <1>3 DEF Begins
<1> QED BY <1>1, <1>2, <1>4 DEF u

----------------------------------------------------------------------------
(* The log: its steps                                                      *)

\* Units behind the file leave what is in it alone.
LEMMA LoggedGrows ==
  ASSUME WalInv, NEW t \in Seq(Units), file' = file \o t,
         synced' = synced, owed' = owed, durable' = durable
  PROVE  file' \in Seq(Units) /\ Logged'
<1>1. file \in Seq(Units) /\ Logged
  BY DEF WalInv, Segment
<1>2. /\ file' \in Seq(Units) /\ Begins(file, file') /\ Len(file') = Len(file) + Len(t)
      /\ Len(file) \in Nat /\ Len(t) \in Nat
  BY <1>1, FrontAppended
<1>3. \A f \in owed : f \in Frames
  BY DEF WalInv, Histories
<1>4. \A f \in durable : f \in Frames
  BY <1>3 DEF WalInv, Histories
<1>5. synced' \in 0..Len(file')
  BY <1>1, <1>2 DEF Logged
<1>6. ASSUME NEW f \in owed' PROVE Inside(file', f, Len(file'))
  <2>1. f \in Frames /\ Inside(file, f, Len(file))
    BY <1>1, <1>3, <1>6 DEF Logged
  <2>2. Inside(file', f, Len(file))
    BY <1>2, <2>1, WithinFront
  <2>3. Len(file) <= Len(file') /\ Len(file') \in Nat
    BY <1>2
  <2> QED BY <1>2, <2>1, <2>2, <2>3, WithinMore
<1>7. ASSUME NEW f \in durable' PROVE Inside(file', f, synced')
  <2>1. f \in Frames /\ Inside(file, f, synced)
    BY <1>1, <1>4, <1>7 DEF Logged
  <2> QED BY <1>2, <2>1, WithinFront
<1>8. Logged'
  BY <1>5, <1>6, <1>7 DEF Logged
<1> QED BY <1>2, <1>8

LEMMA InitWal == Init => WalInv
<1> SUFFICES ASSUME Init PROVE WalInv
  OBVIOUS
<1>1. file \in Seq(Units) /\ buffer \in Seq(Units) /\ Len(file) = 0 /\ Len(buffer) = 0
  BY EmptySeq DEF Init
<1>2. Segment
  BY <1>1, CapacityAssumption DEF Segment
<1>3. Histories /\ IntactLogServed
  BY DEF Init, Histories, IntactLogServed
<1>4. Logged
  BY <1>1 DEF Init, Logged
<1>5. Written
  BY DEF Init, Written
<1> QED BY <1>2, <1>3, <1>4, <1>5 DEF WalInv

LEMMA AppendBeginWal ==
  ASSUME WalInv, NEW f \in Frames, AppendBegin(f)
  PROVE  WalInv'
<1> USE DEF AppendBegin, WalInv, segment
<1>1. Segment'
  BY DEF Segment
<1>2. Histories' /\ IntactLogServed'
  BY DEF Histories, IntactLogServed
<1>3. Logged'
  BY DEF Logged
<1>4. Written'
  <2>1. file \o buffer \in Seq(Units) /\ Len(file \o buffer) \in Nat
    BY FrontAppended DEF Segment
  <2>2. EndsIn(file \o buffer, f, 0)
    BY <2>1 DEF EndsIn
  <2>3. Left(calls', f, 1) /\ EndsIn(file' \o buffer', f, Upto(f, 1))
    <3>1. Upto(f, 1) = 0
      BY DEF Upto
    <3>2. calls' = Slices(f) /\ file' = file /\ buffer' = buffer
      OBVIOUS
    <3>3. Left(Slices(f), f, 1)
      BY LeftAll
    <3> QED BY <2>2, <3>1, <3>2, <3>3
  <2>4. writing' = f /\ f # None /\ f \in begun' /\ 1 \in 1..6
    BY NoneAssumption
  <2> QED BY <2>3, <2>4 DEF Written
<1> QED BY <1>1, <1>2, <1>3, <1>4

\* The frame append is working on, and where in its entry.
LEMMA AtWork ==
  ASSUME WalInv, Appending
  PROVE  /\ writing \in Frames /\ writing \in begun
         /\ \E c \in 1..6 : Left(calls, writing, c) /\ EndsIn(file \o buffer, writing, Upto(writing, c))
  BY DEF WalInv, Written, Histories, Appending

\* What there is to do next, where there is something.
LEMMA Slice ==
  ASSUME WalInv, Appending, calls # <<>>
  PROVE  Head(calls) \in Seq(Units)
<1>1. PICK c \in 1..6 : Left(calls, writing, c)
  BY AtWork
<1> QED BY <1>1, AtWork, LeftNext

\* A slice more of the entry in the file and the buffer.
LEMMA WrittenOn ==
  ASSUME WalInv, Appending, calls # <<>>, file' \o buffer' = (file \o buffer) \o Head(calls),
         calls' = Tail(calls), writing' = writing, begun' = begun
  PROVE  Written'
<1>1. PICK c \in 1..6 : Left(calls, writing, c) /\ EndsIn(file \o buffer, writing, Upto(writing, c))
  BY AtWork
<1>2. writing \in Frames /\ writing \in begun /\ writing # None
  BY AtWork DEF Appending
<1>3. c \in 1..5 /\ Head(calls) = Slices(writing)[c] /\ Left(Tail(calls), writing, c + 1)
  BY <1>1, <1>2, LeftNext
<1>4. PICK n \in Nat : /\ Reads(Head(calls), writing, Upto(writing, c), n)
                       /\ Upto(writing, c + 1) = Upto(writing, c) + n
  BY <1>2, <1>3, SliceReads
<1>5. file \o buffer \in Seq(Units)
  BY FrontAppended DEF WalInv, Segment
<1>6. Upto(writing, c) \in Nat
  BY <1>2, UptoNat
<1>7. EndsIn((file \o buffer) \o Head(calls), writing, Upto(writing, c) + n)
  BY <1>1, <1>2, <1>4, <1>5, <1>6, EndsMore
<1>8. EndsIn(file' \o buffer', writing', Upto(writing', c + 1)) /\ Left(calls', writing', c + 1)
  BY <1>3, <1>4, <1>7
<1>9. c + 1 \in 1..6 /\ writing' # None /\ writing' \in begun'
  BY <1>2, <1>3
<1> QED BY <1>8, <1>9 DEF Written

LEMMA WriteBufferedWal == ASSUME WalInv, WriteBuffered PROVE WalInv'
<1>1. file \in Seq(Units) /\ buffer \in Seq(Units) /\ Len(buffer) <= Capacity /\ Capacity \in Nat
  BY CapacityAssumption DEF WalInv, Segment
<1>2. Appending /\ calls # <<>> /\ Head(calls) \in Seq(Units)
  BY Slice DEF WriteBuffered
<1>3. Segment'
  <2>1. buffer' \in Seq(Units) /\ Len(buffer') = Len(buffer) + Len(Head(calls)) /\ file' = file
        /\ Len(buffer) \in Nat /\ Len(Head(calls)) \in Nat
    BY <1>1, <1>2, FrontAppended DEF WriteBuffered
  <2>2. Len(buffer') <= Capacity
    BY <1>1, <2>1 DEF WriteBuffered, Spare
  <2> QED BY <1>1, <2>1, <2>2 DEF Segment
<1>4. Histories' /\ IntactLogServed'
  BY DEF WriteBuffered, WalInv, Histories, IntactLogServed, limits
<1>5. Logged'
  BY DEF WriteBuffered, WalInv, Logged
<1>6. Written'
  <2>1. file' \o buffer' = (file \o buffer) \o Head(calls)
    <3> DEFINE h == Head(calls)
    <3>1. h \in Seq(Units) /\ file' = file /\ buffer' = buffer \o h
      BY <1>2 DEF WriteBuffered
    <3> HIDE DEF h
    <3>2. (file \o buffer) \o h = file \o (buffer \o h)
      BY <1>1, <3>1, ConcatAssociative
    <3> QED BY <3>1, <3>2 DEF h
  <2>2. calls' = Tail(calls) /\ writing' = writing /\ begun' = begun
    BY DEF WriteBuffered, limits
  <2> QED BY <1>2, <2>1, <2>2, WrittenOn
<1> QED BY <1>3, <1>4, <1>5, <1>6 DEF WalInv

LEMMA WriteSpillWal == ASSUME WalInv, WriteSpill PROVE WalInv'
<1>1. file \in Seq(Units) /\ buffer \in Seq(Units)
  BY DEF WalInv, Segment
<1>2. file' \in Seq(Units) /\ Logged'
  BY <1>1, LoggedGrows DEF WriteSpill
<1>3. Segment'
  BY <1>2, EmptySeq, CapacityAssumption DEF WriteSpill, Segment
<1>4. Histories' /\ IntactLogServed'
  BY DEF WriteSpill, WalInv, Histories, IntactLogServed, limits
<1>5. Written'
  <2>1. file' \o buffer' = file \o buffer
    <3>1. file' \o <<>> = file'
      BY <1>2, ConcatEmptySeq
    <3> QED BY <3>1 DEF WriteSpill
  <2>2. calls' = calls /\ writing' = writing /\ begun' = begun
    BY DEF WriteSpill, limits
  <2> QED BY <2>1, <2>2 DEF WalInv, Written
<1> QED BY <1>2, <1>3, <1>4, <1>5 DEF WalInv

LEMMA WriteDirectWal == ASSUME WalInv, WriteDirect PROVE WalInv'
<1>1. file \in Seq(Units) /\ buffer = <<>> /\ buffer' = buffer /\ file' = file \o Head(calls)
  BY DEF WalInv, Segment, WriteDirect, Direct
<1>2. Appending /\ calls # <<>> /\ Head(calls) \in Seq(Units)
  BY Slice DEF WriteDirect, Direct
<1>3. file' \in Seq(Units) /\ Logged'
  BY <1>1, <1>2, LoggedGrows DEF WriteDirect
<1>4. Segment'
  BY <1>1, <1>3 DEF WalInv, Segment
<1>5. Histories' /\ IntactLogServed'
  BY DEF WriteDirect, WalInv, Histories, IntactLogServed, limits
<1>6. Written'
  <2>1. file' \o buffer' = (file \o buffer) \o Head(calls)
    <3>1. file' \o <<>> = file' /\ file \o <<>> = file
      BY <1>1, <1>3, ConcatEmptySeq
    <3>2. file' \o buffer' = file' /\ file \o buffer = file
      BY <1>1, <3>1
    <3> QED BY <1>1, <3>2
  <2>2. calls' = Tail(calls) /\ writing' = writing /\ begun' = begun
    BY DEF WriteDirect, limits
  <2> QED BY <1>2, <2>1, <2>2, WrittenOn
<1> QED BY <1>3, <1>4, <1>5, <1>6 DEF WalInv

\* When append returns, its entry is the end of the file.
LEMMA AppendFlushWal == ASSUME WalInv, AppendFlush PROVE WalInv'
<1>1. file \in Seq(Units) /\ buffer \in Seq(Units) /\ file' = file \o buffer /\ buffer' = <<>>
  BY DEF WalInv, Segment, AppendFlush, Flushed
<1>2. Appending /\ calls = <<>> /\ writing \in Frames /\ writing \in begun
  BY AtWork DEF AppendFlush, Flushing
<1>3. /\ file' \in Seq(Units) /\ Begins(file, file') /\ Len(file') = Len(file) + Len(buffer)
      /\ Len(file) \in Nat /\ Len(buffer) \in Nat
  BY <1>1, FrontAppended
<1>4. Segment'
  BY <1>1, <1>3, EmptySeq, CapacityAssumption DEF Segment
<1>5. Histories'
  BY <1>2 DEF AppendFlush, WalInv, Histories, limits
<1>6. IntactLogServed'
  BY DEF AppendFlush, WalInv, IntactLogServed
<1>7. Inside(file', writing, Len(file'))
  <2>1. PICK c \in 1..6 : Left(calls, writing, c) /\ EndsIn(file \o buffer, writing, Upto(writing, c))
    BY <1>2, AtWork
  <2>2. c = 6
    BY <1>2, <2>1, LeftDone
  <2>3. EndsIn(file', writing, Width(writing))
    BY <1>1, <1>2, <2>1, <2>2, UptoNat
  <2> QED BY <1>2, <1>3, <2>3, EndsLies
<1>8. Logged'
  <2>1. synced' \in 0..Len(file')
    BY <1>3 DEF AppendFlush, WalInv, Logged
  <2>2. ASSUME NEW f \in owed' PROVE Inside(file', f, Len(file'))
    <3>1. CASE f = writing
      BY <1>7, <3>1
    <3>2. CASE f \in owed
      <4>1. f \in Frames /\ Inside(file, f, Len(file))
        BY <3>2 DEF WalInv, Histories, Logged
      <4>2. Inside(file', f, Len(file))
        BY <1>3, <4>1, WithinFront
      <4>3. Len(file) <= Len(file') /\ Len(file') \in Nat
        BY <1>3
      <4> QED BY <1>3, <4>1, <4>2, <4>3, WithinMore
    <3> QED BY <2>2, <3>1, <3>2 DEF AppendFlush
  <2>3. ASSUME NEW f \in durable' PROVE Inside(file', f, synced')
    <3>1. f \in Frames /\ Inside(file, f, synced) /\ synced' = synced
      BY <2>3 DEF WalInv, Histories, Logged, AppendFlush
    <3> QED BY <1>3, <3>1, WithinFront
  <2> QED BY <2>1, <2>2, <2>3 DEF Logged
<1>9. Written'
  BY <1>2 DEF AppendFlush, Written
<1> QED BY <1>4, <1>5, <1>6, <1>8, <1>9 DEF WalInv

\* A part of what was to be written, from either end.
LEMMA PartTyped ==
  ASSUME NEW s \in Seq(Units), NEW n \in 0..Len(s)
  PROVE  /\ SubSeq(s, 1, n) \in Seq(Units)
         /\ SubSeq(s, n + 1, Len(s)) \in Seq(Units) /\ Len(SubSeq(s, n + 1, Len(s))) <= Len(s)
<1>1. SubSeq(s, 1, n) \in Seq(Units)
  BY FrontOf DEF Begins
<1> DEFINE r == SubSeq(s, n + 1, Len(s))
<1>2. Len(s) \in Nat /\ n \in Nat /\ n <= Len(s) /\ n + 1 \in Int /\ Len(s) \in Int
  BY LenProperties
<1>3. \A j \in (n + 1)..Len(s) : s[j] \in Units
  BY <1>2
<1>4. r \in Seq(Units) /\ Len(r) = IF n + 1 <= Len(s) THEN Len(s) - (n + 1) + 1 ELSE 0
  BY <1>2, <1>3, SubSeqProperties
<1> HIDE DEF r
<1>5. r \in Seq(Units) /\ Len(r) <= Len(s)
  BY <1>2, <1>4
<1> QED BY <1>1, <1>5 DEF r

LEMMA DiskFullWal ==
  ASSUME WalInv, NEW n \in 0..(Len(Pending) - 1), DiskFull(n)
  PROVE  WalInv'
<1>1. file \in Seq(Units) /\ buffer \in Seq(Units) /\ Len(buffer) <= Capacity
  BY DEF WalInv, Segment
<1>2. Pending \in Seq(Units)
  BY <1>1, Slice DEF Pending, Direct
<1>3. n \in 0..Len(Pending)
  BY <1>2, LenProperties
<1>4. file' = file \o SubSeq(Pending, 1, n) /\ SubSeq(Pending, 1, n) \in Seq(Units)
  BY <1>2, <1>3, PartTyped DEF DiskFull
<1>5. synced' = synced /\ owed' = owed /\ durable' = durable
  BY DEF DiskFull
<1>6. file' \in Seq(Units) /\ Logged'
  BY <1>4, <1>5, LoggedGrows
<1>7. Segment'
  <2>1. CASE Direct
    BY <1>1, <1>6, <2>1 DEF DiskFull, Segment
  <2>2. CASE ~Direct
    <3>1. Pending = buffer /\ buffer' = SubSeq(buffer, n + 1, Len(buffer))
      BY <2>2 DEF Pending, DiskFull
    <3>2. buffer' \in Seq(Units) /\ Len(buffer') <= Len(buffer)
      BY <1>1, <1>3, <3>1, PartTyped
    <3>3. Len(buffer') \in Nat /\ Len(buffer) \in Nat /\ Capacity \in Nat
      BY <1>1, <3>2, LenProperties, CapacityAssumption
    <3>4. Len(buffer') <= Capacity
      BY <1>1, <3>2, <3>3
    <3> QED BY <1>6, <3>2, <3>4 DEF Segment
  <2> QED BY <2>1, <2>2
<1>8. Histories' /\ IntactLogServed'
  <2>1. writing \in begun
    BY AtWork DEF DiskFull, MustSpill, Direct, Flushing
  <2> QED BY <2>1 DEF DiskFull, WalInv, Histories, IntactLogServed
<1>9. Written'
  BY DEF DiskFull, Written
<1> QED BY <1>6, <1>7, <1>8, <1>9 DEF WalInv

LEMMA TruncateWal == ASSUME WalInv, Truncate PROVE WalInv'
<1>1. file' \in Seq(Units) /\ buffer' \in Seq(Units) /\ Len(file') = 0 /\ Len(buffer') = 0
  BY EmptySeq DEF Truncate
<1>2. Segment'
  BY <1>1, CapacityAssumption DEF Segment
<1>3. Histories' /\ IntactLogServed'
  BY DEF Truncate, WalInv, Histories, IntactLogServed, limits
<1>4. Logged'
  BY <1>1 DEF Truncate, SyncedAfterTruncate, Logged
<1>5. Written'
  BY DEF Truncate, WalInv, Written
<1> QED BY <1>2, <1>3, <1>4, <1>5 DEF WalInv

LEMMA SyncWal == ASSUME WalInv, Sync PROVE WalInv'
<1>1. file \in Seq(Units) /\ buffer \in Seq(Units) /\ file' = file \o buffer
  BY DEF WalInv, Segment, Sync, Flushed
<1>2. /\ file' \in Seq(Units) /\ Begins(file, file') /\ Len(file') = Len(file) + Len(buffer)
      /\ Len(file) \in Nat /\ Len(buffer) \in Nat
  BY <1>1, FrontAppended
<1>3. Segment'
  BY <1>2, EmptySeq, CapacityAssumption DEF Sync, Segment
<1>4. Histories' /\ IntactLogServed'
  BY DEF Sync, WalInv, Histories, IntactLogServed, limits
<1>5. Logged'
  <2>1. synced' = Len(file') /\ synced' \in 0..Len(file')
    BY <1>2 DEF Sync
  <2>2. ASSUME NEW f \in owed PROVE Inside(file', f, Len(file'))
    <3>1. f \in Frames /\ Inside(file, f, Len(file))
      BY <2>2 DEF WalInv, Histories, Logged
    <3>2. Inside(file', f, Len(file))
      BY <1>2, <3>1, WithinFront
    <3>3. Len(file) <= Len(file') /\ Len(file') \in Nat
      BY <1>2
    <3> QED BY <1>2, <3>1, <3>2, <3>3, WithinMore
  <2> QED BY <2>1, <2>2 DEF Logged, Sync
<1>6. Written'
  BY DEF Sync, WalInv, Written
<1> QED BY <1>3, <1>4, <1>5, <1>6 DEF WalInv

LEMMA CrashWal == ASSUME WalInv, Crash PROVE WalInv'
<1>1. Segment'
  BY EmptySeq, CapacityAssumption DEF Crash, Down, WalInv, Segment
<1>2. Histories' /\ IntactLogServed'
  BY DEF Crash, Down, WalInv, Histories, Written, IntactLogServed
<1>3. Logged'
  BY DEF Crash, WalInv, Logged
<1>4. Written'
  BY DEF Crash, Down, Written
<1> QED BY <1>1, <1>2, <1>3, <1>4 DEF WalInv

LEMMA PowerCutWal == ASSUME WalInv, PowerCut PROVE WalInv'
<1>1. file \in Seq(Units) /\ synced \in 0..Len(file) /\ Len(file) \in Nat
  BY LenProperties DEF WalInv, Segment, Logged
<1>2. PICK n \in synced..Len(file) : file' = SubSeq(file, 1, n) /\ synced' = n
  BY DEF PowerCut
<1>3. n \in 0..Len(file) /\ n \in Nat /\ synced \in Nat /\ synced <= n
  BY <1>1, <1>2
<1>4. Begins(file', file) /\ Len(file') = n /\ file' \in Seq(Units)
  BY <1>1, <1>2, <1>3, FrontOf DEF Begins
<1>5. Segment'
  BY <1>4, EmptySeq, CapacityAssumption DEF PowerCut, Down, Segment
<1>6. Histories' /\ IntactLogServed'
  BY DEF PowerCut, Down, WalInv, Histories, Written, IntactLogServed
<1>7. Logged'
  <2>1. ASSUME NEW f \in durable PROVE Inside(file', f, n)
    <3>1. f \in Frames /\ Inside(file, f, synced)
      BY <2>1 DEF WalInv, Histories, Logged
    <3>2. Inside(file, f, n)
      BY <1>1, <1>3, <3>1, WithinMore
    <3>3. n <= Len(file')
      BY <1>3, <1>4
    <3> QED BY <1>1, <1>3, <1>4, <3>1, <3>2, <3>3, WithinCut
  <2>2. synced' = n /\ synced' \in 0..Len(file') /\ owed' = durable /\ durable' = durable
    BY <1>2, <1>3, <1>4 DEF PowerCut
  <2> QED BY <1>4, <2>1, <2>2 DEF Logged
<1>8. Written'
  BY DEF PowerCut, Down, Written
<1> QED BY <1>5, <1>6, <1>7, <1>8 DEF WalInv

\* A start that finds the segment whole serves all that is owed.
LEMMA RestartWal == ASSUME WalInv, Restart PROVE WalInv'
<1>1. file \in Seq(Units) /\ Len(file) \in Nat
  BY LenProperties DEF WalInv, Segment
<1>2. memtable' \subseteq Frames
  BY <1>1, ReplaySound DEF Restart, Complete
<1>3. Segment' /\ Logged' /\ Written'
  BY DEF Restart, segment, limits, WalInv, Segment, Logged, Written
<1>4. Histories'
  BY <1>2 DEF Restart, limits, WalInv, Histories
<1>5. IntactLogServed'
  <2>1. SUFFICES ASSUME ~torn' PROVE owed' \subseteq memtable'
    BY DEF IntactLogServed
  <2>2. Whole(file)
    BY <2>1 DEF Restart
  <2>3. Begins(file, file)
    BY <1>1 DEF Begins
  <2>4. Complete(file) \subseteq Replay(file)
    BY <1>1, <2>2, <2>3, ReplayFront
  <2>5. owed \subseteq Complete(file)
    <3>1. ASSUME NEW f \in owed PROVE f \in Complete(file)
      <4>1. f \in Frames /\ Inside(file, f, Len(file))
        BY <3>1 DEF WalInv, Histories, Logged
      <4> QED BY <1>1, <4>1, WithinComplete
    <3> QED BY <3>1
  <2> QED BY <2>4, <2>5 DEF Restart
<1> QED BY <1>3, <1>4, <1>5 DEF WalInv

LEMMA StepWal == WalInv /\ [Next]_vars => WalInv'
<1> SUFFICES ASSUME WalInv, [Next]_vars PROVE WalInv'
  OBVIOUS
<1>1. ASSUME NEW f \in Frames, AppendBegin(f) PROVE WalInv'
  BY <1>1, AppendBeginWal
<1>2. ASSUME NEW n \in 0..(Len(Pending) - 1), DiskFull(n) PROVE WalInv'
  BY <1>2, DiskFullWal
<1>3. CASE UNCHANGED vars
  BY <1>3 DEF vars, segment, limits, WalInv, Segment, Histories, Logged, Written, IntactLogServed
<1> QED BY <1>1, <1>2, <1>3, WriteBufferedWal, WriteSpillWal, WriteDirectWal, AppendFlushWal,
       TruncateWal, SyncWal, CrashWal, PowerCutWal, RestartWal DEF Next

\* The slices left are the end of the slices of one frame.
LEMMA LeftTyped ==
  ASSUME NEW f \in Frames, NEW c \in 1..6, NEW r, Left(r, f, c)
  PROVE  r \in SlicesLeft
<1> DEFINE A == Seq(Units)
<1>1. r \in Seq(A) /\ Len(r) = 6 - c /\ \A k \in 1..(6 - c) : r[k] = Slices(f)[c + k - 1]
  BY DEF Left
<1>2. Slices(f) \in Seq(A) /\ Len(Slices(f)) = 5
  BY LeftAll DEF Left
<1> HIDE DEF A
<1>3. CASE c = 6
  <2>1. Len(r) = 0
    BY <1>1, <1>3
  <2>2. r = <<>>
    BY <1>1, <2>1, EmptySeq
  <2> QED BY <2>2 DEF SlicesLeft
<1>4. CASE c # 6
  <2>1. c \in 1..5 /\ c \in Int /\ 5 \in Int /\ c <= 5
    BY <1>4
  <2> DEFINE u == Slices(f)
             q == SubSeq(u, c, 5)
  <2> HIDE DEF u
  <2>2. u \in Seq(A) /\ Len(u) = 5
    BY <1>2 DEF u
  <2>3. ASSUME NEW j \in c..5 PROVE u[j] \in A
    <3>1. j \in 1..Len(u)
      BY <2>1, <2>2
    <3> QED BY <2>2, <3>1, ElementOfSeq
  <2>4. /\ q \in Seq(A) /\ Len(q) = IF c <= 5 THEN 5 - c + 1 ELSE 0
        /\ \A k \in 1..(5 - c + 1) : q[k] = u[c + k - 1]
    BY <2>1, <2>3, SubSeqProperties
  <2> HIDE DEF q
  <2>5. 5 - c + 1 = 6 - c /\ Len(q) = 6 - c
    BY <2>1, <2>4
  <2>6. Len(r) = Len(q) /\ \A k \in 1..Len(r) : r[k] = q[k]
    BY <1>1, <2>4, <2>5 DEF u
  <2>7. r = q
    BY <1>1, <2>4, <2>6, SeqEqual
  <2>8. r = SlicesFrom(f, c)
    BY <1>2, <2>7 DEF q, u, SlicesFrom
  <2> QED BY <2>1, <2>8 DEF SlicesLeft
<1> QED BY <1>3, <1>4

LEMMA WalTyped == WalInv => WalTypeOK
<1> SUFFICES ASSUME WalInv PROVE WalTypeOK
  OBVIOUS
<1>1. /\ \A i \in DOMAIN file : file[i].part \in Parts
      /\ \A i \in DOMAIN buffer : buffer[i].part \in Parts
  <2>1. ASSUME NEW s \in Seq(Units), NEW i \in DOMAIN s PROVE s[i].part \in Parts
    <3>1. i \in 1..Len(s)
      BY <2>1, LenProperties
    <3>2. s[i] \in Units
      BY <3>1, ElementOfSeq
    <3> QED BY <3>2 DEF Units
  <2> QED BY <2>1 DEF WalInv, Segment
<1>2. synced \in 0..Len(file) /\ Len(buffer) <= Capacity
  BY DEF WalInv, Logged, Segment
<1>3. /\ up \in BOOLEAN /\ torn \in BOOLEAN
      /\ memtable \subseteq Frames /\ begun \subseteq Frames
      /\ durable \subseteq owed /\ owed \subseteq begun /\ unsure \subseteq begun
  BY DEF WalInv, Histories
<1>4. writing \in Frames \union {None}
  BY DEF WalInv, Written, Histories
<1>5. calls \in SlicesLeft
  <2>1. CASE writing = None
    BY <2>1 DEF WalInv, Written, SlicesLeft
  <2>2. CASE writing # None
    <3>1. PICK c \in 1..6 : Left(calls, writing, c)
      BY <2>2 DEF WalInv, Written
    <3>2. writing \in Frames
      BY <1>4, <2>2
    <3> QED BY <3>1, <3>2, LeftTyped
  <2> QED BY <2>1, <2>2
<1> QED BY <1>1, <1>2, <1>3, <1>4, <1>5 DEF WalTypeOK

\* The segment, the buffer and the slices still to write stay of their types; no more is synced
\* than the file has, and nothing is owed that no append has begun.
THEOREM WalTypes == Spec => []WalTypeOK
  BY InitWal, StepWal, WalTyped, PTL DEF Spec

\* Every frame whose append returned, and that no table holds, is served: whatever writes failed,
\* wherever the process died or the power went, as long as each start found the segment uncut.
THEOREM LogServedIntact == Spec => []IntactLogServed
<1>1. WalInv => IntactLogServed
  BY DEF WalInv
<1> QED BY <1>1, InitWal, StepWal, PTL DEF Spec

----------------------------------------------------------------------------
(* The log: entries as whole things                                        *)

\* Entries one behind the other are the first n units of s: P is where they begin, and where
\* the last of them ends.
Chain(s, n, P) ==
  /\ P \subseteq 1..(n + 1) /\ 1 \in P
  /\ \A i \in P : i = n + 1 \/ \E f \in Frames : Lies(f, s, i) /\ i + Width(f) \in P
Chained(s, n) == n \in 0..Len(s) /\ \E P : Chain(s, n, P)

\* While no append has failed and none was cut short: the file is entries one behind the
\* other, and behind them there is what append has written of the next.
Uncut ==
  unsure = {} =>
    /\ writing = None => buffer = <<>> /\ Chained(file, Len(file))
    /\ writing # None =>
         \E c \in 1..6 :
           /\ Left(calls, writing, c)
           /\ EndsIn(file \o buffer, writing, Upto(writing, c))
           /\ Chained(file \o buffer, Len(file \o buffer) - Upto(writing, c))
\* While that is so and every frame is synced, all of the file is.
SyncedAll == unsure = {} /\ writing = None /\ owed \subseteq durable => synced = Len(file)
\* The frames there may be units of.
Known == owed \union unsure \union {writing, None}
From(s, K) == \A i \in 1..Len(s) : s[i].of \in K
Origins == From(file, Known) /\ From(buffer, Known)
Apart == writing \notin owed /\ (~up => writing = None)
LogInv == WalInv /\ Apart /\ Origins /\ SyncedAll /\ Uncut

LEMMA ChainLonger ==
  ASSUME NEW s \in Seq(Units), NEW t \in Seq(Units), NEW n, Chained(s, n)
  PROVE  Chained(s \o t, n)
<1> DEFINE u == s \o t
<1>1. u \in Seq(Units) /\ Begins(s, u) /\ Len(u) = Len(s) + Len(t) /\ Len(s) \in Nat /\ Len(t) \in Nat
  BY FrontAppended
<1> HIDE DEF u
<1>2. n \in 0..Len(s) /\ n \in 0..Len(u)
  BY <1>1 DEF Chained
<1>3. PICK P : Chain(s, n, P)
  BY DEF Chained
<1>4. ASSUME NEW i \in P, i # n + 1 PROVE \E f \in Frames : Lies(f, u, i) /\ i + Width(f) \in P
  <2>1. PICK f \in Frames : Lies(f, s, i) /\ i + Width(f) \in P
    BY <1>3, <1>4 DEF Chain
  <2>2. i \in 1..Len(s)
    BY <1>1, <1>2, <1>3, <1>4 DEF Chain
  <2>3. Lies(f, u, i)
    BY <1>1, <2>1, <2>2, FrontLies
  <2> QED BY <2>1, <2>3
<1>5. Chain(u, n, P)
  BY <1>3, <1>4 DEF Chain
<1>6. Chained(u, n)
  BY <1>2, <1>5 DEF Chained
<1> QED BY <1>6 DEF u

\* An entry more.
LEMMA ChainNext ==
  ASSUME NEW s \in Seq(Units), NEW f \in Frames, EndsIn(s, f, Width(f)),
         Chained(s, Len(s) - Width(f))
  PROVE  Chained(s, Len(s))
<1> DEFINE n == Len(s) - Width(f)
           m == Len(s)
<1>1. m \in Nat /\ Width(f) \in Nat /\ Width(f) > 0 /\ Width(f) <= m
  BY SliceUnits, LenProperties DEF EndsIn, Width
<1>2. PICK P : Chain(s, n, P)
  BY DEF Chained
<1>3. n \in Nat /\ n + 1 \in 1..m /\ (n + 1) + Width(f) = m + 1 /\ n < m
  BY <1>1
<1>4. Lies(f, s, n + 1)
  <2>1. \A k \in 1..Width(f) : s[(n + 1) + k - 1] = UnitOf(f, k)
    <3> TAKE k \in 1..Width(f)
    <3>1. (n + 1) + k - 1 = Len(s) - Width(f) + k
      BY <1>1
    <3> QED BY <3>1 DEF EndsIn
  <2> HIDE DEF n
  <2>2. (n + 1) + Width(f) <= Len(s) + 1
    BY <1>1, <1>3
  <2> QED BY <2>1, <2>2 DEF Lies
<1> HIDE DEF n
<1> DEFINE Q == P \union {m + 1}
<1>5. Q \subseteq 1..(m + 1) /\ 1 \in Q
  <2>1. P \subseteq 1..(n + 1) /\ 1 \in P
    BY <1>2 DEF Chain
  <2>2. \A i \in P : i \in 1..(m + 1)
    BY <1>1, <1>3, <2>1
  <2>3. m + 1 \in 1..(m + 1)
    BY <1>1
  <2> QED BY <2>1, <2>2, <2>3
<1>6. ASSUME NEW i \in Q, i # m + 1 PROVE \E g \in Frames : Lies(g, s, i) /\ i + Width(g) \in Q
  <2>1. CASE i = n + 1
    BY <1>3, <1>4, <2>1
  <2>2. CASE i # n + 1
    <3>1. \E g \in Frames : Lies(g, s, i) /\ i + Width(g) \in P
      BY <1>2, <1>6, <2>2 DEF Chain
    <3> QED BY <3>1
  <2> QED BY <2>1, <2>2
<1> HIDE DEF Q
<1>7. Chain(s, m, Q)
  BY <1>5, <1>6 DEF Chain
<1>8. m \in 0..Len(s)
  BY <1>1
<1> QED BY <1>7, <1>8 DEF Chained

\* A segment of entries one behind the other is whole.
LEMMA ChainWhole ==
  ASSUME NEW s \in Seq(Units), Chained(s, Len(s))
  PROVE  Whole(s)
<1>1. PICK P : Chain(s, Len(s), P)
  BY DEF Chained
<1>2. PICK w : /\ w \in [1..(Len(s) + 1) -> BOOLEAN]
               /\ \A i \in 1..(Len(s) + 1) : w[i] <=> WholeFrom(s, i, w)
               /\ Whole(s) <=> w[1]
  BY WholeRuns
<1>3. Len(s) \in Nat
  BY LenProperties
<1> DEFINE n == Len(s) + 1
<1>5. \A i \in P : i \in 1..n
  BY <1>1 DEF Chain
<1> DEFINE S == {i \in 1..n : i \in P => w[i]}
<1>6. ASSUME NEW i \in 1..n, \A j \in 1..n : j > i => j \in S PROVE i \in S
  <2>1. SUFFICES ASSUME i \in P PROVE w[i]
    OBVIOUS
  <2>2. CASE i = Len(s) + 1
    BY <1>2, <1>6, <2>2, WholeStep
  <2>3. CASE i # Len(s) + 1
    <3>1. PICK f \in Frames : Lies(f, s, i) /\ i + Width(f) \in P
      BY <1>1, <2>1, <2>3 DEF Chain
    <3>2. i \in 1..Len(s) /\ i \in 1..(Len(s) + 1)
      BY <1>3, <1>6, <2>3
    <3>3. i + Width(f) > i
      BY <3>1, <3>2, LiesBefore
    <3>4. w[i + Width(f)]
      BY <1>5, <1>6, <3>1, <3>3
    <3>5. WholeFrom(s, i, w)
      BY <3>1, <3>2, <3>4, WholeStep
    <3> QED BY <1>2, <3>2, <3>5
  <2> QED BY <2>2, <2>3
<1>7. \A i \in 1..n : i \in S
  <2> HIDE DEF S
  <2>1. n \in Nat
    BY <1>3
  <2> HIDE DEF n
  <2> QED BY <1>6, <2>1, CountDown
<1>8. 1 \in P /\ 1 \in 1..n
  BY <1>1, <1>3 DEF Chain
<1> QED BY <1>2, <1>7, <1>8

LEMMA FromJoined ==
  ASSUME NEW s \in Seq(Units), NEW t \in Seq(Units), NEW K, From(s, K), From(t, K)
  PROVE  From(s \o t, K)
<1> DEFINE u == s \o t
<1>1. /\ u \in Seq(Units) /\ Len(u) = Len(s) + Len(t)
      /\ \A k \in 1..(Len(s) + Len(t)) : u[k] = IF k <= Len(s) THEN s[k] ELSE t[k - Len(s)]
  BY ConcatProperties
<1>2. Len(s) \in Nat /\ Len(t) \in Nat
  BY LenProperties
<1> HIDE DEF u
<1>3. ASSUME NEW i \in 1..Len(u) PROVE u[i].of \in K
  <2>1. CASE i <= Len(s)
    <3>1. u[i] = s[i] /\ i \in 1..Len(s)
      BY <1>1, <1>2, <2>1
    <3> QED BY <3>1 DEF From
  <2>2. CASE i > Len(s)
    <3>1. u[i] = t[i - Len(s)] /\ i - Len(s) \in 1..Len(t)
      BY <1>1, <1>2, <2>2
    <3> QED BY <3>1 DEF From
  <2> QED BY <1>1, <1>2, <2>1, <2>2
<1>4. From(u, K)
  BY <1>3 DEF From
<1> QED BY <1>4 DEF u

LEMMA FromPart ==
  ASSUME NEW s \in Seq(Units), NEW n \in 0..Len(s), NEW K, From(s, K)
  PROVE  From(SubSeq(s, 1, n), K) /\ From(SubSeq(s, n + 1, Len(s)), K)
<1>1. From(SubSeq(s, 1, n), K)
  <2>1. Begins(SubSeq(s, 1, n), s)
    BY FrontOf
  <2> DEFINE r == SubSeq(s, 1, n)
  <2> HIDE DEF r
  <2>2. r \in Seq(Units) /\ Len(r) <= Len(s) /\ \A k \in 1..Len(r) : r[k] = s[k]
    BY <2>1 DEF r, Begins
  <2>3. Len(r) \in Nat /\ Len(s) \in Nat
    BY <2>2, LenProperties
  <2>4. ASSUME NEW i \in 1..Len(r) PROVE r[i].of \in K
    <3>1. i \in 1..Len(s) /\ r[i] = s[i]
      BY <2>2, <2>3
    <3> QED BY <3>1 DEF From
  <2>5. From(r, K)
    BY <2>4 DEF From
  <2> QED BY <2>5 DEF r
<1> DEFINE r == SubSeq(s, n + 1, Len(s))
<1>2. Len(s) \in Nat /\ n \in Nat /\ n <= Len(s) /\ n + 1 \in Int /\ Len(s) \in Int
  BY LenProperties
<1>3. \A j \in (n + 1)..Len(s) : s[j] \in Units
  BY <1>2
<1>4. /\ r \in Seq(Units) /\ Len(r) = IF n + 1 <= Len(s) THEN Len(s) - (n + 1) + 1 ELSE 0
      /\ \A k \in 1..(Len(s) - (n + 1) + 1) : r[k] = s[(n + 1) + k - 1]
  BY <1>2, <1>3, SubSeqProperties
<1> HIDE DEF r
<1>5. ASSUME NEW i \in 1..Len(r) PROVE r[i].of \in K
  <2>1. i \in 1..(Len(s) - (n + 1) + 1) /\ (n + 1) + i - 1 \in 1..Len(s)
    BY <1>2, <1>4
  <2>2. r[i] = s[(n + 1) + i - 1]
    BY <1>4, <2>1
  <2> QED BY <2>1, <2>2 DEF From
<1>6. From(r, K)
  BY <1>5 DEF From
<1> QED BY <1>1, <1>6 DEF r

\* A unit of an entry names its frame or none.
LEMMA ReadsFrom ==
  ASSUME NEW f, NEW s, NEW o \in Nat, NEW m, Reads(s, f, o, m)
  PROVE  From(s, {f, None})
<1>1. \A k : UnitOf(f, k).of \in {f, None}
  BY DEF UnitOf, Unit
<1> QED BY <1>1 DEF Reads, From

LEMMA SliceFrom ==
  ASSUME WalInv, Appending, calls # <<>>
  PROVE  From(Head(calls), {writing, None})
<1>1. writing \in Frames
  BY AtWork
<1>2. PICK c \in 1..6 : Left(calls, writing, c)
  BY AtWork
<1>3. c \in 1..5 /\ Head(calls) = Slices(writing)[c]
  BY <1>1, <1>2, LeftNext
<1>4. PICK n \in Nat : Reads(Head(calls), writing, Upto(writing, c), n)
  BY <1>1, <1>3, SliceReads
<1>5. Upto(writing, c) \in Nat
  BY <1>1, UptoNat
<1> QED BY <1>4, <1>5, ReadsFrom

LEMMA FromMore == ASSUME NEW s, NEW K, NEW L, From(s, K), K \subseteq L PROVE From(s, L)
  BY DEF From

\* A slice more of the entry behind the entries.
LEMMA UncutOn ==
  ASSUME LogInv, Appending, calls # <<>>, file' \o buffer' = (file \o buffer) \o Head(calls),
         calls' = Tail(calls), writing' = writing, unsure' = unsure
  PROVE  Uncut'
<1> DEFINE s == file \o buffer
           h == Head(calls)
<1>0. WalInv /\ Uncut /\ writing # None /\ writing \in Frames
  BY AtWork DEF LogInv, Appending
<1>1. SUFFICES ASSUME unsure = {}
               PROVE  \E c \in 1..6 :
                        /\ Left(calls', writing, c)
                        /\ EndsIn(file' \o buffer', writing, Upto(writing, c))
                        /\ Chained(file' \o buffer', Len(file' \o buffer') - Upto(writing, c))
  BY <1>0 DEF Uncut
<1>2. PICK c \in 1..6 : /\ Left(calls, writing, c)
                        /\ EndsIn(s, writing, Upto(writing, c))
                        /\ Chained(s, Len(s) - Upto(writing, c))
  BY <1>0, <1>1 DEF Uncut
<1>3. c \in 1..5 /\ h = Slices(writing)[c] /\ Left(Tail(calls), writing, c + 1)
  BY <1>0, <1>2, LeftNext
<1>4. PICK n \in Nat : Reads(h, writing, Upto(writing, c), n) /\ Upto(writing, c + 1) = Upto(writing, c) + n
  BY <1>0, <1>3, SliceReads
<1>5. s \in Seq(Units) /\ h \in Seq(Units) /\ Len(h) = n
  BY <1>0, <1>4, FrontAppended DEF WalInv, Segment, Reads
<1>6. Upto(writing, c) \in Nat
  BY <1>0, UptoNat
<1> DEFINE u == s \o h
<1>7. u \in Seq(Units) /\ Len(u) = Len(s) + n /\ Len(s) \in Nat
  BY <1>5, FrontAppended
<1>8. EndsIn(u, writing, Upto(writing, c) + n)
  BY <1>0, <1>2, <1>4, <1>5, <1>6, EndsMore
<1>9. Chained(u, Len(s) - Upto(writing, c))
  BY <1>2, <1>5, ChainLonger
<1>10. file' \o buffer' = u
  OBVIOUS
<1> HIDE DEF u, s, h
<1>11. Len(u) - Upto(writing, c + 1) = Len(s) - Upto(writing, c)
  BY <1>4, <1>6, <1>7
<1>12. /\ Left(calls', writing, c + 1) /\ EndsIn(u, writing, Upto(writing, c + 1))
       /\ Chained(u, Len(u) - Upto(writing, c + 1)) /\ c + 1 \in 1..6
  BY <1>3, <1>4, <1>8, <1>9, <1>11
<1> QED BY <1>10, <1>12

LEMMA InitLog == Init => LogInv /\ Log!Init
<1> SUFFICES ASSUME Init PROVE LogInv /\ Log!Init
  OBVIOUS
<1>1. WalInv
  BY InitWal
<1>2. file = <<>> /\ buffer = <<>> /\ Len(file) = 0 /\ Len(buffer) = 0
  BY EmptySeq DEF Init
<1>3. Apart
  BY NoneAssumption DEF Init, Apart
<1>4. Origins
  BY <1>2 DEF Origins, From
<1>5. SyncedAll
  BY <1>2 DEF Init, SyncedAll
<1>6. Uncut
  <2>1. Chain(file, 0, {1})
    BY DEF Chain
  <2>2. Chained(file, Len(file))
    BY <1>2, <2>1 DEF Chained
  <2> QED BY <1>2, <2>2 DEF Init, Uncut
<1>7. Log!Init
  BY DEF Init, Log!Init
<1> QED BY <1>1, <1>3, <1>4, <1>5, <1>6, <1>7 DEF LogInv

LEMMA AppendBeginLog ==
  ASSUME LogInv, NEW f \in Frames, AppendBegin(f)
  PROVE  LogInv' /\ Log!Begin(f)
<1>1. WalInv'
  BY AppendBeginWal DEF LogInv
<1>2. f # None /\ f \notin owed /\ f \notin unsure /\ writing = None /\ up
  BY NoneAssumption DEF LogInv, WalInv, Histories, AppendBegin
<1>3. Apart' /\ SyncedAll'
  BY <1>2 DEF AppendBegin, Apart, SyncedAll
<1>4. Origins'
  <2>1. Known \subseteq Known' /\ file' = file /\ buffer' = buffer
    BY <1>2 DEF Known, AppendBegin, segment
  <2> QED BY <2>1, FromMore DEF Origins, LogInv
<1>5. Uncut'
  <2>1. SUFFICES ASSUME unsure = {}
                 PROVE  /\ Left(calls', f, 1)
                        /\ EndsIn(file \o buffer, f, Upto(f, 1))
                        /\ Chained(file \o buffer, Len(file \o buffer) - Upto(f, 1))
    BY <1>2 DEF Uncut, AppendBegin, segment
  <2>2. Upto(f, 1) = 0 /\ Left(calls', f, 1)
    BY LeftAll DEF Upto, AppendBegin
  <2>3. buffer = <<>> /\ Chained(file, Len(file)) /\ file \in Seq(Units)
    BY <1>2, <2>1 DEF LogInv, Uncut, WalInv, Segment
  <2>4. file \o buffer = file /\ Len(file) \in Nat
    BY <2>3, ConcatEmptySeq, LenProperties
  <2>5. EndsIn(file, f, 0) /\ Len(file) - 0 = Len(file)
    BY <2>4 DEF EndsIn
  <2> QED BY <2>2, <2>3, <2>4, <2>5
<1>6. Log!Begin(f)
  BY <1>2 DEF AppendBegin, Log!Begin
<1> QED BY <1>1, <1>3, <1>4, <1>5, <1>6 DEF LogInv

\* What append does before its flush is nothing to the log of entries.
WritesOn == WriteBuffered \/ WriteSpill \/ WriteDirect

LEMMA WritesOnLog == ASSUME LogInv, WritesOn PROVE LogInv' /\ UNCHANGED Log!vars
<1>1. WalInv /\ WalInv' /\ Appending /\ writing # None
  BY WriteBufferedWal, WriteSpillWal, WriteDirectWal
     DEF LogInv, WritesOn, WriteBuffered, WriteSpill, MustSpill, WriteDirect, Direct, Appending
<1>2. UNCHANGED <<up, writing, owed, durable, unsure, memtable, torn>>
  BY DEF WritesOn, WriteBuffered, WriteSpill, WriteDirect
<1>3. UNCHANGED Log!vars
  BY <1>2 DEF Log!vars
<1>4. Apart' /\ SyncedAll' /\ Known' = Known
  BY <1>1, <1>2 DEF LogInv, Apart, SyncedAll, Known
<1>5. file \in Seq(Units) /\ buffer \in Seq(Units) /\ From(file, Known) /\ From(buffer, Known)
  BY <1>1 DEF WalInv, Segment, LogInv, Origins
<1>6. ASSUME calls # <<>> PROVE Head(calls) \in Seq(Units) /\ From(Head(calls), Known)
  <2>1. From(Head(calls), {writing, None}) /\ {writing, None} \subseteq Known
    BY <1>1, <1>6, SliceFrom DEF Known
  <2> QED BY <1>1, <1>6, <2>1, Slice, FromMore
<1>7. CASE WriteBuffered
  <2> DEFINE h == Head(calls)
  <2>1. calls # <<>> /\ file' = file /\ buffer' = buffer \o h /\ calls' = Tail(calls)
    BY <1>7 DEF WriteBuffered
  <2>2. h \in Seq(Units) /\ From(h, Known)
    BY <1>6, <2>1
  <2> HIDE DEF h
  <2>3. Origins'
    BY <1>4, <1>5, <2>1, <2>2, FromJoined DEF Origins
  <2>4. (file \o buffer) \o h = file \o (buffer \o h)
    BY <1>5, <2>2, ConcatAssociative
  <2>5. Uncut'
    BY <1>1, <1>2, <2>1, <2>4, UncutOn DEF h
  <2> QED BY <1>1, <1>3, <1>4, <2>3, <2>5 DEF LogInv
<1>8. CASE WriteSpill
  <2>1. file' = file \o buffer /\ buffer' = <<>> /\ calls' = calls
    BY <1>8 DEF WriteSpill
  <2>2. file' \in Seq(Units) /\ From(file', Known) /\ From(buffer', Known)
    BY <1>5, <2>1, FromJoined, FrontAppended, EmptySeq DEF From
  <2>3. file' \o buffer' = file \o buffer
    BY <2>1, <2>2, ConcatEmptySeq
  <2>4. Origins' /\ Uncut'
    BY <1>1, <1>2, <1>4, <2>1, <2>2, <2>3 DEF Origins, LogInv, Uncut
  <2> QED BY <1>1, <1>3, <1>4, <2>4 DEF LogInv
<1>9. CASE WriteDirect
  <2> DEFINE h == Head(calls)
  <2>1. calls # <<>> /\ file' = file \o h /\ buffer = <<>> /\ buffer' = <<>> /\ calls' = Tail(calls)
    BY <1>9 DEF WriteDirect, Direct
  <2>2. h \in Seq(Units) /\ From(h, Known)
    BY <1>6, <2>1
  <2> HIDE DEF h
  <2>3. file' \in Seq(Units) /\ From(file', Known) /\ From(buffer', Known)
    BY <1>5, <2>1, <2>2, FromJoined, FrontAppended
  <2>4. file' \o buffer' = file' /\ file \o buffer = file
    BY <1>5, <2>1, <2>3, ConcatEmptySeq
  <2>5. file' \o buffer' = (file \o buffer) \o h
    BY <2>1, <2>4
  <2>6. Uncut'
    BY <1>1, <1>2, <2>1, <2>5, UncutOn DEF h
  <2>7. Origins'
    BY <1>4, <2>3 DEF Origins
  <2> QED BY <1>1, <1>3, <1>4, <2>6, <2>7 DEF LogInv
<1> QED BY <1>7, <1>8, <1>9 DEF WritesOn

LEMMA AppendFlushLog == ASSUME LogInv, AppendFlush PROVE LogInv' /\ Log!Commit
<1>1. WalInv /\ WalInv' /\ Appending /\ writing # None /\ calls = <<>> /\ writing \in Frames
  BY AppendFlushWal, AtWork DEF LogInv, AppendFlush, Flushing, Appending
<1>2. /\ file' = file \o buffer /\ buffer' = <<>> /\ writing' = None /\ owed' = owed \union {writing}
      /\ UNCHANGED <<up, unsure, durable>>
  BY DEF AppendFlush, Flushed
<1>3. file \in Seq(Units) /\ buffer \in Seq(Units) /\ From(file, Known) /\ From(buffer, Known)
  BY <1>1 DEF WalInv, Segment, LogInv, Origins
<1>4. Apart'
  BY <1>1, <1>2, NoneAssumption DEF WalInv, Histories, LogInv, Apart, Appending
<1>5. Origins'
  <2>1. From(file', Known) /\ From(buffer', Known)
    BY <1>2, <1>3, FromJoined, EmptySeq DEF From
  <2>2. Known \subseteq Known'
    BY <1>2 DEF Known
  <2> QED BY <2>1, <2>2, FromMore DEF Origins
<1>6. SyncedAll'
  <2>1. writing \notin durable
    BY <1>1 DEF LogInv, Apart, WalInv, Histories
  <2> QED BY <1>2, <2>1 DEF SyncedAll
<1>7. Uncut'
  <2>1. SUFFICES ASSUME unsure = {} PROVE Chained(file', Len(file'))
    BY <1>2 DEF Uncut
  <2>2. PICK c \in 1..6 : /\ Left(calls, writing, c)
                          /\ EndsIn(file', writing, Upto(writing, c))
                          /\ Chained(file', Len(file') - Upto(writing, c))
    BY <1>1, <1>2, <2>1 DEF LogInv, Uncut
  <2>3. c = 6 /\ Upto(writing, c) = Width(writing)
    BY <1>1, <2>2, LeftDone, UptoNat
  <2>4. file' \in Seq(Units)
    BY <1>1 DEF WalInv, Segment
  <2> QED BY <1>1, <2>2, <2>3, <2>4, ChainNext
<1>8. Log!Commit
  BY <1>1 DEF AppendFlush, Appending, Log!Commit, Log!Working
<1> QED BY <1>1, <1>4, <1>5, <1>6, <1>7, <1>8 DEF LogInv

LEMMA DiskFullLog ==
  ASSUME LogInv, NEW n \in 0..(Len(Pending) - 1), DiskFull(n)
  PROVE  LogInv' /\ Log!Refuse
<1>1. WalInv /\ WalInv' /\ Appending /\ writing # None
  BY DiskFullWal DEF LogInv, DiskFull, MustSpill, Direct, Flushing, Appending
<1>2. writing' = None /\ unsure' = unsure \union {writing} /\ UNCHANGED <<up, owed>>
  BY DEF DiskFull
<1>3. file \in Seq(Units) /\ buffer \in Seq(Units) /\ From(file, Known) /\ From(buffer, Known)
  BY <1>1 DEF WalInv, Segment, LogInv, Origins
<1>4. Apart'
  BY <1>1, <1>2, NoneAssumption DEF WalInv, Histories, LogInv, Apart, Appending
<1>5. Pending \in Seq(Units) /\ From(Pending, Known)
  <2>1. CASE Direct
    <3>1. Pending = Head(calls) /\ calls # <<>>
      BY <2>1 DEF Pending, Direct
    <3>2. From(Head(calls), {writing, None}) /\ {writing, None} \subseteq Known
      BY <1>1, <3>1, SliceFrom DEF Known
    <3> QED BY <1>1, <3>1, <3>2, Slice, FromMore
  <2>2. CASE ~Direct
    BY <1>3, <2>2 DEF Pending
  <2> QED BY <2>1, <2>2
<1>6. n \in 0..Len(Pending)
  BY <1>5, LenProperties
<1>7. Origins'
  <2> DEFINE q == SubSeq(Pending, 1, n)
             r == SubSeq(Pending, n + 1, Len(Pending))
  <2>1. q \in Seq(Units) /\ From(q, Known) /\ From(r, Known)
    BY <1>5, <1>6, PartTyped, FromPart
  <2>2. file' = file \o q /\ buffer' \in {buffer, r}
    BY DEF DiskFull, Pending
  <2> HIDE DEF q, r
  <2>3. From(file', Known) /\ From(buffer', Known)
    BY <1>3, <2>1, <2>2, FromJoined
  <2>4. Known \subseteq Known'
    BY <1>2 DEF Known
  <2> QED BY <2>3, <2>4, FromMore DEF Origins
<1>8. SyncedAll' /\ Uncut'
  BY <1>2 DEF SyncedAll, Uncut
<1>9. Log!Refuse
  BY <1>1 DEF DiskFull, Appending, Log!Refuse, Log!Working
<1> QED BY <1>1, <1>4, <1>7, <1>8, <1>9 DEF LogInv

LEMMA TruncateLog == ASSUME LogInv, Truncate PROVE LogInv' /\ Log!Empty
<1>1. WalInv' /\ up /\ writing = None
  BY TruncateWal DEF LogInv, Truncate
<1>2. file' = <<>> /\ buffer' = <<>> /\ Len(<<>>) = 0 /\ synced' = 0
  BY EmptySeq DEF Truncate, SyncedAfterTruncate
<1>3. Apart' /\ SyncedAll'
  BY <1>1, <1>2 DEF Truncate, Apart, SyncedAll
<1>4. Origins'
  BY <1>2 DEF Origins, From
<1>5. Uncut'
  <2>1. Chain(<<>>, 0, {1})
    BY DEF Chain
  <2>2. Chained(file', Len(file'))
    BY <1>2, <2>1 DEF Chained
  <2> QED BY <1>1, <1>2, <2>2 DEF Truncate, Uncut
<1>6. Log!Empty
  BY DEF Truncate, Log!Empty
<1> QED BY <1>1, <1>3, <1>4, <1>5, <1>6 DEF LogInv

LEMMA SyncLog == ASSUME LogInv, Sync PROVE LogInv' /\ Log!Sync
<1>1. WalInv /\ WalInv' /\ up /\ writing = None
  BY SyncWal DEF LogInv, Sync
<1>2. /\ file' = file \o buffer /\ buffer' = <<>> /\ synced' = Len(file')
      /\ UNCHANGED <<up, writing, owed, unsure>>
  BY DEF Sync, Flushed
<1>3. file \in Seq(Units) /\ buffer \in Seq(Units) /\ From(file, Known) /\ From(buffer, Known)
  BY <1>1 DEF WalInv, Segment, LogInv, Origins
<1>4. Apart' /\ SyncedAll' /\ Known' = Known
  BY <1>2 DEF LogInv, Apart, SyncedAll, Known
<1>5. Origins'
  <2>1. From(file', Known) /\ From(buffer', Known)
    BY <1>2, <1>3, FromJoined, EmptySeq DEF From
  <2> QED BY <1>4, <2>1 DEF Origins
<1>6. Uncut'
  <2>1. SUFFICES ASSUME unsure = {} PROVE Chained(file', Len(file'))
    BY <1>1, <1>2 DEF Uncut
  <2>2. buffer = <<>> /\ Chained(file, Len(file))
    BY <1>1, <2>1 DEF LogInv, Uncut
  <2>3. file' = file
    BY <1>2, <1>3, <2>2, ConcatEmptySeq
  <2> QED BY <2>2, <2>3
<1>7. Log!Sync
  BY DEF Sync, Log!Sync
<1> QED BY <1>1, <1>4, <1>5, <1>6, <1>7 DEF LogInv

LEMMA CrashLog == ASSUME LogInv, Crash PROVE LogInv' /\ Log!Stop({})
<1>1. WalInv /\ WalInv'
  BY CrashWal DEF LogInv
<1>2. /\ writing' = None /\ buffer' = <<>> /\ unsure' = unsure \union ({writing} \ {None})
      /\ UNCHANGED <<file, synced, owed, durable>>
  BY DEF Crash, Down
<1>3. Apart'
  BY <1>1, <1>2, NoneAssumption DEF WalInv, Histories, Apart
<1>4. Origins'
  <2>1. From(file, Known) /\ Known \subseteq Known'
    BY <1>2 DEF LogInv, Origins, Known
  <2>2. From(buffer', Known')
    BY <1>2, EmptySeq DEF From
  <2> QED BY <1>2, <2>1, <2>2, FromMore DEF Origins
<1>5. SyncedAll'
  BY <1>2 DEF LogInv, SyncedAll
<1>6. Uncut'
  BY <1>2 DEF LogInv, Uncut
<1>7. Log!Stop({})
  BY DEF Crash, Down, Log!Stop
<1> QED BY <1>1, <1>3, <1>4, <1>5, <1>6, <1>7 DEF LogInv

LEMMA PowerCutLog == ASSUME LogInv, PowerCut PROVE LogInv' /\ Log!Stop(owed \ durable)
<1>1. WalInv /\ WalInv' /\ file \in Seq(Units) /\ synced \in 0..Len(file) /\ Len(file) \in Nat
  BY PowerCutWal, LenProperties DEF LogInv, WalInv, Segment, Logged
<1>2. /\ writing' = None /\ buffer' = <<>> /\ owed' = durable /\ durable' = durable
      /\ unsure' = unsure \union (owed \ durable) \union ({writing} \ {None})
  BY DEF PowerCut, Down
<1>3. PICK n \in synced..Len(file) : file' = SubSeq(file, 1, n) /\ synced' = n
  BY DEF PowerCut
<1>4. n \in 0..Len(file)
  BY <1>1, <1>3
<1>5. Apart'
  BY <1>1, <1>2, NoneAssumption DEF WalInv, Histories, Apart
<1>6. Origins'
  <2>1. From(file', Known)
    BY <1>1, <1>3, <1>4, FromPart DEF LogInv, Origins
  <2>2. Known \subseteq Known'
    BY <1>2 DEF Known
  <2>3. From(buffer', Known')
    BY <1>2, EmptySeq DEF From
  <2> QED BY <2>1, <2>2, <2>3, FromMore DEF Origins
<1>7. Begins(file', file) /\ Len(file') = n
  BY <1>1, <1>3, <1>4, FrontOf
<1>8. SyncedAll'
  BY <1>3, <1>7 DEF SyncedAll
<1>9. Uncut'
  <2>1. SUFFICES ASSUME unsure' = {} PROVE Chained(file', Len(file'))
    BY <1>2 DEF Uncut
  <2>2. unsure = {} /\ owed \subseteq durable /\ writing = None
    BY <1>2, <2>1
  <2>3. synced = Len(file) /\ Chained(file, Len(file))
    BY <2>2 DEF LogInv, SyncedAll, Uncut
  <2>4. n = Len(file)
    BY <1>1, <1>3, <2>3
  <2>5. file' = file
    <3>1. file' \in Seq(Units) /\ \A k \in 1..Len(file') : file'[k] = file[k]
      BY <1>7 DEF Begins
    <3> QED BY <1>1, <1>7, <2>4, <3>1, SeqEqual
  <2> QED BY <2>3, <2>5
<1>10. Log!Stop(owed \ durable)
  <2>1. durable = owed \ (owed \ durable)
    BY <1>1 DEF WalInv, Histories
  <2> QED BY <2>1 DEF PowerCut, Down, Log!Stop
<1> QED BY <1>1, <1>5, <1>6, <1>8, <1>9, <1>10 DEF LogInv

\* An entry in the file is of a frame of which units may be there.
LEMMA CompleteKnown ==
  ASSUME NEW s \in Seq(Units), NEW K, From(s, K), NEW f \in Complete(s)
  PROVE  f \in Frames /\ f \in K
<1>1. f \in Frames
  BY DEF Complete
<1>2. PICK i \in 1..Len(s) : Lies(f, s, i)
  BY <1>1, CompleteLies
<1>3. Len(s) \in Nat /\ Size[f] \in Nat /\ Size[f] > 0
  BY <1>1, SliceUnits, LenProperties
<1>4. i + Width(f) <= Len(s) + 1 /\ Width(f) \in 1..Width(f) /\ Width(f) = Size[f] + 7 /\ Width(f) \in Nat
  BY <1>2, <1>3 DEF Lies, Width
<1>5. s[i + Width(f) - 1] = UnitOf(f, Width(f)) /\ i + Width(f) - 1 \in 1..Len(s)
  BY <1>2, <1>3, <1>4 DEF Lies
<1>6. UnitOf(f, Width(f)).of = f
  BY <1>3, <1>4 DEF UnitOf, Unit
<1> QED BY <1>1, <1>5, <1>6 DEF From

LEMMA RestartLog == ASSUME LogInv, Restart PROVE LogInv' /\ Log!Start
<1>1. WalInv /\ WalInv' /\ file \in Seq(Units) /\ writing = None
  BY RestartWal DEF LogInv, WalInv, Segment, Apart, Restart
<1>2. /\ UNCHANGED <<file, synced, buffer, writing, calls, owed, durable, unsure>> /\ up'
      /\ memtable' = Replay(file) /\ torn' = (torn \/ ~Whole(file))
  BY DEF Restart, segment
<1>3. Apart' /\ SyncedAll' /\ Uncut'
  BY <1>1, <1>2 DEF LogInv, Apart, SyncedAll, Uncut
<1>4. Origins'
  BY <1>2 DEF LogInv, Origins, Known
<1>5. memtable' \subseteq owed \union unsure
  <2>1. ASSUME NEW f \in Replay(file) PROVE f \in owed \union unsure
    <3>1. f \in Complete(file) /\ From(file, Known)
      BY <1>1, <2>1, ReplaySound DEF LogInv, Origins
    <3>2. f \in Frames /\ f \in Known
      BY <1>1, <3>1, CompleteKnown
    <3> QED BY <1>1, <3>2, NoneAssumption DEF Known
  <2> QED BY <1>2, <2>1
<1>6. torn' => torn \/ unsure # {}
  <2>1. unsure = {} => Whole(file)
    BY <1>1, ChainWhole DEF LogInv, Uncut
  <2> QED BY <1>2, <2>1
<1>7. ~torn' => owed \subseteq memtable'
  BY <1>1, <1>2 DEF WalInv, IntactLogServed
<1>8. torn' \in BOOLEAN /\ (torn => torn')
  BY <1>1, <1>2 DEF WalInv, Histories
<1>9. Log!Start
  BY <1>2, <1>5, <1>6, <1>7, <1>8 DEF Restart, Log!Start
<1> QED BY <1>1, <1>3, <1>4, <1>9 DEF LogInv

LEMMA StepLog == LogInv /\ [Next]_vars => LogInv' /\ [Log!Next]_Log!vars
<1> SUFFICES ASSUME LogInv, [Next]_vars PROVE LogInv' /\ [Log!Next]_Log!vars
  OBVIOUS
<1>1. ASSUME NEW f \in Frames, AppendBegin(f) PROVE LogInv' /\ Log!Next
  BY <1>1, AppendBeginLog DEF Log!Next
<1>2. ASSUME NEW n \in 0..(Len(Pending) - 1), DiskFull(n) PROVE LogInv' /\ Log!Next
  BY <1>2, DiskFullLog DEF Log!Next
<1>3. CASE WriteBuffered \/ WriteSpill \/ WriteDirect
  BY <1>3, WritesOnLog DEF WritesOn
<1>4. CASE AppendFlush
  BY <1>4, AppendFlushLog DEF Log!Next
<1>5. CASE Truncate \/ Sync
  BY <1>5, TruncateLog, SyncLog DEF Log!Next
<1>6. CASE Crash \/ PowerCut
  BY <1>6, CrashLog, PowerCutLog DEF Log!Next
<1>7. CASE Restart
  BY <1>7, RestartLog DEF Log!Next
<1>8. CASE UNCHANGED vars
  <2>1. UNCHANGED <<file, synced, buffer, writing, calls, up, memtable, owed, durable, torn, unsure>>
    BY <1>8 DEF vars, segment
  <2>2. WalInv'
    BY <1>8, StepWal DEF LogInv
  <2>3. Apart' /\ Origins' /\ SyncedAll' /\ Uncut'
    BY <2>1 DEF LogInv, Apart, Origins, Known, SyncedAll, Uncut
  <2>4. UNCHANGED Log!vars
    BY <2>1 DEF Log!vars
  <2> QED BY <2>2, <2>3, <2>4 DEF LogInv
<1> QED BY <1>1, <1>2, <1>3, <1>4, <1>5, <1>6, <1>7, <1>8 DEF Next

\* The log, unit by unit, implements the log of whole entries, for all frames, sizes of payloads
\* and of the buffer, failed writes, crashes and losses of power: what append returned Ok for is
\* in the log for good, and a start that no failed or interrupted append came before serves
\* exactly that.
THEOREM LogRefined == Spec => ImplementsLog
  BY InitLog, StepLog, PTL DEF Spec, ImplementsLog, Log!Spec

\* A start replays all of the whole entries at the front of the segment or none, and nothing
\* whose entry is not complete in it: whatever the segment has become.
THEOREM ReplayedWhole == Spec => []ReplayAllOrNothing
<1>1. WalInv => ReplayAllOrNothing
  BY AllOrNothing DEF WalInv, Segment
<1> QED BY <1>1, InitWal, StepWal, PTL DEF Spec

----------------------------------------------------------------------------
(* A query: what it reads and what it answers                              *)

Asking == request \in Requests

\* What is stored is finite, and what was stored all the while still is.
StoredInv ==
  /\ now \in 0..LastTime
  /\ memory \in SUBSET Received /\ IsFiniteSet(memory)
  /\ tables \in Seq(SUBSET Received) /\ \A k \in 1..Len(tables) : IsFiniteSet(tables[k])
  /\ copied \in BOOLEAN
  /\ kept \subseteq memory \union UNION ToSet(tables)

\* After the memtable was read, what the query is to find is in what it has or in a table;
\* after the tables, it has it.
ReadInv ==
  /\ pc = "tables" =>
       \A f \in kept : Within(f) => f \in ToSet(results) \union UNION ToSet(tables)
  /\ pc \in {"select", "answer"} /\ (pc = "answer" => answer.status = 200) =>
       /\ \A f \in kept : Within(f) => f \in ToSet(results)
       /\ \A i, j \in 1..Len(results) : i < j => TimeOf[results[i]] <= TimeOf[results[j]]
  /\ \A f \in ToSet(results) : Within(f)

HandlerType ==
  /\ pc \in {"idle", "parse", "check", "memtable", "tables", "select", "answer"}
  /\ request \in Requests \union {NoRequest}
  /\ pc \notin {"idle", "answer"} => Asking
  /\ pc = "answer" /\ answer.status = 200 => Asking
  /\ period.from \in (-LastTime..LastTime) \union {NoTime} /\ period.to \in -1..LastTime
  /\ results \in Seq(Received)
  /\ pc \in {"idle", "parse", "check", "memtable"} => results = <<>>
  /\ answer.status \in {0, 200, 400, 500}
  /\ pc # "answer" => answer = NoAnswer
  /\ pc \in {"idle", "parse", "check"} => kept = {}

\* The answer is made of what was read.
Cut == SubSeq(results, 1, Least(Len(results), EffectiveLimit))
Chosen == FilterFrames(Cut)
AnswerInv ==
  Answering =>
    answer.frames = [i \in DOMAIN Chosen |-> [frame |-> Chosen[i], fields |-> ProjectFields(Chosen[i])]]

QueryInv == StoredInv /\ HandlerType /\ ReadInv /\ AnswerInv


LEMMA BeforeOrders == ASSUME NEW S \in SUBSET Received PROVE StrictOrder(Before, S)
<1>1. \A f \in S : f \in Received /\ f \in Nat /\ TimeOf[f] \in Nat
  BY FramesAssumption
<1>2. \A f, g \in S :
        <<f, g>> \in Before <=> TimeOf[f] < TimeOf[g] \/ (TimeOf[f] = TimeOf[g] /\ f < g)
  BY <1>1 DEF Before
<1> QED BY <1>1, <1>2 DEF StrictOrder

\* What one scan answers.
LEMMA ScanOfAll ==
  ASSUME NEW S \in SUBSET Received, IsFiniteSet(S)
  PROVE  ScanOf(S) \in Seq(Received) /\ ToSet(ScanOf(S)) = {f \in S : Within(f)}
<1> DEFINE T == {f \in S : Within(f)}
           s == Ranked(T, Before)
           n == Cardinality(T)
<1>1. T \in SUBSET S /\ T \in SUBSET Received
  OBVIOUS
<1> HIDE DEF T
<1>2. IsFiniteSet(T) /\ n \in Nat
  BY <1>1, FS_Subset, FS_CardinalityType
<1>3. s \in [1..n -> T] /\ \A f \in T : \E k \in 1..n : s[k] = f
  BY <1>1, <1>2, BeforeOrders, RankedAll
<1>4. ScanOf(S) = s
  BY DEF ScanOf, T
<1> HIDE DEF s, n
<1>5. s \in Seq(T) /\ Len(s) = n /\ DOMAIN s = 1..n
  BY <1>2, <1>3
<1>6. s \in Seq(Received)
  BY <1>1, <1>5
<1>7. ToSet(s) = T
  <2>1. \A f \in T : f \in ToSet(s)
    BY <1>3, <1>5 DEF ToSet
  <2>2. \A f \in ToSet(s) : f \in T
    BY <1>3, <1>5 DEF ToSet
  <2> QED BY <2>1, <2>2
<1> QED BY <1>4, <1>6, <1>7 DEF T

\* What the scans of all tables answer together.
Hits(i) == {f \in tables[i] : Within(f)}
LEMMA ScansAll ==
  ASSUME StoredInv
  PROVE  /\ ScanTables \in Seq(Received)
         /\ ToSet(ScanTables) = {f \in UNION ToSet(tables) : Within(f)}
<1> DEFINE n == Len(tables)
           A == Seq(Received)
           g == [e \in (1..n) \X A |-> e[2] \o ScanOf(tables[e[1]])]
           Loop(h) == h = [i \in 0..n |-> IF i = 0 THEN <<>> ELSE h[i - 1] \o ScanOf(tables[i])]
<1>1. n \in Nat /\ DOMAIN tables = 1..n
  BY DEF StoredInv
<1>2. \A i \in 1..n : tables[i] \in SUBSET Received /\ IsFiniteSet(tables[i])
  BY <1>1 DEF StoredInv
<1>3. \A i \in 1..n : ScanOf(tables[i]) \in A /\ ToSet(ScanOf(tables[i])) = Hits(i)
  BY <1>2, ScanOfAll DEF Hits
<1>4. <<>> \in A
  OBVIOUS
<1>5. \A s \in A, u \in A : s \o u \in A
  OBVIOUS
<1>6. g \in [(1..n) \X A -> A] /\ \A i \in 1..n, s \in A : g[<<i, s>>] = s \o ScanOf(tables[i])
  <2> HIDE DEF n, A
  <2> QED BY <1>3, <1>5
<1> HIDE DEF n, g
<1>7. PICK f \in [0..n -> A] : GoesOn(f, n, <<>>, g)
  <2> HIDE DEF A
  <2> QED BY <1>1, <1>4, <1>6, Recursion
<1>8. f[0] = <<>> /\ \A i \in 1..n : f[i] = f[i - 1] \o ScanOf(tables[i])
  <2>1. \A i \in 1..n : i - 1 \in 0..n
    BY <1>1
  <2> HIDE DEF A
  <2> QED BY <1>6, <1>7, <2>1 DEF GoesOn
<1>9. Loop(f)
  <2>1. \A i \in 0..n : i # 0 => i \in 1..n
    BY <1>1
  <2>2. \A i \in 0..n : f[i] = IF i = 0 THEN <<>> ELSE f[i - 1] \o ScanOf(tables[i])
    <3> HIDE DEF A
    <3> QED BY <1>8, <2>1
  <2>3. f = [i \in 0..n |-> f[i]]
    OBVIOUS
  <2> HIDE DEF A
  <2> QED BY <2>2, <2>3
<1> DEFINE c == CHOOSE h : Loop(h)
<1>10. Loop(c)
  <2> HIDE DEF Loop
  <2> QED BY <1>9
<1>11. ScanTables = c[n]
  BY DEF ScanTables, Scans, n
<1> HIDE DEF c
<1> DEFINE Then(u, i) == u \o ScanOf(tables[i])
<1>12. c[0] = <<>> /\ \A i \in 1..n : c[i] = Then(c[i - 1], i)
  <2>1. 0 \in 0..n /\ \A i \in 1..n : i \in 0..n /\ i # 0
    BY <1>1
  <2> QED BY <1>10, <2>1
<1> HIDE DEF Loop, A
<1> DEFINE Good(i) == c[i] \in A /\ (\A e : e \in ToSet(c[i]) <=> \E j \in 1..i : e \in Hits(j))
           T == {i \in 0..n : Good(i)}
<1>13. 0 \in T
  <2>1. ToSet(<<>>) = {} /\ 1..0 = {} /\ 0 \in 0..n
    BY <1>1 DEF ToSet
  <2> QED BY <1>4, <1>12, <2>1
<1>14. ASSUME NEW i \in 0..(n - 1), i \in T PROVE i + 1 \in T
  <2>1. i + 1 \in 1..n /\ i + 1 - 1 = i /\ i + 1 \in 0..n /\ i \in Nat
    BY <1>1
  <2>2. c[i + 1] = c[i] \o ScanOf(tables[i + 1])
    <3> HIDE DEF Then
    <3>1. c[i + 1] = Then(c[i], i + 1)
      BY <1>12, <2>1
    <3> QED BY <3>1 DEF Then
  <2>3. c[i] \in A /\ ScanOf(tables[i + 1]) \in A /\ ToSet(ScanOf(tables[i + 1])) = Hits(i + 1)
    <3>1. c[i] \in A
      BY <1>14
    <3>2. ScanOf(tables[i + 1]) \in A /\ ToSet(ScanOf(tables[i + 1])) = Hits(i + 1)
      BY <1>3, <2>1, Zenon
    <3> QED BY <3>1, <3>2, Zenon
  <2>4. c[i + 1] \in A /\ ToSet(c[i + 1]) = ToSet(c[i]) \union Hits(i + 1)
    <3>1. /\ c[i] \o ScanOf(tables[i + 1]) \in A
          /\ ToSet(c[i] \o ScanOf(tables[i + 1])) = ToSet(c[i]) \union ToSet(ScanOf(tables[i + 1]))
      <4> DEFINE v == c[i]
                 u == ScanOf(tables[i + 1])
      <4>1. v \in Seq(Received) /\ u \in Seq(Received)
        BY <2>3 DEF A
      <4> HIDE DEF v, u
      <4>2. v \o u \in Seq(Received) /\ ToSet(v \o u) = ToSet(v) \union ToSet(u)
        BY <4>1, SetOfJoin, Zenon
      <4> QED BY <4>2, Zenon DEF A, v, u
    <3> QED BY <2>2, <2>3, <3>1, Zenon
  <2>5. \A j : j \in 1..(i + 1) <=> j \in 1..i \/ j = i + 1
    BY <2>1
  <2>6. \A e : e \in ToSet(c[i]) <=> \E j \in 1..i : e \in Hits(j)
    BY <1>14
  <2>7. \A e : e \in ToSet(c[i + 1]) <=> e \in ToSet(c[i]) \/ e \in Hits(i + 1)
    BY <2>4
  <2>8. \A e : e \in ToSet(c[i + 1]) <=> \E j \in 1..(i + 1) : e \in Hits(j)
    BY <2>5, <2>6, <2>7, Zenon
  <2> QED BY <2>1, <2>4, <2>8
<1>15. Good(n)
  <2>1. \A i \in 0..n : i \in T
    <3> HIDE DEF T
    <3> QED BY <1>1, <1>13, <1>14, CountUp
  <2> QED BY <1>1, <2>1
<1>16. \A e : e \in UNION ToSet(tables) /\ Within(e) <=> \E j \in 1..n : e \in Hits(j)
  <2>1. \A S : S \in ToSet(tables) <=> \E j \in 1..n : S = tables[j]
    BY <1>1 DEF ToSet
  <2> QED BY <2>1 DEF Hits
<1>17. ToSet(c[n]) = {e \in UNION ToSet(tables) : Within(e)}
  <2>1. \A e : e \in ToSet(c[n]) <=> \E j \in 1..n : e \in Hits(j)
    BY <1>15
  <2> QED BY <1>16, <2>1
<1> QED BY <1>11, <1>15, <1>17 DEF A

\* What sorting by time makes of what was read.
LEMMA ByTimeAll ==
  ASSUME NEW s \in Seq(Received)
  PROVE  /\ ByTime(s) \in Seq(Received) /\ ToSet(ByTime(s)) = ToSet(s)
         /\ \A i, j \in 1..Len(ByTime(s)) : i < j => TimeOf[ByTime(s)[i]] <= TimeOf[ByTime(s)[j]]
<1> DEFINE S == DOMAIN s
           R == {e \in S \X S : \/ TimeOf[s[e[1]]] < TimeOf[s[e[2]]]
                                \/ TimeOf[s[e[1]]] = TimeOf[s[e[2]]] /\ e[1] < e[2]}
           order == Ranked(S, R)
           n == Cardinality(S)
           v == [k \in DOMAIN order |-> s[order[k]]]
<1>1. S = 1..Len(s) /\ Len(s) \in Nat /\ \A i \in S : s[i] \in Received /\ i \in Nat
  BY LenProperties, ElementOfSeq
<1>5. ByTime(s) = v
  BY DEF ByTime, Rearranged
<1> HIDE DEF S
<1>2. IsFiniteSet(S) /\ n \in Nat
  <2> DEFINE m == Len(s)
  <2>1. S = 1..m /\ m \in Int
    BY <1>1
  <2> HIDE DEF m
  <2> QED BY <2>1, FS_Interval, FS_CardinalityType
<1>3. \A i \in S : TimeOf[s[i]] \in Nat
  <2>1. \A f \in Received : TimeOf[f] \in Nat
    BY FramesAssumption
  <2>2. \A i \in S : s[i] \in Received
    BY <1>1
  <2> QED BY <2>1, <2>2
<1>4. \A i, j \in S : <<i, j>> \in R <=>
        TimeOf[s[i]] < TimeOf[s[j]] \/ (TimeOf[s[i]] = TimeOf[s[j]] /\ i < j)
  OBVIOUS
<1> HIDE DEF R
<1>6. StrictOrder(R, S)
  <2> DEFINE w(i) == TimeOf[s[i]]
  <2>1. \A i \in S : i \in Nat /\ w(i) \in Nat
    BY <1>1, <1>3
  <2>2. \A i, j \in S : <<i, j>> \in R <=> w(i) < w(j) \/ (w(i) = w(j) /\ i < j)
    BY <1>4
  <2> HIDE DEF w
  <2> QED BY <2>1, <2>2 DEF StrictOrder
<1>7. /\ order \in [1..n -> S] /\ \A i \in S : \E k \in 1..n : order[k] = i
      /\ \A k, l \in 1..n : k < l => <<order[k], order[l]>> \in R
  BY <1>2, <1>6, RankedAll
<1> HIDE DEF order, n
<1>8. v \in [1..n -> Received] /\ \A k \in 1..n : v[k] = s[order[k]]
  BY <1>1, <1>7
<1> HIDE DEF v
<1>9. v \in Seq(Received) /\ Len(v) = n /\ DOMAIN v = 1..n
  BY <1>2, <1>8
<1>10. ToSet(v) = ToSet(s)
  <2>1. \A e \in ToSet(v) : e \in ToSet(s)
    BY <1>7, <1>8, <1>9 DEF ToSet, S
  <2>2. ASSUME NEW i \in S PROVE s[i] \in ToSet(v)
    <3>1. PICK k \in 1..n : order[k] = i
      BY <1>7
    <3>2. v[k] = s[i]
      BY <1>8, <3>1
    <3> QED BY <1>9, <3>2 DEF ToSet
  <2>3. \A e \in ToSet(s) : e \in ToSet(v)
    BY <2>2 DEF ToSet, S
  <2> QED BY <2>1, <2>3
<1>11. \A k, l \in 1..n : k < l => TimeOf[v[k]] <= TimeOf[v[l]]
  <2> TAKE k, l \in 1..n
  <2> HAVE k < l
  <2>1. <<order[k], order[l]>> \in R /\ order[k] \in S /\ order[l] \in S
    BY <1>7
  <2>2. v[k] = s[order[k]] /\ v[l] = s[order[l]]
    BY <1>8
  <2>3. TimeOf[s[order[k]]] <= TimeOf[s[order[l]]]
    BY <1>3, <1>4, <2>1
  <2> QED BY <2>2, <2>3
<1> QED BY <1>5, <1>9, <1>10, <1>11

\* What the kind asked for leaves: at increasing places, and all there is of the kind.
LEMMA FilterAll ==
  ASSUME NEW s \in Seq(Received)
  PROVE  /\ FilterFrames(s) \in Seq(Received) /\ Len(FilterFrames(s)) <= Len(s)
         /\ ToSet(FilterFrames(s)) = {f \in ToSet(s) : OfKind(f)}
         /\ (\A i, j \in 1..Len(s) : i < j => TimeOf[s[i]] <= TimeOf[s[j]]) =>
              \A i, j \in 1..Len(FilterFrames(s)) :
                i < j => TimeOf[FilterFrames(s)[i]] <= TimeOf[FilterFrames(s)[j]]
<1> DEFINE S == {i \in DOMAIN s : OfKind(s[i])}
           order == Sorted(S)
           n == Cardinality(S)
           v == [k \in DOMAIN order |-> s[order[k]]]
<1>1. DOMAIN s = 1..Len(s) /\ Len(s) \in Nat /\ \A i \in 1..Len(s) : s[i] \in Received
  BY LenProperties, ElementOfSeq
<1>2. S \in SUBSET Nat /\ S \in SUBSET (1..Len(s)) /\ \A i \in S : s[i] \in Received
  BY <1>1
<1>3. FilterFrames(s) = v
  BY DEF FilterFrames, Rearranged
<1>4. \A i \in 1..Len(s) : i \in S <=> OfKind(s[i])
  BY <1>1
<1> HIDE DEF S
<1>5. IsFiniteSet(S) /\ n \in Nat /\ n <= Len(s)
  <2> DEFINE m == Len(s)
  <2>1. m \in Nat /\ S \in SUBSET (1..m)
    BY <1>1, <1>2
  <2> HIDE DEF m
  <2>2. IsFiniteSet(1..m) /\ Cardinality(1..m) = m
    BY <2>1, FS_Interval
  <2>3. IsFiniteSet(S) /\ n \in Nat /\ n <= m
    BY <2>1, <2>2, FS_Subset, FS_CardinalityType
  <2> QED BY <2>3 DEF m
<1>6. /\ order \in [1..n -> S] /\ \A i \in S : \E k \in 1..n : order[k] = i
      /\ \A k, l \in 1..n : k < l => order[k] < order[l]
  BY <1>2, <1>5, SortedAll
<1> HIDE DEF order, n
<1>7. v \in [1..n -> Received] /\ \A k \in 1..n : v[k] = s[order[k]]
  BY <1>2, <1>6
<1> HIDE DEF v
<1>8. v \in Seq(Received) /\ Len(v) = n /\ DOMAIN v = 1..n
  BY <1>5, <1>7
<1>9. ToSet(v) = {f \in ToSet(s) : OfKind(f)}
  <2>1. ASSUME NEW k \in 1..n PROVE v[k] \in ToSet(s) /\ OfKind(v[k])
    <3>1. order[k] \in S /\ order[k] \in 1..Len(s)
      BY <1>2, <1>6
    <3>2. s[order[k]] \in ToSet(s) /\ OfKind(s[order[k]])
      BY <1>1, <1>4, <3>1 DEF ToSet
    <3> QED BY <1>7, <3>2
  <2>2. ASSUME NEW i \in 1..Len(s), OfKind(s[i]) PROVE s[i] \in ToSet(v)
    <3>1. PICK k \in 1..n : order[k] = i
      BY <1>4, <1>6, <2>2
    <3>2. v[k] = s[i]
      BY <1>7, <3>1
    <3> QED BY <1>8, <3>2 DEF ToSet
  <2>3. \A f \in ToSet(s) : OfKind(f) => f \in ToSet(v)
    BY <1>1, <2>2 DEF ToSet
  <2>4. \A f \in ToSet(v) : f \in ToSet(s) /\ OfKind(f)
    BY <1>8, <2>1 DEF ToSet
  <2> QED BY <2>3, <2>4
<1>10. ASSUME \A i, j \in 1..Len(s) : i < j => TimeOf[s[i]] <= TimeOf[s[j]]
       PROVE  \A k, l \in 1..n : k < l => TimeOf[v[k]] <= TimeOf[v[l]]
  <2> TAKE k, l \in 1..n
  <2> HAVE k < l
  <2>1. order[k] < order[l] /\ order[k] \in 1..Len(s) /\ order[l] \in 1..Len(s)
    BY <1>2, <1>6
  <2>2. v[k] = s[order[k]] /\ v[l] = s[order[l]]
    BY <1>7
  <2> QED BY <1>10, <2>1, <2>2
<1> QED BY <1>3, <1>5, <1>8, <1>9, <1>10

\* What a step of the engine may do while a query reads.
LEMMA Meanwhile ==
  ASSUME QueryInv, StoredInv', UNCHANGED <<pc, request, period, results, answer>>,
         kept' \subseteq kept, UNION ToSet(tables) \subseteq UNION ToSet(tables')
  PROVE  QueryInv'
<1>1. HandlerType'
  BY DEF QueryInv, HandlerType, Asking
<1>2. \A f : Within(f)' <=> Within(f)
  BY DEF Within
<1>3. ReadInv'
  <2>1. pc' = pc /\ answer' = answer /\ results' = results
    OBVIOUS
  <2> HIDE DEF Within
  <2> QED BY <1>2, <2>1 DEF QueryInv, ReadInv
<1>4. AnswerInv'
  <2>1. Chosen' = Chosen
    BY DEF Chosen, Cut, FilterFrames, OfKind, EffectiveLimit
  <2>2. \A f : ProjectFields(f)' = ProjectFields(f)
    BY DEF ProjectFields
  <2>3. Answering' <=> Answering
    BY DEF Answering
  <2>4. answer'.frames = answer.frames
    OBVIOUS
  <2>5. Answering => answer.frames = [i \in DOMAIN Chosen |-> [frame |-> Chosen[i], fields |-> ProjectFields(Chosen[i])]]
    BY DEF QueryInv, AnswerInv
  <2> HIDE DEF ProjectFields, Chosen, Answering
  <2> QED BY <2>1, <2>2, <2>3, <2>4, <2>5 DEF AnswerInv
<1> QED BY <1>1, <1>3, <1>4 DEF QueryInv

LEMMA TickQuery == ASSUME QueryInv, Tick PROVE QueryInv'
<1>1. now' \in 0..LastTime /\ UNCHANGED <<stored, handler>>
  BY FramesAssumption DEF Tick, QueryInv, StoredInv
<1>2. StoredInv'
  BY <1>1 DEF QueryInv, StoredInv, stored, handler
<1> QED BY <1>1, <1>2, Meanwhile DEF stored, handler

LEMMA InsertQuery == ASSUME QueryInv, NEW f \in Received, InsertFrame(f) PROVE QueryInv'
<1>1. memory' = memory \union {f} /\ UNCHANGED <<now, tables, copied, handler>>
  BY DEF InsertFrame
<1>2. IsFiniteSet(memory')
  BY <1>1, FS_AddElement DEF QueryInv, StoredInv
<1>3. StoredInv'
  BY <1>1, <1>2 DEF QueryInv, StoredInv, handler
<1> QED BY <1>1, <1>3, Meanwhile DEF handler

LEMMA ListQuery == ASSUME QueryInv, ListTable PROVE QueryInv'
<1>1. tables' = Append(tables, memory) /\ copied' = TRUE /\ UNCHANGED <<now, memory, handler>>
  BY DEF ListTable
<1>2. tables \in Seq(SUBSET Received) /\ memory \in SUBSET Received /\ IsFiniteSet(memory)
  BY DEF QueryInv, StoredInv
<1>3. tables' \in Seq(SUBSET Received) /\ ToSet(tables') = ToSet(tables) \union {memory}
  BY <1>1, <1>2, SetOfAppend
<1>4. \A k \in 1..Len(tables') : IsFiniteSet(tables'[k])
  <2>1. Len(tables') = Len(tables) + 1 /\ tables'[Len(tables) + 1] = memory
        /\ \A k \in 1..Len(tables) : tables'[k] = tables[k]
    BY <1>1, <1>2
  <2>2. \A k \in 1..(Len(tables) + 1) : k \in 1..Len(tables) \/ k = Len(tables) + 1
    BY <1>2
  <2> QED BY <1>2, <2>1, <2>2 DEF QueryInv, StoredInv
<1>5. UNION ToSet(tables) \subseteq UNION ToSet(tables')
  BY <1>3
<1>6. StoredInv'
  BY <1>1, <1>2, <1>3, <1>4, <1>5 DEF QueryInv, StoredInv, handler
<1> QED BY <1>1, <1>5, <1>6, Meanwhile DEF handler

LEMMA ClearQuery == ASSUME QueryInv, ClearMemtable PROVE QueryInv'
<1>1. memory' = {} /\ copied' = FALSE /\ UNCHANGED <<now, tables, pc, request, period, results, answer>>
  BY DEF ClearMemtable
<1>2. kept' \subseteq kept /\ kept' \subseteq UNION ToSet(tables)
  BY DEF ClearMemtable, Keeps, Stored, QueryInv, HandlerType
<1>3. IsFiniteSet({})
  BY FS_EmptySet
<1>4. StoredInv'
  BY <1>1, <1>2, <1>3 DEF QueryInv, StoredInv
<1> QED BY <1>1, <1>2, <1>4, Meanwhile

LEMMA MergeQuery == ASSUME QueryInv, MergeTables PROVE QueryInv'
<1> DEFINE n == Len(tables)
           one == tables[1] \union tables[2]
           rest == SubSeq(tables, 3, n)
<1>1. n >= 2 /\ tables' = <<one>> \o rest /\ UNCHANGED <<now, memory, copied, handler>>
  BY DEF MergeTables
<1>2. /\ n \in Nat /\ tables \in Seq(SUBSET Received) /\ DOMAIN tables = 1..n
      /\ \A k \in 1..n : IsFiniteSet(tables[k]) /\ tables[k] \in SUBSET Received
  BY DEF QueryInv, StoredInv
<1>3. one \in SUBSET Received /\ IsFiniteSet(one)
  <2>1. 1 \in 1..n /\ 2 \in 1..n
    BY <1>1, <1>2
  <2> QED BY <1>2, <2>1, FS_Union
<1>4. /\ rest \in Seq(SUBSET Received) /\ Len(rest) = n - 2 /\ DOMAIN rest = 1..(n - 2)
      /\ \A k \in 1..(n - 2) : rest[k] = tables[k + 2]
  <2>1. 3 \in 1..(n + 1) /\ n \in (3 - 1)..n
    BY <1>1, <1>2
  <2> QED BY <1>1, <1>2, <2>1, SubSeqProperties
<1>5. \A f : f \in UNION ToSet(tables) <=> f \in one \/ f \in UNION ToSet(rest)
  <2> HIDE DEF rest, n
  <2>1. \A f : f \in UNION ToSet(tables) <=> \E k \in 1..n : f \in tables[k]
    BY <1>2 DEF ToSet
  <2>2. \A f : f \in UNION ToSet(rest) <=> \E k \in 1..(n - 2) : f \in tables[k + 2]
    BY <1>4 DEF ToSet
  <2>3. \A k \in 1..n : k = 1 \/ k = 2 \/ (k - 2 \in 1..(n - 2) /\ k - 2 + 2 = k)
    BY <1>1, <1>2
  <2>4. \A k \in 1..(n - 2) : k + 2 \in 1..n
    BY <1>1, <1>2
  <2>5. 1 \in 1..n /\ 2 \in 1..n
    BY <1>1, <1>2
  <2>6. ASSUME NEW f, NEW k \in 1..n, f \in tables[k]
        PROVE  f \in one \/ \E l \in 1..(n - 2) : f \in tables[l + 2]
    BY <2>3, <2>6
  <2> QED BY <2>1, <2>2, <2>4, <2>5, <2>6
<1> HIDE DEF one, rest, n
<1>6. /\ <<one>> \in Seq(SUBSET Received) /\ Len(<<one>>) = 1 /\ <<one>>[1] = one /\ ToSet(<<one>>) = {one}
  BY <1>3 DEF ToSet
<1> DEFINE first1 == <<one>>
<1> HIDE DEF first1
<1>7. tables' \in Seq(SUBSET Received) /\ ToSet(tables') = ToSet(first1) \union ToSet(rest)
  <2>1. first1 \in Seq(SUBSET Received) /\ tables' = first1 \o rest
    BY <1>1, <1>6 DEF first1
  <2> QED BY <1>4, <2>1, SetOfJoin
<1>8. \A f : f \in UNION ToSet(tables') <=> f \in UNION ToSet(tables)
  <2>1. ToSet(first1) = {one}
    BY <1>6 DEF first1
  <2> QED BY <1>5, <1>7, <2>1
<1>9. \A k \in 1..Len(tables') : IsFiniteSet(tables'[k])
  <2>1. \A S \in ToSet(rest) : IsFiniteSet(S)
    <3>1. \A k \in 1..(n - 2) : k + 2 \in 1..n
      BY <1>1, <1>2
    <3> QED BY <1>2, <1>4, <3>1 DEF ToSet
  <2>2. ToSet(first1) = {one}
    BY <1>6 DEF first1
  <2>3. \A S \in ToSet(tables') : IsFiniteSet(S)
    BY <1>3, <1>7, <2>1, <2>2
  <2>4. \A k \in 1..Len(tables') : tables'[k] \in ToSet(tables')
    BY <1>7 DEF ToSet
  <2> QED BY <2>3, <2>4
<1>10. StoredInv'
  BY <1>1, <1>7, <1>8, <1>9 DEF QueryInv, StoredInv, handler
<1> QED BY <1>1, <1>8, <1>10, Meanwhile DEF handler

LEMMA AskQuery == ASSUME QueryInv, NEW r \in Requests, Ask(r) PROVE QueryInv'
<1>1. /\ pc = "idle" /\ request' = r /\ UNCHANGED <<now, stored, period, results, kept>>
      /\ \/ pc' = "answer" /\ answer' = Reply(400, <<>>)
         \/ pc' = "parse" /\ answer' = answer
  BY DEF Ask, Done, Goto
<1>2. kept = {} /\ results = <<>> /\ answer = NoAnswer
  BY <1>1 DEF QueryInv, HandlerType
<1>3. StoredInv'
  BY <1>1 DEF QueryInv, StoredInv, stored
<1>4. answer'.status \in {0, 400}
  BY <1>1, <1>2 DEF Reply, NoAnswer
<1>5. HandlerType'
  BY <1>1, <1>2, <1>4 DEF QueryInv, HandlerType, Asking
<1>6. ReadInv'
  BY <1>1, <1>2, <1>4 DEF ReadInv, ToSet
<1>7. AnswerInv'
  BY <1>4 DEF AnswerInv, Answering
<1> QED BY <1>3, <1>5, <1>6, <1>7 DEF QueryInv

LEMMA ParseQuery == ASSUME QueryInv, Parse PROVE QueryInv'
<1>1. /\ pc = "parse" /\ UNCHANGED <<now, stored, request, period, results, kept>>
      /\ \/ pc' = "answer" /\ answer' \in {Reply(400, <<>>), Reply(0, <<>>)}
         \/ pc' = "check" /\ answer' = answer
  BY DEF Parse, Done, Goto
<1>2. kept = {} /\ results = <<>> /\ answer = NoAnswer
  BY <1>1 DEF QueryInv, HandlerType
<1>3. StoredInv'
  BY <1>1 DEF QueryInv, StoredInv, stored
<1>4. answer'.status \in {0, 400}
  BY <1>1, <1>2 DEF Reply, NoAnswer
<1>5. HandlerType'
  BY <1>1, <1>2, <1>4 DEF QueryInv, HandlerType, Asking
<1>6. ReadInv'
  BY <1>1, <1>2, <1>4 DEF ReadInv, ToSet
<1>7. AnswerInv'
  BY <1>4 DEF AnswerInv, Answering
<1> QED BY <1>3, <1>5, <1>6, <1>7 DEF QueryInv

LEMMA RangeTyped ==
  ASSUME NEW r \in Requests, r.filter.clause # "absent", now \in 0..LastTime
  PROVE  TimeRange(r.filter).from \in -LastTime..LastTime /\ TimeRange(r.filter).to \in -1..LastTime
<1> DEFINE f == r.filter
<1>1. LastTime \in Nat
  BY FramesAssumption
<1>2. CASE f.clause = "BETWEEN"
  <2>1. f.start \in 0..LastTime /\ f.end \in 0..LastTime
    BY <1>2, RequestsAssumption
  <2>2. TimeRange(f) = [from |-> f.start, to |-> f.end]
    BY <1>2 DEF TimeRange
  <2> QED BY <1>1, <2>1, <2>2
<1>3. CASE f.clause = "SINCE"
  <2>1. f.start \in 0..LastTime
    BY <1>3, RequestsAssumption
  <2>2. TimeRange(f) = [from |-> f.start, to |-> NoTime]
    BY <1>3 DEF TimeRange
  <2> QED BY <1>1, <2>1, <2>2 DEF NoTime
<1>4. CASE f.clause = "LAST"
  <2>1. f.duration \in 0..LastTime
    BY <1>4, RequestsAssumption
  <2>2. TimeRange(f) = [from |-> now - f.duration, to |-> NoTime]
    BY <1>4 DEF TimeRange
  <2> QED BY <1>1, <2>1, <2>2 DEF NoTime
<1>5. f.clause \in {"absent", "BETWEEN", "SINCE", "LAST"}
  BY RequestsAssumption
<1> QED BY <1>2, <1>3, <1>4, <1>5

LEMMA CheckQuery == ASSUME QueryInv, Check PROVE QueryInv'
<1>1. /\ pc = "check" /\ UNCHANGED <<now, stored, request, results>>
      /\ \/ pc' = "answer" /\ answer' = Reply(500, <<>>) /\ UNCHANGED <<period, kept>>
         \/ /\ pc' = "memtable" /\ answer' = answer /\ request.filter.clause # "absent"
            /\ period' = TimeRange(request.filter) /\ kept' = Stored(memory, tables)
  BY DEF Check, Done, Goto
<1>2. kept = {} /\ results = <<>> /\ answer = NoAnswer /\ request \in Requests
  BY <1>1 DEF QueryInv, HandlerType, Asking
<1>3. StoredInv'
  BY <1>1 DEF QueryInv, StoredInv, stored, Stored
<1>4. answer'.status \in {0, 500}
  BY <1>1, <1>2 DEF Reply, NoAnswer
<1>5. period'.from \in (-LastTime..LastTime) \union {NoTime} /\ period'.to \in -1..LastTime
  <2>1. pc' = "memtable" => period' = TimeRange(request.filter) /\ request.filter.clause # "absent"
    BY <1>1
  <2>2. pc' # "memtable" => period' = period
    BY <1>1
  <2>3. now \in 0..LastTime /\ period.from \in (-LastTime..LastTime) \union {NoTime} /\ period.to \in -1..LastTime
    BY DEF QueryInv, StoredInv, HandlerType
  <2> QED BY <1>2, <2>1, <2>2, <2>3, RangeTyped
<1>6. HandlerType'
  BY <1>1, <1>2, <1>4, <1>5 DEF QueryInv, HandlerType, Asking
<1>7. ReadInv'
  BY <1>1, <1>2, <1>4 DEF ReadInv, ToSet
<1>8. AnswerInv'
  BY <1>4 DEF AnswerInv, Answering
<1> QED BY <1>3, <1>6, <1>7, <1>8 DEF QueryInv

LEMMA MemtableQuery == ASSUME QueryInv, ReadMemtable PROVE QueryInv'
<1>1. /\ pc = "memtable" /\ results' = ScanOf(memory) /\ pc' = "tables"
      /\ UNCHANGED <<now, stored, request, period, answer, kept>>
  BY DEF ReadMemtable, Goto
<1>2. results' \in Seq(Received) /\ ToSet(results') = {f \in memory : Within(f)}
  BY <1>1, ScanOfAll DEF QueryInv, StoredInv
<1>3. StoredInv'
  BY <1>1 DEF QueryInv, StoredInv, stored
<1>4. HandlerType'
  BY <1>1, <1>2 DEF QueryInv, HandlerType, Asking
<1>5. \A f : Within(f)' <=> Within(f)
  BY <1>1 DEF Within
<1>6. kept' \subseteq memory \union UNION ToSet(tables')
  BY <1>1 DEF QueryInv, StoredInv, stored
<1> HIDE DEF Within
<1>7. ReadInv'
  BY <1>1, <1>2, <1>5, <1>6 DEF ReadInv
<1>8. AnswerInv'
  BY <1>1 DEF AnswerInv, Answering
<1> QED BY <1>3, <1>4, <1>7, <1>8 DEF QueryInv

LEMMA TablesQuery == ASSUME QueryInv, ReadTables PROVE QueryInv'
<1> DEFINE all == results \o ScanTables
<1>1. /\ pc = "tables" /\ results' = ByTime(all) /\ pc' = "select"
      /\ UNCHANGED <<now, stored, request, period, answer, kept>>
  BY DEF ReadTables, Goto
<1>2. results \in Seq(Received) /\ \A f \in ToSet(results) : Within(f)
  BY DEF QueryInv, HandlerType, ReadInv
<1>3. ScanTables \in Seq(Received) /\ ToSet(ScanTables) = {f \in UNION ToSet(tables) : Within(f)}
  BY ScansAll DEF QueryInv
<1>4. all \in Seq(Received) /\ ToSet(all) = ToSet(results) \union ToSet(ScanTables)
  BY <1>2, <1>3, SetOfJoin
<1> HIDE DEF all
<1>5. /\ results' \in Seq(Received) /\ ToSet(results') = ToSet(all)
      /\ \A i, j \in 1..Len(results') : i < j => TimeOf[results'[i]] <= TimeOf[results'[j]]
  BY <1>1, <1>4, ByTimeAll
<1>6. StoredInv'
  BY <1>1 DEF QueryInv, StoredInv, stored
<1>7. HandlerType'
  BY <1>1, <1>5 DEF QueryInv, HandlerType, Asking
<1>8. \A f : Within(f)' <=> Within(f)
  BY <1>1 DEF Within
<1>9. \A f \in kept : Within(f) => f \in ToSet(results) \union UNION ToSet(tables)
  BY <1>1 DEF QueryInv, ReadInv
<1>10. \A f : f \in ToSet(results') <=> f \in ToSet(results) \/ (f \in UNION ToSet(tables) /\ Within(f))
  BY <1>3, <1>4, <1>5
<1> HIDE DEF Within
<1>11. ReadInv'
  BY <1>1, <1>2, <1>5, <1>8, <1>9, <1>10 DEF ReadInv
<1>12. AnswerInv'
  BY <1>1 DEF AnswerInv, Answering
<1> QED BY <1>6, <1>7, <1>11, <1>12 DEF QueryInv

LEMMA SelectQuery == ASSUME QueryInv, Select PROVE QueryInv'
<1>1. /\ pc = "select" /\ pc' = "answer" /\ UNCHANGED <<now, stored, request, period, results, kept>>
      /\ answer' = Reply(200, [i \in DOMAIN Chosen |->
                                 [frame |-> Chosen[i], fields |-> ProjectFields(Chosen[i])]])
  BY DEF Select, Done, Goto, Chosen, Cut
<1>2. /\ answer'.status = 200
      /\ answer'.frames = [i \in DOMAIN Chosen |->
                             [frame |-> Chosen[i], fields |-> ProjectFields(Chosen[i])]]
  BY <1>1 DEF Reply
<1>3. StoredInv'
  BY <1>1 DEF QueryInv, StoredInv, stored
<1>4. HandlerType'
  BY <1>1, <1>2 DEF QueryInv, HandlerType, Asking
<1>5. \A f : Within(f)' <=> Within(f)
  BY <1>1 DEF Within
<1>6. ReadInv'
  <2> HIDE DEF Within
  <2> QED BY <1>1, <1>2, <1>5 DEF QueryInv, ReadInv
<1>7. AnswerInv'
  <2>1. Chosen' = Chosen
    BY <1>1 DEF Chosen, Cut, FilterFrames, OfKind, EffectiveLimit
  <2>2. \A f : ProjectFields(f)' = ProjectFields(f)
    BY <1>1 DEF ProjectFields
  <2> HIDE DEF ProjectFields, Chosen, Answering
  <2> QED BY <1>2, <2>1, <2>2 DEF AnswerInv
<1> QED BY <1>3, <1>4, <1>6, <1>7 DEF QueryInv

LEMMA AnsweredQuery == ASSUME QueryInv, Answered PROVE QueryInv'
<1>1. /\ pc' = "idle" /\ request' = NoRequest /\ results' = <<>> /\ answer' = NoAnswer /\ kept' = {}
      /\ period' = [from |-> NoTime, to |-> NoTime] /\ UNCHANGED <<now, stored>>
  BY DEF Answered, Goto
<1>2. StoredInv'
  BY <1>1 DEF QueryInv, StoredInv, stored
<1>3. answer'.status = 0 /\ period'.from = NoTime /\ period'.to = NoTime
  BY <1>1 DEF NoAnswer, Reply
<1>4. NoTime \in -1..LastTime
  BY FramesAssumption DEF NoTime
<1>5. HandlerType'
  BY <1>1, <1>3, <1>4 DEF HandlerType, Asking
<1>6. ReadInv'
  BY <1>1 DEF ReadInv, ToSet
<1>7. AnswerInv'
  BY <1>1 DEF AnswerInv, Answering
<1> QED BY <1>2, <1>5, <1>6, <1>7 DEF QueryInv

LEMMA InitQuery == QueryInit => QueryInv
<1> SUFFICES ASSUME QueryInit PROVE QueryInv
  OBVIOUS
<1>1. /\ now = 0 /\ memory = {} /\ tables = <<>> /\ copied = FALSE /\ pc = "idle" /\ request = NoRequest
      /\ period = [from |-> NoTime, to |-> NoTime] /\ results = <<>> /\ answer = NoAnswer /\ kept = {}
  BY DEF QueryInit
<1>2. StoredInv
  <2>1. now \in 0..LastTime
    BY <1>1, FramesAssumption
  <2>2. tables \in Seq(SUBSET Received) /\ Len(tables) = 0
    BY <1>1
  <2>3. \A k \in 1..Len(tables) : IsFiniteSet(tables[k])
    BY <2>2
  <2>4. memory \in SUBSET Received /\ IsFiniteSet(memory)
    BY <1>1, FS_EmptySet
  <2>5. copied \in BOOLEAN /\ kept \subseteq memory \union UNION ToSet(tables)
    BY <1>1
  <2> QED BY <2>1, <2>2, <2>3, <2>4, <2>5 DEF StoredInv
<1>3. answer.status = 0 /\ period.from = NoTime /\ period.to = NoTime /\ NoTime \in -1..LastTime
  BY <1>1, FramesAssumption DEF NoAnswer, Reply, NoTime
<1>4. HandlerType
  BY <1>1, <1>3 DEF HandlerType, Asking
<1>5. ReadInv
  BY <1>1 DEF ReadInv, ToSet
<1>6. AnswerInv
  BY <1>1 DEF AnswerInv, Answering
<1> QED BY <1>2, <1>4, <1>5, <1>6 DEF QueryInv

LEMMA StepQuery == QueryInv /\ [QueryNext]_queryVars => QueryInv'
<1> SUFFICES ASSUME QueryInv, [QueryNext]_queryVars PROVE QueryInv'
  OBVIOUS
<1>1. CASE UNCHANGED queryVars
  <2>1. StoredInv'
    BY <1>1 DEF QueryInv, StoredInv, queryVars, stored, handler
  <2> QED BY <1>1, <2>1, Meanwhile DEF queryVars, stored, handler
<1>2. CASE Engine
  BY <1>2, TickQuery, InsertQuery, ListQuery, ClearQuery, MergeQuery DEF Engine
<1>3. CASE Handler
  BY <1>3, AskQuery, ParseQuery, CheckQuery, MemtableQuery, TablesQuery, SelectQuery, AnsweredQuery
    DEF Handler
<1> QED BY <1>1, <1>2, <1>3 DEF QueryNext

\* What the invariant says of an answer.
LEMMA AnswerIs ==
  ASSUME QueryInv, Answering
  PROVE  /\ request \in Requests /\ EffectiveLimit \in Nat /\ results \in Seq(Received)
         /\ Cut \in Seq(Received) /\ Len(Cut) = Least(Len(results), EffectiveLimit)
         /\ DOMAIN Cut = 1..Len(Cut) /\ \A i \in 1..Len(Cut) : Cut[i] = results[i]
         /\ Chosen \in Seq(Received) /\ DOMAIN answer.frames = 1..Len(Chosen)
         /\ Len(answer.frames) = Len(Chosen)
         /\ \A i \in 1..Len(Chosen) : answer.frames[i].frame = Chosen[i]
         /\ Shown = {f \in ToSet(Cut) : OfKind(f)}
<1> DEFINE m == Least(Len(results), EffectiveLimit)
<1>1. request \in Requests /\ results \in Seq(Received)
  BY DEF QueryInv, HandlerType, Answering, Asking
<1>2. EffectiveLimit \in Nat
  BY <1>1, RequestsAssumption, ResultsAssumption DEF EffectiveLimit, Least
<1>3. m \in Nat /\ m <= Len(results) /\ Len(results) \in Nat
  BY <1>1, <1>2 DEF Least
<1>4. Cut = SubSeq(results, 1, m)
  BY DEF Cut
<1> HIDE DEF m
<1>5. /\ Cut \in Seq(Received) /\ Len(Cut) = m /\ DOMAIN Cut = 1..m
      /\ \A i \in 1..m : Cut[i] = results[i]
  BY <1>1, <1>3, <1>4
<1>6. Chosen \in Seq(Received) /\ ToSet(Chosen) = {f \in ToSet(Cut) : OfKind(f)}
  <2> HIDE DEF Cut
  <2> QED BY <1>5, FilterAll DEF Chosen
<1> DEFINE n == Len(Chosen)
<1>7. n \in Nat /\ DOMAIN Chosen = 1..n
  BY <1>6
<1>8. answer.frames = [i \in 1..n |-> [frame |-> Chosen[i], fields |-> ProjectFields(Chosen[i])]]
  <2> HIDE DEF Chosen, ProjectFields, n
  <2> QED BY <1>7 DEF QueryInv, AnswerInv
<1> HIDE DEF Chosen, n, Cut
<1>9. DOMAIN answer.frames = 1..n /\ \A i \in 1..n : answer.frames[i].frame = Chosen[i]
  BY <1>8
<1>10. Len(answer.frames) = n
  BY <1>7, <1>8
<1>11. Shown = ToSet(Chosen)
  BY <1>7, <1>9 DEF Shown, ToSet
<1> QED BY <1>1, <1>2, <1>5, <1>6, <1>9, <1>10, <1>11 DEF n, m

LEMMA OrderOfAnswer == QueryInv => AnswerInOrder
<1> SUFFICES ASSUME QueryInv, Answering
             PROVE  /\ Len(answer.frames) <= EffectiveLimit
                    /\ \A f \in Shown : Wanted(f)
                    /\ \A i, j \in DOMAIN answer.frames :
                         i < j => TimeOf[answer.frames[i].frame] <= TimeOf[answer.frames[j].frame]
  BY DEF AnswerInOrder
<1> DEFINE n == Len(Chosen)
           m == Len(Cut)
<1>1. /\ EffectiveLimit \in Nat /\ results \in Seq(Received) /\ Cut \in Seq(Received)
      /\ m = Least(Len(results), EffectiveLimit) /\ DOMAIN Cut = 1..m
      /\ \A i \in 1..m : Cut[i] = results[i]
      /\ Chosen \in Seq(Received) /\ DOMAIN answer.frames = 1..n /\ Len(answer.frames) = n
      /\ \A i \in 1..n : answer.frames[i].frame = Chosen[i]
      /\ Shown = {f \in ToSet(Cut) : OfKind(f)}
  BY AnswerIs
<1>2. m \in Nat /\ n \in Nat /\ m <= Len(results) /\ m <= EffectiveLimit
  BY <1>1 DEF Least
<1>3. /\ \A f \in ToSet(results) : Within(f)
      /\ \A i, j \in 1..Len(results) : i < j => TimeOf[results[i]] <= TimeOf[results[j]]
  BY DEF QueryInv, ReadInv, Answering
<1> HIDE DEF m, n, Cut, Chosen
<1>4. \A i \in 1..m : i \in 1..Len(results)
  BY <1>1, <1>2
<1>5. \A i, j \in 1..m : i < j => TimeOf[Cut[i]] <= TimeOf[Cut[j]]
  BY <1>1, <1>3, <1>4
<1>6. n <= m /\ \A i, j \in 1..n : i < j => TimeOf[Chosen[i]] <= TimeOf[Chosen[j]]
  BY <1>1, <1>5, FilterAll DEF Chosen, m, n
<1>7. \A f \in ToSet(Cut) : f \in ToSet(results)
  BY <1>1, <1>4 DEF ToSet
<1>8. \A f \in Shown : Wanted(f)
  BY <1>1, <1>3, <1>7 DEF Wanted
<1>9. n <= EffectiveLimit
  BY <1>1, <1>2, <1>6
<1> QED BY <1>1, <1>6, <1>8, <1>9

LEMMA NoneLeftOut == QueryInv => NothingMissed
<1> SUFFICES ASSUME QueryInv, Answering, NEW f \in kept, Wanted(f), f \notin Shown
             PROVE  Cardinality({i \in DOMAIN results : TimeOf[results[i]] <= TimeOf[f]}) >= EffectiveLimit
  BY DEF NothingMissed
<1> DEFINE m == Len(Cut)
           S == {i \in DOMAIN results : TimeOf[results[i]] <= TimeOf[f]}
<1>1. /\ EffectiveLimit \in Nat /\ results \in Seq(Received)
      /\ m = Least(Len(results), EffectiveLimit) /\ DOMAIN Cut = 1..m
      /\ \A i \in 1..m : Cut[i] = results[i]
      /\ Shown = {g \in ToSet(Cut) : OfKind(g)}
  BY AnswerIs
<1>2. Len(results) \in Nat /\ DOMAIN results = 1..Len(results)
  BY <1>1
<1>3. f \in ToSet(results) /\ OfKind(f)
  BY DEF QueryInv, ReadInv, Answering, Wanted
<1>4. PICK k \in 1..Len(results) : results[k] = f
  BY <1>2, <1>3 DEF ToSet
<1> HIDE DEF m, Cut
<1>5. k \notin 1..m
  <2>1. k \in 1..m => f \in ToSet(Cut)
    BY <1>1, <1>4 DEF ToSet
  <2> QED BY <1>1, <1>3, <2>1
<1>6. m = EffectiveLimit /\ m < k
  <2> DEFINE l == Len(results)
  <2>1. m = Least(l, EffectiveLimit) /\ l \in Nat /\ k \in 1..l /\ EffectiveLimit \in Nat
    BY <1>1, <1>2
  <2> HIDE DEF l
  <2>2. m \in Nat /\ (m = l \/ m = EffectiveLimit)
    BY <2>1 DEF Least
  <2> QED BY <1>5, <2>1, <2>2
<1>7. \A i, j \in 1..Len(results) : i < j => TimeOf[results[i]] <= TimeOf[results[j]]
  BY DEF QueryInv, ReadInv, Answering
<1>8. ASSUME NEW i \in 1..m PROVE i \in S
  <2>1. i \in 1..Len(results) /\ i < k
    BY <1>1, <1>2, <1>4, <1>6
  <2>2. TimeOf[results[i]] <= TimeOf[results[k]]
    BY <1>4, <1>7, <2>1
  <2> QED BY <1>2, <1>4, <2>1, <2>2
<1> DEFINE l == Len(results)
<1>9. S \in SUBSET (1..l) /\ l \in Nat
  BY <1>2
<1> HIDE DEF S, l
<1>10. IsFiniteSet(S) /\ Cardinality(S) \in Nat
  <2>1. IsFiniteSet(1..l)
    BY <1>9, FS_Interval
  <2> QED BY <1>9, <2>1, FS_Subset, FS_CardinalityType
<1>11. m <= Cardinality(S)
  <2>1. m \in Nat
    BY <1>1, <1>6
  <2>2. Cardinality(1..m) = m /\ IsFiniteSet(1..m)
    BY <2>1, FS_Interval
  <2>3. (1..m) \in SUBSET S
    BY <1>8
  <2> QED BY <1>10, <2>2, <2>3, FS_Subset
<1> QED BY <1>1, <1>6, <1>10, <1>11 DEF S

LEMMA QueryInductive == QuerySpec => []QueryInv
  BY InitQuery, StepQuery, PTL DEF QuerySpec

LEMMA QueryTyped == QueryInv => QueryTypeOK
<1> SUFFICES ASSUME QueryInv PROVE QueryTypeOK
  OBVIOUS
<1>1. tables \in Seq(SUBSET Received) /\ memory \subseteq Received
      /\ kept \subseteq memory \union UNION ToSet(tables)
  BY DEF QueryInv, StoredInv
<1>2. \A S \in ToSet(tables) : S \subseteq Received
  BY <1>1 DEF ToSet
<1>3. kept \subseteq Received
  BY <1>1, <1>2
<1>4. now \in 0..LastTime /\ copied \in BOOLEAN
  BY DEF QueryInv, StoredInv
<1> QED BY <1>1, <1>3, <1>4 DEF QueryInv, HandlerType, QueryTypeOK

\* The types of Query.
THEOREM QueryTypes == QuerySpec => []QueryTypeOK
  BY QueryInductive, QueryTyped, PTL

\* A frame that was stored all the while a query read is in its answer, or the limit was used up
\* by frames that are not later: whatever flushes and merges came between the read of the
\* memtable and that of the tables.
THEOREM NothingIsMissed == QuerySpec => []NothingMissed
  BY QueryInductive, NoneLeftOut, PTL

\* Whatever comes from memtable and tables, the answer is in the order of time, within the limit
\* and of what was asked for only.
THEOREM AnswersInOrder == QuerySpec => []AnswerInOrder
  BY QueryInductive, OrderOfAnswer, PTL

----------------------------------------------------------------------------
(* The parser of queries                                                   *)

\* The queries of the grammar.
NameLists == {l \in Seq(Names) : Len(l) \in 1..MaxFields /\ l[1] \notin Kinds}
SelectParts == {All} \union {[clause |-> k] : k \in Kinds} \union {Fields(l) : l \in NameLists}
FilterParts == {Absent} \union {[clause |-> c] : c \in {"BETWEEN", "SINCE", "LAST"}}
LimitParts == {Absent} \union {[clause |-> "LIMIT", value |-> n] : n \in Numbers \ {0}}
Phrases == [select : SelectParts, from : Strings, filter : FilterParts, limit : LimitParts]

\* One part of a text behind another.
Joined(s, t, c) ==
  /\ Len(c) = Len(s) + Len(t)
  /\ \A i \in 1..Len(s) : c[i] = s[i]
  /\ \A i \in 1..Len(t) : c[Len(s) + i] = t[i]

LEMMA Follows ==
  ASSUME NEW S, NEW s \in Seq(S), NEW t \in Seq(S)
  PROVE  s \o t \in Seq(S) /\ Joined(s, t, s \o t)
<1> DEFINE c == s \o t
           m == Len(s)
           n == Len(t)
<1>1. m \in Nat /\ n \in Nat
  OBVIOUS
<1>2. /\ c \in Seq(S) /\ Len(c) = m + n
      /\ \A i \in 1..(m + n) : c[i] = IF i <= m THEN s[i] ELSE t[i - m]
  BY ConcatProperties
<1> HIDE DEF c, m, n
<1>3. ASSUME NEW i \in 1..m PROVE c[i] = s[i]
  BY <1>1, <1>2
<1>4. ASSUME NEW i \in 1..n PROVE c[m + i] = t[i]
  <2>1. m + i \in 1..(m + n) /\ ~(m + i <= m) /\ (m + i) - m = i
    BY <1>1
  <2> QED BY <1>2, <2>1
<1> QED BY <1>2, <1>3, <1>4 DEF c, m, n, Joined

LEMMA FirstName ==
  ASSUME NEW n \in Names, NEW rest \in Seq(Names)
  PROVE  LET l == <<n>> \o rest IN
           l \in Seq(Names) /\ Len(l) = 1 + Len(rest) /\ l[1] = n
<1> DEFINE h == <<n>>
<1>1. h \in Seq(Names) /\ Len(h) = 1 /\ h[1] = n
  OBVIOUS
<1> HIDE DEF h
<1>2. h \o rest \in Seq(Names) /\ Joined(h, rest, h \o rest)
  BY <1>1, Follows
<1>3. 1 \in 1..Len(h)
  BY <1>1
<1> QED BY <1>1, <1>2, <1>3 DEF h, Joined

LEMMA GrammarPhrases == Queries \subseteq Phrases
<1> DEFINE With(n, rest) == <<n>> \o rest
           Heads == {<<n>> : n \in Names \ Kinds}
           Longer(k) == {With(n, rest) : n \in Names \ Kinds, rest \in [1..k -> Names]}
<1>1. ASSUME NEW n \in Names, NEW rest \in Seq(Names)
      PROVE  /\ With(n, rest) \in Seq(Names) /\ Len(With(n, rest)) = 1 + Len(rest)
             /\ With(n, rest)[1] = n
  BY FirstName
<1>2. MaxFields \in Nat /\ MaxFields >= 1
  BY MaxFieldsAssumption
<1>3. Lists = Heads \union UNION {Longer(k) : k \in 1..(MaxFields - 1)}
  BY DEF Lists
<1> HIDE DEF With
<1>4. ASSUME NEW l \in Heads PROVE l \in NameLists
  <2>1. PICK n \in Names \ Kinds : l = <<n>>
    OBVIOUS
  <2>2. l \in Seq(Names) /\ Len(l) = 1 /\ l[1] = n
    BY <2>1
  <2> QED BY <1>2, <2>1, <2>2 DEF NameLists
<1>5. ASSUME NEW k \in 1..(MaxFields - 1), NEW n \in Names \ Kinds, NEW rest \in [1..k -> Names]
      PROVE  With(n, rest) \in NameLists
  <2>1. k \in Nat /\ 1 + k \in 1..MaxFields /\ n \in Names
    BY <1>2
  <2>2. rest \in Seq(Names) /\ Len(rest) = k
    BY <2>1
  <2>3. With(n, rest) \in Seq(Names) /\ Len(With(n, rest)) = 1 + k /\ With(n, rest)[1] = n
    BY <1>1, <2>1, <2>2, Zenon
  <2> QED BY <2>1, <2>3 DEF NameLists
<1>6. \A k \in 1..(MaxFields - 1) : Longer(k) \subseteq NameLists
  BY <1>5
<1> HIDE DEF Heads, Longer
<1>7. {Fields(l) : l \in Lists} \subseteq {Fields(l) : l \in NameLists}
  BY <1>3, <1>4, <1>6
<1> HIDE DEF Lists, NameLists
<1>8. SUFFICES ASSUME NEW q \in Queries PROVE q \in Phrases
  OBVIOUS
<1>9. q.select \in SelectParts
  BY <1>7 DEF Queries, SelectParts
<1> QED BY <1>9 DEF Queries, Phrases, FilterParts, LimitParts

\* The text of each clause, token by token.
LEMMA SelectTokens ==
  ASSUME NEW s \in SelectParts
  PROVE  /\ SelectText(s) \in Seq(Tokens)
         /\ s = All => Len(SelectText(s)) = 1 /\ SelectText(s)[1] = Asterisk
         /\ s.clause \in Kinds => Len(SelectText(s)) = 1 /\ SelectText(s)[1] = Word(s.clause)
         /\ s.clause = "fields" =>
              /\ Len(SelectText(s)) = 2 * Len(s.names) - 1
              /\ \A i \in 1..Len(s.names) : SelectText(s)[2 * i - 1] = Word(s.names[i])
              /\ \A i \in 1..(Len(s.names) - 1) : SelectText(s)[2 * i] = Comma
<1>1. CASE s = All
  <2>1. s.clause = "*" /\ "*" \notin Kinds \union {"fields"}
    BY <1>1 DEF All, Kinds
  <2>2. SelectText(s) = <<Asterisk>> /\ Asterisk \in Tokens
    BY <2>1 DEF SelectText, Tokens
  <2> HIDE DEF SelectText, Asterisk, Tokens
  <2> QED BY <2>1, <2>2
<1>2. CASE s.clause \in Kinds
  <2>1. s.clause # "*" /\ s.clause # "fields"
    BY <1>2 DEF Kinds
  <2>2. SelectText(s) = <<Word(s.clause)>>
    BY <1>2, <2>1 DEF SelectText
  <2>3. Word(s.clause) \in Tokens
    BY <1>2 DEF Tokens
  <2> HIDE DEF SelectText, Word, Tokens
  <2> QED BY <1>2, <2>1, <2>2, <2>3 DEF All
<1>3. CASE \E l \in NameLists : s = Fields(l)
  <2>1. PICK l \in NameLists : s = Fields(l)
    BY <1>3
  <2> DEFINE n == Len(l)
             t == [i \in 1..(2 * n - 1) |-> IF i % 2 = 1 THEN Word(l[(i + 1) \div 2]) ELSE Comma]
  <2>2. s.clause = "fields" /\ s.names = l
    BY <2>1 DEF Fields
  <2>3. SelectText(s) = t
    <3>1. "fields" # "*" /\ "fields" \notin Kinds
      BY DEF Kinds
    <3> QED BY <2>2, <3>1 DEF SelectText
  <2>4. n \in Nat /\ n >= 1 /\ 2 * n - 1 \in Nat /\ \A i \in 1..n : l[i] \in Names
    BY DEF NameLists
  <2>5. \A i \in 1..n : l[i] \in Names
    BY <2>4
  <2>6. ASSUME NEW i \in 1..(2 * n - 1)
        PROVE  (IF i % 2 = 1 THEN Word(l[(i + 1) \div 2]) ELSE Comma) \in Tokens
    <3>1. i % 2 = 1 => (i + 1) \div 2 \in 1..n
      BY <2>4
    <3> QED BY <2>5, <3>1 DEF Tokens, Names
  <2> HIDE DEF n
  <2>7. t \in Seq(Tokens) /\ Len(t) = 2 * n - 1
    BY <2>4, <2>6
  <2>8. ASSUME NEW i \in 1..n PROVE t[2 * i - 1] = Word(l[i])
    <3>1. 2 * i - 1 \in 1..(2 * n - 1) /\ (2 * i - 1) % 2 = 1 /\ ((2 * i - 1) + 1) \div 2 = i
      BY <2>4
    <3> QED BY <3>1
  <2>9. ASSUME NEW i \in 1..(n - 1) PROVE t[2 * i] = Comma
    <3>1. 2 * i \in 1..(2 * n - 1) /\ (2 * i) % 2 # 1
      BY <2>4
    <3> QED BY <3>1
  <2>10. s # All /\ s.clause \notin Kinds
    BY <2>2 DEF All, Kinds
  <2> HIDE DEF t
  <2> QED BY <2>2, <2>3, <2>7, <2>8, <2>9, <2>10 DEF n
<1> QED BY <1>1, <1>2, <1>3 DEF SelectParts

LEMMA FilterTokens ==
  ASSUME NEW f \in FilterParts
  PROVE  /\ FilterText(f) \in Seq(Tokens)
         /\ f = Absent => Len(FilterText(f)) = 0
         /\ f # Absent => /\ Len(FilterText(f)) >= 3 /\ FilterText(f)[1] = Word("WHERE")
                          /\ FilterText(f)[2] = Word(f.clause)
         /\ f.clause = "BETWEEN" =>
              /\ Len(FilterText(f)) = 5 /\ FilterText(f)[4] = Word("AND")
              /\ FilterText(f)[3] = String("timestamp") /\ FilterText(f)[5] = String("timestamp")
         /\ f.clause = "SINCE" => Len(FilterText(f)) = 3 /\ FilterText(f)[3] = String("timestamp")
         /\ f.clause = "LAST" => Len(FilterText(f)) = 3 /\ FilterText(f)[3] = String("duration")
<1>1. /\ Word("WHERE") \in Tokens /\ Word("BETWEEN") \in Tokens /\ Word("AND") \in Tokens
      /\ Word("SINCE") \in Tokens /\ Word("LAST") \in Tokens
      /\ String("timestamp") \in Tokens /\ String("duration") \in Tokens
  BY DEF Tokens, Keywords, Strings
<1>2. CASE f = Absent
  <2>1. f.clause = "absent" /\ FilterText(f) = <<>>
    BY <1>2 DEF Absent, FilterText
  <2> QED BY <1>2, <2>1
<1>3. CASE f = [clause |-> "BETWEEN"]
  <2>1. /\ f.clause = "BETWEEN" /\ f # Absent
        /\ FilterText(f) =
             <<Word("WHERE"), Word("BETWEEN"), String("timestamp"), Word("AND"), String("timestamp")>>
    BY <1>3 DEF Absent, FilterText
  <2> HIDE DEF FilterText, Word, String, Tokens
  <2> QED BY <1>1, <2>1
<1>4. CASE f = [clause |-> "SINCE"]
  <2>1. /\ f.clause = "SINCE" /\ f # Absent
        /\ FilterText(f) = <<Word("WHERE"), Word("SINCE"), String("timestamp")>>
    BY <1>4 DEF Absent, FilterText
  <2> QED BY <1>1, <2>1
<1>5. CASE f = [clause |-> "LAST"]
  <2>1. /\ f.clause = "LAST" /\ f # Absent
        /\ FilterText(f) = <<Word("WHERE"), Word("LAST"), String("duration")>>
    BY <1>5 DEF Absent, FilterText
  <2> QED BY <1>1, <2>1
<1> QED BY <1>2, <1>3, <1>4, <1>5 DEF FilterParts

LEMMA LimitTokens ==
  ASSUME NEW l \in LimitParts
  PROVE  /\ LimitText(l) \in Seq(Tokens)
         /\ l = Absent => Len(LimitText(l)) = 0
         /\ l # Absent => /\ Len(LimitText(l)) = 2 /\ LimitText(l)[1] = Word("LIMIT")
                          /\ LimitText(l)[2] = Integer(l.value)
<1>1. CASE l = Absent
  BY <1>1 DEF LimitText
<1>2. CASE l # Absent
  <2>1. PICK n \in Numbers : l = [clause |-> "LIMIT", value |-> n]
    BY <1>2 DEF LimitParts
  <2>2. Word("LIMIT") \in Tokens /\ Integer(l.value) \in Tokens
    BY <2>1 DEF Tokens, Keywords
  <2>3. LimitText(l) = <<Word("LIMIT"), Integer(l.value)>>
    BY <1>2 DEF LimitText
  <2> QED BY <1>2, <2>2, <2>3
<1> QED BY <1>1, <1>2


\* The text of a query, token by token, when its clauses have s, f and l tokens.
Spelled(q, s, f, l) ==
  /\ s \in Nat /\ f \in Nat /\ l \in Nat
  /\ Text(q) \in Seq(Tokens) /\ Len(Text(q)) = s + f + l + 5
  /\ Text(q)[1] = Word("SELECT")
  /\ \A i \in 1..s : Text(q)[1 + i] = SelectText(q.select)[i]
  /\ Text(q)[s + 2] = Word("FROM") /\ Text(q)[s + 3] = Word("DEVICE")
  /\ Text(q)[s + 4] = String(q.from)
  /\ \A i \in 1..f : Text(q)[s + 4 + i] = FilterText(q.filter)[i]
  /\ \A i \in 1..l : Text(q)[s + f + 4 + i] = LimitText(q.limit)[i]
  /\ Text(q)[s + f + l + 5] = End

LEMMA TextTokens ==
  ASSUME NEW q \in Phrases, NEW s, NEW f, NEW l,
         s = Len(SelectText(q.select)), f = Len(FilterText(q.filter)), l = Len(LimitText(q.limit))
  PROVE  Spelled(q, s, f, l)
<1> DEFINE a == <<Word("SELECT")>>
           b == SelectText(q.select)
           c == <<Word("FROM"), Word("DEVICE"), String(q.from)>>
           d == FilterText(q.filter)
           e == LimitText(q.limit)
           z == <<End>>
           t1 == a \o b
           t2 == t1 \o c
           t3 == t2 \o d
           t4 == t3 \o e
           t5 == t4 \o z
<1>1. b \in Seq(Tokens) /\ d \in Seq(Tokens) /\ e \in Seq(Tokens)
  BY SelectTokens, FilterTokens, LimitTokens DEF Phrases
<1>2. a \in Seq(Tokens) /\ Len(a) = 1 /\ a[1] = Word("SELECT")
  <2>1. Word("SELECT") \in Tokens
    BY DEF Tokens, Keywords
  <2> HIDE DEF Word, Tokens
  <2> QED BY <2>1
<1>3. /\ c \in Seq(Tokens) /\ Len(c) = 3
      /\ c[1] = Word("FROM") /\ c[2] = Word("DEVICE") /\ c[3] = String(q.from)
  <2>1. Word("FROM") \in Tokens /\ Word("DEVICE") \in Tokens /\ String(q.from) \in Tokens
    BY DEF Tokens, Keywords, Phrases
  <2> HIDE DEF Word, String, Tokens
  <2> QED BY <2>1
<1>4. z \in Seq(Tokens) /\ Len(z) = 1 /\ z[1] = End
  <2>1. End \in Tokens
    BY DEF Tokens
  <2> HIDE DEF End, Tokens
  <2> QED BY <2>1
<1>5. Text(q) = t5
  BY DEF Text
<1>6. Len(b) = s /\ Len(d) = f /\ Len(e) = l
  OBVIOUS
<1> HIDE DEF a, b, c, d, e, z
<1>7. s \in Nat /\ f \in Nat /\ l \in Nat
  BY <1>1, <1>6
<1>8. /\ t1 \in Seq(Tokens) /\ Len(t1) = 1 + s /\ t1[1] = Word("SELECT")
      /\ \A i \in 1..s : t1[1 + i] = b[i]
  <2>1. t1 \in Seq(Tokens) /\ Joined(a, b, t1)
    BY <1>1, <1>2, Follows
  <2> HIDE DEF t1
  <2>2. 1 \in 1..Len(a)
    BY <1>2
  <2> QED BY <1>2, <1>6, <2>1, <2>2 DEF Joined
<1> HIDE DEF t1
<1>9. /\ t2 \in Seq(Tokens) /\ Len(t2) = s + 4
      /\ \A i \in 1..(s + 1) : t2[i] = t1[i]
      /\ t2[s + 2] = Word("FROM") /\ t2[s + 3] = Word("DEVICE") /\ t2[s + 4] = String(q.from)
  <2>1. t2 \in Seq(Tokens) /\ Joined(t1, c, t2)
    BY <1>3, <1>8, Follows
  <2> HIDE DEF t2
  <2>2. 1 \in 1..3 /\ 2 \in 1..3 /\ 3 \in 1..3
    OBVIOUS
  <2>3. (1 + s) + 1 = s + 2 /\ (1 + s) + 2 = s + 3 /\ (1 + s) + 3 = s + 4 /\ 1 + s = s + 1
    BY <1>7
  <2>4. t2[(1 + s) + 1] = c[1] /\ t2[(1 + s) + 2] = c[2] /\ t2[(1 + s) + 3] = c[3]
    BY <1>3, <1>8, <2>1, <2>2 DEF Joined
  <2> QED BY <1>3, <1>8, <2>1, <2>3, <2>4 DEF Joined
<1> HIDE DEF t2
<1>10. /\ t3 \in Seq(Tokens) /\ Len(t3) = s + f + 4
       /\ \A i \in 1..(s + 4) : t3[i] = t2[i]
       /\ \A i \in 1..f : t3[s + 4 + i] = d[i]
  <2>1. t3 \in Seq(Tokens) /\ Joined(t2, d, t3)
    BY <1>1, <1>9, Follows
  <2> HIDE DEF t3
  <2>2. (s + 4) + f = s + f + 4
    BY <1>7
  <2> QED BY <1>6, <1>9, <2>1, <2>2 DEF Joined
<1> HIDE DEF t3
<1>11. /\ t4 \in Seq(Tokens) /\ Len(t4) = s + f + l + 4
       /\ \A i \in 1..(s + f + 4) : t4[i] = t3[i]
       /\ \A i \in 1..l : t4[s + f + 4 + i] = e[i]
  <2>1. t4 \in Seq(Tokens) /\ Joined(t3, e, t4)
    BY <1>1, <1>10, Follows
  <2> HIDE DEF t4
  <2>2. (s + f + 4) + l = s + f + l + 4
    BY <1>7
  <2> QED BY <1>6, <1>10, <2>1, <2>2 DEF Joined
<1> HIDE DEF t4
<1>12. /\ t5 \in Seq(Tokens) /\ Len(t5) = s + f + l + 5
       /\ \A i \in 1..(s + f + l + 4) : t5[i] = t4[i]
       /\ t5[s + f + l + 5] = End
  <2>1. t5 \in Seq(Tokens) /\ Joined(t4, z, t5)
    BY <1>4, <1>11, Follows
  <2> HIDE DEF t5
  <2>2. (s + f + l + 4) + 1 = s + f + l + 5 /\ 1 \in 1..1
    BY <1>7
  <2> QED BY <1>4, <1>11, <2>1, <2>2 DEF Joined
<1> HIDE DEF t5
<1>13. \A i \in 1..(s + 4) : t5[i] = t2[i]
  <2> TAKE i \in 1..(s + 4)
  <2>1. i \in 1..(s + f + 4) /\ i \in 1..(s + f + l + 4)
    BY <1>7
  <2> QED BY <1>10, <1>11, <1>12, <2>1
<1>14. t5[1] = Word("SELECT") /\ \A i \in 1..s : t5[1 + i] = b[i]
  <2>1. ASSUME NEW i \in 0..s PROVE 1 + i \in 1..(s + 1) /\ 1 + i \in 1..(s + 4)
    BY <1>7
  <2>2. ASSUME NEW i \in 0..s PROVE t5[1 + i] = t1[1 + i]
    BY <1>9, <1>13, <2>1
  <2>3. 0 \in 0..s /\ 1 + 0 = 1 /\ \A i \in 1..s : i \in 0..s
    BY <1>7
  <2> QED BY <1>8, <2>2, <2>3
<1>15. t5[s + 2] = Word("FROM") /\ t5[s + 3] = Word("DEVICE") /\ t5[s + 4] = String(q.from)
  <2>1. s + 2 \in 1..(s + 4) /\ s + 3 \in 1..(s + 4) /\ s + 4 \in 1..(s + 4)
    BY <1>7
  <2> QED BY <1>9, <1>13, <2>1
<1>16. ASSUME NEW i \in 1..f PROVE t5[s + 4 + i] = d[i]
  <2>1. s + 4 + i \in 1..(s + f + 4) /\ s + 4 + i \in 1..(s + f + l + 4)
    BY <1>7
  <2> QED BY <1>10, <1>11, <1>12, <2>1
<1>17. ASSUME NEW i \in 1..l PROVE t5[s + f + 4 + i] = e[i]
  <2>1. s + f + 4 + i \in 1..(s + f + l + 4)
    BY <1>7
  <2> QED BY <1>11, <1>12, <2>1
<1> QED BY <1>5, <1>7, <1>12, <1>14, <1>15, <1>16, <1>17 DEF b, d, e, Spelled

\* Where the parser stands in the text.
BeforeFrom == {"FROM", "DEVICE", "device"}
Filtering == {"BETWEEN", "AND", "end", "SINCE", "LAST"}
AfterWhere == {"LIMIT?", "LIMIT", "stop", "accepted"}
AfterFrom == {"WHERE?", "WHERE"} \union Filtering \union AfterWhere
AfterSelect == BeforeFrom \union AfterFrom
BeforeWhere == {"tokenize", "SELECT", "select", "fields", "field", "WHERE?", "WHERE"} \union BeforeFrom
Unlimited == BeforeWhere \union Filtering \union {"LIMIT?", "LIMIT"}

\* The tokens in front of the one that is parsed next.
Parsed == IF first = unread THEN Len(read) ELSE Len(read) - 1

\* The parts of the query that the parser has come past.
ParserType ==
  /\ at \in BeforeWhere \union AfterSelect \union {"rejected", "panic"}
  /\ first \in Tokens \union {unread} /\ read \in Seq(Tokens)
  /\ first # unread => Len(read) # 0 /\ read[Len(read)] = first
  /\ at = "accepted" => first = End
  /\ at = "tokenize" => first = unread /\ read = <<>>
  /\ query = [select |-> query.select, from |-> query.from, filter |-> query.filter,
              limit |-> query.limit]
  /\ at \in {"fields", "field"} =>
       /\ query.select = Fields(query.select.names) /\ query.select.names \in Seq(Names)
       /\ Len(query.select.names) # 0 /\ query.select.names[1] \notin Kinds
  /\ at \in AfterSelect => query.select \in SelectParts
  /\ at \in AfterFrom => query.from \in Strings
  /\ query.filter \in FilterParts /\ query.limit \in LimitParts
  /\ at \in BeforeWhere => query.filter = Absent
  /\ at \in {"BETWEEN", "AND", "end"} => query.filter.clause = "BETWEEN"
  /\ at = "SINCE" => query.filter.clause = "SINCE"
  /\ at = "LAST" => query.filter.clause = "LAST"
  /\ at \in Unlimited => query.limit = Absent

\* How many tokens that makes.
Placed ==
  LET s == Len(SelectText(query.select))
      f == Len(FilterText(query.filter))
      l == Len(LimitText(query.limit))
  IN
  /\ at \in {"tokenize", "SELECT"} => Parsed = 0
  /\ at = "select" => Parsed = 1
  /\ at = "fields" => Parsed = 2 * Len(query.select.names)
  /\ at = "field" => Parsed = 2 * Len(query.select.names) + 1
  /\ at = "FROM" => Parsed = s + 1
  /\ at = "DEVICE" => Parsed = s + 2
  /\ at = "device" => Parsed = s + 3
  /\ at = "WHERE?" => Parsed = s + 4
  /\ at = "WHERE" => Parsed = s + 5
  /\ at \in {"BETWEEN", "SINCE", "LAST"} => Parsed = s + 6
  /\ at = "AND" => Parsed = s + 7
  /\ at = "end" => Parsed = s + 8
  /\ at = "LIMIT?" => Parsed = s + f + 4
  /\ at = "LIMIT" => Parsed = s + f + 5
  /\ at \in {"stop", "accepted"} => Parsed = s + f + l + 4

\* The queries whose text begins with the first n tokens, and those that the parser can still
\* come to by what it has made of them.
Begun(q, n) == n <= Len(Text(q)) /\ \A i \in 1..n : Text(q)[i] = read[i]
Fits(q) ==
  /\ at \notin {"rejected", "panic"}
  /\ at \in {"fields", "field"} =>
       /\ q.select.clause = "fields"
       /\ Len(q.select.names) >= Len(query.select.names)
       /\ \A i \in 1..Len(query.select.names) : q.select.names[i] = query.select.names[i]
  /\ at = "field" => Len(q.select.names) # Len(query.select.names)
  /\ at \in AfterSelect => q.select = query.select
  /\ at \in AfterFrom => q.from = query.from
  /\ at = "WHERE" => q.filter # Absent
  /\ at \in Filtering \union AfterWhere => q.filter = query.filter
  /\ at = "LIMIT" => q.limit # Absent
  /\ at \in {"stop", "accepted"} => q.limit = query.limit

\* They are the same: the parser neither gives up a query that is possible nor goes on with
\* one that is not.
Possible == (at = "rejected" /\ read = <<>>) \/ \A q \in Phrases : Begun(q, Len(read)) => Fits(q)
Certain == at \notin {"rejected", "panic"} => \A q \in Phrases : Fits(q) => Begun(q, Parsed)

ParserInv == ParserType /\ Placed /\ Possible /\ Certain

\* The token that a query it can come to has next.
Due(q, t) ==
  /\ at = "SELECT" => t = Word("SELECT")
  /\ at = "select" =>
       \/ q.select = All /\ t = Asterisk
       \/ q.select.clause \in Kinds /\ t = Word(q.select.clause)
       \/ q.select.clause = "fields" /\ t = Word(q.select.names[1])
  /\ at = "fields" =>
       IF Len(q.select.names) = Len(query.select.names) THEN t = Word("FROM") ELSE t = Comma
  /\ at = "field" => t = Word(q.select.names[Len(query.select.names) + 1])
  /\ at = "FROM" => t = Word("FROM")
  /\ at = "DEVICE" => t = Word("DEVICE")
  /\ at = "device" => t = String(q.from)
  /\ at = "WHERE?" /\ q.filter # Absent => t = Word("WHERE")
  /\ at = "WHERE" => t = Word(q.filter.clause)
  /\ at \in {"BETWEEN", "end", "SINCE"} => t = String("timestamp")
  /\ at = "AND" => t = Word("AND")
  /\ at = "LAST" => t = String("duration")
  /\ (at = "WHERE?" /\ q.filter = Absent) \/ at = "LIMIT?" =>
       IF q.limit = Absent THEN t = End ELSE t = Word("LIMIT")
  /\ at = "LIMIT" => t = Integer(q.limit.value)
  /\ at \in {"stop", "accepted"} => t = End

Coming == BeforeWhere \union AfterSelect
DueToken(q) == Text(q)[Parsed + 1]

LEMMA DueIs ==
  ASSUME ParserType, Placed, at \in Coming \ {"tokenize"}, NEW q \in Phrases, Fits(q)
  PROVE  Parsed + 1 \in 1..Len(Text(q)) /\ Due(q, DueToken(q))
<1> DEFINE s == Len(SelectText(q.select))
           f == Len(FilterText(q.filter))
           l == Len(LimitText(q.limit))
           k == Len(query.select.names)
<1>0. s = Len(SelectText(q.select)) /\ f = Len(FilterText(q.filter)) /\ l = Len(LimitText(q.limit))
  OBVIOUS
<1> HIDE DEF s, f, l
<1>1. /\ s \in Nat /\ f \in Nat /\ l \in Nat
      /\ Text(q) \in Seq(Tokens) /\ Len(Text(q)) = s + f + l + 5
      /\ Text(q)[1] = Word("SELECT")
      /\ \A i \in 1..s : Text(q)[1 + i] = SelectText(q.select)[i]
      /\ Text(q)[s + 2] = Word("FROM") /\ Text(q)[s + 3] = Word("DEVICE")
      /\ Text(q)[s + 4] = String(q.from)
      /\ \A i \in 1..f : Text(q)[s + 4 + i] = FilterText(q.filter)[i]
      /\ \A i \in 1..l : Text(q)[s + f + 4 + i] = LimitText(q.limit)[i]
      /\ Text(q)[s + f + l + 5] = End
  <2>1. Spelled(q, s, f, l)
    BY <1>0, TextTokens
  <2> QED BY <2>1 DEF Spelled
<1>2. /\ q.select = All => s = 1 /\ SelectText(q.select)[1] = Asterisk
      /\ q.select.clause \in Kinds => s = 1 /\ SelectText(q.select)[1] = Word(q.select.clause)
      /\ q.select.clause = "fields" =>
           /\ s = 2 * Len(q.select.names) - 1
           /\ \A i \in 1..Len(q.select.names) :
                SelectText(q.select)[2 * i - 1] = Word(q.select.names[i])
           /\ \A i \in 1..(Len(q.select.names) - 1) : SelectText(q.select)[2 * i] = Comma
  <2>1. q.select \in SelectParts
    BY DEF Phrases
  <2> QED BY <1>0, <2>1, SelectTokens
<1>3. /\ q.filter = Absent => f = 0
      /\ q.filter # Absent => /\ f >= 3 /\ FilterText(q.filter)[1] = Word("WHERE")
                              /\ FilterText(q.filter)[2] = Word(q.filter.clause)
      /\ q.filter.clause = "BETWEEN" =>
           /\ f = 5 /\ FilterText(q.filter)[4] = Word("AND")
           /\ FilterText(q.filter)[3] = String("timestamp")
           /\ FilterText(q.filter)[5] = String("timestamp")
      /\ q.filter.clause = "SINCE" => f = 3 /\ FilterText(q.filter)[3] = String("timestamp")
      /\ q.filter.clause = "LAST" => f = 3 /\ FilterText(q.filter)[3] = String("duration")
  <2>1. q.filter \in FilterParts
    BY DEF Phrases
  <2> QED BY <1>0, <2>1, FilterTokens
<1>4. /\ q.limit = Absent => l = 0
      /\ q.limit # Absent => /\ l = 2 /\ LimitText(q.limit)[1] = Word("LIMIT")
                             /\ LimitText(q.limit)[2] = Integer(q.limit.value)
  <2>1. q.limit \in LimitParts
    BY DEF Phrases
  <2> QED BY <1>0, <2>1, LimitTokens
<1>5. /\ q.select = All \/ q.select.clause \in Kinds \/ q.select.clause = "fields"
      /\ q.select.clause = "fields" => Len(q.select.names) \in Nat \ {0}
  <2>1. q.select \in SelectParts
    BY DEF Phrases
  <2>2. ASSUME NEW names \in NameLists, q.select = Fields(names)
        PROVE  q.select.clause = "fields" /\ Len(q.select.names) \in Nat \ {0}
    BY <2>2 DEF Fields, NameLists
  <2>3. All.clause = "*" /\ "*" # "fields" /\ "fields" \notin Kinds
    BY DEF All, Kinds
  <2> QED BY <2>1, <2>2, <2>3 DEF SelectParts
<1>6. CASE at \in {"SELECT", "select"}
  <2>1. s \in Nat /\ s >= 1
    BY <1>1, <1>2, <1>5
  <2>2. 1 \in 1..s /\ 1 + 1 = 2 /\ 0 + 1 = 1
    BY <2>1
  <2>3. Text(q)[2] = SelectText(q.select)[1]
    BY <1>1, <2>2
  <2>4. at = "SELECT" => Parsed + 1 = 1
    BY <2>2 DEF Placed
  <2>5. at = "select" => Parsed + 1 = 2
    BY <2>2 DEF Placed
  <2>6. Parsed + 1 \in 1..Len(Text(q))
    BY <1>1, <1>6, <2>4, <2>5
  <2>7. q.select.clause = "fields" => SelectText(q.select)[1] = Word(q.select.names[1])
    <3>1. ASSUME q.select.clause = "fields" PROVE 1 \in 1..Len(q.select.names) /\ 2 * 1 - 1 = 1
      BY <1>5, <3>1
    <3>2. \A i \in 1..Len(q.select.names) : q.select.clause = "fields" =>
            SelectText(q.select)[2 * i - 1] = Word(q.select.names[i])
      BY <1>2
    <3> HIDE DEF SelectText
    <3> QED BY <3>1, <3>2
  <2>8. at = "SELECT" => DueToken(q) = Word("SELECT")
    BY <1>1, <2>4 DEF DueToken
  <2>9. at = "select" => DueToken(q) = SelectText(q.select)[1]
    BY <2>3, <2>5 DEF DueToken
  <2> QED BY <1>2, <1>5, <1>6, <2>6, <2>7, <2>8, <2>9 DEF Due
<1>7. CASE at \in {"fields", "field"}
  <2> DEFINE n == Len(q.select.names)
             w == SelectText(q.select)
  <2>1. /\ q.select.clause = "fields" /\ k \in Nat /\ n \in Nat /\ n >= k /\ k # 0
        /\ at = "field" => n # k
    BY <1>5, <1>7 DEF ParserType, Fits
  <2>2. /\ s = 2 * n - 1 /\ \A i \in 1..n : w[2 * i - 1] = Word(q.select.names[i])
        /\ \A i \in 1..(n - 1) : w[2 * i] = Comma
    BY <1>2, <2>1
  <2>3. \A i \in 1..s : Text(q)[1 + i] = w[i]
    BY <1>1
  <2>4. /\ at = "fields" => Parsed = 2 * k
        /\ at = "field" => Parsed = 2 * k + 1
    BY DEF Placed
  <2> HIDE DEF k, n, w
  <2>5. CASE at = "field"
    <3>1. /\ k + 1 \in 1..n /\ 2 * (k + 1) - 1 = 2 * k + 1 /\ 2 * k + 1 \in 1..s
          /\ 1 + (2 * k + 1) = Parsed + 1
      BY <2>1, <2>2, <2>4, <2>5
    <3>2. DueToken(q) = w[2 * k + 1]
      BY <2>3, <3>1 DEF DueToken
    <3>3. w[2 * k + 1] = Word(q.select.names[k + 1])
      BY <2>2, <3>1
    <3>4. Parsed + 1 \in 1..Len(Text(q))
      BY <1>1, <2>1, <2>2, <3>1
    <3> QED BY <2>5, <3>2, <3>3, <3>4 DEF Due, k
  <2>6. CASE at = "fields" /\ n = k
    <3>1. s + 2 = Parsed + 1
      BY <2>1, <2>2, <2>4, <2>6
    <3>2. DueToken(q) = Word("FROM") /\ Parsed + 1 \in 1..Len(Text(q))
      BY <1>1, <3>1 DEF DueToken
    <3> QED BY <2>6, <3>2 DEF Due, n, k
  <2>7. CASE at = "fields" /\ n # k
    <3>1. k \in 1..(n - 1) /\ 2 * k \in 1..s /\ 1 + 2 * k = Parsed + 1
      BY <2>1, <2>2, <2>4, <2>7
    <3>2. DueToken(q) = w[2 * k]
      BY <2>3, <3>1 DEF DueToken
    <3>3. w[2 * k] = Comma
      BY <2>2, <3>1
    <3>4. Parsed + 1 \in 1..Len(Text(q))
      BY <1>1, <2>1, <2>2, <3>1
    <3> QED BY <2>7, <3>2, <3>3, <3>4 DEF Due, n, k
  <2> QED BY <1>7, <2>5, <2>6, <2>7
<1>8. CASE at \in AfterSelect
  <2>1. q.select = query.select /\ s = Len(SelectText(query.select))
    BY <1>0, <1>8 DEF Fits
  <2>2. at \in Filtering \union AfterWhere => f = Len(FilterText(query.filter))
    BY <1>0 DEF Fits
  <2>3. at \in {"stop", "accepted"} => l = Len(LimitText(query.limit))
    BY <1>0 DEF Fits
  <2>4. CASE at \in BeforeFrom
    <3>1. /\ at = "FROM" => Parsed + 1 = s + 2
          /\ at = "DEVICE" => Parsed + 1 = s + 3
          /\ at = "device" => Parsed + 1 = s + 4
      BY <1>1, <2>1 DEF Placed
    <3>2. Parsed + 1 \in 1..Len(Text(q))
      BY <1>1, <2>4, <3>1 DEF BeforeFrom
    <3> QED BY <1>1, <2>4, <3>1, <3>2 DEF Due, DueToken, BeforeFrom
  <2>5. CASE at \in {"WHERE", "BETWEEN", "AND", "end", "SINCE", "LAST"} \/ (at = "WHERE?" /\ q.filter # Absent)
    <3> DEFINE w == FilterText(q.filter)
    <3>1. at \in Filtering => q.filter = query.filter
      BY DEF Fits
    <3>2. /\ q.filter # Absent
          /\ at \in {"BETWEEN", "AND", "end"} => q.filter.clause = "BETWEEN"
          /\ at = "SINCE" => q.filter.clause = "SINCE"
          /\ at = "LAST" => q.filter.clause = "LAST"
      BY <2>5, <3>1 DEF Fits, ParserType, Absent, Filtering
    <3>3. ASSUME NEW j \in 1..f, Parsed = s + 3 + j, Due(q, w[j])
          PROVE  Parsed + 1 \in 1..Len(Text(q)) /\ Due(q, DueToken(q))
      <4> DEFINE m == Len(Text(q))
      <4>3. s \in Nat /\ f \in Nat /\ l \in Nat /\ m = s + f + l + 5
        BY <1>1
      <4> HIDE DEF m
      <4>4. Parsed + 1 = s + 4 + j
        BY <3>3, <4>3
      <4>5. Parsed + 1 \in 1..m
        BY <4>3, <4>4
      <4>1. Parsed + 1 = s + 4 + j /\ Parsed + 1 \in 1..Len(Text(q))
        BY <4>4, <4>5 DEF m
      <4>2. DueToken(q) = w[j]
        BY <1>1, <4>1 DEF DueToken
      <4> HIDE DEF w
      <4> QED BY <3>3, <4>1, <4>2
    <3>4. f \in Nat /\ f >= 3 /\ w[1] = Word("WHERE") /\ w[2] = Word(q.filter.clause)
      BY <1>1, <1>3, <3>2
    <3>5. /\ at = "BETWEEN" \/ at = "SINCE" => w[3] = String("timestamp")
          /\ at = "LAST" => w[3] = String("duration")
          /\ at = "AND" => f = 5 /\ w[4] = Word("AND")
          /\ at = "end" => f = 5 /\ w[5] = String("timestamp")
      BY <1>3, <3>2
    <3> HIDE DEF w
    <3>6. CASE at = "WHERE?"
      <4>1. Parsed = s + 3 + 1 /\ 1 \in 1..f
        BY <1>1, <2>1, <3>4, <3>6 DEF Placed
      <4>2. Due(q, w[1])
        BY <2>5, <3>4, <3>6 DEF Due
      <4> QED BY <3>3, <4>1, <4>2
    <3>7. CASE at = "WHERE"
      <4>1. Parsed = s + 3 + 2 /\ 2 \in 1..f
        BY <1>1, <2>1, <3>4, <3>7 DEF Placed
      <4>2. Due(q, w[2])
        BY <3>4, <3>7 DEF Due
      <4> QED BY <3>3, <4>1, <4>2
    <3>8. CASE at \in {"BETWEEN", "SINCE", "LAST"}
      <4>1. Parsed = s + 3 + 3 /\ 3 \in 1..f
        BY <1>1, <2>1, <3>4, <3>8 DEF Placed
      <4>2. Due(q, w[3])
        BY <3>5, <3>8 DEF Due
      <4> QED BY <3>3, <4>1, <4>2
    <3>9. CASE at = "AND"
      <4>1. Parsed = s + 3 + 4 /\ 4 \in 1..f
        BY <1>1, <2>1, <3>5, <3>9 DEF Placed
      <4>2. Due(q, w[4])
        BY <3>5, <3>9 DEF Due
      <4> QED BY <3>3, <4>1, <4>2
    <3>10. CASE at = "end"
      <4>1. Parsed = s + 3 + 5 /\ 5 \in 1..f
        BY <1>1, <2>1, <3>5, <3>10 DEF Placed
      <4>2. Due(q, w[5])
        BY <3>5, <3>10 DEF Due
      <4> QED BY <3>3, <4>1, <4>2
    <3> QED BY <2>5, <3>6, <3>7, <3>8, <3>9, <3>10
  <2>6. CASE at \in {"LIMIT?", "LIMIT", "stop", "accepted"} \/ (at = "WHERE?" /\ q.filter = Absent)
    <3>1. (at = "WHERE?" /\ f = 0 /\ Parsed = s + 4) \/ (at = "LIMIT?" /\ Parsed = s + f + 4)
          \/ (at = "LIMIT" /\ Parsed = s + f + 5)
          \/ (at \in {"stop", "accepted"} /\ Parsed = s + f + l + 4)
      BY <1>3, <2>1, <2>2, <2>3, <2>6 DEF Placed, AfterWhere
    <3>2. at = "LIMIT" => q.limit # Absent
      BY DEF Fits
    <3>3. CASE at = "LIMIT"
      <4>1. 2 \in 1..l /\ Parsed + 1 = s + f + 4 + 2
        BY <1>1, <1>4, <3>1, <3>2, <3>3
      <4>2. DueToken(q) = LimitText(q.limit)[2]
        BY <1>1, <4>1 DEF DueToken
      <4>3. Parsed + 1 \in 1..Len(Text(q))
        BY <1>1, <4>1
      <4> QED BY <1>4, <3>2, <3>3, <4>2, <4>3 DEF Due
    <3>4. CASE at \in {"stop", "accepted"}
      <4>1. Parsed + 1 = s + f + l + 5
        BY <1>1, <3>1, <3>4
      <4> QED BY <1>1, <3>4, <4>1 DEF Due, DueToken
    <3>5. CASE at \in {"WHERE?", "LIMIT?"}
      <4>1. Parsed + 1 = s + f + 5
        BY <1>1, <3>1, <3>5
      <4>2. CASE q.limit = Absent
        <5>1. s + f + l + 5 = s + f + 5
          BY <1>1, <1>4, <4>2
        <5>2. DueToken(q) = End /\ Parsed + 1 \in 1..Len(Text(q))
          BY <1>1, <4>1, <5>1 DEF DueToken
        <5> QED BY <2>6, <3>5, <4>2, <5>2 DEF Due
      <4>3. CASE q.limit # Absent
        <5>1. 1 \in 1..l /\ s + f + 4 + 1 = s + f + 5
          BY <1>1, <1>4, <4>3
        <5> DEFINE w == LimitText(q.limit)
        <5>5. Text(q)[s + f + 4 + 1] = w[1]
          BY <1>1, <5>1
        <5> HIDE DEF w
        <5>2. DueToken(q) = w[1] /\ Parsed + 1 \in 1..Len(Text(q))
          BY <1>1, <1>4, <4>1, <4>3, <5>1, <5>5 DEF DueToken
        <5>3. w[1] = Word("LIMIT")
          BY <1>4, <4>3 DEF w
        <5>4. Due(q, Word("LIMIT"))
          BY <2>6, <3>5, <4>3 DEF Due
        <5> QED BY <5>2, <5>3, <5>4
      <4> QED BY <4>2, <4>3
    <3> QED BY <2>6, <3>3, <3>4, <3>5
  <2> QED BY <1>8, <2>4, <2>5, <2>6 DEF AfterSelect, BeforeFrom, AfterFrom, Filtering, AfterWhere
<1> QED BY <1>6, <1>7, <1>8 DEF Coming, BeforeWhere, AfterSelect, AfterFrom

\* A token is looked at.
LEMMA LookParser == ASSUME ParserInv, Look PROVE ParserInv'
<1>1. at' = at /\ query' = query /\ first = unread /\ at \in Coming \ {"tokenize"}
  BY DEF Look, ParserInv, ParserType, Coming, Outcomes, AfterSelect, AfterFrom, AfterWhere
<1>2. PICK t \in Tokens : first' = t /\ read' = Append(read, t)
  BY DEF Look
<1>3. t # unread
  BY DEF Tokens, unread, Word, Integer, String, Asterisk, Comma, End
<1> DEFINE n == Len(read)
<1>4. /\ read \in Seq(Tokens) /\ n \in Nat /\ read' \in Seq(Tokens) /\ Len(read') = n + 1
      /\ read'[n + 1] = t /\ \A i \in 1..n : read'[i] = read[i]
  BY <1>2 DEF ParserInv, ParserType
<1> HIDE DEF n
<1>5. Parsed = n /\ Parsed' = n
  BY <1>1, <1>2, <1>3, <1>4 DEF Parsed, n
<1>6. ParserType'
  <2>1. first' \in Tokens \union {unread} /\ first' # unread
    BY <1>2, <1>3
  <2>2. Len(read') # 0 /\ read'[Len(read')] = first'
    BY <1>2, <1>4
  <2>3. at # "accepted"
    BY DEF Look, Outcomes
  <2> QED BY <1>1, <1>4, <2>1, <2>2, <2>3 DEF ParserInv, ParserType
<1>7. Placed'
  BY <1>1, <1>5 DEF ParserInv, Placed
<1>8. \A q \in Phrases : Fits(q)' <=> Fits(q)
  BY <1>1 DEF Fits
<1>9. ASSUME NEW q \in Phrases PROVE Begun(q, Parsed)' <=> Begun(q, n)
  BY <1>4, <1>5 DEF Begun
<1>10. ASSUME NEW q \in Phrases, Begun(q, Len(read))' PROVE Begun(q, n)
  <2>1. n + 1 <= Len(Text(q)) /\ \A i \in 1..(n + 1) : Text(q)[i] = read'[i]
    BY <1>4, <1>10 DEF Begun
  <2>2. q \in Phrases /\ Text(q) \in Seq(Tokens)
    BY TextTokens DEF Spelled
  <2>3. \A i \in 1..n : i \in 1..(n + 1)
    BY <1>4
  <2> QED BY <1>4, <2>1, <2>2, <2>3 DEF Begun
<1>11. Possible'
  <2>1. at # "rejected"
    BY DEF Look, Outcomes
  <2> QED BY <1>4, <1>8, <1>10, <2>1 DEF ParserInv, Possible, n
<1>12. Certain'
  BY <1>1, <1>5, <1>8, <1>9 DEF ParserInv, Certain
<1> QED BY <1>6, <1>7, <1>11, <1>12 DEF ParserInv

\* The token looked at is the next of every query with this beginning.
LEMMA NextIs ==
  ASSUME ParserInv, first # unread, NEW q \in Phrases
  PROVE  /\ Parsed \in Nat /\ Len(read) = Parsed + 1
         /\ Begun(q, Len(read)) <=> Begun(q, Parsed) /\ Len(read) <= Len(Text(q)) /\ DueToken(q) = first
<1> DEFINE n == Parsed
<1>1. /\ Len(read) \in Nat /\ Len(read) # 0 /\ read[Len(read)] = first
      /\ n = Len(read) - 1
  BY DEF ParserInv, ParserType, Parsed
<1>2. n \in Nat /\ Len(read) = n + 1
  BY <1>1
<1>3. Len(Text(q)) \in Nat
  <2>1. Text(q) \in Seq(Tokens)
    BY TextTokens DEF Spelled
  <2> QED BY <2>1
<1>4. DueToken(q) = Text(q)[n + 1] /\ read[n + 1] = first
  BY <1>1, <1>2 DEF DueToken
<1> HIDE DEF n
<1>5. \A i \in 1..(n + 1) : i \in 1..n \/ i = n + 1
  BY <1>2
<1>6. n + 1 \in 1..(n + 1) /\ \A i \in 1..n : i \in 1..(n + 1)
  BY <1>2
<1>7. Begun(q, n + 1) <=> Begun(q, n) /\ n + 1 <= Len(Text(q)) /\ DueToken(q) = first
  BY <1>2, <1>3, <1>4, <1>5, <1>6 DEF Begun
<1> QED BY <1>2, <1>7 DEF n

\* It is parsed: of the queries so far those stay that have it there.
LEMMA Consumes ==
  ASSUME ParserInv, first # unread, at \in Coming \ {"tokenize"}, ParserType', Placed',
         first' = unread, read' = read, at' \notin {"rejected", "panic"},
         \A q \in Phrases : Fits(q)' <=> Fits(q) /\ DueToken(q) = first
  PROVE  ParserInv'
<1>1. at \notin {"rejected", "panic"}
  BY DEF Coming, BeforeWhere, AfterSelect, BeforeFrom, AfterFrom, Filtering, AfterWhere
<1>2. Parsed' = Len(read)
  BY DEF Parsed
<1>3. \A n : \A q \in Phrases : Begun(q, n)' <=> Begun(q, n)
  BY DEF Begun
<1>4. ASSUME NEW q \in Phrases PROVE Fits(q)' <=> Begun(q, Len(read))
  <2>1. Fits(q) => Parsed + 1 \in 1..Len(Text(q))
    BY DueIs DEF ParserInv
  <2>2. /\ Parsed \in Nat /\ Len(read) = Parsed + 1
        /\ Begun(q, Len(read)) <=> Begun(q, Parsed) /\ Len(read) <= Len(Text(q)) /\ DueToken(q) = first
    BY NextIs
  <2>3. Fits(q) => Begun(q, Parsed)
    BY <1>1 DEF ParserInv, Certain
  <2>4. Begun(q, Len(read)) => Fits(q)
    BY <1>1 DEF ParserInv, Possible
  <2>5. Len(Text(q)) \in Nat
    <3>1. Text(q) \in Seq(Tokens)
      BY TextTokens DEF Spelled
    <3> QED BY <3>1
  <2>6. Fits(q) => Len(read) <= Len(Text(q))
    BY <2>1, <2>2, <2>5
  <2> QED BY <2>2, <2>3, <2>4, <2>6
<1>5. Possible'
  BY <1>3, <1>4 DEF Possible
<1>6. Certain'
  BY <1>2, <1>3, <1>4 DEF Certain
<1> QED BY <1>5, <1>6 DEF ParserInv

\* It is left for what comes next, or the query is given up.
LEMMA Leaves ==
  ASSUME ParserInv, first # unread, at \in Coming \ {"tokenize"}, ParserType', Placed',
         first' = first, read' = read,
         \A q \in Phrases : Fits(q) /\ DueToken(q) = first => Fits(q)',
         at' \notin {"rejected", "panic"} => \A q \in Phrases : Fits(q)' => Fits(q)
  PROVE  ParserInv'
<1>1. at \notin {"rejected", "panic"}
  BY DEF Coming, BeforeWhere, AfterSelect, BeforeFrom, AfterFrom, Filtering, AfterWhere
<1>2. Parsed' = Parsed
  BY DEF Parsed
<1>3. \A n : \A q \in Phrases : Begun(q, n)' <=> Begun(q, n)
  BY DEF Begun
<1>4. ASSUME NEW q \in Phrases, Begun(q, Len(read)) PROVE Fits(q)'
  <2>1. DueToken(q) = first
    BY <1>4, NextIs
  <2>2. Fits(q)
    BY <1>1, <1>4 DEF ParserInv, Possible
  <2> QED BY <2>1, <2>2
<1>5. Possible'
  BY <1>3, <1>4 DEF Possible
<1>6. Certain'
  BY <1>1, <1>2, <1>3 DEF ParserInv, Certain
<1> QED BY <1>5, <1>6 DEF ParserInv

LEMMA Rejects ==
  ASSUME ParserInv, first # unread, at \in Coming \ {"tokenize"}, Reject,
         \A q \in Phrases : Fits(q) => DueToken(q) # first
  PROVE  ParserInv'
<1>1. at' = "rejected" /\ first' = first /\ read' = read /\ query' = query
  BY DEF Reject, Keep, MoveTo
<1>2. ParserType'
  BY <1>1 DEF ParserInv, ParserType, BeforeWhere, BeforeFrom, AfterSelect, AfterFrom, Filtering,
    AfterWhere, Unlimited
<1>3. Placed'
  BY <1>1 DEF Placed
<1> QED BY <1>1, <1>2, <1>3, Leaves

\* Tokens of different kinds differ, and so do those of one kind with different texts.
LEMMA TokensDiffer ==
  /\ \A v, w : Word(v) = Word(w) <=> v = w
  /\ \A v, w : String(v) = String(w) <=> v = w
  /\ \A v, w : Integer(v) = Integer(w) <=> v = w
  /\ \A v : /\ Word(v).type = "Identifier" /\ Word(v).text = v
            /\ String(v).type = "String" /\ String(v).holds = v
            /\ Integer(v).type = "Integer" /\ Integer(v).value = v
  /\ Asterisk.type = "Asterisk" /\ Comma.type = "Comma" /\ End.type = "End"
  /\ unread.type = "unread"
  BY DEF Word, String, Integer, Asterisk, Comma, End, unread

LEMMA TokenKinds ==
  ASSUME NEW t \in Tokens
  PROVE  /\ t.type = "Identifier" => t = Word(t.text) /\ t.text \in Names
         /\ t.type = "String" => t = String(t.holds) /\ t.holds \in Strings
         /\ t.type = "Integer" => t = Integer(t.value) /\ t.value \in Numbers
         /\ t.type = "Asterisk" => t = Asterisk
<1>1. CASE \E w \in Names : t = Word(w)
  BY <1>1, TokensDiffer
<1>2. CASE \E w \in Strings : t = String(w)
  BY <1>2, TokensDiffer
<1>3. CASE \E w \in Numbers : t = Integer(w)
  BY <1>3, TokensDiffer
<1>4. CASE t \in {Asterisk, Comma, End}
  BY <1>4, TokensDiffer
<1> QED BY <1>1, <1>2, <1>3, <1>4 DEF Tokens, Names

\* What a parse function has in front of it.
LEMMA AtToken ==
  ASSUME ParserInv, NEW state, state \in Coming \ {"tokenize"}, Seen(state)
  PROVE  /\ at = state /\ first # unread /\ first \in Tokens
         /\ Parsed \in Nat /\ Len(read) = Parsed + 1
         /\ \A q \in Phrases : Fits(q) => Due(q, DueToken(q))
<1>1. at = state /\ first # unread /\ first \in Tokens
  BY DEF Seen, ParserInv, ParserType
<1>2. Parsed \in Nat /\ Len(read) = Parsed + 1
  <2>1. Len(read) \in Nat /\ Len(read) # 0 /\ Parsed = Len(read) - 1
    BY <1>1 DEF ParserInv, ParserType, Parsed
  <2> QED BY <2>1
<1>3. \A q \in Phrases : Fits(q) => Due(q, DueToken(q))
  BY <1>1, DueIs DEF ParserInv
<1> QED BY <1>1, <1>2, <1>3

LEMMA KeywordParser ==
  ASSUME ParserInv, NEW keyword \in DOMAIN After, ExpectKeyword(keyword) PROVE ParserInv'
<1>1. /\ keyword \in {"SELECT", "FROM", "DEVICE", "AND"}
      /\ After["SELECT"] = "select" /\ After["FROM"] = "DEVICE" /\ After["DEVICE"] = "device"
      /\ After["AND"] = "end"
  BY DEF After
<1>2. keyword \in Coming \ {"tokenize"}
  BY <1>1 DEF Coming, BeforeWhere, BeforeFrom, AfterSelect, AfterFrom, Filtering
<1>3. /\ at = keyword /\ first # unread /\ first \in Tokens
      /\ Parsed \in Nat /\ Len(read) = Parsed + 1
      /\ \A q \in Phrases : Fits(q) => Due(q, DueToken(q))
  BY <1>2, AtToken DEF ExpectKeyword
<1>4. \A q \in Phrases : Fits(q) => DueToken(q) = Word(keyword)
  BY <1>1, <1>3 DEF Due
<1>5. CASE first = Word(keyword)
  <2>1. at' = After[keyword] /\ first' = unread /\ read' = read /\ query' = query
    BY <1>5 DEF ExpectKeyword, Consume, MoveTo
  <2>2. Parsed' = Parsed + 1
    BY <1>3, <2>1 DEF Parsed
  <2>3. ParserType'
    BY <1>1, <1>3, <2>1 DEF ParserInv, ParserType, BeforeWhere, BeforeFrom, AfterSelect, AfterFrom,
      Filtering, AfterWhere, Unlimited
  <2>4. Placed'
    <3>1. Len(SelectText(query.select)) \in Nat \/ at = "SELECT"
      <4>1. CASE at # "SELECT"
        <5>1. query.select \in SelectParts
          BY <1>1, <1>3, <4>1 DEF ParserInv, ParserType, AfterSelect, BeforeFrom, AfterFrom, Filtering
        <5> QED BY <5>1, SelectTokens
      <4> QED BY <4>1
    <3> QED BY <1>1, <1>3, <2>1, <2>2, <3>1 DEF ParserInv, Placed
  <2>5. at' \notin {"rejected", "panic"}
    BY <1>1, <2>1
  <2>6. \A q \in Phrases : Fits(q)' <=> Fits(q)
    BY <1>1, <1>3, <2>1 DEF Fits, BeforeFrom, AfterSelect, AfterFrom, Filtering, AfterWhere
  <2> QED BY <1>2, <1>3, <1>4, <1>5, <2>1, <2>3, <2>4, <2>5, <2>6, Consumes
<1>6. CASE first # Word(keyword)
  BY <1>2, <1>3, <1>4, <1>6, Rejects DEF ExpectKeyword
<1> QED BY <1>5, <1>6

\* The conversion of a place: what was parsed has one token more.
LEMMA OneMore ==
  ASSUME first # unread, Parsed \in Nat, Len(read) = Parsed + 1, NEW state, Consume(state)
  PROVE  at' = state /\ first' = unread /\ read' = read /\ Parsed' = Parsed + 1
  BY DEF Consume, MoveTo, Parsed

LEMMA SelectParser == ASSUME ParserInv, ParseSelect PROVE ParserInv'
<1>1. "select" \in Coming \ {"tokenize"} /\ Seen("select")
  BY DEF Coming, BeforeWhere, ParseSelect
<1>2. /\ at = "select" /\ first # unread /\ first \in Tokens
      /\ Parsed \in Nat /\ Len(read) = Parsed + 1
      /\ \A q \in Phrases : Fits(q) => Due(q, DueToken(q))
  BY <1>1, AtToken
<1>3. \A q \in Phrases : Fits(q)
  BY <1>2 DEF Fits, BeforeFrom, AfterSelect, AfterFrom, Filtering, AfterWhere
<1>4. ASSUME NEW q \in Phrases
      PROVE  \/ q.select = All /\ DueToken(q) = Asterisk
             \/ q.select.clause \in Kinds /\ DueToken(q) = Word(q.select.clause)
             \/ q.select.clause = "fields" /\ DueToken(q) = Word(q.select.names[1])
  BY <1>2, <1>3 DEF Due
<1>5. ASSUME NEW q \in Phrases
      PROVE  /\ q.select \in SelectParts
             /\ q.select.clause \in Kinds => q.select = [clause |-> q.select.clause]
             /\ q.select.clause = "fields" =>
                  /\ q.select = Fields(q.select.names) /\ Len(q.select.names) \in Nat \ {0}
                  /\ q.select.names[1] \in Names \ Kinds
  <2>1. q.select \in SelectParts
    BY DEF Phrases
  <2>2. ASSUME NEW names \in NameLists, q.select = Fields(names)
        PROVE  /\ q.select.clause = "fields" /\ q.select.names = names
               /\ Len(names) \in Nat \ {0} /\ names[1] \in Names \ Kinds
    <3>1. names \in Seq(Names) /\ Len(names) \in 1..MaxFields /\ names[1] \notin Kinds
      BY DEF NameLists
    <3>2. Len(names) \in Nat \ {0} /\ 1 \in 1..Len(names)
      BY <3>1
    <3> QED BY <2>2, <3>1, <3>2 DEF Fields
  <2>3. All.clause = "*" /\ "*" # "fields" /\ "fields" \notin Kinds /\ "*" \notin Kinds
    BY DEF All, Kinds
  <2> QED BY <2>1, <2>2, <2>3 DEF SelectParts
<1>6. CASE first = Asterisk /\ query' = [query EXCEPT !.select = All] /\ Consume("FROM")
  <2>1. at' = "FROM" /\ first' = unread /\ read' = read /\ Parsed' = Parsed + 1
    BY <1>2, <1>6, OneMore
  <2>2. query'.select = All /\ All \in SelectParts
    BY <1>6 DEF ParserInv, ParserType, SelectParts
  <2>3. ParserType'
    BY <1>2, <1>6, <2>1, <2>2 DEF ParserInv, ParserType, BeforeWhere, BeforeFrom, AfterSelect,
      AfterFrom, Filtering, AfterWhere, Unlimited
  <2>4. Placed'
    <3>1. Parsed' = 1 + 1 /\ Len(SelectText(All)) = 1
      BY <1>2, <2>1, <2>2, SelectTokens DEF ParserInv, Placed
    <3> QED BY <2>1, <2>2, <3>1 DEF Placed
  <2>5. \A q \in Phrases : Fits(q)' <=> q.select = All
    BY <2>1, <2>2 DEF Fits, BeforeFrom, AfterSelect, AfterFrom, Filtering, AfterWhere
  <2>6. \A q \in Phrases : DueToken(q) = first <=> q.select = All
    <3>1. All.clause \notin Kinds /\ All.clause # "fields"
      BY DEF All, Kinds
    <3> QED BY <1>4, <1>6, <3>1, TokensDiffer
  <2>7. at' \notin {"rejected", "panic"}
    BY <2>1
  <2> QED BY <1>1, <1>2, <1>3, <2>1, <2>3, <2>4, <2>5, <2>6, <2>7, Consumes
<1>7. CASE /\ first.type = "Identifier" /\ first.text \in Kinds
           /\ query' = [query EXCEPT !.select = [clause |-> first.text]] /\ Consume("FROM")
  <2> DEFINE part == [clause |-> first.text]
  <2>1. at' = "FROM" /\ first' = unread /\ read' = read /\ Parsed' = Parsed + 1
    BY <1>2, <1>7, OneMore
  <2>2. query'.select = part /\ part \in SelectParts /\ part.clause \in Kinds
    BY <1>7 DEF ParserInv, ParserType, SelectParts
  <2>3. ParserType'
    <3> HIDE DEF part
    <3> QED BY <1>2, <1>7, <2>1, <2>2 DEF ParserInv, ParserType, BeforeWhere, BeforeFrom, AfterSelect,
              AfterFrom, Filtering, AfterWhere, Unlimited, part
  <2>4. Placed'
    <3>1. Parsed' = 1 + 1 /\ Len(SelectText(part)) = 1
      BY <1>2, <2>1, <2>2, SelectTokens DEF ParserInv, Placed
    <3> QED BY <2>1, <2>2, <3>1 DEF Placed
  <2>5. \A q \in Phrases : Fits(q)' <=> q.select = part
    BY <2>1, <2>2 DEF Fits, BeforeFrom, AfterSelect, AfterFrom, Filtering, AfterWhere
  <2>6. ASSUME NEW q \in Phrases PROVE DueToken(q) = first <=> q.select = part
    <3>1. All.clause \notin Kinds /\ All.clause # "fields" /\ "fields" \notin Kinds
      BY DEF All, Kinds
    <3>2. first = Word(first.text)
      BY <1>2, <1>7, TokenKinds
    <3>3. part.clause = first.text
      OBVIOUS
    <3>4. CASE q.select = All
      BY <1>4, <1>7, <2>2, <3>1, <3>4, TokensDiffer
    <3>5. CASE q.select.clause \in Kinds
      <4>1. DueToken(q) = Word(q.select.clause)
        BY <1>4, <3>1, <3>5
      <4>2. DueToken(q) = first <=> q.select.clause = first.text
        BY <3>2, <4>1, TokensDiffer
      <4> QED BY <1>5, <3>5, <4>2
    <3>6. CASE q.select.clause = "fields"
      <4>1. DueToken(q) = Word(q.select.names[1])
        BY <1>4, <3>1, <3>6 DEF All
      <4>2. q.select.names[1] # first.text
        BY <1>5, <1>7, <3>6
      <4> QED BY <2>2, <3>1, <3>2, <3>6, <4>1, <4>2, TokensDiffer
    <3> QED BY <1>4, <3>4, <3>5, <3>6
  <2>7. at' \notin {"rejected", "panic"}
    BY <2>1
  <2> HIDE DEF part
  <2> QED BY <1>1, <1>2, <1>3, <2>1, <2>3, <2>4, <2>5, <2>6, <2>7, Consumes
<1>8. CASE /\ first.type = "Identifier" /\ first.text \notin Kinds
           /\ query' = [query EXCEPT !.select = Fields(<<first.text>>)] /\ Consume("fields")
  <2> DEFINE names == <<first.text>>
  <2>1. at' = "fields" /\ first' = unread /\ read' = read /\ Parsed' = Parsed + 1
    BY <1>2, <1>8, OneMore
  <2>2. first = Word(first.text) /\ first.text \in Names
    BY <1>2, <1>8, TokenKinds
  <2>3. names \in Seq(Names) /\ Len(names) = 1 /\ names[1] = first.text
    BY <2>2
  <2> HIDE DEF names
  <2>4. query'.select = Fields(names) /\ query'.select.names = names
    BY <1>8 DEF ParserInv, ParserType, Fields, names
  <2>5. ParserType'
    <3>1. query'.filter = query.filter /\ query'.limit = query.limit /\ query'.from = query.from
          /\ query' = [select |-> query'.select, from |-> query'.from, filter |-> query'.filter,
                       limit |-> query'.limit]
      BY <1>8 DEF ParserInv, ParserType
    <3>2. query'.select = Fields(query'.select.names) /\ query'.select.names \in Seq(Names)
          /\ Len(query'.select.names) # 0 /\ query'.select.names[1] \notin Kinds
      BY <1>8, <2>3, <2>4
    <3> QED BY <1>2, <2>1, <3>1, <3>2 DEF ParserInv, ParserType, BeforeWhere, BeforeFrom, AfterSelect,
              AfterFrom, Filtering, AfterWhere, Unlimited
  <2>6. Placed'
    <3>1. Parsed' = 1 + 1
      BY <1>2, <2>1 DEF ParserInv, Placed
    <3> DEFINE n == Len(query'.select.names)
    <3>3. n = 1
      BY <2>3, <2>4
    <3> HIDE DEF n
    <3>2. Parsed' = 2 * n
      BY <3>1, <3>3
    <3> QED BY <2>1, <3>2 DEF Placed, n
  <2>7. ASSUME NEW q \in Phrases
        PROVE  Fits(q)' <=> q.select.clause = "fields" /\ q.select.names[1] = first.text
    <3>1. \A i \in 1..1 : i = 1
      OBVIOUS
    <3> DEFINE n == Len(q.select.names)
    <3>2. q.select.clause = "fields" => n \in Nat \ {0}
      BY <1>5
    <3> HIDE DEF n
    <3>3. q.select.clause = "fields" => n >= 1
      BY <3>2
    <3> DEFINE m == Len(query'.select.names)
    <3>4. m = 1 /\ query'.select.names[1] = first.text
      BY <2>3, <2>4
    <3>5. Fits(q)' <=> /\ q.select.clause = "fields" /\ n >= m
                       /\ \A i \in 1..m : q.select.names[i] = query'.select.names[i]
      BY <2>1 DEF n, Fits, BeforeFrom, AfterSelect, AfterFrom, Filtering, AfterWhere
    <3> HIDE DEF m
    <3> QED BY <3>1, <3>3, <3>4, <3>5
  <2>8. ASSUME NEW q \in Phrases
        PROVE  DueToken(q) = first <=> q.select.clause = "fields" /\ q.select.names[1] = first.text
    <3>1. All.clause \notin Kinds /\ All.clause # "fields" /\ "fields" \notin Kinds
      BY DEF All, Kinds
    <3> QED BY <1>4, <1>8, <2>2, <3>1, TokensDiffer
  <2>9. at' \notin {"rejected", "panic"}
    BY <2>1
  <2> QED BY <1>1, <1>2, <1>3, <2>1, <2>5, <2>6, <2>7, <2>8, <2>9, Consumes
<1>9. CASE first.type \notin {"Asterisk", "Identifier"} /\ Reject
  <2>1. \A q \in Phrases : DueToken(q) # first
    BY <1>4, <1>9, TokensDiffer
  <2> QED BY <1>1, <1>2, <1>9, <2>1, Rejects
<1> QED BY <1>6, <1>7, <1>8, <1>9 DEF ParseSelect

\* The names of a query that the parser can come to.
LEMMA NamesOf ==
  ASSUME NEW q \in Phrases, q.select.clause = "fields"
  PROVE  /\ q.select = Fields(q.select.names) /\ q.select.names \in Seq(Names)
         /\ Len(q.select.names) \in Nat \ {0} /\ Len(q.select.names) <= MaxFields
<1>1. q.select \in SelectParts
  BY DEF Phrases
<1>2. All.clause = "*" /\ "*" # "fields" /\ "fields" \notin Kinds
  BY DEF All, Kinds
<1>3. PICK names \in NameLists : q.select = Fields(names)
  BY <1>1, <1>2 DEF SelectParts
<1>4. q.select.names = names /\ names \in Seq(Names) /\ Len(names) \in 1..MaxFields
  BY <1>3 DEF Fields, NameLists
<1>5. MaxFields \in Nat
  BY MaxFieldsAssumption
<1> QED BY <1>3, <1>4, <1>5

LEMMA FieldsParser == ASSUME ParserInv, ParseFields PROVE ParserInv'
<1> DEFINE names == query.select.names
           k == Len(names)
           n(q) == Len(q.select.names)
<1>1. at \in {"fields", "field"} /\ at \in Coming \ {"tokenize"}
  BY DEF ParseFields, Seen, Coming, BeforeWhere
<1>2. /\ first # unread /\ first \in Tokens /\ Parsed \in Nat /\ Len(read) = Parsed + 1
      /\ \A q \in Phrases : Fits(q) => Due(q, DueToken(q))
  BY <1>1, AtToken DEF ParseFields, Seen
<1>3. /\ query.select = Fields(names) /\ names \in Seq(Names) /\ k \in Nat \ {0}
      /\ names[1] \notin Kinds
  BY <1>1 DEF ParserInv, ParserType
<1>4. /\ at = "fields" => Parsed = 2 * k
      /\ at = "field" => Parsed = 2 * k + 1
  BY DEF ParserInv, Placed
<1>5. \A q \in Phrases :
        Fits(q) <=> /\ q.select.clause = "fields" /\ n(q) >= k
                    /\ \A i \in 1..k : q.select.names[i] = names[i]
                    /\ at = "field" => n(q) # k
  BY <1>1 DEF Fits, BeforeFrom, AfterSelect, AfterFrom, Filtering, AfterWhere
<1>6. ASSUME NEW q \in Phrases, q.select.clause = "fields"
      PROVE  /\ n(q) \in Nat \ {0} /\ n(q) <= MaxFields
             /\ q.select = Fields(q.select.names) /\ q.select.names \in Seq(Names)
  BY <1>6, NamesOf
<1>7. \A q \in Phrases : at = "fields" /\ Fits(q) =>
        IF n(q) = k THEN DueToken(q) = Word("FROM") ELSE DueToken(q) = Comma
  BY <1>2 DEF Due
<1>8. \A q \in Phrases : at = "field" /\ Fits(q) => DueToken(q) = Word(q.select.names[k + 1])
  BY <1>2 DEF Due
<1> HIDE DEF names, k, n
<1>9. CASE Seen("fields") /\ first = Comma /\ Consume("field") /\ UNCHANGED query
  <2>1. /\ at = "fields" /\ at' = "field" /\ first' = unread /\ read' = read
        /\ Parsed' = Parsed + 1 /\ query' = query
    BY <1>2, <1>9, OneMore DEF Seen
  <2>2. ParserType'
    BY <2>1 DEF ParserInv, ParserType, BeforeWhere, BeforeFrom, AfterSelect, AfterFrom, Filtering,
      AfterWhere, Unlimited
  <2>3. Placed'
    <3>1. Parsed' = 2 * Len(query'.select.names) + 1
      BY <1>4, <2>1 DEF k, names
    <3> QED BY <2>1, <3>1 DEF Placed
  <2>4. \A q \in Phrases : Fits(q)' <=> Fits(q) /\ n(q) # k
    BY <2>1 DEF Fits, BeforeFrom, AfterSelect, AfterFrom, Filtering, AfterWhere, n, k, names
  <2>5. Comma # Word("FROM")
    BY TokensDiffer
  <2>6. \A q \in Phrases : Fits(q) => (DueToken(q) = first <=> n(q) # k)
    BY <1>7, <1>9, <2>1, <2>5
  <2>7. at' \notin {"rejected", "panic"}
    BY <2>1
  <2> QED BY <1>1, <1>2, <2>1, <2>2, <2>3, <2>4, <2>6, <2>7, Consumes
<1>10. CASE Seen("fields") /\ first # Comma /\ TooMany /\ Reject
  <2>1. k > MaxFields
    BY <1>10 DEF TooMany, k, names
  <2>2. \A q \in Phrases : ~Fits(q)
    <3>1. MaxFields \in Nat
      BY MaxFieldsAssumption
    <3> QED BY <1>3, <1>5, <1>6, <2>1, <3>1
  <2> QED BY <1>1, <1>2, <1>10, <2>2, Rejects
<1>11. CASE Seen("fields") /\ first # Comma /\ ~TooMany /\ Keep("FROM") /\ UNCHANGED query
  <2>1. at = "fields" /\ at' = "FROM" /\ first' = first /\ read' = read /\ query' = query
    BY <1>11 DEF Seen, Keep, MoveTo
  <2>2. query.select \in SelectParts
    <3>1. k \in 1..MaxFields
      BY <1>3, <1>11, MaxFieldsAssumption DEF TooMany, k, names
    <3>2. names \in NameLists
      BY <1>3, <3>1 DEF NameLists, k
    <3> QED BY <1>3, <3>2 DEF SelectParts
  <2>3. ParserType'
    BY <2>1, <2>2 DEF ParserInv, ParserType, BeforeWhere, BeforeFrom, AfterSelect, AfterFrom,
      Filtering, AfterWhere, Unlimited
  <2>4. Placed'
    <3>1. Len(SelectText(query.select)) = 2 * k - 1
      <4>1. query.select.clause = "fields"
        BY <1>3 DEF Fields
      <4> QED BY <2>2, <4>1, SelectTokens DEF k, names
    <3>2. Parsed' = Parsed
      BY <2>1 DEF Parsed
    <3>3. Parsed' = Len(SelectText(query'.select)) + 1
      BY <1>3, <1>4, <2>1, <3>1, <3>2
    <3> QED BY <2>1, <3>3 DEF Placed
  <2>5. \A q \in Phrases : Fits(q)' <=> q.select = query.select
    BY <2>1 DEF Fits, BeforeFrom, AfterSelect, AfterFrom, Filtering, AfterWhere
  <2>6. ASSUME NEW q \in Phrases, Fits(q), DueToken(q) = first PROVE q.select = query.select
    <3>1. n(q) = k
      BY <1>7, <1>11, <2>1, <2>6
    <3>2. q.select.names \in Seq(Names) /\ q.select = Fields(q.select.names)
          /\ \A i \in 1..k : q.select.names[i] = names[i]
      BY <1>5, <1>6, <2>6
    <3> DEFINE other == q.select.names
    <3>3. other \in Seq(Names) /\ Len(other) = k /\ \A i \in 1..k : other[i] = names[i]
      BY <3>1, <3>2 DEF n
    <3> HIDE DEF other
    <3>4. other = names
      BY <1>3, <3>3, SeqEqual DEF k
    <3> QED BY <1>3, <3>2, <3>4 DEF other
  <2>7. ASSUME NEW q \in Phrases, q.select = query.select PROVE Fits(q)
    <3>1. q.select.clause = "fields" /\ n(q) = k /\ q.select.names = names
      BY <1>3, <2>7 DEF Fields, n, k, names
    <3> QED BY <1>3, <1>5, <2>1, <3>1
  <2> QED BY <1>1, <1>2, <2>1, <2>3, <2>4, <2>5, <2>6, <2>7, Leaves
<1>12. CASE /\ Seen("field") /\ first.type = "Identifier"
            /\ query' = [query EXCEPT !.select.names = Append(@, first.text)] /\ Consume("fields")
  <2> DEFINE longer == Append(names, first.text)
  <2>1. /\ at = "field" /\ at' = "fields" /\ first' = unread /\ read' = read
        /\ Parsed' = Parsed + 1
    BY <1>2, <1>12, OneMore DEF Seen
  <2>2. first = Word(first.text) /\ first.text \in Names
    BY <1>2, <1>12, TokenKinds
  <2>3. /\ longer \in Seq(Names) /\ Len(longer) = k + 1 /\ longer[k + 1] = first.text
        /\ \A i \in 1..k : longer[i] = names[i]
    BY <1>3, <2>2 DEF k
  <2>4. /\ query'.filter = query.filter /\ query'.limit = query.limit /\ query'.from = query.from
        /\ query'.select = Fields(longer)
        /\ query' = [select |-> query'.select, from |-> query'.from, filter |-> query'.filter,
                     limit |-> query'.limit]
    <3>1. query = [select |-> query.select, from |-> query.from, filter |-> query.filter,
                   limit |-> query.limit]
      BY DEF ParserInv, ParserType
    <3>2. query' = [query EXCEPT !.select = [@ EXCEPT !.names = longer]]
      BY <1>12 DEF names
    <3> HIDE DEF longer
    <3>3. [query.select EXCEPT !.names = longer] = Fields(longer)
      BY <1>3 DEF Fields
    <3> QED BY <3>1, <3>2, <3>3
  <2> HIDE DEF longer
  <2>5. query'.select.names = longer
    BY <2>4 DEF Fields
  <2>6. Len(query'.select.names) = k + 1 /\ query'.select.names \in Seq(Names)
        /\ Len(query'.select.names) # 0 /\ query'.select.names[1] \notin Kinds
    <3>1. 1 \in 1..k /\ k + 1 # 0
      BY <1>3
    <3> QED BY <1>3, <2>3, <2>5, <3>1
  <2>7. ParserType'
    <3>1. query'.select = Fields(query'.select.names)
      BY <2>4, <2>5
    <3> QED BY <1>2, <2>1, <2>4, <2>6, <3>1 DEF ParserInv, ParserType, BeforeWhere, BeforeFrom,
              AfterSelect, AfterFrom, Filtering, AfterWhere, Unlimited
  <2>8. Placed'
    <3> DEFINE m == Len(query'.select.names)
    <3>1. m = k + 1
      BY <2>6
    <3> HIDE DEF m
    <3>2. Parsed' = 2 * m
      BY <1>3, <1>4, <2>1, <3>1
    <3> QED BY <2>1, <3>2 DEF Placed, m
  <2>9. ASSUME NEW q \in Phrases PROVE Fits(q)' <=> Fits(q) /\ q.select.names[k + 1] = first.text
    <3>1. Fits(q)' <=> /\ q.select.clause = "fields" /\ n(q) >= k + 1
                       /\ \A i \in 1..(k + 1) : q.select.names[i] = longer[i]
      <4>1. Fits(q)' <=> /\ q.select.clause = "fields" /\ n(q) >= Len(query'.select.names)
                         /\ \A i \in 1..Len(query'.select.names) :
                              q.select.names[i] = query'.select.names[i]
        BY <2>1 DEF Fits, BeforeFrom, AfterSelect, AfterFrom, Filtering, AfterWhere, n
      <4> QED BY <2>5, <2>6, <4>1
    <3>2. Fits(q) <=> /\ q.select.clause = "fields" /\ n(q) >= k /\ n(q) # k
                      /\ \A i \in 1..k : q.select.names[i] = names[i]
      BY <1>5, <2>1
    <3>3. \A i \in 1..(k + 1) : i \in 1..k \/ i = k + 1
      BY <1>3
    <3>4. k + 1 \in 1..(k + 1) /\ \A i \in 1..k : i \in 1..(k + 1)
      BY <1>3
    <3>5. q.select.clause = "fields" => (n(q) >= k + 1 <=> n(q) >= k /\ n(q) # k)
      BY <1>3, <1>6
    <3> QED BY <2>3, <3>1, <3>2, <3>3, <3>4, <3>5
  <2>10. \A q \in Phrases : Fits(q) => (DueToken(q) = first <=> q.select.names[k + 1] = first.text)
    BY <1>8, <2>1, <2>2, TokensDiffer
  <2>11. at' \notin {"rejected", "panic"}
    BY <2>1
  <2> QED BY <1>1, <1>2, <2>1, <2>7, <2>8, <2>9, <2>10, <2>11, Consumes
<1>13. CASE Seen("field") /\ first.type # "Identifier" /\ Reject
  <2>1. \A q \in Phrases : Fits(q) => DueToken(q) # first
    BY <1>8, <1>13, TokensDiffer DEF Seen
  <2> QED BY <1>1, <1>2, <1>13, <2>1, Rejects
<1> QED BY <1>9, <1>10, <1>11, <1>12, <1>13 DEF ParseFields

LEMMA FromParser == ASSUME ParserInv, ParseFrom PROVE ParserInv'
<1>1. "device" \in Coming \ {"tokenize"} /\ Seen("device")
  BY DEF Coming, AfterSelect, BeforeFrom, ParseFrom
<1>2. /\ at = "device" /\ first # unread /\ first \in Tokens
      /\ Parsed \in Nat /\ Len(read) = Parsed + 1
      /\ \A q \in Phrases : Fits(q) => Due(q, DueToken(q))
  BY <1>1, AtToken
<1>3. \A q \in Phrases : Fits(q) => DueToken(q) = String(q.from)
  BY <1>2 DEF Due
<1>4. CASE /\ first.type = "String" /\ query' = [query EXCEPT !.from = first.holds]
           /\ Consume("WHERE?")
  <2>1. at' = "WHERE?" /\ first' = unread /\ read' = read /\ Parsed' = Parsed + 1
    BY <1>2, <1>4, OneMore
  <2>2. first = String(first.holds) /\ first.holds \in Strings
    BY <1>2, <1>4, TokenKinds
  <2>3. query.select \in SelectParts
    BY <1>2 DEF ParserInv, ParserType, AfterSelect, BeforeFrom
  <2>4. /\ query'.select = query.select /\ query'.from = first.holds
        /\ query'.filter = query.filter /\ query'.limit = query.limit
        /\ query' = [select |-> query'.select, from |-> query'.from, filter |-> query'.filter,
                     limit |-> query'.limit]
    BY <1>4 DEF ParserInv, ParserType
  <2>5. ParserType'
    BY <1>2, <2>1, <2>2, <2>3, <2>4 DEF ParserInv, ParserType, BeforeWhere, BeforeFrom, AfterSelect,
      AfterFrom, Filtering, AfterWhere, Unlimited
  <2>6. Placed'
    <3>1. Parsed = Len(SelectText(query.select)) + 3 /\ Len(SelectText(query.select)) \in Nat
      BY <1>2, <2>3, SelectTokens DEF ParserInv, Placed
    <3>2. Parsed' = Len(SelectText(query'.select)) + 4
      BY <2>1, <2>4, <3>1
    <3> QED BY <2>1, <3>2 DEF Placed
  <2>7. \A q \in Phrases : Fits(q)' <=> Fits(q) /\ q.from = first.holds
    BY <1>2, <2>1, <2>4 DEF Fits, BeforeFrom, AfterSelect, AfterFrom, Filtering, AfterWhere
  <2>8. \A q \in Phrases : Fits(q) => (DueToken(q) = first <=> q.from = first.holds)
    BY <1>3, <2>2, TokensDiffer
  <2>9. at' \notin {"rejected", "panic"}
    BY <2>1
  <2> QED BY <1>1, <1>2, <2>1, <2>5, <2>6, <2>7, <2>8, <2>9, Consumes
<1>5. CASE first.type # "String" /\ Reject
  <2>1. \A q \in Phrases : Fits(q) => DueToken(q) # first
    BY <1>3, <1>5, TokensDiffer
  <2> QED BY <1>1, <1>2, <1>5, <2>1, Rejects
<1> QED BY <1>4, <1>5 DEF ParseFrom

\* How long the clauses parsed are.
LEMMA Lengths ==
  ASSUME ParserInv, at \in AfterSelect
  PROVE  /\ Len(SelectText(query.select)) \in Nat /\ Len(FilterText(query.filter)) \in Nat
         /\ Len(LimitText(query.limit)) \in Nat
         /\ at \in BeforeWhere => Len(FilterText(query.filter)) = 0
         /\ query.limit = Absent => Len(LimitText(query.limit)) = 0
<1>1. query.select \in SelectParts /\ query.filter \in FilterParts /\ query.limit \in LimitParts
      /\ (at \in BeforeWhere => query.filter = Absent)
  BY DEF ParserInv, ParserType
<1>2. /\ SelectText(query.select) \in Seq(Tokens) /\ FilterText(query.filter) \in Seq(Tokens)
      /\ LimitText(query.limit) \in Seq(Tokens)
  BY <1>1, SelectTokens, FilterTokens, LimitTokens
<1>3. query.filter = Absent => Len(FilterText(query.filter)) = 0
  BY <1>1, FilterTokens
<1>4. query.limit = Absent => Len(LimitText(query.limit)) = 0
  BY <1>1, LimitTokens
<1> QED BY <1>1, <1>2, <1>3, <1>4

LEMMA WhereParser == ASSUME ParserInv, Optional("WHERE", "WHERE?", "LIMIT?") PROVE ParserInv'
<1>1. "WHERE?" \in Coming \ {"tokenize"} /\ Seen("WHERE?") /\ "WHERE?" \in AfterSelect
      /\ "WHERE?" \in BeforeWhere
  BY DEF Coming, BeforeWhere, AfterSelect, AfterFrom, Optional
<1>2. /\ at = "WHERE?" /\ first # unread /\ first \in Tokens
      /\ Parsed \in Nat /\ Len(read) = Parsed + 1
      /\ \A q \in Phrases : Fits(q) => Due(q, DueToken(q))
  BY <1>1, AtToken
<1>3. Word("WHERE") # Word("LIMIT") /\ Word("WHERE") # End
  BY TokensDiffer
<1>4. \A q \in Phrases : Fits(q) => (DueToken(q) = Word("WHERE") <=> q.filter # Absent)
  BY <1>2, <1>3 DEF Due
<1>5. query' = query /\ query.filter = Absent
  BY <1>1, <1>2 DEF Optional, ParserInv, ParserType
<1>6. /\ Parsed = Len(SelectText(query.select)) + 4
      /\ Len(SelectText(query.select)) \in Nat /\ Len(FilterText(query.filter)) = 0
  BY <1>1, <1>2, Lengths DEF ParserInv, Placed
<1>7. CASE first = Word("WHERE")
  <2>1. at' = "WHERE" /\ first' = unread /\ read' = read /\ Parsed' = Parsed + 1
    BY <1>2, <1>7, OneMore DEF Optional
  <2>2. ParserType'
    BY <1>2, <1>5, <2>1 DEF ParserInv, ParserType, BeforeWhere, BeforeFrom, AfterSelect,
      AfterFrom, Filtering, AfterWhere, Unlimited
  <2>3. Placed'
    <3>1. Parsed' = Len(SelectText(query'.select)) + 5
      BY <1>5, <1>6, <2>1
    <3> QED BY <2>1, <3>1 DEF Placed
  <2>4. \A q \in Phrases : Fits(q)' <=> Fits(q) /\ q.filter # Absent
    BY <1>2, <1>5, <2>1 DEF Fits, BeforeFrom, AfterSelect, AfterFrom, Filtering, AfterWhere
  <2>5. at' \notin {"rejected", "panic"}
    BY <2>1
  <2> QED BY <1>1, <1>2, <1>4, <1>7, <2>1, <2>2, <2>3, <2>4, <2>5, Consumes
<1>8. CASE first # Word("WHERE")
  <2>1. at' = "LIMIT?" /\ first' = first /\ read' = read
    BY <1>8 DEF Optional, Keep, MoveTo
  <2>2. ParserType'
    BY <1>2, <1>5, <2>1 DEF ParserInv, ParserType, BeforeWhere, BeforeFrom, AfterSelect,
      AfterFrom, Filtering, AfterWhere, Unlimited
  <2>3. Placed'
    <3> DEFINE s == Len(SelectText(query'.select))
               f == Len(FilterText(query'.filter))
    <3>1. s \in Nat /\ f = 0 /\ Parsed' = s + 4
      BY <1>5, <1>6, <2>1 DEF Parsed
    <3> HIDE DEF s, f
    <3>2. Parsed' = s + f + 4
      BY <3>1
    <3> QED BY <2>1, <3>2 DEF Placed, s, f
  <2>4. \A q \in Phrases : Fits(q)' <=> Fits(q) /\ q.filter = Absent
    BY <1>2, <1>5, <2>1 DEF Fits, BeforeFrom, AfterSelect, AfterFrom, Filtering, AfterWhere
  <2>5. \A q \in Phrases : Fits(q) /\ DueToken(q) = first => Fits(q)'
    BY <1>4, <1>8, <2>4
  <2> QED BY <1>1, <1>2, <2>1, <2>2, <2>3, <2>4, <2>5, Leaves
<1> QED BY <1>7, <1>8

LEMMA OptionalLimitParser == ASSUME ParserInv, Optional("LIMIT", "LIMIT?", "stop") PROVE ParserInv'
<1>1. "LIMIT?" \in Coming \ {"tokenize"} /\ Seen("LIMIT?") /\ "LIMIT?" \in AfterSelect
      /\ "LIMIT?" \in Unlimited
  BY DEF Coming, AfterSelect, AfterFrom, AfterWhere, Optional, Unlimited
<1>2. /\ at = "LIMIT?" /\ first # unread /\ first \in Tokens
      /\ Parsed \in Nat /\ Len(read) = Parsed + 1
      /\ \A q \in Phrases : Fits(q) => Due(q, DueToken(q))
  BY <1>1, AtToken
<1>3. Word("LIMIT") # End
  BY TokensDiffer
<1>4. \A q \in Phrases : Fits(q) => (DueToken(q) = Word("LIMIT") <=> q.limit # Absent)
  BY <1>2, <1>3 DEF Due
<1>5. query' = query /\ query.limit = Absent
  BY <1>1, <1>2 DEF Optional, ParserInv, ParserType
<1> DEFINE s == Len(SelectText(query.select))
           f == Len(FilterText(query.filter))
           l == Len(LimitText(query.limit))
<1>6. s \in Nat /\ f \in Nat /\ l = 0 /\ Parsed = s + f + 4
  BY <1>1, <1>2, <1>5, Lengths DEF ParserInv, Placed
<1>9. /\ s = Len(SelectText(query'.select)) /\ f = Len(FilterText(query'.filter))
      /\ l = Len(LimitText(query'.limit))
  BY <1>5
<1> HIDE DEF s, f, l
<1>7. CASE first = Word("LIMIT")
  <2>1. at' = "LIMIT" /\ first' = unread /\ read' = read /\ Parsed' = Parsed + 1
    BY <1>2, <1>7, OneMore DEF Optional
  <2>2. ParserType'
    BY <1>2, <1>5, <2>1 DEF ParserInv, ParserType, BeforeWhere, BeforeFrom, AfterSelect,
      AfterFrom, Filtering, AfterWhere, Unlimited
  <2>3. Placed'
    <3>1. Parsed' = s + f + 5
      BY <1>6, <2>1
    <3> QED BY <1>9, <2>1, <3>1 DEF Placed
  <2>4. \A q \in Phrases : Fits(q)' <=> Fits(q) /\ q.limit # Absent
    BY <1>2, <1>5, <2>1 DEF Fits, BeforeFrom, AfterSelect, AfterFrom, Filtering, AfterWhere
  <2>5. at' \notin {"rejected", "panic"}
    BY <2>1
  <2> QED BY <1>1, <1>2, <1>4, <1>7, <2>1, <2>2, <2>3, <2>4, <2>5, Consumes
<1>8. CASE first # Word("LIMIT")
  <2>1. at' = "stop" /\ first' = first /\ read' = read
    BY <1>8 DEF Optional, Keep, MoveTo
  <2>2. ParserType'
    BY <1>2, <1>5, <2>1 DEF ParserInv, ParserType, BeforeWhere, BeforeFrom, AfterSelect,
      AfterFrom, Filtering, AfterWhere, Unlimited
  <2>3. Placed'
    <3>1. Parsed' = Parsed
      BY <2>1 DEF Parsed
    <3>2. Parsed' = s + f + l + 4
      BY <1>6, <3>1
    <3> QED BY <1>9, <2>1, <3>2 DEF Placed
  <2>4. \A q \in Phrases : Fits(q)' <=> Fits(q) /\ q.limit = Absent
    BY <1>2, <1>5, <2>1 DEF Fits, BeforeFrom, AfterSelect, AfterFrom, Filtering, AfterWhere
  <2>5. \A q \in Phrases : Fits(q) /\ DueToken(q) = first => Fits(q)'
    BY <1>4, <1>8, <2>4
  <2> QED BY <1>1, <1>2, <2>1, <2>2, <2>3, <2>4, <2>5, Leaves
<1> QED BY <1>7, <1>8

LEMMA FilterParser == ASSUME ParserInv, ParseFilter PROVE ParserInv'
<1>1. "WHERE" \in Coming \ {"tokenize"} /\ Seen("WHERE") /\ "WHERE" \in AfterSelect
  BY DEF Coming, BeforeWhere, AfterSelect, AfterFrom, ParseFilter
<1>2. /\ at = "WHERE" /\ first # unread /\ first \in Tokens
      /\ Parsed \in Nat /\ Len(read) = Parsed + 1
      /\ \A q \in Phrases : Fits(q) => Due(q, DueToken(q))
  BY <1>1, AtToken
<1>3. \A q \in Phrases : Fits(q) => q.filter # Absent /\ DueToken(q) = Word(q.filter.clause)
  BY <1>2 DEF Due, Fits
<1>4. \A q \in Phrases : q.filter # Absent =>
        /\ q.filter.clause \in {"BETWEEN", "SINCE", "LAST"}
        /\ q.filter = [clause |-> q.filter.clause]
  BY DEF Phrases, FilterParts
<1>5. CASE /\ first \in {Word("BETWEEN"), Word("SINCE"), Word("LAST")}
           /\ query' = [query EXCEPT !.filter = [clause |-> first.text]] /\ Consume(first.text)
  <2> DEFINE part == [clause |-> first.text]
  <2>1. first = Word(first.text) /\ first.text \in {"BETWEEN", "SINCE", "LAST"}
    BY <1>5, TokensDiffer
  <2>2. at' = first.text /\ first' = unread /\ read' = read /\ Parsed' = Parsed + 1
    BY <1>2, <1>5, OneMore
  <2>3. part \in FilterParts /\ part # Absent /\ part.clause = first.text
    BY <2>1 DEF FilterParts, Absent
  <2> HIDE DEF part
  <2>4. /\ query'.select = query.select /\ query'.from = query.from
        /\ query'.filter = part /\ query'.limit = query.limit
        /\ query' = [select |-> query'.select, from |-> query'.from, filter |-> query'.filter,
                     limit |-> query'.limit]
    BY <1>5 DEF ParserInv, ParserType, part
  <2>5. ParserType'
    BY <1>2, <2>1, <2>2, <2>3, <2>4 DEF ParserInv, ParserType, BeforeWhere, BeforeFrom, AfterSelect,
      AfterFrom, Filtering, AfterWhere, Unlimited
  <2>6. Placed'
    <3>1. Parsed = Len(SelectText(query.select)) + 5 /\ Len(SelectText(query.select)) \in Nat
      BY <1>1, <1>2, Lengths DEF ParserInv, Placed
    <3>2. Parsed' = Len(SelectText(query'.select)) + 6
      BY <2>2, <2>4, <3>1
    <3> QED BY <2>1, <2>2, <3>2 DEF Placed
  <2>7. \A q \in Phrases : Fits(q)' <=> Fits(q) /\ q.filter = part
    BY <1>2, <2>1, <2>2, <2>3, <2>4 DEF Fits, BeforeFrom, AfterSelect, AfterFrom, Filtering, AfterWhere
  <2>8. \A q \in Phrases : Fits(q) => (DueToken(q) = first <=> q.filter = part)
    BY <1>3, <1>4, <2>1, <2>3, TokensDiffer DEF part
  <2>9. at' \notin {"rejected", "panic"}
    BY <2>1, <2>2
  <2> QED BY <1>1, <1>2, <2>2, <2>5, <2>6, <2>7, <2>8, <2>9, Consumes
<1>6. CASE first \notin {Word("BETWEEN"), Word("SINCE"), Word("LAST")} /\ Reject
  <2>1. \A q \in Phrases : Fits(q) => DueToken(q) # first
    BY <1>3, <1>4, <1>6
  <2> QED BY <1>1, <1>2, <1>6, <2>1, Rejects
<1> QED BY <1>5, <1>6 DEF ParseFilter

\* A filter's next token is fixed.
LEMMA FilterGoesOn ==
  ASSUME ParserInv, first # unread, first \in Tokens, Parsed \in Nat, Len(read) = Parsed + 1,
         at \in Filtering, NEW state, Consume(state), UNCHANGED query,
         \/ at = "BETWEEN" /\ state = "AND"
         \/ at \in {"end", "SINCE", "LAST"} /\ state = "LIMIT?",
         \A q \in Phrases : Fits(q) => DueToken(q) = first
  PROVE  ParserInv'
<1>1. at' = state /\ first' = unread /\ read' = read /\ Parsed' = Parsed + 1 /\ query' = query
  BY OneMore
<1>2. at \in Coming \ {"tokenize"} /\ at \in AfterSelect /\ at' \notin {"rejected", "panic"}
  BY <1>1 DEF Coming, BeforeWhere, BeforeFrom, AfterSelect, AfterFrom, Filtering
<1>3. ParserType'
  BY <1>1 DEF ParserInv, ParserType, BeforeWhere, BeforeFrom, AfterSelect, AfterFrom, Filtering,
    AfterWhere, Unlimited
<1>4. Placed'
  <2> DEFINE s == Len(SelectText(query.select))
             f == Len(FilterText(query.filter))
  <2>1. s \in Nat /\ f \in Nat
    BY <1>2, Lengths
  <2>2. s = Len(SelectText(query'.select)) /\ f = Len(FilterText(query'.filter))
    BY <1>1
  <2>3. (at = "end" => f = 5) /\ (at \in {"SINCE", "LAST"} => f = 3)
    BY FilterTokens DEF ParserInv, ParserType
  <2>4. (at \in {"BETWEEN", "SINCE", "LAST"} => Parsed = s + 6) /\ (at = "end" => Parsed = s + 8)
    BY DEF ParserInv, Placed
  <2> HIDE DEF s, f
  <2>5. (at' = "AND" => Parsed' = s + 7) /\ (at' = "LIMIT?" => Parsed' = s + f + 4)
    BY <1>1, <2>1, <2>3, <2>4
  <2> QED BY <1>1, <2>2, <2>5 DEF Placed
<1>5. \A q \in Phrases : Fits(q)' <=> Fits(q)
  BY <1>1 DEF Fits, BeforeFrom, AfterSelect, AfterFrom, Filtering, AfterWhere
<1> QED BY <1>1, <1>2, <1>3, <1>4, <1>5, Consumes

LEMMA TimestampParser ==
  ASSUME ParserInv, NEW state, NEW next, ExpectTimestamp(state, next),
         \/ state = "BETWEEN" /\ next = "AND"
         \/ state \in {"end", "SINCE"} /\ next = "LIMIT?"
  PROVE  ParserInv'
<1>1. state \in Coming \ {"tokenize"} /\ state \in Filtering /\ Seen(state)
  BY DEF Coming, AfterSelect, AfterFrom, Filtering, ExpectTimestamp
<1>2. /\ at = state /\ first # unread /\ first \in Tokens
      /\ Parsed \in Nat /\ Len(read) = Parsed + 1
      /\ \A q \in Phrases : Fits(q) => Due(q, DueToken(q))
  BY <1>1, AtToken
<1>3. \A q \in Phrases : Fits(q) => DueToken(q) = String("timestamp")
  BY <1>2 DEF Due
<1>4. CASE first = String("timestamp")
  BY <1>1, <1>2, <1>3, <1>4, FilterGoesOn DEF ExpectTimestamp
<1>5. CASE first # String("timestamp")
  BY <1>1, <1>2, <1>3, <1>5, Rejects DEF ExpectTimestamp
<1> QED BY <1>4, <1>5

LEMMA LastParser == ASSUME ParserInv, ParseLast PROVE ParserInv'
<1>1. "LAST" \in Coming \ {"tokenize"} /\ "LAST" \in Filtering /\ Seen("LAST")
  BY DEF Coming, AfterSelect, AfterFrom, Filtering, ParseLast
<1>2. /\ at = "LAST" /\ first # unread /\ first \in Tokens
      /\ Parsed \in Nat /\ Len(read) = Parsed + 1
      /\ \A q \in Phrases : Fits(q) => Due(q, DueToken(q))
  BY <1>1, AtToken
<1>3. \A q \in Phrases : Fits(q) => DueToken(q) = String("duration")
  BY <1>2 DEF Due
<1>4. CASE first = String("duration") /\ Consume("LIMIT?") /\ UNCHANGED query
  BY <1>1, <1>2, <1>3, <1>4, FilterGoesOn
<1>5. CASE first = String("overflow") /\ Keep("panic") /\ UNCHANGED query
  <2>1. at' = "panic" /\ first' = first /\ read' = read /\ query' = query
    BY <1>5 DEF Keep, MoveTo
  <2>2. ParserType'
    BY <2>1 DEF ParserInv, ParserType, BeforeWhere, BeforeFrom, AfterSelect, AfterFrom, Filtering,
      AfterWhere, Unlimited
  <2>3. Placed'
    BY <2>1 DEF Placed
  <2>4. \A q \in Phrases : Fits(q) => DueToken(q) # first
    BY <1>3, <1>5, TokensDiffer
  <2> QED BY <1>1, <1>2, <2>1, <2>2, <2>3, <2>4, Leaves
<1>6. CASE first \notin {String("duration"), String("overflow")} /\ Reject
  BY <1>1, <1>2, <1>3, <1>6, Rejects
<1> QED BY <1>4, <1>5, <1>6 DEF ParseLast

LEMMA LimitParser == ASSUME ParserInv, ParseLimit PROVE ParserInv'
<1>1. "LIMIT" \in Coming \ {"tokenize"} /\ Seen("LIMIT") /\ "LIMIT" \in AfterSelect
  BY DEF Coming, AfterSelect, AfterFrom, AfterWhere, ParseLimit
<1>2. /\ at = "LIMIT" /\ first # unread /\ first \in Tokens
      /\ Parsed \in Nat /\ Len(read) = Parsed + 1
      /\ \A q \in Phrases : Fits(q) => Due(q, DueToken(q))
  BY <1>1, AtToken
<1>3. \A q \in Phrases : Fits(q) => q.limit # Absent /\ DueToken(q) = Integer(q.limit.value)
  BY <1>2 DEF Due, Fits
<1>4. \A q \in Phrases : q.limit # Absent =>
        /\ q.limit.value \in Numbers /\ q.limit.value # 0
        /\ q.limit = [clause |-> "LIMIT", value |-> q.limit.value]
  BY DEF Phrases, LimitParts
<1>5. CASE /\ first.type = "Integer" /\ Positive
           /\ query' = [query EXCEPT !.limit = [clause |-> "LIMIT", value |-> first.value]]
           /\ Consume("stop")
  <2> DEFINE part == [clause |-> "LIMIT", value |-> first.value]
  <2>1. first = Integer(first.value) /\ first.value \in Numbers
    BY <1>2, <1>5, TokenKinds
  <2>2. at' = "stop" /\ first' = unread /\ read' = read /\ Parsed' = Parsed + 1
    BY <1>2, <1>5, OneMore
  <2>3. part \in LimitParts /\ part # Absent /\ part.value = first.value
    <3>1. first.value # 0
      BY <1>5, <2>1, NumbersAssumption DEF Positive
    <3> QED BY <2>1, <3>1 DEF LimitParts, Absent
  <2> HIDE DEF part
  <2>4. /\ query'.select = query.select /\ query'.from = query.from
        /\ query'.filter = query.filter /\ query'.limit = part
        /\ query' = [select |-> query'.select, from |-> query'.from, filter |-> query'.filter,
                     limit |-> query'.limit]
    BY <1>5 DEF ParserInv, ParserType, part
  <2>5. ParserType'
    BY <1>2, <2>2, <2>3, <2>4 DEF ParserInv, ParserType, BeforeWhere, BeforeFrom, AfterSelect,
      AfterFrom, Filtering, AfterWhere, Unlimited
  <2>6. Placed'
    <3> DEFINE s == Len(SelectText(query.select))
               f == Len(FilterText(query.filter))
               l == Len(LimitText(query'.limit))
    <3>1. s \in Nat /\ f \in Nat /\ Parsed = s + f + 5
      BY <1>1, <1>2, Lengths DEF ParserInv, Placed
    <3>2. l = 2
      BY <2>3, <2>4, LimitTokens
    <3>3. s = Len(SelectText(query'.select)) /\ f = Len(FilterText(query'.filter))
      BY <2>4
    <3> HIDE DEF s, f, l
    <3>4. Parsed' = s + f + l + 4
      BY <2>2, <3>1, <3>2
    <3> QED BY <2>2, <3>3, <3>4 DEF Placed, l
  <2>7. \A q \in Phrases : Fits(q)' <=> Fits(q) /\ q.limit = part
    BY <1>2, <2>2, <2>3, <2>4 DEF Fits, BeforeFrom, AfterSelect, AfterFrom, Filtering, AfterWhere
  <2>8. \A q \in Phrases : Fits(q) => (DueToken(q) = first <=> q.limit = part)
    BY <1>3, <1>4, <2>1, <2>3, TokensDiffer DEF part
  <2>9. at' \notin {"rejected", "panic"}
    BY <2>2
  <2> QED BY <1>1, <1>2, <2>2, <2>5, <2>6, <2>7, <2>8, <2>9, Consumes
<1>6. CASE ~(first.type = "Integer" /\ Positive) /\ Reject
  <2>1. ASSUME NEW q \in Phrases, Fits(q), DueToken(q) = first PROVE FALSE
    <3>1. first = Integer(q.limit.value) /\ q.limit.value \in Numbers /\ q.limit.value # 0
      BY <1>3, <1>4, <2>1
    <3>2. first.type = "Integer" /\ first.value = q.limit.value
      BY <3>1, TokensDiffer
    <3>3. first.value > 0
      BY <3>1, <3>2, NumbersAssumption
    <3> QED BY <1>6, <3>2, <3>3 DEF Positive
  <2> QED BY <1>1, <1>2, <1>6, <2>1, Rejects
<1> QED BY <1>5, <1>6 DEF ParseLimit

LEMMA EndParser == ASSUME ParserInv, ParseEnd PROVE ParserInv'
<1>1. "stop" \in Coming \ {"tokenize"} /\ Seen("stop")
  BY DEF Coming, AfterSelect, AfterFrom, AfterWhere, ParseEnd
<1>2. /\ at = "stop" /\ first # unread /\ first \in Tokens
      /\ Parsed \in Nat /\ Len(read) = Parsed + 1
      /\ \A q \in Phrases : Fits(q) => Due(q, DueToken(q))
  BY <1>1, AtToken
<1>3. \A q \in Phrases : Fits(q) => DueToken(q) = End
  BY <1>2 DEF Due
<1>4. CASE first = End
  <2>1. at' = "accepted" /\ first' = first /\ read' = read /\ query' = query
    BY <1>4 DEF ParseEnd, AllConsumed, Keep, MoveTo
  <2>2. ParserType'
    BY <1>2, <1>4, <2>1 DEF ParserInv, ParserType, BeforeWhere, BeforeFrom, AfterSelect, AfterFrom,
      Filtering, AfterWhere, Unlimited
  <2>3. Placed'
    <3>1. Parsed' = Parsed
      BY <2>1 DEF Parsed
    <3> QED BY <1>2, <2>1, <3>1 DEF ParserInv, Placed
  <2>4. \A q \in Phrases : Fits(q)' <=> Fits(q)
    BY <1>2, <2>1 DEF Fits, BeforeFrom, AfterSelect, AfterFrom, Filtering, AfterWhere
  <2> QED BY <1>1, <1>2, <2>1, <2>2, <2>3, <2>4, Leaves
<1>5. CASE first # End
  <2>1. Reject
    BY <1>5 DEF ParseEnd, AllConsumed, Reject
  <2> QED BY <1>1, <1>2, <1>3, <1>5, <2>1, Rejects
<1> QED BY <1>4, <1>5

LEMMA TokenizeParser == ASSUME ParserInv, Tokenize PROVE ParserInv'
<1>1. /\ at = "tokenize" /\ at' \in {"SELECT", "rejected"}
      /\ first' = first /\ read' = read /\ query' = query /\ first = unread /\ read = <<>>
  BY DEF Tokenize, MoveTo, ParserInv, ParserType
<1>2. ParserType'
  BY <1>1 DEF ParserInv, ParserType, BeforeWhere, BeforeFrom, AfterSelect, AfterFrom,
    Filtering, AfterWhere, Unlimited
<1>3. Parsed' = 0 /\ Len(read) = 0
  BY <1>1 DEF Parsed
<1>4. Placed'
  BY <1>1, <1>3 DEF Placed
<1>5. at' = "SELECT" => \A q \in Phrases : Fits(q)'
  BY <1>1 DEF Fits, BeforeFrom, AfterSelect, AfterFrom, Filtering, AfterWhere
<1>6. Possible'
  BY <1>1, <1>5 DEF Possible
<1>7. ASSUME NEW q \in Phrases PROVE Begun(q, Parsed)'
  <2>1. Len(Text(q)) \in Nat
    <3>1. Text(q) \in Seq(Tokens)
      BY TextTokens DEF Spelled
    <3> QED BY <3>1
  <2>2. 0 <= Len(Text(q)) /\ \A i \in 1..0 : FALSE
    BY <2>1
  <2> QED BY <1>3, <2>2 DEF Begun
<1>8. Certain'
  BY <1>7 DEF Certain
<1> QED BY <1>2, <1>4, <1>6, <1>8 DEF ParserInv

LEMMA InitParser == ParserInit => ParserInv
<1> SUFFICES ASSUME ParserInit PROVE ParserInv
  OBVIOUS
<1>1. /\ at = "tokenize" /\ first = unread /\ read = <<>>
      /\ query = [select |-> Absent, from |-> "", filter |-> Absent, limit |-> Absent]
  BY DEF ParserInit
<1>2. ParserType
  <2>1. Absent \in FilterParts /\ Absent \in LimitParts
    BY DEF FilterParts, LimitParts
  <2> HIDE DEF Absent
  <2>2. query.filter = Absent /\ query.limit = Absent
        /\ query = [select |-> query.select, from |-> query.from, filter |-> query.filter,
                    limit |-> query.limit]
    BY <1>1
  <2>3. read \in Seq(Tokens)
    <3>1. read = <<>>
      BY <1>1
    <3>2. <<>> \in Seq(Tokens)
      OBVIOUS
    <3> QED BY <3>1, <3>2
  <2> QED BY <1>1, <2>1, <2>2, <2>3 DEF ParserType, BeforeWhere, BeforeFrom, AfterSelect, AfterFrom,
            Filtering, AfterWhere, Unlimited
<1>3. Parsed = 0 /\ Len(read) = 0
  BY <1>1 DEF Parsed
<1>4. Placed
  BY <1>1, <1>3 DEF Placed
<1>5. \A q \in Phrases : Fits(q)
  BY <1>1 DEF Fits, BeforeFrom, AfterSelect, AfterFrom, Filtering, AfterWhere
<1>6. ASSUME NEW q \in Phrases PROVE Begun(q, Parsed)
  <2>1. Len(Text(q)) \in Nat
    <3>1. Text(q) \in Seq(Tokens)
      BY TextTokens DEF Spelled
    <3> QED BY <3>1
  <2>2. 0 <= Len(Text(q)) /\ \A i \in 1..0 : FALSE
    BY <2>1
  <2> QED BY <1>3, <2>2 DEF Begun
<1> QED BY <1>2, <1>4, <1>5, <1>6 DEF ParserInv, Possible, Certain

LEMMA StepParser == ParserInv /\ [ParserNext]_parserVars => ParserInv'
<1> SUFFICES ASSUME ParserInv, [ParserNext]_parserVars PROVE ParserInv'
  OBVIOUS
<1>1. CASE UNCHANGED parserVars
  <2>1. at' = at /\ first' = first /\ query' = query /\ read' = read
    BY <1>1 DEF parserVars
  <2>2. Parsed' = Parsed /\ (\A q \in Phrases : Fits(q)' <=> Fits(q))
    BY <2>1 DEF Parsed, Fits
  <2>3. \A n : \A q \in Phrases : Begun(q, n)' <=> Begun(q, n)
    BY <2>1 DEF Begun
  <2>4. ParserType' /\ Placed'
    BY <2>1, <2>2 DEF ParserInv, ParserType, Placed
  <2>5. Possible' /\ Certain'
    BY <2>1, <2>2, <2>3 DEF ParserInv, Possible, Certain
  <2> QED BY <2>4, <2>5 DEF ParserInv
<1>2. CASE Tokenize \/ Look
  BY <1>2, TokenizeParser, LookParser
<1>3. ASSUME NEW keyword \in DOMAIN After, ExpectKeyword(keyword) PROVE ParserInv'
  BY <1>3, KeywordParser
<1>4. CASE ParseSelect \/ ParseFields \/ ParseFrom
  BY <1>4, SelectParser, FieldsParser, FromParser
<1>5. CASE Optional("WHERE", "WHERE?", "LIMIT?") \/ Optional("LIMIT", "LIMIT?", "stop")
  BY <1>5, WhereParser, OptionalLimitParser
<1>6. CASE ParseFilter \/ ParseLast \/ ParseLimit \/ ParseEnd
  BY <1>6, FilterParser, LastParser, LimitParser, EndParser
<1>7. CASE \/ ExpectTimestamp("BETWEEN", "AND") \/ ExpectTimestamp("end", "LIMIT?")
           \/ ExpectTimestamp("SINCE", "LIMIT?")
  BY <1>7, TimestampParser
<1> QED BY <1>1, <1>2, <1>3, <1>4, <1>5, <1>6, <1>7 DEF ParserNext

LEMMA GrammarOf == ParserInv => ParsesTheGrammar
<1> SUFFICES ASSUME ParserInv PROVE ParsesTheGrammar
  OBVIOUS
<1>1. ASSUME at = "accepted" PROVE read = Text(query)
  <2>1. query \in Phrases
    BY <1>1 DEF ParserInv, ParserType, AfterSelect, AfterFrom, AfterWhere, Phrases
  <2>2. Fits(query)
    <3>1. at \notin {"rejected", "panic", "fields", "field", "WHERE", "LIMIT"}
      BY <1>1
    <3> QED BY <3>1 DEF Fits
  <2>3. Begun(query, Parsed)
    BY <1>1, <2>1, <2>2 DEF ParserInv, Certain
  <2>4. first = End /\ first # unread /\ read \in Seq(Tokens)
    BY <1>1, TokensDiffer DEF ParserInv, ParserType
  <2>5. DueToken(query) = End /\ Parsed + 1 \in 1..Len(Text(query))
    <3>1. at \in Coming \ {"tokenize"}
      BY <1>1 DEF Coming, AfterSelect, AfterFrom, AfterWhere
    <3>2. Parsed + 1 \in 1..Len(Text(query)) /\ Due(query, DueToken(query))
      BY <2>1, <2>2, <3>1, DueIs DEF ParserInv
    <3> QED BY <1>1, <3>2 DEF Due
  <2>6. Begun(query, Len(read)) /\ Len(read) = Parsed + 1
    <3>1. Parsed \in Nat /\ Len(read) = Parsed + 1 /\ Len(Text(query)) \in Nat
      <4>1. Text(query) \in Seq(Tokens)
        BY <2>1, TextTokens DEF Spelled
      <4> QED BY <2>1, <2>4, <4>1, NextIs
    <3> QED BY <2>1, <2>3, <2>4, <2>5, <3>1, NextIs
  <2>7. Text(query) \in Seq(Tokens) /\ Len(Text(query)) = Parsed + 1
    <3> DEFINE s == Len(SelectText(query.select))
               f == Len(FilterText(query.filter))
               l == Len(LimitText(query.limit))
    <3>1. Spelled(query, s, f, l)
      BY <2>1, TextTokens
    <3>2. Parsed = s + f + l + 4
      BY <1>1 DEF ParserInv, Placed
    <3> HIDE DEF s, f, l
    <3>3. s \in Nat /\ f \in Nat /\ l \in Nat /\ Len(Text(query)) = s + f + l + 5
          /\ Text(query) \in Seq(Tokens)
      BY <3>1 DEF Spelled
    <3> QED BY <3>2, <3>3
  <2> HIDE DEF Text
  <2>8. Len(read) = Len(Text(query)) /\ \A i \in 1..Len(read) : read[i] = Text(query)[i]
    BY <2>6, <2>7 DEF Begun
  <2> QED BY <2>4, <2>7, <2>8, SeqEqual
<1>2. ASSUME at = "rejected", read # <<>>, read \in Beginnings PROVE FALSE
  <2>9. PICK q \in Queries : \E n \in 1..Len(Text(q)) : read = SubSeq(Text(q), 1, n)
    BY <1>2 DEF Beginnings, Sentences
  <2>1. PICK n \in 1..Len(Text(q)) : read = SubSeq(Text(q), 1, n)
    BY <2>9
  <2>2. q \in Phrases
    BY GrammarPhrases
  <2>3. Text(q) \in Seq(Tokens)
    BY <2>2, TextTokens DEF Spelled
  <2> DEFINE t == Text(q)
  <2>4. t \in Seq(Tokens) /\ n \in 1..Len(t) /\ read = SubSeq(t, 1, n)
    BY <2>1, <2>3
  <2> HIDE DEF t
  <2>5. n \in Nat /\ n <= Len(t) /\ Len(read) = n /\ \A i \in 1..n : read[i] = t[i]
    BY <2>4
  <2>6. Begun(q, Len(read))
    BY <2>5 DEF Begun, t
  <2>7. ~Fits(q)
    BY <1>2 DEF Fits
  <2> QED BY <1>2, <2>2, <2>6, <2>7 DEF ParserInv, Possible
<1> QED BY <1>1, <1>2 DEF ParsesTheGrammar

\* The parser accepts exactly the language of Queries, which is the grammar of its comment with the
\* fourth kind "status", for any names, numbers and bound on the number of fields: what it accepts
\* is the text of the query it returns (its last string perhaps not closed), and where it stops
\* with an error no query begins like that.
THEOREM GrammarParsed == ParserSpec => []ParsesTheGrammar
  BY InitParser, StepParser, GrammarOf, PTL DEF ParserSpec

----------------------------------------------------------------------------
(* All of them                                                             *)

\* The types of memtable, tables, log and queries, as the sum of the parts takes its steps.
THEOREM PartsTypes == PartsSpec => []PartsTypeOK
<1> DEFINE Inv == WalInv /\ TableInv /\ CountInv /\ QueryInv
           all == <<side, vars, tableVars, memtableVars, parserVars, queryVars>>
<1>1. PartsInit => Inv
  BY InitWal, InitTable, InitCount, InitQuery DEF PartsInit
<1>2. Inv /\ [PartsNext]_all => Inv'
  <2> SUFFICES ASSUME Inv, [PartsNext]_all PROVE Inv'
    OBVIOUS
  <2>1. [Next]_vars /\ [TableNext]_tableVars /\ [MemtableNext]_memtableVars /\ [QueryNext]_queryVars
    BY DEF PartsNext
  <2> QED BY <2>1, StepWal, StepTable, StepCount, StepQuery
<1>3. Inv => PartsTypeOK
  BY WalTyped, QueryTyped DEF TableInv, CountInv, PartsTypeOK
<1> QED BY <1>1, <1>2, <1>3, PTL DEF PartsSpec
=============================================================================
