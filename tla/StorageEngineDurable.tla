------------------------ MODULE StorageEngineDurable ------------------------
(***************************************************************************)
(* Durable holds of every behaviour of StorageEngine: a frame whose write  *)
(* was acknowledged is in the log or in a table at every moment, whatever  *)
(* flushes, compactions, deletions, retention checks and crashes do.       *)
(*                                                                         *)
(* A table is only removed by a task that has seen its frames into a table *)
(* with a higher id (the merged table of a compaction, the rewritten       *)
(* tables of a deletion).  Several tasks may be removing tables at a time, *)
(* and one may be about to remove the table another relies on; because the *)
(* ids grow, following the tables from one to the next comes to an end, at *)
(* a table nobody removes.  Covered says so: for each table about to go    *)
(* there is another with the key and a higher id, or else the frame is     *)
(* still in the log and the memtable.                                      *)
(***************************************************************************)
EXTENDS StorageEngineFiles

USE DEF At, Goto, SetLocals, Leave, Fail, Panic, Succeed, Serving, Ids, IdAfter

\* The frames of the writes that are past the memtable's insert.
Past(at) == at \notin {"idle", "dead", "append", "insert"}
Inserted(f) == f \in acked \/ \E w \in Writers : Past(pc[w]) /\ op[w].arg = f
\* Those that are not among Durable's exceptions.
Safe ==
  {f \in Frames : /\ Inserted(f) /\ f \notin racy /\ f \notin doomed
                  /\ KeyOf[f] \notin Keys(swept)}

\* A table above v has the key.
Above(k, v) == \E j \in Ids : j > v /\ k \in Keys(files[j])
\* v is a table with the key that a task is about to remove; 0 stands for no table.
Held(k, v) ==
  v = 0 \/ \E u \in Tasks : pc[u] \in Leaving /\ v \in Elems(op[u].victims) /\ k \in Keys(files[v])
\* What covers f: a table above each one about to go that lies at n or above.
Covered(f, n) ==
  \A v \in 0..MaxId : Held(KeyOf[f], v) => Above(KeyOf[f], v) \/ v < n

\* A crash would find f in the log, and what serves now still has it to flush.
InLog(f) == f \in walLog /\ (scan = 0 => f \in memtable)
Reach(f) == IF InLog(f) THEN MaxId + 1 ELSE 0
\* A flush that copies f will cover it by a table as high as its own.
CopyReach(t, f) == IF f \in op[t].must THEN op[t].id ELSE 0
\* The points of a flush at which memtable and log may go.
Clearing == {"clear", "check", "unlink"}
Covers ==
  /\ \A f \in Safe : Covered(f, Reach(f))
  /\ \A t \in Tasks : \A f \in Safe :
       /\ pc[t] = "copy" => Covered(f, CopyReach(t, f))
       /\ pc[t] \in Clearing => Covered(f, 0)

Deleting == {"list", "open", "rewrite", "replace", "erase", "unregister"}
\* The tables a deletion has rewritten have their other devices' frames in the new ones.
Rewritten(t) ==
  /\ pc[t] = "open" => op[t].fresh = <<>>
  /\ pc[t] = "replace" => op[t].size = Len(op[t].victims)
  /\ \A v \in Elems(op[t].victims) : \A x \in Elems(op[t].fresh) : v < x
  /\ \A p \in 1..op[t].size : \A g \in files[op[t].victims[p]] :
       DevOf[g] = op[t].arg \/ \E x \in Elems(op[t].fresh) : g \in files[x]
\* The merged table has the keys of its batch.
Merged(t) ==
  /\ pc[t] = "merging" => \A v \in Elems(op[t].victims) :
                            v < op[t].id /\ Keys(files[v]) \subseteq Keys(op[t].must)
  /\ pc[t] = "install" => \A v \in Elems(op[t].victims) :
                            v < op[t].id /\ Keys(files[v]) \subseteq Keys(files[op[t].id])
\* What a task relies on between its steps.
Knows(t) ==
  /\ pc[t] = "insert" /\ op[t].arg \notin racy => ~FlushRunning /\ op[t].arg \in walLog
  /\ t \in Writers /\ pc[t] \notin {"idle", "dead"} => op[t].arg \in issued
  /\ pc[t] \in Deleting =>
       t \in Deleters /\ \A f \in issued : DevOf[f] = op[t].arg => f \in doomed
  /\ pc[t] \in {"copy", "merging"} => files[op[t].id] = {}
  /\ Merged(t)
  /\ pc[t] \in Rewriting => Rewritten(t)
  /\ pc[t] = "remove" => files[op[t].id] \subseteq swept
DurableInv == Covers /\ acked \subseteq issued /\ \A t \in Tasks : Knows(t)

----------------------------------------------------------------------------
(* What one step keeps                                                     *)

\* What held stays held but for the victims a task now takes up, each of which a table
\* above covers; and only e loses a key, a table about to go.  Then what was covered is.
LEMMA CoverKept ==
  ASSUME NEW f, NEW n \in Nat, NEW e \in Nat, MaxId \in Nat, Covered(f, n),
         \A v \in 0..MaxId : Held(KeyOf[f], v)' => Held(KeyOf[f], v) \/ Above(KeyOf[f], v)',
         \A j \in Ids : /\ j # e /\ KeyOf[f] \in Keys(files[j]) => KeyOf[f] \in Keys(files'[j])
                        /\ j = e /\ KeyOf[f] \in Keys(files[j]) => Held(KeyOf[f], j)
  PROVE  Covered(f, n)'
<1> DEFINE k == KeyOf[f]
<1>1. SUFFICES ASSUME NEW v \in 0..MaxId, Held(k, v)', ~Above(k, v)' PROVE v < n
  BY DEF Covered
<1>2. Held(k, v)
  BY <1>1
<1>3. CASE Above(k, v)
  <2>1. PICK j \in Ids : j > v /\ k \in Keys(files[j])
    BY <1>3 DEF Above
  <2>2. j = e /\ Held(k, j)
    BY <1>1, <2>1 DEF Above
  <2>3. Above(k, j) \/ j < n
    BY <2>1, <2>2 DEF Covered
  <2>4. ~Above(k, j)
    <3> SUFFICES ASSUME NEW i \in Ids, i > j, k \in Keys(files[i]) PROVE FALSE
      BY DEF Above
    <3>1. i # e /\ i > v
      BY <2>1, <2>2
    <3> QED BY <1>1, <3>1 DEF Above
  <2> QED BY <2>1, <2>3, <2>4
<1> QED BY <1>1, <1>2, <1>3 DEF Covered

\* What covers a frame covers it up to any higher number.
LEMMA CoverMore ==
  ASSUME NEW f, NEW n \in Nat, NEW m \in Nat, n <= m, Covered(f, n), MaxId \in Nat
  PROVE  Covered(f, m)
  BY DEF Covered

\* The numbers of Covers.
LEMMA Reaches ==
  ASSUME IdInv, NEW f
  PROVE  /\ MaxId \in Nat /\ Reach(f) \in Nat /\ Covered(f, MaxId + 1)
         /\ \A t \in Tasks : CopyReach(t, f) \in Nat
  BY Here, Typed DEF Reach, CopyReach, Covered

\* A step of t keeps Covers if it keeps what is covered covered; what leaves log or
\* memtable was covered without them; what other flushes have to copy stays; and t sees
\* to what it copies itself, and to the tables when memtable and log go.
LEMMA CoverStep ==
  ASSUME IdInv, Covers, NEW t \in Tasks,
         \A u \in Tasks \ {t} : Untouched(u), IdInv',
         \A f \in Safe' : f \in Safe \/ (InLog(f)' /\ ~FlushRunning'),
         \A f \in Safe : f \in Safe' =>
           /\ \A n \in Nat : Covered(f, n) => Covered(f, n)'
           /\ InLog(f) => InLog(f)' \/ Covered(f, 0)
           /\ \A u \in Tasks \ {t} : pc[u] = "copy" /\ f \in op[u].must => f \in op'[u].must
           /\ pc'[t] = "copy" => Covered(f, CopyReach(t, f))'
           /\ pc'[t] \in Clearing => Covered(f, 0)'
  PROVE  Covers'
<1>1. ASSUME NEW f \in Safe', f \notin Safe PROVE Covered(f, Reach(f))' /\ ~FlushRunning'
  <2>1. InLog(f)' /\ ~FlushRunning'
    BY <1>1
  <2>2. Reach(f)' = MaxId + 1 /\ MaxId \in Nat
    BY <2>1, Typed DEF Reach
  <2> QED BY <2>1, <2>2 DEF Covered
<1>2. ~FlushRunning' => \A u \in Tasks : pc'[u] # "copy" /\ pc'[u] \notin Clearing
  BY DEF FlushRunning, InWindow, Clearing
<1>3. ASSUME NEW f \in Safe', f \in Safe
      PROVE  /\ Covered(f, Reach(f))'
             /\ \A u \in Tasks : /\ pc'[u] = "copy" => Covered(f, CopyReach(u, f))'
                                 /\ pc'[u] \in Clearing => Covered(f, 0)'
  <2>1. /\ MaxId \in Nat /\ Reach(f) \in Nat /\ \A u \in Tasks : CopyReach(u, f) \in Nat
    BY Reaches
  <2>2. Covered(f, 0) => Covered(f, 0)'
    BY <1>3
  <2>3. Covered(f, Reach(f))'
    <3>1. CASE InLog(f)'
      <4>1. Reach(f)' = MaxId + 1
        BY <3>1 DEF Reach
      <4> QED BY <2>1, <4>1 DEF Covered
    <3>2. CASE ~InLog(f)'
      <4>1. Reach(f)' = 0
        BY <3>2 DEF Reach
      <4>2. Covered(f, 0)
        <5>1. InLog(f) => Covered(f, 0)
          BY <1>3, <3>2
        <5>2. ~InLog(f) => Reach(f) = 0
          BY DEF Reach
        <5> QED BY <1>3, <5>1, <5>2 DEF Covers
      <4> QED BY <2>2, <4>1, <4>2
    <3> QED BY <3>1, <3>2
  <2>4. ASSUME NEW u \in Tasks
        PROVE  /\ pc'[u] = "copy" => Covered(f, CopyReach(u, f))'
               /\ pc'[u] \in Clearing => Covered(f, 0)'
    <3>1. CASE u = t
      BY <1>3, <3>1
    <3>2. CASE u # t
      <4>1. pc'[u] = pc[u] /\ op'[u].id = op[u].id
        BY <3>2 DEF Untouched, Same
      <4>2. pc'[u] \in Clearing => Covered(f, 0)'
        BY <1>3, <2>2, <4>1 DEF Covers
      <4>3. ASSUME pc[u] = "copy" PROVE Covered(f, CopyReach(u, f))'
        <5>1. Covered(f, CopyReach(u, f)) /\ CopyReach(u, f) \in Nat
          BY <1>3, <2>1, <4>3 DEF Covers
        <5> DEFINE n == CopyReach(u, f)
        <5>2. n \in Nat /\ Covered(f, n)
          BY <5>1
        <5>3. n <= CopyReach(u, f)' /\ CopyReach(u, f)' \in Nat
          <6>1. f \in op[u].must => f \in op'[u].must
            BY <1>3, <3>2, <4>3
          <6>2. op[u].id \in Nat
            BY Here
          <6> QED BY <4>1, <6>1, <6>2 DEF CopyReach
        <5> HIDE DEF n
        <5>4. \A m \in Nat : Covered(f, m) => Covered(f, m)'
          BY <1>3
        <5>5. \A v \in 0..MaxId : Held(KeyOf[f], v)' => Above(KeyOf[f], v)' \/ v < n
          BY <5>2, <5>4 DEF n, Covered
        <5> QED BY <2>1, <5>2, <5>3, <5>5 DEF Covered
      <4> QED BY <4>1, <4>2, <4>3
    <3> QED BY <3>1, <3>2
  <2> QED BY <2>3, <2>4
<1>4. \A f \in Safe' : Covered(f, Reach(f))'
  BY <1>1, <1>3
<1>5. \A u \in Tasks : \A f \in Safe' : /\ pc'[u] = "copy" => Covered(f, CopyReach(u, f))'
                                        /\ pc'[u] \in Clearing => Covered(f, 0)'
  BY <1>1, <1>2, <1>3
<1> QED BY <1>4, <1>5 DEF Covers

\* The tables another task writes stay as they are, and those it has found in the list
\* lose frames at most.
LEMMA OthersFiles ==
  ASSUME IdInv, ListInv, NEW t \in Tasks, NEW u \in Tasks, u # t, Writes(t),
         \A i \in Ids : \/ files'[i] = files[i] \/ files'[i] = {}
                        \/ i \in NewOf(t) \/ nextId <= i
  PROVE  /\ \A i \in NewOf(u) : i \in Ids /\ files'[i] = files[i]
         /\ \A i \in OldOf(u) : i \in Ids /\ files'[i] \subseteq files[i]
<1>1. /\ \A i \in NewOf(u) \union OldOf(u) : i \in Ids /\ i < nextId
      /\ \A i \in NewOf(u) : i \notin OldOf(t) /\ i \notin NewOf(t)
      /\ \A i \in OldOf(u) : i \notin NewOf(t)
  BY IdsAreNat DEF ListInv, IdsApart
<1>2. \A i \in Ids : i < nextId => ~(nextId <= i)
  BY Typed
<1>3. \A i \in NewOf(u) : files'[i] = files[i]
  BY <1>1, <1>2 DEF Writes
<1>4. \A i \in OldOf(u) : files'[i] \subseteq files[i]
  BY <1>1, <1>2
<1> QED BY <1>1, <1>3, <1>4

\* What the other tasks know stays true.
LEMMA KnowsStep ==
  ASSUME IdInv, ListInv, DurableInv, NEW t \in Tasks,
         \A u \in Tasks \ {t} : Untouched(u), Writes(t),
         \A i \in Ids : \/ files'[i] = files[i] \/ files'[i] = {}
                        \/ i \in NewOf(t) \/ nextId <= i,
         racy \subseteq racy', doomed \subseteq doomed', swept \subseteq swept',
         issued \subseteq issued',
         \A f \in issued' : \/ f \in issued
                            \/ \A u \in Deleters : pc[u] # "idle" /\ op[u].arg = DevOf[f]
                                                     => f \in doomed',
         \A u \in Tasks \ {t} : pc[u] = "insert" /\ op[u].arg \notin racy'
                                  => ~FlushRunning' /\ op[u].arg \in walLog',
         Knows(t)'
  PROVE  \A u \in Tasks : Knows(u)'
<1> SUFFICES ASSUME NEW u \in Tasks, u # t PROVE Knows(u)'
  OBVIOUS
<1>1. /\ \A i \in NewOf(u) : i \in Ids /\ files'[i] = files[i]
      /\ \A i \in OldOf(u) : i \in Ids /\ files'[i] \subseteq files[i]
  BY OthersFiles
<1>2. /\ pc'[u] = pc[u] /\ op'[u].arg = op[u].arg /\ op'[u].id = op[u].id
      /\ op'[u].victims = op[u].victims /\ op'[u].fresh = op[u].fresh
      /\ op'[u].size = op[u].size /\ (pc[u] # "copy" => op'[u].must = op[u].must)
  BY DEF Untouched, Same
<1>3. Knows(u)
  BY DEF DurableInv
<1>4. /\ pc[u] \in {"copy", "merging", "install"} => op[u].id \in NewOf(u)
      /\ pc[u] \in Rewriting => \A i \in Elems(op[u].fresh) : i \in NewOf(u)
      /\ pc[u] \in {"merging", "install"} \union Rewriting =>
           \A i \in Elems(op[u].victims) : i \in OldOf(u)
      /\ pc[u] = "remove" => op[u].id \in OldOf(u)
  BY DEF NewOf, OldOf, New, Old, Batching
<1>5. pc[u] \in {"copy", "merging"} => files'[op[u].id] = {}
  BY <1>1, <1>3, <1>4 DEF Knows
<1>6. Merged(u)'
  <2>1. Merged(u)
    BY <1>3 DEF Knows
  <2>2. pc[u] \in {"merging", "install"} =>
          \A v \in Elems(op[u].victims) : Keys(files'[v]) \subseteq Keys(files[v])
    BY <1>1, <1>4 DEF Keys
  <2>3. pc[u] = "install" => files'[op[u].id] = files[op[u].id]
    BY <1>1, <1>4
  <2> QED BY <1>2, <2>1, <2>2, <2>3 DEF Merged
<1>7. pc[u] \in Rewriting => Rewritten(u)'
  <2> SUFFICES ASSUME pc[u] \in Rewriting PROVE Rewritten(u)'
    OBVIOUS
  <2>1. Rewritten(u)
    BY <1>3 DEF Knows
  <2>2. op[u].victims \in Seq(Ids) /\ op[u].size \in Nat /\ op[u].size <= Len(op[u].victims)
    <3>1. op[u].victims \in Seq(Ids) /\ op[u].size \in Nat
      BY Here DEF Locals
    <3>2. Len(op[u].victims) \in Nat
      BY <3>1
    <3>3. \/ op[u].size = 0 \/ op[u].size < Len(op[u].victims)
          \/ op[u].size = Len(op[u].victims)
      BY <2>1, Here DEF Rewriting, Fits, Rewritten
    <3> QED BY <3>1, <3>2, <3>3
  <2>3. \A p \in 1..op[u].size : op[u].victims[p] \in Elems(op[u].victims)
    BY <2>2 DEF Elems
  <2>4. \A p \in 1..op[u].size : files'[op[u].victims[p]] \subseteq files[op[u].victims[p]]
    BY <1>1, <1>4, <2>3
  <2>5. \A x \in Elems(op[u].fresh) : files'[x] = files[x]
    BY <1>1, <1>4
  <2> QED BY <1>2, <2>1, <2>4, <2>5 DEF Rewritten
<1>8. pc[u] = "remove" => files'[op[u].id] \subseteq swept'
  BY <1>1, <1>3, <1>4 DEF Knows
<1>9. pc[u] \in Deleting =>
        u \in Deleters /\ \A f \in issued' : DevOf[f] = op[u].arg => f \in doomed'
  BY <1>3 DEF Knows, Deleting
<1>10. u \in Writers /\ pc[u] \notin {"idle", "dead"} => op[u].arg \in issued'
  BY <1>3 DEF Knows
<1> QED BY <1>2, <1>5, <1>6, <1>7, <1>8, <1>9, <1>10 DEF Knows

\* A task at a point where it relies on nothing but its frame being under way.
Plain(at) == at \notin {"insert", "copy", "merging", "install", "remove"} \union Deleting
LEMMA PlainKnows ==
  ASSUME NEW t \in Tasks, Plain(pc'[t]),
         t \in Writers /\ pc'[t] \notin {"idle", "dead"} => op'[t].arg \in issued'
  PROVE  Knows(t)'
  BY DEF Plain, Knows, Merged, Deleting, Rewriting

\* Nobody's write is past its insert who was not, and nothing else is acknowledged.
LEMMA SafeShrinks ==
  ASSUME NEW t \in Tasks, \A u \in Tasks \ {t} : Untouched(u),
         \A f \in acked' : f \in acked \/ (t \in Writers /\ Past(pc[t]) /\ f = op[t].arg),
         t \in Writers /\ Past(pc'[t]) => Past(pc[t]) /\ op'[t].arg = op[t].arg,
         racy \subseteq racy', doomed \subseteq doomed', swept \subseteq swept'
  PROVE  \A f \in Safe' : f \in Safe
<1> SUFFICES ASSUME NEW f \in Safe' PROVE f \in Safe
  OBVIOUS
<1>1. /\ f \in Frames /\ f \notin racy /\ f \notin doomed /\ KeyOf[f] \notin Keys(swept)
      /\ Inserted(f)'
  BY DEF Safe, Keys
<1>2. Inserted(f)
  <2>1. CASE f \in acked'
    BY <2>1 DEF Inserted
  <2>2. ASSUME NEW w \in Writers, Past(pc'[w]), op'[w].arg = f PROVE Inserted(f)
    <3>1. CASE w = t
      BY <2>2, <3>1 DEF Inserted
    <3>2. CASE w # t
      <4>1. pc'[w] = pc[w] /\ op'[w].arg = op[w].arg
        BY <3>2 DEF Untouched, Same, Tasks
      <4> QED BY <2>2, <4>1 DEF Inserted
    <3> QED BY <3>1, <3>2
  <2> QED BY <1>1, <2>1, <2>2 DEF Inserted
<1> QED BY <1>1, <1>2 DEF Safe

\* What is held after a step was held before, or is a victim that t now takes up.
LEMMA HeldStep ==
  ASSUME IdInv, ListInv, NEW t \in Tasks, \A u \in Tasks \ {t} : Untouched(u), Writes(t),
         \A i \in Ids : \/ files'[i] = files[i] \/ files'[i] = {}
                        \/ i \in NewOf(t) \/ nextId <= i,
         NEW k, NEW v, Held(k, v)'
  PROVE  \/ Held(k, v)
         \/ pc'[t] \in Leaving /\ v \in Elems(op'[t].victims) /\ k \in Keys(files'[v])
<1>1. ASSUME NEW u \in Tasks, u # t,
             pc'[u] \in Leaving /\ v \in Elems(op'[u].victims) /\ k \in Keys(files'[v])
      PROVE  Held(k, v)
  <2>1. pc[u] \in Leaving /\ v \in Elems(op[u].victims)
    BY <1>1 DEF Untouched, Same
  <2>2. v \in OldOf(u)
    BY <2>1 DEF OldOf, Old
  <2>3. files'[v] \subseteq files[v]
    BY <1>1, <2>2, OthersFiles
  <2>4. k \in Keys(files[v])
    BY <1>1, <2>3 DEF Keys
  <2> QED BY <2>1, <2>4 DEF Held
<1> QED BY <1>1 DEF Held

\* Only t's move decides whether a flush is in its window.
LEMMA WindowStep ==
  ASSUME NEW t \in Tasks, \A u \in Tasks \ {t} : Untouched(u),
         InWindow(t)' => InWindow(t), FlushRunning'
  PROVE  FlushRunning
  BY DEF FlushRunning, InWindow, Untouched

\* A step that changes no file and no frame's place.
LEMMA StillStep ==
  ASSUME IdInv, ListInv, DurableInv, IdInv', NEW t \in Tasks,
         \A u \in Tasks \ {t} : Untouched(u), files' = files,
         \A f \in Safe : f \in Safe' =>
           /\ InLog(f) => InLog(f)'
           /\ \A u \in Tasks \ {t} : pc[u] = "copy" /\ f \in op[u].must => f \in op'[u].must,
         racy \subseteq racy', doomed \subseteq doomed', swept \subseteq swept',
         issued \subseteq issued',
         \A f \in issued' : \/ f \in issued
                            \/ \A u \in Deleters : pc[u] # "idle" /\ op[u].arg = DevOf[f]
                                                     => f \in doomed',
         \A f \in acked' : f \in acked \/ (t \in Writers /\ Past(pc[t]) /\ f = op[t].arg),
         t \in Writers /\ Past(pc'[t]) => Past(pc[t]) /\ op'[t].arg = op[t].arg,
         walLog \subseteq walLog', InWindow(t)' => InWindow(t),
         pc'[t] \notin Leaving, pc'[t] # "copy", pc'[t] \in Clearing => pc[t] \in Clearing,
         Knows(t)'
  PROVE  DurableInv'
<1>1. Writes(t) /\ \A i \in Ids : files'[i] = files[i]
  BY DEF Writes
<1>2. \A f \in Safe' : f \in Safe
  BY SafeShrinks
<1>3. ASSUME NEW f \in Safe, NEW n \in Nat, Covered(f, n) PROVE Covered(f, n)'
  <2>1. \A v \in 0..MaxId : Held(KeyOf[f], v)' => Held(KeyOf[f], v)
    BY <1>1, HeldStep
  <2>2. \A v \in 0..MaxId : Above(KeyOf[f], v) => Above(KeyOf[f], v)'
    BY DEF Above
  <2> QED BY <1>3, <2>1, <2>2 DEF Covered
<1>4. pc'[t] \in Clearing => \A f \in Safe : Covered(f, 0)
  BY DEF DurableInv, Covers
<1>5. Covers'
  <2>1. Covers
    BY DEF DurableInv
  <2>2. \A f \in Safe : \A n \in Nat : Covered(f, n) => Covered(f, n)'
    BY <1>3
  <2>3. pc'[t] \in Clearing => \A f \in Safe : Covered(f, 0)'
    BY <1>3, <1>4
  <2> QED BY <1>2, <2>1, <2>2, <2>3, CoverStep
<1>6. \A u \in Tasks \ {t} : pc[u] = "insert" /\ op[u].arg \notin racy'
                               => ~FlushRunning' /\ op[u].arg \in walLog'
  BY WindowStep DEF DurableInv, Knows
<1>7. \A u \in Tasks : Knows(u)'
  BY <1>1, <1>6, KnowsStep
<1>8. acked' \subseteq issued'
  <2>1. t \in Writers /\ Past(pc[t]) => op[t].arg \in issued
    BY DEF DurableInv, Knows, Past
  <2> QED BY <2>1 DEF DurableInv
<1> QED BY <1>5, <1>7, <1>8 DEF DurableInv

\* StillStep for a task that moves to a plain point.
LEMMA StillMove ==
  ASSUME IdInv, ListInv, DurableInv, IdInv', NEW t \in Tasks, NEW at, NEW r,
         pc' = [pc EXCEPT ![t] = at], op' = [op EXCEPT ![t] = r],
         files' = files, walLog' = walLog, memtable' = memtable, scan' = scan,
         issued' = issued, racy' = racy, doomed' = doomed, swept' = swept,
         \A f \in acked' : f \in acked \/ (t \in Writers /\ Past(pc[t]) /\ f = op[t].arg),
         Plain(at), at # "purge", at \in Clearing => pc[t] \in Clearing,
         at \in {"reopen", "swap"} => InWindow(t),
         t \in Writers /\ at \notin {"idle", "dead"} => r.arg = op[t].arg /\ Past(pc[t])
  PROVE  DurableInv'
<1>1. pc'[t] = at /\ op'[t] = r /\ \A u \in Tasks \ {t} : Untouched(u)
  BY OneMoves
<1>2. Knows(t)'
  <2>1. Knows(t)
    BY DEF DurableInv
  <2>2. t \in Writers /\ at \notin {"idle", "dead"} => op'[t].arg \in issued'
    BY <1>1, <2>1 DEF Knows, Past
  <2> QED BY <1>1, <2>2, PlainKnows
<1>3. at \notin Leaving /\ at # "copy"
  BY DEF Plain, Leaving, Deleting
<1>4. InWindow(t)' => InWindow(t)
  BY <1>1, <1>3 DEF InWindow, Clearing
<1>5. t \in Writers /\ Past(at) => Past(pc[t]) /\ op'[t].arg = op[t].arg
  BY <1>1 DEF Past
<1>6. \A u \in Tasks \ {t} : op'[u] = op[u]
  BY DEF IdInv, TypeOK, TasksType
<1>7. \A f \in Safe : f \in Safe' =>
        /\ InLog(f) => InLog(f)'
        /\ \A u \in Tasks \ {t} : pc[u] = "copy" /\ f \in op[u].must => f \in op'[u].must
  BY <1>6 DEF InLog
<1> QED BY <1>1, <1>2, <1>3, <1>4, <1>5, <1>7, StillStep

\* An operation ends, or panics.
LEMMA StillEnd ==
  ASSUME IdInv, ListInv, DurableInv, IdInv', NEW t \in Tasks, NEW at \in {"idle", "dead"},
         pc' = [pc EXCEPT ![t] = at], op' = [op EXCEPT ![t] = NoOp],
         files' = files, walLog' = walLog, memtable' = memtable, scan' = scan,
         issued' = issued, racy' = racy, doomed' = doomed, swept' = swept,
         \A f \in acked' : f \in acked \/ (t \in Writers /\ Past(pc[t]) /\ f = op[t].arg)
  PROVE  DurableInv'
<1>1. Plain(at) /\ at # "purge" /\ at \notin Clearing \union {"reopen", "swap"}
  BY DEF Plain, Deleting, Clearing
<1> QED BY <1>1, StillMove

\* A frame becomes one of those Durable speaks of when the memtable has it; if no flush was
\* in its window since it was logged, the log has it too.
LEMMA WriteDurableOK ==
  ASSUME IdInv, ListInv, DurableInv, IdInv', NEW t \in Tasks, Write(t) PROVE DurableInv'
<1>1. ASSUME NEW f \in Frames, WriteBegin(t, f) PROVE DurableInv'
  <2> DEFINE r == [op[t] EXCEPT !.arg = f]
  <2>1. /\ pc' = [pc EXCEPT ![t] = "append"] /\ op' = [op EXCEPT ![t] = r]
        /\ files' = files /\ walLog' = walLog /\ memtable' = memtable /\ scan' = scan
        /\ issued' = issued \union {f} /\ racy' = racy /\ swept' = swept /\ acked' = acked
        /\ doomed' = IF \E u \in Deleters : pc[u] # "idle" /\ op[u].arg = DevOf[f]
                     THEN doomed \union {f} ELSE doomed
    BY <1>1 DEF WriteBegin, disk
  <2>2. r.arg = f
    BY Here DEF Locals
  <2> HIDE DEF r
  <2>3. pc'[t] = "append" /\ op'[t] = r /\ \A u \in Tasks \ {t} : Untouched(u)
    BY <2>1, OneMoves
  <2>4. /\ doomed \subseteq doomed' /\ issued \subseteq issued'
        /\ \A g \in issued' : \/ g \in issued
                              \/ \A u \in Deleters : pc[u] # "idle" /\ op[u].arg = DevOf[g]
                                                       => g \in doomed'
    BY <2>1
  <2>5. Knows(t)'
    BY <2>1, <2>2, <2>3, PlainKnows DEF Plain, Deleting
  <2>6. /\ pc'[t] \notin Leaving /\ pc'[t] # "copy" /\ pc'[t] \notin Clearing
        /\ ~Past(pc'[t]) /\ ~InWindow(t)'
    BY <2>3 DEF Leaving, Clearing, Past, InWindow
  <2>7. \A u \in Tasks \ {t} : op'[u] = op[u]
    BY <2>1 DEF IdInv, TypeOK, TasksType
  <2>8. \A g \in Safe : g \in Safe' =>
          /\ InLog(g) => InLog(g)'
          /\ \A u \in Tasks \ {t} : pc[u] = "copy" /\ g \in op[u].must => g \in op'[u].must
    BY <2>1, <2>7 DEF InLog
  <2> QED BY <2>1, <2>3, <2>4, <2>5, <2>6, <2>8, StillStep
<1>2. ASSUME WriteAppend(t) PROVE DurableInv'
  <2>1. /\ pc[t] = "append" /\ pc' = [pc EXCEPT ![t] = "insert"]
        /\ op' = [op EXCEPT ![t] = op[t]]
        /\ files' = files /\ walLog' = Logged(op[t].arg) /\ memtable' = memtable
        /\ scan' = scan /\ issued' = issued /\ swept' = swept /\ acked' = acked
        /\ doomed' = doomed
        /\ racy' = IF FlushRunning \/ walCur # walPath THEN racy \union {op[t].arg} ELSE racy
    BY <1>2, Here DEF WriteAppend, memory
  <2>2. pc'[t] = "insert" /\ op'[t] = op[t] /\ \A u \in Tasks \ {t} : Untouched(u)
    BY <2>1, OneMoves
  <2>3. walLog \subseteq walLog' /\ racy \subseteq racy'
    BY <2>1 DEF Logged
  <2>4. /\ pc'[t] \notin Leaving /\ pc'[t] # "copy" /\ pc'[t] \notin Clearing
        /\ ~Past(pc'[t]) /\ ~InWindow(t)'
    BY <2>2 DEF Leaving, Clearing, Past, InWindow
  <2>5. Knows(t)'
    <3>1. op[t].arg \notin racy' => ~FlushRunning /\ op[t].arg \in walLog'
      BY <2>1 DEF Logged
    <3>2. FlushRunning' => FlushRunning
      BY <2>2, <2>4, WindowStep
    <3>3. t \in Writers => op[t].arg \in issued'
      BY <2>1 DEF DurableInv, Knows
    <3> QED BY <2>2, <3>1, <3>2, <3>3 DEF Knows, Merged, Deleting, Rewriting
  <2>6. \A u \in Tasks \ {t} : op'[u] = op[u]
    BY <2>1 DEF IdInv, TypeOK, TasksType
  <2>7. \A g \in Safe : g \in Safe' =>
          /\ InLog(g) => InLog(g)'
          /\ \A u \in Tasks \ {t} : pc[u] = "copy" /\ g \in op[u].must => g \in op'[u].must
    BY <2>1, <2>3, <2>6 DEF InLog
  <2> QED BY <2>1, <2>2, <2>3, <2>4, <2>5, <2>7, StillStep
<1>3. ASSUME WriteInsert(t) PROVE DurableInv'
  <2>1. /\ pc[t] = "insert" /\ pc' = [pc EXCEPT ![t] = "full"] /\ op' = Coming({op[t].arg})
        /\ files' = files /\ walLog' = walLog /\ memtable' = memtable \union {op[t].arg}
        /\ scan' = scan /\ issued' = issued /\ swept' = swept /\ acked' = acked
        /\ doomed' = doomed /\ sstables' = sstables /\ nextId' = nextId
        /\ racy' = IF FlushRunning THEN racy \union {op[t].arg} ELSE racy
    BY <1>3 DEF WriteInsert, disk
  <2>2. t \in Writers /\ op[t].arg \in Frames
    BY <2>1, Here, Writing DEF Fits
  <2>3. \A u \in Tasks : /\ Same(u, op'[u]) /\ op'[u].must = op[u].must
                         /\ pc[u] # "copy" => op'[u] = op[u]
    <3>1. \A u \in Tasks : Same(u, op'[u]) /\ (pc[u] # "copy" => op'[u] = op[u])
      BY <2>1, <2>2, Copies DEF Coming
    <3>2. \A u \in Tasks : op'[u].must = op[u].must
      BY <2>1, Here DEF Coming, Locals
    <3> QED BY <3>1, <3>2
  <2>4. pc'[t] = "full" /\ \A u \in Tasks \ {t} : pc'[u] = pc[u]
    BY <2>1 DEF IdInv, TypeOK, TasksType
  <2>5. \A u \in Tasks \ {t} : Untouched(u)
    BY <2>3, <2>4 DEF Untouched
  <2>6. Writes(t) /\ \A i \in Ids : files'[i] = files[i]
    BY <2>1 DEF Writes
  <2>7. FlushRunning' => FlushRunning
    BY <2>4, <2>5, WindowStep DEF InWindow
  <2>8. Knows(t) /\ Covers
    BY DEF DurableInv
  <2>9. ASSUME NEW f \in Safe', f \notin Safe PROVE InLog(f)' /\ ~FlushRunning'
    <3>1. /\ f \in Frames /\ f \notin racy /\ f \notin doomed /\ KeyOf[f] \notin Keys(swept)
          /\ Inserted(f)' /\ f \notin racy'
      BY <2>1 DEF Safe
    <3>2. ~Inserted(f)
      BY <2>9, <3>1 DEF Safe
    <3>3. f = op[t].arg
      <4>1. PICK w \in Writers : Past(pc'[w]) /\ op'[w].arg = f
        BY <2>1, <3>1, <3>2 DEF Inserted
      <4>2. w \in Tasks /\ op'[w].arg = op[w].arg
        BY <2>3 DEF Same, Tasks
      <4>3. w # t => pc'[w] = pc[w]
        BY <2>4, <4>2
      <4> QED BY <3>2, <4>1, <4>2, <4>3 DEF Inserted
    <3>4. ~FlushRunning
      BY <2>1, <3>1, <3>3
    <3>5. f \in walLog
      BY <2>1, <2>8, <3>1, <3>3 DEF Knows
    <3> QED BY <2>1, <2>7, <3>3, <3>4, <3>5 DEF InLog
  <2>10. ASSUME NEW f \in Safe, NEW n \in Nat, Covered(f, n) PROVE Covered(f, n)'
    <3>1. \A v \in 0..MaxId : Held(KeyOf[f], v)' => Held(KeyOf[f], v)
      BY <2>4, <2>5, <2>6, HeldStep DEF Leaving
    <3>2. \A v \in 0..MaxId : Above(KeyOf[f], v) => Above(KeyOf[f], v)'
      BY <2>1 DEF Above
    <3> QED BY <2>10, <3>1, <3>2 DEF Covered
  <2>11. \A f \in Safe : f \in Safe' =>
           /\ \A n \in Nat : Covered(f, n) => Covered(f, n)'
           /\ InLog(f) => InLog(f)' \/ Covered(f, 0)
           /\ \A u \in Tasks \ {t} : pc[u] = "copy" /\ f \in op[u].must => f \in op'[u].must
           /\ pc'[t] = "copy" => Covered(f, CopyReach(t, f))'
           /\ pc'[t] \in Clearing => Covered(f, 0)'
    BY <2>1, <2>3, <2>4, <2>10 DEF InLog, Clearing
  <2>12. Covers'
    BY <2>5, <2>8, <2>9, <2>11, CoverStep
  <2>13. Knows(t)'
    <3>1. op'[t].arg \in issued'
      BY <2>1, <2>2, <2>3, <2>8 DEF Knows, Same
    <3> QED BY <2>4, <3>1, PlainKnows DEF Plain, Deleting
  <2>14. racy \subseteq racy' /\ racy' \subseteq racy \union {op[t].arg}
    BY <2>1
  <2>15. \A u \in Tasks \ {t} : pc[u] = "insert" /\ op[u].arg \notin racy'
                                  => ~FlushRunning' /\ op[u].arg \in walLog'
    BY <2>1, <2>7, <2>14 DEF DurableInv, Knows
  <2>16. \A u \in Tasks : Knows(u)'
    BY <2>1, <2>5, <2>6, <2>13, <2>14, <2>15, KnowsStep
  <2>17. acked' \subseteq issued'
    BY <2>1 DEF DurableInv
  <2> QED BY <2>12, <2>16, <2>17 DEF DurableInv
<1>4. ASSUME WriteFull(t) PROVE DurableInv'
  <2>1. /\ pc[t] = "full" /\ files' = files /\ walLog' = walLog /\ memtable' = memtable
        /\ scan' = scan /\ issued' = issued /\ racy' = racy /\ doomed' = doomed
        /\ swept' = swept
    BY <1>4 DEF WriteFull, disk, memory
  <2>2. Past(pc[t])
    BY <2>1 DEF Past
  <2>3. CASE pc' = [pc EXCEPT ![t] = "flush"] /\ op' = [op EXCEPT ![t] = op[t]] /\ acked' = acked
    <3>1. Plain("flush") /\ "flush" \notin Clearing
      BY DEF Plain, Deleting, Clearing
    <3> QED BY <2>1, <2>2, <2>3, <3>1, StillMove
  <2>4. CASE Succeed(t)
    BY <2>1, <2>2, <2>4, StillEnd
  <2> QED BY <1>4, <2>3, <2>4, Here DEF WriteFull
<1> QED BY <1>1, <1>2, <1>3, <1>4 DEF Write

\* Tables that only grow, while t is not about to remove any, keep what is covered.
LEMMA GrowKeeps ==
  ASSUME IdInv, ListInv, NEW t \in Tasks, \A u \in Tasks \ {t} : Untouched(u),
         \A i \in Ids : \/ files'[i] = files[i]
                        \/ /\ i \in NewOf(t) \/ nextId <= i
                           /\ files[i] \subseteq files'[i],
         pc'[t] \notin Leaving
  PROVE  /\ Writes(t)
         /\ \A k : \A v \in 0..MaxId : /\ Held(k, v)' => Held(k, v)
                                       /\ Above(k, v) => Above(k, v)'
         /\ \A f : \A n \in Nat : Covered(f, n) => Covered(f, n)'
<1>1. Writes(t)
  BY DEF Writes
<1>2. \A k : \A v \in 0..MaxId : Held(k, v)' => Held(k, v)
  BY <1>1, HeldStep
<1>3. \A i \in Ids : Keys(files[i]) \subseteq Keys(files'[i])
  BY DEF Keys
<1>4. \A k : \A v \in 0..MaxId : Above(k, v) => Above(k, v)'
  BY <1>3 DEF Above
<1> QED BY <1>1, <1>2, <1>4 DEF Covered

\* The tables about to go were handed out.
LEMMA HeldBelow ==
  ASSUME IdInv, ListInv, NEW k, NEW v, Held(k, v) PROVE v < nextId
<1>1. CASE v = 0
  BY <1>1, Typed
<1>2. ASSUME NEW u \in Tasks, pc[u] \in Leaving, v \in Elems(op[u].victims) PROVE v < nextId
  BY <1>2 DEF OldOf, Old, ListInv, IdsApart
<1> QED BY <1>1, <1>2 DEF Held

\* A flush lists its table before it clears the memtable and cuts the log.
LEMMA FlushDurableOK ==
  ASSUME IdInv, ListInv, DurableInv, IdInv', NEW t \in Tasks, Flush(t) PROVE DurableInv'
<1>1. ASSUME TimerTick(t) PROVE DurableInv'
  <2>1. /\ pc' = [pc EXCEPT ![t] = "flush"] /\ op' = [op EXCEPT ![t] = op[t]]
        /\ files' = files /\ walLog' = walLog /\ memtable' = memtable /\ scan' = scan
        /\ issued' = issued /\ racy' = racy /\ doomed' = doomed /\ swept' = swept
        /\ acked' = acked
    BY <1>1, Here DEF TimerTick, disk, memory, history
  <2>2. t \notin Writers
    BY <1>1, RolesAssumption DEF TimerTick
  <2>3. Plain("flush") /\ "flush" \notin Clearing
    BY DEF Plain, Deleting, Clearing
  <2> QED BY <2>1, <2>2, <2>3, StillMove
<1>2. ASSUME FlushBegin(t) PROVE DurableInv'
  <2> DEFINE r == [op[t] EXCEPT !.id = nextId, !.must = memtable, !.may = {}]
  <2>1. /\ pc[t] = "flush" /\ scan = 0 /\ nextId \in Ids
        /\ pc' = [pc EXCEPT ![t] = "copy"] /\ op' = [op EXCEPT ![t] = r]
        /\ files' = [files EXCEPT ![nextId] = {}] /\ nextId' = nextId + 1
        /\ walLog' = walLog /\ memtable' = memtable /\ scan' = scan
        /\ issued' = issued /\ doomed' = doomed /\ swept' = swept /\ acked' = acked
        /\ racy' = racy \union {op[w].arg : w \in {w \in Writers : pc[w] = "insert"}}
    BY <1>2 DEF FlushBegin, Allocate
  <2>2. r.id = nextId /\ r.must = memtable /\ r.arg = op[t].arg
    BY Here DEF Locals
  <2> HIDE DEF r
  <2>3. pc'[t] = "copy" /\ op'[t] = r /\ \A u \in Tasks \ {t} : Untouched(u)
    BY <2>1, OneMoves
  <2>4. \A i \in Ids : files'[i] = files[i]
    <3>1. files[nextId] = {}
      BY <2>1, Typed
    <3> QED BY <2>1, <3>1, Typed
  <2>5. /\ Writes(t)
        /\ \A k : \A v \in 0..MaxId : Held(k, v)' => Held(k, v)
        /\ \A f : \A n \in Nat : Covered(f, n) => Covered(f, n)'
    BY <2>3, <2>4, GrowKeeps DEF Leaving
  <2>6. racy \subseteq racy' /\ Past(pc[t]) /\ \A u \in Tasks \ {t} : op'[u] = op[u]
    BY <2>1 DEF Past, IdInv, TypeOK, TasksType
  <2>7. \A f \in Safe' : f \in Safe
    BY <2>1, <2>2, <2>3, <2>6, SafeShrinks
  <2>8. Covers /\ Knows(t) /\ acked \subseteq issued
    BY DEF DurableInv
  <2>9. ASSUME NEW f \in Safe PROVE Covered(f, CopyReach(t, f))'
    <3>1. CASE f \in memtable
      <4>1. CopyReach(t, f)' = nextId
        BY <2>2, <2>3, <3>1 DEF CopyReach
      <4>2. \A v \in 0..MaxId : Held(KeyOf[f], v)' => v < nextId
        BY <2>5, HeldBelow
      <4> QED BY <4>1, <4>2 DEF Covered
    <3>2. CASE f \notin memtable
      <4>1. CopyReach(t, f)' = 0
        BY <2>2, <2>3, <3>2 DEF CopyReach
      <4>2. Covered(f, 0)
        BY <2>1, <2>8, <3>2 DEF Covers, Reach, InLog
      <4> QED BY <2>5, <4>1, <4>2
    <3> QED BY <3>1, <3>2
  <2>10. \A f \in Safe : f \in Safe' =>
           /\ \A n \in Nat : Covered(f, n) => Covered(f, n)'
           /\ InLog(f) => InLog(f)' \/ Covered(f, 0)
           /\ \A u \in Tasks \ {t} : pc[u] = "copy" /\ f \in op[u].must => f \in op'[u].must
           /\ pc'[t] = "copy" => Covered(f, CopyReach(t, f))'
           /\ pc'[t] \in Clearing => Covered(f, 0)'
    BY <2>1, <2>3, <2>5, <2>6, <2>9 DEF InLog, Clearing
  <2>11. Covers'
    BY <2>3, <2>7, <2>8, <2>10, CoverStep
  <2>12. Knows(t)'
    <3>1. files'[op'[t].id] = {}
      BY <2>1, <2>2, <2>3, Typed
    <3>2. t \in Writers => op'[t].arg \in issued'
      BY <2>1, <2>2, <2>3, <2>8 DEF Knows
    <3> QED BY <2>3, <3>1, <3>2 DEF Knows, Merged, Deleting, Rewriting
  <2>13. \A u \in Tasks \ {t} : ~(pc[u] = "insert" /\ op[u].arg \notin racy')
    <3>1. \A u \in Tasks : pc[u] = "insert" => u \in Writers
      BY Here DEF Fits
    <3> QED BY <2>1, <3>1
  <2>14. \A u \in Tasks : Knows(u)'
    BY <2>1, <2>3, <2>4, <2>5, <2>6, <2>12, <2>13, KnowsStep
  <2>15. acked' \subseteq issued'
    BY <2>1, <2>8
  <2> QED BY <2>11, <2>14, <2>15 DEF DurableInv
<1>3. ASSUME NEW extra \in SUBSET op[t].may, FlushPublish(t, op[t].must \union extra)
      PROVE  DurableInv'
  <2> DEFINE copied == op[t].must \union extra
             r == [op[t] EXCEPT !.must = {}, !.may = {}]
  <2>1. /\ pc[t] = "copy" /\ walLog' = walLog /\ memtable' = memtable /\ scan' = scan
        /\ issued' = issued /\ racy' = racy /\ doomed' = doomed /\ swept' = swept
    BY <1>3 DEF FlushPublish
  <2>2. CASE copied = {}
    BY <1>3, <2>1, <2>2, StillEnd DEF FlushPublish
  <2>3. CASE copied # {}
    <3>1. /\ pc' = [pc EXCEPT ![t] = "clear"] /\ op' = [op EXCEPT ![t] = r]
          /\ files' = [files EXCEPT ![op[t].id] = copied] /\ acked' = acked
      BY <1>3, <2>3 DEF FlushPublish
    <3>2. r.arg = op[t].arg /\ op[t].id \in Ids /\ op[t].must \subseteq copied
      BY <2>1, Here DEF Locals, Fits
    <3> HIDE DEF r, copied
    <3>3. pc'[t] = "clear" /\ op'[t] = r /\ \A u \in Tasks \ {t} : Untouched(u)
      BY <3>1, OneMoves
    <3>4. Covers /\ Knows(t) /\ acked \subseteq issued
      BY DEF DurableInv
    <3>5. files[op[t].id] = {} /\ op[t].id \in NewOf(t)
      BY <2>1, <3>4 DEF Knows, NewOf, New
    <3>6. /\ \A i \in Ids : i # op[t].id => files'[i] = files[i]
          /\ files'[op[t].id] = copied
      BY <3>1, <3>2, Typed
    <3>7. \A i \in Ids : \/ files'[i] = files[i]
                         \/ i \in NewOf(t) /\ files[i] \subseteq files'[i]
      BY <3>5, <3>6
    <3>8. /\ Writes(t)
          /\ \A k : \A v \in 0..MaxId : /\ Held(k, v)' => Held(k, v)
                                        /\ Above(k, v) => Above(k, v)'
          /\ \A f : \A n \in Nat : Covered(f, n) => Covered(f, n)'
      BY <3>3, <3>7, GrowKeeps DEF Leaving
    <3>9. Past(pc[t]) /\ \A u \in Tasks \ {t} : op'[u] = op[u]
      BY <2>1, <3>1 DEF Past, IdInv, TypeOK, TasksType
    <3>10. \A f \in Safe' : f \in Safe
      BY <2>1, <3>1, <3>2, <3>3, <3>9, SafeShrinks
    <3>11. ASSUME NEW f \in Safe PROVE Covered(f, 0)'
      <4> SUFFICES ASSUME NEW v \in 0..MaxId, Held(KeyOf[f], v)' PROVE Above(KeyOf[f], v)'
        BY DEF Covered
      <4>1. Above(KeyOf[f], v) \/ v < CopyReach(t, f)
        BY <2>1, <3>4, <3>8 DEF Covers, Covered
      <4>2. CASE v < CopyReach(t, f)
        <5>1. f \in op[t].must /\ v < op[t].id
          BY <4>2 DEF CopyReach
        <5>2. KeyOf[f] \in Keys(files'[op[t].id])
          BY <3>2, <3>6, <5>1 DEF Keys
        <5> QED BY <3>2, <5>1, <5>2 DEF Above
      <4> QED BY <3>8, <4>1, <4>2
    <3>12. \A f \in Safe : f \in Safe' =>
             /\ \A n \in Nat : Covered(f, n) => Covered(f, n)'
             /\ InLog(f) => InLog(f)' \/ Covered(f, 0)
             /\ \A u \in Tasks \ {t} : pc[u] = "copy" /\ f \in op[u].must => f \in op'[u].must
             /\ pc'[t] = "copy" => Covered(f, CopyReach(t, f))'
             /\ pc'[t] \in Clearing => Covered(f, 0)'
      BY <2>1, <3>3, <3>8, <3>9, <3>11 DEF InLog
    <3>13. Covers'
      BY <3>3, <3>4, <3>10, <3>12, CoverStep
    <3>14. Knows(t)'
      <4>1. t \in Writers => op'[t].arg \in issued'
        BY <2>1, <3>2, <3>3, <3>4 DEF Knows
      <4> QED BY <3>3, <4>1, PlainKnows DEF Plain, Deleting
    <3>15. FlushRunning
      BY <2>1 DEF FlushRunning, InWindow
    <3>16. \A u \in Tasks \ {t} : ~(pc[u] = "insert" /\ op[u].arg \notin racy')
      BY <2>1, <3>15 DEF DurableInv, Knows
    <3>17. \A u \in Tasks : Knows(u)'
      BY <2>1, <3>3, <3>7, <3>8, <3>14, <3>16, KnowsStep
    <3>18. acked' \subseteq issued'
      BY <2>1, <3>1, <3>4
    <3> QED BY <3>13, <3>17, <3>18 DEF DurableInv
  <2> QED BY <2>2, <2>3
<1>4. ASSUME FlushClear(t) \/ (TruncateUnlink(t) /\ walPath # None) PROVE DurableInv'
  <2>1. /\ pc[t] \in {"clear", "unlink"} /\ op' = [op EXCEPT ![t] = op[t]] /\ files' = files
        /\ pc' = [pc EXCEPT ![t] = IF pc[t] = "clear" THEN "check" ELSE "reopen"]
        /\ issued' = issued /\ racy' = racy /\ doomed' = doomed /\ swept' = swept
        /\ acked' = acked
    BY <1>4, Here DEF FlushClear, TruncateUnlink, disk, memory, history
  <2>2. /\ pc'[t] \in {"check", "reopen"} /\ op'[t] = op[t]
        /\ \A u \in Tasks \ {t} : Untouched(u)
    BY <2>1, OneMoves
  <2>3. /\ Writes(t)
        /\ \A f : \A n \in Nat : Covered(f, n) => Covered(f, n)'
    BY <2>1, <2>2, GrowKeeps DEF Leaving
  <2>4. Past(pc[t]) /\ pc[t] \in Clearing /\ \A u \in Tasks \ {t} : op'[u] = op[u]
    BY <2>1 DEF Past, Clearing, IdInv, TypeOK, TasksType
  <2>5. \A f \in Safe' : f \in Safe
    BY <2>1, <2>2, <2>4, SafeShrinks
  <2>6. Covers /\ Knows(t) /\ acked \subseteq issued
    BY DEF DurableInv
  <2>7. \A f \in Safe : Covered(f, 0) /\ Covered(f, 0)'
    BY <2>3, <2>4, <2>6 DEF Covers
  <2>8. \A f \in Safe : f \in Safe' =>
          /\ \A n \in Nat : Covered(f, n) => Covered(f, n)'
          /\ InLog(f) => InLog(f)' \/ Covered(f, 0)
          /\ \A u \in Tasks \ {t} : pc[u] = "copy" /\ f \in op[u].must => f \in op'[u].must
          /\ pc'[t] = "copy" => Covered(f, CopyReach(t, f))'
          /\ pc'[t] \in Clearing => Covered(f, 0)'
    BY <2>2, <2>3, <2>4, <2>7
  <2>9. Covers'
    BY <2>2, <2>5, <2>6, <2>8, CoverStep
  <2>10. Knows(t)'
    <3>1. t \in Writers => op'[t].arg \in issued'
      BY <2>1, <2>2, <2>6 DEF Knows
    <3> QED BY <2>2, <3>1, PlainKnows DEF Plain, Deleting
  <2>11. FlushRunning
    BY <2>1 DEF FlushRunning, InWindow
  <2>12. \A u \in Tasks \ {t} : ~(pc[u] = "insert" /\ op[u].arg \notin racy')
    BY <2>1, <2>11 DEF DurableInv, Knows
  <2>13. \A u \in Tasks : Knows(u)'
    BY <2>1, <2>2, <2>3, <2>10, <2>12, KnowsStep
  <2> QED BY <2>1, <2>6, <2>9, <2>13 DEF DurableInv
<1>5. ASSUME TruncateUnlink(t), walPath = None PROVE DurableInv'
  <2>1. /\ Fail(t) /\ files' = files /\ walLog' = walLog /\ memtable' = memtable
        /\ scan' = scan /\ issued' = issued /\ racy' = racy /\ doomed' = doomed
        /\ swept' = swept
    BY <1>5 DEF TruncateUnlink, memory
  <2> QED BY <2>1, StillEnd
<1>6. ASSUME TruncateCheck(t) PROVE DurableInv'
  <2> DEFINE at == IF walPath # None THEN "unlink" ELSE "reopen"
  <2>1. /\ pc[t] = "check" /\ pc' = [pc EXCEPT ![t] = at] /\ op' = [op EXCEPT ![t] = op[t]]
        /\ files' = files /\ walLog' = walLog /\ memtable' = memtable /\ scan' = scan
        /\ issued' = issued /\ racy' = racy /\ doomed' = doomed /\ swept' = swept
        /\ acked' = acked
    BY <1>6, Here DEF TruncateCheck, disk, memory, history
  <2>2. Plain(at) /\ at # "purge" /\ Past(pc[t]) /\ pc[t] \in Clearing /\ InWindow(t)
    BY <2>1 DEF Plain, Deleting, Past, Clearing, InWindow
  <2> HIDE DEF at
  <2> QED BY <2>1, <2>2, StillMove
<1>7. ASSUME TruncateReopen(t) PROVE DurableInv'
  <2>1. PICK i \in Inodes : SetLocals(t, [op[t] EXCEPT !.inode = i])
    BY <1>7 DEF TruncateReopen
  <2> DEFINE r == [op[t] EXCEPT !.inode = i]
  <2>2. /\ pc[t] = "reopen" /\ pc' = [pc EXCEPT ![t] = "swap"] /\ op' = [op EXCEPT ![t] = r]
        /\ files' = files /\ walLog' = walLog /\ memtable' = memtable /\ scan' = scan
        /\ issued' = issued /\ racy' = racy /\ doomed' = doomed /\ swept' = swept
        /\ acked' = acked
    BY <1>7, <2>1 DEF TruncateReopen, memory, history
  <2>3. r.arg = op[t].arg
    BY Here DEF Locals
  <2> HIDE DEF r
  <2>4. Plain("swap") /\ "swap" \notin Clearing /\ Past(pc[t]) /\ InWindow(t)
    BY <2>2 DEF Plain, Deleting, Past, Clearing, InWindow
  <2> QED BY <2>2, <2>3, <2>4, StillMove
<1>8. ASSUME TruncateSwap(t) PROVE DurableInv'
  <2>1. /\ pc[t] = "swap" /\ files' = files /\ walLog' = walLog /\ memtable' = memtable
        /\ scan' = scan /\ issued' = issued /\ racy' = racy /\ doomed' = doomed
        /\ swept' = swept
    BY <1>8 DEF TruncateSwap, disk
  <2>2. Past(pc[t])
    BY <2>1 DEF Past
  <2>3. CASE Len(sstables) > CompactionThreshold
    <3> DEFINE r == [op[t] EXCEPT !.inode = None, !.id = 0]
    <3>1. pc' = [pc EXCEPT ![t] = "measure"] /\ op' = [op EXCEPT ![t] = r] /\ acked' = acked
      BY <1>8, <2>3 DEF TruncateSwap
    <3>2. r.arg = op[t].arg
      BY Here DEF Locals
    <3> HIDE DEF r
    <3>3. Plain("measure") /\ "measure" \notin Clearing
      BY DEF Plain, Deleting, Clearing
    <3> QED BY <2>1, <2>2, <3>1, <3>2, <3>3, StillMove
  <2>4. CASE ~(Len(sstables) > CompactionThreshold)
    <3>1. Succeed(t)
      BY <1>8, <2>4 DEF TruncateSwap
    <3> QED BY <2>1, <2>2, <3>1, StillEnd
  <2> QED BY <2>3, <2>4
<1> QED BY <1>1, <1>2, <1>3, <1>4, <1>5, <1>6, <1>7, <1>8 DEF Flush

\* A step that changes files, and leaves log, memtable and the frames' fate alone.
LEMMA FileStep ==
  ASSUME IdInv, ListInv, DurableInv, IdInv', NEW t \in Tasks, NEW at, NEW r,
         pc' = [pc EXCEPT ![t] = at], op' = [op EXCEPT ![t] = r], Writes(t),
         \A i \in Ids : \/ files'[i] = files[i] \/ files'[i] = {}
                        \/ i \in NewOf(t) \/ nextId <= i,
         \A f \in Safe : \A n \in Nat : Covered(f, n) => Covered(f, n)',
         walLog' = walLog, memtable' = memtable, scan' = scan,
         issued' = issued, racy' = racy, doomed' = doomed, swept' = swept,
         \A f \in acked' : f \in acked \/ (t \in Writers /\ Past(pc[t]) /\ f = op[t].arg),
         at \notin {"copy", "reopen", "swap"} \union Clearing,
         t \in Writers /\ Past(at) => Past(pc[t]) /\ r.arg = op[t].arg,
         Knows(t)'
  PROVE  DurableInv'
<1>1. pc'[t] = at /\ op'[t] = r /\ \A u \in Tasks \ {t} : Untouched(u)
  BY OneMoves
<1>2. \A u \in Tasks \ {t} : op'[u] = op[u]
  BY DEF IdInv, TypeOK, TasksType
<1>3. \A f \in Safe' : f \in Safe
  BY <1>1, SafeShrinks
<1>4. Covers /\ Knows(t) /\ acked \subseteq issued
  BY DEF DurableInv
<1>5. \A f \in Safe : f \in Safe' =>
        /\ \A n \in Nat : Covered(f, n) => Covered(f, n)'
        /\ InLog(f) => InLog(f)' \/ Covered(f, 0)
        /\ \A u \in Tasks \ {t} : pc[u] = "copy" /\ f \in op[u].must => f \in op'[u].must
        /\ pc'[t] = "copy" => Covered(f, CopyReach(t, f))'
        /\ pc'[t] \in Clearing => Covered(f, 0)'
  BY <1>1, <1>2 DEF InLog
<1>6. Covers'
  BY <1>1, <1>3, <1>4, <1>5, CoverStep
<1>7. FlushRunning' => FlushRunning
  BY <1>1, WindowStep DEF InWindow, Clearing
<1>8. \A u \in Tasks \ {t} : pc[u] = "insert" /\ op[u].arg \notin racy'
                               => ~FlushRunning' /\ op[u].arg \in walLog'
  BY <1>7 DEF DurableInv, Knows
<1>9. \A u \in Tasks : Knows(u)'
  BY <1>1, <1>8, KnowsStep
<1>10. t \in Writers /\ Past(pc[t]) => op[t].arg \in issued
  BY <1>4 DEF Knows, Past
<1>11. acked' \subseteq issued'
  BY <1>4, <1>10
<1> QED BY <1>6, <1>9, <1>11 DEF DurableInv

\* The next victim of a compaction or a deletion loses its file.
LEMMA EraseStep ==
  ASSUME IdInv, ListInv, DurableInv, IdInv', NEW t \in Tasks, NEW at, NEW r,
         pc[t] \in Leaving, Writes(t),
         pc' = [pc EXCEPT ![t] = at], op' = [op EXCEPT ![t] = r],
         files' = [files EXCEPT ![Head(op[t].victims)] = {}],
         at \in Leaving => r.victims = Tail(op[t].victims),
         walLog' = walLog, memtable' = memtable, scan' = scan,
         issued' = issued, racy' = racy, doomed' = doomed, swept' = swept,
         \A f \in acked' : f \in acked \/ (t \in Writers /\ Past(pc[t]) /\ f = op[t].arg),
         at \notin {"copy", "reopen", "swap"} \union Clearing,
         t \in Writers /\ Past(at) => r.arg = op[t].arg,
         Knows(t)'
  PROVE  DurableInv'
<1> DEFINE v == op[t].victims
           e == Head(v)
<1>1. pc'[t] = at /\ op'[t] = r /\ \A u \in Tasks \ {t} : Untouched(u)
  BY OneMoves
<1>2. /\ e \in Elems(v) /\ e \in Ids /\ e \in Nat /\ \A i \in Elems(Tail(v)) : i \in Elems(v)
  <2>1. v \in Seq(Ids) /\ v # <<>>
    BY Here DEF Fits, Locals, Leaving
  <2> QED BY <2>1, TailElems, OneVictim
<1>3. files' = [files EXCEPT ![e] = {}] /\ (at \in Leaving => r.victims = Tail(v))
  OBVIOUS
<1>4. \A k : k \in Keys(files[e]) => Held(k, e)
  BY <1>2 DEF Held
<1>5. \A k : \A w : pc[t] \in Leaving /\ w \in Elems(v) /\ k \in Keys(files[w]) => Held(k, w)
  BY DEF Held
<1>6. \A w \in Elems(v) : w \in Ids
  BY IdsAreNat
<1> HIDE DEF e, v
<1>7. \A i \in Ids : IF i = e THEN files'[i] = {} ELSE files'[i] = files[i]
  BY <1>3, Typed
<1>8. \A k : \A w \in 0..MaxId : Held(k, w)' => Held(k, w)
  <2> SUFFICES ASSUME NEW k, NEW w \in 0..MaxId, Held(k, w)' PROVE Held(k, w)
    OBVIOUS
  <2>1. \/ Held(k, w)
        \/ pc'[t] \in Leaving /\ w \in Elems(op'[t].victims) /\ k \in Keys(files'[w])
    BY <1>1, <1>7, HeldStep
  <2>2. ASSUME pc'[t] \in Leaving, w \in Elems(op'[t].victims), k \in Keys(files'[w])
        PROVE  Held(k, w)
    <3>1. w \in Elems(v) /\ w \in Ids
      BY <1>1, <1>2, <1>3, <1>6, <2>2
    <3>2. k \in Keys(files[w])
      BY <1>7, <2>2, <3>1 DEF Keys
    <3> QED BY <1>5, <3>1, <3>2
  <2> QED BY <2>1, <2>2
<1>9. ASSUME NEW f \in Safe, NEW n \in Nat, Covered(f, n) PROVE Covered(f, n)'
  <2>1. \A j \in Ids : /\ j # e /\ KeyOf[f] \in Keys(files[j]) => KeyOf[f] \in Keys(files'[j])
                       /\ j = e /\ KeyOf[f] \in Keys(files[j]) => Held(KeyOf[f], j)
    BY <1>4, <1>7
  <2>2. \A w \in 0..MaxId : Held(KeyOf[f], w)' => Held(KeyOf[f], w) \/ Above(KeyOf[f], w)'
    BY <1>8
  <2>3. MaxId \in Nat
    BY Typed
  <2> QED BY <1>2, <1>9, <2>1, <2>2, <2>3, CoverKept
<1>10. t \in Writers /\ Past(at) => Past(pc[t]) /\ r.arg = op[t].arg
  BY DEF Past, Leaving
<1> QED BY <1>7, <1>9, <1>10, FileStep

\* The next id holds no frames while the engine serves: taking it changes no file.
LEMMA FreshEmpty ==
  ASSUME IdInv, scan = 0, nextId \in Ids
  PROVE  files[nextId] = {} /\ files = [files EXCEPT ![nextId] = {}]
<1>1. files[nextId] = {}
  BY Typed
<1> QED BY <1>1, Typed

\* A merge has the keys of each table of its batch.
LEMMA MergedKeys ==
  ASSUME NEW batch \in Seq(Ids), NEW merged, Merges(batch, merged), NEW v \in Elems(batch)
  PROVE  Keys(files[v]) \subseteq Keys(merged)
<1> DEFINE pool == UNION {files[batch[i]] : i \in DOMAIN batch}
<1>1. {MergeKey(f) : f \in merged} = {MergeKey(f) : f \in pool}
  BY DEF Merges
<1>2. files[v] \subseteq pool
  BY DEF Elems
<1> HIDE DEF pool
<1> QED BY <1>1, <1>2 DEF Keys, MergeKey

\* A compaction removes its batch once the merged table, which has a higher id, is listed.
LEMMA CompactDurableOK ==
  ASSUME IdInv, ListInv, DurableInv, IdInv', NEW t \in Tasks, Writes(t), Compact(t)
  PROVE  DurableInv'
<1>1. ASSUME CompactMeasure(t) PROVE DurableInv'
  <2> DEFINE r == [op[t] EXCEPT !.size = IF CompactionThreshold < Len(sstables)
                                         THEN CompactionThreshold ELSE Len(sstables)]
  <2>1. /\ pc[t] = "measure" /\ pc' = [pc EXCEPT ![t] = "snapshot"]
        /\ op' = [op EXCEPT ![t] = r] /\ files' = files /\ walLog' = walLog
        /\ memtable' = memtable /\ scan' = scan /\ issued' = issued /\ racy' = racy
        /\ doomed' = doomed /\ swept' = swept /\ acked' = acked
    BY <1>1 DEF CompactMeasure, disk, memory, history
  <2>2. r.arg = op[t].arg
    BY Here DEF Locals
  <2> HIDE DEF r
  <2>3. Plain("snapshot") /\ "snapshot" \notin Clearing /\ Past(pc[t])
    BY <2>1 DEF Plain, Deleting, Clearing, Past
  <2> QED BY <2>1, <2>2, <2>3, StillMove
<1>2. ASSUME CompactSnapshot(t) PROVE DurableInv'
  <2> DEFINE r == [op[t] EXCEPT !.victims = SubSeq(sstables, 1, op[t].size)]
  <2>1. /\ pc[t] = "snapshot" /\ files' = files /\ walLog' = walLog
        /\ memtable' = memtable /\ scan' = scan /\ issued' = issued /\ racy' = racy
        /\ doomed' = doomed /\ swept' = swept
    BY <1>2 DEF CompactSnapshot, disk, memory
  <2>2. CASE Panic(t)
    BY <2>1, <2>2, StillEnd
  <2>3. CASE pc' = [pc EXCEPT ![t] = "merge"] /\ op' = [op EXCEPT ![t] = r] /\ acked' = acked
    <3>1. r.arg = op[t].arg
      BY Here DEF Locals
    <3> HIDE DEF r
    <3>2. Plain("merge") /\ "merge" \notin Clearing /\ Past(pc[t])
      BY <2>1 DEF Plain, Deleting, Clearing, Past
    <3> QED BY <2>1, <2>3, <3>1, <3>2, StillMove
  <2> QED BY <1>2, <2>2, <2>3 DEF CompactSnapshot
<1>3. ASSUME NEW merged \in SUBSET Stored, CompactBegin(t, merged) PROVE DurableInv'
  <2> DEFINE r == [op[t] EXCEPT !.id = nextId, !.must = merged]
             none == op[t].victims = <<>> \/ \E v \in Elems(op[t].victims) : files[v] = {}
  <2>1. /\ pc[t] = "merge" /\ scan = 0 /\ walLog' = walLog /\ memtable' = memtable
        /\ scan' = scan /\ issued' = issued /\ racy' = racy /\ doomed' = doomed
        /\ swept' = swept
    BY <1>3 DEF CompactBegin
  <2>2. CASE none
    <3>1. Fail(t) /\ files' = files
      BY <1>3, <2>2 DEF CompactBegin
    <3> QED BY <2>1, <3>1, StillEnd
  <2>3. CASE ~none
    <3>1. /\ pc' = [pc EXCEPT ![t] = "merging"] /\ op' = [op EXCEPT ![t] = r]
          /\ files' = [files EXCEPT ![nextId] = {}] /\ nextId \in Ids
          /\ Merges(op[t].victims, merged) /\ acked' = acked
      BY <1>3, <2>3 DEF CompactBegin, Allocate
    <3>2. /\ r.victims = op[t].victims /\ r.id = nextId /\ r.must = merged
          /\ r.arg = op[t].arg /\ op[t].victims \in Seq(Ids)
      BY Here DEF Locals
    <3> HIDE DEF r, none
    <3>3. files' = files /\ files[nextId] = {}
      BY <2>1, <3>1, FreshEmpty
    <3>4. pc'[t] = "merging" /\ op'[t] = r /\ \A u \in Tasks \ {t} : Untouched(u)
      BY <3>1, OneMoves
    <3>5. ASSUME NEW v \in Elems(op[t].victims)
          PROVE  v < nextId /\ Keys(files[v]) \subseteq Keys(merged)
      <4>1. v \in OldOf(t)
        BY <2>1 DEF OldOf, Old, Batching
      <4>2. v < nextId
        BY <4>1 DEF ListInv, IdsApart
      <4> QED BY <3>1, <3>2, <4>2, MergedKeys
    <3>6. Past(pc[t]) /\ Knows(t)
      BY <2>1 DEF Past, DurableInv
    <3>7. Knows(t)'
      <4>1. t \in Writers => op'[t].arg \in issued'
        BY <2>1, <3>2, <3>4, <3>6 DEF Knows
      <4>2. files'[op'[t].id] = {}
        BY <3>2, <3>3, <3>4
      <4>3. Merged(t)'
        BY <3>2, <3>3, <3>4, <3>5 DEF Merged
      <4> QED BY <3>4, <4>1, <4>2, <4>3 DEF Knows, Deleting, Rewriting
    <3>8. /\ pc'[t] \notin Leaving /\ pc'[t] # "copy" /\ pc'[t] \notin Clearing
          /\ ~InWindow(t)'
      BY <3>4 DEF Leaving, Clearing, InWindow
    <3>9. t \in Writers /\ Past(pc'[t]) => Past(pc[t]) /\ op'[t].arg = op[t].arg
      BY <3>2, <3>4, <3>6
    <3>10. \A u \in Tasks \ {t} : op'[u] = op[u]
      BY <3>1 DEF IdInv, TypeOK, TasksType
    <3>11. \A f \in Safe : f \in Safe' =>
            /\ InLog(f) => InLog(f)'
            /\ \A u \in Tasks \ {t} : pc[u] = "copy" /\ f \in op[u].must => f \in op'[u].must
      BY <2>1, <3>10 DEF InLog
    <3> QED BY <2>1, <3>1, <3>3, <3>4, <3>7, <3>8, <3>9, <3>11, StillStep
  <2> QED BY <2>2, <2>3
<1>4. ASSUME CompactFinish(t) PROVE DurableInv'
  <2> DEFINE r == [op[t] EXCEPT !.must = {}]
  <2>1. /\ pc[t] = "merging" /\ pc' = [pc EXCEPT ![t] = "install"]
        /\ op' = [op EXCEPT ![t] = r] /\ files' = [files EXCEPT ![op[t].id] = op[t].must]
        /\ walLog' = walLog /\ memtable' = memtable /\ scan' = scan
        /\ issued' = issued /\ racy' = racy /\ doomed' = doomed /\ swept' = swept
        /\ acked' = acked
    BY <1>4 DEF CompactFinish, history
  <2>2. /\ r.arg = op[t].arg /\ r.victims = op[t].victims /\ r.id = op[t].id
        /\ op[t].id \in Ids
    BY <2>1, Here DEF Locals, Fits
  <2> HIDE DEF r
  <2>3. pc'[t] = "install" /\ op'[t] = r /\ \A u \in Tasks \ {t} : Untouched(u)
    BY <2>1, OneMoves
  <2>4. Knows(t) /\ Past(pc[t])
    BY <2>1 DEF DurableInv, Past
  <2>5. /\ files[op[t].id] = {} /\ op[t].id \in NewOf(t)
        /\ \A v \in Elems(op[t].victims) : /\ v < op[t].id /\ v \in Ids
                                           /\ Keys(files[v]) \subseteq Keys(op[t].must)
    BY <2>1, <2>4, IdsAreNat DEF Knows, Merged, NewOf, New
  <2>6. \A i \in Ids : IF i = op[t].id THEN files'[i] = op[t].must ELSE files'[i] = files[i]
    BY <2>1, <2>2, Typed
  <2>7. \A i \in Ids : files'[i] = files[i] \/ (i \in NewOf(t) /\ files[i] \subseteq files'[i])
    BY <2>5, <2>6
  <2>8. \A f \in Safe : \A n \in Nat : Covered(f, n) => Covered(f, n)'
    BY <2>3, <2>7, GrowKeeps DEF Leaving
  <2>9. Knows(t)'
    <3>1. t \in Writers => op'[t].arg \in issued'
      BY <2>1, <2>2, <2>3, <2>4 DEF Knows
    <3>2. \A v \in Elems(op[t].victims) :
             v < op[t].id /\ Keys(files'[v]) \subseteq Keys(files'[op[t].id])
      <4> SUFFICES ASSUME NEW v \in Elems(op[t].victims)
                   PROVE  v < op[t].id /\ Keys(files'[v]) \subseteq Keys(files'[op[t].id])
        OBVIOUS
      <4>1. v # op[t].id /\ v < op[t].id /\ v \in Ids
        BY <2>2, <2>5
      <4>2. files'[v] = files[v] /\ files'[op[t].id] = op[t].must
        BY <2>2, <2>6, <4>1
      <4> QED BY <2>5, <4>1, <4>2
    <3>3. Merged(t)'
      BY <2>2, <2>3, <3>2 DEF Merged
    <3> QED BY <2>3, <3>1, <3>3 DEF Knows, Deleting, Rewriting
  <2> QED BY <2>1, <2>2, <2>4, <2>7, <2>8, <2>9, FileStep DEF Clearing
<1>5. ASSUME CompactInstall(t) PROVE DurableInv'
  <2>1. /\ pc[t] = "install" /\ files' = files /\ walLog' = walLog
        /\ memtable' = memtable /\ scan' = scan /\ issued' = issued /\ racy' = racy
        /\ doomed' = doomed /\ swept' = swept
    BY <1>5 DEF CompactInstall, disk
  <2>2. CASE Panic(t)
    BY <2>1, <2>2, StillEnd
  <2>3. CASE pc' = [pc EXCEPT ![t] = "purge"] /\ op' = op /\ acked' = acked
    <3>1. op' = [op EXCEPT ![t] = op[t]]
      BY <2>3, Here
    <3>2. pc'[t] = "purge" /\ op'[t] = op[t] /\ \A u \in Tasks \ {t} : Untouched(u)
      BY <2>3, <3>1, OneMoves
    <3>3. Knows(t) /\ Past(pc[t]) /\ op[t].id \in Ids /\ MaxId \in Nat
      BY <2>1, Here, Typed DEF DurableInv, Past, Fits
    <3>4. \A v \in Elems(op[t].victims) :
             v < op[t].id /\ Keys(files[v]) \subseteq Keys(files[op[t].id])
      BY <2>1, <3>3 DEF Knows, Merged
    <3>5. ASSUME NEW f \in Safe, NEW n \in Nat, Covered(f, n) PROVE Covered(f, n)'
      <4>1. ASSUME NEW v \in 0..MaxId, Held(KeyOf[f], v)'
            PROVE  Held(KeyOf[f], v) \/ Above(KeyOf[f], v)'
        <5>1. \/ Held(KeyOf[f], v)
              \/ v \in Elems(op[t].victims) /\ KeyOf[f] \in Keys(files[v])
          BY <2>1, <3>2, <4>1, HeldStep
        <5> QED BY <2>1, <3>3, <3>4, <5>1 DEF Above
      <4>2. \A j \in Ids : /\ j # 0 /\ KeyOf[f] \in Keys(files[j]) => KeyOf[f] \in Keys(files'[j])
                           /\ j = 0 /\ KeyOf[f] \in Keys(files[j]) => Held(KeyOf[f], j)
        BY <2>1
      <4> QED BY <3>3, <3>5, <4>1, <4>2, CoverKept
    <3>6. Knows(t)'
      <4>1. t \in Writers => op'[t].arg \in issued'
        BY <2>1, <3>2, <3>3 DEF Knows
      <4> QED BY <3>2, <4>1, PlainKnows DEF Plain, Deleting
    <3> QED BY <2>1, <2>3, <3>1, <3>3, <3>5, <3>6, FileStep DEF Clearing
  <2> QED BY <1>5, <2>2, <2>3 DEF CompactInstall
<1>6. ASSUME CompactPurge(t) PROVE DurableInv'
  <2> DEFINE r == [op[t] EXCEPT !.victims = Tail(op[t].victims)]
  <2>1. /\ pc[t] = "purge" /\ files' = [files EXCEPT ![Head(op[t].victims)] = {}]
        /\ walLog' = walLog /\ memtable' = memtable /\ scan' = scan
        /\ issued' = issued /\ racy' = racy /\ doomed' = doomed /\ swept' = swept
    BY <1>6 DEF CompactPurge, memory
  <2>2. pc[t] \in Leaving /\ Past(pc[t]) /\ Knows(t)
    BY <2>1 DEF Leaving, Past, DurableInv
  <2>3. CASE Succeed(t)
    <3>1. pc' = [pc EXCEPT ![t] = "idle"] /\ op' = [op EXCEPT ![t] = NoOp]
      BY <2>3
    <3>2. pc'[t] = "idle"
      BY <3>1, OneMoves
    <3>3. Knows(t)'
      BY <3>2, PlainKnows DEF Plain, Deleting
    <3>4. "idle" \notin Leaving /\ ~Past("idle") /\ "idle" \notin {"copy", "reopen", "swap"} \union Clearing
      BY DEF Leaving, Past, Clearing
    <3>5. \A f \in acked' : f \in acked \/ (t \in Writers /\ Past(pc[t]) /\ f = op[t].arg)
      BY <2>2, <2>3
    <3> QED BY <2>1, <2>2, <3>1, <3>3, <3>4, <3>5, EraseStep
  <2>4. CASE op' = [op EXCEPT ![t] = r] /\ pc' = pc /\ acked' = acked
    <3>1. /\ pc' = [pc EXCEPT ![t] = "purge"] /\ op' = [op EXCEPT ![t] = r]
          /\ r.arg = op[t].arg /\ r.victims = Tail(op[t].victims)
      BY <2>1, <2>4, Here DEF Locals
    <3> HIDE DEF r
    <3>2. pc'[t] = "purge" /\ op'[t] = r
      BY <3>1, OneMoves
    <3>3. Knows(t)'
      <4>1. t \in Writers => op'[t].arg \in issued'
        BY <2>1, <2>2, <3>1, <3>2 DEF Knows
      <4> QED BY <3>2, <4>1, PlainKnows DEF Plain, Deleting
    <3>4. "purge" \notin {"copy", "reopen", "swap"} \union Clearing
      BY DEF Clearing
    <3> QED BY <2>1, <2>2, <2>4, <3>1, <3>3, <3>4, EraseStep
  <2> QED BY <1>6, <2>3, <2>4 DEF CompactPurge
<1> QED BY <1>1, <1>2, <1>3, <1>4, <1>5, <1>6 DEF Compact

\* One more element.
LEMMA MoreElems ==
  ASSUME NEW s \in Seq(Ids), NEW i \in Ids
  PROVE  Elems(Append(s, i)) = Elems(s) \union {i}
<1> DEFINE m == Append(s, i)
           n == Len(s)
<1>1. /\ n \in Nat /\ DOMAIN s = 1..n /\ DOMAIN m = 1..(n + 1) /\ m[n + 1] = i
      /\ \A k \in 1..n : m[k] = s[k]
  OBVIOUS
<1> HIDE DEF m, n
<1>2. \A k \in 1..(n + 1) : k \in 1..n \/ k = n + 1
  BY <1>1
<1>3. \A k \in 1..n : k \in 1..(n + 1)
  BY <1>1
<1>4. n + 1 \in 1..(n + 1)
  BY <1>1
<1>5. \A x \in Elems(m) : x \in Elems(s) \/ x = i
  BY <1>1, <1>2 DEF Elems
<1>6. i \in Elems(m) /\ \A x \in Elems(s) : x \in Elems(m)
  BY <1>1, <1>3, <1>4 DEF Elems
<1> QED BY <1>5, <1>6 DEF m

\* What a deletion removes is in its new tables, or was doomed when it began.
LEMMA DeleteDurableOK ==
  ASSUME IdInv, ListInv, DurableInv, IdInv', NEW t \in Tasks, Writes(t), Delete(t)
  PROVE  DurableInv'
<1>1. ASSUME NEW d \in Devices, DeleteBegin(t, d) PROVE DurableInv'
  <2> DEFINE S == FramesOf(d)
             may == acked \intersect FramesOf(d)
  <2>1. /\ pc[t] = "idle" /\ t \in Deleters /\ pc' = [pc EXCEPT ![t] = "list"]
        /\ op' = [Going(S) EXCEPT ![t].arg = d, ![t].may = may]
        /\ memtable' = memtable \ S /\ doomed' = doomed \union (issued \intersect S)
        /\ files' = files /\ walLog' = walLog /\ scan' = scan
        /\ issued' = issued /\ racy' = racy /\ swept' = swept /\ acked' = acked
    BY <1>1 DEF DeleteBegin, disk
  <2>2. S \in SUBSET Frames /\ \A f \in Frames : f \in S <=> DevOf[f] = d
    BY DEF FramesOf
  <2>3. /\ Going(S) \in [Tasks -> Locals]
        /\ \A u \in Tasks : /\ Same(u, Going(S)[u]) /\ (pc[u] # "copy" => Going(S)[u] = op[u])
                            /\ op[u].must \ S \subseteq Going(S)[u].must
    <3>1. \A u \in Tasks : op[u].must \ S \subseteq Going(S)[u].must
      BY Here DEF Going, Locals
    <3> QED BY <2>2, <3>1, Copies DEF Going
  <2> HIDE DEF S, may
  <2>4. pc'[t] = "list" /\ \A u \in Tasks \ {t} : pc'[u] = pc[u] /\ op'[u] = Going(S)[u]
    BY <2>1, <2>3 DEF IdInv, TypeOK, TasksType
  <2>5. \A u \in Tasks \ {t} : Untouched(u)
    BY <2>3, <2>4 DEF Untouched
  <2>6. op'[t].arg = d /\ t \notin Writers
    <3>1. op'[t] = [op[t] EXCEPT !.arg = d, !.may = may]
      BY <2>1, <2>3
    <3> QED BY <2>1, <3>1, Here, RolesAssumption DEF Locals
  <2>7. doomed \subseteq doomed'
    BY <2>1
  <2>8. ASSUME NEW f \in Safe, f \in Safe' PROVE f \notin S
    <3>1. Inserted(f) /\ f \in Frames /\ f \notin doomed'
      BY <2>8 DEF Safe
    <3>2. f \in issued
      BY <3>1 DEF Inserted, DurableInv, Knows, Past, Tasks
    <3> QED BY <2>1, <3>1, <3>2
  <2>9. \A f \in Safe : f \in Safe' =>
          /\ InLog(f) => InLog(f)'
          /\ \A u \in Tasks \ {t} : pc[u] = "copy" /\ f \in op[u].must => f \in op'[u].must
    BY <2>1, <2>3, <2>4, <2>8 DEF InLog
  <2>10. Knows(t)'
    <3>1. \A f \in issued' : DevOf[f] = op'[t].arg => f \in doomed'
      BY <2>1, <2>2, <2>6, Typed
    <3> QED BY <2>1, <2>4, <2>6, <3>1 DEF Knows, Merged, Rewriting
  <2>11. /\ pc'[t] \notin Leaving /\ pc'[t] # "copy" /\ pc'[t] \notin Clearing
         /\ ~InWindow(t)'
    BY <2>4 DEF Leaving, Clearing, InWindow
  <2> QED BY <2>1, <2>5, <2>6, <2>7, <2>9, <2>10, <2>11, StillStep
<1>2. ASSUME DeleteSnapshot(t) \/ (DeleteOpen(t) /\ ~Fail(t)) PROVE DurableInv'
  <2> DEFINE r == IF pc[t] = "list"
                  THEN [op[t] EXCEPT !.victims = sstables, !.fresh = <<>>, !.size = 0]
                  ELSE op[t]
             at == IF pc[t] = "open" THEN "rewrite"
                   ELSE IF sstables = <<>> THEN "unregister" ELSE "open"
  <2>1. /\ pc[t] \in {"list", "open"} /\ files' = files /\ walLog' = walLog
        /\ memtable' = memtable /\ scan' = scan /\ issued' = issued /\ racy' = racy
        /\ doomed' = doomed /\ swept' = swept /\ acked' = acked
        /\ pc' = [pc EXCEPT ![t] = at] /\ op' = [op EXCEPT ![t] = r]
    BY <1>2, Here DEF DeleteSnapshot, DeleteOpen, disk, memory, history
  <2>2. /\ r.arg = op[t].arg /\ (pc[t] = "list" => r.fresh = <<>> /\ r.size = 0)
        /\ (pc[t] = "open" => r = op[t])
    BY <2>1, Here DEF Locals
  <2>3. at \in {"unregister", "open", "rewrite"} /\ (at = "rewrite" <=> pc[t] = "open")
    BY <2>1
  <2> HIDE DEF r, at
  <2>4. pc'[t] = at /\ op'[t] = r /\ \A u \in Tasks \ {t} : Untouched(u)
    BY <2>1, OneMoves
  <2>5. Knows(t) /\ t \in Deleters /\ t \notin Writers
    BY <2>1, RolesAssumption DEF DurableInv, Knows, Deleting
  <2>6. Rewritten(t)'
    <3>1. CASE pc[t] = "list"
      <4>1. op'[t].fresh = <<>> /\ op'[t].size = 0 /\ pc'[t] \in {"unregister", "open"}
        BY <2>2, <2>3, <2>4, <3>1
      <4> QED BY <4>1, Idle DEF Rewritten
    <3>2. CASE pc[t] = "open"
      <4>1. Rewritten(t)
        BY <2>5, <3>2 DEF Knows, Rewriting
      <4> QED BY <2>1, <2>2, <2>3, <2>4, <3>2, <4>1 DEF Rewritten
    <3> QED BY <2>1, <3>1, <3>2
  <2>7. Knows(t)'
    <3>1. \A f \in issued' : DevOf[f] = op'[t].arg => f \in doomed'
      BY <2>1, <2>2, <2>4, <2>5 DEF Knows, Deleting
    <3> QED BY <2>3, <2>4, <2>5, <2>6, <3>1 DEF Knows, Merged
  <2>8. /\ pc'[t] \notin Leaving /\ pc'[t] # "copy" /\ pc'[t] \notin Clearing
        /\ ~InWindow(t)'
    BY <2>3, <2>4 DEF Leaving, Clearing, InWindow
  <2>9. \A u \in Tasks \ {t} : op'[u] = op[u]
    BY <2>1 DEF IdInv, TypeOK, TasksType
  <2>10. \A f \in Safe : f \in Safe' =>
           /\ InLog(f) => InLog(f)'
           /\ \A u \in Tasks \ {t} : pc[u] = "copy" /\ f \in op[u].must => f \in op'[u].must
    BY <2>1, <2>9 DEF InLog
  <2> QED BY <2>1, <2>4, <2>5, <2>7, <2>8, <2>10, StillStep
<1>3. ASSUME DeleteOpen(t), Fail(t) PROVE DurableInv'
  <2>1. /\ files' = files /\ walLog' = walLog /\ memtable' = memtable /\ scan' = scan
        /\ issued' = issued /\ racy' = racy /\ doomed' = doomed /\ swept' = swept
    BY <1>3 DEF DeleteOpen, disk, memory
  <2> QED BY <1>3, <2>1, StillEnd
<1>4. ASSUME DeleteRewrite(t) PROVE DurableInv'
  <2> DEFINE v == op[t].victims[op[t].size + 1]
             rest == Kept(files[v], op[t].arg)
             at == IF op[t].size + 1 = Len(op[t].victims) THEN "replace" ELSE "rewrite"
  <2>1. /\ pc[t] = "rewrite" /\ scan = 0 /\ walLog' = walLog /\ memtable' = memtable
        /\ scan' = scan /\ issued' = issued /\ racy' = racy /\ doomed' = doomed
        /\ swept' = swept
    BY <1>4 DEF DeleteRewrite
  <2>2. CASE files[v] = {}
    <3>1. Fail(t) /\ files' = files
      BY <1>4, <2>2 DEF DeleteRewrite
    <3> QED BY <2>1, <3>1, StillEnd
  <2>3. CASE files[v] # {}
    <3> DEFINE fresh == IF rest = {} THEN op[t].fresh ELSE Append(op[t].fresh, nextId)
               r == IF rest = {} THEN [op[t] EXCEPT !.size = op[t].size + 1]
                    ELSE [op[t] EXCEPT !.size = op[t].size + 1,
                                       !.fresh = Append(op[t].fresh, nextId)]
    <3>1. /\ pc' = [pc EXCEPT ![t] = at] /\ op' = [op EXCEPT ![t] = r] /\ acked' = acked
          /\ rest = {} => files' = files
          /\ rest # {} => files' = [files EXCEPT ![nextId] = rest] /\ nextId \in Ids
      BY <1>4, <2>3 DEF DeleteRewrite, Allocate
    <3>2. /\ r.arg = op[t].arg /\ r.victims = op[t].victims /\ r.size = op[t].size + 1
          /\ r.fresh = fresh /\ op[t].fresh \in Seq(Ids) /\ op[t].victims \in Seq(Ids)
          /\ op[t].size \in Nat /\ op[t].size < Len(op[t].victims)
      BY <2>1, Here DEF Locals, Fits
    <3>3. at \in {"replace", "rewrite"} /\ (at = "replace" => op[t].size + 1 = Len(op[t].victims))
      OBVIOUS
    <3>4. /\ \A x \in Elems(fresh) : x \in Elems(op[t].fresh) \/ (rest # {} /\ x = nextId)
          /\ \A x \in Elems(op[t].fresh) : x \in Elems(fresh)
          /\ rest # {} => nextId \in Elems(fresh)
      <4>1. CASE rest = {}
        BY <4>1
      <4>2. CASE rest # {}
        <5>1. fresh = Append(op[t].fresh, nextId)
          BY <4>2
        <5>2. nextId \in Ids /\ op[t].fresh \in Seq(Ids)
          BY <3>1, <3>2, <4>2
        <5>3. Elems(Append(op[t].fresh, nextId)) = Elems(op[t].fresh) \union {nextId}
          BY <5>2, MoreElems
        <5>4. Elems(fresh) = Elems(op[t].fresh) \union {nextId}
          BY <5>1, <5>3
        <5> HIDE DEF fresh, rest
        <5> QED BY <4>2, <5>4
      <4> QED BY <4>1, <4>2
    <3>5. \A g \in files[v] : DevOf[g] = op[t].arg \/ g \in rest
      BY DEF Kept, FramesOf
    <3>6. v \in Elems(op[t].victims)
      BY <3>2 DEF Elems
    <3> HIDE DEF r, at, rest, fresh
    <3>7. pc'[t] = at /\ op'[t] = r /\ \A u \in Tasks \ {t} : Untouched(u)
      BY <3>1, OneMoves
    <3>8. Knows(t) /\ t \in Deleters /\ t \notin Writers /\ Rewritten(t)
      BY <2>1, RolesAssumption DEF DurableInv, Knows, Deleting, Rewriting
    <3>9. \A i \in Ids : \/ files'[i] = files[i]
                         \/ rest # {} /\ i = nextId /\ files[i] = {} /\ files'[i] = rest
      BY <2>1, <3>1, FreshEmpty, Typed
    <3>10. \A i \in Ids : files'[i] = files[i] \/ (nextId <= i /\ files[i] \subseteq files'[i])
      BY <3>9, Typed
    <3>11. \A f \in Safe : \A n \in Nat : Covered(f, n) => Covered(f, n)'
      BY <3>3, <3>7, <3>10, GrowKeeps DEF Leaving
    <3>12. /\ \A i \in Elems(op[t].victims) \union Elems(op[t].fresh) : i \in Ids /\ i < nextId
           /\ nextId \in Nat
      <4>1. \A i \in Elems(op[t].victims) \union Elems(op[t].fresh) : i \in OldOf(t) \union NewOf(t)
        BY <2>1 DEF OldOf, NewOf, Old, New, Rewriting
      <4> QED BY <4>1, IdsAreNat, Typed DEF ListInv, IdsApart
    <3>13. \A i \in Elems(op[t].victims) \union Elems(op[t].fresh) : files'[i] = files[i]
      BY <3>9, <3>12
    <3>14. Rewritten(t)'
      <4>1. \A w \in Elems(op[t].victims) : \A x \in Elems(fresh) : w < x
        BY <3>4, <3>8, <3>12 DEF Rewritten
      <4>2. ASSUME NEW p \in 1..(op[t].size + 1), NEW g \in files'[op[t].victims[p]]
            PROVE  DevOf[g] = op[t].arg \/ \E x \in Elems(fresh) : g \in files'[x]
        <5>1. CASE p \in 1..op[t].size
          <6>1. op[t].victims[p] \in Elems(op[t].victims)
            BY <3>2, <5>1 DEF Elems
          <6>2. g \in files[op[t].victims[p]]
            BY <3>13, <4>2, <6>1
          <6> QED BY <3>4, <3>8, <3>13, <5>1, <6>2 DEF Rewritten
        <5>2. CASE p = op[t].size + 1
          <6>1. g \in files[v]
            BY <3>6, <3>13, <4>2, <5>2
          <6>2. CASE g \in rest
            <7>1. nextId \in Elems(fresh) /\ files'[nextId] = rest
              BY <3>1, <3>4, <6>2, Typed
            <7> QED BY <6>2, <7>1
          <6> QED BY <3>5, <6>1, <6>2
        <5> QED BY <3>2, <5>1, <5>2
      <4>3. /\ op'[t].arg = op[t].arg /\ op'[t].victims = op[t].victims
            /\ op'[t].size = op[t].size + 1 /\ op'[t].fresh = fresh
        BY <3>2, <3>7
      <4> QED BY <3>3, <3>7, <4>1, <4>2, <4>3 DEF Rewritten
    <3>15. Knows(t)'
      <4>1. \A f \in issued' : DevOf[f] = op'[t].arg => f \in doomed'
        BY <2>1, <3>2, <3>7, <3>8 DEF Knows, Deleting
      <4> QED BY <3>3, <3>7, <3>8, <3>14, <4>1 DEF Knows, Merged
    <3>16. at \notin {"copy", "reopen", "swap"} \union Clearing
      BY <3>3 DEF Clearing
    <3> QED BY <2>1, <3>1, <3>8, <3>10, <3>11, <3>15, <3>16, FileStep
  <2> QED BY <2>2, <2>3
<1>5. ASSUME DeleteReplace(t) PROVE DurableInv'
  <2> DEFINE r == [op[t] EXCEPT !.fresh = <<>>, !.size = 0]
  <2>1. /\ pc[t] = "replace" /\ pc' = [pc EXCEPT ![t] = "erase"]
        /\ op' = [op EXCEPT ![t] = r] /\ files' = files /\ walLog' = walLog
        /\ memtable' = memtable /\ scan' = scan /\ issued' = issued /\ racy' = racy
        /\ doomed' = doomed /\ swept' = swept /\ acked' = acked
    BY <1>5 DEF DeleteReplace, disk, history
  <2>2. /\ r.victims = op[t].victims /\ r.arg = op[t].arg
        /\ op[t].victims \in Seq(Ids)
    BY Here DEF Locals
  <2> HIDE DEF r
  <2>3. pc'[t] = "erase" /\ op'[t] = r /\ \A u \in Tasks \ {t} : Untouched(u)
    BY <2>1, OneMoves
  <2>4. Knows(t) /\ t \in Deleters /\ t \notin Writers /\ Rewritten(t)
    BY <2>1, RolesAssumption DEF DurableInv, Knows, Deleting, Rewriting
  <2>5. ASSUME NEW f \in Safe, NEW v \in Elems(op[t].victims), KeyOf[f] \in Keys(files[v])
        PROVE  Above(KeyOf[f], v)
    <3>1. PICK g \in files[v] : KeyOf[g] = KeyOf[f]
      BY <2>5 DEF Keys
    <3>2. v \in Ids /\ f \in Frames /\ g \in Frames
      BY IdsAreNat, Typed DEF Safe
    <3>3. DevOf[g] = DevOf[f]
      BY <3>1, <3>2, FramesAssumption
    <3>4. f \in issued /\ f \notin doomed
      BY DEF Safe, Inserted, DurableInv, Knows, Past, Tasks
    <3>5. DevOf[g] # op[t].arg
      BY <2>1, <2>4, <3>3, <3>4 DEF Knows, Deleting
    <3>6. PICK p \in 1..op[t].size : op[t].victims[p] = v
      <4>1. op[t].size = Len(op[t].victims)
        BY <2>1, <2>4 DEF Rewritten
      <4> QED BY <2>2, <4>1 DEF Elems
    <3>7. PICK x \in Elems(op[t].fresh) : g \in files[x]
      BY <2>4, <3>1, <3>5, <3>6 DEF Rewritten
    <3>8. x \in Ids /\ v < x /\ KeyOf[f] \in Keys(files[x])
      BY <2>4, <3>1, <3>7, IdsAreNat DEF Rewritten, Keys
    <3> QED BY <3>8 DEF Above
  <2>6. ASSUME NEW f \in Safe, NEW n \in Nat, Covered(f, n) PROVE Covered(f, n)'
    <3>1. ASSUME NEW v \in 0..MaxId, Held(KeyOf[f], v)'
          PROVE  Held(KeyOf[f], v) \/ Above(KeyOf[f], v)'
      <4>1. \/ Held(KeyOf[f], v)
            \/ v \in Elems(op[t].victims) /\ KeyOf[f] \in Keys(files[v])
        <5>1. Writes(t) /\ \A i \in Ids : files'[i] = files[i]
          BY <2>1
        <5> QED BY <2>1, <2>2, <2>3, <3>1, <5>1, HeldStep
      <4>2. Above(KeyOf[f], v) => Above(KeyOf[f], v)'
        BY <2>1 DEF Above
      <4> QED BY <2>5, <4>1, <4>2
    <3>2. \A j \in Ids : /\ j # 0 /\ KeyOf[f] \in Keys(files[j]) => KeyOf[f] \in Keys(files'[j])
                         /\ j = 0 /\ KeyOf[f] \in Keys(files[j]) => Held(KeyOf[f], j)
      BY <2>1
    <3>3. MaxId \in Nat
      BY Typed
    <3> QED BY <2>6, <3>1, <3>2, <3>3, CoverKept
  <2>7. Knows(t)'
    <3>1. \A f \in issued' : DevOf[f] = op'[t].arg => f \in doomed'
      BY <2>1, <2>2, <2>3, <2>4 DEF Knows, Deleting
    <3> QED BY <2>3, <2>4, <3>1 DEF Knows, Merged, Rewriting
  <2> QED BY <2>1, <2>4, <2>6, <2>7, FileStep DEF Clearing
<1>6. ASSUME DeleteErase(t) PROVE DurableInv'
  <2> DEFINE r == [op[t] EXCEPT !.victims = Tail(op[t].victims)]
             at == IF Len(op[t].victims) = 1 THEN "unregister" ELSE "erase"
  <2>1. /\ pc[t] = "erase" /\ files' = [files EXCEPT ![Head(op[t].victims)] = {}]
        /\ pc' = [pc EXCEPT ![t] = at] /\ op' = [op EXCEPT ![t] = r]
        /\ walLog' = walLog /\ memtable' = memtable /\ scan' = scan
        /\ issued' = issued /\ racy' = racy /\ doomed' = doomed /\ swept' = swept
        /\ acked' = acked
    BY <1>6 DEF DeleteErase, memory, history
  <2>2. r.victims = Tail(op[t].victims) /\ r.arg = op[t].arg
    BY Here DEF Locals
  <2>3. at \in {"unregister", "erase"}
    OBVIOUS
  <2> HIDE DEF r, at
  <2>4. pc'[t] = at /\ op'[t] = r
    BY <2>1, OneMoves
  <2>5. Knows(t) /\ t \in Deleters /\ t \notin Writers /\ pc[t] \in Leaving
    BY <2>1, RolesAssumption DEF DurableInv, Knows, Deleting, Leaving
  <2>6. Knows(t)'
    <3>1. \A f \in issued' : DevOf[f] = op'[t].arg => f \in doomed'
      BY <2>1, <2>2, <2>4, <2>5 DEF Knows, Deleting
    <3> QED BY <2>3, <2>4, <2>5, <3>1 DEF Knows, Merged, Rewriting
  <2>7. at \notin {"copy", "reopen", "swap"} \union Clearing
    BY <2>3 DEF Clearing
  <2> QED BY <2>1, <2>2, <2>5, <2>6, <2>7, EraseStep
<1>7. ASSUME DeleteUnregister(t) PROVE DurableInv'
  <2>1. /\ pc' = [pc EXCEPT ![t] = "idle"] /\ op' = [op EXCEPT ![t] = NoOp]
        /\ files' = files /\ walLog' = walLog /\ memtable' = memtable /\ scan' = scan
        /\ issued' = issued /\ racy' = racy /\ doomed' = doomed /\ swept' = swept
        /\ acked' = acked
    BY <1>7 DEF DeleteUnregister, disk
  <2> QED BY <2>1, StillEnd
<1> QED BY <1>1, <1>2, <1>3, <1>4, <1>5, <1>6, <1>7 DEF Delete

\* The retention check removes only what it has declared swept.
LEMMA SweepDurableOK ==
  ASSUME IdInv, ListInv, DurableInv, IdInv', NEW t \in Tasks, Writes(t), Sweep(t)
  PROVE  DurableInv'
<1>1. ASSUME SweepSelect(t) PROVE DurableInv'
  <2> DEFINE expired == {i \in Elems(sstables) : Expires(i)}
             r == [op[t] EXCEPT !.expired = expired]
  <2>1. /\ t \in Sweepers /\ pc' = [pc EXCEPT ![t] = "sweep"] /\ op' = [op EXCEPT ![t] = r]
        /\ files' = files /\ walLog' = walLog /\ memtable' = memtable /\ scan' = scan
        /\ issued' = issued /\ racy' = racy /\ doomed' = doomed /\ swept' = swept
        /\ acked' = acked
    BY <1>1 DEF SweepSelect, disk, memory, history
  <2> HIDE DEF r
  <2>2. t \notin Writers
    BY <2>1, RolesAssumption
  <2>3. Plain("sweep") /\ "sweep" \notin Clearing
    BY DEF Plain, Deleting, Clearing
  <2> QED BY <2>1, <2>2, <2>3, StillMove
<1>2. ASSUME NEW i \in op[t].expired, SweepUnlist(t, i) PROVE DurableInv'
  <2> DEFINE r == [op[t] EXCEPT !.expired = op[t].expired \ {i}, !.id = i]
  <2>1. /\ pc[t] = "sweep" /\ pc' = [pc EXCEPT ![t] = "remove"] /\ op' = [op EXCEPT ![t] = r]
        /\ files' = files /\ walLog' = walLog /\ memtable' = memtable /\ scan' = scan
        /\ issued' = issued /\ racy' = racy /\ doomed' = doomed
        /\ swept' = swept \union files[i] /\ acked' = acked
    BY <1>2 DEF SweepUnlist, disk
  <2>2. r.id = i /\ r.arg = op[t].arg
    BY Here DEF Locals
  <2> HIDE DEF r
  <2>3. pc'[t] = "remove" /\ op'[t] = r /\ \A u \in Tasks \ {t} : Untouched(u)
    BY <2>1, OneMoves
  <2>4. Knows(t) /\ Past(pc[t]) /\ swept \subseteq swept'
    BY <2>1 DEF DurableInv, Past
  <2>5. Knows(t)'
    <3>1. t \in Writers => op'[t].arg \in issued'
      BY <2>1, <2>2, <2>3, <2>4 DEF Knows
    <3>2. files'[op'[t].id] \subseteq swept'
      BY <2>1, <2>2, <2>3
    <3> QED BY <2>3, <3>1, <3>2 DEF Knows, Merged, Deleting, Rewriting
  <2>6. /\ pc'[t] \notin Leaving /\ pc'[t] # "copy" /\ pc'[t] \notin Clearing
        /\ ~InWindow(t)'
    BY <2>3 DEF Leaving, Clearing, InWindow
  <2>7. \A u \in Tasks \ {t} : op'[u] = op[u]
    BY <2>1 DEF IdInv, TypeOK, TasksType
  <2>8. \A f \in Safe : f \in Safe' =>
          /\ InLog(f) => InLog(f)'
          /\ \A u \in Tasks \ {t} : pc[u] = "copy" /\ f \in op[u].must => f \in op'[u].must
    BY <2>1, <2>7 DEF InLog
  <2> QED BY <2>1, <2>2, <2>3, <2>4, <2>5, <2>6, <2>8, StillStep
<1>3. ASSUME SweepErase(t) PROVE DurableInv'
  <2> DEFINE r == [op[t] EXCEPT !.id = 0]
             at == IF op[t].expired = {} THEN "idle" ELSE "sweep"
             e == op[t].id
  <2>1. /\ pc[t] = "remove" /\ pc' = [pc EXCEPT ![t] = at] /\ op' = [op EXCEPT ![t] = r]
        /\ files' = [files EXCEPT ![e] = {}] /\ walLog' = walLog /\ memtable' = memtable
        /\ scan' = scan /\ issued' = issued /\ racy' = racy /\ doomed' = doomed
        /\ swept' = swept /\ acked' = acked
    BY <1>3 DEF SweepErase, memory, history
  <2>2. r.arg = op[t].arg /\ e \in Ids
    BY <2>1, Here DEF Locals, Fits
  <2>3. at \in {"idle", "sweep"}
    OBVIOUS
  <2> HIDE DEF r, at
  <2>4. pc'[t] = at /\ op'[t] = r /\ \A u \in Tasks \ {t} : Untouched(u)
    BY <2>1, OneMoves
  <2>5. Knows(t) /\ Past(pc[t]) /\ files[e] \subseteq swept
    BY <2>1 DEF DurableInv, Past, Knows
  <2> HIDE DEF e
  <2>6. \A i \in Ids : IF i = e THEN files'[i] = {} ELSE files'[i] = files[i]
    BY <2>1, Typed
  <2>7. ASSUME NEW f \in Safe, NEW n \in Nat, Covered(f, n) PROVE Covered(f, n)'
    <3>1. \A v \in 0..MaxId : Held(KeyOf[f], v)' => Held(KeyOf[f], v)
      BY <2>3, <2>4, <2>6, HeldStep DEF Leaving
    <3>2. \A j \in Ids : /\ j # e /\ KeyOf[f] \in Keys(files[j]) => KeyOf[f] \in Keys(files'[j])
                         /\ j = e /\ KeyOf[f] \in Keys(files[j]) => Held(KeyOf[f], j)
      <4>1. KeyOf[f] \notin Keys(files[e])
        BY <2>5 DEF Safe, Keys
      <4> QED BY <2>6, <4>1
    <3>3. MaxId \in Nat /\ e \in Nat
      BY <2>2, Typed
    <3> QED BY <2>7, <3>1, <3>2, <3>3, CoverKept
  <2>8. Knows(t)'
    <3>1. t \in Writers => op'[t].arg \in issued'
      BY <2>1, <2>2, <2>4, <2>5 DEF Knows
    <3> QED BY <2>3, <2>4, <3>1, PlainKnows DEF Plain, Deleting
  <2>9. at \notin {"copy", "reopen", "swap"} \union Clearing
    BY <2>3 DEF Clearing
  <2> QED BY <2>1, <2>2, <2>5, <2>6, <2>7, <2>8, <2>9, FileStep
<1> QED BY <1>1, <1>2, <1>3 DEF Sweep

\* A query changes nothing.
LEMMA QueryDurableOK ==
  ASSUME IdInv, ListInv, DurableInv, IdInv', NEW t \in Tasks, Query(t) PROVE DurableInv'
<1>1. /\ files' = files /\ walLog' = walLog /\ memtable' = memtable /\ scan' = scan
      /\ issued' = issued /\ racy' = racy /\ doomed' = doomed /\ swept' = swept
      /\ acked' = acked
  BY DEF Query, QueryMemtable, QueryTables, QueryReply, disk, memory, history
<1>2. ASSUME NEW d \in Devices, QueryMemtable(t, d) PROVE DurableInv'
  <2>1. PICK r : pc' = [pc EXCEPT ![t] = "tables"] /\ op' = [op EXCEPT ![t] = r]
    BY <1>2 DEF QueryMemtable
  <2>2. t \notin Writers
    BY <1>2, RolesAssumption DEF QueryMemtable
  <2>3. Plain("tables") /\ "tables" \notin Clearing
    BY DEF Plain, Deleting, Clearing
  <2> QED BY <1>1, <2>1, <2>2, <2>3, StillMove
<1>3. ASSUME QueryTables(t) PROVE DurableInv'
  <2>1. CASE Fail(t)
    BY <1>1, <2>1, StillEnd
  <2>2. CASE ~Fail(t)
    <3> DEFINE r == [op[t] EXCEPT !.must = op[t].must \union (Listed \intersect FramesOf(op[t].arg))]
    <3>1. /\ pc[t] = "tables" /\ pc' = [pc EXCEPT ![t] = "answer"]
          /\ op' = [op EXCEPT ![t] = r]
      BY <1>3, <2>2 DEF QueryTables
    <3>2. r.arg = op[t].arg
      BY Here DEF Locals
    <3> HIDE DEF r
    <3>3. Plain("answer") /\ "answer" \notin Clearing /\ Past(pc[t])
      BY <3>1 DEF Plain, Deleting, Clearing, Past
    <3> QED BY <1>1, <3>1, <3>2, <3>3, StillMove
  <2> QED BY <2>1, <2>2
<1>4. ASSUME QueryReply(t) PROVE DurableInv'
  <2>1. pc' = [pc EXCEPT ![t] = "idle"] /\ op' = [op EXCEPT ![t] = NoOp]
    BY <1>4 DEF QueryReply
  <2> QED BY <1>1, <2>1, StillEnd
<1> QED BY <1>2, <1>3, <1>4 DEF Query

\* A task that runs nothing relies on nothing.
LEMMA IdleDurable ==
  ASSUME NEW t \in Tasks
  PROVE  (pc[t] = "idle" => Knows(t)) /\ (pc'[t] = "idle" => Knows(t)')
  BY DEF Knows, Merged, Deleting, Rewriting

\* A crash keeps log and tables, and leaves no task that would remove one.
LEMMA CrashDurableOK == ASSUME IdInv, DurableInv, Crash PROVE DurableInv'
<1>1. /\ pc' = [t \in Tasks |-> "idle"] /\ scan' = 1 /\ walLog' = walLog /\ files' = files
      /\ issued' = issued /\ acked' = acked /\ racy' = racy /\ doomed' = doomed
      /\ swept' = swept
  BY DEF Crash
<1>2. \A t \in Tasks : pc'[t] = "idle"
  BY <1>1
<1>3. \A t \in Tasks : Knows(t)'
  BY <1>2, IdleDurable
<1>4. ASSUME NEW f \in Safe' PROVE Covered(f, Reach(f))'
  <2>1. f \in Safe
    <3>1. Inserted(f)' => f \in acked
      BY <1>1, <1>2 DEF Inserted, Past, Tasks
    <3> QED BY <1>1, <3>1 DEF Safe, Inserted
  <2>2. Covered(f, Reach(f)) /\ MaxId \in Nat
    BY <2>1, Typed DEF DurableInv, Covers
  <2>3. \A v \in 0..MaxId : Held(KeyOf[f], v)' => v = 0
    BY <1>2 DEF Held, Leaving
  <2>4. Held(KeyOf[f], 0)
    BY DEF Held
  <2>5. CASE f \in walLog
    <3>1. Reach(f)' = MaxId + 1
      BY <1>1, <2>5 DEF Reach, InLog
    <3> QED BY <2>2, <3>1 DEF Covered
  <2>6. CASE f \notin walLog
    <3>1. Reach(f) = 0
      BY <2>6 DEF Reach, InLog
    <3>2. Above(KeyOf[f], 0)
      BY <2>2, <2>4, <3>1 DEF Covered
    <3>3. Above(KeyOf[f], 0)'
      BY <1>1, <3>2 DEF Above
    <3> QED BY <2>3, <3>3 DEF Covered
  <2> QED BY <2>5, <2>6
<1>5. Covers'
  BY <1>2, <1>4 DEF Covers, Clearing
<1>6. acked' \subseteq issued'
  BY <1>1 DEF DurableInv
<1> QED BY <1>3, <1>5, <1>6 DEF DurableInv

\* What DurableInv speaks of, but for what serves: the log is still as far as it reaches.
LEMMA SameDurable ==
  ASSUME DurableInv, pc' = pc, op' = op, files' = files, issued' = issued, acked' = acked,
         racy' = racy, doomed' = doomed, swept' = swept, walLog' = walLog,
         \A f : Reach(f)' = Reach(f)
  PROVE  DurableInv'
<1>1. Safe' = Safe /\ FlushRunning' = FlushRunning
  BY DEF Safe, Inserted, FlushRunning, InWindow
<1>2. \A f : \A n : Covered(f, n)' <=> Covered(f, n)
  BY DEF Covered, Held, Above
<1>3. \A t \in Tasks : \A f : CopyReach(t, f)' = CopyReach(t, f)
  BY DEF CopyReach
<1>4. Covers'
  <2>1. ASSUME NEW f \in Safe' PROVE Covered(f, Reach(f))'
    <3>1. Covered(f, Reach(f))
      BY <1>1, <2>1 DEF DurableInv, Covers
    <3>2. Reach(f)' = Reach(f)
      OBVIOUS
    <3> QED BY <3>1, <3>2 DEF Covered, Held, Above
  <2>2. ASSUME NEW t \in Tasks, NEW f \in Safe', pc'[t] = "copy"
        PROVE  Covered(f, CopyReach(t, f))'
    <3>1. Covered(f, CopyReach(t, f))
      BY <1>1, <2>2 DEF DurableInv, Covers
    <3> QED BY <1>3, <3>1 DEF Covered, Held, Above
  <2>3. ASSUME NEW t \in Tasks, NEW f \in Safe', pc'[t] \in Clearing
        PROVE  Covered(f, 0)'
    <3>1. Covered(f, 0)
      BY <1>1, <2>3 DEF DurableInv, Covers
    <3> QED BY <3>1 DEF Covered, Held, Above
  <2> QED BY <2>1, <2>2, <2>3 DEF Covers
<1>5. ASSUME NEW t \in Tasks PROVE Knows(t)'
  <2>1. Knows(t)
    BY DEF DurableInv
  <2>2. (Merged(t)' <=> Merged(t)) /\ (Rewritten(t)' <=> Rewritten(t))
    BY DEF Merged, Rewritten
  <2> QED BY <1>1, <2>1, <2>2 DEF Knows
<1> QED BY <1>4, <1>5 DEF DurableInv

\* Recovery changes no file, and replays the log into the memtable before it serves.
LEMMA RecoverDurableOK == ASSUME IdInv, DurableInv, Recover PROVE DurableInv'
<1>1. /\ pc' = pc /\ op' = op /\ files' = files /\ walLog' = walLog /\ issued' = issued
      /\ acked' = acked /\ racy' = racy /\ doomed' = doomed /\ swept' = swept
      /\ scan # 0
      /\ scan' = 0 => memtable' = walLog
  BY Typed DEF Recover, RecoverOpen, RecoverServe, disk, history, IdInv, TypeOK, MemoryType
<1>2. \A f : Reach(f)' = Reach(f)
  BY <1>1 DEF Reach, InLog
<1> QED BY <1>1, <1>2, SameDurable

\* Every step keeps DurableInv.
LEMMA DurableStep == IdInv /\ ListInv /\ DurableInv /\ [Next]_vars => DurableInv'
<1> SUFFICES ASSUME IdInv, ListInv, DurableInv, [Next]_vars PROVE DurableInv'
  OBVIOUS
<1>1. IdInv'
  BY IdStep
<1>2. CASE UNCHANGED vars
  <2>1. /\ pc' = pc /\ op' = op /\ files' = files /\ walLog' = walLog /\ issued' = issued
        /\ acked' = acked /\ racy' = racy /\ doomed' = doomed /\ swept' = swept
        /\ memtable' = memtable /\ scan' = scan
    BY <1>2 DEF vars, disk, memory, history
  <2>2. \A f : Reach(f)' = Reach(f)
    BY <2>1 DEF Reach, InLog
  <2> QED BY <2>1, <2>2, SameDurable
<1>3. ASSUME NEW t \in Tasks,
             Write(t) \/ Flush(t) \/ Compact(t) \/ Delete(t) \/ Sweep(t) \/ Query(t)
      PROVE  DurableInv'
  <2>1. Writes(t)
    BY <1>3, TaskKeepsList
  <2> QED BY <1>1, <1>3, <2>1, WriteDurableOK, FlushDurableOK, CompactDurableOK,
             DeleteDurableOK, SweepDurableOK, QueryDurableOK
<1>4. CASE Crash
  BY <1>4, CrashDurableOK
<1>5. CASE Recover
  BY <1>5, RecoverDurableOK
<1> QED BY <1>2, <1>3, <1>4, <1>5 DEF Next

\* Nothing has been written yet.
LEMMA DurableInit == Init => DurableInv
<1> SUFFICES ASSUME Init PROVE DurableInv
  OBVIOUS
<1>1. pc = [t \in Tasks |-> "idle"] /\ acked = {} /\ issued = {}
  BY DEF Init
<1>2. \A t \in Tasks : pc[t] = "idle" /\ Knows(t)
  BY <1>1, IdleDurable
<1>3. Safe = {}
  BY <1>1, <1>2 DEF Safe, Inserted, Past, Tasks
<1> QED BY <1>1, <1>2, <1>3 DEF DurableInv, Covers

----------------------------------------------------------------------------

\* IdInv, ListInv and DurableInv hold throughout.
THEOREM DurableInductive == Spec => [](IdInv /\ ListInv /\ DurableInv)
<1>1. Init => IdInv /\ ListInv /\ DurableInv
  BY IdInit, ListInit, DurableInit
<1>2. (IdInv /\ ListInv /\ DurableInv) /\ [Next]_vars => (IdInv /\ ListInv /\ DurableInv)'
  BY IdStep, ListInvStep, DurableStep
<1> QED BY <1>1, <1>2, PTL DEF Spec

\* A frame for which StorageEngine::write returned Ok is in the log or in a table at every
\* moment, but for the exceptions of Durable: whatever flushes, compactions, deletions and
\* retention checks run, and wherever the process crashes.
THEOREM DurableAlways == Spec => []Durable
<1>1. IdInv /\ DurableInv => Durable
  <2> SUFFICES ASSUME IdInv, DurableInv, NEW f \in acked \ (racy \union doomed),
                      KeyOf[f] \notin Keys(swept)
               PROVE  KeyOf[f] \in Keys(walLog \union Stored)
    BY DEF Durable, Owed, Keys
  <2>1. f \in Safe
    BY Typed DEF Safe, Inserted
  <2>2. Covered(f, Reach(f)) /\ Held(KeyOf[f], 0) /\ MaxId \in Nat
    BY <2>1, Typed DEF DurableInv, Covers, Held
  <2>3. CASE f \in walLog
    BY <2>3 DEF Keys
  <2>4. CASE f \notin walLog
    <3>1. Reach(f) = 0
      BY <2>4 DEF Reach, InLog
    <3>2. PICK j \in Ids : KeyOf[f] \in Keys(files[j])
      BY <2>2, <3>1 DEF Covered, Above
    <3> QED BY <3>2 DEF Keys, Stored
  <2> QED BY <2>3, <2>4
<1> QED BY <1>1, DurableInductive, PTL
=============================================================================
