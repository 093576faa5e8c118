---------------------------- MODULE NoVoHTProofs ----------------------------
(***************************************************************************)
(* Proofs about the table of a ZHT server, for any keys, values, hash      *)
(* function, sizes and thresholds.  The chains stay linked; so the table   *)
(* finds exactly the pairs that are stored, and is a store of pairs from   *)
(* one restart to the next; and a position leads to a record of its own    *)
(* key, whatever the rewriting thread does in between.  Between rewrites   *)
(* the file holds the table, but for what has gone astray, and a restart   *)
(* reads nothing else out of it.                                           *)
(*                                                                         *)
(* That a chain with pairs has a first one, as remove and the rewriting    *)
(* thread rely on, needs the chains to be linked: types and links are one  *)
(* inductive invariant.                                                    *)
(***************************************************************************)
EXTENDS NoVoHT, FiniteSetTheorems, SequenceTheorems, WellFoundedInduction, TLAPS

RwRecords == [phase : {"off", "begin", "walk"}, slot : Nat, at : Keys \union {NoKey}]

PendingRecords ==
  [do : {"idle", "put", "write", "append", "swap", "join"},
   key : Keys \union {NoKey}, piece : Vals \union {<<>>}]

\* The types of the table.  There are finitely many pairs.
TableOK ==
  /\ size \in Nat \ {0}
  /\ numEl \in Int
  /\ stored \subseteq Keys
  /\ IsFiniteSet(stored)
  /\ slot \in [Keys -> Nat]
  /\ ahead \in [Keys -> SUBSET Keys]
  /\ val \in [Keys -> Seq(Vals)]
  /\ diff \subseteq stored

FileOK ==
  /\ pos \in [Keys -> SUBSET Nat]
  /\ file \in Seq(Records)
  /\ disk \in Seq(Records)
  /\ garbled \in BOOLEAN

\* The record that is due has a key, and what was appended is a piece.
ThreadsOK ==
  /\ nRem \in Nat
  /\ rw \in RwRecords
  /\ pending \in PendingRecords
  /\ pending.do \in {"write", "append"} => pending.key \in Keys
  /\ pending.do = "append" => pending.piece \in Vals

FlagsOK ==
  /\ instantSwap \in BOOLEAN
  /\ wild \in BOOLEAN
  /\ astray \subseteq Keys

Shape == TableOK /\ FileOK /\ ThreadsOK /\ FlagsOK

Linked == Shape /\ ChainsLinked

LEMMA ShapeIsType == Shape => TypeOK
BY DEF Shape, TableOK, FileOK, ThreadsOK, FlagsOK, TypeOK, RwRecords, PendingRecords

-----------------------------------------------------------------------------
(***************************************************************************)
(* A chain has a first pair.                                               *)
(***************************************************************************)
LEMMA FirstExists ==
  ASSUME Linked, NEW i, Chain(i) # {}
  PROVE  First(i) \in Chain(i) /\ ahead[First(i)] = {}
<1> DEFINE T == {ahead[k] : k \in Chain(i)}
           R == StrictSubsetOrdering(stored)
<1>1. \A k \in Chain(i) : k \in Keys /\ k \in stored /\ slot[k] = i /\ ahead[k] \subseteq Chain(i)
  BY DEF Linked, Shape, TableOK, ChainsLinked, Chain
<1>2. \A S \in SUBSET stored : IsFiniteSet(S)
  BY FS_Subset DEF Linked, Shape, TableOK
<1>3. T \subseteq FiniteSubsetsOf(stored) /\ T # {}
  BY <1>1, <1>2 DEF FiniteSubsetsOf, Chain
<1>4. PICK x \in T : \A y \in T : <<y, x>> \notin R
  <2>1. IsWellFoundedOn(R, FiniteSubsetsOf(stored))
    BY FS_StrictSubsetOrderingWellFounded
  <2>2. QED
    BY <1>3, <2>1, WFMin
<1>5. PICK k \in Chain(i) : x = ahead[k]
  BY <1>4
<1>6. ahead[k] = {}
  <2>1. SUFFICES ASSUME NEW j \in ahead[k]
                 PROVE  FALSE
    OBVIOUS
  <2>2. j \in Chain(i) /\ ahead[j] \subseteq ahead[k] /\ j \notin ahead[j]
    BY <1>1, <1>5 DEF Linked, ChainsLinked, Chain
  <2>3. ahead[j] \in SUBSET stored /\ ahead[k] \in SUBSET stored /\ ahead[j] # ahead[k]
    BY <1>1, <2>2 DEF Chain
  <2>4. <<ahead[j], ahead[k]>> \in R
    BY <2>2, <2>3 DEF StrictSubsetOrdering
  <2>5. QED
    BY <1>4, <1>5, <2>2, <2>4
<1>7. QED
  BY <1>6 DEF First

LEMMA HashInRange ==
  ASSUME NEW k \in Keys, NEW n \in Nat \ {0}
  PROVE  Hash[k] % n \in Nat
BY NoVoHTAssumption DEF NoVoHTAssumption

\* What comes after a pair is a pair of the same chain, or none.
LEMMA AfterInKeys ==
  ASSUME TableOK, NEW k
  PROVE  After(k) \in Keys \union {NoKey}
BY DEF After, Chain, TableOK

-----------------------------------------------------------------------------
(***************************************************************************)
(* Records and the file.                                                   *)
(***************************************************************************)
LEMMA RecordType ==
  ASSUME NEW k \in Keys, NEW piece \in Seq(Vals)
  PROVE  Record(k, piece) \in Records /\ Record(k, piece).key = k
BY DEF Record, Records

\* A marked file has the records it had, some of them dead.
LEMMA MarkedKeeps ==
  ASSUME NEW plist, file \in Seq(Records)
  PROVE  /\ Marked(plist) \in Seq(Records)
         /\ Len(Marked(plist)) = Len(file)
         /\ \A i \in DOMAIN file : Marked(plist)[i].key = file[i].key
<1> DEFINE M(i) == [file[i] EXCEPT !.dead = @ \/ i \in plist]
<1>1. ASSUME NEW i \in DOMAIN file
      PROVE  M(i) \in Records /\ M(i).key = file[i].key
  <2>1. file[i] \in Records
    OBVIOUS
  <2>2. (file[i].dead \/ i \in plist) \in BOOLEAN
    OBVIOUS
  <2>3. M(i) = [file[i] EXCEPT !.dead = (file[i].dead \/ i \in plist)]
    OBVIOUS
  <2> HIDE DEF M
  <2>4. QED
    BY <2>1, <2>2, <2>3 DEF Records
<1>2. Marked(plist) = [i \in DOMAIN file |-> M(i)]
  BY DEF Marked
<1> HIDE DEF M
<1>3. DOMAIN file = 1..Len(file) /\ Len(file) \in Nat
  OBVIOUS
<1>4. QED
  BY <1>1, <1>2, <1>3

LEMMA MarkKeeps ==
  ASSUME FileOK, NEW plist, Mark(plist)
  PROVE  /\ file' \in Seq(Records) /\ disk' \in Seq(Records)
         /\ garbled' \in BOOLEAN
         /\ Len(file') = Len(file)
         /\ \A i \in DOMAIN file : file'[i].key = file[i].key
<1>1. file \in Seq(Records) /\ disk \in Seq(Records) /\ garbled \in BOOLEAN
  BY DEF FileOK
<1>2. CASE Rewriting \/ plist = {}
  BY <1>1, <1>2 DEF Mark
<1>3. CASE ~(Rewriting \/ plist = {})
  <2>1. file' = Marked(plist) /\ disk' = Marked({i \in plist : \E j \in plist : j < i})
    BY <1>3 DEF Mark
  <2>2. garbled' = (garbled \/ Foreign \in plist)
    BY <1>3 DEF Mark
  <2>3. garbled' \in BOOLEAN
    BY <2>2, Zenon
  <2>4. QED
    BY <1>1, <2>1, <2>3, MarkedKeeps
<1>4. QED
  BY <1>2, <1>3

\* What is read back after a crash is a file, and at most one record of it is put again.
LEMMA KernelType ==
  ASSUME FileOK, NEW f \in Kernel
  PROVE  f \in Seq(Records)
<1>1. file \in Seq(Records) /\ disk \in Seq(Records)
  BY DEF FileOK
<1>2. PICK n \in Len(disk)..Len(file) : f = disk \o SubSeq(file, Len(disk) + 1, n)
  BY DEF Kernel
<1>3. \A i \in Len(disk) + 1 .. n : file[i] \in Records
  BY <1>1, <1>2
<1>4. SubSeq(file, Len(disk) + 1, n) \in Seq(Records)
  BY <1>1, <1>2, <1>3, SubSeqProperties
<1>5. QED
  BY <1>1, <1>2, <1>4, ConcatProperties

LEMMA RecoveredType ==
  ASSUME NEW f \in Seq(Records), NEW r \in Recovered(f)
  PROVE  r = <<>> \/ \E x \in Records : r = <<x>>
<1>1. CASE garbled
  <2>1. Guessed \subseteq Records
    <3>1. ASSUME NEW x \in Guessed
          PROVE  x.piece \in Seq(Vals)
      <4>1. PICK v \in Vals : x.piece = <<v>>
        BY DEF Guessed
      <4>2. <<v>> \in Seq(Vals)
        OBVIOUS
      <4>3. QED
        BY <4>1, <4>2
    <3>2. QED
      BY <3>1 DEF Guessed, Records
  <2>2. r = <<>> \/ \E x \in Guessed : r = <<x>>
    BY <1>1 DEF Recovered
  <2>3. QED
    BY <2>1, <2>2
<1>2. CASE ~garbled
  <2>1. r = <<>> \/ \E i \in DOMAIN f : r = SubSeq(f, i, i)
    BY <1>2 DEF Recovered, Live
  <2>2. ASSUME NEW i \in DOMAIN f
        PROVE  SubSeq(f, i, i) = <<f[i]>> /\ f[i] \in Records
    <3>1. i \in Int /\ f[i] \in Records
      OBVIOUS
    <3>2. \A j \in i .. i : f[j] \in Records
      BY <3>1
    <3>3. /\ SubSeq(f, i, i) \in Seq(Records)
          /\ Len(SubSeq(f, i, i)) = 1
          /\ SubSeq(f, i, i)[1] = f[i]
      BY <3>1, <3>2, SubSeqProperties
    <3>4. <<f[i]>> \in Seq(Records) /\ Len(<<f[i]>>) = 1 /\ <<f[i]>>[1] = f[i]
      BY <3>1
    <3>5. SubSeq(f, i, i) = <<f[i]>>
      <4>1. \A j \in 1 .. Len(SubSeq(f, i, i)) : SubSeq(f, i, i)[j] = <<f[i]>>[j]
        BY <3>3, <3>4
      <4>2. QED
        BY <3>3, <3>4, <4>1, SeqEqual, Zenon
    <3>6. QED
      BY <3>1, <3>5
  <2>3. QED
    BY <2>1, <2>2
<1>3. QED
  BY <1>1, <1>2

-----------------------------------------------------------------------------
(***************************************************************************)
(* The types.                                                              *)
(***************************************************************************)
LEMMA WriteFileType ==
  ASSUME ThreadsOK, WriteFile
  PROVE  rw' \in RwRecords
BY DEF ThreadsOK, WriteFile, Off, Begin, RwRecords

LEMMA MayRaceType ==
  ASSUME NEW k, MayRace(k)
  PROVE  wild' \in BOOLEAN
BY DEF MayRace

LEMMA StraysType ==
  ASSUME FlagsOK, NEW ks \in SUBSET Keys, Strays(ks)
  PROVE  astray' \subseteq Keys
BY DEF FlagsOK, Strays

LEMMA DoneType == Done \in PendingRecords /\ Done.do \notin {"put", "write", "append"}
BY DEF Done, Idle, PendingRecords

\* What a put or an append leaves the thread to do.
LEMMA ThenType ==
  ASSUME NEW do \in {"put", "write", "append"}, NEW k \in Keys, NEW v \in Vals, Then(do, k, v)
  PROVE  /\ pending' \in PendingRecords
         /\ pending'.do = do /\ pending'.key = k /\ pending'.piece = v
BY DEF Then, PendingRecords

LEMMA ResizeType ==
  ASSUME Shape, NEW k \in Keys, NEW v \in Vals, Resize(k, v)
  PROVE  Shape'
<1>1. 2 * size \in Nat \ {0}
  BY DEF Shape, TableOK
<1>2. /\ Rehashed(2 * size) \in [Keys -> Nat]
      /\ Turned(2 * size) \in [Keys -> SUBSET Keys]
  BY <1>1, HashInRange DEF Rehashed, Turned, Shape, TableOK
<1>3. TableOK'
  BY <1>1, <1>2 DEF Resize, Shape, TableOK
<1>4. FlagsOK'
  BY DEF Resize, Shape, FlagsOK
<1>5. ThreadsOK'
  BY ThenType DEF Resize, Shape, ThreadsOK
<1>6. FileOK'
  BY DEF Resize, Shape, FileOK, fileVars
<1>7. QED
  BY <1>3, <1>4, <1>5, <1>6 DEF Shape

LEMMA NewPairType ==
  ASSUME Shape, NEW k \in Keys, NEW v \in Vals, NewPair(k, v),
         ahead' \in [Keys -> SUBSET Keys]
  PROVE  Shape'
<1>1. <<v>> \in Seq(Vals) /\ Hash[k] % size \in Nat
  BY HashInRange DEF Shape, TableOK
<1>2. IsFiniteSet(stored')
  BY FS_AddElement DEF NewPair, Shape, TableOK
<1>3. /\ size' = size /\ numEl' = numEl + 1
      /\ stored' = stored \union {k}
      /\ slot' = [slot EXCEPT ![k] = Hash[k] % size]
      /\ val' = [val EXCEPT ![k] = <<v>>]
      /\ diff' \subseteq diff \union {k}
  BY DEF NewPair
<1>4. TableOK'
  BY <1>1, <1>2, <1>3 DEF Shape, TableOK
<1>5. FlagsOK'
  BY StraysType DEF NewPair, Shape, FlagsOK
<1>6. ThreadsOK'
  BY ThenType DEF NewPair, Shape, ThreadsOK
<1>7. FileOK'
  BY DEF NewPair, Shape, FileOK, fileVars
<1>8. QED
  BY <1>4, <1>5, <1>6, <1>7 DEF Shape

LEMMA PutNewType ==
  ASSUME Shape, NEW k \in Keys, NEW v \in Vals, PutNew(k, v)
  PROVE  Shape'
<1>1. ahead' \in [Keys -> SUBSET Keys]
  BY DEF PutNew, Chain, Shape, TableOK
<1>2. QED
  BY <1>1, NewPairType DEF PutNew

LEMMA AppendNewType ==
  ASSUME Shape, NEW k \in Keys, NEW v \in Vals, AppendNew(k, v)
  PROVE  Shape'
<1>1. ahead' \in [Keys -> SUBSET Keys]
  BY DEF AppendNew, Shape, TableOK
<1>2. QED
  BY <1>1, NewPairType DEF AppendNew

LEMMA PutOldType ==
  ASSUME Shape, NEW k \in Keys, NEW v \in Vals, PutOld(k, v)
  PROVE  Shape'
<1>1. <<v>> \in Seq(Vals)
  OBVIOUS
<1>2. TableOK'
  BY <1>1 DEF PutOld, Shape, TableOK
<1>3. FileOK'
  BY MarkKeeps DEF PutOld, Shape, FileOK
<1>4. ThreadsOK'
  BY ThenType DEF PutOld, Shape, ThreadsOK
<1>5. FlagsOK'
  BY StraysType, MayRaceType DEF PutOld, Shape, FlagsOK
<1>6. QED
  BY <1>2, <1>3, <1>4, <1>5 DEF Shape

LEMMA AppendOldType ==
  ASSUME Shape, NEW k \in Keys, NEW v \in Vals, AppendOld(k, v)
  PROVE  Shape'
<1>1. Append(val[k], v) \in Seq(Vals)
  BY DEF Shape, TableOK
<1>2. TableOK'
  BY <1>1 DEF AppendOld, Shape, TableOK
<1>3. FileOK'
  BY DEF AppendOld, Shape, FileOK, fileVars
<1>4. ThreadsOK'
  BY ThenType DEF AppendOld, Shape, ThreadsOK
<1>5. FlagsOK'
  BY StraysType, MayRaceType DEF AppendOld, Shape, FlagsOK
<1>6. QED
  BY <1>2, <1>3, <1>4, <1>5 DEF Shape

\* The removed pair's chain has a first pair: it is not empty.
LEMMA FirstOfFound ==
  ASSUME Linked, NEW k \in Keys, Found(k)
  PROVE  First(slot[k]) \in stored /\ First(slot[k]) \in Keys
<1>1. k \in Chain(slot[k])
  BY DEF Found, Chain
<1>2. First(slot[k]) \in Chain(slot[k])
  BY <1>1, FirstExists
<1>3. QED
  BY <1>2 DEF Chain, Linked, Shape, TableOK

LEMMA RemoveType ==
  ASSUME Linked, NEW k \in Keys, Remove(k)
  PROVE  Shape'
<1> DEFINE first == First(slot[k])
<1>1. first \in Keys
  BY FirstOfFound DEF Remove
<1>2. Shape
  BY DEF Linked
<1>3. IsFiniteSet(stored \ {k})
  BY <1>2, FS_RemoveElement DEF Shape, TableOK
<1>4. <<>> \in Seq(Vals)
  OBVIOUS
<1>5. /\ size' = size /\ numEl' = numEl - 1
      /\ stored' = stored \ {k}
      /\ slot' = [slot EXCEPT ![k] = 0]
      /\ ahead' = [j \in Keys |-> IF j = k THEN {} ELSE ahead[j] \ {k}]
      /\ val' = [val EXCEPT ![k] = <<>>]
      /\ diff' = diff \ {k}
  BY DEF Remove, Unlinks
<1>6. TableOK'
  BY <1>2, <1>3, <1>4, <1>5 DEF Shape, TableOK
<1>7. FileOK'
  <2>1. pos' = [pos EXCEPT ![k] = {}] /\ Mark(pos[first])
    BY DEF Remove
  <2>2. pos' \in [Keys -> SUBSET Nat]
    BY <1>2, <2>1 DEF Shape, FileOK
  <2>3. QED
    BY <1>2, <2>1, <2>2, MarkKeeps DEF Shape, FileOK
<1>8. ThreadsOK'
  <2>1. nRem' \in Nat
    BY <1>2 DEF Remove, Shape, ThreadsOK
  <2>2. rw' \in RwRecords
    BY <1>2, WriteFileType DEF Remove, Shape, ThreadsOK
  <2>3. pending' = Done
    BY DEF Remove
  <2>4. QED
    BY <2>1, <2>2, <2>3, DoneType DEF ThreadsOK
<1>9. FlagsOK'
  <2>1. wild' \in BOOLEAN
    <3>1. CASE rw.at = k
      BY <3>1 DEF Remove
    <3>2. CASE rw.at # k
      BY <3>2, MayRaceType DEF Remove
    <3>3. QED
      BY <3>1, <3>2
  <2>2. astray' \subseteq Keys
    BY <1>1, <1>2 DEF Remove, Shape, FlagsOK
  <2>3. instantSwap' = instantSwap
    BY DEF Remove
  <2>4. QED
    BY <1>2, <2>1, <2>2, <2>3 DEF Shape, FlagsOK
<1>10. QED
  BY <1>6, <1>7, <1>8, <1>9 DEF Shape

LEMMA TableUnchanged ==
  ASSUME TableOK, UNCHANGED tableVars
  PROVE  TableOK'
BY DEF TableOK, tableVars

\* The record that is due goes into the file.
LEMMA WriteType ==
  ASSUME Shape, Write
  PROVE  Shape'
<1> DEFINE k == pending.key
           x == IF pending.do = "write" THEN val[k] ELSE <<pending.piece>>
<1>1. k \in Keys /\ pending.do \in {"write", "append"}
  BY DEF Write, Shape, ThreadsOK
<1>2. x \in Seq(Vals)
  <2>1. CASE pending.do = "write"
    BY <1>1, <2>1 DEF Shape, TableOK
  <2>2. CASE pending.do = "append"
    BY <2>2 DEF Shape, ThreadsOK
  <2>3. QED
    BY <1>1, <2>1, <2>2
<1>3. Record(k, x) \in Records
  BY <1>1, <1>2, RecordType
<1>4. FileOK'
  <2>1. Place \in Nat
    BY DEF Place, Foreign, Shape, FileOK
  <2>2. pos' \in [Keys -> SUBSET Nat]
    BY <2>1 DEF Write, Shape, FileOK
  <2>3. file' \in Seq(Records) /\ disk' \in Seq(Records)
    <3>1. CASE Rewriting
      BY <3>1 DEF Write, Shape, FileOK
    <3>2. CASE ~Rewriting
      <4>1. file' = Append(file, Record(k, x)) /\ disk' = file'
        BY <3>2 DEF Write
      <4>2. QED
        BY <1>3, <4>1 DEF Shape, FileOK
    <3>3. QED
      BY <3>1, <3>2
  <2>4. QED
    BY <2>2, <2>3 DEF Write, Shape, FileOK
<1>5. TableOK'
  BY TableUnchanged DEF Write, Shape
<1>6. ThreadsOK'
  BY DoneType DEF Write, Shape, ThreadsOK
<1>7. FlagsOK'
  BY <1>1, StraysType, MayRaceType DEF Write, Shape, FlagsOK
<1>8. QED
  BY <1>4, <1>5, <1>6, <1>7 DEF Shape

LEMMA SwapType ==
  ASSUME Shape, SwapNow \/ Joined
  PROVE  Shape'
<1>1. TableOK' /\ FileOK' /\ FlagsOK'
  BY TableUnchanged DEF SwapNow, Joined, Shape, FileOK, FlagsOK, fileVars
<1>2. ThreadsOK'
  BY WriteFileType DEF SwapNow, Joined, Shape, ThreadsOK, Idle, PendingRecords
<1>3. QED
  BY <1>1, <1>2 DEF Shape

-----------------------------------------------------------------------------
(***************************************************************************)
(* The types, through the rewriting thread's steps and a restart.          *)
(***************************************************************************)
LEMMA TruncateType ==
  ASSUME Shape, Truncate
  PROVE  Shape'
<1>1. FileOK'
  <2>1. file' = <<>> /\ disk' = <<>> /\ garbled' = FALSE
    BY DEF Truncate
  <2>2. pos' \in [Keys -> SUBSET Nat]
    BY DEF Truncate, Foreign
  <2>3. <<>> \in Seq(Records)
    OBVIOUS
  <2>4. QED
    BY <2>1, <2>2, <2>3, Zenon DEF FileOK
<1>2. TableOK'
  BY TableUnchanged DEF Truncate, Shape
<1>3. ThreadsOK'
  BY DEF Truncate, Shape, ThreadsOK, RwRecords
<1>4. astray' \subseteq Keys
  BY DEF Truncate, Shape, TableOK, ThreadsOK, PendingRecords
<1>5. FlagsOK'
  BY <1>4 DEF Truncate, Shape, FlagsOK
<1>6. QED
  BY <1>1, <1>2, <1>3, <1>5 DEF Shape

LEMMA NextChainType ==
  ASSUME Linked, NextChain
  PROVE  Shape'
<1>1. Shape
  BY DEF Linked
<1>2. TableOK' /\ FileOK' /\ FlagsOK'
  BY <1>1, TableUnchanged DEF NextChain, Shape, FileOK, FlagsOK, fileVars
<1>3. rw' \in RwRecords
  <2>1. CASE Chain(rw.slot) = {}
    BY <1>1, <2>1 DEF NextChain, Shape, ThreadsOK, RwRecords
  <2>2. CASE Chain(rw.slot) # {}
    <3>1. First(rw.slot) \in Keys
      BY <1>1, <2>2, FirstExists DEF Chain, Shape, TableOK
    <3>2. rw' = [rw EXCEPT !.at = First(rw.slot)]
      BY <2>2 DEF NextChain
    <3>3. QED
      BY <1>1, <3>1, <3>2 DEF Shape, ThreadsOK, RwRecords
  <2>3. QED
    BY <2>1, <2>2
<1>4. ThreadsOK'
  BY <1>1, <1>3 DEF NextChain, Shape, ThreadsOK
<1>5. QED
  BY <1>2, <1>4 DEF Shape

LEMMA RewritePairType ==
  ASSUME Shape, RewritePair
  PROVE  Shape'
<1> DEFINE k == rw.at
<1>1. k \in Keys
  BY DEF RewritePair, Shape, ThreadsOK, RwRecords
<1>2. TableOK'
  BY TableUnchanged DEF RewritePair, Shape
<1>3. rw' \in RwRecords
  <2>1. After(k) \in Keys \union {NoKey}
    BY AfterInKeys DEF Shape
  <2>2. rw' = IF After(k) = NoKey THEN [rw EXCEPT !.at = NoKey, !.slot = @ + 1]
              ELSE [rw EXCEPT !.at = After(k)]
    BY DEF RewritePair
  <2>3. rw \in RwRecords
    BY DEF Shape, ThreadsOK
  <2>4. CASE After(k) = NoKey
    <3>1. rw' = [rw EXCEPT !.at = NoKey, !.slot = rw.slot + 1]
      BY <2>2, <2>3, <2>4 DEF RwRecords
    <3>2. rw.slot + 1 \in Nat
      BY <2>3 DEF RwRecords
    <3>3. QED
      BY <2>3, <3>1, <3>2 DEF RwRecords
  <2>5. CASE After(k) # NoKey
    <3>1. rw' = [rw EXCEPT !.at = After(k)]
      BY <2>2, <2>5
    <3>2. QED
      BY <2>1, <2>3, <3>1 DEF RwRecords
  <2>6. QED
    BY <2>4, <2>5
<1>4. ThreadsOK'
  BY <1>3 DEF RewritePair, Shape, ThreadsOK
<1>5. FileOK' /\ astray' \subseteq Keys
  <2>1. CASE k \in diff
    BY <2>1 DEF RewritePair, Shape, FileOK, FlagsOK
  <2>2. CASE k \notin diff
    <3>1. /\ pos' = [pos EXCEPT ![k] = {Len(file) + 1}]
          /\ file' = Append(file, Record(k, val[k]))
      BY <2>2 DEF RewritePair
    <3>2. Record(k, val[k]) \in Records
      BY <1>1, RecordType DEF Shape, TableOK
    <3>3. file' \in Seq(Records) /\ pos' \in [Keys -> SUBSET Nat]
      <4>1. file \in Seq(Records) /\ pos \in [Keys -> SUBSET Nat]
        BY DEF Shape, FileOK
      <4>2. {Len(file) + 1} \in SUBSET Nat
        BY <4>1
      <4>3. file' \in Seq(Records)
        BY <3>1, <3>2, <4>1
      <4>4. QED
        BY <3>1, <4>1, <4>2, <4>3
    <3>4. astray' \subseteq Keys
      BY <1>1, <2>2 DEF RewritePair, Shape, FlagsOK
    <3>5. UNCHANGED <<disk, garbled>>
      BY DEF RewritePair
    <3>6. QED
      BY <3>3, <3>4, <3>5, Zenon DEF Shape, FileOK
  <2>3. QED
    BY <2>1, <2>2
<1>6. FlagsOK'
  BY <1>5 DEF RewritePair, Shape, FlagsOK
<1>7. QED
  BY <1>2, <1>4, <1>5, <1>6 DEF Shape

LEMMA MergeType ==
  ASSUME Shape, Merge
  PROVE  Shape'
<1>1. TableOK' /\ FileOK' /\ FlagsOK'
  BY TableUnchanged DEF Merge, Shape, FileOK, FlagsOK, fileVars
<1>2. ThreadsOK'
  BY DEF Merge, Shape, ThreadsOK, Off, RwRecords
<1>3. QED
  BY <1>1, <1>2 DEF Shape

LEMMA RestartType ==
  ASSUME Shape, Restart
  PROVE  Shape'
<1>1. PICK f \in Kernel : \E r \in Recovered(f) : Restarted(f, r)
  BY DEF Restart
<1>2. PICK r \in Recovered(f) : Restarted(f, r)
  BY <1>1
<1> DEFINE ks == {r[i].key : i \in DOMAIN r}
<1>3. f \in Seq(Records)
  BY KernelType DEF Shape
<1>4. /\ r \in Seq(Records) /\ Len(r) \in Nat
      /\ ks = {} \/ (r[1] \in Records /\ ks = {r[1].key})
  <2>1. CASE r = <<>>
    BY <2>1
  <2>2. CASE r # <<>>
    <3>1. PICK x \in Records : r = <<x>>
      BY <1>3, <2>2, RecoveredType
    <3>2. r \in Seq(Records) /\ DOMAIN r = {1} /\ r[1] = x
      BY <3>1
    <3>3. QED
      BY <3>2
  <2>3. QED
    BY <2>1, <2>2
<1>5. ks \subseteq Keys /\ IsFiniteSet(ks) /\ (ks # {} => r[1].piece \in Seq(Vals))
  <2> HIDE DEF ks
  <2>1. CASE ks = {}
    BY <2>1, FS_EmptySet
  <2>2. CASE ks # {}
    <3>1. r[1] \in Records /\ ks = {r[1].key}
      BY <1>4, <2>2
    <3>2. r[1].key \in Keys /\ r[1].piece \in Seq(Vals)
      BY <3>1 DEF Records
    <3>3. IsFiniteSet({r[1].key})
      BY FS_Singleton
    <3>4. QED
      BY <3>1, <3>2, <3>3
  <2>3. QED
    BY <2>1, <2>2
<1> HIDE DEF ks
<1>6. TableOK'
  <2>1. /\ size' = InitSize /\ numEl' = Len(r) /\ stored' = ks
        /\ slot' = [k \in Keys |-> IF k \in ks THEN Hash[k] % InitSize ELSE 0]
        /\ ahead' = [k \in Keys |-> {}]
        /\ val' = [k \in Keys |-> IF k \in ks THEN r[1].piece ELSE <<>>]
    BY <1>2 DEF Restarted, ks
  <2>2. diff' \subseteq ks
    BY <1>2 DEF Restarted, ks
  <2>3. slot' \in [Keys -> Nat]
    BY <2>1, HashInRange, NoVoHTAssumption DEF NoVoHTAssumption
  <2>4. <<>> \in Seq(Vals)
    OBVIOUS
  <2>5. val' \in [Keys -> Seq(Vals)]
    BY <1>5, <2>1, <2>4
  <2>6. InitSize \in Nat \ {0} /\ Len(r) \in Int
    BY <1>4, NoVoHTAssumption DEF NoVoHTAssumption
  <2>7. ahead' \in [Keys -> SUBSET Keys]
    BY <2>1
  <2>8. QED
    BY <1>5, <2>1, <2>2, <2>3, <2>5, <2>6, <2>7 DEF TableOK
<1>7. FileOK'
  <2>1. f \o r \in Seq(Records) /\ Len(f) + 1 \in Nat
    BY <1>3, <1>4, ConcatProperties
  <2>2. file' = f \o r /\ disk' = f \o r /\ garbled' = garbled
    BY <1>2 DEF Restarted
  <2>3. pos' = [k \in Keys |-> IF k \in ks THEN {Len(f) + 1} ELSE {}]
    BY <1>2 DEF Restarted, ks
  <2>4. pos' \in [Keys -> SUBSET Nat]
    BY <2>1, <2>3
  <2>5. QED
    BY <2>1, <2>2, <2>4, Zenon DEF Shape, FileOK
<1>8. ThreadsOK'
  <2>1. nRem' = 0 /\ rw' \in {Off, Begin} /\ pending' = Idle
    BY <1>2 DEF Restarted
  <2>2. QED
    BY <2>1 DEF ThreadsOK, Off, Begin, Idle, RwRecords, PendingRecords
<1>9. FlagsOK'
  BY <1>2 DEF Restarted, Shape, FlagsOK
<1>10. QED
  BY <1>6, <1>7, <1>8, <1>9 DEF Shape

LEMMA InitType ==
  ASSUME Init
  PROVE  Shape
<1>1. <<>> \in Seq(Vals) /\ <<>> \in Seq(Records)
  OBVIOUS
<1>2. TableOK
  BY <1>1, FS_EmptySet, NoVoHTAssumption DEF Init, TableOK, NoVoHTAssumption
<1>3. FileOK
  BY <1>1 DEF Init, FileOK
<1>4. ThreadsOK
  BY DEF Init, ThreadsOK, Off, Begin, Idle, RwRecords, PendingRecords
<1>5. FlagsOK
  BY DEF Init, FlagsOK
<1>6. QED
  BY <1>2, <1>3, <1>4, <1>5 DEF Shape

-----------------------------------------------------------------------------
(***************************************************************************)
(* The links.                                                              *)
(***************************************************************************)

\* Dividing leaves a remainder below the divisor.
LEMMA Division ==
  ASSUME NEW a \in Nat, NEW n \in Nat \ {0}
  PROVE  \E q \in Int, r \in 0 .. n - 1 : a = n * q + r /\ r = a % n
<1>1. a \div n \in Int /\ a % n \in 0 .. n - 1
  OBVIOUS
<1>2. \A q, r \in Int : q = a \div n /\ r = a % n => a = n * q + r
  OBVIOUS
<1>3. QED
  BY <1>1, <1>2

\* The remainder is the only one.
LEMMA Remainder ==
  ASSUME NEW n \in Nat \ {0}, NEW q \in Int, NEW r \in 0 .. n - 1
  PROVE  (n * q + r) % n = r
OBVIOUS

\* Pairs that share a chain of twice as many shared one before.
LEMMA HalfChains ==
  ASSUME NEW a \in Nat, NEW b \in Nat, NEW n \in Nat \ {0}, a % (2 * n) = b % (2 * n)
  PROVE  a % n = b % n
<1>1. 2 * n \in Nat \ {0}
  OBVIOUS
<1>2. PICK p \in Int, r \in 0 .. 2 * n - 1 : a = 2 * n * p + r /\ r = a % (2 * n)
  BY <1>1, Division
<1>3. PICK q \in Int, s \in 0 .. 2 * n - 1 : b = 2 * n * q + s /\ s = b % (2 * n)
  BY <1>1, Division
<1>4. PICK x \in Int, t \in 0 .. n - 1 : r = n * x + t /\ t = r % n
  <2>1. r \in Nat
    OBVIOUS
  <2>2. QED
    BY <2>1, Division
<1>5. a = n * (2 * p + x) + t /\ b = n * (2 * q + x) + t
  <2>1. \A z \in Int : 2 * n * z + (n * x + t) = n * (2 * z + x) + t
    OBVIOUS
  <2>2. QED
    BY <1>2, <1>3, <1>4, <2>1
<1>6. 2 * p + x \in Int /\ 2 * q + x \in Int
  OBVIOUS
<1>7. QED
  BY <1>5, <1>6, Remainder

\* A key that a walk does not find has no pair.
LEMMA NotFound ==
  ASSUME ChainsLinked, NEW k \in Keys
  PROVE  Found(k) <=> k \in stored
BY DEF ChainsLinked, Found

LEMMA LinksUnchanged ==
  ASSUME ChainsLinked, UNCHANGED <<size, stored, slot, ahead>>
  PROVE  ChainsLinked'
BY DEF ChainsLinked, Chain

LEMMA PutNewLinks ==
  ASSUME Linked, NEW k \in Keys, NEW v \in Vals, PutNew(k, v)
  PROVE  ChainsLinked'
<1>1. k \notin stored
  BY NotFound DEF Linked, PutNew, NewPair
<1>2. /\ size' = size /\ stored' = stored \union {k}
      /\ slot' = [slot EXCEPT ![k] = Hash[k] % size]
      /\ ahead' = [ahead EXCEPT ![k] = Chain(Hash[k] % size)]
  BY DEF PutNew, NewPair
<1>3. \A j \in stored : j # k /\ k \notin ahead[j]
  BY <1>1 DEF Linked, Shape, TableOK, ChainsLinked
<1>4. QED
  BY <1>1, <1>2, <1>3 DEF Linked, Shape, TableOK, ChainsLinked, Chain

LEMMA AppendNewLinks ==
  ASSUME Linked, NEW k \in Keys, NEW v \in Vals, AppendNew(k, v)
  PROVE  ChainsLinked'
<1>1. k \notin stored
  BY NotFound DEF Linked, AppendNew, NewPair
<1>2. /\ size' = size /\ stored' = stored \union {k}
      /\ slot' = [slot EXCEPT ![k] = Hash[k] % size]
      /\ ahead' = [j \in Keys |->
           IF j \in Chain(Hash[k] % size) THEN ahead[j] \union {k} ELSE ahead[j] \ {k}]
  BY DEF AppendNew, NewPair
<1>3. ahead[k] = {} /\ \A j \in Keys : j # k => k \notin ahead[j]
  BY <1>1 DEF Linked, Shape, TableOK, ChainsLinked
<1>4. QED
  BY <1>1, <1>2, <1>3 DEF Linked, Shape, TableOK, ChainsLinked, Chain

LEMMA RemoveLinks ==
  ASSUME Linked, NEW k \in Keys, Remove(k)
  PROVE  ChainsLinked'
<1>1. /\ size' = size /\ stored' = stored \ {k}
      /\ slot' = [slot EXCEPT ![k] = 0]
      /\ ahead' = [j \in Keys |-> IF j = k THEN {} ELSE ahead[j] \ {k}]
  BY DEF Remove, Unlinks
<1>2. QED
  BY <1>1 DEF Linked, Shape, TableOK, ChainsLinked, Chain

LEMMA ResizeLinks ==
  ASSUME Linked, NEW k \in Keys, NEW v \in Vals, Resize(k, v)
  PROVE  ChainsLinked'
<1> DEFINE n == 2 * size
<1>1. /\ size' = n /\ stored' = stored
      /\ slot' = Rehashed(n) /\ ahead' = Turned(n)
  BY DEF Resize
<1>2. \A i \in stored : slot'[i] = Hash[i] % n
  BY <1>1 DEF Rehashed, Linked, Shape, TableOK
<1>3. \A i \in Keys : ahead'[i] = {j \in stored : i \in ahead[j] /\ slot'[j] = slot'[i]}
  BY <1>1 DEF Turned
<1>4. \A i, j \in stored : slot'[i] = slot'[j] => slot[i] = slot[j]
  <2>1. SUFFICES ASSUME NEW i \in stored, NEW j \in stored, slot'[i] = slot'[j]
                 PROVE  slot[i] = slot[j]
    OBVIOUS
  <2>2. /\ Hash[i] \in Nat /\ Hash[j] \in Nat /\ size \in Nat \ {0}
        /\ Hash[i] % (2 * size) = Hash[j] % (2 * size)
    BY <1>2, <2>1, NoVoHTAssumption DEF NoVoHTAssumption, Linked, Shape, TableOK
  <2>3. Hash[i] % size = Hash[j] % size
    BY <2>2, HalfChains
  <2>4. QED
    BY <2>3 DEF Linked, Shape, TableOK, ChainsLinked
<1> HIDE DEF n
<1>5. QED
  BY <1>1, <1>2, <1>3, <1>4 DEF Linked, Shape, TableOK, ChainsLinked, Chain

LEMMA RestartLinks ==
  ASSUME Shape, Restart
  PROVE  ChainsLinked'
<1>1. PICK f \in Kernel : \E r \in Recovered(f) : Restarted(f, r)
  BY DEF Restart
<1>2. PICK r \in Recovered(f) : Restarted(f, r)
  BY <1>1
<1>3. f \in Seq(Records)
  BY KernelType DEF Shape
<1>4. \A i, j \in DOMAIN r : i = j
  BY <1>3, RecoveredType
<1>5. /\ size' = InitSize /\ stored' = {r[i].key : i \in DOMAIN r}
      /\ slot' = [k \in Keys |-> IF k \in stored' THEN Hash[k] % InitSize ELSE 0]
      /\ ahead' = [k \in Keys |-> {}]
  BY <1>2 DEF Restarted
<1>6. \A i, j \in stored' : i = j
  BY <1>4, <1>5
<1>7. QED
  BY <1>5, <1>6 DEF ChainsLinked, Chain

-----------------------------------------------------------------------------
(***************************************************************************)
(* Types and links together.                                               *)
(***************************************************************************)
LEMMA InitLinked ==
  ASSUME Init
  PROVE  Linked
<1>1. ChainsLinked
  BY DEF Init, ChainsLinked, Chain
<1>2. QED
  BY <1>1, InitType DEF Linked

LEMMA ServerLinked ==
  ASSUME Linked, Server
  PROVE  Linked'
<1>1. Shape /\ ChainsLinked
  BY DEF Linked
<1>2. ASSUME NEW k \in Keys, NEW v \in Vals, Resize(k, v)
      PROVE  Linked'
  BY <1>1, <1>2, ResizeType, ResizeLinks DEF Linked
<1>3. ASSUME NEW k \in Keys, NEW v \in Vals, PutNew(k, v)
      PROVE  Linked'
  BY <1>1, <1>3, PutNewType, PutNewLinks DEF Linked
<1>4. ASSUME NEW k \in Keys, NEW v \in Vals, PutOld(k, v)
      PROVE  Linked'
  <2>1. UNCHANGED <<size, stored, slot, ahead>>
    BY <1>4 DEF PutOld
  <2>2. QED
    BY <1>1, <1>4, <2>1, PutOldType, LinksUnchanged DEF Linked
<1>5. ASSUME NEW k \in Keys, NEW v \in Vals, AppendNew(k, v)
      PROVE  Linked'
  BY <1>1, <1>5, AppendNewType, AppendNewLinks DEF Linked
<1>6. ASSUME NEW k \in Keys, NEW v \in Vals, AppendOld(k, v)
      PROVE  Linked'
  <2>1. UNCHANGED <<size, stored, slot, ahead>>
    BY <1>6 DEF AppendOld
  <2>2. QED
    BY <1>1, <1>6, <2>1, AppendOldType, LinksUnchanged DEF Linked
<1>7. ASSUME NEW k \in Keys, Remove(k)
      PROVE  Linked'
  BY <1>1, <1>7, RemoveType, RemoveLinks DEF Linked
<1>8. CASE Write \/ SwapNow \/ Joined
  <2>1. UNCHANGED <<size, stored, slot, ahead>>
    BY <1>8 DEF Write, SwapNow, Joined, tableVars
  <2>2. QED
    BY <1>1, <1>8, <2>1, WriteType, SwapType, LinksUnchanged DEF Linked
<1>9. QED
  BY <1>2, <1>3, <1>4, <1>5, <1>6, <1>7, <1>8 DEF Server

LEMMA RewriterLinked ==
  ASSUME Linked, Rewriter
  PROVE  Linked'
<1>1. UNCHANGED <<size, stored, slot, ahead>>
  BY DEF Rewriter, Truncate, NextChain, RewritePair, Merge, tableVars
<1>2. Shape'
  BY TruncateType, NextChainType, RewritePairType, MergeType DEF Rewriter, Linked
<1>3. QED
  BY <1>1, <1>2, LinksUnchanged DEF Linked

LEMMA StutterLinked ==
  ASSUME Linked, UNCHANGED vars
  PROVE  Linked'
<1>1. TableOK' /\ ChainsLinked'
  BY TableUnchanged, LinksUnchanged DEF Linked, Shape, vars, tableVars
<1>2. FileOK' /\ ThreadsOK' /\ FlagsOK'
  BY DEF Linked, Shape, vars, fileVars, FileOK, ThreadsOK, FlagsOK
<1>3. QED
  BY <1>1, <1>2 DEF Linked, Shape

LEMMA NextLinked ==
  ASSUME Linked, [Next]_vars
  PROVE  Linked'
<1>1. CASE Restart
  BY <1>1, RestartType, RestartLinks DEF Linked
<1>2. QED
  BY <1>1, ServerLinked, RewriterLinked, StutterLinked DEF Next

LEMMA AlwaysLinked == Spec => []Linked
<1>1. Init => Linked
  BY InitLinked
<1>2. Linked /\ [Next]_vars => Linked'
  BY NextLinked
<1>3. QED
  BY <1>1, <1>2, PTL DEF Spec

\* Every variable keeps its type, whatever the server and the rewriting thread do at the
\* same time and however often the server dies.
THEOREM TypesKept == Spec => []TypeOK
<1>1. Linked => TypeOK
  BY ShapeIsType DEF Linked
<1>2. QED
  BY <1>1, AlwaysLinked, PTL

\* put at the end of a chain, append at its front, remove from the middle and resize
\* leave each pair in the chain of its hash, and the pairs of a chain in one line.
THEOREM LinksKept == Spec => []ChainsLinked
<1>1. Linked => ChainsLinked
  BY DEF Linked
<1>2. QED
  BY <1>1, AlwaysLinked, PTL

-----------------------------------------------------------------------------
(***************************************************************************)
(* The positions of a pair.                                                *)
(***************************************************************************)

\* Marks move no record.
LEMMA MarkLeads ==
  ASSUME FileOK, PositionsLead, NEW plist, Mark(plist), \A k \in Keys : pos'[k] \subseteq pos[k]
  PROVE  PositionsLead'
<1>1. /\ file \in Seq(Records) /\ file' \in Seq(Records)
      /\ Len(file') = Len(file)
      /\ \A i \in DOMAIN file : file'[i].key = file[i].key
  BY MarkKeeps DEF FileOK
<1>2. DOMAIN file' = DOMAIN file
  BY <1>1
<1>3. QED
  BY <1>1, <1>2 DEF PositionsLead

\* A record at the end of the file is where the next position is.
LEMMA AppendLeads ==
  ASSUME FileOK, PositionsLead, NEW k \in Keys, NEW piece,
         file' = Append(file, Record(k, piece)),
         pos' \in [Keys -> SUBSET Nat],
         \A j \in Keys \ {k} : pos'[j] = pos[j],
         pos'[k] \subseteq pos[k] \union {Len(file) + 1}
  PROVE  PositionsLead'
<1>1. file \in Seq(Records)
  BY DEF FileOK
<1>2. /\ DOMAIN file' = DOMAIN file \union {Len(file) + 1}
      /\ \A i \in DOMAIN file : file'[i] = file[i]
      /\ file'[Len(file) + 1].key = k
  <2> DEFINE x == Record(k, piece)
  <2>1. x.key = k
    BY DEF Record
  <2> HIDE DEF x
  <2>2. file' = Append(file, x)
    BY DEF x
  <2>3. /\ DOMAIN file' = DOMAIN file \union {Len(file) + 1}
        /\ \A i \in DOMAIN file : file'[i] = file[i]
        /\ file'[Len(file) + 1] = x
    BY <1>1, <2>2
  <2>4. QED
    BY <2>1, <2>3
<1>3. QED
  BY <1>2 DEF PositionsLead

LEMMA WriteLeads ==
  ASSUME Shape, PositionsLead, Write
  PROVE  PositionsLead'
<1> DEFINE k == pending.key
<1>1. FileOK /\ k \in Keys
  BY DEF Write, Shape, ThreadsOK
<1>2. pos' = [pos EXCEPT ![k] = IF pending.do = "write" THEN {Place} ELSE @ \union {Place}]
  BY DEF Write
<1>3. CASE Rewriting
  <2>1. Place = Foreign /\ file' = file
    BY <1>3 DEF Place, Write
  <2>2. \A j \in Keys : pos'[j] \ {Foreign} \subseteq pos[j] \ {Foreign}
    BY <1>1, <1>2, <2>1 DEF FileOK
  <2>3. QED
    BY <2>1, <2>2 DEF PositionsLead
<1>4. CASE ~Rewriting
  <2>1. Place = Len(file) + 1
    BY <1>4 DEF Place
  <2>2. \E piece : file' = Append(file, Record(k, piece))
    BY <1>4 DEF Write
  <2>3. pos' \in [Keys -> SUBSET Nat]
    BY WriteType DEF Shape, FileOK
  <2>4. \A j \in Keys \ {k} : pos'[j] = pos[j]
    BY <1>1, <1>2 DEF FileOK
  <2>5. pos'[k] \subseteq pos[k] \union {Len(file) + 1}
    BY <1>1, <1>2, <2>1 DEF FileOK
  <2>6. QED
    BY <1>1, <2>2, <2>3, <2>4, <2>5, AppendLeads
<1>5. QED
  BY <1>3, <1>4

LEMMA ServerLeads ==
  ASSUME Shape, PositionsLead, Server
  PROVE  PositionsLead'
<1>1. FileOK
  BY DEF Shape
<1>2. ASSUME UNCHANGED fileVars
      PROVE  PositionsLead'
  BY <1>2 DEF PositionsLead, fileVars
<1>3. ASSUME NEW k \in Keys, NEW v \in Vals,
             Resize(k, v) \/ PutNew(k, v) \/ AppendNew(k, v) \/ AppendOld(k, v)
      PROVE  PositionsLead'
  BY <1>2, <1>3 DEF Resize, PutNew, AppendNew, NewPair, AppendOld
<1>4. ASSUME NEW k \in Keys, NEW v \in Vals, PutOld(k, v)
      PROVE  PositionsLead'
  <2>1. Mark(pos[k]) /\ pos' = pos
    BY <1>4 DEF PutOld
  <2>2. QED
    BY <1>1, <2>1, MarkLeads
<1>5. ASSUME NEW k \in Keys, Remove(k)
      PROVE  PositionsLead'
  <2>1. Mark(pos[First(slot[k])]) /\ pos' = [pos EXCEPT ![k] = {}]
    BY <1>5 DEF Remove
  <2>2. \A j \in Keys : pos'[j] \subseteq pos[j]
    BY <1>1, <2>1 DEF FileOK
  <2>3. QED
    BY <1>1, <2>1, <2>2, MarkLeads
<1>6. CASE SwapNow \/ Joined
  BY <1>2, <1>6 DEF SwapNow, Joined
<1>7. QED
  BY <1>3, <1>4, <1>5, <1>6, WriteLeads DEF Server

LEMMA RewriterLeads ==
  ASSUME Shape, PositionsLead, Rewriter
  PROVE  PositionsLead'
<1>1. FileOK
  BY DEF Shape
<1>2. CASE Truncate
  <2>1. \A k \in Keys : pos'[k] \ {Foreign} = {}
    BY <1>2 DEF Truncate
  <2>2. QED
    BY <2>1 DEF PositionsLead
<1>3. CASE NextChain \/ Merge
  BY <1>3 DEF NextChain, Merge, fileVars, PositionsLead
<1>4. CASE RewritePair
  <2> DEFINE k == rw.at
  <2>1. k \in Keys
    BY <1>4 DEF RewritePair, Shape, ThreadsOK, RwRecords
  <2>2. CASE k \in diff
    BY <1>4, <2>2 DEF RewritePair, PositionsLead
  <2>3. CASE k \notin diff
    <3>1. /\ pos' = [pos EXCEPT ![k] = {Len(file) + 1}]
          /\ file' = Append(file, Record(k, val[k]))
      BY <1>4, <2>3 DEF RewritePair
    <3>2. pos' \in [Keys -> SUBSET Nat]
      BY <1>4, RewritePairType DEF Shape, FileOK
    <3>3. \A j \in Keys \ {k} : pos'[j] = pos[j]
      BY <1>1, <3>1 DEF FileOK
    <3>4. pos'[k] \subseteq pos[k] \union {Len(file) + 1}
      BY <1>1, <2>1, <3>1 DEF FileOK
    <3>5. QED
      BY <1>1, <2>1, <3>1, <3>2, <3>3, <3>4, AppendLeads
  <2>4. QED
    BY <2>2, <2>3
<1>5. QED
  BY <1>2, <1>3, <1>4 DEF Rewriter

LEMMA RestartLeads ==
  ASSUME Shape, Restart
  PROVE  PositionsLead'
<1>1. PICK f \in Kernel : \E r \in Recovered(f) : Restarted(f, r)
  BY DEF Restart
<1>2. PICK r \in Recovered(f) : Restarted(f, r)
  BY <1>1
<1>3. f \in Seq(Records)
  BY KernelType DEF Shape
<1>4. /\ file' = f \o r
      /\ pos' = [k \in Keys |-> IF k \in {r[i].key : i \in DOMAIN r} THEN {Len(f) + 1} ELSE {}]
  BY <1>2 DEF Restarted
<1>5. CASE r = <<>>
  BY <1>4, <1>5 DEF PositionsLead
<1>6. CASE r # <<>>
  <2>1. PICK x \in Records : r = <<x>>
    BY <1>3, <1>6, RecoveredType
  <2>2. /\ Len(f) + 1 \in DOMAIN (f \o r)
        /\ (f \o r)[Len(f) + 1] = x
    BY <1>3, <2>1
  <2>3. {r[i].key : i \in DOMAIN r} = {x.key}
    BY <2>1
  <2>4. QED
    BY <1>4, <2>2, <2>3 DEF PositionsLead
<1>7. QED
  BY <1>5, <1>6

\* A position that belongs to the file leads to a record of its own key through rewrites,
\* swaps and restarts: no mark is put over the record of another key.
THEOREM PositionsStayTrue == Spec => []PositionsLead
<1>1. Init => PositionsLead
  BY DEF Init, PositionsLead
<1>2. Linked /\ PositionsLead /\ [Next]_vars => PositionsLead'
  <2>1. SUFFICES ASSUME Linked, PositionsLead, [Next]_vars
                 PROVE  PositionsLead'
    OBVIOUS
  <2>2. Shape
    BY <2>1 DEF Linked
  <2>3. CASE Restart
    BY <2>2, <2>3, RestartLeads
  <2>4. CASE UNCHANGED vars
    BY <2>1, <2>4 DEF PositionsLead, vars, fileVars
  <2>5. QED
    BY <2>1, <2>2, <2>3, <2>4, ServerLeads, RewriterLeads DEF Next
<1>3. QED
  BY <1>1, <1>2, AlwaysLinked, PTL DEF Spec

-----------------------------------------------------------------------------
(***************************************************************************)
(* The table is a store of pairs.                                          *)
(***************************************************************************)

\* A get finds the value of each pair that is stored.
LEMMA GetFinds ==
  ASSUME ChainsLinked
  PROVE  Pairs = [k \in Keys |-> IF k \in stored THEN val[k] ELSE <<>>]
BY NotFound DEF Pairs

LEMMA GetFindsNext ==
  ASSUME ChainsLinked'
  PROVE  Pairs' = [k \in Keys |-> IF k \in stored' THEN val'[k] ELSE <<>>]
<1>1. ASSUME NEW k \in Keys
      PROVE  (Found(k))' <=> k \in stored'
  BY DEF ChainsLinked, Found
<1>2. QED
  BY <1>1 DEF Pairs

LEMMA ServerImplements ==
  ASSUME Linked, Linked', Server
  PROVE  [Store!Next]_Pairs
<1>1. /\ Pairs = [k \in Keys |-> IF k \in stored THEN val[k] ELSE <<>>]
      /\ Pairs' = [k \in Keys |-> IF k \in stored' THEN val'[k] ELSE <<>>]
      /\ val \in [Keys -> Seq(Vals)] /\ stored \subseteq Keys
  BY GetFinds, GetFindsNext DEF Linked, Shape, TableOK
<1>2. ASSUME NEW k \in Keys, NEW v \in Vals, PutNew(k, v) \/ PutOld(k, v) \/ AppendNew(k, v)
      PROVE  Store!Next
  <2>1. stored' = stored \union {k} /\ val' = [val EXCEPT ![k] = <<v>>]
    BY <1>2, NotFound DEF PutNew, AppendNew, NewPair, PutOld, Linked
  <2>2. Store!Put(k, v)
    BY <1>1, <2>1 DEF Store!Put
  <2>3. QED
    BY <2>2 DEF Store!Next
<1>3. ASSUME NEW k \in Keys, NEW v \in Vals, AppendOld(k, v)
      PROVE  Store!Next
  <2>1. stored' = stored /\ k \in stored /\ val' = [val EXCEPT ![k] = Append(@, v)]
    BY <1>3, NotFound DEF AppendOld, Linked
  <2>2. Store!Extend(k, v)
    BY <1>1, <2>1 DEF Store!Extend
  <2>3. QED
    BY <2>2 DEF Store!Next
<1>4. ASSUME NEW k \in Keys, Remove(k)
      PROVE  Store!Next
  <2>1. stored' = stored \ {k} /\ val' = [val EXCEPT ![k] = <<>>]
    BY <1>4 DEF Remove, Unlinks
  <2>2. Store!Drop(k)
    BY <1>1, <2>1 DEF Store!Drop
  <2>3. QED
    BY <2>2 DEF Store!Next
<1>5. ASSUME UNCHANGED <<stored, val>>
      PROVE  Pairs' = Pairs
  BY <1>1, <1>5
<1>6. ASSUME NEW k \in Keys, NEW v \in Vals, Resize(k, v)
      PROVE  Pairs' = Pairs
  BY <1>5, <1>6 DEF Resize
<1>7. CASE Write \/ SwapNow \/ Joined
  BY <1>5, <1>7 DEF Write, SwapNow, Joined, tableVars
<1>8. QED
  BY <1>2, <1>3, <1>4, <1>6, <1>7 DEF Server

\* Put, append and remove do to the table what they promise, whatever the rewriting thread
\* does meanwhile, and nothing else changes it from one restart to the next.
THEOREM TableIsPairStore == Spec => ImplementsPairStore
<1>1. Init => Store!Init
  BY DEF Init, Store!Init, Pairs, Found
<1>2. Linked /\ Linked' /\ [Next]_vars => [Restart \/ Store!Next]_Pairs
  <2>1. SUFFICES ASSUME Linked, Linked', [Next]_vars, ~Restart, ~UNCHANGED Pairs
                 PROVE  Store!Next
    OBVIOUS
  <2>2. CASE UNCHANGED vars
    BY <2>1, <2>2 DEF vars, tableVars, Pairs, Found
  <2>3. CASE Server
    BY <2>1, <2>3, ServerImplements
  <2>4. CASE Rewriter
    <3>1. UNCHANGED <<stored, val, slot, size>>
      BY <2>4 DEF Rewriter, Truncate, NextChain, RewritePair, Merge, tableVars
    <3>2. QED
      BY <2>1, <3>1 DEF Pairs, Found
  <2>5. QED
    BY <2>1, <2>2, <2>3, <2>4 DEF Next
<1>3. QED
  BY <1>1, <1>2, AlwaysLinked, PTL DEF Spec, ImplementsPairStore

-----------------------------------------------------------------------------
(***************************************************************************)
(* What the file holds.                                                    *)
(***************************************************************************)
LEMMA Numbers ==
  ASSUME file \in Seq(Records)
  PROVE  /\ Len(file) \in Nat /\ DOMAIN file = 1..Len(file)
         /\ \A i \in DOMAIN file : /\ i \in Nat /\ i # 0 /\ i \in 0..Len(file) /\ i - 1 \in 0..Len(file)
                                   /\ file[i] \in Records
                                   /\ file[i].piece \in Seq(Vals) /\ Len(file[i].piece) \in Nat
<1>1. Len(file) \in Nat /\ DOMAIN file = 1..Len(file)
  OBVIOUS
<1>2. ASSUME NEW i \in DOMAIN file
      PROVE  file[i] \in Records /\ file[i].piece \in Seq(Vals) /\ Len(file[i].piece) \in Nat
  <2>1. file[i] \in Records
    OBVIOUS
  <2>2. QED
    BY <2>1 DEF Records
<1>3. QED
  BY <1>1, <1>2

\* The file has the pieces of v for k, when ends tells where each ends.
Ends(k, v, ends) ==
  /\ ends \in [0..Len(file) -> 0..Len(v)]
  /\ ends[0] = 0 /\ ends[Len(file)] = Len(v)
  /\ \A i \in DOMAIN file :
       /\ ends[i] = ends[i - 1] + IF i \in Held(k) THEN Len(file[i].piece) ELSE 0
       /\ i \in Held(k) => SubSeq(v, ends[i - 1] + 1, ends[i]) = file[i].piece

LEMMA SpellsIs ==
  ASSUME NEW k, NEW v
  PROVE  Spells(k, v) <=> \E ends : Ends(k, v, ends)
BY DEF Spells, Ends

LEMMA HoldsNothing ==
  ASSUME file \in Seq(Records), NEW k, Held(k) = {}
  PROVE  Spells(k, <<>>)
<1> DEFINE ends == [i \in 0..Len(file) |-> 0]
<1>1. Len(file) \in Nat /\ Len(<<>>) = 0
  OBVIOUS
<1>2. Ends(k, <<>>, ends)
  BY <1>1, Numbers DEF Ends
<1>3. QED
  BY <1>2, SpellsIs

LEMMA HoldsNothingNext ==
  ASSUME file' \in Seq(Records), NEW k, Held(k)' = {}
  PROVE  Spells(k, <<>>)'
<1>1. PICK n \in Nat : n = Len(file') /\ DOMAIN file' = 1..n /\ Len(<<>>) = 0
  OBVIOUS
<1> DEFINE ends == [i \in 0..n |-> 0]
<1>2. /\ ends \in [0..n -> 0..0] /\ ends[0] = 0 /\ ends[n] = 0
      /\ \A i \in 1..n : ends[i] = ends[i - 1] + 0
  OBVIOUS
<1> HIDE DEF ends
<1>3. Ends(k, <<>>, ends)'
  BY <1>1, <1>2 DEF Ends
<1>4. QED
  BY <1>3 DEF Spells, Ends

\* The records of k are as they were.
LEMMA HoldsSame ==
  ASSUME file \in Seq(Records), file' \in Seq(Records), Len(file') = Len(file), NEW k,
         Held(k)' = Held(k), \A i \in Held(k) : file'[i].piece = file[i].piece,
         NEW v, Spells(k, v)
  PROVE  Spells(k, v)'
<1>1. PICK ends : Ends(k, v, ends)
  BY SpellsIs
<1>2. DOMAIN file' = DOMAIN file
  OBVIOUS
<1>3. Ends(k, v, ends)'
  BY <1>1, <1>2 DEF Ends
<1>4. QED
  BY <1>3 DEF Spells, Ends

\* A record at the end of the file.
LEMMA HeldAppend ==
  ASSUME file \in Seq(Records), NEW j \in Keys, NEW piece \in Seq(Vals),
         file' = Append(file, Record(j, piece))
  PROVE  /\ file' \in Seq(Records) /\ Len(file') = Len(file) + 1
         /\ DOMAIN file' = DOMAIN file \union {Len(file) + 1}
         /\ \A i \in DOMAIN file : file'[i] = file[i]
         /\ file'[Len(file) + 1] = Record(j, piece)
         /\ Held(j)' = Held(j) \union {Len(file) + 1}
         /\ \A k : k # j => Held(k)' = Held(k)
<1> DEFINE x == Record(j, piece)
<1>1. x \in Records /\ x.key = j /\ ~x.dead
  BY RecordType DEF Record
<1>2. file' = Append(file, x)
  OBVIOUS
<1> HIDE DEF x
<1>3. /\ file' \in Seq(Records) /\ Len(file') = Len(file) + 1
      /\ DOMAIN file' = DOMAIN file \union {Len(file) + 1}
      /\ \A i \in DOMAIN file : file'[i] = file[i]
      /\ file'[Len(file) + 1] = x
  BY <1>1, <1>2
<1>4. Live(file') = Live(file) \union {Len(file) + 1}
  BY <1>1, <1>3 DEF Live
<1>5. Len(file) + 1 \notin DOMAIN file
  OBVIOUS
<1>6. Held(j)' = Held(j) \union {Len(file) + 1}
  BY <1>1, <1>3, <1>4, <1>5 DEF Held, Live
<1>7. ASSUME NEW k, k # j
      PROVE  Held(k)' = Held(k)
  BY <1>1, <1>3, <1>4, <1>5, <1>7 DEF Held, Live
<1>8. QED
  BY <1>3, <1>6, <1>7 DEF x

\* A piece after a value.
LEMMA Joins ==
  ASSUME NEW u \in Seq(Vals), NEW piece \in Seq(Vals), NEW v, v = u \o piece
  PROVE  /\ Len(u) \in Nat /\ Len(piece) \in Nat /\ Len(v) = Len(u) + Len(piece)
         /\ \A a, b \in 0..Len(u) : SubSeq(v, a + 1, b) = SubSeq(u, a + 1, b)
         /\ SubSeq(v, Len(u) + 1, Len(v)) = piece
<1>1. /\ v \in Seq(Vals) /\ Len(u) \in Nat /\ Len(piece) \in Nat /\ Len(v) = Len(u) + Len(piece)
      /\ \A i \in 1..Len(u) : v[i] = u[i]
      /\ \A i \in 1..Len(piece) : v[Len(u) + i] = piece[i]
  BY ConcatProperties
<1>2. ASSUME NEW a \in 0..Len(u), NEW b \in 0..Len(u)
      PROVE  SubSeq(v, a + 1, b) = SubSeq(u, a + 1, b)
  <2>1. a + 1 \in Int /\ b \in Int /\ b <= Len(u)
    BY <1>1
  <2>2. \A i \in a + 1 .. b : i \in 1..Len(u)
    BY <1>1
  <2>3. \A i \in a + 1 .. b : v[i] = u[i] /\ u[i] \in Vals /\ v[i] \in Vals
    BY <1>1, <2>2
  <2>4. /\ SubSeq(v, a + 1, b) \in Seq(Vals) /\ SubSeq(u, a + 1, b) \in Seq(Vals)
        /\ Len(SubSeq(v, a + 1, b)) = Len(SubSeq(u, a + 1, b))
        /\ \A i \in 1..(b - (a + 1) + 1) : /\ SubSeq(v, a + 1, b)[i] = v[a + 1 + i - 1]
                                          /\ SubSeq(u, a + 1, b)[i] = u[a + 1 + i - 1]
        /\ Len(SubSeq(u, a + 1, b)) = IF a + 1 <= b THEN b - (a + 1) + 1 ELSE 0
    BY <2>1, <2>3, SubSeqProperties
  <2>5. \A i \in 1..Len(SubSeq(u, a + 1, b)) :
           i \in 1..(b - (a + 1) + 1) /\ a + 1 + i - 1 \in a + 1 .. b
    BY <2>1, <2>4
  <2>6. \A i \in 1..Len(SubSeq(v, a + 1, b)) : SubSeq(v, a + 1, b)[i] = SubSeq(u, a + 1, b)[i]
    BY <2>3, <2>4, <2>5
  <2>7. QED
    BY <2>4, <2>6, SeqEqual, Zenon
<1>3. SubSeq(v, Len(u) + 1, Len(v)) = piece
  BY <1>1
<1>4. QED
  BY <1>1, <1>2, <1>3

\* A record at the end of the file carries on what the file spells, or is of another key.
LEMMA SpellsOn ==
  ASSUME file \in Seq(Records), NEW j \in Keys, NEW piece \in Seq(Vals),
         file' = Append(file, Record(j, piece)),
         NEW k, NEW u \in Seq(Vals), Spells(k, u), NEW v, v = IF k = j THEN u \o piece ELSE u
  PROVE  Spells(k, v)'
<1>0. /\ Len(u) \in Nat /\ Len(v) \in Nat /\ Len(u) <= Len(v)
      /\ \A a, b \in 0..Len(u) : SubSeq(v, a + 1, b) = SubSeq(u, a + 1, b)
      /\ k = j => Len(v) = Len(u) + Len(piece) /\ SubSeq(v, Len(u) + 1, Len(v)) = piece
      /\ k # j => Len(v) = Len(u)
  <2>1. CASE k = j
    BY <2>1, Joins
  <2>2. CASE k # j
    BY <2>2
  <2>3. QED
    BY <2>1, <2>2
<1>1. PICK ends : Ends(k, u, ends)
  BY SpellsIs
<1>2. PICK n \in Nat : n = Len(file)
  BY Numbers
<1>3. /\ Len(file') = n + 1 /\ DOMAIN file = 1..n /\ DOMAIN file' = 1..(n + 1)
      /\ \A i \in 1..n : file'[i] = file[i]
      /\ file'[n + 1].piece = piece
      /\ \A i \in 1..n : i \in Held(k)' <=> i \in Held(k)
      /\ n + 1 \in Held(k)' <=> k = j
  <2>1. /\ DOMAIN file = 1..n /\ Len(file') = n + 1 /\ file' \in Seq(Records)
        /\ \A i \in DOMAIN file : file'[i] = file[i]
        /\ file'[n + 1] = Record(j, piece)
        /\ Held(j)' = Held(j) \union {n + 1}
        /\ k # j => Held(k)' = Held(k)
    BY <1>2, Numbers, HeldAppend
  <2>2. \A i \in Held(k) : i \in 1..n
    BY <2>1 DEF Held, Live
  <2>3. DOMAIN file' = 1..(n + 1)
    BY <2>1
  <2>4. n + 1 \notin 1..n
    BY <1>2
  <2>5. file'[n + 1].piece = piece
    BY <2>1 DEF Record
  <2>6. QED
    BY <2>1, <2>2, <2>3, <2>4, <2>5
<1>4. /\ ends \in [0..n -> 0..Len(u)] /\ ends[0] = 0 /\ ends[n] = Len(u)
      /\ \A i \in 1..n :
           /\ ends[i] = ends[i - 1] + IF i \in Held(k) THEN Len(file[i].piece) ELSE 0
           /\ i \in Held(k) => SubSeq(u, ends[i - 1] + 1, ends[i]) = file[i].piece
  BY <1>1, <1>2, <1>3 DEF Ends
<1> DEFINE to == [i \in 0..(n + 1) |-> IF i = n + 1 THEN Len(v) ELSE ends[i]]
<1>5. \A i \in 0..n : i \in 0..(n + 1) /\ i # n + 1 /\ ends[i] \in 0..Len(u) /\ ends[i] \in 0..Len(v)
  BY <1>0, <1>4
<1>6. \A i \in 0..n : to[i] = ends[i]
  BY <1>5
<1>7. n + 1 \in 0..(n + 1) /\ to[n + 1] = Len(v)
  OBVIOUS
<1>8. to \in [0..(n + 1) -> 0..Len(v)]
  <2>1. \A i \in 0..(n + 1) : i = n + 1 \/ i \in 0..n
    OBVIOUS
  <2>2. Len(v) \in 0..Len(v)
    BY <1>0
  <2>3. \A i \in 0..(n + 1) : to[i] \in 0..Len(v)
    BY <1>5, <1>6, <1>7, <2>1, <2>2
  <2>4. QED
    BY <2>3
<1> HIDE DEF to
<1>9. ASSUME NEW i \in 1..(n + 1)
      PROVE  /\ to[i] = to[i - 1] + IF i \in Held(k)' THEN Len(file'[i].piece) ELSE 0
             /\ i \in Held(k)' => SubSeq(v, to[i - 1] + 1, to[i]) = file'[i].piece
  <2>1. CASE i # n + 1
    <3>1. i \in 1..n /\ i \in 0..n /\ i - 1 \in 0..n
      BY <2>1
    <3>2. to[i] = ends[i] /\ to[i - 1] = ends[i - 1]
      BY <1>6, <3>1
    <3>3. SubSeq(v, ends[i - 1] + 1, ends[i]) = SubSeq(u, ends[i - 1] + 1, ends[i])
      BY <1>0, <1>5, <3>1
    <3>4. QED
      BY <1>3, <1>4, <3>1, <3>2, <3>3
  <2>2. CASE i = n + 1
    <3>1. i - 1 = n /\ n \in 0..n
      BY <2>2
    <3>2. to[i] = Len(v) /\ to[i - 1] = Len(u)
      BY <1>4, <1>6, <1>7, <2>2, <3>1
    <3>3. i \in Held(k)' <=> k = j
      BY <1>3, <2>2
    <3>4. file'[i].piece = piece
      BY <1>3, <2>2
    <3>5. k # j => Len(v) = Len(u) + 0
      BY <1>0
    <3>6. QED
      BY <1>0, <3>2, <3>3, <3>4, <3>5
  <2>3. QED
    BY <2>1, <2>2
<1>10. to[0] = 0
  BY <1>4, <1>6
<1>11. Ends(k, v, to)'
  BY <1>3, <1>7, <1>8, <1>9, <1>10 DEF Ends
<1>12. QED
  BY <1>11 DEF Spells, Ends

LEMMA HoldsOther ==
  ASSUME file \in Seq(Records), NEW j \in Keys, NEW piece \in Seq(Vals),
         file' = Append(file, Record(j, piece)),
         NEW k, k # j, NEW v \in Seq(Vals), Spells(k, v)
  PROVE  Spells(k, v)'
<1>1. v = IF k = j THEN v \o piece ELSE v
  OBVIOUS
<1>2. QED
  BY <1>1, SpellsOn

\* A piece of k at the end of the file.
LEMMA HoldsMore ==
  ASSUME file \in Seq(Records), NEW k \in Keys, NEW piece \in Seq(Vals),
         file' = Append(file, Record(k, piece)),
         NEW u \in Seq(Vals), Spells(k, u)
  PROVE  Spells(k, u \o piece)'
<1>1. PICK v : v = IF k = k THEN u \o piece ELSE u
  OBVIOUS
<1>2. Spells(k, v)'
  BY <1>1, SpellsOn
<1>3. v = u \o piece
  BY <1>1
<1>4. QED
  BY <1>2, <1>3

\* Among finitely many numbers one is the least.
LEMMA LeastExists ==
  ASSUME NEW S \in SUBSET Nat, IsFiniteSet(S), S # {}
  PROVE  \E n \in S : \A m \in S : n <= m
<1> DEFINE Below(k) == {m \in S : m < k}
           T == {Below(k) : k \in S}
           R == StrictSubsetOrdering(S)
<1>1. \A k \in S : Below(k) \in SUBSET S /\ IsFiniteSet(Below(k))
  BY FS_Subset
<1>2. T \subseteq FiniteSubsetsOf(S) /\ T # {}
  BY <1>1 DEF FiniteSubsetsOf
<1>3. PICK x \in T : \A y \in T : <<y, x>> \notin R
  <2>1. IsWellFoundedOn(R, FiniteSubsetsOf(S))
    BY FS_StrictSubsetOrderingWellFounded
  <2>2. QED
    BY <1>2, <2>1, WFMin
<1>4. PICK n \in S : x = Below(n)
  BY <1>3
<1>5. Below(n) = {}
  <2>1. SUFFICES ASSUME NEW m \in Below(n)
                 PROVE  FALSE
    OBVIOUS
  <2>2. m \in S /\ Below(m) \subseteq Below(n) /\ m \notin Below(m)
    <3>1. m \in S /\ m < n /\ m \in Nat /\ n \in Nat
      BY <2>1
    <3>2. \A l \in S : l < m => l < n
      BY <3>1
    <3>3. ~(m < m)
      BY <3>1
    <3>4. QED
      BY <3>1, <3>2, <3>3, Zenon
  <2>3. Below(m) \in T /\ Below(m) \in SUBSET S /\ Below(n) \in SUBSET S
    BY <2>2
  <2>4. Below(m) # Below(n)
    BY <2>1, <2>2
  <2>5. <<Below(m), x>> \in R
    BY <1>4, <2>2, <2>3, <2>4 DEF StrictSubsetOrdering
  <2>6. QED
    BY <1>3, <2>3, <2>5
<1>6. QED
  BY <1>4, <1>5

\* One record of k, with all of its value.
LEMMA HoldsOne ==
  ASSUME file \in Seq(Records), NEW k, NEW i \in DOMAIN file, Held(k) = {i}
  PROVE  Spells(k, file[i].piece)
<1>1. PICK n \in Nat : n = Len(file)
  BY Numbers
<1>2. PICK m \in Nat : m = Len(file[i].piece)
  BY Numbers
<1>3. DOMAIN file = 1..n /\ i \in 1..n /\ file[i].piece \in Seq(Vals)
  BY <1>1, Numbers
<1> DEFINE ends == [j \in 0..n |-> IF j < i THEN 0 ELSE m]
<1>4. /\ ends \in [0..n -> 0..m] /\ ends[0] = 0 /\ ends[n] = m
      /\ \A j \in 1..n : j \in 0..n /\ j - 1 \in 0..n
      /\ \A j \in 0..n : ends[j] = IF j < i THEN 0 ELSE m
  BY <1>3
<1>5. SubSeq(file[i].piece, 1, m) = file[i].piece
  BY <1>2, <1>3, SubSeqFull
<1> HIDE DEF ends
<1>6. ASSUME NEW j \in 1..n
      PROVE  /\ ends[j] = ends[j - 1] + IF j \in Held(k) THEN Len(file[j].piece) ELSE 0
             /\ j \in Held(k) => SubSeq(file[i].piece, ends[j - 1] + 1, ends[j]) = file[j].piece
  <2>1. CASE j < i
    <3>1. ends[j] = 0 /\ ends[j - 1] = 0 /\ j \notin Held(k)
      BY <1>3, <1>4, <2>1
    <3>2. QED
      BY <3>1
  <2>2. CASE j = i
    <3>1. ends[j] = m /\ ends[j - 1] = 0
      BY <1>3, <1>4, <2>2
    <3>2. ends[j - 1] + 1 = 1 /\ 0 + m = m
      BY <3>1
    <3>3. QED
      BY <1>2, <1>5, <2>2, <3>1, <3>2
  <2>3. CASE j > i
    <3>1. ends[j] = m /\ ends[j - 1] = m /\ j \notin Held(k)
      BY <1>3, <1>4, <2>3
    <3>2. QED
      BY <3>1
  <2>4. QED
    BY <1>3, <2>1, <2>2, <2>3
<1>7. Ends(k, file[i].piece, ends)
  BY <1>1, <1>2, <1>3, <1>4, <1>6 DEF Ends
<1>8. QED
  BY <1>7, SpellsIs

\* The first record of k has the beginning of its value.
LEMMA FirstPiece ==
  ASSUME file \in Seq(Records), NEW k, NEW v \in Seq(Vals), Spells(k, v),
         NEW i \in Held(k), \A j \in Held(k) : i <= j
  PROVE  file[i].piece = SubSeq(v, 1, Len(file[i].piece))
<1>1. PICK n \in Nat : n = Len(file)
  BY Numbers
<1>2. DOMAIN file = 1..n /\ i \in 1..n /\ Held(k) \subseteq 1..n
  BY <1>1, Numbers DEF Held, Live
<1>3. PICK ends : Ends(k, v, ends)
  BY SpellsIs
<1>4. /\ ends \in [0..n -> 0..Len(v)] /\ ends[0] = 0
      /\ \A j \in 1..n :
           /\ ends[j] = ends[j - 1] + IF j \in Held(k) THEN Len(file[j].piece) ELSE 0
           /\ j \in Held(k) => SubSeq(v, ends[j - 1] + 1, ends[j]) = file[j].piece
  BY <1>1, <1>2, <1>3 DEF Ends
<1>5. ends[i - 1] = 0
  <2> DEFINE S == {j \in 0..(i - 1) : ends[j] # 0}
  <2>1. S \in SUBSET Nat /\ IsFiniteSet(S)
    <3>1. IsFiniteSet(0..(i - 1))
      BY <1>2, FS_Interval
    <3>2. S \subseteq 0..(i - 1) /\ S \subseteq Nat
      OBVIOUS
    <3> HIDE DEF S
    <3>3. QED
      BY <3>1, <3>2, FS_Subset
  <2>2. SUFFICES ASSUME S # {}
                 PROVE  FALSE
    BY <1>2
  <2>3. PICK j \in S : \A l \in S : j <= l
    BY <2>1, <2>2, LeastExists
  <2>4. j \in 1..n /\ j < i
    <3>1. j \in 0..(i - 1) /\ ends[j] # 0
      BY <2>3
    <3>2. j # 0
      BY <1>4, <3>1
    <3>3. QED
      BY <1>2, <3>1, <3>2
  <2>5. j - 1 \notin S /\ j - 1 \in 0..(i - 1)
    BY <1>2, <2>3, <2>4
  <2>6. ends[j - 1] = 0 /\ j \notin Held(k)
    BY <1>2, <2>4, <2>5
  <2>7. ends[j] = 0 + 0
    BY <1>4, <2>4, <2>6
  <2>8. QED
    BY <2>3, <2>7
<1>6. Len(file[i].piece) \in Nat
  BY <1>2, Numbers
<1>7. ends[i] = Len(file[i].piece) /\ ends[i - 1] + 1 = 1
  BY <1>2, <1>4, <1>5, <1>6
<1>8. SubSeq(v, ends[i - 1] + 1, ends[i]) = file[i].piece
  BY <1>2, <1>4
<1>9. QED
  BY <1>7, <1>8

-----------------------------------------------------------------------------
(***************************************************************************)
(* The invariant: what the file holds between rewrites, and what a rewrite *)
(* has put into it so far.                                                 *)
(***************************************************************************)

\* A record of k is due.
Owed(k) == pending.do \in {"write", "append"} /\ pending.key = k

\* All that is held of k is at its positions, and is its value but for the record that is due.
Settled(k) ==
  /\ Held(k) \subseteq pos[k]
  /\ k \notin stored => Held(k) = {}
  /\ ~Owed(k) => Spells(k, val[k])
  /\ Owed(k) /\ pending.do = "write" => Held(k) = {}
  /\ Owed(k) /\ pending.do = "append" =>
       \E u \in Seq(Vals) : val[k] = Append(u, pending.piece) /\ Spells(k, u)

NoRecord(k) == \A i \in DOMAIN file : file[i].key # k

\* The rewrite has written k's value.
Written(k) ==
  \E i \in DOMAIN file :
    /\ file[i] = Record(k, val[k]) /\ pos[k] = {i}
    /\ \A j \in DOMAIN file : file[j].key = k => j = i

\* The walk has been at k.
Passed(k) == slot[k] < rw.slot \/ (slot[k] = rw.slot /\ rw.at # NoKey /\ k \in ahead[rw.at])

Walked(k) ==
  /\ k \in stored => Written(k) \/ (~Passed(k) /\ NoRecord(k))
  /\ k \notin stored => NoRecord(k)

ThreadRight ==
  /\ wild => rw.phase = "walk"
  /\ rw.phase # "walk" => rw \in {Off, Begin}
  /\ pending.do \in {"write", "append"} => pending.key \in stored
  /\ \A k \in Keys \ stored : val[k] = <<>>

OffRight == ~wild /\ ~Rewriting /\ ~garbled => \A k \in Keys \ astray : Settled(k)

\* A pair that the thread stands on leaves its chain only when a resize moves all pairs.
WalkRight ==
  ~wild /\ rw.phase = "walk" =>
    /\ rw.at # NoKey => rw.at \in stored
    /\ diff \subseteq astray
    /\ pending.key \in astray \union {NoKey}
    /\ \A k \in Keys \ astray : Walked(k)
    /\ rw.at # NoKey /\ slot[rw.at] # rw.slot => \A k \in stored \ astray : Written(k)

FileRight == ThreadRight /\ OffRight /\ WalkRight

-----------------------------------------------------------------------------
(***************************************************************************)
(* The server thread between rewrites.                                     *)
(***************************************************************************)
LEMMA IdleOwes ==
  ASSUME NEW k, Ready \/ \E v \in Vals : Puts(k, v)
  PROVE  ~wild /\ \A j : ~Owed(j)
BY DEF Ready, Puts, Owed, Idle

LEMMA DoneOwes ==
  ASSUME pending' = Done
  PROVE  \A j : ~Owed(j)'
BY DEF Done, Idle, Owed

LEMMA NotRewriting ==
  ASSUME ThreadRight, ~Rewriting
  PROVE  ~wild /\ rw = Off /\ rw.at = NoKey /\ \A k \in Keys : rw.at # k
BY NoVoHTAssumption DEF ThreadRight, Rewriting, Off, Begin, NoVoHTAssumption

\* A pair that keeps its records, its value and its positions.
LEMMA SettledStays ==
  ASSUME Shape, Shape', NEW k \in Keys, Settled(k),
         Len(file') = Len(file), Held(k)' = Held(k),
         \A i \in Held(k) : file'[i].piece = file[i].piece,
         pos'[k] = pos[k], val'[k] = val[k], k \in stored <=> k \in stored',
         pending' = pending \/ (~Owed(k) /\ ~Owed(k)')
  PROVE  Settled(k)'
<1>1. file \in Seq(Records) /\ file' \in Seq(Records)
  BY DEF Shape, FileOK
<1>2. \A v : Spells(k, v) => Spells(k, v)'
  BY <1>1, HoldsSame
<1>3. Held(k)' \subseteq pos'[k] /\ (k \notin stored' => Held(k)' = {})
  BY DEF Settled
<1>4. CASE ~Owed(k) /\ ~Owed(k)'
  <2>1. Spells(k, val[k])'
    <3>1. PICK v : v = val[k]
      OBVIOUS
    <3>2. Spells(k, v)'
      BY <1>2, <1>4, <3>1 DEF Settled
    <3>3. QED
      BY <3>1, <3>2
  <2>2. QED
    BY <1>3, <1>4, <2>1 DEF Settled
<1>5. CASE pending' = pending
  <2>1. Owed(k)' <=> Owed(k)
    BY <1>5 DEF Owed
  <2>2. CASE Owed(k) /\ pending.do = "append"
    <3>1. PICK u \in Seq(Vals) : val[k] = Append(u, pending.piece) /\ Spells(k, u)
      BY <2>2 DEF Settled
    <3>2. Spells(k, u)'
      BY <1>2, <3>1
    <3>3. QED
      BY <1>3, <1>5, <2>1, <2>2, <3>1, <3>2 DEF Settled
  <2>3. CASE Owed(k) /\ pending.do # "append"
    BY <1>3, <1>5, <2>1, <2>3 DEF Settled, Owed
  <2>4. CASE ~Owed(k)
    BY <1>4, <2>1, <2>4
  <2>5. QED
    BY <2>2, <2>3, <2>4
<1>6. QED
  BY <1>4, <1>5

LEMMA FileStays ==
  ASSUME Shape, Shape', NEW k \in Keys, Settled(k), file' = file,
         pos'[k] = pos[k], val'[k] = val[k], k \in stored <=> k \in stored',
         pending' = pending \/ (~Owed(k) /\ ~Owed(k)')
  PROVE  Settled(k)'
<1>1. Held(k)' = Held(k)
  BY DEF Held, Live
<1>2. QED
  BY <1>1, SettledStays

\* What marks do to the records of a key.
LEMMA MarkHeld ==
  ASSUME FileOK, NEW plist, Mark(plist), ~Rewriting
  PROVE  /\ file' \in Seq(Records) /\ Len(file') = Len(file)
         /\ \A i \in DOMAIN file : file'[i].piece = file[i].piece
         /\ \A k : Held(k)' = Held(k) \ plist
<1>1. file \in Seq(Records) /\ file' \in Seq(Records) /\ Len(file') = Len(file)
  BY MarkKeeps DEF FileOK
<1>2. CASE plist = {}
  <2>1. file' = file
    BY <1>2 DEF Mark
  <2>2. QED
    BY <1>1, <1>2, <2>1 DEF Held, Live
<1>3. CASE plist # {}
  <2> DEFINE M(i) == [file[i] EXCEPT !.dead = @ \/ i \in plist]
  <2>0. \A i : M(i) = [file[i] EXCEPT !.dead = (file[i].dead \/ i \in plist)]
    OBVIOUS
  <2>1. file' = [i \in DOMAIN file |-> M(i)]
    BY <1>3 DEF Mark, Marked
  <2> HIDE DEF M
  <2>2. DOMAIN file' = DOMAIN file
    BY <2>1
  <2>3. ASSUME NEW i \in DOMAIN file
        PROVE  /\ file'[i].piece = file[i].piece /\ file'[i].key = file[i].key
               /\ file'[i].dead <=> (file[i].dead \/ i \in plist)
    <3>1. file[i] \in [key : Keys, piece : Seq(Vals), dead : BOOLEAN]
      <4>1. file[i] \in Records
        BY <1>1
      <4>2. QED
        BY <4>1 DEF Records
    <3>2. file'[i] = [file[i] EXCEPT !.dead = (file[i].dead \/ i \in plist)]
      BY <2>0, <2>1
    <3>3. file'[i].piece = file[i].piece /\ file'[i].key = file[i].key
      BY <3>1, <3>2
    <3>4. file'[i].dead = (file[i].dead \/ i \in plist)
      BY <3>1, <3>2
    <3>5. QED
      BY <3>3, <3>4
  <2>4. \A k : Held(k)' = Held(k) \ plist
    BY <2>2, <2>3 DEF Held, Live
  <2>5. QED
    BY <1>1, <2>3, <2>4
<1>4. QED
  BY <1>2, <1>3

\* Marks at the positions of one key leave the records of the others alone.
LEMMA MarkOthers ==
  ASSUME Shape, PositionsLead, NEW f \in Keys, Mark(pos[f]), ~Rewriting, NEW k \in Keys, k # f
  PROVE  Held(k)' = Held(k)
<1>1. Held(k)' = Held(k) \ pos[f]
  BY MarkHeld DEF Shape
<1>2. ASSUME NEW i \in Held(k)
      PROVE  i \notin pos[f]
  <2>1. i \in DOMAIN file /\ file[i].key = k /\ i # Foreign
    BY <1>2, Numbers DEF Held, Live, Foreign, Shape, FileOK
  <2>2. QED
    BY <2>1 DEF PositionsLead
<1>3. QED
  BY <1>1, <1>2

FileInv == Linked /\ PositionsLead /\ FileRight

\* Nothing is to be shown but for keys that are not astray, between rewrites.
LEMMA OffBefore ==
  ASSUME FileInv, ~wild, ~Rewriting, ~garbled, NEW j \in Keys, j \notin astray
  PROVE  Settled(j)
BY DEF FileInv, FileRight, OffRight

LEMMA ResizeOff ==
  ASSUME FileInv, Linked', NEW k \in Keys, NEW v \in Vals, Resize(k, v)
  PROVE  OffRight'
<1>1. SUFFICES ASSUME ~wild', ~Rewriting', ~garbled', NEW j \in Keys, j \notin astray'
               PROVE  Settled(j)'
  BY DEF OffRight
<1>2. /\ ~wild /\ (\A i : ~Owed(i)) /\ (\A i : ~Owed(i)')
      /\ UNCHANGED <<file, pos, val, stored, garbled, rw>>
  BY IdleOwes, ThenType DEF Resize, Then, Owed, fileVars
<1>3. ~Rewriting /\ ~garbled
  BY <1>1, <1>2 DEF Rewriting
<1>4. astray' = astray
  BY <1>3 DEF Resize, Rewriting
<1>5. Settled(j)
  BY <1>1, <1>2, <1>3, <1>4, OffBefore
<1>6. QED
  BY <1>2, <1>5, FileStays DEF FileInv, Linked

LEMMA NewPairOff ==
  ASSUME FileInv, Linked', NEW k \in Keys, NEW v \in Vals, NewPair(k, v),
         ~wild, \A j : ~Owed(j)
  PROVE  OffRight'
<1>1. SUFFICES ASSUME ~wild', ~Rewriting', ~garbled', NEW j \in Keys, j \notin astray'
               PROVE  Settled(j)'
  BY DEF OffRight
<1>2. /\ UNCHANGED <<file, pos, garbled, rw>>
      /\ stored' = stored \union {k} /\ val' = [val EXCEPT ![k] = <<v>>]
      /\ pending' = [do |-> "write", key |-> k, piece |-> v]
  BY DEF NewPair, fileVars, Then
<1>3. ~Rewriting /\ ~garbled
  BY <1>1, <1>2 DEF Rewriting
<1>4. astray' = astray
  BY <1>3 DEF NewPair, Strays
<1>5. Settled(j)
  BY <1>1, <1>3, <1>4, OffBefore
<1>6. CASE j # k
  <2>1. val'[j] = val[j] /\ ~Owed(j)' /\ (j \in stored <=> j \in stored')
    BY <1>2, <1>6 DEF Owed, FileInv, Linked, Shape, TableOK
  <2>2. QED
    BY <1>2, <1>5, <2>1, FileStays DEF FileInv, Linked
<1>7. CASE j = k
  <2>1. k \notin stored
    BY NotFound DEF NewPair, FileInv, Linked
  <2>2. Held(k) = {}
    BY <1>5, <1>7, <2>1 DEF Settled
  <2>3. Held(k)' = {}
    BY <1>2, <2>2 DEF Held, Live
  <2>4. Owed(k)' /\ pending'.do = "write" /\ k \in stored'
    BY <1>2 DEF Owed
  <2>5. QED
    BY <1>7, <2>3, <2>4 DEF Settled
<1>8. QED
  BY <1>6, <1>7

LEMMA PutOldOff ==
  ASSUME FileInv, Linked', NEW k \in Keys, NEW v \in Vals, PutOld(k, v)
  PROVE  OffRight'
<1>1. SUFFICES ASSUME ~wild', ~Rewriting', ~garbled', NEW j \in Keys, j \notin astray'
               PROVE  Settled(j)'
  BY DEF OffRight
<1>2. /\ Mark(pos[k]) /\ UNCHANGED <<pos, stored, rw>>
      /\ val' = [val EXCEPT ![k] = <<v>>]
      /\ pending' = [do |-> "write", key |-> k, piece |-> v]
      /\ ~wild /\ (\A i : ~Owed(i)) /\ k \in stored
  BY IdleOwes DEF PutOld, Then, Found
<1>3. ~Rewriting
  BY <1>1, <1>2 DEF Rewriting
<1>4. astray' = astray /\ ~garbled
  BY <1>1, <1>2, <1>3 DEF PutOld, Strays, Mark
<1>5. Settled(j)
  BY <1>1, <1>2, <1>3, <1>4, OffBefore
<1>6. /\ Len(file') = Len(file) /\ \A i \in DOMAIN file : file'[i].piece = file[i].piece
      /\ Held(k)' = Held(k) \ pos[k]
  BY <1>2, <1>3, MarkHeld DEF FileInv, Linked, Shape
<1>7. CASE j # k
  <2>1. val'[j] = val[j] /\ ~Owed(j)'
    BY <1>2, <1>7 DEF Owed, FileInv, Linked, Shape, TableOK
  <2>2. Held(j)' = Held(j)
    BY <1>2, <1>3, <1>7, MarkOthers DEF FileInv, Linked
  <2>3. \A i \in Held(j) : file'[i].piece = file[i].piece
    BY <1>6 DEF Held, Live
  <2>4. QED
    BY <1>2, <1>5, <1>6, <2>1, <2>2, <2>3, SettledStays DEF FileInv, Linked
<1>8. CASE j = k
  <2>1. Held(k)' = {}
    BY <1>5, <1>6, <1>8 DEF Settled
  <2>2. Owed(k)' /\ pending'.do = "write" /\ k \in stored'
    BY <1>2 DEF Owed
  <2>3. QED
    BY <1>8, <2>1, <2>2 DEF Settled
<1>9. QED
  BY <1>7, <1>8

LEMMA AppendOldOff ==
  ASSUME FileInv, Linked', NEW k \in Keys, NEW v \in Vals, AppendOld(k, v)
  PROVE  OffRight'
<1>1. SUFFICES ASSUME ~wild', ~Rewriting', ~garbled', NEW j \in Keys, j \notin astray'
               PROVE  Settled(j)'
  BY DEF OffRight
<1>2. /\ UNCHANGED <<file, pos, garbled, stored, rw>>
      /\ val' = [val EXCEPT ![k] = Append(@, v)]
      /\ pending' = [do |-> "append", key |-> k, piece |-> v]
      /\ ~wild /\ (\A i : ~Owed(i)) /\ k \in stored
  BY IdleOwes DEF AppendOld, Then, Found, fileVars
<1>3. ~Rewriting /\ ~garbled
  BY <1>1, <1>2 DEF Rewriting
<1>4. astray' = astray
  BY <1>3 DEF AppendOld, Strays
<1>5. Settled(j)
  BY <1>1, <1>2, <1>3, <1>4, OffBefore
<1>6. CASE j # k
  <2>1. val'[j] = val[j] /\ ~Owed(j)'
    BY <1>2, <1>6 DEF Owed, FileInv, Linked, Shape, TableOK
  <2>2. QED
    BY <1>2, <1>5, <2>1, FileStays DEF FileInv, Linked
<1>7. CASE j = k
  <2>1. Held(k)' = Held(k)
    BY <1>2 DEF Held, Live
  <2>2. PICK u \in Seq(Vals) : u = val[k]
    BY DEF FileInv, Linked, Shape, TableOK
  <2>3. val'[k] = Append(u, v)
    BY <1>2, <2>2 DEF FileInv, Linked, Shape, TableOK
  <2>4. Spells(k, u)'
    <3>1. Spells(k, u)
      BY <1>2, <1>5, <1>7, <2>2 DEF Settled
    <3>2. file \in Seq(Records) /\ file' \in Seq(Records)
      BY DEF FileInv, Linked, Shape, FileOK
    <3>3. QED
      BY <1>2, <2>1, <3>1, <3>2, HoldsSame
  <2>5. Owed(k)' /\ pending'.do = "append" /\ pending'.piece = v /\ k \in stored'
    BY <1>2 DEF Owed
  <2>6. Held(k)' \subseteq pos'[k]
    BY <1>2, <1>5, <1>7, <2>1 DEF Settled
  <2>7. QED
    BY <1>7, <2>3, <2>4, <2>5, <2>6 DEF Settled
<1>8. QED
  BY <1>6, <1>7

LEMMA RemoveOff ==
  ASSUME FileInv, Linked', NEW k \in Keys, Remove(k)
  PROVE  OffRight'
<1>1. SUFFICES ASSUME ~wild', ~Rewriting', ~garbled', NEW j \in Keys, j \notin astray'
               PROVE  Settled(j)'
  BY DEF OffRight
<1>2. PICK first \in Keys : first = First(slot[k])
  BY FirstOfFound DEF Remove, FileInv
<1>3. /\ Mark(pos[first]) /\ stored' = stored \ {k}
      /\ val' = [val EXCEPT ![k] = <<>>] /\ pos' = [pos EXCEPT ![k] = {}]
      /\ ~wild /\ (\A i : ~Owed(i)) /\ (\A i : ~Owed(i)')
  BY <1>2, IdleOwes, DoneOwes DEF Remove, Unlinks
<1>4. ~Rewriting
  BY <1>1 DEF Remove, WriteFile, Rewriting
<1>5. ~garbled /\ astray' = IF first # k THEN astray \union {first, k} ELSE astray
  BY <1>1, <1>2, <1>3, <1>4 DEF Remove, Mark
<1>6. Settled(j) /\ (first # k => j # first /\ j # k)
  BY <1>1, <1>3, <1>4, <1>5, OffBefore
<1>7. /\ Len(file') = Len(file) /\ \A i \in DOMAIN file : file'[i].piece = file[i].piece
      /\ Held(first)' = Held(first) \ pos[first]
  BY <1>3, <1>4, MarkHeld DEF FileInv, Linked, Shape
<1>8. CASE j # k
  <2>1. j # first
    BY <1>6, <1>8
  <2>2. val'[j] = val[j] /\ pos'[j] = pos[j] /\ (j \in stored <=> j \in stored')
    BY <1>3, <1>8 DEF FileInv, Linked, Shape, TableOK, FileOK
  <2>3. Held(j)' = Held(j)
    BY <1>3, <1>4, <2>1, MarkOthers DEF FileInv, Linked
  <2>4. \A i \in Held(j) : file'[i].piece = file[i].piece
    BY <1>7 DEF Held, Live
  <2>5. QED
    BY <1>3, <1>6, <1>7, <2>2, <2>3, <2>4, SettledStays DEF FileInv, Linked
<1>9. CASE j = k
  <2>1. first = k
    BY <1>6, <1>9
  <2>2. Held(k)' = {}
    BY <1>6, <1>7, <1>9, <2>1 DEF Settled
  <2>3. val'[k] = <<>>
    BY <1>3 DEF FileInv, Linked, Shape, TableOK
  <2>4. Spells(k, <<>>)'
    <3>1. file' \in Seq(Records)
      BY DEF Linked, Shape, FileOK
    <3>2. QED
      BY <2>2, <3>1, HoldsNothingNext
  <2>5. QED
    BY <1>3, <1>9, <2>2, <2>3, <2>4 DEF Settled
<1>10. QED
  BY <1>8, <1>9

LEMMA WriteOff ==
  ASSUME FileInv, Linked', Write
  PROVE  OffRight'
<1>1. SUFFICES ASSUME ~wild', ~Rewriting', ~garbled', NEW j \in Keys, j \notin astray'
               PROVE  Settled(j)'
  BY DEF OffRight
<1>2. PICK k \in Keys : k = pending.key
  BY DEF Write, FileInv, Linked, Shape, ThreadsOK
<1>3. /\ ~Rewriting /\ ~wild /\ ~garbled /\ (\A i : ~Owed(i)')
      /\ UNCHANGED <<stored, val>>
  BY <1>1, DoneOwes DEF Write, Rewriting, tableVars
<1>4. astray' = astray
  BY <1>3 DEF Write, Strays
<1>5. Settled(j)
  BY <1>1, <1>3, <1>4, OffBefore
<1>6. PICK piece \in Seq(Vals) : piece = IF pending.do = "write" THEN val[k] ELSE <<pending.piece>>
  <2>1. val[k] \in Seq(Vals)
    BY DEF FileInv, Linked, Shape, TableOK
  <2>2. pending.do = "append" => <<pending.piece>> \in Seq(Vals)
    BY DEF FileInv, Linked, Shape, ThreadsOK
  <2>3. pending.do \in {"write", "append"}
    BY DEF Write
  <2>4. QED
    BY <2>1, <2>2, <2>3
<1>7. /\ file' = Append(file, Record(k, piece)) /\ file \in Seq(Records)
      /\ pos' = [pos EXCEPT ![k] = IF pending.do = "write" THEN {Len(file) + 1}
                                   ELSE @ \union {Len(file) + 1}]
      /\ pos \in [Keys -> SUBSET Nat]
  BY <1>2, <1>3, <1>6 DEF Write, Place, FileInv, Linked, Shape, FileOK
<1>8. Held(k)' = Held(k) \union {Len(file) + 1} /\ \A i : i # k => Held(i)' = Held(i)
  BY <1>7, HeldAppend
<1>9. CASE j # k
  <2>1. ~Owed(j)
    BY <1>2, <1>9 DEF Owed
  <2>2. PICK v \in Seq(Vals) : v = val[j]
    BY DEF FileInv, Linked, Shape, TableOK
  <2>3. Spells(j, v)'
    BY <1>5, <1>7, <1>9, <2>1, <2>2, HoldsOther DEF Settled
  <2>4. val'[j] = v /\ pos'[j] = pos[j]
    BY <1>3, <1>7, <1>9, <2>2
  <2>5. QED
    BY <1>3, <1>5, <1>8, <1>9, <2>3, <2>4 DEF Settled
<1>10. CASE j = k
  <2>1. Owed(k) /\ k \in stored
    BY <1>2 DEF Write, Owed, FileInv, FileRight, ThreadRight
  <2>2. Held(k)' \subseteq pos'[k]
    BY <1>5, <1>7, <1>8, <1>10, <2>1 DEF Settled
  <2>3. Spells(k, val[k])'
    <3>1. CASE pending.do = "write"
      <4>1. Held(k) = {} /\ piece = val[k]
        BY <1>5, <1>6, <1>10, <2>1, <3>1 DEF Settled
      <4>2. Spells(k, <<>>)
        BY <1>7, <4>1, HoldsNothing
      <4>3. <<>> \in Seq(Vals) /\ <<>> \o piece = piece
        OBVIOUS
      <4>4. Spells(k, <<>> \o piece)'
        BY <1>7, <4>2, <4>3, HoldsMore
      <4>5. QED
        BY <1>3, <4>1, <4>3, <4>4
    <3>2. CASE pending.do = "append"
      <4>1. PICK u \in Seq(Vals) : val[k] = Append(u, pending.piece) /\ Spells(k, u)
        BY <1>5, <1>10, <2>1, <3>2 DEF Settled
      <4>2. Spells(k, u \o piece)'
        BY <1>7, <4>1, HoldsMore
      <4>3. u \o piece = Append(u, pending.piece)
        BY <1>6, <3>2 DEF FileInv, Linked, Shape, ThreadsOK
      <4>4. QED
        BY <1>3, <4>1, <4>2, <4>3
    <3>3. QED
      BY <3>1, <3>2 DEF Write
  <2>4. QED
    BY <1>3, <1>10, <2>1, <2>2, <2>3 DEF Settled
<1>11. QED
  BY <1>9, <1>10

LEMMA SwapOff ==
  ASSUME FileInv, Linked', SwapNow \/ Joined \/ UNCHANGED vars
  PROVE  OffRight'
<1>1. SUFFICES ASSUME ~wild', ~Rewriting', ~garbled', NEW j \in Keys, j \notin astray'
               PROVE  Settled(j)'
  BY DEF OffRight
<1>2. /\ UNCHANGED <<file, pos, val, stored, garbled, wild, astray>>
      /\ pending' = pending \/ (~Owed(j) /\ ~Owed(j)')
  <2>1. CASE SwapNow
    BY <2>1 DEF SwapNow, tableVars, fileVars, Owed
  <2>2. CASE Joined
    BY <2>2 DEF Joined, tableVars, fileVars, Owed, Idle
  <2>3. CASE UNCHANGED vars
    BY <2>3 DEF vars, tableVars, fileVars
  <2>4. QED
    BY <2>1, <2>2, <2>3
<1>3. ~Rewriting
  BY <1>1 DEF SwapNow, Joined, vars, WriteFile, Rewriting
<1>4. Settled(j)
  BY <1>1, <1>2, <1>3, OffBefore
<1>5. QED
  BY <1>2, <1>4, FileStays DEF FileInv, Linked

-----------------------------------------------------------------------------
(***************************************************************************)
(* The server thread during a rewrite.                                     *)
(***************************************************************************)

\* What the server does to the pairs of ks, it puts on record.
LEMMA WalkStays ==
  ASSUME Shape, WalkRight, ~wild, rw.phase = "walk", rw' = rw, file' = file, NEW ks \in SUBSET Keys,
         astray' = astray \union ks, diff' \subseteq diff \union ks,
         pending'.key \in ks \union {pending.key, NoKey},
         \A j \in Keys \ ks :
           /\ (j \in stored' <=> j \in stored)
           /\ val'[j] = val[j] /\ pos'[j] = pos[j] /\ slot'[j] = slot[j]
           /\ rw.at # NoKey => (j \in ahead'[rw.at] <=> j \in ahead[rw.at]),
         rw.at # NoKey => rw.at \in stored' /\ slot'[rw.at] = slot[rw.at],
         stored' \subseteq Keys
  PROVE  WalkRight'
<1>1. /\ rw.at # NoKey => rw.at \in stored
      /\ diff \subseteq astray
      /\ pending.key \in astray \union {NoKey}
      /\ \A k \in Keys \ astray : Walked(k)
      /\ rw.at # NoKey /\ slot[rw.at] # rw.slot => \A k \in stored \ astray : Written(k)
  BY DEF WalkRight
<1>2. ASSUME NEW j \in Keys \ astray'
      PROVE  (Written(j)' <=> Written(j)) /\ (Passed(j)' <=> Passed(j)) /\ (NoRecord(j)' <=> NoRecord(j))
             /\ (j \in stored' <=> j \in stored)
  BY <1>2 DEF Written, Passed, NoRecord
<1>3. ASSUME NEW j \in Keys \ astray'
      PROVE  Walked(j)'
  <2>1. Walked(j)
    BY <1>1, <1>3
  <2>2. QED
    BY <1>2, <1>3, <2>1 DEF Walked
<1>4. rw'.at # NoKey /\ slot'[rw'.at] # rw'.slot => \A k \in stored' \ astray' : Written(k)'
  <2>1. SUFFICES ASSUME rw'.at # NoKey, slot'[rw'.at] # rw'.slot, NEW k \in stored' \ astray'
                 PROVE  Written(k)'
    OBVIOUS
  <2>2. k \in Keys \ astray' /\ k \in stored \ astray
    BY <1>2, <2>1
  <2>3. Written(k)
    BY <1>1, <2>1, <2>2
  <2>4. QED
    BY <1>2, <2>2, <2>3
<1>5. QED
  BY <1>1, <1>3, <1>4 DEF WalkRight

LEMMA ResizeWalk ==
  ASSUME FileInv, Linked', NEW k \in Keys, NEW v \in Vals, Resize(k, v)
  PROVE  WalkRight'
<1>1. SUFFICES ASSUME ~wild', rw'.phase = "walk"
               PROVE  WalkRight'
  BY DEF WalkRight
<1>2. /\ rw' = rw /\ stored' = stored /\ ~wild /\ astray' = Keys /\ pending'.key = k
  BY <1>1, IdleOwes, ThenType DEF Resize
<1>3. rw.at # NoKey => rw.at \in stored
  BY <1>1, <1>2 DEF WalkRight, FileInv, FileRight
<1>4. diff' \subseteq Keys /\ stored' \subseteq Keys
  BY DEF Linked, Shape, TableOK
<1>5. QED
  BY <1>2, <1>3, <1>4 DEF WalkRight

LEMMA NewPairWalk ==
  ASSUME FileInv, Linked', NEW k \in Keys, NEW v \in Vals, NewPair(k, v), ~wild,
         rw.at # k /\ rw.at \in Keys =>
           \A j \in Keys \ {k} : j \in ahead'[rw.at] <=> j \in ahead[rw.at]
  PROVE  WalkRight'
<1>1. SUFFICES ASSUME ~wild', rw'.phase = "walk"
               PROVE  WalkRight'
  BY DEF WalkRight
<1>2. /\ rw' = rw /\ rw.phase = "walk" /\ file' = file /\ pos' = pos
      /\ stored' = stored \union {k} /\ val' = [val EXCEPT ![k] = <<v>>]
      /\ slot' = [slot EXCEPT ![k] = Hash[k] % size]
      /\ diff' \subseteq diff \union {k} /\ pending'.key = k
  BY <1>1, ThenType DEF NewPair, fileVars
<1>3. astray' = astray \union {k}
  BY <1>2 DEF NewPair, Strays, Rewriting
<1>4. k \notin stored /\ Shape /\ WalkRight
  BY NotFound DEF NewPair, FileInv, FileRight, Linked
<1>5. \A j \in Keys \ {k} : val'[j] = val[j] /\ slot'[j] = slot[j]
  BY <1>2, <1>4 DEF Shape, TableOK
<1>6. ASSUME rw.at # NoKey
      PROVE  rw.at \in stored /\ rw.at \in Keys /\ rw.at # k
  BY <1>1, <1>2, <1>4, <1>6 DEF WalkRight, Shape, TableOK
<1>7. stored' \subseteq Keys
  BY DEF Linked, Shape, TableOK
<1>8. QED
  BY <1>2, <1>3, <1>4, <1>5, <1>6, <1>7, WalkStays

LEMMA PutNewWalk ==
  ASSUME FileInv, Linked', NEW k \in Keys, NEW v \in Vals, PutNew(k, v)
  PROVE  WalkRight'
<1>1. NewPair(k, v) /\ ~wild /\ ahead' = [ahead EXCEPT ![k] = Chain(Hash[k] % size)]
  BY DEF PutNew, Puts, Ready
<1>2. rw.at # k /\ rw.at \in Keys => \A j \in Keys \ {k} : j \in ahead'[rw.at] <=> j \in ahead[rw.at]
  BY <1>1 DEF FileInv, Linked, Shape, TableOK
<1>3. QED
  BY <1>1, <1>2, NewPairWalk

LEMMA AppendNewWalk ==
  ASSUME FileInv, Linked', NEW k \in Keys, NEW v \in Vals, AppendNew(k, v)
  PROVE  WalkRight'
<1>1. NewPair(k, v) /\ ~wild
  BY DEF AppendNew, Ready
<1>2. rw.at # k /\ rw.at \in Keys => \A j \in Keys \ {k} : j \in ahead'[rw.at] <=> j \in ahead[rw.at]
  BY DEF AppendNew
<1>3. QED
  BY <1>1, <1>2, NewPairWalk

LEMMA UpdateWalk ==
  ASSUME FileInv, Linked', NEW k \in Keys, NEW v \in Vals, PutOld(k, v) \/ AppendOld(k, v)
  PROVE  WalkRight'
<1>1. SUFFICES ASSUME ~wild', rw'.phase = "walk"
               PROVE  WalkRight'
  BY DEF WalkRight
<1>2. /\ UNCHANGED <<rw, stored, slot, ahead, diff, pos>> /\ ~wild
      /\ pending'.key = k /\ Strays({k})
      /\ \E x : val' = [val EXCEPT ![k] = x]
  BY ThenType DEF PutOld, AppendOld, Puts, Ready, fileVars
<1>3. Rewriting /\ rw.phase = "walk" /\ astray' = astray \union {k}
  BY <1>1, <1>2 DEF Strays, Rewriting
<1>4. file' = file
  BY <1>3 DEF PutOld, AppendOld, Mark, fileVars
<1>5. Shape /\ WalkRight /\ stored' \subseteq Keys
  BY DEF FileInv, FileRight, Linked, Shape, TableOK
<1>6. \A j \in Keys \ {k} : val'[j] = val[j]
  BY <1>2, <1>5 DEF Shape, TableOK
<1>7. rw.at # NoKey => rw.at \in stored'
  BY <1>2, <1>3, <1>5 DEF WalkRight
<1>8. QED
  BY <1>2, <1>3, <1>4, <1>5, <1>6, <1>7, WalkStays

LEMMA RemoveWalk ==
  ASSUME FileInv, Linked', NEW k \in Keys, Remove(k)
  PROVE  WalkRight'
<1>1. SUFFICES ASSUME ~wild', rw'.phase = "walk"
               PROVE  WalkRight'
  BY DEF WalkRight
<1>2. PICK first \in Keys : first = First(slot[k])
  BY FirstOfFound DEF Remove, FileInv
<1>3. /\ stored' = stored \ {k} /\ slot' = [slot EXCEPT ![k] = 0]
      /\ ahead' = [j \in Keys |-> IF j = k THEN {} ELSE ahead[j] \ {k}]
      /\ val' = [val EXCEPT ![k] = <<>>] /\ pos' = [pos EXCEPT ![k] = {}]
      /\ diff' = diff \ {k} /\ ~wild /\ rw.at # k
  BY <1>1 DEF Remove, Unlinks, Ready
<1>4. rw' = rw /\ rw.phase = "walk" /\ Rewriting
  BY <1>1 DEF Remove, WriteFile, Rewriting, Off, Begin
<1>5. file' = file /\ astray' = astray \union {first, k}
  BY <1>2, <1>4 DEF Remove, Mark
<1>6. pending'.key = NoKey
  BY DEF Remove, Done, Idle
<1>7. Shape /\ WalkRight /\ stored' \subseteq Keys
  BY DEF FileInv, FileRight, Linked, Shape, TableOK
<1>8. \A j \in Keys \ {first, k} : val'[j] = val[j] /\ pos'[j] = pos[j] /\ slot'[j] = slot[j]
  BY <1>3, <1>7 DEF Shape, TableOK, FileOK
<1>9. ASSUME rw.at # NoKey
      PROVE  /\ rw.at \in stored' /\ slot'[rw.at] = slot[rw.at]
             /\ \A j \in Keys \ {first, k} : j \in ahead'[rw.at] <=> j \in ahead[rw.at]
  <2>1. rw.at \in stored /\ rw.at \in Keys
    BY <1>1, <1>3, <1>4, <1>7, <1>9 DEF WalkRight, Shape, TableOK
  <2>2. QED
    BY <1>3, <1>7, <2>1 DEF Shape, TableOK
<1>10. {first, k} \in SUBSET Keys /\ \A j \in Keys \ {first, k} : j \in stored' <=> j \in stored
  BY <1>3
<1>11. QED
  BY <1>3, <1>4, <1>5, <1>6, <1>7, <1>8, <1>9, <1>10, WalkStays

LEMMA WriteWalk ==
  ASSUME FileInv, Linked', Write
  PROVE  WalkRight'
<1>1. SUFFICES ASSUME ~wild', rw'.phase = "walk"
               PROVE  WalkRight'
  BY DEF WalkRight
<1>2. PICK k \in Keys : k = pending.key
  BY DEF Write, FileInv, Linked, Shape, ThreadsOK
<1>3. /\ UNCHANGED <<rw, stored, slot, ahead, diff, val>> /\ ~wild
      /\ Strays({k}) /\ pending'.key = NoKey
      /\ \E x : pos' = [pos EXCEPT ![k] = x]
  BY <1>2 DEF Write, tableVars, Done, Idle
<1>4. Rewriting /\ rw.phase = "walk" /\ astray' = astray \union {k}
  BY <1>1, <1>3 DEF Strays, Rewriting
<1>5. file' = file
  BY <1>4 DEF Write
<1>6. Shape /\ WalkRight /\ stored' \subseteq Keys
  BY DEF FileInv, FileRight, Linked, Shape, TableOK
<1>7. \A j \in Keys \ {k} : pos'[j] = pos[j]
  BY <1>3, <1>6 DEF Shape, FileOK
<1>8. rw.at # NoKey => rw.at \in stored'
  BY <1>3, <1>4, <1>6 DEF WalkRight
<1>9. QED
  BY <1>3, <1>4, <1>5, <1>6, <1>7, <1>8, WalkStays

LEMMA SwapWalk ==
  ASSUME FileInv, Linked', SwapNow \/ Joined \/ UNCHANGED vars
  PROVE  WalkRight'
<1>1. SUFFICES ASSUME ~wild', rw'.phase = "walk"
               PROVE  WalkRight'
  BY DEF WalkRight
<1>2. /\ UNCHANGED <<stored, slot, ahead, diff, val, pos, file, wild, astray, rw>>
      /\ pending'.key \in {pending.key, NoKey}
  <2>1. CASE SwapNow
    BY <1>1, <2>1 DEF SwapNow, tableVars, fileVars, WriteFile, Off, Begin
  <2>2. CASE Joined
    BY <2>2 DEF Joined, tableVars, fileVars, Idle
  <2>3. CASE UNCHANGED vars
    BY <2>3 DEF vars, tableVars, fileVars
  <2>4. QED
    BY <2>1, <2>2, <2>3
<1>3. Shape /\ WalkRight /\ stored' \subseteq Keys
  BY DEF FileInv, FileRight, Linked, Shape, TableOK
<1>4. rw.at # NoKey => rw.at \in stored'
  BY <1>1, <1>2, <1>3 DEF WalkRight
<1>5. astray' = astray \union {} /\ {} \in SUBSET Keys
  BY <1>2
<1>6. QED
  BY <1>1, <1>2, <1>3, <1>4, <1>5, WalkStays

-----------------------------------------------------------------------------
(***************************************************************************)
(* The rewriting thread.                                                   *)
(***************************************************************************)

\* The pair after another follows it at once.
LEMMA AfterFollows ==
  ASSUME NEW k, After(k) # NoKey
  PROVE  After(k) \in Chain(slot[k]) /\ ahead[After(k)] = ahead[k] \union {k}
BY DEF After

\* Where nothing comes after a pair, all of its chain is before it.
LEMMA LastOfChain ==
  ASSUME Linked, NEW k \in stored, After(k) = NoKey
  PROVE  Chain(slot[k]) \subseteq ahead[k] \union {k}
<1> DEFINE C == Chain(slot[k]) \ (ahead[k] \union {k})
           T == {ahead[j] : j \in C}
           R == StrictSubsetOrdering(stored)
<1>1. SUFFICES ASSUME C # {}
               PROVE  FALSE
  OBVIOUS
<1>2. k \in Keys /\ stored \subseteq Keys /\ NoKey \notin Keys
  BY NoVoHTAssumption DEF NoVoHTAssumption, Linked, Shape, TableOK
<1>3. ASSUME NEW j \in C
      PROVE  /\ j \in Keys /\ j \in stored /\ slot[j] = slot[k] /\ j # k /\ k \in ahead[j]
             /\ ahead[j] \subseteq Chain(slot[k]) /\ ahead[k] \subseteq ahead[j]
  BY <1>2, <1>3 DEF Linked, ChainsLinked, Chain
<1>4. \A S \in SUBSET stored : IsFiniteSet(S)
  BY FS_Subset DEF Linked, Shape, TableOK
<1>5. T \subseteq FiniteSubsetsOf(stored) /\ T # {}
  BY <1>1, <1>3, <1>4 DEF FiniteSubsetsOf, Chain
<1>6. PICK x \in T : \A y \in T : <<y, x>> \notin R
  <2>1. IsWellFoundedOn(R, FiniteSubsetsOf(stored))
    BY FS_StrictSubsetOrderingWellFounded
  <2>2. QED
    BY <1>5, <2>1, WFMin
<1>7. PICK j \in C : x = ahead[j]
  BY <1>6
<1>8. ahead[j] = ahead[k] \union {k}
  <2>1. SUFFICES ASSUME NEW m \in ahead[j], m \notin ahead[k], m # k
                 PROVE  FALSE
    BY <1>3
  <2>2. m \in C
    BY <1>3, <2>1
  <2>3. ahead[m] \subseteq ahead[j] /\ m \notin ahead[m]
    BY <1>3, <2>1, <2>2 DEF Linked, ChainsLinked
  <2>4. ahead[m] \in SUBSET stored /\ ahead[j] \in SUBSET stored /\ ahead[m] # ahead[j]
    BY <1>3, <2>1, <2>2, <2>3 DEF Chain
  <2>5. <<ahead[m], ahead[j]>> \in R
    BY <2>3, <2>4 DEF StrictSubsetOrdering
  <2>6. QED
    BY <1>6, <1>7, <2>2, <2>5
<1>9. After(k) \in Chain(slot[k])
  BY <1>8 DEF After
<1>10. QED
  BY <1>2, <1>9 DEF Chain

LEMMA TruncateWalk ==
  ASSUME FileInv, Truncate
  PROVE  WalkRight'
<1>1. /\ rw = Begin /\ rw' = [rw EXCEPT !.phase = "walk"]
      /\ file' = <<>> /\ UNCHANGED <<stored, slot, ahead, val, diff, pending>>
      /\ astray' = (diff \union {pending.key}) \ {NoKey}
  BY DEF Truncate, tableVars, FileInv, FileRight, ThreadRight, Off, Begin
<1>2. rw'.at = NoKey /\ rw'.slot = 0
  BY <1>1 DEF Off, Begin
<1>3. NoKey \notin diff
  BY NoVoHTAssumption DEF NoVoHTAssumption, FileInv, Linked, Shape, TableOK
<1>4. ASSUME NEW j \in Keys
      PROVE  Walked(j)'
  <2>1. slot'[j] \in Nat
    BY <1>1 DEF FileInv, Linked, Shape, TableOK
  <2>2. ~Passed(j)'
    BY <1>2, <2>1 DEF Passed
  <2>3. NoRecord(j)'
    BY <1>1 DEF NoRecord
  <2>4. QED
    BY <2>2, <2>3 DEF Walked
<1>5. QED
  BY <1>1, <1>2, <1>3, <1>4 DEF WalkRight

LEMMA NextChainWalk ==
  ASSUME FileInv, NextChain
  PROVE  WalkRight'
<1>1. /\ rw.at = NoKey /\ rw.phase = "walk" /\ ~wild
      /\ UNCHANGED <<stored, slot, ahead, val, diff, pending, file, pos, wild, astray>>
      /\ rw' = IF Chain(rw.slot) = {} THEN [rw EXCEPT !.slot = @ + 1] ELSE [rw EXCEPT !.at = First(rw.slot)]
  BY DEF NextChain, tableVars, fileVars
<1>2. /\ diff \subseteq astray /\ pending.key \in astray \union {NoKey}
      /\ \A k \in Keys \ astray : Walked(k)
  BY <1>1 DEF WalkRight, FileInv, FileRight
<1>3. Linked /\ rw \in RwRecords /\ slot \in [Keys -> Nat]
  BY DEF FileInv, Linked, Shape, TableOK, ThreadsOK
<1>4. /\ rw'.at # NoKey => rw'.at \in stored /\ slot[rw'.at] = rw'.slot
      /\ \A j \in Keys : j \in stored /\ Passed(j)' => Passed(j)
  <2>1. CASE Chain(rw.slot) = {}
    <3>1. rw'.at = NoKey /\ rw'.slot = rw.slot + 1 /\ rw.slot \in Nat
      BY <1>1, <1>3, <2>1 DEF RwRecords
    <3>2. ASSUME NEW j \in Keys, j \in stored, Passed(j)'
          PROVE  Passed(j)
      <4>1. slot[j] # rw.slot
        BY <2>1, <3>2 DEF Chain
      <4>2. slot[j] < rw.slot + 1 /\ slot[j] \in Nat
        BY <1>1, <1>3, <3>1, <3>2 DEF Passed
      <4>3. slot[j] < rw.slot
        BY <3>1, <4>1, <4>2
      <4>4. QED
        BY <4>3 DEF Passed
    <3>3. QED
      BY <3>1, <3>2
  <2>2. CASE Chain(rw.slot) # {}
    <3>1. First(rw.slot) \in Chain(rw.slot) /\ ahead[First(rw.slot)] = {}
      BY <1>3, <2>2, FirstExists
    <3>2. rw'.at = First(rw.slot) /\ rw'.slot = rw.slot
      BY <1>1, <1>3, <2>2 DEF RwRecords
    <3>3. QED
      BY <1>1, <3>1, <3>2 DEF Passed, Chain
  <2>3. QED
    BY <2>1, <2>2
<1>5. ASSUME NEW j \in Keys \ astray
      PROVE  Walked(j)'
  <2>1. (Written(j)' <=> Written(j)) /\ (NoRecord(j)' <=> NoRecord(j))
    BY <1>1 DEF Written, NoRecord
  <2>2. Walked(j)
    BY <1>2
  <2>3. QED
    BY <1>1, <1>4, <2>1, <2>2 DEF Walked
<1>6. QED
  BY <1>1, <1>2, <1>4, <1>5 DEF WalkRight

\* A record of k at the end of the file.
LEMMA RecordWritten ==
  ASSUME file \in Seq(Records), NEW k \in Keys, val[k] \in Seq(Vals), val' = val,
         file' = Append(file, Record(k, val[k])),
         pos \in [Keys -> SUBSET Nat], pos' = [pos EXCEPT ![k] = {Len(file) + 1}]
  PROVE  /\ NoRecord(k) => Written(k)'
         /\ \A j \in Keys \ {k} : /\ Written(j) => Written(j)'
                                  /\ NoRecord(j) => NoRecord(j)'
<1>1. PICK x : x = Record(k, val[k])
  OBVIOUS
<1>2. x.key = k
  BY <1>1 DEF Record
<1>3. /\ DOMAIN file' = DOMAIN file \union {Len(file) + 1}
      /\ \A i \in DOMAIN file : file'[i] = file[i]
      /\ file'[Len(file) + 1] = x
  BY <1>1, HeldAppend
<1>4. ASSUME NoRecord(k)
      PROVE  Written(k)'
  <2>1. Len(file) + 1 \in DOMAIN file' /\ pos'[k] = {Len(file) + 1}
    BY <1>3
  <2>2. \A j \in DOMAIN file' : file'[j].key = k => j = Len(file) + 1
    BY <1>3, <1>4 DEF NoRecord
  <2>3. QED
    BY <1>1, <1>3, <2>1, <2>2 DEF Written
<1>5. ASSUME NEW j \in Keys \ {k}
      PROVE  /\ Written(j) => Written(j)'
             /\ NoRecord(j) => NoRecord(j)'
  <2>1. pos'[j] = pos[j]
    OBVIOUS
  <2>2. \A i \in DOMAIN file' : file'[i].key = j => i \in DOMAIN file
    BY <1>2, <1>3
  <2>3. ASSUME Written(j)
        PROVE  Written(j)'
    <3>1. PICK i \in DOMAIN file :
            /\ file[i] = Record(j, val[j]) /\ pos[j] = {i}
            /\ \A m \in DOMAIN file : file[m].key = j => m = i
      BY <2>3 DEF Written
    <3>2. i \in DOMAIN file' /\ file'[i] = Record(j, val[j])' /\ pos'[j] = {i}
      BY <1>3, <2>1, <3>1 DEF Record
    <3>3. \A m \in DOMAIN file' : file'[m].key = j => m = i
      BY <1>3, <2>2, <3>1
    <3>4. QED
      BY <3>2, <3>3 DEF Written
  <2>4. NoRecord(j) => NoRecord(j)'
    BY <1>3, <2>2 DEF NoRecord
  <2>5. QED
    BY <2>3, <2>4
<1>6. QED
  BY <1>4, <1>5

\* The thread goes past the pair it stands on, and past no other.
LEMMA WalkGoesOn ==
  ASSUME Linked, NEW k \in stored, rw.at = k, slot' = slot, ahead' = ahead,
         rw' = IF After(k) = NoKey THEN [rw EXCEPT !.at = NoKey, !.slot = @ + 1]
               ELSE [rw EXCEPT !.at = After(k)]
  PROVE  /\ rw'.at # NoKey => /\ rw'.at \in stored
                              /\ slot[rw'.at] = slot[k] /\ rw'.slot = rw.slot
         /\ slot[k] = rw.slot => \A j \in stored : Passed(j)' => Passed(j) \/ j = k
<1>1. /\ rw \in RwRecords /\ slot \in [Keys -> Nat] /\ stored \subseteq Keys
      /\ NoKey \notin Keys /\ k \in Keys
  BY NoVoHTAssumption DEF NoVoHTAssumption, Linked, Shape, TableOK, ThreadsOK
<1>2. CASE After(k) = NoKey
  <2>1. rw'.at = NoKey /\ rw'.slot = rw.slot + 1 /\ rw.slot \in Nat
    BY <1>1, <1>2 DEF RwRecords
  <2>2. ASSUME slot[k] = rw.slot, NEW j \in stored, Passed(j)'
        PROVE  Passed(j) \/ j = k
    <3>1. slot[j] < rw.slot + 1 /\ slot[j] \in Nat
      BY <1>1, <2>1, <2>2 DEF Passed
    <3>2. CASE slot[j] = rw.slot
      <4>1. j \in Chain(slot[k])
        BY <2>2, <3>2 DEF Chain
      <4>2. j \in ahead[k] \/ j = k
        BY <1>2, <4>1, LastOfChain
      <4>3. QED
        BY <1>1, <3>2, <4>2 DEF Passed
    <3>3. CASE slot[j] # rw.slot
      <4>1. slot[j] < rw.slot
        BY <2>1, <3>1, <3>3
      <4>2. QED
        BY <4>1 DEF Passed
    <3>4. QED
      BY <3>2, <3>3
  <2>3. QED
    BY <2>1, <2>2
<1>3. CASE After(k) # NoKey
  <2>1. After(k) \in Chain(slot[k]) /\ ahead[After(k)] = ahead[k] \union {k}
    BY <1>3, AfterFollows
  <2>2. rw'.at = After(k) /\ rw'.slot = rw.slot
    BY <1>1, <1>3 DEF RwRecords
  <2>3. QED
    BY <1>1, <2>1, <2>2 DEF Passed, Chain
<1>4. QED
  BY <1>2, <1>3

LEMMA RewritePairWalk ==
  ASSUME FileInv, RewritePair
  PROVE  WalkRight'
<1>1. PICK k : k = rw.at
  OBVIOUS
<1>2. /\ rw.phase = "walk" /\ k # NoKey /\ ~wild
      /\ UNCHANGED <<stored, slot, ahead, val, diff, pending, wild>>
      /\ rw' = IF After(k) = NoKey THEN [rw EXCEPT !.at = NoKey, !.slot = @ + 1]
               ELSE [rw EXCEPT !.at = After(k)]
  BY <1>1 DEF RewritePair, tableVars
<1>3. /\ k \in stored /\ diff \subseteq astray /\ pending.key \in astray \union {NoKey}
      /\ \A j \in Keys \ astray : Walked(j)
      /\ slot[k] # rw.slot => \A j \in stored \ astray : Written(j)
  BY <1>1, <1>2 DEF WalkRight, FileInv, FileRight
<1>4. /\ Linked /\ k \in Keys /\ stored \subseteq Keys /\ val[k] \in Seq(Vals)
      /\ file \in Seq(Records) /\ pos \in [Keys -> SUBSET Nat]
  BY <1>3 DEF FileInv, Linked, Shape, TableOK, FileOK
<1>5. /\ rw'.at # NoKey => /\ rw'.at \in stored
                           /\ slot[rw'.at] = slot[k] /\ rw'.slot = rw.slot
      /\ slot[k] = rw.slot => \A j \in stored : Passed(j)' => Passed(j) \/ j = k
  BY <1>1, <1>2, <1>3, <1>4, WalkGoesOn
<1>6. /\ diff \subseteq astray' /\ pending.key \in astray' \union {NoKey}
      /\ astray \subseteq astray' \union {k}
      /\ k \notin astray' => Written(k)'
      /\ \A j \in Keys \ {k} : /\ Written(j) => Written(j)'
                               /\ NoRecord(j) => NoRecord(j)'
  <2>1. CASE k \in diff
    <3>1. pos' = pos /\ file' = file /\ astray' = astray
      BY <1>1, <2>1 DEF RewritePair
    <3>2. \A j : (Written(j) => Written(j)') /\ (NoRecord(j) => NoRecord(j)')
      BY <1>2, <3>1 DEF Written, NoRecord, Record
    <3>3. QED
      BY <1>3, <2>1, <3>1, <3>2
  <2>2. CASE k \notin diff
    <3>1. /\ pos' = [pos EXCEPT ![k] = {Len(file) + 1}]
          /\ file' = Append(file, Record(k, val[k]))
          /\ astray' = IF \E i \in DOMAIN file : file[i].key = k THEN astray \union {k}
                       ELSE astray \ ({k} \ {pending.key})
      BY <1>1, <2>2 DEF RewritePair
    <3>2. /\ NoRecord(k) => Written(k)'
          /\ \A j \in Keys \ {k} : /\ Written(j) => Written(j)'
                                   /\ NoRecord(j) => NoRecord(j)'
      BY <1>2, <1>4, <3>1, RecordWritten
    <3>3. k \notin astray' => NoRecord(k)
      BY <3>1 DEF NoRecord
    <3>4. QED
      BY <1>3, <2>2, <3>1, <3>2, <3>3
  <2>3. QED
    BY <2>1, <2>2
<1>7. ASSUME NEW j \in Keys \ astray'
      PROVE  /\ Walked(j)'
             /\ slot[k] # rw.slot => (j \in stored => Written(j)')
  <2>1. CASE j = k
    BY <1>2, <1>3, <1>6, <1>7, <2>1 DEF Walked
  <2>2. CASE j # k
    <3>1. j \in Keys \ astray /\ Walked(j)
      BY <1>3, <1>6, <1>7, <2>2
    <3>2. (Written(j) => Written(j)') /\ (NoRecord(j) => NoRecord(j)')
      BY <1>6, <2>2
    <3>3. CASE slot[k] = rw.slot
      BY <1>2, <1>5, <2>2, <3>1, <3>2, <3>3 DEF Walked
    <3>4. CASE slot[k] # rw.slot
      BY <1>2, <1>3, <3>1, <3>2, <3>4 DEF Walked
    <3>5. QED
      BY <3>3, <3>4
  <2>3. QED
    BY <2>1, <2>2
<1>8. ASSUME rw'.at # NoKey, slot'[rw'.at] # rw'.slot, NEW j \in stored' \ astray'
      PROVE  Written(j)'
  <2>1. slot[k] # rw.slot
    BY <1>2, <1>5, <1>8
  <2>2. j \in Keys \ astray' /\ j \in stored
    BY <1>2, <1>4, <1>8
  <2>3. QED
    BY <1>7, <2>1, <2>2
<1>9. QED
  BY <1>2, <1>5, <1>6, <1>7, <1>8 DEF WalkRight

\* When the walk is over, the file has all values.
LEMMA MergeOff ==
  ASSUME FileInv, Linked', Merge
  PROVE  OffRight'
<1>1. /\ rw.phase = "walk" /\ rw.at = NoKey /\ rw.slot >= size /\ ~wild
      /\ UNCHANGED <<file, pos, val, stored, pending, astray>>
  BY DEF Merge, tableVars, fileVars
<1>2. pending.key \in astray \union {NoKey} /\ \A k \in Keys \ astray : Walked(k)
  BY <1>1 DEF WalkRight, FileInv, FileRight
<1>3. /\ Shape /\ size \in Nat \ {0} /\ rw.slot \in Nat /\ file \in Seq(Records) /\ NoKey \notin Keys
  BY NoVoHTAssumption DEF NoVoHTAssumption, FileInv, Linked, Shape, TableOK, FileOK, ThreadsOK, RwRecords
<1>4. SUFFICES ASSUME NEW j \in Keys, j \notin astray
               PROVE  Settled(j)'
  BY <1>1 DEF OffRight
<1>5. ~Owed(j) /\ Walked(j)
  BY <1>2, <1>3, <1>4 DEF Owed
<1>6. CASE j \in stored
  <2>1. slot[j] < rw.slot
    <3>1. slot[j] = Hash[j] % size /\ Hash[j] \in Nat
      BY <1>6, NoVoHTAssumption DEF NoVoHTAssumption, FileInv, Linked, ChainsLinked
    <3>2. Hash[j] % size \in 0 .. size - 1
      BY <1>3, <3>1
    <3>3. QED
      BY <1>1, <1>3, <3>1, <3>2
  <2>2. Written(j)
    BY <1>5, <1>6, <2>1 DEF Walked, Passed
  <2>3. PICK i \in DOMAIN file :
          /\ file[i] = Record(j, val[j]) /\ pos[j] = {i}
          /\ \A m \in DOMAIN file : file[m].key = j => m = i
    BY <2>2 DEF Written
  <2>4. file[i].piece = val[j] /\ ~file[i].dead /\ file[i].key = j
    BY <2>3 DEF Record
  <2>5. Held(j) = {i}
    BY <2>3, <2>4 DEF Held, Live
  <2>6. Spells(j, file[i].piece)
    BY <1>3, <2>5, HoldsOne
  <2>7. Settled(j)
    BY <1>5, <1>6, <2>3, <2>4, <2>5, <2>6 DEF Settled
  <2>8. QED
    BY <1>1, <1>3, <2>7, FileStays DEF Linked
<1>7. CASE j \notin stored
  <2>1. NoRecord(j) /\ val[j] = <<>>
    BY <1>5, <1>7 DEF Walked, FileInv, FileRight, ThreadRight
  <2>2. Held(j) = {}
    BY <2>1 DEF NoRecord, Held, Live
  <2>3. Settled(j)
    BY <1>3, <1>5, <2>1, <2>2, HoldsNothing DEF Settled
  <2>4. QED
    BY <1>1, <1>3, <2>3, FileStays DEF Linked
<1>8. QED
  BY <1>6, <1>7

-----------------------------------------------------------------------------
(***************************************************************************)
(* Every step keeps the invariant.                                         *)
(***************************************************************************)

\* Only a thread that walks the chains stands on a pair.
LEMMA MayRaceWalks ==
  ASSUME ThreadRight, NEW k \in Keys, MayRace(k)
  PROVE  wild' => rw.phase = "walk"
<1>1. SUFFICES ASSUME rw.phase # "walk"
               PROVE  ~wild'
  OBVIOUS
<1>2. rw.at # k
  BY <1>1, NoVoHTAssumption DEF ThreadRight, Off, Begin, NoVoHTAssumption
<1>3. QED
  BY <1>2 DEF MayRace

LEMMA WriteFileStarts ==
  ASSUME ThreadRight, WriteFile
  PROVE  /\ rw.phase = "walk" => rw' = rw
         /\ rw'.phase # "walk" => rw' \in {Off, Begin}
BY DEF WriteFile, ThreadRight, Rewriting, Off, Begin

LEMMA ServerThread ==
  ASSUME FileInv, Linked', Server
  PROVE  ThreadRight'
<1>0. ThreadRight /\ Shape
  BY DEF FileInv, FileRight, Linked
<1>1. ASSUME NEW k \in Keys, NEW v \in Vals, Resize(k, v)
      PROVE  ThreadRight'
  <2>1. /\ UNCHANGED <<stored, val, rw>> /\ pending'.do = "put"
        /\ wild' => wild \/ rw.phase = "walk"
    BY <1>1, ThenType DEF Resize, Then
  <2>2. QED
    BY <1>0, <2>1 DEF ThreadRight
<1>2. ASSUME NEW k \in Keys, NEW v \in Vals, PutNew(k, v) \/ AppendNew(k, v)
      PROVE  ThreadRight'
  <2>1. /\ UNCHANGED <<rw, wild>> /\ pending'.key = k
        /\ stored' = stored \union {k} /\ val' = [val EXCEPT ![k] = <<v>>]
    BY <1>2, ThenType DEF PutNew, AppendNew, NewPair
  <2>2. QED
    BY <1>0, <2>1 DEF ThreadRight, Shape, TableOK
<1>3. ASSUME NEW k \in Keys, NEW v \in Vals, PutOld(k, v) \/ AppendOld(k, v)
      PROVE  ThreadRight'
  <2>1. /\ UNCHANGED <<rw, stored>> /\ pending'.key = k /\ k \in stored /\ MayRace(k)
        /\ \E x : val' = [val EXCEPT ![k] = x]
    BY <1>3, ThenType DEF PutOld, AppendOld, Found
  <2>2. wild' => rw.phase = "walk"
    BY <1>0, <2>1, MayRaceWalks
  <2>3. QED
    BY <1>0, <2>1, <2>2 DEF ThreadRight, Shape, TableOK
<1>4. ASSUME NEW k \in Keys, Remove(k)
      PROVE  ThreadRight'
  <2>1. PICK first \in Keys : first = First(slot[k])
    BY <1>4, FirstOfFound DEF Remove, FileInv
  <2>2. /\ stored' = stored \ {k} /\ val' = [val EXCEPT ![k] = <<>>]
        /\ pending' = Done /\ (WriteFile \/ rw' = rw)
        /\ rw.at = k \/ MayRace(first)
    BY <1>4, <2>1 DEF Remove, Unlinks
  <2>3. wild' => rw.phase = "walk"
    BY <1>0, <2>2, MayRaceWalks, NoVoHTAssumption DEF ThreadRight, Off, Begin, NoVoHTAssumption
  <2>4. /\ rw.phase = "walk" => rw' = rw
        /\ rw'.phase # "walk" => rw' \in {Off, Begin}
    BY <1>0, <2>2, WriteFileStarts DEF ThreadRight
  <2>5. pending'.do \notin {"write", "append"}
    BY <2>2, DoneType
  <2>6. \A j \in Keys \ stored' : val'[j] = <<>>
    BY <1>0, <2>2 DEF ThreadRight, Shape, TableOK
  <2>7. QED
    BY <2>3, <2>4, <2>5, <2>6 DEF ThreadRight
<1>5. CASE Write
  <2>1. PICK k \in Keys : k = pending.key
    BY <1>0, <1>5 DEF Write, Shape, ThreadsOK
  <2>2. /\ UNCHANGED <<stored, val, rw>> /\ pending' = Done /\ MayRace(k)
    BY <1>5, <2>1 DEF Write, tableVars
  <2>3. wild' => rw.phase = "walk"
    BY <1>0, <2>2, MayRaceWalks
  <2>4. pending'.do \notin {"write", "append"}
    BY <2>2, DoneType
  <2>5. QED
    BY <1>0, <2>2, <2>3, <2>4 DEF ThreadRight
<1>6. CASE SwapNow \/ Joined
  <2>1. /\ UNCHANGED <<stored, val, wild>> /\ (WriteFile \/ rw' = rw)
        /\ pending'.do \notin {"write", "append"}
    BY <1>0, <1>6 DEF SwapNow, Joined, tableVars, Idle, Shape, ThreadsOK, PendingRecords
  <2>2. /\ rw.phase = "walk" => rw' = rw
        /\ rw'.phase # "walk" => rw' \in {Off, Begin}
    BY <1>0, <2>1, WriteFileStarts DEF ThreadRight
  <2>3. QED
    BY <1>0, <2>1, <2>2 DEF ThreadRight
<1>7. QED
  BY <1>1, <1>2, <1>3, <1>4, <1>5, <1>6 DEF Server

LEMMA RewriterThread ==
  ASSUME FileInv, Rewriter
  PROVE  ThreadRight'
<1>1. /\ UNCHANGED <<stored, val, pending, wild>> /\ ~wild
      /\ rw'.phase = "walk" \/ rw' = Off
  BY DEF Rewriter, Truncate, NextChain, RewritePair, Merge, tableVars, FileInv, Linked,
         Shape, ThreadsOK, RwRecords
<1>2. QED
  BY <1>1 DEF ThreadRight, FileInv, FileRight

LEMMA ServerRight ==
  ASSUME FileInv, Linked', Server
  PROVE  OffRight' /\ WalkRight'
<1>1. ASSUME NEW k \in Keys, NEW v \in Vals, Resize(k, v)
      PROVE  OffRight' /\ WalkRight'
  BY <1>1, ResizeOff, ResizeWalk
<1>2. ASSUME NEW k \in Keys, NEW v \in Vals, PutNew(k, v) \/ AppendNew(k, v)
      PROVE  OffRight' /\ WalkRight'
  <2>1. NewPair(k, v) /\ (Ready \/ \E x \in Vals : Puts(k, x))
    BY <1>2 DEF PutNew, AppendNew
  <2>2. ~wild /\ \A j : ~Owed(j)
    BY <2>1, IdleOwes
  <2>3. QED
    BY <1>2, <2>1, <2>2, NewPairOff, PutNewWalk, AppendNewWalk
<1>3. ASSUME NEW k \in Keys, NEW v \in Vals, PutOld(k, v) \/ AppendOld(k, v)
      PROVE  OffRight' /\ WalkRight'
  BY <1>3, PutOldOff, AppendOldOff, UpdateWalk
<1>4. ASSUME NEW k \in Keys, Remove(k)
      PROVE  OffRight' /\ WalkRight'
  BY <1>4, RemoveOff, RemoveWalk
<1>5. CASE Write
  BY <1>5, WriteOff, WriteWalk
<1>6. CASE SwapNow \/ Joined
  BY <1>6, SwapOff, SwapWalk
<1>7. QED
  BY <1>1, <1>2, <1>3, <1>4, <1>5, <1>6 DEF Server

LEMMA RewriterRight ==
  ASSUME FileInv, Linked', Rewriter
  PROVE  OffRight' /\ WalkRight'
<1>1. CASE Truncate \/ NextChain \/ RewritePair
  <2>1. rw'.phase = "walk"
    BY <1>1 DEF Truncate, NextChain, RewritePair, FileInv, Linked, Shape, ThreadsOK, RwRecords
  <2>2. OffRight'
    BY <2>1 DEF OffRight, Rewriting
  <2>3. QED
    BY <1>1, <2>2, TruncateWalk, NextChainWalk, RewritePairWalk
<1>2. CASE Merge
  <2>1. rw'.phase = "off"
    BY <1>2 DEF Merge, Off
  <2>2. QED
    BY <1>2, <2>1, MergeOff DEF WalkRight
<1>3. QED
  BY <1>1, <1>2 DEF Rewriter

\* After a restart every key counts as astray.
LEMMA RestartRight ==
  ASSUME Linked, Restart
  PROVE  FileRight'
<1>1. PICK f \in Kernel : \E x \in Recovered(f) : Restarted(f, x)
  BY DEF Restart
<1>2. PICK r \in Recovered(f) : Restarted(f, r)
  BY <1>1
<1>3. /\ astray' = Keys /\ ~wild' /\ rw' \in {Off, Begin} /\ pending' = Idle
      /\ \A k \in Keys \ stored' : val'[k] = <<>>
  BY <1>2 DEF Restarted
<1>4. QED
  BY <1>3 DEF FileRight, ThreadRight, OffRight, WalkRight, Off, Begin, Idle

LEMMA InitRight == Init => FileRight
<1>1. SUFFICES ASSUME Init
               PROVE  FileRight
  OBVIOUS
<1>2. file \in Seq(Records) /\ file = <<>>
  BY <1>1 DEF Init
<1>3. ASSUME NEW k \in Keys
      PROVE  Settled(k)
  <2>1. Held(k) = {}
    BY <1>2 DEF Held, Live
  <2>2. Spells(k, <<>>)
    BY <1>2, <2>1, HoldsNothing
  <2>3. ~Owed(k) /\ val[k] = <<>>
    BY <1>1 DEF Init, Owed, Idle
  <2>4. QED
    BY <2>1, <2>2, <2>3 DEF Settled
<1>4. QED
  BY <1>1, <1>3 DEF Init, FileRight, ThreadRight, OffRight, WalkRight, Off, Begin, Idle

LEMMA NextRight ==
  ASSUME FileInv, Linked', [Next]_vars
  PROVE  FileRight'
<1>1. CASE Server
  BY <1>1, ServerThread, ServerRight DEF FileRight
<1>2. CASE Rewriter
  BY <1>2, RewriterThread, RewriterRight DEF FileRight
<1>3. CASE Restart
  BY <1>3, RestartRight DEF FileInv
<1>4. CASE UNCHANGED vars
  <2>1. ThreadRight'
    BY <1>4 DEF FileInv, FileRight, ThreadRight, vars, tableVars
  <2>2. QED
    BY <1>4, <2>1, SwapOff, SwapWalk DEF FileRight
<1>5. QED
  BY <1>1, <1>2, <1>3, <1>4 DEF Next

LEMMA FileInvHolds == Spec => []FileInv
<1>1. Init => FileRight
  BY InitRight
<1>2. Linked /\ Linked' /\ PositionsLead /\ FileRight /\ [Next]_vars => FileRight'
  BY NextRight DEF FileInv
<1>3. Linked /\ PositionsLead /\ FileRight => FileInv
  BY DEF FileInv
<1>4. QED
  BY <1>1, <1>2, <1>3, AlwaysLinked, PositionsStayTrue, PTL DEF Spec

\* Between rewrites, what the file holds of a key, its records in their order and without
\* those that are marked, is the key's value, whatever was put, appended, removed, resized
\* and rewritten before; but for a key whose record is due or that went astray: whose pair
\* an update missed the rewrite of, was removed from behind another, or has a leftover in
\* diff; and unless a mark at a foreign position has spoilt the file.
THEOREM FileKeepsTable == Spec => []FileHoldsTable
<1>1. FileInv => FileHoldsTable
  <2>1. SUFFICES ASSUME FileInv, ~Rewriting, ~wild, ~garbled,
                        NEW k \in Keys \ astray, k # pending.key
                 PROVE  Spells(k, val[k])
    BY DEF FileHoldsTable
  <2>2. Settled(k)
    BY <2>1, OffBefore
  <2>3. QED
    BY <2>1, <2>2 DEF Settled, Owed
<1>2. QED
  BY <1>1, FileInvHolds, PTL

-----------------------------------------------------------------------------
(***************************************************************************)
(* What a restart reads.                                                   *)
(***************************************************************************)

\* Of a file that was written out and not spoilt, the restart reads the first live record.
LEMMA ReadsFirst ==
  ASSUME FileOK, disk = file, ~garbled, Restart
  PROVE  \/ stored' = {}
         \/ \E i \in DOMAIN file :
              /\ i \in Live(file) /\ \A j \in Live(file) : i <= j
              /\ stored' = {file[i].key}
              /\ file[i].key \in Keys => val'[file[i].key] = file[i].piece
<1>1. PICK f \in Kernel : \E x \in Recovered(f) : Restarted(f, x)
  BY DEF Restart
<1>2. PICK r \in Recovered(f) : Restarted(f, r)
  BY <1>1
<1>3. file \in Seq(Records) /\ Len(file) \in Nat
  BY DEF FileOK
<1>4. f = file
  <2>1. PICK n \in Len(disk)..Len(file) : f = disk \o SubSeq(file, Len(disk) + 1, n)
    BY <1>1 DEF Kernel
  <2>2. n = Len(file) /\ f = file \o SubSeq(file, Len(file) + 1, Len(file))
    BY <1>3, <2>1
  <2>3. SubSeq(file, Len(file) + 1, Len(file)) = <<>>
    BY <1>3
  <2>4. QED
    BY <1>3, <2>2, <2>3
<1>5. stored' = {r[i].key : i \in DOMAIN r}
  BY <1>2 DEF Restarted
<1>6. CASE r = <<>>
  BY <1>5, <1>6
<1>7. CASE r # <<>>
  <2>1. PICK i \in Live(file) : r = SubSeq(file, i, i) /\ \A j \in Live(file) : i <= j
    BY <1>2, <1>4, <1>7 DEF Recovered
  <2>2. i \in DOMAIN file /\ i \in 1..Len(file)
    BY <1>3, <2>1 DEF Live
  <2>3. DOMAIN r = {1} /\ r[1] = file[i]
    <3>1. i \in 1..Len(file)+1 /\ i \in i - 1..Len(file) /\ i - i + 1 = 1 /\ i + 1 - 1 = i
      BY <1>3, <2>2
    <3>2. r \in Seq(Records) /\ Len(r) = 1 /\ r[1] = file[i]
      BY <1>3, <2>1, <3>1, SubSeqProperties
    <3>3. QED
      BY <3>2
  <2>4. stored' = {file[i].key}
    BY <1>5, <2>3
  <2>5. file[i].key \in Keys => val'[file[i].key] = file[i].piece
    BY <1>2, <1>5, <2>3, <2>4 DEF Restarted
  <2>6. QED
    BY <2>1, <2>2, <2>4, <2>5
<1>8. QED
  BY <1>6, <1>7

\* A restart on all of the file, between rewrites, brings back no key that was removed and
\* no value that was replaced: the pair that it reads was in the table, and what it reads
\* of the value is its beginning; but for a key whose record was due or that went astray,
\* and unless a mark at a foreign position has spoilt the file.
THEOREM RestartsAreTrue == Spec => RestartReadsTruth
<1>1. FileInv =>
        (disk = file /\ ~garbled /\ ~Rewriting /\ Restart =>
           \A k \in stored' \ astray : k # pending.key =>
             k \in stored /\ val'[k] = SubSeq(val[k], 1, Len(val'[k])))
  <2>1. SUFFICES ASSUME FileInv, disk = file, ~garbled, ~Rewriting, Restart,
                        NEW k \in stored' \ astray, k # pending.key
                 PROVE  k \in stored /\ val'[k] = SubSeq(val[k], 1, Len(val'[k]))
    OBVIOUS
  <2>2. FileOK /\ file \in Seq(Records)
    BY <2>1 DEF FileInv, Linked, Shape, FileOK
  <2>3. PICK i \in DOMAIN file :
          /\ i \in Live(file) /\ \A j \in Live(file) : i <= j
          /\ stored' = {file[i].key}
          /\ file[i].key \in Keys => val'[file[i].key] = file[i].piece
    BY <2>1, <2>2, ReadsFirst
  <2>4. k = file[i].key /\ k \in Keys
    <3>1. k = file[i].key
      BY <2>1, <2>3
    <3>2. file[i] \in [key : Keys, piece : Seq(Vals), dead : BOOLEAN]
      BY <2>2, <2>3, Numbers DEF Records
    <3>3. QED
      BY <3>1, <3>2
  <2>5. Settled(k) /\ ~Owed(k)
    <3>1. ~wild
      BY <2>1, NotRewriting DEF FileInv, FileRight
    <3>2. QED
      BY <2>1, <2>4, <3>1, OffBefore DEF Owed
  <2>6. i \in Held(k) /\ \A j \in Held(k) : i <= j
    BY <2>3, <2>4 DEF Held
  <2>7. k \in stored
    BY <2>5, <2>6 DEF Settled
  <2>8. PICK v \in Seq(Vals) : v = val[k]
    BY <2>1, <2>4 DEF FileInv, Linked, Shape, TableOK
  <2>9. file[i].piece = SubSeq(v, 1, Len(file[i].piece))
    BY <2>2, <2>5, <2>6, <2>8, FirstPiece DEF Settled
  <2>10. QED
    BY <2>3, <2>4, <2>7, <2>8, <2>9
<1>2. QED
  BY <1>1, FileInvHolds, PTL DEF RestartReadsTruth
=============================================================================
