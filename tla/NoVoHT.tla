------------------------------- MODULE NoVoHT -------------------------------
(***************************************************************************)
(* The table of a ZHT server (zht/novoht.cpp) when it is given a file      *)
(* (zhtserver -f): chains of pairs in memory, a record in the file for     *)
(* each value written, and, after MagicNumber removals, a rewrite of the   *)
(* file by a thread of its own while the server goes on.                   *)
(*                                                                         *)
(* The server thread works in two steps: it changes the table under        *)
(* map_lock and, after it has released it, writes the record (pending).    *)
(* The rewriting thread walks the chains without a lock.  While it does,   *)
(* the server's records and marks go to the swap file.  That is opened for *)
(* writing only, so merge reads nothing back from it, and it is not        *)
(* modelled: what goes there is gone, and its offsets are Foreign to the   *)
(* file.                                                                   *)
(*                                                                         *)
(* A chain is kept as the set of pairs ahead of each of its pairs.  A      *)
(* record's place in the file is its number.  A value is the sequence of   *)
(* pieces put and appended; keys and values are not empty.                 *)
(***************************************************************************)
EXTENDS Integers, Sequences, FiniteSets

CONSTANTS
  Keys,         \* keys
  Vals,         \* what a put or an append carries
  Hash,         \* Hash[k]: fnv_hash(k)
  InitSize,     \* chains to begin with
  Threshold,    \* resizeNum in percent; 0 for no resizing
  MagicNumber,  \* removals after which the file is rewritten
  Diffs,        \* Diffs[k]: what the byte diff of k's new pair may hold: nobody sets it
  MaxSize,      \* bound: chains
  MaxFile,      \* bound: records in the file
  MaxPieces,    \* bound: pieces of a value
  NoKey         \* no pair

ASSUME NoVoHTAssumption ==
  /\ Hash \in [Keys -> Nat]
  /\ InitSize \in Nat \ {0}
  /\ {MaxSize, Threshold, MagicNumber, MaxFile, MaxPieces} \subseteq Nat
  /\ Diffs \in [Keys -> SUBSET BOOLEAN \ {{}}]
  /\ NoKey \notin Keys

VARIABLES
  size, numEl,  \* number of chains, and of pairs as the code counts them
  stored,       \* keys that have a pair
  slot,         \* slot[k]: the chain k's pair is in
  ahead,        \* ahead[k]: the pairs before it in that chain
  val,          \* val[k]: its value
  diff,         \* pairs whose diff is not zero
  pos,          \* pos[k]: its positions
  file, disk,   \* the file as the stream has it, and as the kernel does
  garbled,      \* a mark at a foreign position has spoilt some record
  nRem,         \* removals since the last rewrite
  rw,           \* the rewriting thread: its phase, its chain and its pair
  pending,      \* what the server thread does once it has released map_lock
  instantSwap,  \* INSTANT_SWAP of zht.conf
  wild,         \* something without defined behaviour has happened
  astray        \* keys an update or a removal has gone wrong for in the file

tableVars == <<size, numEl, stored, slot, ahead, val, diff>>
fileVars == <<pos, file, disk, garbled>>
vars == <<tableVars, fileVars, nRem, rw, pending, instantSwap, wild, astray>>

Foreign == 0

Off == [phase |-> "off", slot |-> 0, at |-> NoKey]

\* Slip in rewriteFile, for mutation testing: the walk starts at the second chain.
BeginLate == [Off EXCEPT !.phase = "begin", !.slot = 1]

Begin == [Off EXCEPT !.phase = "begin"]
Idle == [do |-> "idle", key |-> NoKey, piece |-> <<>>]

Rewriting == rw.phase # "off"

Record(k, piece) == [key |-> k, piece |-> piece, dead |-> FALSE]

-----------------------------------------------------------------------------
(***************************************************************************)
(* Chains.                                                                 *)
(***************************************************************************)
Chain(i) == {k \in stored : slot[k] = i}

First(i) == CHOOSE k \in Chain(i) : ahead[k] = {}

\* cur->next
After(k) ==
  IF \E j \in Chain(slot[k]) : ahead[j] = ahead[k] \union {k}
    THEN CHOOSE j \in Chain(slot[k]) : ahead[j] = ahead[k] \union {k}
    ELSE NoKey

\* numEl >= size * resizeNum
Full == Threshold > 0 /\ numEl * 100 >= size * Threshold

\* A walk of the chain its hash leads to finds k.
Found(k) == k \in stored /\ slot[k] = Hash[k] % size

\* Slip in resize, for mutation testing: the pairs stay in the chains they were in.
NotRehashed(n) == slot

\* resize: each pair, in the order of the old chains, becomes the first of its new one.
Rehashed(n) == [k \in Keys |-> IF k \in stored THEN Hash[k] % n ELSE slot[k]]

\* Slip: the chains keep their order, and with it pairs that have gone elsewhere.
NotTurned(n) == ahead

Turned(n) ==
  [k \in Keys |-> {j \in stored : k \in ahead[j] /\ Rehashed(n)[j] = Rehashed(n)[k]}]

-----------------------------------------------------------------------------
(***************************************************************************)
(* File.                                                                   *)
(***************************************************************************)

\* Slip in mark, for mutation testing: nothing is marked.
MarkNothing(plist) == UNCHANGED <<file, disk, garbled>>

Marked(plist) == [i \in DOMAIN file |-> [file[i] EXCEPT !.dead = @ \/ i \in plist]]

\* mark and logrm: a '~' over the first byte of each record of plist.  The kernel gets
\* the last of them, that of the oldest record, with the next write.  A foreign position
\* is in the middle of any record, or past the end: what is read back then is open.
Mark(plist) ==
  IF Rewriting \/ plist = {} THEN UNCHANGED <<file, disk, garbled>>
  ELSE /\ file' = Marked(plist)
       /\ disk' = Marked({i \in plist : \E j \in plist : j < i})
       /\ garbled' = (garbled \/ Foreign \in plist)

\* writeFile: a thread starts, unless one is at work or none can be created.
WriteFile == rw' \in IF Rewriting THEN {rw} ELSE {Off, Begin}

\* The server thread uses a pair the rewriting thread stands on: that may go well.
MayRace(k) == wild' \in IF rw.at = k THEN BOOLEAN ELSE {FALSE}

\* What the server thread does after a change of the table.
Ready == pending = Idle /\ ~wild
Then(do, k, piece) == pending' = [do |-> do, key |-> k, piece |-> piece]
Done == IF instantSwap THEN [Idle EXCEPT !.do = "swap"] ELSE Idle

\* A change of k made while a rewrite is on is not in the file after it, unless the
\* thread has yet to come to k.
Strays(ks) == astray' = IF Rewriting THEN astray \union ks ELSE astray

-----------------------------------------------------------------------------
(***************************************************************************)
(* The server thread.                                                      *)
(***************************************************************************)
Init ==
  /\ size = InitSize
  /\ numEl = 0
  /\ stored = {}
  /\ slot = [k \in Keys |-> 0]
  /\ ahead = [k \in Keys |-> {}]
  /\ val = [k \in Keys |-> <<>>]
  /\ diff = {}
  /\ pos = [k \in Keys |-> {}]
  /\ file = <<>>
  /\ disk = <<>>
  /\ garbled = FALSE
  /\ nRem = 0
  /\ rw \in {Off, Begin}
  /\ pending = Idle
  /\ instantSwap \in BOOLEAN
  /\ wild = FALSE
  /\ astray = {}

\* resize, first in a put that finds the table full, which goes on below.  A thread
\* that walks the chains goes on in new ones, or sees an array that is half built.
Resize(k, v) ==
  /\ Ready
  /\ Full
  /\ 2 * size <= MaxSize
  /\ size' = 2 * size
  /\ numEl' = 0
  /\ slot' = Rehashed(2 * size)
  /\ ahead' = Turned(2 * size)
  /\ Then("put", k, v)
  /\ IF rw.phase = "walk"
       THEN wild' \in BOOLEAN /\ astray' = Keys
       ELSE UNCHANGED <<wild, astray>>
  /\ UNCHANGED <<stored, val, diff, fileVars, nRem, rw, instantSwap>>

Puts(k, v) ==
  \/ Ready /\ ~Full
  \/ pending = [do |-> "put", key |-> k, piece |-> v] /\ ~wild

\* A new pair, whose byte diff holds what the memory held.
NewPair(k, v) ==
  /\ ~Found(k)
  /\ numEl' = numEl + 1
  /\ stored' = stored \union {k}
  /\ slot' = [slot EXCEPT ![k] = Hash[k] % size]
  /\ val' = [val EXCEPT ![k] = <<v>>]
  /\ \E d \in Diffs[k] : diff' = IF d THEN diff \union {k} ELSE diff \ {k}
  /\ Then("write", k, v)
  /\ Strays({k})
  /\ UNCHANGED <<size, fileVars, nRem, rw, instantSwap, wild>>

\* put, up to the release of map_lock: a new pair goes to the end of its chain.
PutNew(k, v) ==
  /\ Puts(k, v)
  /\ NewPair(k, v)
  /\ ahead' = [ahead EXCEPT ![k] = Chain(Hash[k] % size)]

\* put of a key that is there: its positions are marked in whatever dbfile is.
PutOld(k, v) ==
  /\ Puts(k, v)
  /\ Found(k)
  /\ val' = [val EXCEPT ![k] = <<v>>]
  /\ Mark(pos[k])
  /\ Then("write", k, v)
  /\ Strays({k})
  /\ MayRace(k)
  /\ UNCHANGED <<size, numEl, stored, slot, ahead, diff, pos, nRem, rw, instantSwap>>

\* append: a new pair goes to the front of its chain; there is no resize.
AppendNew(k, v) ==
  /\ Ready
  /\ NewPair(k, v)
  /\ ahead' = [j \in Keys |->
       IF j \in Chain(Hash[k] % size) THEN ahead[j] \union {k} ELSE ahead[j] \ {k}]

\* append to a pair that is there: only what is appended will be written.
AppendOld(k, v) ==
  /\ Ready
  /\ Found(k)
  /\ Len(val[k]) < MaxPieces
  /\ val' = [val EXCEPT ![k] = Append(@, v)]
  /\ Then("append", k, v)
  /\ Strays({k})
  /\ MayRace(k)
  /\ UNCHANGED <<size, numEl, stored, slot, ahead, diff, fileVars, nRem, rw, instantSwap>>

\* Slip in remove, for mutation testing: the chain ends before the pair removed.
CutsChain(k) == {k} \union {j \in stored : k \in ahead[j]}

\* cur->next = r->next
Unlinks(k) == {k}

\* remove: the positions marked are those of the first pair of the chain, whichever
\* pair is removed.  Every MagicNumber-th removal rewrites the file.
Remove(k) ==
  LET first == First(slot[k])
      rewrite == nRem + 1 = MagicNumber
  IN /\ Ready
     /\ Found(k)
     /\ Mark(pos[first])
     /\ numEl' = numEl - 1
     /\ stored' = stored \ Unlinks(k)
     /\ slot' = [slot EXCEPT ![k] = 0]
     /\ ahead' = [j \in Keys |-> IF j = k THEN {} ELSE ahead[j] \ {k}]
     /\ val' = [val EXCEPT ![k] = <<>>]
     /\ diff' = diff \ {k}
     /\ pos' = [pos EXCEPT ![k] = {}]
     /\ nRem' = IF rewrite THEN 0 ELSE nRem + 1
     /\ IF rewrite THEN WriteFile ELSE UNCHANGED rw
     /\ pending' = Done
     /\ astray' = IF Rewriting \/ first # k THEN astray \union {first, k} ELSE astray
     /\ IF rw.at = k THEN wild' = TRUE ELSE MayRace(first)
     /\ UNCHANGED <<size, instantSwap>>

\* Slip in write: the position is asked for before the seek to the end of the file.
PlaceBefore == IF Rewriting THEN Foreign ELSE Len(file)

\* fgetpos at the end of dbfile, seen from the file.
Place == IF Rewriting THEN Foreign ELSE Len(file) + 1

\* write and writeAppend: a record at the end of dbfile.  The position is the record's
\* when that is the file, and Foreign to it when it is the swap file.
Write ==
  LET k == pending.key
  IN /\ pending.do \in {"write", "append"}
     /\ ~wild
     /\ pos' = [pos EXCEPT ![k] = IF pending.do = "write" THEN {Place} ELSE @ \union {Place}]
     /\ IF Rewriting
          THEN UNCHANGED <<file, disk>>
          ELSE /\ Len(file) < MaxFile
               /\ file' = Append(file, Record(k, IF pending.do = "write" THEN val[k]
                                                ELSE <<pending.piece>>))
               /\ disk' = file'
     /\ pending' = Done
     /\ Strays({k})
     /\ MayRace(k)
     /\ UNCHANGED <<tableVars, garbled, nRem, rw, instantSwap>>

\* INSTANT_SWAP: writeFileFG starts a rewrite and waits for the thread to end.
SwapNow ==
  /\ pending.do = "swap"
  /\ ~wild
  /\ WriteFile
  /\ nRem' = 0
  /\ pending' = [pending EXCEPT !.do = "join"]
  /\ UNCHANGED <<tableVars, fileVars, instantSwap, wild, astray>>

Joined ==
  /\ pending.do = "join"
  /\ ~Rewriting
  /\ pending' = Idle
  /\ UNCHANGED <<tableVars, fileVars, nRem, rw, instantSwap, wild, astray>>

-----------------------------------------------------------------------------
(***************************************************************************)
(* The rewriting thread.                                                   *)
(***************************************************************************)

\* The file is emptied, and with it every position is void.
Truncate ==
  /\ rw.phase = "begin"
  /\ ~wild
  /\ file' = <<>>
  /\ disk' = <<>>
  /\ garbled' = FALSE
  /\ pos' = [k \in Keys |-> IF pos[k] = {} THEN {} ELSE {Foreign}]
  /\ astray' = (diff \union {pending.key}) \ {NoKey}
  /\ rw' = [rw EXCEPT !.phase = "walk"]
  /\ UNCHANGED <<tableVars, nRem, pending, instantSwap, wild>>

\* cur = kvpairs[i]
NextChain ==
  /\ rw.phase = "walk"
  /\ rw.at = NoKey
  /\ rw.slot < size
  /\ ~wild
  /\ rw' = IF Chain(rw.slot) = {} THEN [rw EXCEPT !.slot = @ + 1]
           ELSE [rw EXCEPT !.at = First(rw.slot)]
  /\ UNCHANGED <<tableVars, fileVars, nRem, pending, instantSwap, wild, astray>>

\* The pair's value is written and its positions replaced, unless diff holds something;
\* then cur = cur->next.
RewritePair ==
  LET k == rw.at
  IN /\ rw.phase = "walk"
     /\ k # NoKey
     /\ ~wild
     /\ IF k \in diff
          THEN UNCHANGED <<pos, file, disk, astray>>
          ELSE /\ Len(file) < MaxFile
               /\ pos' = [pos EXCEPT ![k] = {Len(file) + 1}]
               /\ file' = Append(file, Record(k, val[k]))
               /\ astray' = IF \E i \in DOMAIN file : file[i].key = k THEN astray \union {k}
                            ELSE astray \ ({k} \ {pending.key})
     /\ rw' = IF After(k) = NoKey THEN [rw EXCEPT !.at = NoKey, !.slot = @ + 1]
              ELSE [rw EXCEPT !.at = After(k)]
     /\ UNCHANGED <<tableVars, disk, garbled, nRem, pending, instantSwap, wild>>

\* merge, which needs both locks: dbfile = swapFile.
Merge ==
  /\ rw.phase = "walk"
  /\ rw.at = NoKey
  /\ rw.slot >= size
  /\ pending.do # "put"
  /\ ~wild
  /\ rw' = Off
  /\ UNCHANGED <<tableVars, fileVars, nRem, pending, instantSwap, wild, astray>>

-----------------------------------------------------------------------------
(***************************************************************************)
(* The server dies, by a signal or of undefined behaviour, and is started  *)
(* again on what the kernel has of its file.                               *)
(***************************************************************************)

\* What the kernel has: what was flushed, and as much of the rest as went out because
\* the buffer was full.
Kernel == {disk \o SubSeq(file, Len(disk) + 1, n) : n \in Len(disk)..Len(file)}

\* Slip in readFile, for mutation testing: marks are not looked at.
AllRecords(f) == DOMAIN f

\* The records readFile does not skip.
Live(f) == {i \in DOMAIN f : ~f[i].dead}

\* What it may take a spoilt file for.
Guessed == [key : Keys, piece : {<<v>> : v \in Vals}, dead : {FALSE}]

\* Of the live ones readFile reads one: the put of that pair writes it to the end of the
\* file that is being read, and there the reading ends.  What it makes of a spoilt file is
\* open.
Recovered(f) ==
  IF garbled THEN {<<>>} \union {<<r>> : r \in Guessed}
  ELSE IF Live(f) = {} THEN {<<>>}
  ELSE {SubSeq(f, i, i) : i \in {i \in Live(f) : \A j \in Live(f) : i <= j}}

\* The table and the file after readFile has put r (at most one record) back.
Restarted(f, r) ==
  LET ks == {r[i].key : i \in DOMAIN r}
  IN /\ Len(f) <= MaxFile
     /\ size' = InitSize
     /\ numEl' = Len(r)
     /\ stored' = ks
     /\ slot' = [k \in Keys |-> IF k \in ks THEN Hash[k] % InitSize ELSE 0]
     /\ ahead' = [k \in Keys |-> {}]
     /\ val' = [k \in Keys |-> IF k \in ks THEN r[1].piece ELSE <<>>]
     /\ diff' \in {dirty \in SUBSET ks : \A k \in ks : (k \in dirty) \in Diffs[k]}
     /\ pos' = [k \in Keys |-> IF k \in ks THEN {Len(f) + 1} ELSE {}]
     /\ file' = f \o r
     /\ disk' = f \o r
     /\ nRem' = 0
     /\ rw' \in IF Len(f) < MaxFile THEN {Off, Begin} ELSE {Begin}
     /\ pending' = Idle
     /\ wild' = FALSE
     /\ astray' = Keys
     /\ UNCHANGED <<garbled, instantSwap>>

Restart == \E f \in Kernel : \E r \in Recovered(f) : Restarted(f, r)

Server ==
  \/ \E k \in Keys, v \in Vals :
       Resize(k, v) \/ PutNew(k, v) \/ PutOld(k, v) \/ AppendNew(k, v) \/ AppendOld(k, v)
  \/ \E k \in Keys : Remove(k)
  \/ Write \/ SwapNow \/ Joined

Rewriter == Truncate \/ NextChain \/ RewritePair \/ Merge

Next == Server \/ Rewriter \/ Restart

Spec == Init /\ [][Next]_vars

-----------------------------------------------------------------------------
(***************************************************************************)
(* Properties.                                                             *)
(***************************************************************************)

Records == [key : Keys, piece : Seq(Vals), dead : BOOLEAN]

\* Every variable keeps its type.
TypeOK ==
  /\ size \in Nat
  /\ numEl \in Int
  /\ stored \subseteq Keys
  /\ slot \in [Keys -> Nat]
  /\ ahead \in [Keys -> SUBSET Keys]
  /\ val \in [Keys -> Seq(Vals)]
  /\ diff \subseteq stored
  /\ pos \in [Keys -> SUBSET Nat]
  /\ {file, disk} \subseteq Seq(Records)
  /\ garbled \in BOOLEAN
  /\ nRem \in Nat
  /\ rw \in [phase : {"off", "begin", "walk"}, slot : Nat, at : Keys \union {NoKey}]
  /\ pending \in [do : {"idle", "put", "write", "append", "swap", "join"},
                  key : Keys \union {NoKey}, piece : Vals \union {<<>>}]
  /\ instantSwap \in BOOLEAN
  /\ wild \in BOOLEAN
  /\ astray \subseteq Keys

\* Through puts at the end of a chain, appends at its front, removals and resizes, every
\* pair is in the chain its hash leads to, and the pairs of a chain follow each other.
ChainsLinked ==
  \A k \in Keys :
    /\ k \in stored => slot[k] = Hash[k] % size
    /\ k \notin ahead[k]
    /\ ahead[k] \subseteq {j \in stored : k \in stored /\ slot[j] = slot[k]}
    /\ \A j \in Chain(slot[k]) : k \in stored /\ j # k => (j \in ahead[k] <=> k \notin ahead[j])
    /\ \A j \in ahead[k] : ahead[j] \subseteq ahead[k]

\* A position that belongs to the file leads to a record of its own key, whatever was
\* rewritten, swapped or restarted since: a mark through it hits no other pair.
PositionsLead ==
  \A k \in Keys : \A i \in pos[k] \ {Foreign} :
    i \in DOMAIN file /\ file[i].key = k

\* The records of k in the file that no mark covers.
Held(k) == {i \in Live(file) : file[i].key = k}

\* Their pieces, in their order, are v: that of record i ends at ends[i].
Spells(k, v) ==
  \E ends \in [0..Len(file) -> 0..Len(v)] :
    /\ ends[0] = 0 /\ ends[Len(file)] = Len(v)
    /\ \A i \in DOMAIN file :
         /\ ends[i] = ends[i - 1] + IF i \in Held(k) THEN Len(file[i].piece) ELSE 0
         /\ i \in Held(k) => SubSeq(v, ends[i - 1] + 1, ends[i]) = file[i].piece

\* While no rewrite is on and no record is due, the file holds the value of every key
\* that no update missed the rewrite of, that was not removed from behind another pair,
\* and whose pair no leftover in diff keeps out; unless a foreign position was marked.
FileHoldsTable ==
  ~Rewriting /\ ~wild /\ ~garbled =>
    \A k \in Keys \ astray : k # pending.key => Spells(k, val[k])

\* What a restart brings back was there, with the beginning of its value, if the kernel
\* had all of the file and nothing had gone astray: no removed pair returns.
RestartReadsTruth ==
  [][disk = file /\ ~garbled /\ ~Rewriting /\ Restart =>
       \A k \in stored' \ astray : k # pending.key =>
         k \in stored /\ val'[k] = SubSeq(val[k], 1, Len(val'[k]))]_vars

\* What a get finds.
Pairs == [k \in Keys |-> IF Found(k) THEN val[k] ELSE <<>>]

\* From one restart to the next, the table is a store of pairs.
Store == INSTANCE PairStore WITH pairs <- Pairs

ImplementsPairStore == Store!Init /\ [][Restart \/ Store!Next]_Pairs

\* "INSTANTLY SWAP IN-MEM DATA TO NOVOHT DB FILE" (zht.conf:12): when an operation is
\* over, the pairs are on disk.  The records of the rewrite wait in the stream's buffer.
InstantSwapOnDisk ==
  [][Joined =>
       \A k \in stored \ astray : \E i \in DOMAIN disk : disk[i].key = k]_vars
=============================================================================
