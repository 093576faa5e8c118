-------------------------- MODULE FusionPathProofs --------------------------
(***************************************************************************)
(* Proofs about FusionFS, for any nodes, files and directories: names are  *)
(* in directories if and only if there is something under their paths, the *)
(* owner of a file has it, and what was written last is what the owner     *)
(* has.                                                                    *)
(*                                                                         *)
(* Nothing is locked, so that two calls at one path do harm; the model     *)
(* puts each such overlap on record, and Overlaps says that it does.  At a *)
(* path whose record is clear, a call is then alone, and what it has seen  *)
(* in one step is still so at the next: the stages of the calls, one after *)
(* the other (HandleStage, AddrStage, FileStage, DirStage, NameNext).  On  *)
(* these rest what is true between calls: who is the owner of a file and   *)
(* who has copies (FileRight), and what a directory names (PathRight).     *)
(*                                                                         *)
(* The invariant goes path by path, and up: what is under a directory that *)
(* is removed depends on all the directories between (NothingUnder).       *)
(***************************************************************************)
EXTENDS FusionFSProofs

\* Nothing has gone wrong with p, or with a directory p is in, that takes a value or a
\* copy away.
Clear(p) == ~Upset(p, Kinds \ {"refetch"})

Of(c, p) == c # NoCall /\ c.path = p
Opened(h, p) == h.writes /\ h.file = p

\* Two calls or open files at one path are on record.
Overlaps ==
  \A m, n \in Nodes : m # n => \A q \in Touched(m) \cap Touched(n) : <<"overlap", q>> \in faults

\* What a call knows of the file its node has open.
HandleStage(n) ==
  LET c == call[n]
  IN /\ c.do \in {"write", "close", "drop"} => handle[n] = Closed
     /\ Is(c, "create", 1, 3) \/ Is(c, "read", 3, 3) => handle[n] = Closed
     /\ Is(c, "create", 4, 7) => handle[n].writes /\ handle[n].file = c.path
     /\ c.do = "unlink" => handle[n].file # c.path

\* Another node does not come to be the owner of what is looked up as n's.
AddrStage(n) ==
  LET c == call[n]
  IN c # NoCall /\ c.at = 2 /\ c.path \in Files => c.addr = n \/ where[c.path] # n

Stages == \A n \in Nodes : HandleStage(n) /\ AddrStage(n)

-----------------------------------------------------------------------------
(***************************************************************************)
(* A file: its owner, its copies, and the calls on it.                     *)
(***************************************************************************)
FileStage(n, p) ==
  LET c == call[n]
  IN Of(c, p) =>
       /\ Is(c, "create", 2, 2) => c.addr = where[p]
       /\ Is(c, "create", 3, 7) => where[p] = NoNode
       /\ Is(c, "write", 2, 2) => c.addr = where[p]
       /\ Is(c, "write", 3, 3) => where[p] # NoNode /\ copy[n][p] # 0
       /\ Is(c, "close", 1, 4) => where[p] # NoNode
       /\ Is(c, "close", 1, 5) => copy[n][p] # 0
       /\ Is(c, "close", 2, 2) => c.addr = where[p]
       /\ Is(c, "close", 3, 4) => where[p] # n
       /\ Is(c, "close", 4, 6) => c.addr # n
       /\ Is(c, "close", 5, 5) => where[p] = NoNode
       /\ Is(c, "close", 6, 6) => where[p] = n
       /\ Is(c, "unlink", 8, 8) => where[p] = NoNode

\* A file that is open for writing is there, and ZHT knows it or is about to.
WriterRight(n, p) ==
  Opened(handle[n], p) =>
    /\ handle[n].linked /\ copy[n][p] # 0
    /\ where[p] # NoNode \/ (Of(call[n], p) /\ Is(call[n], "create", 4, 7))

\* The calls between whose steps there are copies of p and no owner.
Between(c, p) ==
  Of(c, p) /\ (Is(c, "create", 4, 7) \/ Is(c, "close", 5, 5) \/ Is(c, "unlink", 8, 8))

CopiesRight(p) ==
  (\E n \in Nodes : copy[n][p] # 0) => where[p] # NoNode \/ \E n \in Nodes : Between(call[n], p)

OwnerRight(p) == where[p] # NoNode => copy[where[p]][p] # 0

\* n has p open for writing, or is about to, or is closing it.
Writes(c, p) == Of(c, p) /\ (Is(c, "write", 3, 3) \/ Is(c, "close", 1, 5))
Writer(n, p) == Opened(handle[n], p) \/ Writes(call[n], p)

LatestRight(p) ==
  ~Upset(p, Kinds) =>
    /\ \A n \in Nodes : Writer(n, p) => copy[n][p] = latest[p]
    /\ where[p] # NoNode /\ (\A n \in Nodes : ~Writer(n, p)) => copy[where[p]][p] = latest[p]

FileRight(p) ==
  /\ \A n \in Nodes : FileStage(n, p) /\ WriterRight(n, p)
  /\ CopiesRight(p) /\ OwnerRight(p) /\ LatestRight(p)

-----------------------------------------------------------------------------
(***************************************************************************)
(* A path: its name in its directory, and the calls on the directory.      *)
(***************************************************************************)
Listers == {"create", "unlink", "mkdir", "rmdir"}
Lists(c, d) == c.do \in Listers /\ Parent[c.path] = d

\* The steps before which, and between which, the directory's value is removed and inserted.
Removing(c) ==
  Is(c, "create", 5, 5) \/ Is(c, "unlink", 4, 4) \/ Is(c, "mkdir", 3, 3) \/ Is(c, "rmdir", 3, 3)
Inserting(c) ==
  Is(c, "create", 6, 6) \/ Is(c, "unlink", 5, 5) \/ Is(c, "mkdir", 4, 4) \/ Is(c, "rmdir", 4, 4)

Relisting(d) == \E n \in Nodes : Lists(call[n], d) /\ Inserting(call[n])

Exists(p) == IF p \in Files THEN where[p] # NoNode ELSE list[p] # NoList \/ Relisting(p)

\* The path is there and has no name yet, or any more; or has its name and is not there.
Unlisted(c, p) ==
  Of(c, p) /\ (Is(c, "unlink", 6, 7) \/ Is(c, "rmdir", 5, 5) \/ Is(c, "mkdir", 2, 4))
Ahead(c, p) == Of(c, p) /\ (Is(c, "create", 7, 7) \/ Is(c, "close", 5, 5))

\* p has a name in its directory.
Due(p) ==
  \/ Exists(p) /\ \A n \in Nodes : ~Unlisted(call[n], p)
  \/ \E n \in Nodes : Ahead(call[n], p)
Expect(p) == IF Due(p) THEN 1 ELSE 0

\* A directory that a node has, or in which a call changes a name, is there.
DirThere(p) ==
  p \in Dirs /\ (\E m \in Nodes : p \in dirs[m] \/ Lists(call[m], p)) => Exists(p)

DirStage(n, p) ==
  LET c == call[n]
  IN Of(c, p) =>
       /\ Is(c, "mkdir", 2, 4) => list[p] # NoList
       /\ Is(c, "rmdir", 2, 5) => list[p] = Blank

NameThere(p) == ~Relisting(Parent[p]) => Times(Text(list[Parent[p]]), p) = Expect(p)

\* What a call is to insert.
NameNext(n, p) ==
  LET c == call[n]
  IN Lists(c, Parent[p]) /\ (Removing(c) \/ Inserting(c)) =>
       Times(c.val, p) = IF c.path # p THEN Expect(p)
                         ELSE IF c.do \in {"create", "mkdir"} THEN 1 ELSE 0

PathRight(p) ==
  /\ DirThere(p) /\ NameThere(p)
  /\ \A n \in Nodes : DirStage(n, p) /\ NameNext(n, p)

Inv ==
  /\ Typed /\ Overlaps /\ Stages
  /\ \A p \in Files : Clear(p) => FileRight(p)
  /\ \A p \in Paths : Clear(p) => PathRight(p)

-----------------------------------------------------------------------------
(***************************************************************************)
(* Faults.                                                                 *)
(***************************************************************************)
LEMMA UpsetStays ==
  ASSUME NEW p, faults \subseteq faults'
  PROVE  (Clear(p)' => Clear(p)) /\ (~Upset(p, Kinds)' => ~Upset(p, Kinds))
BY DEF Clear, Upset, Above

LEMMA UpsetIsClear ==
  ASSUME NEW p, ~Upset(p, Kinds)
  PROVE  Clear(p)
BY DEF Clear, Upset

LEMMA Spared ==
  ASSUME NEW p, NEW ps, NEW kind \in Kinds \ {"refetch"}, Fault(kind, ps), Clear(p)'
  PROVE  Clear(p) /\ \A q \in {p} \union Above(p) : q \notin ps
<1>1. faults' = faults \union ({kind} \X ps)
  BY DEF Fault
<1>2. Clear(p)
  BY <1>1, UpsetStays
<1>3. ASSUME NEW q \in {p} \union Above(p), q \in ps
      PROVE  FALSE
  <2>1. <<kind, q>> \in faults'
    BY <1>1, <1>3
  <2>2. <<kind, q>> \in (Kinds \ {"refetch"}) \X ({p} \union Above(p))
    BY <1>3
  <2>3. QED
    BY <2>1, <2>2 DEF Clear, Upset, Above
<1>4. QED
  BY <1>2, <1>3

\* The directory of a path is above it, and so is what is above the directory.
LEMMA ParentIsAbove ==
  ASSUME NEW p \in Paths
  PROVE  /\ Parent[p] \in AllDirs /\ Parent[p] \in Above(p) /\ Parent[p] # p
         /\ Parent[p] \in Dirs => Above(Parent[p]) \subseteq Above(p)
         /\ Parent[p] \in Dirs => Parent[p] \notin Above(Parent[p])
         /\ p # Root
<1>1. /\ Parent[p] \in AllDirs /\ p # Root
      /\ \A d \in AllDirs :
           p \in Under[d] <=> Parent[p] = d \/ (Parent[p] # Root /\ Parent[p] \in Under[d])
      /\ \A d \in Dirs : d \notin Under[d]
      /\ Root \notin Dirs /\ Root \notin Paths
  BY FusionFSAssumption DEF FusionFSAssumption, Paths
<1>2. Parent[p] \in Above(p)
  BY <1>1 DEF Above
<1>3. Parent[p] # p
  <2>1. SUFFICES ASSUME Parent[p] = p
                 PROVE  FALSE
    OBVIOUS
  <2>2. p \in Dirs
    BY <1>1, <2>1 DEF AllDirs
  <2>3. QED
    BY <1>1, <2>1, <2>2 DEF AllDirs
<1>4. QED
  BY <1>1, <1>2, <1>3 DEF Above

LEMMA ClearAbove ==
  ASSUME NEW p \in Paths, Clear(p), Parent[p] \in Dirs
  PROVE  Clear(Parent[p])
BY ParentIsAbove DEF Clear, Upset

-----------------------------------------------------------------------------
(***************************************************************************)
(* A path that a call changes is not changed by another, or a fault says so. *)
(***************************************************************************)
LEMMA Sole ==
  ASSUME Overlaps, NEW p, Clear(p), NEW q \in {p} \union Above(p),
         NEW n \in Nodes, NEW m \in Nodes \ {n}, q \in Touched(n)
  PROVE  q \notin Touched(m)
<1>1. SUFFICES ASSUME q \in Touched(m)
               PROVE  FALSE
  OBVIOUS
<1>2. <<"overlap", q>> \in faults
  BY <1>1 DEF Overlaps
<1>3. <<"overlap", q>> \in (Kinds \ {"refetch"}) \X ({p} \union Above(p))
  BY DEF Kinds
<1>4. QED
  BY <1>2, <1>3 DEF Clear, Upset

\* A call that depends on p being as it found it.
Busy(c, p) ==
  Of(c, p) /\ (Is(c, "create", 2, 7) \/ Is(c, "write", 2, 3) \/ Is(c, "close", 1, 6)
               \/ Is(c, "unlink", 8, 8))

LEMMA Touching ==
  ASSUME NEW m \in Nodes, NEW p
  PROVE  /\ Of(call[m], p) /\ call[m].do \in Listers \union {"write", "close"} => p \in Touched(m)
         /\ Busy(call[m], p) \/ Unlisted(call[m], p) \/ Ahead(call[m], p) => p \in Touched(m)
         /\ Writes(call[m], p) \/ Opened(handle[m], p) => p \in Touched(m)
         /\ Lists(call[m], p) => p \in Touched(m)
BY DEF Of, Touched, Alters, Busy, Unlisted, Ahead, Writes, Opened, Lists, Listers, Is

LEMMA Alone ==
  ASSUME Overlaps, NEW p, Clear(p), NEW q \in {p} \union Above(p),
         NEW n \in Nodes, q \in Touched(n)
  PROVE  \A m \in Nodes \ {n} :
           /\ ~Busy(call[m], q) /\ ~Opened(handle[m], q) /\ ~Writes(call[m], q)
           /\ ~Unlisted(call[m], q) /\ ~Ahead(call[m], q) /\ ~Lists(call[m], q)
           /\ ~(Of(call[m], q) /\ call[m].do \in Listers \union {"write", "close"})
BY Sole, Touching

-----------------------------------------------------------------------------
(***************************************************************************)
(* Overlaps.                                                               *)
(***************************************************************************)
LEMMA TouchedShrinks ==
  ASSUME Overlaps, NEW n \in Nodes, faults \subseteq faults',
         \A m \in Nodes \ {n} : Touched(m)' = Touched(m),
         \A q \in Touched(n)' : q \in Touched(n) \/ \A m \in Nodes \ {n} : q \in Touched(m) => <<"overlap", q>> \in faults'
  PROVE  Overlaps'
<1>1. SUFFICES ASSUME NEW i \in Nodes, NEW j \in Nodes, i # j,
                      NEW q, q \in Touched(i)', q \in Touched(j)'
               PROVE  <<"overlap", q>> \in faults'
  BY DEF Overlaps
<1>2. CASE i # n /\ j # n
  BY <1>1, <1>2 DEF Overlaps
<1>3. CASE i = n
  BY <1>1, <1>3 DEF Overlaps
<1>4. CASE j = n
  BY <1>1, <1>4 DEF Overlaps
<1>5. QED
  BY <1>2, <1>3, <1>4

\* What n has open and what it changes does not get more.
Calms(n) ==
  /\ faults \subseteq faults'
  /\ \A m \in Nodes \ {n} : call'[m] = call[m]
  /\ \A m \in Nodes \ {n} : handle'[m].file = handle[m].file /\ handle'[m].writes = handle[m].writes
  /\ call'[n] = NoCall \/ call'[n] = call[n] \/ Goes(n)
  /\ \/ handle'[n].file = handle[n].file /\ handle'[n].writes = handle[n].writes
     \/ ~handle'[n].writes
     \/ handle'[n].file = call[n].path /\ call[n].do \in {"write", "create"}

LEMMA CalmsOverlaps ==
  ASSUME Overlaps, NEW n \in Nodes, Calms(n)
  PROVE  Overlaps'
<1>1. Alters(call'[n]) \subseteq Alters(call[n])
  BY DEF Calms, Goes, Alters, NoCall
<1>2. \A m \in Nodes \ {n} : Touched(m)' = Touched(m)
  BY DEF Calms, Touched
<1>3. Touched(n)' \subseteq Touched(n)
  <2>1. Touched(n)' = Alters(call'[n]) \union IF handle'[n].writes THEN {handle'[n].file} ELSE {}
    BY DEF Touched
  <2>2. handle'[n].writes => handle'[n].file \in Touched(n)
    BY DEF Calms, Touched, Alters
  <2>3. QED
    BY <1>1, <2>1, <2>2 DEF Touched
<1>4. QED
  BY <1>2, <1>3, TouchedShrinks DEF Calms

LEMMA BegunOverlaps ==
  ASSUME Overlaps, NEW n \in Nodes, NEW do, NEW path, Begun(n, do, path),
         handle' = handle \/ (HandlesTyped /\ handle' = [handle EXCEPT ![n] = Closed])
  PROVE  Overlaps'
<1>1. \A m \in Nodes \ {n} : handle'[m] = handle[m]
  BY DEF HandlesTyped
<1>2. handle'[n] = handle[n] \/ handle'[n].writes = FALSE
  BY DEF HandlesTyped, Closed
<1>3. \A m \in Nodes \ {n} : Touched(m)' = Touched(m)
  BY <1>1 DEF Begun, Touched
<1>4. faults' = faults \union ({"overlap"} \X (Alters(call'[n]) \cap UNION {Touched(m) : m \in Nodes \ {n}}))
  BY DEF Begun, Fault
<1>5. ASSUME NEW q \in Touched(n)', q \notin Touched(n), NEW m \in Nodes \ {n}, q \in Touched(m)
      PROVE  <<"overlap", q>> \in faults'
  <2>1. q \in Alters(call'[n])
    BY <1>2, <1>5 DEF Touched
  <2>2. q \in UNION {Touched(k) : k \in Nodes \ {n}}
    BY <1>5
  <2>3. QED
    BY <1>4, <2>1, <2>2
<1>6. QED
  BY <1>3, <1>4, <1>5, TouchedShrinks

-----------------------------------------------------------------------------
(***************************************************************************)
(* What a call knows of its node's open file, and of an address.           *)
(***************************************************************************)
LEMMA OneStage ==
  ASSUME Stages, NEW n \in Nodes,
         \A m \in Nodes \ {n} :
           /\ call'[m] = call[m]
           /\ handle'[m].file = handle[m].file /\ handle'[m].writes = handle[m].writes
           /\ handle[m] = Closed => handle'[m] = Closed
           /\ \A f \in Files : where'[f] = where[f] \/ where'[f] # m,
         HandleStage(n)', AddrStage(n)'
  PROVE  Stages'
<1>1. ASSUME NEW m \in Nodes \ {n}
      PROVE  HandleStage(m)'
  BY <1>1 DEF Stages, HandleStage
<1>2. ASSUME NEW m \in Nodes \ {n}
      PROVE  AddrStage(m)'
  BY <1>2 DEF Stages, AddrStage
<1>3. QED
  BY <1>1, <1>2 DEF Stages

LEMMA OverStage ==
  ASSUME NEW n, call'[n] = NoCall
  PROVE  HandleStage(n)' /\ AddrStage(n)'
BY DEF HandleStage, AddrStage, NoCall, Is

\* A call that goes on while the file that its node has open stays.
LEMMA GoesStage ==
  ASSUME Stages, NEW n \in Nodes, Goes(n), CallRight(call[n]), handle'[n] = handle[n],
         call[n].do = "create" => call[n].at # 3,
         call[n].do = "read" => call[n].at # 2 \/ handle[n] = Closed,
         call[n].path \in Files => call[n].at # 1
  PROVE  HandleStage(n)' /\ AddrStage(n)'
<1>1. call'[n].do = call[n].do /\ call'[n].path = call[n].path /\ call'[n].at = call[n].at + 1
  BY DEF Goes
<1>2. call[n].at \in Nat /\ call[n].at >= 1
  BY Spans
<1>3. HandleStage(n)
  BY DEF Stages
<1>4. HandleStage(n)'
  <2>1. call'[n].do \in {"write", "close", "drop"} => handle'[n] = Closed
    BY <1>1, <1>3 DEF HandleStage
  <2>2. Is(call'[n], "create", 1, 3) \/ Is(call'[n], "read", 3, 3) => handle'[n] = Closed
    BY <1>1, <1>2, <1>3 DEF HandleStage, Is
  <2>3. Is(call'[n], "create", 4, 7) => handle'[n].writes /\ handle'[n].file = call'[n].path
    BY <1>1, <1>2, <1>3 DEF HandleStage, Is
  <2>4. call'[n].do = "unlink" => handle'[n].file # call'[n].path
    BY <1>1, <1>3 DEF HandleStage
  <2>5. QED
    BY <2>1, <2>2, <2>3, <2>4 DEF HandleStage
<1>5. AddrStage(n)'
  BY <1>1, <1>2 DEF AddrStage
<1>6. QED
  BY <1>4, <1>5

\* Steps after which a call goes on as it was, or is over, while what is open stays.
LEMMA QuietStage ==
  ASSUME Stages, Overlaps, NEW n \in Nodes, CallRight(call[n]), faults \subseteq faults',
         \/ Ends(n)
         \/ /\ Goes(n) /\ (call[n].do = "create" => call[n].at # 3)
            /\ call[n].do = "read" => call[n].at # 2 \/ handle[n] = Closed
            /\ call[n].path \in Files => call[n].at # 1,
         \A m \in Nodes : handle'[m] = handle[m],
         \A m \in Nodes \ {n}, f \in Files : where'[f] = where[f] \/ where'[f] # m
  PROVE  Overlaps' /\ Stages'
<1>1. HandleStage(n)' /\ AddrStage(n)'
  BY OverStage, GoesStage DEF Ends
<1>2. \A m \in Nodes \ {n} : call'[m] = call[m]
  BY DEF Ends, Goes, Apart
<1>3. Stages'
  BY <1>1, <1>2, OneStage
<1>4. Calms(n)
  BY <1>2 DEF Calms, Ends
<1>5. QED
  BY <1>3, <1>4, CalmsOverlaps

\* The same, when a node loses copies.
LEMMA LosesStage ==
  ASSUME Typed, Stages, Overlaps, NEW n \in Nodes, CallRight(call[n]), faults \subseteq faults',
         NEW a \in Nodes, NEW fs, Loses(a, fs),
         Ends(n) \/ (Goes(n) /\ call[n].do \in {"rmdir", "drop"} /\ (call[n].path \in Files => call[n].at # 1)),
         where' = where
  PROVE  Overlaps' /\ Stages'
<1>1. \A m \in Nodes : /\ handle'[m].file = handle[m].file /\ handle'[m].writes = handle[m].writes
                       /\ handle[m] = Closed => handle'[m] = Closed
  BY CopyType
<1>2. \A m \in Nodes \ {n} : call'[m] = call[m]
  BY DEF Ends, Goes, Apart
<1>3. HandleStage(n)' /\ AddrStage(n)'
  <2>1. CASE Ends(n)
    BY <2>1, OverStage DEF Ends
  <2>2. CASE Goes(n) /\ call[n].do \in {"rmdir", "drop"} /\ (call[n].path \in Files => call[n].at # 1)
    <3>1. call'[n].do = call[n].do /\ call'[n].path = call[n].path /\ call'[n].at = call[n].at + 1
      BY <2>2 DEF Goes
    <3>2. call[n].at \in Nat
      BY Spans
    <3>3. HandleStage(n)'
      BY <1>1, <2>2, <3>1 DEF Stages, HandleStage, Is
    <3>4. AddrStage(n)'
      BY <2>2, <3>1, <3>2 DEF AddrStage
    <3>5. QED
      BY <3>3, <3>4
  <2>3. QED
    BY <2>1, <2>2
<1>4. Stages'
  BY <1>1, <1>2, <1>3, OneStage
<1>5. Calms(n)
  BY <1>1, <1>2 DEF Calms, Ends
<1>6. QED
  BY <1>4, <1>5, CalmsOverlaps

LEMMA FaultGrows ==
  ASSUME NEW kind, NEW ps, Fault(kind, ps)
  PROVE  faults \subseteq faults'
BY DEF Fault

LEMMA FileStepStages ==
  ASSUME Typed, Overlaps, Stages, NEW n \in Nodes, FileStep(n)
  PROVE  Overlaps' /\ Stages'
<1> DEFINE c == call[n]
<1>1. /\ CallRight(c) /\ c # NoCall /\ c.at \in Nat
      /\ where \in [Files -> Nodes \union {NoNode}] /\ NoNode \notin Nodes
      /\ handle \in [Nodes -> HandleRecords]
      /\ HandleStage(n)
  <2>1. c # NoCall
    BY DEF FileStep, Lookup, Fetch, Open, Creat, RenameCopy, Settle, RemoveKey, InsertKey, RemoveCopy, At
  <2>2. CallRight(c)
    BY <2>1, CallTyped
  <2>3. QED
    BY <2>1, <2>2, Spans, FusionFSAssumption DEF Typed, TypeOK, HandleRecords, FusionFSAssumption, Stages
<1>2. CASE Lookup(n)
  <2>1. /\ c.path \in Files
        /\ (c.do \in FileCalls /\ c.at = 1) \/ Is(c, "unlink", 6, 6) \/ Is(c, "close", 3, 3)
        /\ Goes(n) /\ call'[n].addr = where[c.path]
        /\ UNCHANGED <<where, handle, faults>>
    BY <1>2, LookupIs
  <2>2. call'[n].do = c.do /\ call'[n].path = c.path /\ call'[n].at = c.at + 1
    BY <2>1 DEF Goes
  <2>3. \A m \in Nodes \ {n} : call'[m] = call[m]
    BY <2>1 DEF Goes, Apart
  <2>4. HandleStage(n)'
    BY <1>1, <2>1, <2>2 DEF HandleStage, Is
  <2>5. AddrStage(n)'
    BY <2>1, <2>2 DEF AddrStage
  <2>6. Stages'
    BY <2>1, <2>3, <2>4, <2>5, OneStage
  <2>7. Calms(n)
    BY <2>1, <2>3 DEF Calms
  <2>8. QED
    BY <2>6, <2>7, CalmsOverlaps
<1>3. CASE Fetch(n)
  <2>1. /\ c.do \in FileCalls \ {"close", "drop"} /\ c.at = 2
        /\ Ends(n) \/ (Goes(n) /\ (c.do = "read" => handle[n] = Closed))
        /\ UNCHANGED <<where, handle>>
        /\ faults \subseteq faults'
    BY <1>3, FetchIs, FaultGrows
  <2>2. QED
    BY <1>1, <2>1, QuietStage
<1>4. CASE Open(n)
  <2>1. /\ c.do \in {"read", "write"} /\ c.at = 3 /\ Ends(n)
        /\ \A m \in Nodes \ {n} : handle'[m] = handle[m]
        /\ handle' = handle \/ (handle'[n].file = c.path /\ (handle'[n].writes <=> c.do = "write"))
        /\ UNCHANGED <<where, faults>>
    BY <1>4, OpenIs
  <2>2. HandleStage(n)' /\ AddrStage(n)'
    BY <2>1, OverStage DEF Ends
  <2>3. \A m \in Nodes \ {n} : call'[m] = call[m]
    BY <2>1 DEF Ends, Apart
  <2>4. Stages'
    BY <2>1, <2>2, <2>3, OneStage
  <2>5. Calms(n)
    BY <2>1, <2>3 DEF Calms, Ends
  <2>6. QED
    BY <2>4, <2>5, CalmsOverlaps
<1>5. CASE Creat(n)
  <2>1. /\ Is(c, "create", 3, 3) /\ Goes(n)
        /\ handle'[n].file = c.path /\ handle'[n].writes
        /\ \A m \in Nodes \ {n} : handle'[m] = handle[m]
        /\ UNCHANGED <<where, faults>>
    BY <1>5, CreatIs
  <2>2. call'[n].do = "create" /\ call'[n].path = c.path /\ call'[n].at = 4
    BY <1>1, <2>1 DEF Goes, Is
  <2>3. HandleStage(n)' /\ AddrStage(n)'
    BY <2>1, <2>2 DEF HandleStage, AddrStage, Is
  <2>4. \A m \in Nodes \ {n} : call'[m] = call[m]
    BY <2>1 DEF Goes, Apart
  <2>5. Stages'
    BY <2>1, <2>3, <2>4, OneStage
  <2>6. Calms(n)
    BY <2>1, <2>4 DEF Calms, Is
  <2>7. QED
    BY <2>5, <2>6, CalmsOverlaps
<1>6. CASE RenameCopy(n)
  <2>1. Ends(n) /\ faults \subseteq faults' /\ UNCHANGED <<where, handle>>
    BY <1>6, RenameCopyIs, FaultGrows
  <2>2. QED
    BY <1>1, <2>1, QuietStage
<1>7. CASE Settle(n)
  <2>1. /\ c.do \in {"close", "drop"} /\ c.at = 2
        /\ (Goes(n) /\ c.do = "close") \/ Ends(n)
        /\ (c.do = "drop" /\ Loses(n, {c.path})) \/ handle' = handle
        /\ UNCHANGED <<where, faults>>
    BY <1>7, SettleIs
  <2>2. CASE c.do = "drop" /\ Loses(n, {c.path})
    BY <1>1, <2>1, <2>2, LosesStage
  <2>3. CASE handle' = handle
    BY <1>1, <2>1, <2>3, QuietStage
  <2>4. QED
    BY <2>1, <2>2, <2>3
<1>8. CASE RemoveKey(n)
  <2>1. /\ ((Is(c, "unlink", 7, 7) \/ Is(c, "close", 4, 4)) /\ Goes(n)) \/ Ends(n)
        /\ \A f \in Files : where'[f] = where[f] \/ where'[f] = NoNode
        /\ handle' = handle /\ faults \subseteq faults'
    BY <1>8, RemoveKeyIs, FaultGrows
  <2>2. \A m \in Nodes \ {n}, f \in Files : where'[f] = where[f] \/ where'[f] # m
    BY <1>1, <2>1
  <2>3. (c.do \in {"unlink", "close"} /\ c.at # 1) \/ Ends(n)
    BY <2>1 DEF Is
  <2>4. QED
    BY <1>1, <2>1, <2>2, <2>3, QuietStage
<1>9. CASE InsertKey(n)
  <2>1. /\ Ends(n) \/ (Is(c, "close", 5, 5) /\ Goes(n))
        /\ \A f \in Files : where'[f] = where[f] \/ where'[f] = n
        /\ handle' = handle /\ faults' = faults
    BY <1>9, InsertKeyIs
  <2>2. \A m \in Nodes \ {n}, f \in Files : where'[f] = where[f] \/ where'[f] # m
    BY <1>1, <2>1
  <2>3. (c.do = "close" /\ c.at # 1) \/ Ends(n)
    BY <2>1 DEF Is
  <2>4. QED
    BY <1>1, <2>1, <2>2, <2>3, QuietStage
<1>10. CASE RemoveCopy(n)
  <2>1. /\ Ends(n) /\ faults \subseteq faults'
        /\ (c.addr \in Nodes /\ Loses(c.addr, {c.path})) \/ handle' = handle
        /\ where' = where
    BY <1>10, RemoveCopyIs, FaultGrows
  <2>2. CASE c.addr \in Nodes /\ Loses(c.addr, {c.path})
    BY <1>1, <2>1, <2>2, LosesStage
  <2>3. CASE handle' = handle
    BY <1>1, <2>1, <2>3, QuietStage
  <2>4. QED
    BY <2>1, <2>2, <2>3
<1>11. QED
  BY <1>2, <1>3, <1>4, <1>5, <1>6, <1>7, <1>8, <1>9, <1>10 DEF FileStep

LEMMA DiedStages ==
  ASSUME Typed, Overlaps, Stages, NEW n \in Nodes, Died(n)
  PROVE  Overlaps' /\ Stages'
<1>1. /\ Ends(n) /\ handle'[n] = Closed /\ (\A m \in Nodes \ {n} : handle'[m] = handle[m])
      /\ faults \subseteq faults' /\ where' = where
  BY FaultGrows DEF Died
<1>2. HandleStage(n)' /\ AddrStage(n)'
  BY <1>1, OverStage DEF Ends
<1>3. \A m \in Nodes \ {n} : call'[m] = call[m]
  BY <1>1 DEF Ends, Apart
<1>4. Stages'
  BY <1>1, <1>2, <1>3, OneStage
<1>5. Calms(n)
  BY <1>1, <1>3 DEF Calms, Ends, Closed
<1>6. QED
  BY <1>4, <1>5, CalmsOverlaps

LEMMA DirStepStages ==
  ASSUME Typed, Overlaps, Stages, NEW n \in Nodes, DirStep(n)
  PROVE  Overlaps' /\ Stages'
<1> DEFINE c == call[n]
<1>1. CallRight(c) /\ c # NoCall
  <2>1. c # NoCall
    BY DEF DirStep, Mkdir, Rmdir, Look, RemoveList, InsertList, Show, At
  <2>2. QED
    BY <2>1, CallTyped
<1>2. \A f \in Files : f \notin AllDirs
  BY FusionFSAssumption DEF FusionFSAssumption, AllDirs, Paths
<1>3. CASE Mkdir(n)
  <2>1. /\ c.path \in Dirs /\ Is(c, "mkdir", 1, 1) /\ Goes(n)
        /\ faults \subseteq faults' /\ handle' = handle /\ where' = where
    BY <1>3, MkdirIs, FaultGrows
  <2>2. c.do = "mkdir" /\ c.path \notin Files
    BY <1>2, <2>1 DEF Is, AllDirs
  <2>3. QED
    BY <1>1, <2>1, <2>2, QuietStage
<1>4. CASE Rmdir(n)
  <2>1. /\ c.path \in Dirs /\ Is(c, "rmdir", 1, 1)
        /\ (Goes(n) /\ Loses(n, Under[c.path] \cap Files)) \/ (Ends(n) /\ handle' = handle)
        /\ faults' = faults /\ where' = where
    BY <1>4, RmdirIs
  <2>2. c.do = "rmdir" /\ c.path \notin Files
    BY <1>2, <2>1 DEF Is, AllDirs
  <2>3. CASE Goes(n) /\ Loses(n, Under[c.path] \cap Files)
    BY <1>1, <2>1, <2>2, <2>3, LosesStage
  <2>4. CASE Ends(n) /\ handle' = handle
    BY <1>1, <2>1, <2>4, QuietStage
  <2>5. QED
    BY <2>1, <2>3, <2>4
<1>5. CASE Look(n)
  <2>1. \/ /\ \/ Is(c, "ls", 1, 1) \/ Is(c, "create", 4, 4) \/ Is(c, "mkdir", 2, 2)
              \/ Is(c, "unlink", 3, 3) \/ Is(c, "rmdir", 2, 2)
           /\ Goes(n) /\ UNCHANGED <<handle, where, faults>>
        \/ Died(n)
    BY <1>5, LookIs
  <2>2. CASE Died(n)
    BY <2>2, DiedStages
  <2>3. CASE ~Died(n)
    <3>1. c.do = "ls" \/ (c.do # "read" /\ c.at \notin {1, 3}) \/ (c.do = "unlink" /\ c.at # 1)
      BY <2>1, <2>3 DEF Is
    <3>2. c.do = "ls" => c.path \notin Files
      BY <1>1, <1>2 DEF CallRight
    <3>3. QED
      BY <1>1, <2>1, <2>3, <3>1, <3>2, QuietStage
  <2>4. QED
    BY <2>2, <2>3
<1>6. CASE RemoveList(n)
  <2>1. /\ Is(c, "create", 5, 5) \/ Is(c, "unlink", 4, 4) \/ Is(c, "mkdir", 3, 3) \/ Is(c, "rmdir", 3, 3)
        /\ Goes(n) /\ UNCHANGED <<handle, where, faults>>
    BY <1>6, RemoveListIs
  <2>2. c.do # "read" /\ c.at # 1 /\ (c.do = "create" => c.at # 3)
    BY <2>1 DEF Is
  <2>3. QED
    BY <1>1, <2>1, <2>2, QuietStage
<1>7. CASE InsertList(n)
  <2>1. /\ ((Is(c, "create", 6, 6) \/ Is(c, "unlink", 5, 5) \/ Is(c, "rmdir", 4, 4)) /\ Goes(n)) \/ Ends(n)
        /\ UNCHANGED <<handle, where, faults>>
    BY <1>7, InsertListIs
  <2>2. (c.do # "read" /\ c.at # 1 /\ (c.do = "create" => c.at # 3)) \/ Ends(n)
    BY <2>1 DEF Is
  <2>3. QED
    BY <1>1, <2>1, <2>2, QuietStage
<1>8. CASE Show(n)
  <2>1. /\ Ends(n) /\ where' = where /\ faults \subseteq faults'
        /\ Loses(n, Sweeps[c.path] \cap Files) \/ handle' = handle
    BY <1>8, ShowIs, FaultGrows
  <2>2. CASE Loses(n, Sweeps[c.path] \cap Files)
    BY <1>1, <2>1, <2>2, LosesStage
  <2>3. CASE handle' = handle
    BY <1>1, <2>1, <2>3, QuietStage
  <2>4. QED
    BY <2>1, <2>2, <2>3
<1>9. QED
  BY <1>3, <1>4, <1>5, <1>6, <1>7, <1>8 DEF DirStep

LEMMA BegunStages ==
  ASSUME Overlaps, Stages, HandlesTyped, NEW n \in Nodes, NEW do, NEW path, Begun(n, do, path),
         \/ handle' = handle /\ do \notin {"write", "create", "unlink", "close", "drop"}
         \/ handle' = handle /\ do \in {"write", "create"} /\ handle[n] = Closed
         \/ handle' = handle /\ do = "unlink" /\ handle[n].file # path
         \/ handle' = [handle EXCEPT ![n] = Closed] /\ do \in {"close", "drop"}
  PROVE  Overlaps' /\ Stages'
<1>1. /\ \A m \in Nodes \ {n} : call'[m] = call[m] /\ handle'[m] = handle[m]
      /\ call'[n].do = do /\ call'[n].path = path /\ call'[n].at = 1 /\ where' = where
      /\ handle' = handle \/ handle'[n] = Closed
  BY DEF Begun, HandlesTyped
<1>2. HandleStage(n)'
  <2>1. do \in {"write", "close", "drop", "create"} => handle'[n] = Closed
    BY DEF HandlesTyped
  <2>2. do = "unlink" => handle'[n].file # path
    OBVIOUS
  <2>3. QED
    BY <1>1, <2>1, <2>2 DEF HandleStage, Is
<1>3. AddrStage(n)'
  BY <1>1 DEF AddrStage
<1>4. Stages'
  BY <1>1, <1>2, <1>3, OneStage
<1>5. QED
  BY <1>4, BegunOverlaps

LEMMA StagesNext ==
  ASSUME Typed, Overlaps, Stages, [Next]_vars
  PROVE  Overlaps' /\ Stages'
<1>1. CASE UNCHANGED vars
  BY <1>1 DEF vars, zhtVars, localVars, Overlaps, Stages, Touched, HandleStage, AddrStage
<1>2. ASSUME NEW n \in Nodes, Mount(n)
      PROVE  Overlaps' /\ Stages'
  <2>1. UNCHANGED <<where, handle, call>> /\ faults \subseteq faults'
    BY <1>2, MountIs, FaultGrows
  <2>2. QED
    BY <2>1 DEF Overlaps, Stages, Touched, HandleStage, AddrStage
<1>3. ASSUME NEW n \in Nodes, Crash(n)
      PROVE  Overlaps' /\ Stages'
  BY <1>3, CrashIs, DiedStages
<1>4. ASSUME NEW n \in Nodes, Write(n)
      PROVE  Overlaps' /\ Stages'
  <2>1. UNCHANGED <<where, handle, call, faults>>
    BY <1>4, WriteIs
  <2>2. QED
    BY <2>1 DEF Overlaps, Stages, Touched, HandleStage, AddrStage
<1>5. ASSUME NEW n \in Nodes, Free(n), Starts(n)
      PROVE  Overlaps' /\ Stages'
  BY <1>5, StartIs, BegunStages, TypedIs
<1>6. QED
  BY <1>1, <1>2, <1>3, <1>4, <1>5, FileStepStages, DirStepStages DEF Next, User

-----------------------------------------------------------------------------
(***************************************************************************)
(* A step that does not concern a file, but perhaps takes a copy of it that *)
(* is not its owner's.                                                     *)
(***************************************************************************)
\* A call stays as it is, as far as it concerns p.
Same(c, d, p) ==
  \/ d = c
  \/ ~Busy(c, p) /\ ~Busy(d, p)
  \/ Of(c, p) /\ Of(d, p) /\ Is(c, "create", 4, 7) /\ Is(d, "create", 4, 7)

Steady(p) ==
  /\ where'[p] = where[p] /\ latest'[p] = latest[p]
  /\ \A m \in Nodes :
       /\ Same(call[m], call'[m], p)
       /\ handle'[m] = handle[m] \/ (~Opened(handle[m], p) /\ ~Opened(handle'[m], p))
       /\ \/ copy'[m][p] = copy[m][p]
          \/ /\ copy'[m][p] = 0 /\ where[p] # m
             /\ ~Opened(handle[m], p) /\ ~Busy(call[m], p)

LEMMA BusyIs ==
  ASSUME NEW c, NEW p
  PROVE  /\ Between(c, p) => Busy(c, p)
         /\ Writes(c, p) => Busy(c, p)
         /\ Of(c, p) /\ Is(c, "create", 4, 7) => Between(c, p) /\ ~Writes(c, p)
BY DEF Between, Busy, Writes, Is

LEMMA NotBusyStage ==
  ASSUME NEW n, NEW p, ~Busy(call'[n], p)
  PROVE  FileStage(n, p)'
BY DEF FileStage, Busy, Is

LEMMA SteadyKeeps ==
  ASSUME Typed, NEW p \in Files, FileRight(p), faults \subseteq faults', Steady(p)
  PROVE  FileRight(p)'
<1>1. /\ where'[p] = where[p] /\ latest'[p] = latest[p]
      /\ \A m \in Nodes : FileStage(m, p) /\ WriterRight(m, p)
      /\ CopiesRight(p) /\ OwnerRight(p) /\ LatestRight(p)
      /\ where[p] \in Nodes \union {NoNode}
  BY DEF Steady, FileRight, Typed, TypeOK
<1>2. ASSUME NEW m \in Nodes
      PROVE  /\ Busy(call'[m], p) <=> Busy(call[m], p)
             /\ Between(call'[m], p) <=> Between(call[m], p)
             /\ Writes(call'[m], p) <=> Writes(call[m], p)
             /\ Of(call'[m], p) /\ Is(call'[m], "create", 4, 7)
                  <=> Of(call[m], p) /\ Is(call[m], "create", 4, 7)
  <2>1. Same(call[m], call'[m], p)
    BY DEF Steady
  <2>2. CASE call'[m] = call[m]
    BY <2>2
  <2>3. CASE ~Busy(call[m], p) /\ ~Busy(call'[m], p)
    BY <2>3, BusyIs
  <2>4. CASE /\ Of(call[m], p) /\ Of(call'[m], p)
             /\ Is(call[m], "create", 4, 7) /\ Is(call'[m], "create", 4, 7)
    BY <2>4, BusyIs
  <2>5. QED
    BY <2>1, <2>2, <2>3, <2>4 DEF Same
<1>3. ASSUME NEW m \in Nodes
      PROVE  /\ Opened(handle'[m], p) <=> Opened(handle[m], p)
             /\ Opened(handle'[m], p) => handle'[m] = handle[m]
             /\ Busy(call[m], p) \/ Opened(handle[m], p) \/ where[p] = m => copy'[m][p] = copy[m][p]
             /\ copy'[m][p] # 0 => copy'[m][p] = copy[m][p]
  BY DEF Steady
<1>4. ASSUME NEW m \in Nodes
      PROVE  FileStage(m, p)'
  <2>1. FileStage(m, p) /\ Same(call[m], call'[m], p)
    BY <1>1 DEF Steady
  <2>2. CASE call'[m] = call[m]
    <3>1. CASE Busy(call[m], p)
      BY <1>1, <1>3, <2>1, <2>2, <3>1 DEF FileStage
    <3>2. QED
      BY <2>2, <3>1, NotBusyStage
  <2>3. CASE ~Busy(call'[m], p)
    BY <2>3, NotBusyStage
  <2>4. CASE /\ Of(call[m], p) /\ Of(call'[m], p)
             /\ Is(call[m], "create", 4, 7) /\ Is(call'[m], "create", 4, 7)
    <3>1. where'[p] = NoNode
      BY <1>1, <2>1, <2>4 DEF FileStage, Is
    <3>2. QED
      BY <2>4, <3>1 DEF FileStage, Is
  <2>5. QED
    BY <2>1, <2>2, <2>3, <2>4 DEF Same
<1>5. ASSUME NEW m \in Nodes
      PROVE  WriterRight(m, p)'
  <2>1. SUFFICES ASSUME Opened(handle'[m], p)
                 PROVE  /\ handle'[m].linked /\ copy'[m][p] # 0
                        /\ where'[p] # NoNode \/ (Of(call'[m], p) /\ Is(call'[m], "create", 4, 7))
    BY DEF WriterRight
  <2>2. handle'[m] = handle[m] /\ Opened(handle[m], p) /\ copy'[m][p] = copy[m][p]
    BY <1>3, <2>1
  <2>3. QED
    BY <1>1, <1>2, <2>2 DEF WriterRight
<1>6. CopiesRight(p)'
  BY <1>1, <1>2, <1>3 DEF CopiesRight
<1>7. OwnerRight(p)'
  <2>1. SUFFICES ASSUME where'[p] # NoNode
                 PROVE  copy'[where'[p]][p] # 0
    BY DEF OwnerRight
  <2>2. copy[where[p]][p] # 0
    BY <1>1, <2>1 DEF OwnerRight
  <2>3. QED
    BY <1>1, <1>3, <2>1, <2>2
<1>8. LatestRight(p)'
  <2>1. SUFFICES ASSUME ~Upset(p, Kinds)'
                 PROVE  /\ \A n \in Nodes : Writer(n, p)' => copy'[n][p] = latest'[p]
                        /\ where'[p] # NoNode /\ (\A n \in Nodes : ~Writer(n, p)') =>
                             copy'[where'[p]][p] = latest'[p]
    BY DEF LatestRight
  <2>2. ~Upset(p, Kinds)
    BY <2>1, UpsetStays
  <2>3. \A m \in Nodes : /\ Writer(m, p)' <=> Writer(m, p)
                         /\ Writer(m, p) => copy'[m][p] = copy[m][p]
    BY <1>2, <1>3, BusyIs DEF Writer
  <2>4. \A n \in Nodes : Writer(n, p)' => copy'[n][p] = latest'[p]
    BY <1>1, <2>2, <2>3 DEF LatestRight
  <2>5. ASSUME where'[p] # NoNode, \A n \in Nodes : ~Writer(n, p)'
        PROVE  copy'[where'[p]][p] = latest'[p]
    <3>1. copy[where[p]][p] = latest[p]
      BY <1>1, <2>2, <2>3, <2>5 DEF LatestRight
    <3>2. QED
      BY <1>1, <1>3, <2>5, <3>1
  <2>6. QED
    BY <2>4, <2>5
<1>9. QED
  BY <1>4, <1>5, <1>6, <1>7, <1>8 DEF FileRight

-----------------------------------------------------------------------------
(***************************************************************************)
(* A step of the only node that changes a file.                            *)
(***************************************************************************)
LEMMA SoleKeeps ==
  ASSUME NEW p, NEW n \in Nodes,
         \A m \in Nodes \ {n} : ~Busy(call'[m], p) /\ ~Opened(handle'[m], p),
         FileStage(n, p)', WriterRight(n, p)', OwnerRight(p)',
         (\E m \in Nodes : copy'[m][p] # 0) => where'[p] # NoNode \/ Between(call'[n], p),
         ~Upset(p, Kinds)' =>
           /\ Writer(n, p)' => copy'[n][p] = latest'[p]
           /\ where'[p] # NoNode /\ ~Writer(n, p)' => copy'[where'[p]][p] = latest'[p]
  PROVE  FileRight(p)'
<1>1. \A m \in Nodes : FileStage(m, p)'
  BY NotBusyStage
<1>2. \A m \in Nodes : WriterRight(m, p)'
  BY DEF WriterRight
<1>3. \A m \in Nodes \ {n} : ~Writer(m, p)'
  BY BusyIs DEF Writer
<1>4. LatestRight(p)'
  BY <1>3 DEF LatestRight
<1>5. CopiesRight(p)'
  BY DEF CopiesRight
<1>6. QED
  BY <1>1, <1>2, <1>4, <1>5 DEF FileRight

LEMMA OthersIdle ==
  ASSUME Overlaps, NEW p \in Files, Clear(p), NEW n \in Nodes, p \in Touched(n),
         \A m \in Nodes \ {n} : /\ call'[m] = call[m]
                                /\ handle'[m].file = handle[m].file /\ handle'[m].writes = handle[m].writes
  PROVE  \A m \in Nodes \ {n} : /\ ~Busy(call[m], p) /\ ~Opened(handle[m], p) /\ ~Writer(m, p)
                                /\ ~Busy(call'[m], p) /\ ~Opened(handle'[m], p)
<1>1. \A m \in Nodes \ {n} : ~Busy(call[m], p) /\ ~Opened(handle[m], p)
  BY Alone
<1>2. QED
  BY <1>1, BusyIs DEF Writer, Opened

\* Steps of calls that p is nothing to.
LEMMA SameElsewhere ==
  ASSUME NEW n \in Nodes, call[n] # NoCall, Ends(n) \/ Goes(n), NEW p, ~Of(call[n], p)
  PROVE  \A m \in Nodes : Same(call[m], call'[m], p)
<1>1. \A m \in Nodes \ {n} : call'[m] = call[m]
  BY DEF Ends, Goes, Apart
<1>2. ~Busy(call[n], p) /\ ~Busy(call'[n], p)
  BY DEF Busy, Of, Ends, Goes
<1>3. QED
  BY <1>1, <1>2 DEF Same

LEMMA SameIdle ==
  ASSUME NEW n \in Nodes, Ends(n) \/ Goes(n), NEW p,
         \/ call[n].do \notin {"create", "write", "close", "unlink"}
         \/ call[n].do = "unlink" /\ call[n].at \in 1..6
         \/ Ends(n) /\ call[n].do \in {"create", "write"} /\ call[n].at = 1
  PROVE  \A m \in Nodes : Same(call[m], call'[m], p)
<1>1. \A m \in Nodes \ {n} : call'[m] = call[m]
  BY DEF Ends, Goes, Apart
<1>2. ~Busy(call[n], p) /\ ~Busy(call'[n], p)
  BY DEF Busy, Of, Ends, Goes, Is
<1>3. QED
  BY <1>1, <1>2 DEF Same

LEMMA ClosedIsNot ==
  ASSUME NEW h, h = Closed, NEW p
  PROVE  ~Opened(h, p)
BY DEF Closed, Opened

LEMMA LookupFile ==
  ASSUME Typed, Overlaps, Stages, NEW n \in Nodes, Lookup(n),
         NEW p \in Files, Clear(p)', FileRight(p)
  PROVE  FileRight(p)'
<1> DEFINE c == call[n]
<1>1. /\ c.path \in Files /\ CallRight(c) /\ c # NoCall
      /\ (c.do \in FileCalls /\ c.at = 1) \/ Is(c, "unlink", 6, 6) \/ Is(c, "close", 3, 3)
      /\ Goes(n) /\ call'[n].addr = where[c.path]
      /\ UNCHANGED <<where, copy, handle, latest, faults>>
  BY LookupIs, AtIs DEF Lookup
<1>2. CASE ~Of(c, p) \/ c.do \notin {"create", "write", "close"}
  <2>1. \A m \in Nodes : Same(call[m], call'[m], p)
    BY <1>1, <1>2, SameElsewhere, SameIdle DEF Is, FileCalls
  <2>2. Steady(p)
    BY <1>1, <2>1 DEF Steady
  <2>3. QED
    BY <1>1, <2>2, SteadyKeeps
<1>3. CASE Of(c, p) /\ c.do \in {"create", "write", "close"}
  <2>1. p \in Touched(n) /\ Clear(p) /\ c.path = p
    BY <1>1, <1>3, Touching, UpsetStays DEF Listers, Of
  <2>2. \A m \in Nodes \ {n} : /\ ~Busy(call[m], p) /\ ~Opened(handle[m], p) /\ ~Writer(m, p)
                               /\ ~Busy(call'[m], p) /\ ~Opened(handle'[m], p)
    BY <1>1, <2>1, OthersIdle DEF Goes, Apart
  <2>3. /\ call'[n] # NoCall /\ call'[n].path = p /\ call'[n].do = c.do /\ call'[n].at = c.at + 1
        /\ call'[n].addr = where[p] /\ c.at \in Nat
    BY <1>1, <2>1, Spans DEF Goes
  <2>4. handle[n] = Closed
    BY <1>1, <1>3 DEF Stages, HandleStage, Is
  <2>5. ~Opened(handle[n], p) /\ ~Opened(handle'[n], p)
    BY <1>1, <2>4, ClosedIsNot
  <2>6. /\ FileStage(n, p) /\ CopiesRight(p) /\ OwnerRight(p) /\ LatestRight(p)
    BY DEF FileRight
  <2>7. FileStage(n, p)'
    BY <1>1, <1>3, <2>3, <2>6 DEF FileStage, Is, Of
  <2>8. WriterRight(n, p)'
    BY <2>5 DEF WriterRight
  <2>9. OwnerRight(p)'
    BY <1>1, <2>6 DEF OwnerRight
  <2>10. (\E m \in Nodes : copy'[m][p] # 0) => where'[p] # NoNode \/ Between(call'[n], p)
    <3>1. ~Between(c, p)
      BY <1>1, <1>3 DEF Between, Is
    <3>2. \A m \in Nodes : ~Between(call[m], p)
      BY <2>2, <3>1, BusyIs
    <3>3. QED
      BY <1>1, <2>6, <3>2 DEF CopiesRight
  <2>11. Writer(n, p)' <=> Writer(n, p)
    BY <1>1, <1>3, <2>3, <2>5 DEF Writer, Writes, Is, Of
  <2>12. ASSUME ~Upset(p, Kinds)'
         PROVE  /\ Writer(n, p)' => copy'[n][p] = latest'[p]
                /\ where'[p] # NoNode /\ ~Writer(n, p)' => copy'[where'[p]][p] = latest'[p]
    BY <1>1, <2>2, <2>6, <2>11, <2>12, UpsetStays DEF LatestRight
  <2>13. QED
    BY <2>2, <2>7, <2>8, <2>9, <2>10, <2>12, SoleKeeps
<1>4. QED
  BY <1>1, <1>2, <1>3

LEMMA FetchFile ==
  ASSUME Typed, Overlaps, Stages, NEW n \in Nodes, Fetch(n),
         NEW p \in Files, Clear(p)', FileRight(p)
  PROVE  FileRight(p)'
<1> DEFINE c == call[n]
           got == NeedsCopy(n, c.path, c.addr) /\ copy[c.addr][c.path] # 0
           mine == IF got THEN copy[c.addr][c.path] ELSE copy[n][c.path]
<1>1. /\ c.path \in Files /\ c.do \in FileCalls \ {"close", "drop"} /\ c.at = 2
      /\ \/ Ends(n)
         \/ Goes(n) /\ (mine # 0) # (c.do = "create") /\ (c.do = "read" => handle[n] = Closed)
      /\ copy' \in [Nodes -> [Files -> Nat]] /\ copy'[n][c.path] = mine
      /\ \A m \in Nodes, f \in Files : m # n \/ f # c.path => copy'[m][f] = copy[m][f]
      /\ Fault("refetch", IF got /\ handle[n].writes THEN {handle[n].file} \cap {c.path} ELSE {})
      /\ UNCHANGED <<where, handle, latest>>
  BY FetchIs
<1>2. /\ CallRight(c) /\ c # NoCall /\ Clear(p) /\ faults \subseteq faults'
      /\ where[p] \in Nodes \union {NoNode} /\ NoNode \notin Nodes
      /\ AddrStage(n) /\ HandleStage(n)
  <2>1. At(n, "fetch")
    BY DEF Fetch
  <2>2. faults \subseteq faults'
    BY <1>1, FaultGrows
  <2>3. Clear(p)
    BY <2>2, UpsetStays
  <2>4. CallRight(c) /\ c # NoCall
    BY <2>1, AtIs
  <2>5. where[p] \in Nodes \union {NoNode} /\ NoNode \notin Nodes
    BY FusionFSAssumption DEF Typed, TypeOK, FusionFSAssumption
  <2>6. QED
    BY <2>2, <2>3, <2>4, <2>5 DEF Stages
<1>3. got => c.addr \in Nodes /\ c.addr # n /\ mine = copy[c.addr][c.path] /\ mine # 0
  BY DEF NeedsCopy
<1>4. ~got => mine = copy[n][c.path]
  OBVIOUS
<1>5. got \/ ~got
  OBVIOUS
<1>6. got /\ Opened(handle[n], p) /\ c.path = p => Upset(p, Kinds)'
  <2>1. SUFFICES ASSUME got, Opened(handle[n], p), c.path = p
                 PROVE  Upset(p, Kinds)'
    OBVIOUS
  <2>2. <<"refetch", p>> \in faults'
    BY <1>1, <2>1 DEF Fault, Opened
  <2>3. <<"refetch", p>> \in Kinds \X ({p} \union Above(p))
    BY DEF Kinds
  <2>4. QED
    BY <2>2, <2>3 DEF Upset, Above
<1>7. c.addr \in Nodes /\ c.addr # n /\ copy[c.addr][c.path] # 0 => got
  BY DEF NeedsCopy
<1> HIDE DEF got, mine
<1>8. CASE c.path # p
  <2>1. \A m \in Nodes : Same(call[m], call'[m], p)
    BY <1>1, <1>2, <1>8, SameElsewhere DEF Of
  <2>2. Steady(p)
    BY <1>1, <1>8, <2>1 DEF Steady
  <2>3. QED
    BY <1>2, <2>2, SteadyKeeps
<1>9. CASE c.path = p
  <2>1. \A m \in Nodes : copy[m][p] # 0 => copy'[m][p] # 0
    BY <1>1, <1>3, <1>4, <1>9
  <2>2. (\E m \in Nodes : copy'[m][p] # 0) => \E m \in Nodes : copy[m][p] # 0
    BY <1>1, <1>3, <1>4, <1>9
  <2>3. \A m \in Nodes \ {n} : call'[m] = call[m]
    BY <1>1 DEF Ends, Goes, Apart
  <2>4. /\ \A m \in Nodes : FileStage(m, p) /\ WriterRight(m, p)
        /\ CopiesRight(p) /\ OwnerRight(p) /\ LatestRight(p)
    BY DEF FileRight
  <2>5. call'[n] = NoCall \/ (call'[n] # NoCall /\ call'[n].path = p /\ call'[n].do = c.do /\ call'[n].at = 3)
    BY <1>1, <1>9 DEF Ends, Goes
  <2>6. ~Between(call[n], p) /\ ~Between(call'[n], p) /\ ~Writes(call[n], p)
    BY <1>1, <2>5 DEF Between, Writes, Is, FileCalls, Of, NoCall
  <2>7. \A m \in Nodes \ {n} : FileStage(m, p)'
    BY <1>1, <2>3, <2>4 DEF FileStage
  <2>8. FileStage(n, p)'
    <3>1. CASE call'[n] = NoCall
      BY <3>1 DEF FileStage, Of
    <3>2. CASE call'[n] # NoCall /\ c.do \notin {"create", "write"}
      BY <1>1, <2>5, <3>2 DEF FileStage, Is, FileCalls
    <3>3. ASSUME c.do \in {"create", "write"}
          PROVE  /\ \A m \in Nodes \ {n} : ~Busy(call[m], p)
                 /\ where[p] = c.addr
      <4>1. p \in Touched(n)
        BY <1>2, <1>9, <3>3, Touching DEF Of, Listers
      <4>2. \A m \in Nodes \ {n} : ~Busy(call[m], p)
        BY <1>2, <4>1, Alone
      <4>3. where[p] = c.addr
        BY <1>1, <1>2, <1>9, <2>4, <3>3 DEF FileStage, Of, Is
      <4>4. QED
        BY <4>2, <4>3
    <3>4. CASE call'[n] # NoCall /\ c.do = "create"
      <4>1. mine = 0
        BY <1>1, <3>4 DEF Ends
      <4>2. where[p] = NoNode
        BY <1>2, <1>3, <1>4, <1>5, <1>7, <1>9, <2>4, <3>3, <3>4, <4>1 DEF OwnerRight
      <4>3. QED
        BY <1>1, <2>5, <3>4, <4>2 DEF FileStage, Is, Of
    <3>5. CASE call'[n] # NoCall /\ c.do = "write"
      <4>1. mine # 0
        BY <1>1, <3>5 DEF Ends
      <4>2. \E m \in Nodes : copy[m][p] # 0
        BY <1>1, <1>9, <2>2, <4>1
      <4>3. \A m \in Nodes : ~Between(call[m], p)
        BY <2>6, <3>3, <3>5, BusyIs
      <4>4. where[p] # NoNode
        BY <2>4, <4>2, <4>3 DEF CopiesRight
      <4>5. QED
        BY <1>1, <1>9, <2>5, <3>5, <4>1, <4>4 DEF FileStage, Is, Of
    <3>6. QED
      BY <3>1, <3>2, <3>4, <3>5
  <2>9. \A m \in Nodes : WriterRight(m, p)'
    <3>1. SUFFICES ASSUME NEW m \in Nodes, Opened(handle[m], p)
                   PROVE  /\ handle[m].linked /\ copy'[m][p] # 0
                          /\ where[p] # NoNode \/ (Of(call'[m], p) /\ Is(call'[m], "create", 4, 7))
      BY <1>1 DEF WriterRight
    <3>2. /\ handle[m].linked /\ copy[m][p] # 0
          /\ where[p] # NoNode \/ (Of(call[m], p) /\ Is(call[m], "create", 4, 7))
      BY <2>4, <3>1 DEF WriterRight
    <3>3. ~(Of(call[n], p) /\ Is(call[n], "create", 4, 7))
      BY <1>1 DEF Is
    <3>4. QED
      BY <2>1, <2>3, <3>2, <3>3
  <2>10. CopiesRight(p)'
    BY <1>1, <2>2, <2>3, <2>4, <2>6 DEF CopiesRight
  <2>11. OwnerRight(p)'
    BY <1>1, <1>2, <2>1, <2>4 DEF OwnerRight
  <2>12. LatestRight(p)'
    <3>1. SUFFICES ASSUME ~Upset(p, Kinds)'
                   PROVE  /\ \A m \in Nodes : Writer(m, p)' => copy'[m][p] = latest[p]
                          /\ where[p] # NoNode /\ (\A m \in Nodes : ~Writer(m, p)') =>
                               copy'[where[p]][p] = latest[p]
      BY <1>1 DEF LatestRight
    <3>2. /\ \A m \in Nodes : Writer(m, p) => copy[m][p] = latest[p]
          /\ where[p] # NoNode /\ (\A m \in Nodes : ~Writer(m, p)) => copy[where[p]][p] = latest[p]
      BY <1>2, <2>4, <3>1, UpsetStays DEF LatestRight
    <3>3. \A m \in Nodes \ {n} : Writer(m, p)' <=> Writer(m, p)
      BY <1>1, <2>3 DEF Writer
    <3>4. Writer(n, p) <=> Opened(handle[n], p)
      BY <2>6 DEF Writer
    <3>5. Opened(handle[n], p) => copy'[n][p] = copy[n][p]
      BY <1>1, <1>4, <1>6, <1>9, <3>1
    <3>6. where[p] = n => copy'[n][p] = copy[n][p]
      BY <1>1, <1>2, <1>3, <1>4, <1>9 DEF AddrStage
    <3>7. CASE ~Writes(call'[n], p)
      <4>1. Writer(n, p)' <=> Opened(handle[n], p)
        BY <1>1, <3>7 DEF Writer
      <4>2. \A m \in Nodes : Writer(m, p)' => copy'[m][p] = latest[p]
        BY <1>1, <3>2, <3>3, <3>4, <3>5, <4>1
      <4>3. ASSUME where[p] # NoNode, \A m \in Nodes : ~Writer(m, p)'
            PROVE  copy'[where[p]][p] = latest[p]
        <5>1. copy[where[p]][p] = latest[p]
          BY <3>2, <3>3, <3>4, <4>1, <4>3
        <5>2. QED
          BY <1>1, <1>2, <3>6, <4>3, <5>1
      <4>4. QED
        BY <4>2, <4>3
    <3>8. CASE Writes(call'[n], p)
      <4>1. c.do = "write" /\ call'[n] # NoCall
        BY <1>1, <2>5, <3>8 DEF Writes, Is, Of
      <4>2. p \in Touched(n)
        BY <1>2, <1>9, <4>1, Touching DEF Of
      <4>3. \A m \in Nodes \ {n} : ~Writer(m, p)
        BY <1>2, <4>2, Alone DEF Writer
      <4>4. ~Opened(handle[n], p)
        BY <1>2, <4>1, ClosedIsNot DEF HandleStage
      <4>5. where[p] # NoNode /\ where[p] = c.addr
        BY <1>1, <1>2, <1>9, <2>4, <2>5, <2>8, <4>1 DEF FileStage, Is, Of
      <4>6. copy[where[p]][p] = latest[p] /\ copy[where[p]][p] # 0
        BY <2>4, <3>2, <3>4, <4>3, <4>4, <4>5 DEF OwnerRight
      <4>7. copy'[n][p] = latest[p]
        BY <1>1, <1>2, <1>3, <1>4, <1>5, <1>7, <1>9, <4>5, <4>6
      <4>8. Writer(n, p)'
        BY <3>8 DEF Writer
      <4>9. QED
        BY <3>3, <4>3, <4>7, <4>8
    <3>9. QED
      BY <3>7, <3>8
  <2>13. QED
    BY <2>7, <2>8, <2>9, <2>10, <2>11, <2>12 DEF FileRight
<1>10. QED
  BY <1>8, <1>9

LEMMA OpenFile ==
  ASSUME Typed, Overlaps, Stages, NEW n \in Nodes, Open(n),
         NEW p \in Files, Clear(p)', FileRight(p)
  PROVE  FileRight(p)'
<1> DEFINE c == call[n]
<1>1. /\ c.path \in Files /\ c.do \in {"read", "write"} /\ c.at = 3
      /\ Ends(n)
      /\ \A m \in Nodes \ {n} : handle'[m] = handle[m]
      /\ \/ copy[n][c.path] = 0 /\ handle' = handle
         \/ /\ copy[n][c.path] # 0
            /\ handle'[n].file = c.path /\ handle'[n].linked
            /\ handle'[n].writes <=> c.do = "write"
      /\ UNCHANGED <<where, copy, latest, faults>>
  BY OpenIs
<1>2. CallRight(c) /\ c # NoCall /\ Clear(p)
  BY <1>1, AtIs, UpsetStays DEF Open
<1>3. handle[n] = Closed /\ ~Opened(handle[n], p)
  BY <1>1, ClosedIsNot DEF Stages, HandleStage, Is
<1>4. CASE c.path # p \/ c.do = "read"
  <2>1. \A m \in Nodes : Same(call[m], call'[m], p)
    <3>1. CASE c.path # p
      BY <1>1, <1>2, <3>1, SameElsewhere DEF Of
    <3>2. CASE c.do = "read"
      BY <1>1, <3>2, SameIdle
    <3>3. QED
      BY <1>4, <3>1, <3>2
  <2>2. ~Opened(handle'[n], p)
    BY <1>1, <1>3, <1>4 DEF Opened
  <2>3. Steady(p)
    BY <1>1, <1>3, <2>1, <2>2 DEF Steady
  <2>4. QED
    BY <1>1, <2>3, SteadyKeeps
<1>5. CASE c.path = p /\ c.do = "write"
  <2>1. p \in Touched(n)
    BY <1>2, <1>5, Touching DEF Of
  <2>2. \A m \in Nodes \ {n} : /\ ~Busy(call[m], p) /\ ~Opened(handle[m], p) /\ ~Writer(m, p)
                               /\ ~Busy(call'[m], p) /\ ~Opened(handle'[m], p)
    BY <1>1, <1>2, <2>1, OthersIdle DEF Ends, Apart
  <2>3. FileStage(n, p) /\ OwnerRight(p) /\ LatestRight(p)
    BY DEF FileRight
  <2>4. where[p] # NoNode /\ copy[n][p] # 0
    BY <1>1, <1>2, <1>5, <2>3 DEF FileStage, Of, Is
  <2>5. handle'[n].linked /\ Opened(handle'[n], p)
    BY <1>1, <1>5, <2>4 DEF Opened
  <2>6. call'[n] = NoCall
    BY <1>1 DEF Ends
  <2>7. FileStage(n, p)' /\ WriterRight(n, p)' /\ OwnerRight(p)'
    BY <1>1, <2>3, <2>4, <2>5, <2>6 DEF FileStage, WriterRight, OwnerRight, Of
  <2>8. Writer(n, p) /\ Writer(n, p)'
    BY <1>1, <1>2, <1>5, <2>5 DEF Writer, Writes, Of, Is
  <2>9. ASSUME ~Upset(p, Kinds)'
        PROVE  copy'[n][p] = latest'[p]
    BY <1>1, <2>3, <2>8, <2>9, UpsetStays DEF LatestRight
  <2>10. QED
    BY <1>1, <2>2, <2>4, <2>7, <2>8, <2>9, SoleKeeps
<1>6. QED
  BY <1>1, <1>4, <1>5

LEMMA CreatFile ==
  ASSUME Typed, Overlaps, Stages, NEW n \in Nodes, Creat(n),
         NEW p \in Files, Clear(p)', FileRight(p)
  PROVE  FileRight(p)'
<1> DEFINE c == call[n]
<1>1. /\ c.path \in Files /\ Is(c, "create", 3, 3) /\ Goes(n)
      /\ latest'[c.path] = latest[c.path] + 1 /\ \A g \in Files \ {c.path} : latest'[g] = latest[g]
      /\ copy'[n][c.path] = latest[c.path] + 1
      /\ \A m \in Nodes, g \in Files : m # n \/ g # c.path => copy'[m][g] = copy[m][g]
      /\ handle'[n].file = c.path /\ handle'[n].writes /\ handle'[n].linked
      /\ \A m \in Nodes \ {n} : handle'[m] = handle[m]
      /\ UNCHANGED <<where, faults>>
  BY CreatIs
<1>2. CallRight(c) /\ c # NoCall /\ Clear(p) /\ c.do = "create" /\ c.at = 3
  BY <1>1, AtIs, UpsetStays, Spans DEF Creat, Is
<1>3. handle[n] = Closed /\ ~Opened(handle[n], p)
  BY <1>1, <1>2, ClosedIsNot DEF Stages, HandleStage, Is
<1>4. CASE c.path # p
  <2>1. \A m \in Nodes : Same(call[m], call'[m], p)
    BY <1>1, <1>2, <1>4, SameElsewhere DEF Of
  <2>2. ~Opened(handle'[n], p)
    BY <1>1, <1>4 DEF Opened
  <2>3. Steady(p)
    BY <1>1, <1>3, <1>4, <2>1, <2>2 DEF Steady
  <2>4. QED
    BY <1>1, <2>3, SteadyKeeps
<1>5. CASE c.path = p
  <2>1. p \in Touched(n)
    BY <1>2, <1>5, Touching DEF Of, Listers
  <2>2. \A m \in Nodes \ {n} : /\ ~Busy(call[m], p) /\ ~Opened(handle[m], p) /\ ~Writer(m, p)
                               /\ ~Busy(call'[m], p) /\ ~Opened(handle'[m], p)
    BY <1>1, <1>2, <2>1, OthersIdle DEF Goes, Apart
  <2>3. where[p] = NoNode
    BY <1>2, <1>5 DEF FileRight, FileStage, Of, Is
  <2>4. copy'[n][p] # 0 /\ copy'[n][p] = latest'[p]
    BY <1>1, <1>5 DEF Typed, TypeOK
  <2>5. call'[n] # NoCall /\ call'[n].path = p /\ call'[n].do = "create" /\ call'[n].at = 4
    BY <1>1, <1>2, <1>5 DEF Goes
  <2>6. FileStage(n, p)' /\ OwnerRight(p)' /\ Between(call'[n], p)
    BY <1>1, <2>3, <2>5 DEF FileStage, OwnerRight, Between, Of, Is
  <2>7. WriterRight(n, p)'
    BY <1>1, <2>4, <2>5 DEF WriterRight, Of, Is
  <2>8. QED
    BY <1>1, <2>2, <2>3, <2>4, <2>6, <2>7, SoleKeeps
<1>6. QED
  BY <1>4, <1>5

LEMMA RenameCopyFile ==
  ASSUME Typed, Overlaps, Stages, NEW n \in Nodes, RenameCopy(n),
         NEW p \in Files, Clear(p)', FileRight(p)
  PROVE  FileRight(p)'
<1> DEFINE c == call[n]
<1>1. /\ Is(c, "rename", 3, 3) /\ Ends(n)
      /\ \A m \in Nodes, f \in Files : m # n \/ f \notin {c.path, c.to} => copy'[m][f] = copy[m][f]
      /\ Fault("rename", {c.path, c.to})
      /\ UNCHANGED <<where, handle, latest>>
  BY RenameCopyIs
<1>2. p \notin {c.path, c.to}
  BY <1>1, Spared DEF Kinds
<1>3. \A m \in Nodes : Same(call[m], call'[m], p)
  BY <1>1, SameIdle DEF Is
<1>4. Steady(p)
  BY <1>1, <1>2, <1>3 DEF Steady
<1>5. QED
  BY <1>1, <1>4, SteadyKeeps, FaultGrows

\* n, which is not the owner of p, does not have it open and is at no call on it that
\* matters, loses its copy.
LEMMA LosesSteady ==
  ASSUME Typed, NEW n \in Nodes, NEW fs, Loses(n, fs), NEW p \in Files,
         \A m \in Nodes : Same(call[m], call'[m], p),
         where' = where, latest' = latest,
         p \in fs => where[p] # n /\ ~Opened(handle[n], p) /\ ~Busy(call[n], p)
  PROVE  Steady(p)
<1>1. /\ \A m \in Nodes \ {n} : copy'[m] = copy[m] /\ handle'[m] = handle[m]
      /\ \A f \in Files : copy'[n][f] = IF f \in fs THEN 0 ELSE copy[n][f]
      /\ handle'[n].file = handle[n].file /\ handle'[n].writes = handle[n].writes
      /\ handle[n].file \notin fs => handle'[n] = handle[n]
  BY CopyType
<1>2. handle'[n] = handle[n] \/ (~Opened(handle[n], p) /\ ~Opened(handle'[n], p))
  BY <1>1 DEF Opened
<1>3. QED
  BY <1>1, <1>2 DEF Steady

LEMMA SettleFile ==
  ASSUME Typed, Overlaps, Stages, NEW n \in Nodes, Settle(n),
         NEW p \in Files, Clear(p)', FileRight(p)
  PROVE  FileRight(p)'
<1> DEFINE c == call[n]
<1>1. /\ c.path \in Files /\ c.do \in {"close", "drop"} /\ c.at = 2
      /\ \/ Goes(n) /\ c.do = "close" /\ c.addr # n
         \/ Ends(n) /\ (c.do = "close" => c.addr = n)
      /\ \/ c.do = "drop" /\ c.addr # n /\ Loses(n, {c.path})
         \/ UNCHANGED <<copy, handle>>
      /\ UNCHANGED <<where, latest, faults>>
  BY SettleIs
<1>2. CallRight(c) /\ c # NoCall /\ Clear(p)
  BY <1>1, AtIs, UpsetStays DEF Settle
<1>3. handle[n] = Closed /\ ~Opened(handle[n], p)
  BY <1>1, ClosedIsNot DEF Stages, HandleStage
<1>4. CASE c.path # p \/ c.do = "drop"
  <2>1. \A m \in Nodes : Same(call[m], call'[m], p)
    <3>1. CASE c.path # p
      BY <1>1, <1>2, <3>1, SameElsewhere DEF Of
    <3>2. CASE c.do = "drop"
      BY <1>1, <3>2, SameIdle
    <3>3. QED
      BY <1>4, <3>1, <3>2
  <2>2. CASE c.do = "drop" /\ c.addr # n /\ Loses(n, {c.path})
    <3>1. p \in {c.path} => where[p] # n /\ ~Busy(call[n], p)
      BY <1>1, <1>2, <2>2 DEF Stages, AddrStage, Busy, Is
    <3>2. Steady(p)
      BY <1>1, <1>3, <2>1, <2>2, <3>1, LosesSteady
    <3>3. QED
      BY <1>1, <3>2, SteadyKeeps
  <2>3. CASE UNCHANGED <<copy, handle>>
    <3>1. Steady(p)
      BY <1>1, <2>1, <2>3 DEF Steady
    <3>2. QED
      BY <1>1, <3>1, SteadyKeeps
  <2>4. QED
    BY <1>1, <2>2, <2>3
<1>5. CASE c.path = p /\ c.do = "close"
  <2>1. p \in Touched(n)
    BY <1>2, <1>5, Touching DEF Of
  <2>2. UNCHANGED <<copy, handle>>
    BY <1>1, <1>5
  <2>3. \A m \in Nodes \ {n} : /\ ~Busy(call[m], p) /\ ~Opened(handle[m], p) /\ ~Writer(m, p)
                               /\ ~Busy(call'[m], p) /\ ~Opened(handle'[m], p)
    BY <1>1, <1>2, <2>1, <2>2, OthersIdle DEF Ends, Goes, Apart
  <2>4. FileStage(n, p) /\ OwnerRight(p) /\ LatestRight(p)
    BY DEF FileRight
  <2>5. where[p] # NoNode /\ copy[n][p] # 0 /\ c.addr = where[p]
    BY <1>1, <1>2, <1>5, <2>4 DEF FileStage, Of, Is
  <2>6. ~Opened(handle'[n], p)
    BY <1>3, <2>2
  <2>7. WriterRight(n, p)' /\ OwnerRight(p)' /\ where'[p] # NoNode
    BY <1>1, <2>2, <2>4, <2>5, <2>6 DEF WriterRight, OwnerRight
  <2>8. \/ call'[n] = NoCall /\ where[p] = n
        \/ /\ call'[n] # NoCall /\ call'[n].path = p /\ call'[n].do = "close" /\ call'[n].at = 3
           /\ where[p] # n
    BY <1>1, <1>5, <2>5 DEF Goes, Ends
  <2>9. FileStage(n, p)'
    BY <1>1, <2>2, <2>5, <2>8 DEF FileStage, Is, Of
  <2>10. Writer(n, p) /\ (call'[n] # NoCall => Writer(n, p)')
    BY <1>1, <1>2, <1>5, <2>8 DEF Writer, Writes, Of, Is
  <2>11. ASSUME ~Upset(p, Kinds)'
         PROVE  copy'[n][p] = latest'[p]
    BY <1>1, <2>2, <2>4, <2>10, <2>11, UpsetStays DEF LatestRight
  <2>12. QED
    BY <1>1, <2>3, <2>7, <2>8, <2>9, <2>10, <2>11, SoleKeeps
<1>6. QED
  BY <1>1, <1>4, <1>5

LEMMA RemoveKeyFile ==
  ASSUME Typed, Overlaps, Stages, NEW n \in Nodes, RemoveKey(n),
         NEW p \in Files, Clear(p)', FileRight(p)
  PROVE  FileRight(p)'
<1> DEFINE c == call[n]
<1>1. /\ \/ /\ c.path \in Files /\ (Is(c, "unlink", 7, 7) \/ Is(c, "close", 4, 4))
            /\ Goes(n) /\ Keeping(n)
            /\ where'[c.path] = NoNode /\ \A f \in Files \ {c.path} : where'[f] = where[f]
         \/ /\ c.path \in Dirs /\ Is(c, "rmdir", 5, 5) /\ Ends(n) /\ where' = where
      /\ faults \subseteq faults' /\ UNCHANGED <<copy, handle, latest>>
  BY RemoveKeyIs, FaultGrows
<1>2. CallRight(c) /\ c # NoCall /\ Clear(p) /\ HandleStage(n) /\ p \notin Dirs
  BY <1>1, AtIs, UpsetStays, FusionFSAssumption DEF RemoveKey, Stages, FusionFSAssumption
<1>3. CASE c.path # p
  <2>1. \A m \in Nodes : Same(call[m], call'[m], p)
    BY <1>1, <1>2, <1>3, SameElsewhere DEF Of
  <2>2. Steady(p)
    BY <1>1, <1>3, <2>1 DEF Steady
  <2>3. QED
    BY <1>1, <2>2, SteadyKeeps
<1>4. CASE c.path = p
  <2>1. /\ (c.do = "unlink" /\ c.at = 7) \/ (c.do = "close" /\ c.at = 4)
        /\ where'[p] = NoNode
        /\ call'[n] # NoCall /\ call'[n].path = p /\ call'[n].do = c.do /\ call'[n].at = c.at + 1
        /\ call'[n].addr = c.addr
    BY <1>1, <1>2, <1>4, Spans DEF Goes, Keeping, Is
  <2>2. p \in Touched(n)
    BY <1>2, <1>4, <2>1, Touching DEF Of, Listers
  <2>3. \A m \in Nodes \ {n} : /\ ~Busy(call[m], p) /\ ~Opened(handle[m], p) /\ ~Writer(m, p)
                               /\ ~Busy(call'[m], p) /\ ~Opened(handle'[m], p)
    BY <1>1, <1>2, <2>2, OthersIdle DEF Ends, Goes, Apart
  <2>4. ~Opened(handle[n], p)
    BY <1>2, <1>4, <2>1, ClosedIsNot DEF HandleStage, Opened
  <2>5. FileStage(n, p) /\ LatestRight(p)
    BY DEF FileRight
  <2>6. FileStage(n, p)'
    BY <1>1, <1>2, <1>4, <2>1, <2>5 DEF FileStage, Of, Is
  <2>7. WriterRight(n, p)' /\ OwnerRight(p)' /\ Between(call'[n], p)
    BY <1>1, <2>1, <2>4 DEF WriterRight, OwnerRight, Between, Of, Is
  <2>8. Writer(n, p)' => Writer(n, p)
    BY <1>1, <1>2, <1>4, <2>1, <2>4 DEF Writer, Writes, Of, Is
  <2>9. ASSUME ~Upset(p, Kinds)'
        PROVE  Writer(n, p)' => copy'[n][p] = latest'[p]
    BY <1>1, <2>5, <2>8, <2>9, UpsetStays DEF LatestRight
  <2>10. QED
    BY <2>1, <2>3, <2>6, <2>7, <2>9, SoleKeeps
<1>5. QED
  BY <1>3, <1>4

LEMMA InsertKeyFile ==
  ASSUME Typed, Overlaps, Stages, NEW n \in Nodes, InsertKey(n),
         NEW p \in Files, Clear(p)', FileRight(p)
  PROVE  FileRight(p)'
<1> DEFINE c == call[n]
<1>1. /\ c.path \in Files
      /\ (Is(c, "create", 7, 7) /\ Ends(n)) \/ (Is(c, "close", 5, 5) /\ Goes(n) /\ Keeping(n))
      /\ where'[c.path] = n /\ \A f \in Files \ {c.path} : where'[f] = where[f]
      /\ UNCHANGED <<copy, handle, latest, faults>>
  BY InsertKeyIs
<1>2. /\ CallRight(c) /\ c # NoCall /\ Clear(p) /\ HandleStage(n) /\ n # NoNode
  BY <1>1, AtIs, UpsetStays, FusionFSAssumption DEF InsertKey, Stages, FusionFSAssumption
<1>3. CASE c.path # p
  <2>1. \A m \in Nodes : Same(call[m], call'[m], p)
    BY <1>1, <1>2, <1>3, SameElsewhere DEF Of
  <2>2. Steady(p)
    BY <1>1, <1>3, <2>1 DEF Steady
  <2>3. QED
    BY <1>1, <2>2, SteadyKeeps
<1>4. CASE c.path = p
  <2>1. /\ where'[p] = n
        /\ \/ c.do = "create" /\ c.at = 7 /\ call'[n] = NoCall
           \/ /\ c.do = "close" /\ c.at = 5
              /\ call'[n] # NoCall /\ call'[n].path = p /\ call'[n].do = "close" /\ call'[n].at = 6
              /\ call'[n].addr = c.addr
    BY <1>1, <1>2, <1>4, Spans DEF Ends, Goes, Keeping, Is
  <2>2. p \in Touched(n)
    BY <1>2, <1>4, <2>1, Touching DEF Of, Listers
  <2>3. \A m \in Nodes \ {n} : /\ ~Busy(call[m], p) /\ ~Opened(handle[m], p) /\ ~Writer(m, p)
                               /\ ~Busy(call'[m], p) /\ ~Opened(handle'[m], p)
    BY <1>1, <1>2, <2>2, OthersIdle DEF Ends, Goes, Apart
  <2>4. FileStage(n, p) /\ WriterRight(n, p) /\ LatestRight(p)
    BY DEF FileRight
  <2>5. Writer(n, p) /\ copy[n][p] # 0
    <3>1. CASE c.do = "create"
      BY <1>2, <1>4, <2>1, <2>4, <3>1 DEF HandleStage, Is, Opened, WriterRight, Writer
    <3>2. CASE c.do = "close"
      BY <1>2, <1>4, <2>1, <2>4, <3>2 DEF FileStage, Is, Of, Writer, Writes
    <3>3. QED
      BY <2>1, <3>1, <3>2
  <2>6. FileStage(n, p)'
    BY <1>2, <1>4, <2>1, <2>4 DEF FileStage, Is, Of
  <2>7. OwnerRight(p)' /\ where'[p] # NoNode
    BY <1>1, <1>2, <2>1, <2>5 DEF OwnerRight
  <2>8. WriterRight(n, p)'
    BY <1>1, <2>4, <2>7 DEF WriterRight
  <2>9. ASSUME ~Upset(p, Kinds)'
        PROVE  copy'[n][p] = latest'[p]
    BY <1>1, <2>4, <2>5, <2>9, UpsetStays DEF LatestRight
  <2>10. QED
    BY <2>1, <2>3, <2>6, <2>7, <2>8, <2>9, SoleKeeps
<1>5. QED
  BY <1>3, <1>4

LEMMA RemoveCopyFile ==
  ASSUME Typed, Overlaps, Stages, NEW n \in Nodes, RemoveCopy(n),
         NEW p \in Files, Clear(p)', FileRight(p)
  PROVE  FileRight(p)'
<1> DEFINE c == call[n]
           left == {m \in Nodes \ {c.addr} : copy[m][c.path] # 0}
<1>1. /\ c.path \in Files /\ (Is(c, "unlink", 8, 8) \/ Is(c, "close", 6, 6))
      /\ Ends(n)
      /\ \/ c.addr \in Nodes /\ Loses(c.addr, {c.path})
         \/ c.addr \notin Nodes /\ UNCHANGED <<copy, handle>>
      /\ Fault("leftover", IF c.do = "unlink" /\ left # {} THEN {c.path} ELSE {})
      /\ UNCHANGED <<where, latest>>
  BY RemoveCopyIs
<1>2. faults \subseteq faults'
  BY <1>1, FaultGrows
<1>3. CallRight(c) /\ c # NoCall /\ Clear(p) /\ HandleStage(n)
  BY <1>2, AtIs, UpsetStays DEF RemoveCopy, Stages
<1>4. /\ \A m \in Nodes : /\ handle'[m].file = handle[m].file /\ handle'[m].writes = handle[m].writes
                          /\ handle[m].file # c.path => handle'[m] = handle[m]
      /\ \A m \in Nodes, f \in Files : m # c.addr \/ f # c.path => copy'[m][f] = copy[m][f]
      /\ c.addr \in Nodes => copy'[c.addr][c.path] = 0
  <2>1. CASE c.addr \in Nodes /\ Loses(c.addr, {c.path})
    <3>1. PICK a \in Nodes : a = c.addr
      BY <2>1
    <3>2. /\ \A m \in Nodes \ {a} : copy'[m] = copy[m] /\ handle'[m] = handle[m]
          /\ \A f \in Files : copy'[a][f] = IF f \in {c.path} THEN 0 ELSE copy[a][f]
          /\ handle'[a].file = handle[a].file /\ handle'[a].writes = handle[a].writes
          /\ handle[a].file \notin {c.path} => handle'[a] = handle[a]
      BY <2>1, <3>1, CopyType
    <3>3. QED
      BY <1>1, <3>1, <3>2
  <2>2. CASE c.addr \notin Nodes /\ UNCHANGED <<copy, handle>>
    BY <2>2
  <2>3. QED
    BY <1>1, <2>1, <2>2
<1>5. CASE c.path # p
  <2>1. \A m \in Nodes : Same(call[m], call'[m], p)
    BY <1>1, <1>3, <1>5, SameElsewhere DEF Of
  <2>2. \A m \in Nodes : handle'[m] = handle[m] \/ (~Opened(handle[m], p) /\ ~Opened(handle'[m], p))
    BY <1>4, <1>5 DEF Opened
  <2>3. Steady(p)
    BY <1>1, <1>4, <1>5, <2>1, <2>2 DEF Steady
  <2>4. QED
    BY <1>2, <2>3, SteadyKeeps
<1>6. CASE c.path = p
  <2>1. /\ (c.do = "unlink" /\ c.at = 8) \/ (c.do = "close" /\ c.at = 6)
        /\ call'[n] = NoCall
    BY <1>1, <1>3, Spans DEF Ends, Is
  <2>2. p \in Touched(n)
    BY <1>3, <1>6, <2>1, Touching DEF Of, Listers
  <2>3. \A m \in Nodes \ {n} : /\ ~Busy(call[m], p) /\ ~Opened(handle[m], p) /\ ~Writer(m, p)
                               /\ ~Busy(call'[m], p) /\ ~Opened(handle'[m], p)
    BY <1>1, <1>3, <1>4, <2>2, OthersIdle DEF Ends, Apart
  <2>4. ~Opened(handle[n], p) /\ ~Opened(handle'[n], p)
    <3>1. ~Opened(handle[n], p)
      BY <1>3, <1>6, <2>1, ClosedIsNot DEF HandleStage, Opened
    <3>2. QED
      BY <1>4, <3>1 DEF Opened
  <2>5. FileStage(n, p) /\ OwnerRight(p) /\ LatestRight(p)
    BY DEF FileRight
  <2>6. FileStage(n, p)' /\ WriterRight(n, p)' /\ ~Writer(n, p) /\ ~Writer(n, p)'
    BY <1>3, <1>6, <2>1, <2>4 DEF FileStage, WriterRight, Writer, Writes, Of, Is
  <2>7. CASE c.do = "unlink"
    <3>1. where'[p] = NoNode
      BY <1>1, <1>3, <1>6, <2>1, <2>5, <2>7 DEF FileStage, Of, Is
    <3>2. left = {}
      <4>1. SUFFICES ASSUME left # {}
                     PROVE  FALSE
        OBVIOUS
      <4>2. Fault("leftover", {p})
        BY <1>1, <1>6, <2>7, <4>1
      <4>3. QED
        BY <4>2, Spared DEF Kinds
    <3>3. \A m \in Nodes : copy'[m][p] = 0
      BY <1>4, <1>6, <3>2
    <3>4. OwnerRight(p)'
      BY <3>1 DEF OwnerRight
    <3>5. QED
      BY <2>3, <2>6, <3>1, <3>3, <3>4, SoleKeeps
  <2>8. CASE c.do = "close"
    <3>1. where[p] = n /\ c.addr # n /\ n # NoNode
      BY <1>3, <1>6, <2>1, <2>5, <2>8, FusionFSAssumption DEF FileStage, Of, Is, FusionFSAssumption
    <3>2. copy'[n][p] = copy[n][p] /\ copy[n][p] # 0
      BY <1>4, <2>5, <3>1 DEF OwnerRight
    <3>3. OwnerRight(p)' /\ where'[p] = n /\ where'[p] # NoNode
      BY <1>1, <3>1, <3>2 DEF OwnerRight
    <3>4. ASSUME ~Upset(p, Kinds)'
          PROVE  copy'[where'[p]][p] = latest'[p]
      <4>1. copy[where[p]][p] = latest[p]
        BY <1>2, <2>3, <2>5, <2>6, <3>1, <3>4, UpsetStays DEF LatestRight
      <4>2. QED
        BY <1>1, <3>1, <3>2, <3>3, <4>1
    <3>5. QED
      BY <2>3, <2>6, <3>3, <3>4, SoleKeeps
  <2>9. QED
    BY <2>1, <2>7, <2>8
<1>7. QED
  BY <1>5, <1>6

LEMMA DiedFile ==
  ASSUME Typed, NEW n \in Nodes, Died(n), NEW p \in Files, Clear(p)', FileRight(p)
  PROVE  FileRight(p)'
<1>1. /\ call'[n] = NoCall /\ \A m \in Nodes \ {n} : call'[m] = call[m]
      /\ handle'[n] = Closed /\ \A m \in Nodes \ {n} : handle'[m] = handle[m]
      /\ Fault("crash", Touched(n))
      /\ UNCHANGED <<where, copy, latest>>
  BY DEF Died, Ends, Apart
<1>2. p \notin Touched(n)
  BY <1>1, Spared DEF Kinds
<1>3. ~Busy(call[n], p) /\ ~Busy(call'[n], p) /\ ~Opened(handle[n], p) /\ ~Opened(handle'[n], p)
  BY <1>1, <1>2, Touching, ClosedIsNot DEF Busy, Of
<1>4. Steady(p)
  BY <1>1, <1>3 DEF Steady, Same
<1>5. QED
  BY <1>1, <1>4, SteadyKeeps, FaultGrows

LEMMA BegunFile ==
  ASSUME Typed, Overlaps, NEW n \in Nodes, NEW do, NEW path, Begun(n, do, path),
         NEW p \in Files, Clear(p)', FileRight(p),
         \/ handle' = handle /\ do \notin {"close", "drop"}
         \/ /\ handle' = [handle EXCEPT ![n] = Closed] /\ path = handle[n].file
            /\ do = IF handle[n].writes THEN "close" ELSE "drop"
  PROVE  FileRight(p)'
<1>1. /\ \A m \in Nodes \ {n} : call'[m] = call[m] /\ handle'[m] = handle[m]
      /\ call[n] = NoCall /\ call'[n] # NoCall
      /\ call'[n].do = do /\ call'[n].path = path /\ call'[n].at = 1
      /\ faults \subseteq faults'
      /\ UNCHANGED <<where, copy, latest>>
      /\ handle' = handle \/ handle'[n] = Closed
  BY FaultGrows DEF Begun, Typed, TypeOK
<1>2. CASE ~(do = "close" /\ path = p)
  <2>1. ~Busy(call[n], p) /\ ~Busy(call'[n], p)
    BY <1>1, <1>2 DEF Busy, Of, Is
  <2>2. handle'[n] = handle[n] \/ (~Opened(handle[n], p) /\ ~Opened(handle'[n], p))
    BY <1>1, <1>2, ClosedIsNot DEF Opened
  <2>3. Steady(p)
    BY <1>1, <2>1, <2>2 DEF Steady, Same
  <2>4. QED
    BY <1>1, <2>3, SteadyKeeps
<1>3. CASE do = "close" /\ path = p
  <2>1. Opened(handle[n], p) /\ Clear(p) /\ handle'[n] = Closed
    BY <1>1, <1>3, UpsetStays DEF Opened, Typed, TypeOK
  <2>2. p \in Touched(n)
    BY <2>1, Touching
  <2>3. \A m \in Nodes \ {n} : /\ ~Busy(call[m], p) /\ ~Opened(handle[m], p) /\ ~Writer(m, p)
                               /\ ~Busy(call'[m], p) /\ ~Opened(handle'[m], p)
    BY <1>1, <2>1, <2>2, OthersIdle
  <2>4. WriterRight(n, p) /\ OwnerRight(p) /\ LatestRight(p)
    BY DEF FileRight
  <2>5. where[p] # NoNode /\ copy[n][p] # 0
    BY <1>1, <2>1, <2>4 DEF WriterRight, Of
  <2>6. FileStage(n, p)' /\ WriterRight(n, p)' /\ OwnerRight(p)'
    BY <1>1, <1>3, <2>1, <2>4, <2>5, ClosedIsNot DEF FileStage, WriterRight, OwnerRight, Of, Is
  <2>7. Writer(n, p) /\ Writer(n, p)'
    BY <1>1, <1>3, <2>1 DEF Writer, Writes, Of, Is
  <2>8. ASSUME ~Upset(p, Kinds)'
        PROVE  copy'[n][p] = latest'[p]
    BY <1>1, <2>4, <2>7, <2>8, UpsetStays DEF LatestRight
  <2>9. QED
    BY <1>1, <2>3, <2>5, <2>6, <2>7, <2>8, SoleKeeps
<1>4. QED
  BY <1>2, <1>3

LEMMA WriteFile ==
  ASSUME Typed, Overlaps, NEW n \in Nodes, Write(n), NEW p \in Files, Clear(p)', FileRight(p)
  PROVE  FileRight(p)'
<1> DEFINE f == handle[n].file
<1>1. /\ f \in Files /\ handle[n].writes
      /\ latest'[f] = latest[f] + 1 /\ \A g \in Files \ {f} : latest'[g] = latest[g]
      /\ handle[n].linked => copy'[n][f] = latest[f] + 1
      /\ ~handle[n].linked => copy' = copy
      /\ \A m \in Nodes, g \in Files : m # n \/ g # f => copy'[m][g] = copy[m][g]
      /\ UNCHANGED <<where, handle, call, faults>>
      /\ latest \in [Files -> Nat]
  BY WriteIs DEF Typed, TypeOK
<1>2. CASE f # p
  <2>1. Steady(p)
    BY <1>1, <1>2 DEF Steady, Same
  <2>2. QED
    BY <1>1, <2>1, SteadyKeeps
<1>3. CASE f = p
  <2>1. Opened(handle[n], p) /\ Clear(p)
    BY <1>1, <1>3, UpsetStays DEF Opened
  <2>2. p \in Touched(n)
    BY <2>1, Touching
  <2>3. \A m \in Nodes \ {n} : /\ ~Busy(call[m], p) /\ ~Opened(handle[m], p) /\ ~Writer(m, p)
                               /\ ~Busy(call'[m], p) /\ ~Opened(handle'[m], p)
    BY <1>1, <2>1, <2>2, OthersIdle
  <2>4. /\ FileStage(n, p) /\ WriterRight(n, p) /\ CopiesRight(p) /\ OwnerRight(p)
    BY DEF FileRight
  <2>5. copy'[n][p] = latest'[p] /\ copy'[n][p] # 0 /\ copy[n][p] # 0 /\ handle[n].linked
    BY <1>1, <1>3, <2>1, <2>4 DEF WriterRight
  <2>6. \A m \in Nodes : copy'[m][p] # 0 <=> copy[m][p] # 0
    BY <1>1, <2>5
  <2>7. FileStage(n, p)'
    BY <1>1, <2>4, <2>6 DEF FileStage
  <2>8. WriterRight(n, p)'
    BY <1>1, <2>1, <2>4, <2>5 DEF WriterRight
  <2>9. OwnerRight(p)'
    BY <1>1, <2>4, <2>6 DEF OwnerRight, Typed, TypeOK
  <2>10. (\E m \in Nodes : copy'[m][p] # 0) => where'[p] # NoNode \/ Between(call'[n], p)
    BY <1>1, <2>3, <2>4, <2>6, BusyIs DEF CopiesRight
  <2>11. Writer(n, p)'
    BY <1>1, <2>1 DEF Writer
  <2>12. QED
    BY <2>3, <2>5, <2>7, <2>8, <2>9, <2>10, <2>11, SoleKeeps
<1>4. QED
  BY <1>2, <1>3

\* Steps on a directory, but for those that take copies.
LEMMA DirStepFile ==
  ASSUME Typed, NEW n \in Nodes, Mkdir(n) \/ Look(n) \/ RemoveList(n) \/ InsertList(n) \/ Show(n),
         NEW p \in Files, Clear(p)', FileRight(p)
  PROVE  FileRight(p)'
<1> DEFINE c == call[n]
<1>1. CallRight(c) /\ c # NoCall
  <2>1. c # NoCall
    BY DEF Mkdir, Look, RemoveList, InsertList, Show, At
  <2>2. QED
    BY <2>1, CallTyped
<1>2. CASE Mkdir(n)
  <2>1. /\ Is(c, "mkdir", 1, 1) /\ Goes(n)
        /\ faults \subseteq faults' /\ UNCHANGED <<where, copy, handle, latest>>
    BY <1>2, MkdirIs, FaultGrows
  <2>2. \A m \in Nodes : Same(call[m], call'[m], p)
    BY <2>1, SameIdle DEF Is
  <2>3. Steady(p)
    BY <2>1, <2>2 DEF Steady
  <2>4. QED
    BY <2>1, <2>3, SteadyKeeps
<1>3. ASSUME \/ Is(c, "create", 4, 6) /\ Goes(n)
             \/ c.do \in {"ls", "mkdir", "rmdir"} /\ (Goes(n) \/ Ends(n))
             \/ Is(c, "unlink", 3, 5) /\ Goes(n),
             UNCHANGED <<where, copy, handle, latest, faults>>
      PROVE  FileRight(p)'
  <2>1. c.at \in Nat
    BY <1>1, Spans
  <2>2. \A m \in Nodes : Same(call[m], call'[m], p)
    <3>1. CASE c.do \in {"ls", "mkdir", "rmdir"} \/ (Is(c, "unlink", 3, 5) /\ Goes(n))
      BY <1>3, <2>1, <3>1, SameIdle DEF Is
    <3>2. CASE Is(c, "create", 4, 6) /\ Goes(n)
      <4>1. CASE c.path # p
        BY <1>1, <3>2, <4>1, SameElsewhere DEF Of
      <4>2. CASE c.path = p
        <5>1. /\ call'[n] # NoCall /\ call'[n].path = p /\ call'[n].do = "create" /\ call'[n].at \in 4..7
              /\ \A m \in Nodes \ {n} : call'[m] = call[m]
          BY <2>1, <3>2, <4>2 DEF Goes, Apart, Is
        <5>2. QED
          BY <1>1, <3>2, <4>2, <5>1 DEF Same, Of, Is
      <4>3. QED
        BY <4>1, <4>2
    <3>3. QED
      BY <1>3, <3>1, <3>2 DEF Is
  <2>3. Steady(p)
    BY <1>3, <2>2 DEF Steady
  <2>4. QED
    BY <1>3, <2>3, SteadyKeeps
<1>4. CASE Look(n)
  <2>1. \/ /\ \/ Is(c, "ls", 1, 1) \/ Is(c, "create", 4, 4) \/ Is(c, "mkdir", 2, 2)
              \/ Is(c, "unlink", 3, 3) \/ Is(c, "rmdir", 2, 2)
           /\ Goes(n) /\ UNCHANGED <<where, copy, handle, latest, faults>>
        \/ Died(n)
    BY <1>4, LookIs
  <2>2. CASE Died(n)
    BY <2>2, DiedFile
  <2>3. CASE ~Died(n)
    BY <1>3, <2>1, <2>3 DEF Is
  <2>4. QED
    BY <2>2, <2>3
<1>5. CASE RemoveList(n)
  <2>1. /\ Is(c, "create", 5, 5) \/ Is(c, "unlink", 4, 4) \/ Is(c, "mkdir", 3, 3) \/ Is(c, "rmdir", 3, 3)
        /\ Goes(n) /\ UNCHANGED <<where, copy, handle, latest, faults>>
    BY <1>5, RemoveListIs
  <2>2. QED
    BY <1>3, <2>1 DEF Is
<1>6. CASE InsertList(n)
  <2>1. /\ \/ (Is(c, "create", 6, 6) \/ Is(c, "unlink", 5, 5) \/ Is(c, "rmdir", 4, 4)) /\ Goes(n)
           \/ Is(c, "mkdir", 4, 4) /\ Ends(n)
        /\ UNCHANGED <<where, copy, handle, latest, faults>>
    BY <1>6, InsertListIs
  <2>2. QED
    BY <1>3, <2>1 DEF Is
<1>7. CASE Show(n)
  <2> DEFINE swept == Sweeps[c.path] \cap Files
             lost == {f \in swept : copy[n][f] # 0 /\ (where[f] = n \/ f \in Touched(n))}
  <2>1. /\ Is(c, "ls", 2, 2) /\ Ends(n)
        /\ \/ Loses(n, swept) /\ Fault("sweep", lost)
           \/ UNCHANGED <<copy, handle>>
        /\ faults \subseteq faults' /\ UNCHANGED <<where, latest>>
    BY <1>7, ShowIs, FaultGrows
  <2>2. (\A m \in Nodes : Same(call[m], call'[m], p)) /\ ~Busy(call[n], p)
    BY <2>1, SameIdle DEF Is, Busy
  <2>3. CASE Loses(n, swept) /\ Fault("sweep", lost)
    <3>1. p \notin lost /\ Clear(p)
      BY <2>3, Spared DEF Kinds
    <3>2. CASE p \in swept => where[p] # n /\ ~Opened(handle[n], p)
      BY <2>1, <2>2, <2>3, <3>2, LosesSteady, SteadyKeeps
    <3>3. CASE ~(p \in swept => where[p] # n /\ ~Opened(handle[n], p))
      <4>1. copy[n][p] = 0
        BY <3>1, <3>3, Touching
      <4>2. where[p] = n \/ Opened(handle[n], p)
        BY <3>3
      <4>3. where[p] = n => copy[n][p] # 0
        BY FusionFSAssumption DEF FileRight, OwnerRight, FusionFSAssumption
      <4>4. Opened(handle[n], p) => copy[n][p] # 0
        BY DEF FileRight, WriterRight
      <4>5. QED
        BY <4>1, <4>2, <4>3, <4>4
    <3>4. QED
      BY <3>2, <3>3
  <2>4. CASE UNCHANGED <<copy, handle>>
    <3>1. Steady(p)
      BY <2>1, <2>2, <2>4 DEF Steady
    <3>2. QED
      BY <2>1, <3>1, SteadyKeeps
  <2>5. QED
    BY <2>1, <2>3, <2>4
<1>8. QED
  BY <1>2, <1>4, <1>5, <1>6, <1>7

\* A directory is removed from a node while ZHT knows p to be in it of none.
LEMMA RmdirFile ==
  ASSUME Typed, NEW n \in Nodes, Rmdir(n), NEW p \in Files, Clear(p)', FileRight(p),
         list[call[n].path] = Blank /\ p \in Under[call[n].path] => where[p] = NoNode
  PROVE  FileRight(p)'
<1> DEFINE c == call[n]
<1>1. /\ Is(c, "rmdir", 1, 1)
      /\ \/ list[c.path] = Blank /\ Goes(n) /\ Loses(n, Under[c.path] \cap Files)
         \/ Ends(n) /\ UNCHANGED <<copy, handle>>
      /\ UNCHANGED <<where, latest, faults>>
  BY RmdirIs
<1>2. (\A m \in Nodes : Same(call[m], call'[m], p)) /\ ~Busy(call[n], p)
  BY <1>1, SameIdle DEF Is, Busy
<1>3. CASE list[c.path] = Blank /\ Goes(n) /\ Loses(n, Under[c.path] \cap Files)
  <2>1. p \in Under[c.path] => where[p] # n /\ ~Opened(handle[n], p)
    <3>1. SUFFICES ASSUME p \in Under[c.path]
                   PROVE  where[p] # n /\ ~Opened(handle[n], p)
      OBVIOUS
    <3>2. where[p] = NoNode /\ NoNode # n
      BY <1>3, <3>1, FusionFSAssumption DEF FusionFSAssumption
    <3>3. ~Is(c, "create", 4, 7)
      BY <1>1 DEF Is
    <3>4. QED
      BY <3>2, <3>3 DEF FileRight, WriterRight
  <2>2. Steady(p)
    BY <1>1, <1>2, <1>3, <2>1, LosesSteady
  <2>3. QED
    BY <1>1, <2>2, SteadyKeeps
<1>4. CASE Ends(n) /\ UNCHANGED <<copy, handle>>
  <2>1. Steady(p)
    BY <1>1, <1>2, <1>4 DEF Steady
  <2>2. QED
    BY <1>1, <2>1, SteadyKeeps
<1>5. QED
  BY <1>1, <1>3, <1>4

LEMMA MountFile ==
  ASSUME Typed, NEW n \in Nodes, Mount(n), NEW p \in Files, FileRight(p)
  PROVE  FileRight(p)'
<1>1. UNCHANGED <<where, copy, handle, call, latest>> /\ faults \subseteq faults'
  BY MountIs, FaultGrows
<1>2. Steady(p)
  BY <1>1 DEF Steady, Same
<1>3. QED
  BY <1>1, <1>2, SteadyKeeps

-----------------------------------------------------------------------------
(***************************************************************************)
(* A step that leaves the values that a path depends on.                   *)
(***************************************************************************)
\* A call stays as it is, as far as it concerns p, and the value that has p's name.
AlikeAt(c, d, p) ==
  \/ d = c
  \/ /\ Lists(c, p) /\ Inserting(c) <=> Lists(d, p) /\ Inserting(d)
     /\ Unlisted(c, p) <=> Unlisted(d, p)
     /\ Ahead(c, p) <=> Ahead(d, p)
AlikeIn(c, d, p) ==
  \/ d = c
  \/ /\ ~(Lists(c, Parent[p]) /\ Inserting(c))
     /\ ~(Lists(d, Parent[p]) /\ (Removing(d) \/ Inserting(d)))

LEMMA ExpectKeeps ==
  ASSUME NEW p \in Paths,
         p \in Files => where'[p] = where[p], p \notin Files => list'[p] = list[p],
         \A m \in Nodes : AlikeAt(call[m], call'[m], p)
  PROVE  (Exists(p)' <=> Exists(p)) /\ Expect(p)' = Expect(p)
<1>1. \A m \in Nodes : /\ Lists(call[m], p) /\ Inserting(call[m]) <=> Lists(call'[m], p) /\ Inserting(call'[m])
                       /\ Unlisted(call[m], p) <=> Unlisted(call'[m], p)
                       /\ Ahead(call[m], p) <=> Ahead(call'[m], p)
  BY DEF AlikeAt
<1>2. Relisting(p)' <=> Relisting(p)
  BY <1>1 DEF Relisting
<1>3. Exists(p)' <=> Exists(p)
  BY <1>2 DEF Exists
<1>4. Due(p)' <=> Due(p)
  BY <1>1, <1>3 DEF Due
<1>5. QED
  BY <1>3, <1>4 DEF Expect

LEMMA PathKeeps ==
  ASSUME NEW p \in Paths, PathRight(p),
         Times(Text(list'[Parent[p]]), p) = Times(Text(list[Parent[p]]), p),
         Expect(p)' = Expect(p), DirThere(p)',
         \A m \in Nodes : DirStage(m, p)' /\ AlikeIn(call[m], call'[m], p)
  PROVE  PathRight(p)'
<1>1. Relisting(Parent[p])' <=> Relisting(Parent[p])
  BY DEF Relisting, AlikeIn
<1>2. NameThere(p)'
  BY <1>1 DEF PathRight, NameThere
<1>3. ASSUME NEW m \in Nodes
      PROVE  NameNext(m, p)'
  <2>1. CASE call'[m] = call[m]
    BY <2>1 DEF PathRight, NameNext
  <2>2. CASE call'[m] # call[m]
    BY <2>2 DEF NameNext, AlikeIn
  <2>3. QED
    BY <2>1, <2>2
<1>4. QED
  BY <1>2, <1>3 DEF PathRight

\* Steps of calls that are not at the value of a directory, nor at that of p.
CalmAt(c) ==
  /\ c.do = "create" => c.at \in {1, 2, 3, 7}
  /\ c.do = "unlink" => c.at \in {1, 2, 6, 7, 8}
  /\ c.do = "mkdir" => c.at = 1
  /\ c.do = "rmdir" => c.at \in {1, 5}
KeepsName(c) ==
  /\ c.do = "close" => c.at \notin {4, 5}
  /\ c.do = "create" => c.at # 7
  /\ c.do = "unlink" => c.at # 7
  /\ c.do = "rmdir" => c.at = 1
  /\ c.do # "mkdir"

LEMMA CalmAlike ==
  ASSUME NEW n \in Nodes, CallRight(call[n]), call[n] # NoCall,
         Goes(n) \/ (Ends(n) /\ ~Is(call[n], "unlink", 6, 6)),
         CalmAt(call[n]), NEW p \in Paths, Of(call[n], p) => KeepsName(call[n])
  PROVE  \A m \in Nodes : /\ AlikeAt(call[m], call'[m], p) /\ AlikeIn(call[m], call'[m], p)
                          /\ \A d : Lists(call'[m], d) => Lists(call[m], d)
<1> DEFINE c == call[n]
           d == call'[n]
<1>1. \A m \in Nodes \ {n} : call'[m] = call[m]
  BY DEF Ends, Goes, Apart
<1>2. c.at \in Nat
  BY Spans
<1>3. ~Inserting(c)
  BY DEF CalmAt, Inserting, Is
<1>4. CASE Goes(n)
  <2>1. d # NoCall /\ d.do = c.do /\ d.path = c.path /\ d.at = c.at + 1
    BY <1>4 DEF Goes
  <2>2. ~Removing(d) /\ ~Inserting(d)
    BY <1>2, <2>1 DEF CalmAt, Removing, Inserting, Is
  <2>3. \A q : Lists(d, q) => Lists(c, q)
    BY <2>1 DEF Lists
  <2>4. CASE ~Of(c, p)
    BY <1>1, <1>3, <2>1, <2>2, <2>3, <2>4 DEF AlikeAt, AlikeIn, Unlisted, Ahead, Of
  <2>5. CASE Of(c, p)
    <3>1. (Unlisted(c, p) <=> Unlisted(d, p)) /\ (Ahead(c, p) <=> Ahead(d, p))
      BY <1>2, <2>1, <2>5 DEF CalmAt, KeepsName, Unlisted, Ahead, Of, Is
    <3>2. QED
      BY <1>1, <1>3, <2>2, <2>3, <3>1 DEF AlikeAt, AlikeIn
  <2>6. QED
    BY <2>4, <2>5
<1>5. CASE Ends(n) /\ ~Is(c, "unlink", 6, 6)
  <2>1. d = NoCall /\ d.do = "none"
    BY <1>5 DEF Ends, NoCall
  <2>2. ~Removing(d) /\ ~Inserting(d) /\ ~Unlisted(d, p) /\ ~Ahead(d, p) /\ \A q : ~Lists(d, q)
    BY <2>1 DEF Removing, Inserting, Unlisted, Ahead, Lists, Listers, Of, Is
  <2>3. ~Unlisted(c, p) /\ ~Ahead(c, p)
    BY <1>2, <1>5 DEF CalmAt, KeepsName, Unlisted, Ahead, Of, Is
  <2>4. QED
    BY <1>1, <1>3, <2>2, <2>3 DEF AlikeAt, AlikeIn
<1>6. QED
  BY <1>4, <1>5

\* A call on p that goes on, knows p as before.
LEMMA DirStageKeeps ==
  ASSUME NEW n \in Nodes, Goes(n) \/ Ends(n), CallRight(call[n]), NEW p \in Paths,
         \A m \in Nodes : DirStage(m, p), p \notin Files => list'[p] = list[p],
         Of(call[n], p) /\ Goes(n) => /\ ~Is(call[n], "mkdir", 1, 1)
                                      /\ Is(call[n], "rmdir", 1, 1) => list[p] = Blank
  PROVE  \A m \in Nodes : DirStage(m, p)'
<1>1. \A m \in Nodes \ {n} : call'[m] = call[m]
  BY DEF Ends, Goes, Apart
<1>2. call[n].at \in Nat /\ call[n].at >= 1
  BY Spans
<1>3. CASE p \in Files
  <2>1. \A m \in Nodes : call'[m] = NoCall \/ CallRight(call'[m])
    BY DEF Goes, Ends, Apart
  <2>2. p \notin Dirs
    BY <1>3, FusionFSAssumption DEF FusionFSAssumption
  <2>3. QED
    BY <2>1, <2>2 DEF DirStage, Of, Is, CallRight
<1>4. CASE p \notin Files /\ Goes(n)
  <2>1. /\ call'[n].do = call[n].do /\ call'[n].path = call[n].path /\ call'[n].at = call[n].at + 1
        /\ call[n] # NoCall
    BY <1>4, NoCallIsNone DEF Goes, NoCall, CallRight, Calls
  <2>2. DirStage(n, p)'
    <3>1. SUFFICES ASSUME Of(call'[n], p)
                   PROVE  /\ Is(call'[n], "mkdir", 2, 4) => list'[p] # NoList
                          /\ Is(call'[n], "rmdir", 2, 5) => list'[p] = Blank
      BY DEF DirStage
    <3>2. Of(call[n], p) /\ DirStage(n, p)
      BY <2>1, <3>1 DEF Of
    <3>3. ~Is(call[n], "mkdir", 1, 1) /\ (Is(call[n], "rmdir", 1, 1) => list[p] = Blank)
      BY <1>4, <3>2
    <3>4. Is(call'[n], "mkdir", 2, 4) => Is(call[n], "mkdir", 2, 4)
      BY <1>2, <2>1, <3>3 DEF Is
    <3>5. Is(call'[n], "rmdir", 2, 5) => Is(call[n], "rmdir", 1, 1) \/ Is(call[n], "rmdir", 2, 5)
      BY <1>2, <2>1 DEF Is
    <3>6. QED
      BY <1>4, <3>2, <3>3, <3>4, <3>5 DEF DirStage
  <2>3. QED
    BY <1>1, <1>4, <2>2 DEF DirStage
<1>5. CASE p \notin Files /\ Ends(n)
  <2>1. DirStage(n, p)'
    BY <1>5 DEF DirStage, Of, Ends
  <2>2. QED
    BY <1>1, <1>5, <2>1 DEF DirStage
<1>6. QED
  BY <1>3, <1>4, <1>5

\* A step that leaves the values of p and of its directory, and their names.
LEMMA CalmPath ==
  ASSUME NEW p \in Paths, PathRight(p), NEW n \in Nodes, CallRight(call[n]), call[n] # NoCall,
         Goes(n) \/ (Ends(n) /\ ~Is(call[n], "unlink", 6, 6)),
         CalmAt(call[n]), Of(call[n], p) => KeepsName(call[n]),
         list'[Parent[p]] = list[Parent[p]],
         p \in Files => where'[p] = where[p], p \notin Files => list'[p] = list[p],
         \A m \in Nodes : p \in Dirs /\ p \in dirs'[m] => p \in dirs[m] \/ Exists(p),
         Goes(n) /\ Of(call[n], p) /\ Is(call[n], "rmdir", 1, 1) => list[p] = Blank
  PROVE  PathRight(p)'
<1>1. \A m \in Nodes : /\ AlikeAt(call[m], call'[m], p) /\ AlikeIn(call[m], call'[m], p)
                       /\ Lists(call'[m], p) => Lists(call[m], p)
  BY CalmAlike
<1>2. (Exists(p)' <=> Exists(p)) /\ Expect(p)' = Expect(p)
  BY <1>1, ExpectKeeps
<1>3. \A m \in Nodes : DirStage(m, p)'
  BY DirStageKeeps DEF PathRight, KeepsName, Is
<1>4. DirThere(p)'
  BY <1>1, <1>2 DEF PathRight, DirThere
<1>5. QED
  BY <1>1, <1>2, <1>3, <1>4, PathKeeps

\* Steps on a file that leave the values.
LEMMA FileStepPath ==
  ASSUME Typed, NEW n \in Nodes,
         Lookup(n) \/ Fetch(n) \/ Open(n) \/ Creat(n) \/ RenameCopy(n) \/ Settle(n) \/ RemoveCopy(n),
         NEW p \in Paths, PathRight(p)
  PROVE  PathRight(p)'
<1> DEFINE c == call[n]
<1>1. c # NoCall /\ CallRight(c)
  <2>1. c # NoCall
    BY DEF Lookup, Fetch, Open, Creat, RenameCopy, Settle, RemoveCopy, At
  <2>2. QED
    BY <2>1, CallTyped
<1>2. c.at \in Nat
  BY <1>1, Spans
<1>3. /\ Goes(n) \/ (Ends(n) /\ ~Is(c, "unlink", 6, 6))
      /\ c.do \in {"read", "write", "close", "create", "unlink", "rename", "drop"}
      /\ c.do = "create" => c.at \in {1, 2, 3}
      /\ c.do = "close" => c.at \notin {4, 5}
      /\ c.do = "unlink" => c.at \in {1, 2, 6, 8}
      /\ UNCHANGED <<where, list, dirs>>
  <2>1. CASE Lookup(n)
    BY <2>1, <1>2, LookupIs DEF Is, FileCalls
  <2>2. CASE Fetch(n)
    BY <2>2, <1>2, FetchIs DEF Is, FileCalls
  <2>3. CASE Open(n)
    BY <2>3, OpenIs DEF Is
  <2>4. CASE Creat(n)
    BY <2>4, <1>2, CreatIs DEF Is
  <2>5. CASE RenameCopy(n)
    BY <2>5, RenameCopyIs DEF Is
  <2>6. CASE Settle(n)
    <3>1. /\ c.do \in {"close", "drop"} /\ c.at = 2 /\ (Goes(n) \/ Ends(n))
          /\ UNCHANGED <<where, list, dirs>>
      BY <2>6, SettleIs
    <3>2. QED
      BY <3>1 DEF Is
  <2>7. CASE RemoveCopy(n)
    <3>1. /\ Is(c, "unlink", 8, 8) \/ Is(c, "close", 6, 6)
          /\ Ends(n) /\ UNCHANGED <<where, list, dirs>>
      BY <2>7, RemoveCopyIs
    <3>2. QED
      BY <1>2, <3>1 DEF Is
  <2>8. QED
    BY <2>1, <2>2, <2>3, <2>4, <2>5, <2>6, <2>7
<1>4. CalmAt(c) /\ KeepsName(c)
  BY <1>3 DEF CalmAt, KeepsName
<1>5. ~Is(c, "rmdir", 1, 1)
  BY <1>3 DEF Is
<1>6. QED
  BY <1>1, <1>3, <1>4, <1>5, CalmPath

LEMMA RmdirShowPath ==
  ASSUME Typed, NEW n \in Nodes, Rmdir(n) \/ Show(n), NEW p \in Paths, PathRight(p), Clear(p)'
  PROVE  PathRight(p)'
<1> DEFINE c == call[n]
<1>1. c # NoCall /\ CallRight(c)
  <2>1. c # NoCall
    BY DEF Rmdir, Show, At
  <2>2. QED
    BY <2>1, CallTyped
<1>2. c.at \in Nat
  BY <1>1, Spans
<1>3. CASE Rmdir(n)
  <2>1. /\ Is(c, "rmdir", 1, 1)
        /\ \/ list[c.path] = Blank /\ Goes(n)
           \/ Ends(n)
        /\ \A m \in Nodes : dirs'[m] \subseteq dirs[m]
        /\ UNCHANGED <<where, list>>
    BY <1>3, RmdirIs
  <2>2. CalmAt(c) /\ KeepsName(c) /\ ~Is(c, "unlink", 6, 6) /\ c.at = 1
    BY <1>2, <2>1 DEF CalmAt, KeepsName, Is
  <2>3. Goes(n) /\ Of(c, p) => list[p] = Blank
    BY <2>1 DEF Of, Goes, Ends
  <2>4. QED
    BY <1>1, <2>1, <2>2, <2>3, CalmPath
<1>4. CASE Show(n)
  <2>1. /\ Is(c, "ls", 2, 2) /\ Ends(n)
        /\ \A m \in Nodes \ {n} : dirs'[m] = dirs[m]
        /\ \/ dirs'[n] \subseteq dirs[n]
           \/ \E ps \in SUBSET Dirs :
                /\ Fault("leftover", ps)
                /\ \A d \in dirs'[n] \ dirs[n] : list[d] = NoList => d \in ps
        /\ UNCHANGED <<where, list>>
    BY <1>4, ShowIs
  <2>2. CalmAt(c) /\ KeepsName(c) /\ ~Is(c, "unlink", 6, 6) /\ ~Is(c, "rmdir", 1, 1)
    BY <2>1 DEF CalmAt, KeepsName, Is
  <2>3. p \in Dirs /\ p \in dirs'[n] => p \in dirs[n] \/ Exists(p)
    <3>1. CASE dirs'[n] \subseteq dirs[n]
      BY <3>1
    <3>2. ASSUME NEW ps \in SUBSET Dirs, Fault("leftover", ps),
                 \A d \in dirs'[n] \ dirs[n] : list[d] = NoList => d \in ps,
                 p \in Dirs, p \in dirs'[n], p \notin dirs[n]
          PROVE  Exists(p)
      <4>1. p \notin ps
        BY <3>2, Spared DEF Kinds
      <4>2. list[p] # NoList /\ p \notin Files
        BY <3>2, <4>1, FusionFSAssumption DEF FusionFSAssumption
      <4>3. QED
        BY <4>2 DEF Exists
    <3>3. QED
      BY <2>1, <3>1, <3>2
  <2>4. \A m \in Nodes : p \in Dirs /\ p \in dirs'[m] => p \in dirs[m] \/ Exists(p)
    BY <2>1, <2>3
  <2>5. QED
    BY <1>1, <2>1, <2>2, <2>4, CalmPath
<1>5. QED
  BY <1>3, <1>4

LEMMA DiedPath ==
  ASSUME Typed, NEW n \in Nodes, Died(n), NEW p \in Paths, Clear(p)', PathRight(p)
  PROVE  PathRight(p)'
<1>1. /\ call'[n] = NoCall /\ \A m \in Nodes \ {n} : call'[m] = call[m]
      /\ Fault("crash", Touched(n))
      /\ UNCHANGED <<where, list, dirs>>
  BY DEF Died, Ends, Apart
<1>2. p \notin Touched(n) /\ Parent[p] \notin Touched(n)
  BY <1>1, Spared, ParentIsAbove DEF Kinds
<1>3. /\ ~Lists(call[n], p) /\ ~Lists(call[n], Parent[p])
      /\ ~Unlisted(call[n], p) /\ ~Ahead(call[n], p)
  BY <1>2, Touching
<1>4. /\ ~Lists(call'[n], p) /\ ~Lists(call'[n], Parent[p])
      /\ ~Unlisted(call'[n], p) /\ ~Ahead(call'[n], p) /\ ~Of(call'[n], p)
  BY <1>1 DEF Lists, Listers, Unlisted, Ahead, Of, NoCall
<1>5. \A m \in Nodes : AlikeAt(call[m], call'[m], p) /\ AlikeIn(call[m], call'[m], p)
  BY <1>1, <1>3, <1>4 DEF AlikeAt, AlikeIn
<1>6. (Exists(p)' <=> Exists(p)) /\ Expect(p)' = Expect(p)
  BY <1>1, <1>5, ExpectKeeps
<1>7. DirThere(p)'
  BY <1>1, <1>4, <1>6 DEF PathRight, DirThere
<1>8. \A m \in Nodes : DirStage(m, p)'
  BY <1>1, <1>4 DEF PathRight, DirStage
<1>9. QED
  BY <1>1, <1>5, <1>6, <1>7, <1>8, PathKeeps

LEMMA BegunPath ==
  ASSUME Typed, NEW n \in Nodes, NEW do, NEW path, Begun(n, do, path),
         do \in Listers => Sees(n, Parent[path]),
         NEW p \in Paths, PathRight(p)
  PROVE  PathRight(p)'
<1>1. /\ \A m \in Nodes \ {n} : call'[m] = call[m]
      /\ call[n] = NoCall /\ call'[n].do = do /\ call'[n].path = path /\ call'[n].at = 1
      /\ UNCHANGED <<where, list, dirs>>
  BY DEF Begun
<1>2. /\ ~Lists(call[n], p) /\ ~Lists(call[n], Parent[p])
      /\ ~Unlisted(call[n], p) /\ ~Ahead(call[n], p)
  BY <1>1 DEF Lists, Listers, Unlisted, Ahead, Of, NoCall
<1>3. /\ ~Removing(call'[n]) /\ ~Inserting(call'[n])
      /\ ~Unlisted(call'[n], p) /\ ~Ahead(call'[n], p)
  BY <1>1 DEF Removing, Inserting, Unlisted, Ahead, Is
<1>4. \A m \in Nodes : AlikeAt(call[m], call'[m], p) /\ AlikeIn(call[m], call'[m], p)
  BY <1>1, <1>2, <1>3 DEF AlikeAt, AlikeIn
<1>5. (Exists(p)' <=> Exists(p)) /\ Expect(p)' = Expect(p)
  BY <1>1, <1>4, ExpectKeeps
<1>6. DirThere(p)'
  <2>1. p \in Dirs /\ Lists(call'[n], p) => p \in dirs[n]
    <3>1. SUFFICES ASSUME p \in Dirs, Lists(call'[n], p)
                   PROVE  p \in dirs[n]
      OBVIOUS
    <3>2. Sees(n, p) /\ p # Root
      BY <1>1, <3>1, ParentIsAbove DEF Lists
    <3>3. QED
      BY <3>2 DEF Sees
  <2>2. QED
    BY <1>1, <1>5, <2>1 DEF PathRight, DirThere
<1>7. \A m \in Nodes : DirStage(m, p)'
  BY <1>1 DEF PathRight, DirStage, Is
<1>8. QED
  BY <1>1, <1>4, <1>5, <1>6, <1>7, PathKeeps

-----------------------------------------------------------------------------
(***************************************************************************)
(* Steps that change the value of a path, or of its directory.             *)
(***************************************************************************)
\* Nobody else is at q, which n changes.
LEMMA NobodyAt ==
  ASSUME Overlaps, NEW p, Clear(p), NEW q \in {p} \union Above(p), NEW n \in Nodes,
         q \in Touched(n), Apart(n)
  PROVE  \A m \in Nodes \ {n} :
           /\ call'[m] = call[m]
           /\ ~Unlisted(call[m], q) /\ ~Ahead(call[m], q) /\ ~Lists(call[m], q)
           /\ ~(Of(call[m], q) /\ call[m].do \in Listers)
           /\ ~Unlisted(call'[m], q) /\ ~Ahead(call'[m], q) /\ ~Lists(call'[m], q)
           /\ ~(Of(call'[m], q) /\ call'[m].do \in Listers)
<1>1. \A m \in Nodes \ {n} :
           /\ ~Unlisted(call[m], q) /\ ~Ahead(call[m], q) /\ ~Lists(call[m], q)
           /\ ~(Of(call[m], q) /\ call[m].do \in Listers \union {"write", "close"})
  BY Alone
<1>2. \A m \in Nodes \ {n} : call'[m] = call[m]
  BY DEF Apart
<1>3. QED
  BY <1>1, <1>2

LEMMA MountPath ==
  ASSUME Typed, NEW n \in Nodes, Mount(n), NEW p \in Paths, PathRight(p), Clear(p)'
  PROVE  PathRight(p)'
<1>1. /\ list'[Root] = Blank /\ \A d \in Dirs : list'[d] = list[d]
      /\ \/ list[Root] \in {NoList, Blank} /\ \A m \in Nodes : Root \notin Touched(m)
         \/ Fault("mount", {Root})
      /\ UNCHANGED <<where, dirs, call>>
  BY MountIs
<1>2. p \notin Files => p \in Dirs
  BY DEF Paths
<1>3. \A m \in Nodes : AlikeAt(call[m], call'[m], p) /\ AlikeIn(call[m], call'[m], p)
  BY <1>1 DEF AlikeAt, AlikeIn
<1>4. (Exists(p)' <=> Exists(p)) /\ Expect(p)' = Expect(p)
  BY <1>1, <1>2, <1>3, ExpectKeeps
<1>5. DirThere(p)'
  BY <1>1, <1>4 DEF PathRight, DirThere
<1>6. \A m \in Nodes : DirStage(m, p)'
  <2>1. CASE p \in Dirs
    BY <1>1, <2>1 DEF PathRight, DirStage
  <2>2. CASE p \notin Dirs
    BY <1>1, <2>2 DEF DirStage, Of, Is, Typed, CallRight
  <2>3. QED
    BY <2>1, <2>2
<1>7. Times(Text(list'[Parent[p]]), p) = Times(Text(list[Parent[p]]), p)
  <2>1. CASE Parent[p] = Root
    <3>1. ~Fault("mount", {Root})
      BY <2>1, Spared, ParentIsAbove DEF Kinds
    <3>2. list[Root] = NoList \/ list[Root] = Blank
      BY <1>1, <3>1
    <3>3. Times(Text(list[Root]), p) = 0 /\ Times(Text(list'[Root]), p) = 0
      BY <1>1, <3>2, BlankIsListing
    <3>4. QED
      BY <2>1, <3>3
  <2>2. CASE Parent[p] # Root
    BY <1>1, <2>2, ParentIsAbove DEF AllDirs
  <2>3. QED
    BY <2>1, <2>2
<1>8. QED
  BY <1>3, <1>4, <1>5, <1>6, <1>7, PathKeeps

\* The value of p's own path is removed, while its name stays or is gone.
LEMMA RemoveKeyPath ==
  ASSUME Typed, Overlaps, NEW n \in Nodes, RemoveKey(n), NEW p \in Paths, PathRight(p), Clear(p)',
         p \in Files => FileRight(p),
         Parent[p] \in Dirs => PathRight(Parent[p])
  PROVE  PathRight(p)'
<1> DEFINE c == call[n]
<1>1. /\ \/ /\ c.path \in Files /\ (Is(c, "unlink", 7, 7) \/ Is(c, "close", 4, 4))
            /\ Goes(n)
            /\ where'[c.path] = NoNode /\ \A f \in Files \ {c.path} : where'[f] = where[f]
            /\ list' = list
         \/ /\ c.path \in Dirs /\ Is(c, "rmdir", 5, 5)
            /\ Ends(n)
            /\ list'[c.path] = NoList /\ \A d \in AllDirs \ {c.path} : list'[d] = list[d]
            /\ where' = where
      /\ Fault("leftover", {c.path} \cap UNION {dirs[m] : m \in Nodes})
      /\ UNCHANGED dirs
  BY RemoveKeyIs
<1>2. /\ CallRight(c) /\ c # NoCall /\ c.at \in Nat /\ Clear(p) /\ Apart(n)
      /\ Files \cap Dirs = {}
  <2>1. CallRight(c) /\ c # NoCall
    BY AtIs DEF RemoveKey
  <2>2. Clear(p)
    BY <1>1, FaultGrows, UpsetStays
  <2>3. QED
    BY <1>1, <2>1, <2>2, Spans, FusionFSAssumption DEF Goes, Ends, FusionFSAssumption
<1>3. /\ \/ c.path \in Files /\ c.do = "unlink" /\ c.at = 7 /\ Goes(n)
         \/ c.path \in Files /\ c.do = "close" /\ c.at = 4 /\ Goes(n)
         \/ c.path \in Dirs /\ c.do = "rmdir" /\ c.at = 5 /\ Ends(n)
      /\ CalmAt(c) /\ ~Is(c, "unlink", 6, 6) /\ ~Is(c, "rmdir", 1, 1) /\ ~Is(c, "mkdir", 1, 1)
  BY <1>1, <1>2 DEF Is, CalmAt
<1>4. CASE c.path # p /\ c.path # Parent[p]
  <2>1. /\ list'[Parent[p]] = list[Parent[p]]
        /\ p \in Files => where'[p] = where[p]
        /\ p \notin Files => list'[p] = list[p]
    BY <1>1, <1>4, ParentIsAbove DEF Paths, AllDirs
  <2>2. ~Of(c, p)
    BY <1>4 DEF Of
  <2>3. QED
    BY <1>1, <1>2, <1>3, <2>1, <2>2, CalmPath
<1>5. CASE c.path = p
  <2>1. p \in Touched(n)
    BY <1>2, <1>3, <1>5, Touching DEF Of, Listers
  <2>2. \A m \in Nodes \ {n} :
           /\ ~Unlisted(call[m], p) /\ ~Ahead(call[m], p) /\ ~Lists(call[m], p)
           /\ ~(Of(call[m], p) /\ call[m].do \in Listers)
           /\ ~Unlisted(call'[m], p) /\ ~Ahead(call'[m], p) /\ ~Lists(call'[m], p)
           /\ ~(Of(call'[m], p) /\ call'[m].do \in Listers)
           /\ call'[m] = call[m]
    BY <1>2, <2>1, NobodyAt
  <2>3. list'[Parent[p]] = list[Parent[p]]
    BY <1>1, <1>5, ParentIsAbove
  <2>4. \A m \in Nodes : AlikeIn(call[m], call'[m], p)
    <3>1. ~Inserting(c)
      BY <1>3 DEF Inserting, Is
    <3>2. ~Removing(call'[n]) /\ ~Inserting(call'[n])
      BY <1>2, <1>3 DEF Goes, Ends, Removing, Inserting, Is, NoCall
    <3>3. QED
      BY <2>2, <3>1, <3>2 DEF AlikeIn
  <2>5. \A m \in Nodes : DirStage(m, p)'
    <3>1. DirStage(n, p)'
      BY <1>3 DEF Goes, Ends, DirStage, Of, Is
    <3>2. \A m \in Nodes \ {n} : DirStage(m, p)'
      BY <2>2 DEF DirStage, Is, Listers
    <3>3. QED
      BY <3>1, <3>2
  <2>6. CASE c.do = "close"
    <3>1. where[p] # NoNode /\ p \in Files
      BY <1>2, <1>3, <1>5, <2>6 DEF FileRight, FileStage, Of, Is
    <3>2. ~Unlisted(c, p)
      BY <2>6 DEF Unlisted, Is
    <3>3. Due(p)
      BY <2>2, <3>1, <3>2 DEF Due, Exists
    <3>4. Ahead(call'[n], p)
      BY <1>3, <1>5, <2>6 DEF Goes, Ahead, Of, Is
    <3>5. Due(p)'
      BY <3>4 DEF Due
    <3>6. DirThere(p)'
      BY <1>2, <3>1 DEF DirThere
    <3>7. QED
      BY <2>3, <2>4, <2>5, <3>3, <3>5, <3>6, PathKeeps DEF Expect
  <2>7. CASE c.do = "unlink"
    <3>1. where'[p] = NoNode /\ p \in Files
      BY <1>1, <1>2, <1>3, <1>5, <2>7
    <3>2. Unlisted(c, p) /\ ~Ahead(c, p)
      BY <1>2, <1>3, <1>5, <2>7 DEF Unlisted, Ahead, Of, Is
    <3>3. ~Due(p)
      BY <2>2, <3>2 DEF Due
    <3>4. ~Ahead(call'[n], p)
      BY <1>3, <2>7 DEF Goes, Ahead, Is
    <3>5. ~Due(p)'
      BY <2>2, <3>1, <3>4 DEF Due, Exists
    <3>6. DirThere(p)'
      BY <1>2, <3>1 DEF DirThere
    <3>7. QED
      BY <2>3, <2>4, <2>5, <3>3, <3>5, <3>6, PathKeeps DEF Expect
  <2>8. CASE c.do = "rmdir"
    <3>1. list'[p] = NoList /\ p \in Dirs /\ p \notin Files /\ call'[n] = NoCall
      BY <1>1, <1>2, <1>3, <1>5, <2>8 DEF Ends
    <3>2. Unlisted(c, p) /\ ~Ahead(c, p)
      BY <1>2, <1>3, <1>5, <2>8 DEF Unlisted, Ahead, Of, Is
    <3>3. ~Due(p)
      BY <2>2, <3>2 DEF Due
    <3>4. ~Ahead(call'[n], p) /\ ~Lists(call'[n], p)
      BY <3>1 DEF Ahead, Of, Lists, Listers, NoCall
    <3>5. ~Due(p)'
      BY <2>2, <3>1, <3>4 DEF Due, Exists, Relisting
    <3>6. \A m \in Nodes : p \notin dirs[m]
      BY <1>1, <1>5, Spared DEF Kinds
    <3>7. DirThere(p)'
      BY <1>1, <2>2, <3>4, <3>6 DEF DirThere
    <3>8. QED
      BY <2>3, <2>4, <2>5, <3>3, <3>5, <3>7, PathKeeps DEF Expect
  <2>9. QED
    BY <1>3, <2>6, <2>7, <2>8
<1>6. CASE c.path = Parent[p]
  <2> DEFINE e == Parent[p]
  <2>1. e \in Dirs /\ e \in Above(p) /\ e # p /\ c.do = "rmdir" /\ c.at = 5 /\ Ends(n)
    BY <1>2, <1>3, <1>6, ParentIsAbove DEF AllDirs, Paths
  <2>2. list[e] = Blank
    BY <1>2, <1>6, <2>1 DEF PathRight, DirStage, Of, Is
  <2>3. list'[e] = NoList
    BY <1>1, <1>2, <1>6, <2>1
  <2>4. Times(Text(list'[e]), p) = Times(Text(list[e]), p)
    <3>1. Times(Text(Blank), p) = 0 /\ Times(Text(NoList), p) = 0
      BY BlankIsListing
    <3>2. QED
      BY <2>2, <2>3, <3>1
  <2>5. \A m \in Nodes : /\ AlikeAt(call[m], call'[m], p) /\ AlikeIn(call[m], call'[m], p)
                         /\ Lists(call'[m], p) => Lists(call[m], p)
    BY <1>2, <1>3, <1>6, <2>1, CalmAlike DEF Of
  <2>6. /\ p \in Files => where'[p] = where[p]
        /\ p \notin Files => list'[p] = list[p]
    BY <1>1, <1>2, <1>6, <2>1 DEF Paths, AllDirs
  <2>7. (Exists(p)' <=> Exists(p)) /\ Expect(p)' = Expect(p)
    BY <2>5, <2>6, ExpectKeeps
  <2>8. DirThere(p)'
    BY <1>1, <2>5, <2>7 DEF PathRight, DirThere
  <2>9. \A m \in Nodes : DirStage(m, p)'
    BY <1>2, <1>3, <2>6, DirStageKeeps DEF PathRight
  <2>10. QED
    BY <2>4, <2>5, <2>7, <2>8, <2>9, PathKeeps
<1>7. QED
  BY <1>4, <1>5, <1>6

LEMMA InsertKeyPath ==
  ASSUME Typed, Overlaps, NEW n \in Nodes, InsertKey(n), NEW p \in Paths, PathRight(p), Clear(p)'
  PROVE  PathRight(p)'
<1> DEFINE c == call[n]
<1>1. /\ c.path \in Files
      /\ \/ Is(c, "create", 7, 7) /\ Ends(n)
         \/ Is(c, "close", 5, 5) /\ Goes(n)
      /\ where'[c.path] = n /\ \A f \in Files \ {c.path} : where'[f] = where[f]
      /\ UNCHANGED <<list, dirs, faults>>
  BY InsertKeyIs
<1>2. /\ CallRight(c) /\ c # NoCall /\ c.at \in Nat /\ Clear(p) /\ Apart(n)
      /\ Files \cap Dirs = {} /\ n # NoNode
  <2>1. CallRight(c) /\ c # NoCall
    BY AtIs DEF InsertKey
  <2>2. Clear(p)
    BY <1>1, UpsetStays
  <2>3. QED
    BY <1>1, <2>1, <2>2, Spans, FusionFSAssumption DEF Goes, Ends, FusionFSAssumption
<1>3. /\ \/ c.do = "create" /\ c.at = 7 /\ Ends(n)
         \/ c.do = "close" /\ c.at = 5 /\ Goes(n)
      /\ CalmAt(c) /\ ~Is(c, "unlink", 6, 6) /\ ~Is(c, "rmdir", 1, 1) /\ ~Is(c, "mkdir", 1, 1)
  BY <1>1, <1>2 DEF Is, CalmAt
<1>4. CASE c.path # p
  <2>1. p \in Files => where'[p] = where[p]
    BY <1>1, <1>4
  <2>2. QED
    BY <1>1, <1>2, <1>3, <1>4, <2>1, CalmPath DEF Of
<1>5. CASE c.path = p
  <2>1. p \in Touched(n)
    BY <1>2, <1>3, <1>5, Touching DEF Of, Listers
  <2>2. \A m \in Nodes \ {n} :
           /\ ~Unlisted(call[m], p) /\ ~Ahead(call[m], p)
           /\ ~(Of(call[m], p) /\ call[m].do \in Listers)
           /\ ~Unlisted(call'[m], p) /\ ~Ahead(call'[m], p)
           /\ ~(Of(call'[m], p) /\ call'[m].do \in Listers)
           /\ call'[m] = call[m]
    BY <1>2, <2>1, NobodyAt
  <2>3. \A m \in Nodes : AlikeIn(call[m], call'[m], p)
    <3>1. ~Inserting(c)
      BY <1>3 DEF Inserting, Is
    <3>2. ~Removing(call'[n]) /\ ~Inserting(call'[n])
      BY <1>2, <1>3 DEF Goes, Ends, Removing, Inserting, Is, NoCall
    <3>3. QED
      BY <2>2, <3>1, <3>2 DEF AlikeIn
  <2>4. \A m \in Nodes : DirStage(m, p)'
    <3>1. DirStage(n, p)'
      BY <1>3 DEF Goes, Ends, DirStage, Of, Is
    <3>2. \A m \in Nodes \ {n} : DirStage(m, p)'
      BY <2>2 DEF DirStage, Is, Listers
    <3>3. QED
      BY <3>1, <3>2
  <2>5. Due(p)
    BY <1>2, <1>3, <1>5 DEF Due, Ahead, Of, Is
  <2>6. Due(p)'
    <3>1. where'[p] # NoNode /\ p \in Files
      BY <1>1, <1>2, <1>5
    <3>2. ~Unlisted(call'[n], p)
      BY <1>3 DEF Goes, Ends, Unlisted, Of, Is
    <3>3. QED
      BY <2>2, <3>1, <3>2 DEF Due, Exists
  <2>7. DirThere(p)'
    BY <1>1, <1>2, <1>5 DEF DirThere
  <2>8. QED
    BY <1>1, <2>3, <2>4, <2>5, <2>6, <2>7, PathKeeps DEF Expect
<1>6. QED
  BY <1>4, <1>5

LEMMA MkdirPath ==
  ASSUME Typed, Overlaps, NEW n \in Nodes, Mkdir(n), NEW p \in Paths, PathRight(p), Clear(p)'
  PROVE  PathRight(p)'
<1> DEFINE c == call[n]
           q == call[n].path
<1>1. /\ q \in Dirs /\ Is(c, "mkdir", 1, 1) /\ Goes(n)
      /\ dirs'[n] = dirs[n] \union {q} /\ \A m \in Nodes \ {n} : dirs'[m] = dirs[m]
      /\ list'[q] = Blank /\ \A e \in AllDirs \ {q} : list'[e] = list[e]
      /\ Fault("unseen", IF list[q] = NoList THEN {} ELSE {q})
      /\ where' = where
  BY MkdirIs
<1>2. /\ CallRight(c) /\ c # NoCall /\ c.do = "mkdir" /\ c.at = 1 /\ Clear(p) /\ Apart(n)
      /\ Files \cap Dirs = {}
  <2>1. CallRight(c) /\ c # NoCall
    BY AtIs DEF Mkdir
  <2>2. Clear(p)
    BY <1>1, Spared DEF Kinds
  <2>3. c.at \in Nat
    BY <2>1, Spans
  <2>4. QED
    BY <1>1, <2>1, <2>2, <2>3, FusionFSAssumption DEF Goes, FusionFSAssumption, Is
<1>3. CalmAt(c) /\ ~Is(c, "rmdir", 1, 1) /\ ~Is(c, "unlink", 6, 6)
  BY <1>2 DEF Is, CalmAt
<1>4. q \in {p} \union Above(p) => list[q] = NoList
  <2>1. SUFFICES ASSUME q \in {p} \union Above(p), list[q] # NoList
                 PROVE  FALSE
    OBVIOUS
  <2>2. Fault("unseen", {q})
    BY <1>1, <2>1
  <2>3. QED
    BY <2>1, <2>2, Spared DEF Kinds
<1>5. CASE q # p
  <2>1. \A m \in Nodes : /\ AlikeAt(call[m], call'[m], p) /\ AlikeIn(call[m], call'[m], p)
                         /\ Lists(call'[m], p) => Lists(call[m], p)
    BY <1>1, <1>2, <1>3, <1>5, CalmAlike DEF Of
  <2>2. p \notin Files => list'[p] = list[p]
    BY <1>1, <1>5 DEF Paths, AllDirs
  <2>3. (Exists(p)' <=> Exists(p)) /\ Expect(p)' = Expect(p)
    BY <1>1, <2>1, <2>2, ExpectKeeps
  <2>4. DirThere(p)'
    BY <1>1, <1>5, <2>1, <2>3 DEF PathRight, DirThere
  <2>5. \A m \in Nodes : DirStage(m, p)'
    BY <1>1, <1>2, <1>3, <1>5, <2>2, DirStageKeeps DEF PathRight, Of
  <2>6. Times(Text(list'[Parent[p]]), p) = Times(Text(list[Parent[p]]), p)
    <3>1. CASE q = Parent[p]
      <4>1. list[Parent[p]] = NoList /\ list'[Parent[p]] = Blank
        BY <1>1, <1>4, <3>1, ParentIsAbove
      <4>2. Times(Text(Blank), p) = 0 /\ Times(Text(NoList), p) = 0
        BY BlankIsListing
      <4>3. QED
        BY <4>1, <4>2
    <3>2. CASE q # Parent[p]
      BY <1>1, <3>2, ParentIsAbove
    <3>3. QED
      BY <3>1, <3>2
  <2>7. QED
    BY <2>1, <2>3, <2>4, <2>5, <2>6, PathKeeps
<1>6. CASE q = p
  <2>1. p \in Touched(n) /\ p \in Dirs /\ p \notin Files /\ Parent[p] # p
    BY <1>1, <1>2, <1>6, Touching, ParentIsAbove DEF Of, Listers
  <2>2. \A m \in Nodes \ {n} :
           /\ ~Unlisted(call[m], p) /\ ~Ahead(call[m], p) /\ ~Lists(call[m], p)
           /\ ~(Of(call[m], p) /\ call[m].do \in Listers)
           /\ ~Unlisted(call'[m], p) /\ ~Ahead(call'[m], p) /\ ~Lists(call'[m], p)
           /\ ~(Of(call'[m], p) /\ call'[m].do \in Listers)
           /\ call'[m] = call[m]
    BY <1>2, <2>1, NobodyAt
  <2>3. call'[n] # NoCall /\ call'[n].path = p /\ call'[n].do = "mkdir" /\ call'[n].at = 2
    BY <1>1, <1>2, <1>6 DEF Goes
  <2>4. list[p] = NoList /\ list'[p] = Blank /\ Blank # NoList
    BY <1>1, <1>4, <1>6, BlankIsListing
  <2>5. ~Lists(c, p) /\ ~Lists(call'[n], p) /\ ~Inserting(c) /\ ~Removing(call'[n]) /\ ~Inserting(call'[n])
    BY <1>2, <1>6, <2>1, <2>3 DEF Lists, Inserting, Removing, Is
  <2>6. \A m \in Nodes : AlikeIn(call[m], call'[m], p)
    BY <2>2, <2>5 DEF AlikeIn
  <2>7. \A m \in Nodes : DirStage(m, p)'
    <3>1. DirStage(n, p)'
      BY <2>3, <2>4 DEF DirStage, Of, Is
    <3>2. \A m \in Nodes \ {n} : DirStage(m, p)'
      BY <2>2 DEF DirStage, Is, Listers
    <3>3. QED
      BY <3>1, <3>2
  <2>8. ~Due(p)
    <3>1. ~Exists(p)
      BY <2>1, <2>2, <2>4, <2>5 DEF Exists, Relisting
    <3>2. ~Ahead(c, p)
      BY <1>2 DEF Ahead, Is
    <3>3. QED
      BY <2>2, <3>1, <3>2 DEF Due
  <2>9. ~Due(p)'
    <3>1. Unlisted(call'[n], p) /\ ~Ahead(call'[n], p)
      BY <2>3 DEF Unlisted, Ahead, Of, Is
    <3>2. QED
      BY <2>2, <3>1 DEF Due
  <2>10. DirThere(p)'
    BY <2>1, <2>4 DEF DirThere, Exists
  <2>11. list'[Parent[p]] = list[Parent[p]]
    BY <1>1, <1>6, <2>1, ParentIsAbove
  <2>12. QED
    BY <2>6, <2>7, <2>8, <2>9, <2>10, <2>11, PathKeeps DEF Expect
<1>7. QED
  BY <1>5, <1>6

-----------------------------------------------------------------------------
(***************************************************************************)
(* The three steps by which a name is put into a directory's value, or     *)
(* taken out of it.                                                        *)
(***************************************************************************)

\* Only n is at p's directory.
LEMMA ListerKeeps ==
  ASSUME NEW p \in Paths, NEW n \in Nodes, \A m \in Nodes \ {n} : ~Lists(call'[m], Parent[p]),
         NameThere(p)', NameNext(n, p)', DirThere(p)', \A m \in Nodes : DirStage(m, p)'
  PROVE  PathRight(p)'
BY DEF NameNext, PathRight

\* The steps of a call that lists its path in q, with the calls that are at q or at p.
LEMMA ListerIs ==
  ASSUME Typed, NEW n \in Nodes, CallRight(call[n]), call[n] # NoCall, call[n].do \in Listers,
         Goes(n) \/ Ends(n), NEW p \in Paths, Parent[call[n].path] # Parent[p]
  PROVE  /\ ~Lists(call[n], Parent[p]) /\ ~Lists(call'[n], Parent[p])
         /\ \A m \in Nodes : AlikeIn(call[m], call'[m], p)
         /\ ~Of(call[n], p) /\ ~Of(call'[n], p)
<1>1. call'[n] = NoCall \/ (call'[n] # NoCall /\ call'[n].path = call[n].path /\ call'[n].do = call[n].do)
  BY DEF Goes, Ends
<1>2. ~Lists(call[n], Parent[p]) /\ ~Lists(call'[n], Parent[p])
  BY <1>1 DEF Lists, Listers, NoCall
<1>3. \A m \in Nodes \ {n} : call'[m] = call[m]
  BY DEF Goes, Ends, Apart
<1>4. QED
  BY <1>1, <1>2, <1>3 DEF AlikeIn, Of

LEMMA LookPath ==
  ASSUME Typed, Overlaps, NEW n \in Nodes, Look(n), NEW p \in Paths, PathRight(p), Clear(p)',
         p \in Files => FileRight(p)
  PROVE  PathRight(p)'
<1> DEFINE c == call[n]
           d == call'[n]
           e == Parent[p]
           v == Text(list[Parent[call[n].path]])
<1>1. CallRight(c) /\ c # NoCall /\ c.at \in Nat /\ e \in AllDirs /\ e \in Above(p) /\ e # p
  <2>1. CallRight(c) /\ c # NoCall
    BY AtIs DEF Look
  <2>2. QED
    BY <2>1, Spans, ParentIsAbove
<1>2. CASE Died(n)
  BY <1>2, DiedPath
<1>3. CASE Is(c, "ls", 1, 1) /\ Goes(n) /\ UNCHANGED <<where, list, dirs>>
  <2>1. CalmAt(c) /\ KeepsName(c) /\ ~Is(c, "rmdir", 1, 1)
    BY <1>3 DEF Is, CalmAt, KeepsName
  <2>2. QED
    BY <1>1, <1>3, <2>1, CalmPath
<1>4. ASSUME c.path \in Paths, Goes(n), UNCHANGED <<where, list, dirs, faults>>,
             \/ (Is(c, "create", 4, 4) \/ Is(c, "mkdir", 2, 2)) /\ d.val = With(v, c.path)
             \/ /\ Is(c, "unlink", 3, 3) \/ Is(c, "rmdir", 2, 2)
                /\ Places(v, c.path) # {}
                /\ d.val = Without(v, c.path)
      PROVE  PathRight(p)'
  <2>1. /\ \/ c.do = "create" /\ c.at = 4
           \/ c.do = "mkdir" /\ c.at = 2
           \/ c.do = "unlink" /\ c.at = 3
           \/ c.do = "rmdir" /\ c.at = 2
        /\ c.do \in Listers
    BY <1>1, <1>4 DEF Is, Listers
  <2>2. d # NoCall /\ d.do = c.do /\ d.path = c.path /\ d.at = c.at + 1 /\ Apart(n)
    BY <1>4 DEF Goes
  <2>3. ~Inserting(c) /\ ~Inserting(d) /\ (Unlisted(c, p) <=> Unlisted(d, p)) /\ ~Ahead(c, p) /\ ~Ahead(d, p)
    <3>1. ~Inserting(c) /\ ~Inserting(d)
      BY <2>1, <2>2 DEF Inserting, Is
    <3>2. ~Ahead(c, p) /\ ~Ahead(d, p)
      BY <2>1, <2>2 DEF Ahead, Is
    <3>3. Unlisted(c, p) <=> Unlisted(d, p)
      <4>1. CASE c.do = "mkdir"
        BY <1>1, <2>1, <2>2, <4>1 DEF Unlisted, Of, Is
      <4>2. CASE c.do # "mkdir"
        BY <2>1, <2>2, <4>2 DEF Unlisted, Is
      <4>3. QED
        BY <4>1, <4>2
    <3>4. QED
      BY <3>1, <3>2, <3>3
  <2>4. Clear(p)
    BY <1>4, UpsetStays
  <2>5. \A m \in Nodes : AlikeAt(call[m], call'[m], p)
    BY <2>2, <2>3 DEF AlikeAt, Apart
  <2>6. (Exists(p)' <=> Exists(p)) /\ Expect(p)' = Expect(p)
    BY <1>4, <2>5, ExpectKeeps
  <2>7. \A m \in Nodes : Lists(call'[m], p) => Lists(call[m], p)
    BY <2>2 DEF Lists, Apart
  <2>8. DirThere(p)'
    BY <1>4, <2>6, <2>7 DEF PathRight, DirThere
  <2>9. \A m \in Nodes : DirStage(m, p)'
    BY <1>1, <1>4, <2>1, DirStageKeeps DEF PathRight, Is
  <2>10. CASE Parent[c.path] # e
    <3>1. \A m \in Nodes : AlikeIn(call[m], call'[m], p)
      BY <1>1, <1>4, <2>1, <2>10, ListerIs
    <3>2. QED
      BY <1>4, <2>6, <2>8, <2>9, <3>1, PathKeeps
  <2>11. CASE Parent[c.path] = e
    <3>1. Lists(c, e) /\ e \in Touched(n)
      BY <2>1, <2>11, Touching DEF Lists
    <3>2. \A m \in Nodes \ {n} : ~Lists(call[m], e) /\ ~Lists(call'[m], e)
      BY <1>1, <2>2, <2>4, <3>1, NobodyAt
    <3>3. ~Relisting(e)
      BY <2>3, <3>2 DEF Relisting
    <3>4. Times(v, p) = Expect(p) /\ v \in Listings
      <4>1. Times(v, p) = Expect(p)
        BY <2>11, <3>3 DEF PathRight, NameThere
      <4>2. list[e] \in Listings \union {NoList}
        BY <1>1 DEF Typed, TypeOK
      <4>3. QED
        BY <2>11, <4>1, <4>2, TextIsListing
    <3>5. NameThere(p)'
      BY <1>4, <2>6, <2>11, <3>4 DEF NameThere
    <3>6. NameNext(n, p)'
      <4>1. SUFFICES Times(d.val, p) = IF c.path # p THEN Expect(p)
                                       ELSE IF c.do \in {"create", "mkdir"} THEN 1 ELSE 0
        BY <2>2, <2>6 DEF NameNext
      <4>2. Expect(p) \in {0, 1}
        BY DEF Expect
      <4>3. CASE c.do \in {"create", "mkdir"}
        <5>1. d.val = With(v, c.path)
          BY <1>4, <2>1, <4>3 DEF Is
        <5>2. Times(d.val, p) = Expect(p) + IF p = c.path THEN 1 ELSE 0
          BY <1>4, <3>4, <5>1, WithAdds
        <5>3. CASE c.path # p
          BY <4>2, <5>2, <5>3
        <5>4. CASE c.path = p
          <6>1. Of(c, p) /\ p \in Touched(n)
            BY <1>1, <2>1, <5>4, Touching DEF Of
          <6>2. \A m \in Nodes : ~Ahead(call[m], p)
            BY <2>2, <2>3, <2>4, <6>1, NobodyAt
          <6>3. CASE c.do = "create"
            <7>1. p \in Files
              BY <1>1, <5>4, <6>3 DEF CallRight, FileCalls
            <7>2. where[p] = NoNode
              BY <2>1, <6>1, <6>3, <7>1 DEF FileRight, FileStage, Is
            <7>3. ~Due(p)
              BY <6>2, <7>1, <7>2 DEF Due, Exists
            <7>4. QED
              BY <4>3, <5>2, <5>4, <7>3 DEF Expect
          <6>4. CASE c.do = "mkdir"
            <7>1. Unlisted(c, p)
              BY <2>1, <6>1, <6>4 DEF Unlisted, Is
            <7>2. ~Due(p)
              BY <6>2, <7>1 DEF Due
            <7>3. QED
              BY <4>3, <5>2, <5>4, <7>2 DEF Expect
          <6>5. QED
            BY <4>3, <6>3, <6>4
        <5>5. QED
          BY <5>3, <5>4
      <4>4. CASE c.do \notin {"create", "mkdir"}
        <5>1. d.val = Without(v, c.path) /\ Places(v, c.path) # {}
          BY <1>4, <4>4 DEF Is
        <5>2. /\ Times(d.val, p) = Expect(p) - IF p = c.path THEN 1 ELSE 0
              /\ Times(v, c.path) >= 1
          BY <1>4, <3>4, <5>1, WithoutTakes
        <5>3. CASE c.path # p
          BY <4>2, <5>2, <5>3
        <5>4. CASE c.path = p
          <6>1. Expect(p) = 1
            BY <3>4, <4>2, <5>2, <5>4
          <6>2. QED
            BY <4>4, <5>2, <5>4, <6>1
        <5>5. QED
          BY <5>3, <5>4
      <4>5. QED
        BY <4>3, <4>4
    <3>7. QED
      BY <2>8, <2>9, <3>2, <3>5, <3>6, ListerKeeps
  <2>12. QED
    BY <2>10, <2>11
<1>5. QED
  <2>1. \/ Is(c, "ls", 1, 1) /\ Goes(n) /\ UNCHANGED <<where, list, dirs, faults>>
        \/ /\ c.path \in Paths
           /\ Is(c, "create", 4, 4) \/ Is(c, "mkdir", 2, 2)
           /\ Goes(n) /\ d.val = With(v, c.path)
           /\ UNCHANGED <<where, list, dirs, faults>>
        \/ /\ c.path \in Paths
           /\ Is(c, "unlink", 3, 3) \/ Is(c, "rmdir", 2, 2)
           /\ Places(v, c.path) # {}
           /\ Goes(n) /\ d.val = Without(v, c.path)
           /\ UNCHANGED <<where, list, dirs, faults>>
        \/ Died(n)
    BY LookIs
  <2>2. QED
    BY <1>2, <1>3, <1>4, <2>1

\* The directory's value is not there between the two steps.
LEMMA RemoveListPath ==
  ASSUME Typed, Overlaps, NEW n \in Nodes, RemoveList(n), NEW p \in Paths, PathRight(p), Clear(p)'
  PROVE  PathRight(p)'
<1> DEFINE c == call[n]
           d == call'[n]
           f == Parent[call[n].path]
           e == Parent[p]
<1>1. /\ c.path \in Paths /\ f \in AllDirs
      /\ \/ Is(c, "create", 5, 5) \/ Is(c, "unlink", 4, 4)
         \/ Is(c, "mkdir", 3, 3) \/ Is(c, "rmdir", 3, 3)
      /\ Goes(n) /\ Keeping(n)
      /\ list'[f] = NoList
      /\ \A q \in AllDirs \ {f} : list'[q] = list[q]
      /\ UNCHANGED <<where, dirs, faults>>
  BY RemoveListIs
<1>2. /\ CallRight(c) /\ c # NoCall /\ c.at \in Nat /\ e \in AllDirs /\ e \in Above(p) /\ e # p
      /\ Clear(p)
  <2>1. CallRight(c) /\ c # NoCall
    BY AtIs DEF RemoveList
  <2>2. Clear(p)
    BY <1>1, UpsetStays
  <2>3. QED
    BY <2>1, <2>2, Spans, ParentIsAbove
<1>3. /\ \/ c.do = "create" /\ c.at = 5
         \/ c.do = "unlink" /\ c.at = 4
         \/ c.do = "mkdir" /\ c.at = 3
         \/ c.do = "rmdir" /\ c.at = 3
      /\ c.do \in Listers
  BY <1>1, <1>2 DEF Is, Listers
<1>4. d # NoCall /\ d.do = c.do /\ d.path = c.path /\ d.at = c.at + 1 /\ Apart(n) /\ d.val = c.val
  BY <1>1 DEF Goes, Keeping
<1>5. /\ Removing(c) /\ ~Inserting(c) /\ Inserting(d)
      /\ (Unlisted(c, p) <=> Unlisted(d, p)) /\ ~Ahead(c, p) /\ ~Ahead(d, p)
  <2>1. Removing(c) /\ ~Inserting(c) /\ Inserting(d)
    BY <1>3, <1>4 DEF Removing, Inserting, Is
  <2>2. ~Ahead(c, p) /\ ~Ahead(d, p)
    BY <1>3, <1>4 DEF Ahead, Is
  <2>3. Unlisted(c, p) <=> Unlisted(d, p)
    <3>1. CASE c.do = "mkdir"
      BY <1>2, <1>3, <1>4, <3>1 DEF Unlisted, Of, Is
    <3>2. CASE c.do # "mkdir"
      BY <1>3, <1>4, <3>2 DEF Unlisted, Is
    <3>3. QED
      BY <3>1, <3>2
  <2>4. QED
    BY <2>1, <2>2, <2>3
<1>6. \A m \in Nodes \ {n} : call'[m] = call[m]
  BY <1>4 DEF Apart
<1>7. \A q : Lists(d, q) <=> Lists(c, q)
  BY <1>4 DEF Lists
<1>8. CASE f = p
  <2>1. p \in Dirs /\ p \notin Files
    BY <1>1, <1>8, FusionFSAssumption DEF FusionFSAssumption, AllDirs, Paths
  <2>2. Lists(c, p) /\ Lists(d, p)
    BY <1>3, <1>4, <1>8 DEF Lists
  <2>3. Exists(p)
    BY <2>1, <2>2 DEF PathRight, DirThere
  <2>4. Exists(p)'
    BY <1>5, <2>1, <2>2 DEF Exists, Relisting
  <2>5. Due(p)' <=> Due(p)
    BY <1>5, <1>6, <2>3, <2>4 DEF Due
  <2>6. p \in Touched(n)
    BY <2>2, Touching
  <2>7. \A m \in Nodes \ {n} : ~(Of(call'[m], p) /\ call'[m].do \in Listers)
    BY <1>2, <1>4, <2>6, NobodyAt
  <2>8. c.path # p
    BY <1>1, <1>8, ParentIsAbove
  <2>9. \A m \in Nodes : DirStage(m, p)'
    BY <1>4, <2>7, <2>8 DEF DirStage, Of, Is, Listers
  <2>10. f # e
    BY <1>2, <1>8
  <2>11. \A m \in Nodes : AlikeIn(call[m], call'[m], p)
    BY <1>1, <1>2, <1>3, <2>10, ListerIs
  <2>12. DirThere(p)'
    BY <2>4 DEF DirThere
  <2>13. QED
    BY <1>1, <1>2, <2>5, <2>9, <2>10, <2>11, <2>12, PathKeeps DEF Expect
<1>9. CASE f # p
  <2>1. p \notin Files => list'[p] = list[p]
    BY <1>1, <1>9 DEF Paths, AllDirs
  <2>2. ~Lists(c, p) /\ ~Lists(d, p)
    BY <1>4, <1>9 DEF Lists
  <2>3. \A m \in Nodes : AlikeAt(call[m], call'[m], p)
    BY <1>5, <1>6, <2>2 DEF AlikeAt
  <2>4. (Exists(p)' <=> Exists(p)) /\ Expect(p)' = Expect(p)
    BY <1>1, <2>1, <2>3, ExpectKeeps
  <2>5. DirThere(p)'
    BY <1>1, <1>6, <2>2, <2>4 DEF PathRight, DirThere
  <2>6. \A m \in Nodes : DirStage(m, p)'
    BY <1>1, <1>2, <1>3, <2>1, DirStageKeeps DEF PathRight, Is
  <2>7. CASE f # e
    <3>1. \A m \in Nodes : AlikeIn(call[m], call'[m], p)
      BY <1>1, <1>2, <1>3, <2>7, ListerIs
    <3>2. QED
      BY <1>1, <1>2, <2>4, <2>5, <2>6, <2>7, <3>1, PathKeeps
  <2>8. CASE f = e
    <3>1. Lists(c, e) /\ Lists(d, e) /\ e \in Touched(n)
      BY <1>3, <1>7, <2>8, Touching DEF Lists
    <3>2. \A m \in Nodes \ {n} : ~Lists(call'[m], e)
      BY <1>2, <1>4, <3>1, NobodyAt
    <3>3. NameThere(p)'
      BY <1>5, <3>1 DEF NameThere, Relisting
    <3>4. NameNext(n, p)'
      BY <1>4, <1>5, <2>4, <3>1 DEF PathRight, NameNext
    <3>5. QED
      BY <2>5, <2>6, <3>2, <3>3, <3>4, ListerKeeps
  <2>9. QED
    BY <2>7, <2>8
<1>10. QED
  BY <1>8, <1>9

LEMMA InsertListPath ==
  ASSUME Typed, Overlaps, NEW n \in Nodes, InsertList(n), NEW p \in Paths, PathRight(p), Clear(p)'
  PROVE  PathRight(p)'
<1> DEFINE c == call[n]
           d == call'[n]
           f == Parent[call[n].path]
           e == Parent[p]
<1>1. /\ c.path \in Paths /\ f \in AllDirs
      /\ \/ (Is(c, "create", 6, 6) \/ Is(c, "unlink", 5, 5) \/ Is(c, "rmdir", 4, 4)) /\ Goes(n)
         \/ Is(c, "mkdir", 4, 4) /\ Ends(n)
      /\ list'[f] = c.val
      /\ c.val \in Listings
      /\ \A q \in AllDirs \ {f} : list'[q] = list[q]
      /\ UNCHANGED <<where, dirs, faults>>
  BY InsertListIs
<1>2. /\ CallRight(c) /\ c # NoCall /\ c.at \in Nat /\ e \in AllDirs /\ e \in Above(p) /\ e # p
      /\ Clear(p) /\ c.path # f /\ NoList \notin Listings /\ Apart(n)
  <2>1. CallRight(c) /\ c # NoCall
    BY AtIs DEF InsertList
  <2>2. Clear(p)
    BY <1>1, UpsetStays
  <2>3. QED
    BY <1>1, <2>1, <2>2, Spans, ParentIsAbove, FusionFSAssumption DEF FusionFSAssumption, Goes, Ends
<1>3. /\ \/ c.do = "create" /\ c.at = 6 /\ Goes(n)
         \/ c.do = "unlink" /\ c.at = 5 /\ Goes(n)
         \/ c.do = "mkdir" /\ c.at = 4 /\ Ends(n)
         \/ c.do = "rmdir" /\ c.at = 4 /\ Goes(n)
      /\ c.do \in Listers
  BY <1>1, <1>2 DEF Is, Listers
<1>4. \/ d = NoCall /\ c.do = "mkdir" /\ d.do = "none"
      \/ c.do # "mkdir" /\ d # NoCall /\ d.do = c.do /\ d.path = c.path /\ d.at = c.at + 1
  BY <1>3 DEF Goes, Ends, NoCall
<1>5. Inserting(c) /\ ~Removing(d) /\ ~Inserting(d) /\ ~Ahead(c, p)
  <2>1. Inserting(c) /\ ~Ahead(c, p)
    BY <1>3 DEF Inserting, Ahead, Is
  <2>2. ~Removing(d) /\ ~Inserting(d)
    BY <1>3, <1>4 DEF Removing, Inserting, Is
  <2>3. QED
    BY <2>1, <2>2
<1>6. \A m \in Nodes \ {n} : call'[m] = call[m]
  BY <1>2 DEF Apart
<1>7. \A q : Lists(d, q) => Lists(c, q)
  BY <1>4 DEF Lists, Listers
<1>8. ~Of(c, p) => ~Of(d, p)
  BY <1>2, <1>4 DEF Of
<1>9. CASE f = p
  <2>1. p \in Dirs /\ p \notin Files
    BY <1>1, <1>9, FusionFSAssumption DEF FusionFSAssumption, AllDirs, Paths
  <2>2. Lists(c, p)
    BY <1>3, <1>9 DEF Lists
  <2>3. Exists(p)
    BY <2>1, <2>2 DEF PathRight, DirThere
  <2>4. Exists(p)'
    BY <1>1, <1>2, <1>9, <2>1 DEF Exists
  <2>5. ~Of(c, p) /\ ~Of(d, p)
    BY <1>2, <1>8, <1>9 DEF Of
  <2>6. Due(p)' <=> Due(p)
    BY <1>6, <2>3, <2>4, <2>5 DEF Due, Unlisted, Ahead
  <2>7. p \in Touched(n)
    BY <2>2, Touching
  <2>8. \A m \in Nodes \ {n} : ~(Of(call'[m], p) /\ call'[m].do \in Listers)
    BY <1>2, <2>7, NobodyAt
  <2>9. \A m \in Nodes : DirStage(m, p)'
    BY <2>5, <2>8 DEF DirStage, Is, Listers
  <2>10. f # e
    BY <1>2, <1>9
  <2>11. \A m \in Nodes : AlikeIn(call[m], call'[m], p)
    BY <1>1, <1>2, <1>3, <2>10, ListerIs
  <2>12. DirThere(p)'
    BY <2>4 DEF DirThere
  <2>13. QED
    BY <1>1, <1>2, <2>6, <2>9, <2>10, <2>11, <2>12, PathKeeps DEF Expect
<1>10. CASE f # p
  <2>1. p \notin Files => list'[p] = list[p]
    BY <1>1, <1>10 DEF Paths, AllDirs
  <2>2. ~Lists(c, p) /\ ~Lists(d, p)
    BY <1>7, <1>10 DEF Lists
  <2>3. Exists(p)' <=> Exists(p)
    <3>1. Relisting(p)' <=> Relisting(p)
      BY <1>6, <2>2 DEF Relisting
    <3>2. QED
      BY <1>1, <2>1, <3>1 DEF Exists
  <2>4. DirThere(p)'
    BY <1>1, <1>6, <2>2, <2>3 DEF PathRight, DirThere
  <2>5. \A m \in Nodes : DirStage(m, p)'
    <3>1. ~Is(c, "mkdir", 1, 1) /\ ~Is(c, "rmdir", 1, 1) /\ (Goes(n) \/ Ends(n))
      BY <1>3 DEF Is
    <3>2. QED
      BY <1>2, <2>1, <3>1, DirStageKeeps DEF PathRight
  <2>6. ~Of(c, p) => Expect(p)' = Expect(p)
    <3>1. ASSUME ~Of(c, p)
          PROVE  Due(p)' <=> Due(p)
      BY <1>6, <1>8, <2>3, <3>1 DEF Due, Unlisted, Ahead
    <3>2. QED
      BY <3>1 DEF Expect
  <2>7. CASE f # e
    <3>1. (\A m \in Nodes : AlikeIn(call[m], call'[m], p)) /\ ~Of(c, p)
      BY <1>1, <1>2, <1>3, <2>7, ListerIs
    <3>2. QED
      BY <1>1, <1>2, <2>4, <2>5, <2>6, <2>7, <3>1, PathKeeps
  <2>8. CASE f = e
    <3>1. Lists(c, e) /\ e \in Touched(n)
      BY <1>3, <2>8, Touching DEF Lists
    <3>2. \A m \in Nodes \ {n} : ~Lists(call'[m], e)
      BY <1>2, <3>1, NobodyAt
    <3>3. NameNext(n, p)'
      BY <1>5 DEF NameNext
    <3>4. Times(Text(list'[e]), p) = IF c.path # p THEN Expect(p)
                                     ELSE IF c.do \in {"create", "mkdir"} THEN 1 ELSE 0
      <4>1. Text(c.val) = c.val
        BY <1>1, <1>2 DEF Text
      <4>2. QED
        BY <1>1, <1>5, <2>8, <3>1, <4>1 DEF PathRight, NameNext
    <3>5. Times(Text(list'[e]), p) = Expect(p)'
      <4>1. CASE c.path # p
        BY <2>6, <3>4, <4>1 DEF Of
      <4>2. CASE c.path = p
        <5>1. Of(c, p) /\ p \in Touched(n)
          BY <1>2, <1>3, <4>2, Touching DEF Of
        <5>2. \A m \in Nodes \ {n} : ~Ahead(call'[m], p) /\ ~Unlisted(call'[m], p)
          BY <1>2, <5>1, NobodyAt
        <5>3. CASE c.do = "create"
          <6>1. Ahead(d, p)
            BY <1>3, <1>4, <4>2, <5>3 DEF Ahead, Of, Is
          <6>2. Due(p)'
            BY <6>1 DEF Due
          <6>3. QED
            BY <3>4, <4>2, <5>3, <6>2 DEF Expect
        <5>4. CASE c.do = "mkdir"
          <6>1. p \in Dirs /\ p \notin Files
            BY <1>2, <4>2, <5>4, FusionFSAssumption DEF CallRight, FusionFSAssumption
          <6>2. list[p] # NoList
            BY <1>3, <5>1, <5>4 DEF PathRight, DirStage, Is
          <6>3. Exists(p)
            BY <6>1, <6>2 DEF Exists
          <6>4. ~Unlisted(d, p)
            BY <1>4, <5>4 DEF Unlisted, Of
          <6>5. Due(p)'
            BY <2>3, <5>2, <6>3, <6>4 DEF Due
          <6>6. QED
            BY <3>4, <4>2, <5>4, <6>5 DEF Expect
        <5>5. CASE c.do \in {"unlink", "rmdir"}
          <6>1. Unlisted(d, p) /\ ~Ahead(d, p)
            BY <1>3, <1>4, <4>2, <5>5 DEF Unlisted, Ahead, Of, Is
          <6>2. ~Due(p)'
            BY <5>2, <6>1 DEF Due
          <6>3. QED
            BY <3>4, <4>2, <5>5, <6>2 DEF Expect
        <5>6. QED
          BY <1>3, <5>3, <5>4, <5>5
      <4>3. QED
        BY <4>1, <4>2
    <3>6. NameThere(p)'
      BY <3>5 DEF NameThere
    <3>7. QED
      BY <2>4, <2>5, <3>2, <3>3, <3>6, ListerKeeps
  <2>9. QED
    BY <2>7, <2>8
<1>11. QED
  BY <1>9, <1>10

\* A step that leaves the values, the directories and the calls.
LEMMA StillPath ==
  ASSUME UNCHANGED <<where, list, dirs, call>>, NEW p \in Paths, PathRight(p)
  PROVE  PathRight(p)'
<1>1. \A m \in Nodes : AlikeAt(call[m], call'[m], p) /\ AlikeIn(call[m], call'[m], p)
  BY DEF AlikeAt, AlikeIn
<1>2. (Exists(p)' <=> Exists(p)) /\ Expect(p)' = Expect(p)
  BY <1>1, ExpectKeeps
<1>3. DirThere(p)' /\ \A m \in Nodes : DirStage(m, p)'
  BY <1>2 DEF PathRight, DirThere, DirStage
<1>4. QED
  BY <1>1, <1>2, <1>3, PathKeeps

-----------------------------------------------------------------------------
(***************************************************************************)
(* A directory whose value is blank has nothing under it, at any depth.    *)
(***************************************************************************)
\* Who goes from a path to its directory, and on, comes to "/".
LEMMA NoEndlessPath ==
  ASSUME NEW S \in SUBSET Paths, \A q \in S : Parent[q] \in S
  PROVE  S = {}
<1>1. SUFFICES ASSUME S # {}
               PROVE  FALSE
  OBVIOUS
<1>2. IsFiniteSet(AllDirs)
  BY FusionFSAssumption, FS_AddElement DEF FusionFSAssumption, AllDirs
<1>3. ASSUME NEW q \in S
      PROVE  /\ IsFiniteSet(Above(q)) /\ Cardinality(Above(q)) \in 0..Cardinality(AllDirs)
             /\ Cardinality(Above(q)) \in Nat
  <2>1. Above(q) \subseteq AllDirs
    BY DEF Above
  <2>2. IsFiniteSet(Above(q)) /\ Cardinality(Above(q)) <= Cardinality(AllDirs)
    BY <1>2, <2>1, FS_Subset
  <2>3. Cardinality(Above(q)) \in Nat /\ Cardinality(AllDirs) \in Nat
    BY <1>2, <2>2, FS_CardinalityType
  <2>4. QED
    BY <2>2, <2>3
<1> DEFINE N == {Cardinality(Above(q)) : q \in S}
<1>4. N \in SUBSET Nat /\ N # {}
  BY <1>1, <1>3
<1>5. IsFiniteSet(N)
  <2>1. N \in SUBSET (0..Cardinality(AllDirs))
    BY <1>3
  <2>2. Cardinality(AllDirs) \in Nat
    BY <1>2, FS_CardinalityType
  <2>3. IsFiniteSet(0..Cardinality(AllDirs))
    BY <2>2, FS_Interval
  <2>4. QED
    BY <2>1, <2>3, FS_Subset
<1>6. PICK k \in N : \A m \in N : k <= m
  <2> HIDE DEF N
  <2>1. QED
    BY <1>4, <1>5, LeastExists
<1>7. PICK q \in S : k = Cardinality(Above(q))
  BY <1>6
<1> DEFINE e == Parent[q]
<1>8. e \in S /\ e \in Dirs /\ e \in Above(q) /\ e \notin Above(e) /\ Above(e) \subseteq Above(q)
  <2>1. e \in S /\ e \in AllDirs /\ Root \notin Paths
    BY ParentIsAbove, FusionFSAssumption DEF FusionFSAssumption
  <2>2. e \in Dirs
    BY <2>1 DEF AllDirs
  <2>3. QED
    BY <2>1, <2>2, ParentIsAbove
<1>9. Cardinality(Above(e)) < Cardinality(Above(q))
  <2>1. Cardinality(Above(e)) <= Cardinality(Above(q)) /\ Cardinality(Above(e)) # Cardinality(Above(q))
    BY <1>3, <1>8, FS_Subset
  <2>2. QED
    BY <1>3, <1>8, <2>1
<1>10. k <= Cardinality(Above(e))
  BY <1>6, <1>8
<1>11. QED
  BY <1>3, <1>7, <1>8, <1>9, <1>10

LEMMA NothingUnder ==
  ASSUME Typed, Overlaps, \A q \in Paths : Clear(q) => PathRight(q),
         NEW n \in Nodes, call[n] # NoCall, call[n].do = "rmdir", call[n].path \in Dirs,
         list[call[n].path] = Blank,
         NEW p \in Files, p \in Under[call[n].path], Clear(p)
  PROVE  where[p] = NoNode
<1> DEFINE d == call[n].path
           S == {q \in Paths : q \in Under[d] /\ Exists(q) /\ Clear(q)}
<1>1. SUFFICES ASSUME where[p] # NoNode
               PROVE  FALSE
  OBVIOUS
<1>2. p \in S
  BY <1>1 DEF Exists, Paths
<1>3. d \in Touched(n) /\ ~Lists(call[n], d) /\ d \in Paths /\ d \in AllDirs /\ Root \notin Dirs
  <2>1. d \in Touched(n)
    BY Touching DEF Of, Listers
  <2>2. d \in Paths /\ d \in AllDirs /\ Root \notin Dirs
    BY FusionFSAssumption DEF Paths, AllDirs, FusionFSAssumption
  <2>3. QED
    BY <2>1, <2>2, ParentIsAbove DEF Lists
<1>4. ASSUME NEW q \in S
      PROVE  Parent[q] \in S
  <2> DEFINE e == Parent[q]
  <2>1. PathRight(q) /\ e \in AllDirs /\ d \in Above(q)
    BY <1>3, <1>4, ParentIsAbove DEF Above
  <2>2. \A m \in Nodes : ~Lists(call[m], d)
    BY <1>3, <1>4, <2>1, Alone
  <2>3. \A m \in Nodes : Unlisted(call[m], q) => Lists(call[m], e)
    BY DEF Unlisted, Lists, Listers, Of, Is
  <2>4. Due(q) \/ \E m \in Nodes : Unlisted(call[m], q)
    BY <1>4 DEF Due
  <2>5. Times(Text(list[e]), q) = 0 /\ ~Relisting(e) => \E m \in Nodes : Lists(call[m], e)
    <3>1. SUFFICES ASSUME Times(Text(list[e]), q) = 0, ~Relisting(e)
                   PROVE  \E m \in Nodes : Lists(call[m], e)
      OBVIOUS
    <3>2. Expect(q) = 0
      BY <2>1, <3>1 DEF PathRight, NameThere
    <3>3. ~Due(q)
      BY <3>2 DEF Expect
    <3>4. QED
      BY <2>3, <2>4, <3>3
  <2>6. e # d
    <3>1. SUFFICES ASSUME e = d
                   PROVE  FALSE
      OBVIOUS
    <3>2. Times(Text(list[e]), q) = 0
      BY <3>1, BlankIsListing
    <3>3. ~Relisting(e)
      BY <2>2, <3>1 DEF Relisting
    <3>4. QED
      BY <2>2, <2>5, <3>1, <3>2, <3>3
  <2>7. e \in Under[d] /\ e \in Dirs /\ e \in Paths /\ e \notin Files
    BY <1>3, <1>4, <2>1, <2>6, FusionFSAssumption DEF FusionFSAssumption, AllDirs, Paths
  <2>8. Clear(e) /\ PathRight(e)
    BY <1>4, <2>7, ClearAbove
  <2>9. Exists(e)
    <3>1. SUFFICES ASSUME ~Exists(e)
                   PROVE  FALSE
      OBVIOUS
    <3>2. list[e] = NoList /\ ~Relisting(e)
      BY <2>7, <3>1 DEF Exists
    <3>3. \E m \in Nodes : Lists(call[m], e)
      BY <2>5, <3>2, BlankIsListing
    <3>4. QED
      BY <2>7, <2>8, <3>1, <3>3 DEF PathRight, DirThere
  <2>10. QED
    BY <2>7, <2>8, <2>9
<1>5. S = {}
  <2>1. S \in SUBSET Paths
    OBVIOUS
  <2> HIDE DEF S
  <2>2. QED
    BY <1>4, <2>1, NoEndlessPath
<1>6. QED
  BY <1>2, <1>5

-----------------------------------------------------------------------------
(***************************************************************************)
(* The invariant is inductive.                                             *)
(***************************************************************************)
LEMMA FaultsStay ==
  ASSUME [Next]_vars
  PROVE  faults \subseteq faults'
<1>1. CASE UNCHANGED vars
  BY <1>1 DEF vars
<1>2. ASSUME NEW n \in Nodes, Mount(n) \/ Crash(n) \/ Write(n)
      PROVE  faults \subseteq faults'
  BY <1>2 DEF Mount, Crash, Dies, Write, Fault
<1>3. ASSUME NEW n \in Nodes, Starts(n)
      PROVE  faults \subseteq faults'
  BY <1>3 DEF Starts, StartOpen, StartCreate, StartUnlink, StartRename, StartClose, StartMkdir,
              StartRmdir, StartLs, Begin, Fault
<1>4. ASSUME NEW n \in Nodes, FileStep(n)
      PROVE  faults \subseteq faults'
  BY <1>4 DEF FileStep, Lookup, Fetch, Open, Creat, RenameCopy, Settle, RemoveKey, InsertKey,
              RemoveCopy, Fault
<1>5. ASSUME NEW n \in Nodes, DirStep(n)
      PROVE  faults \subseteq faults'
  BY <1>5 DEF DirStep, Mkdir, Rmdir, Look, Dies, RemoveList, InsertList, Show, Fault
<1>6. QED
  BY <1>1, <1>2, <1>3, <1>4, <1>5 DEF Next, User

LEMMA FileNext ==
  ASSUME Inv, [Next]_vars, NEW p \in Files, Clear(p)'
  PROVE  FileRight(p)'
<1>1. Clear(p) /\ FileRight(p) /\ Typed /\ Overlaps /\ Stages
  BY FaultsStay, UpsetStays DEF Inv
<1>2. CASE UNCHANGED vars
  BY <1>1, <1>2 DEF vars, zhtVars, localVars, FileRight, FileStage, WriterRight, CopiesRight,
                    Between, OwnerRight, LatestRight, Writer, Opened, Writes, Upset, Above
<1>3. ASSUME NEW n \in Nodes, Mount(n) \/ Crash(n) \/ Write(n)
      PROVE  FileRight(p)'
  BY <1>1, <1>3, MountFile, CrashIs, DiedFile, WriteFile
<1>4. ASSUME NEW n \in Nodes, Free(n), Starts(n)
      PROVE  FileRight(p)'
  BY <1>1, <1>4, StartIs, BegunFile
<1>5. ASSUME NEW n \in Nodes, FileStep(n)
      PROVE  FileRight(p)'
  BY <1>1, <1>5, LookupFile, FetchFile, OpenFile, CreatFile, RenameCopyFile, SettleFile,
     RemoveKeyFile, InsertKeyFile, RemoveCopyFile DEF FileStep
<1>6. ASSUME NEW n \in Nodes, Rmdir(n)
      PROVE  FileRight(p)'
  <2>1. call[n] # NoCall /\ call[n].do = "rmdir" /\ call[n].path \in Dirs
    <3>1. call[n] # NoCall
      BY <1>6 DEF Rmdir, At
    <3>2. QED
      BY <1>1, <1>6, <3>1, RmdirIs DEF Is
  <2>2. list[call[n].path] = Blank /\ p \in Under[call[n].path] => where[p] = NoNode
    BY <1>1, <2>1, NothingUnder DEF Inv
  <2>3. QED
    BY <1>1, <1>6, <2>2, RmdirFile
<1>7. ASSUME NEW n \in Nodes, DirStep(n)
      PROVE  FileRight(p)'
  BY <1>1, <1>6, <1>7, DirStepFile DEF DirStep
<1>8. QED
  BY <1>2, <1>3, <1>4, <1>5, <1>7 DEF Next, User

LEMMA PathNext ==
  ASSUME Inv, [Next]_vars, NEW p \in Paths, Clear(p)'
  PROVE  PathRight(p)'
<1>1. /\ Clear(p) /\ PathRight(p) /\ Typed /\ Overlaps
      /\ p \in Files => FileRight(p)
      /\ Parent[p] \in Dirs => PathRight(Parent[p])
  <2>1. Clear(p)
    BY FaultsStay, UpsetStays
  <2>2. Parent[p] \in Dirs => PathRight(Parent[p])
    BY <2>1, ClearAbove DEF Inv, Paths
  <2>3. QED
    BY <2>1, <2>2 DEF Inv
<1>2. CASE UNCHANGED vars
  <2>1. UNCHANGED <<where, list, dirs, call>>
    BY <1>2 DEF vars, zhtVars, localVars
  <2>2. QED
    BY <1>1, <2>1, StillPath
<1>3. ASSUME NEW n \in Nodes, Mount(n) \/ Crash(n)
      PROVE  PathRight(p)'
  BY <1>1, <1>3, MountPath, CrashIs, DiedPath
<1>4. ASSUME NEW n \in Nodes, Write(n)
      PROVE  PathRight(p)'
  <2>1. UNCHANGED <<where, list, dirs, call>>
    BY <1>1, <1>4, WriteIs
  <2>2. QED
    BY <1>1, <2>1, StillPath
<1>5. ASSUME NEW n \in Nodes, Free(n), Starts(n)
      PROVE  PathRight(p)'
  <2>1. \E do, path : Begun(n, do, path) /\ (do \in Listers => Sees(n, Parent[path]))
    BY <1>1, <1>5, StartIs DEF Listers
  <2>2. QED
    BY <1>1, <2>1, BegunPath
<1>6. ASSUME NEW n \in Nodes, FileStep(n)
      PROVE  PathRight(p)'
  BY <1>1, <1>6, FileStepPath, RemoveKeyPath, InsertKeyPath DEF FileStep
<1>7. ASSUME NEW n \in Nodes, DirStep(n)
      PROVE  PathRight(p)'
  BY <1>1, <1>7, MkdirPath, RmdirShowPath, LookPath, RemoveListPath, InsertListPath DEF DirStep
<1>8. QED
  BY <1>2, <1>3, <1>4, <1>5, <1>6, <1>7 DEF Next, User

LEMMA InvNext ==
  ASSUME Inv, [Next]_vars
  PROVE  Inv'
<1>1. Typed' /\ Overlaps' /\ Stages'
  BY NextTyped, StagesNext DEF Inv
<1>2. (\A p \in Files : Clear(p) => FileRight(p))'
  BY FileNext
<1>3. (\A p \in Paths : Clear(p) => PathRight(p))'
  BY PathNext
<1>4. QED
  BY <1>1, <1>2, <1>3 DEF Inv

LEMMA InitInv ==
  ASSUME Init
  PROVE  Inv
<1>1. /\ \A n \in Nodes : call[n] = NoCall /\ handle[n] = Closed /\ dirs[n] = {}
      /\ \A n \in Nodes, f \in Files : copy[n][f] = 0
      /\ \A f \in Files : where[f] = NoNode
      /\ \A d \in AllDirs : list[d] = NoList
      /\ Files \cap Dirs = {}
  BY FusionFSAssumption DEF Init, FusionFSAssumption
<1>2. \A n \in Nodes : Touched(n) = {}
  BY <1>1 DEF Touched, Alters, NoCall, Closed
<1>3. /\ NoCall.do = "none" /\ \A q : ~Of(NoCall, q) /\ ~Lists(NoCall, q)
      /\ ~Closed.writes
  BY DEF NoCall, Of, Lists, Listers, Closed
<1>4. Stages
  BY <1>1, <1>3 DEF Stages, HandleStage, AddrStage, Is
<1>5. ASSUME NEW p \in Files
      PROVE  FileRight(p)
  <2>1. \A n \in Nodes : FileStage(n, p) /\ WriterRight(n, p)
    BY <1>1, <1>3 DEF FileStage, WriterRight, Opened
  <2>2. CopiesRight(p) /\ OwnerRight(p)
    BY <1>1 DEF CopiesRight, OwnerRight
  <2>3. LatestRight(p)
    BY <1>1, <1>3 DEF LatestRight, Writer, Writes, Opened
  <2>4. QED
    BY <2>1, <2>2, <2>3 DEF FileRight
<1>6. ASSUME NEW p \in Paths
      PROVE  PathRight(p)
  <2>1. Parent[p] \in AllDirs /\ (p \notin Files => p \in AllDirs)
    BY ParentIsAbove DEF Paths, AllDirs
  <2>2. \A q : ~Relisting(q)
    BY <1>1, <1>3 DEF Relisting
  <2>3. ~Exists(p)
    BY <1>1, <2>1, <2>2 DEF Exists
  <2>4. Expect(p) = 0
    BY <1>1, <1>3, <2>3 DEF Expect, Due, Ahead
  <2>5. NameThere(p)
    BY <1>1, <2>1, <2>4, BlankIsListing DEF NameThere
  <2>6. DirThere(p)
    BY <1>1, <1>3 DEF DirThere
  <2>7. \A n \in Nodes : DirStage(n, p) /\ NameNext(n, p)
    BY <1>1, <1>3 DEF DirStage, NameNext
  <2>8. QED
    BY <2>5, <2>6, <2>7 DEF PathRight
<1>7. QED
  BY <1>2, <1>4, <1>5, <1>6, InitTyped DEF Inv, Overlaps

LEMMA AlwaysInv == Spec => []Inv
<1>1. Init => Inv
  BY InitInv
<1>2. Inv /\ [Next]_vars => Inv'
  BY InvNext
<1>3. QED
  BY <1>1, <1>2, PTL DEF Spec

-----------------------------------------------------------------------------
(***************************************************************************)
(* What users see when no call is at a path.                               *)
(***************************************************************************)
LEMMA QuietIs ==
  ASSUME NEW p \in Paths, Quiet(p), NEW n \in Nodes
  PROVE  /\ ~Lists(call[n], p) /\ ~Lists(call[n], Parent[p])
         /\ ~Unlisted(call[n], p) /\ ~Ahead(call[n], p)
         /\ ~Writes(call[n], p)
<1>1. p \notin Alters(call[n]) /\ Parent[p] \notin Alters(call[n])
  BY ParentIsAbove DEF Quiet
<1>2. QED
  BY <1>1 DEF Lists, Listers, Unlisted, Ahead, Writes, Alters, Of, Is

\* ListedIffKept: whatever calls, of whichever nodes, have interleaved at other paths, a
\* directory has a name once if there is a value under the path in ZHT, and else not, unless
\* a fault that takes values or copies away has been at the path or above it.
THEOREM ListedIffThere == Spec => []ListedIffKept
<1>1. Inv => ListedIffKept
  <2>1. SUFFICES ASSUME Inv, NEW p \in Paths, Quiet(p), Clear(p)
                 PROVE  LET names == Text(list[Parent[p]]).names
                        IN Cardinality({i \in DOMAIN names : names[i] = p}) = IF Kept(p) THEN 1 ELSE 0
    BY DEF ListedIffKept, Clear
  <2>2. \A n \in Nodes : /\ ~Lists(call[n], p) /\ ~Lists(call[n], Parent[p])
                         /\ ~Unlisted(call[n], p) /\ ~Ahead(call[n], p)
    BY <2>1, QuietIs
  <2>3. ~Relisting(p) /\ ~Relisting(Parent[p])
    BY <2>2 DEF Relisting
  <2>4. Due(p) <=> Kept(p)
    BY <2>2, <2>3 DEF Due, Exists, Kept
  <2>5. Times(Text(list[Parent[p]]), p) = Expect(p)
    BY <2>1, <2>3 DEF Inv, PathRight, NameThere
  <2>6. QED
    BY <2>4, <2>5 DEF Expect, Times, PlacesOf
<1>2. QED
  BY <1>1, AlwaysInv, PTL

\* OwnerHasCopy: the node that ZHT names for a file has a copy of it.
THEOREM OwnerKeepsCopy == Spec => []OwnerHasCopy
<1>1. Inv => OwnerHasCopy
  BY DEF Inv, OwnerHasCopy, Clear, FileRight, OwnerRight
<1>2. QED
  BY <1>1, AlwaysInv, PTL

\* LatestKept: what was written last to a file, by whichever node, is what its owner has
\* when no node writes it.
THEOREM LatestStays == Spec => []LatestKept
<1>1. Inv => LatestKept
  <2>1. SUFFICES ASSUME Inv, NEW f \in Files, Quiet(f), where[f] # NoNode, ~Upset(f, Kinds),
                        \A n \in Nodes : ~(handle[n].writes /\ handle[n].file = f)
                 PROVE  copy[where[f]][f] = latest[f]
    BY DEF LatestKept
  <2>2. LatestRight(f)
    BY <2>1, UpsetIsClear DEF Inv, FileRight
  <2>3. \A n \in Nodes : ~Writer(n, f)
    BY <2>1, QuietIs DEF Writer, Opened, Paths
  <2>4. QED
    BY <2>1, <2>2, <2>3 DEF LatestRight
<1>2. QED
  BY <1>1, AlwaysInv, PTL

=============================================================================
