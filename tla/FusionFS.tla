------------------------------ MODULE FusionFS ------------------------------
(***************************************************************************)
(* FusionFS (fusionfs/fusionfs.c, util.c): a file system on several nodes. *)
(* A file is kept on one node, under its path in the local file system.    *)
(* ZHT has, under the file's path, the address of that node, and, under a  *)
(* directory's path with a "/", the names in it.  A node that looks at a   *)
(* file copies it (ffsnet) and, if it has opened it for writing, takes it  *)
(* over when it closes it.                                                 *)
(*                                                                         *)
(* A call is a sequence of steps, each one request to ZHT or to a node's   *)
(* ffsnetd with the work on local files next to it; the calls of the nodes *)
(* interleave, and nothing is locked.  The kernel asks for the attributes  *)
(* of a path (fusion_getattr: "lookup", "fetch") before it opens, creates, *)
(* removes or renames a file.                                              *)
(*                                                                         *)
(* A lookup that finds nothing returns -92, never ZHT_LOOKUP_FAIL          *)
(* (params.h: -2): no call learns that a path does not exist, and each     *)
(* goes on with the empty value.  A node sees a directory if it has one of *)
(* that path in its local file system.                                     *)
(*                                                                         *)
(* What goes wrong by itself is recorded in faults, so that the properties *)
(* can say which faults they withstand.                                    *)
(***************************************************************************)
EXTENDS Integers, Sequences, FiniteSets, Functions

CONSTANTS
  Nodes,      \* nodes, by their addresses
  Files,      \* paths of files
  Dirs,       \* paths of directories other than "/"
  Root,       \* "/"
  Parent,     \* Parent[p]: the directory p is in
  Under,      \* Under[d]: paths that begin with d and a "/"
  Sweeps,     \* Sweeps[d]: paths that begin with d
  NoNode,     \* the empty address
  NoList,     \* no value under a directory's path
  MaxWrites,  \* bound: writes, of all files
  MaxNames,   \* bound: names in a directory
  MaxFaults   \* bound: faults up to which nodes are mounted, crash, write and begin calls that overlap

Paths == Files \union Dirs
AllDirs == Dirs \union {Root}

\* What can be under a directory's path.
Listings == [head : BOOLEAN, names : Seq(Paths)]

ASSUME FusionFSAssumption ==
  /\ Root \notin Paths /\ Files \cap Dirs = {} /\ IsFiniteSet(Dirs)
  /\ Parent \in [Paths -> AllDirs]
  /\ Under \in [AllDirs -> SUBSET Paths] /\ Sweeps \in [AllDirs -> SUBSET Paths]
  /\ \A p \in Paths : \A d \in AllDirs :
       p \in Under[d] <=> Parent[p] = d \/ (Parent[p] # Root /\ Parent[p] \in Under[d])
  /\ \A d \in Dirs : d \notin Under[d]
  /\ \A d \in AllDirs : Under[d] \union ({d} \ {Root}) \subseteq Sweeps[d]
  /\ NoNode \notin Nodes /\ NoList \notin Listings
  /\ {MaxWrites, MaxNames, MaxFaults} \subseteq Nat

VARIABLES
  where,    \* where[f]: the value under a file's path
  list,     \* list[d]: the value under a directory's path
  copy,     \* copy[n][f]: the version n has of f; 0 for none
  dirs,     \* dirs[n]: the directories n has
  mounted,  \* nodes whose file system is mounted
  call,     \* call[n]: the call n's file system is at
  handle,   \* handle[n]: the file n has open
  latest,   \* history: latest[f]: the version that was written last
  faults    \* history: what has gone wrong, and with which path

zhtVars == <<where, list>>
localVars == <<copy, dirs, handle>>
vars == <<zhtVars, localVars, mounted, call, latest, faults>>

NoCall == [do |-> "none", at |-> 0]
Closed == [file |-> Root, writes |-> FALSE, linked |-> FALSE]

\* The steps of each call; close and drop are fusion_release of a file opened for writing
\* and for reading.
Steps ==
  [read   |-> <<"lookup", "fetch", "open">>,
   write  |-> <<"lookup", "fetch", "open">>,
   create |-> <<"lookup", "fetch", "creat", "look", "removeList", "insertList", "insertKey">>,
   unlink |-> <<"lookup", "fetch", "look", "removeList", "insertList", "lookup", "removeKey",
                "removeCopy">>,
   rename |-> <<"lookup", "fetch", "rename">>,
   close  |-> <<"lookup", "settle", "lookup", "removeKey", "insertKey", "removeCopy">>,
   drop   |-> <<"lookup", "settle">>,
   mkdir  |-> <<"mkdir", "look", "removeList", "insertList">>,
   rmdir  |-> <<"rmdir", "look", "removeList", "insertList", "removeKey">>,
   ls     |-> <<"look", "show">>]

-----------------------------------------------------------------------------
(***************************************************************************)
(* A directory's value: each name with a blank after it, and, if head      *)
(* holds, a blank before them all.                                         *)
(***************************************************************************)
Listing(head, names) == [head |-> head, names |-> names]

Blank == Listing(TRUE, <<>>)

\* What a lookup leaves in the buffer.
Text(v) == IF v = NoList THEN Listing(FALSE, <<>>) ELSE v

\* zht_append: the name and a blank.
With(v, name) == [v EXCEPT !.names = Append(@, name)]

\* strstr of the name with a blank on either side.
Places(v, name) == {i \in DOMAIN v.names : v.names[i] = name /\ (i > 1 \/ v.head)}

\* zht_delete: the first of them is cut out.
Without(v, name) ==
  LET i == CHOOSE i \in Places(v, name) : \A j \in Places(v, name) : i <= j
  IN [v EXCEPT !.names = SubSeq(@, 1, i - 1) \o SubSeq(@, i + 1, Len(@))]

-----------------------------------------------------------------------------
(***************************************************************************)
(* Calls.                                                                  *)
(***************************************************************************)
At(n, step) ==
  /\ call[n] # NoCall
  /\ Steps[call[n].do][call[n].at] = step

\* The call goes on, keeping what it has looked up or not, and comes to an end.
Onward(c) == IF c.at = Len(Steps[c.do]) THEN NoCall ELSE [c EXCEPT !.at = @ + 1]
Continue(n) == call' = [call EXCEPT ![n] = Onward(@)]
Forgets(c) == IF c = NoCall THEN c ELSE [c EXCEPT !.addr = NoNode, !.val = Blank]
Proceed(n) == call' = [call EXCEPT ![n] = Forgets(Onward(@))]
Return(n) == call' = [call EXCEPT ![n] = NoCall]

\* Paths whose values or copies a call changes.
Alters(c) ==
  CASE c.do \in {"create", "unlink", "mkdir", "rmdir"} -> {c.path, Parent[c.path]}
    [] c.do = "rename" -> {c.path, c.to}
    [] c.do \in {"write", "close"} -> {c.path}
    [] OTHER -> {}

\* Paths that n is changing, or has open for it.
Touched(n) == Alters(call[n]) \union IF handle[n].writes THEN {handle[n].file} ELSE {}

Fault(kind, ps) == faults' = faults \union ({kind} \X ps)

\* The directory a call lists or changes.
Directory(c) == IF c.do = "ls" THEN c.path ELSE Parent[c.path]

\* n has no copy of fs any more; what it has open of them has no path.
Loses(n, fs) ==
  /\ copy' = [copy EXCEPT ![n] = [f \in Files |-> IF f \in fs THEN 0 ELSE @[f]]]
  /\ handle' = [handle EXCEPT ![n].linked = @ /\ handle[n].file \notin fs]

Init ==
  /\ where = [f \in Files |-> NoNode]
  /\ list = [d \in AllDirs |-> NoList]
  /\ copy = [n \in Nodes |-> [f \in Files |-> 0]]
  /\ dirs = [n \in Nodes |-> {}]
  /\ mounted = {}
  /\ call = [n \in Nodes |-> NoCall]
  /\ handle = [n \in Nodes |-> Closed]
  /\ latest = [f \in Files |-> 0]
  /\ faults = {}

\* The bound on faults.
MayGoOn == Cardinality(faults) <= MaxFaults

\* main: the root's value is set, whatever it was.
Mount(n) ==
  /\ n \notin mounted /\ MayGoOn
  /\ mounted' = mounted \union {n}
  /\ list' = [list EXCEPT ![Root] = Blank]
  /\ Fault("mount", IF list[Root] \in {NoList, Blank} /\ \A m \in Nodes : Root \notin Touched(m)
                      THEN {} ELSE {Root})
  /\ UNCHANGED <<where, localVars, call, latest>>

\* The process ends; ZHT and ffsnetd go on.
Dies(n) ==
  /\ mounted' = mounted \ {n}
  /\ Return(n)
  /\ handle' = [handle EXCEPT ![n] = Closed]
  /\ Fault("crash", Touched(n))

\* The process ends in the middle of a call that changes something.  (Another end is like
\* that of a node that is not used again, but for the next mount.)
Crash(n) ==
  /\ Alters(call[n]) # {} /\ MayGoOn
  /\ Dies(n)
  /\ UNCHANGED <<zhtVars, copy, dirs, latest>>

-----------------------------------------------------------------------------
(***************************************************************************)
(* What users do.                                                          *)
(***************************************************************************)
\* The kernel walks to the directory of a path before it passes on a call.
Sees(n, d) == d = Root \/ d \in dirs[n]

\* The file system is mounted and at no call.
Free(n) == n \in mounted /\ call[n] = NoCall

\* A call begins, perhaps while another node changes the same path.
Begin(n, do, path, to) ==
  LET c == [do |-> do, path |-> path, to |-> to, at |-> 1, addr |-> NoNode, val |-> Blank]
  IN /\ call' = [call EXCEPT ![n] = c]
     /\ Fault("overlap", Alters(c) \cap UNION {Touched(m) : m \in Nodes \ {n}})
     /\ Cardinality(faults') <= MaxFaults
     /\ UNCHANGED <<zhtVars, copy, dirs, mounted, latest>>

\* The bound on writes.
MayWrite == FoldFunction(+, 0, latest) < MaxWrites

\* The bound on names: a call that adds one to d has room, whatever calls are at d now.
Room(d) ==
  LET adding == {m \in Nodes : call[m] # NoCall /\ call[m].do \in {"create", "mkdir"}}
  IN /\ Len(Text(list[d]).names) + Cardinality(adding) < MaxNames
     /\ \A m \in adding : Len(call[m].val.names) + Cardinality(adding) <= MaxNames

\* A user who asks for the attributes of f, and perhaps opens it.
StartOpen(n, f) ==
  /\ Sees(n, Parent[f])
  /\ \E do \in IF handle[n] = Closed THEN {"read", "write"} ELSE {"read"} : Begin(n, do, f, f)
  /\ UNCHANGED handle

StartCreate(n, f) ==
  /\ Sees(n, Parent[f])
  /\ handle[n] = Closed
  /\ MayWrite
  /\ Room(Parent[f])
  /\ Begin(n, "create", f, f)
  /\ UNCHANGED handle

\* libfuse does not pass on the removal of a file that the node has open.
StartUnlink(n, f) ==
  /\ Sees(n, Parent[f])
  /\ handle[n].file # f
  /\ Begin(n, "unlink", f, f)
  /\ UNCHANGED handle

StartRename(n, f, g) ==
  /\ Sees(n, Parent[f]) /\ Sees(n, Parent[g])
  /\ f # g /\ handle[n].file \notin {f, g}
  /\ Begin(n, "rename", f, g)
  /\ UNCHANGED handle

\* The last descriptor is closed: fusion_release.
StartClose(n) ==
  /\ handle[n] # Closed
  /\ Begin(n, IF handle[n].writes THEN "close" ELSE "drop", handle[n].file, handle[n].file)
  /\ handle' = [handle EXCEPT ![n] = Closed]

StartMkdir(n, d) ==
  /\ Sees(n, Parent[d])
  /\ d \notin dirs[n]
  /\ Room(Parent[d])
  /\ Begin(n, "mkdir", d, d)
  /\ UNCHANGED handle

StartRmdir(n, d) ==
  /\ Sees(n, Parent[d]) /\ d \in dirs[n]
  /\ Begin(n, "rmdir", d, d)
  /\ UNCHANGED handle

StartLs(n, d) ==
  /\ Sees(n, d)
  /\ Begin(n, "ls", d, d)
  /\ UNCHANGED handle

\* fusion_write.  What goes to a file that was removed is gone.
Write(n) ==
  LET f == handle[n].file
  IN /\ handle[n].writes
     /\ MayWrite /\ MayGoOn
     /\ latest' = [latest EXCEPT ![f] = @ + 1]
     /\ copy' = IF handle[n].linked THEN [copy EXCEPT ![n][f] = latest[f] + 1] ELSE copy
     /\ UNCHANGED <<zhtVars, dirs, handle, mounted, call, faults>>

Starts(n) ==
  \/ \E f \in Files :
       \/ StartOpen(n, f) \/ StartCreate(n, f) \/ StartUnlink(n, f)
       \/ \E g \in Files : StartRename(n, f, g)
  \/ \E d \in Dirs : StartMkdir(n, d) \/ StartRmdir(n, d)
  \/ \E d \in AllDirs : StartLs(n, d)
  \/ StartClose(n)

User(n) ==
  \/ Free(n) /\ Starts(n)
  \/ Write(n)

-----------------------------------------------------------------------------
(***************************************************************************)
(* Steps on a file.                                                        *)
(***************************************************************************)
Lookup(n) ==
  /\ At(n, "lookup")
  /\ call' = [call EXCEPT ![n] = [Onward(@) EXCEPT !.addr = where[call[n].path]]]
  /\ UNCHANGED <<zhtVars, localVars, mounted, latest, faults>>

\* Slip in fusion_getattr, for mutation testing: a copy that is there is not renewed.
NeedsCopyOnce(n, f, addr) == addr \in Nodes /\ copy[n][f] = 0

\* "even it's in local node, it could be outdated"
NeedsCopy(n, f, addr) == addr \in Nodes \ {n}

\* The rest of fusion_getattr, after which the kernel goes on if the file is there, or if
\* it is not and is to be created.
Fetch(n) ==
  LET c == call[n]
      got == NeedsCopy(n, c.path, c.addr) /\ copy[c.addr][c.path] # 0
      mine == IF got THEN copy[c.addr][c.path] ELSE copy[n][c.path]
  IN /\ At(n, "fetch")
     /\ copy' = [copy EXCEPT ![n][c.path] = mine]
     /\ \/ Return(n) /\ ((mine # 0) # (c.do = "create") => c.do = "read")
        \/ Proceed(n) /\ (mine # 0) # (c.do = "create") /\ (c.do = "read" => handle[n] = Closed)
     /\ Fault("refetch", IF got /\ handle[n].writes THEN {handle[n].file} \cap {c.path} ELSE {})
     /\ UNCHANGED <<zhtVars, dirs, handle, mounted, latest>>

Open(n) ==
  LET c == call[n]
  IN /\ At(n, "open")
     /\ handle' = IF copy[n][c.path] = 0 THEN handle
                  ELSE [handle EXCEPT ![n] =
                          [file |-> c.path, writes |-> c.do = "write", linked |-> TRUE]]
     /\ Continue(n)
     /\ UNCHANGED <<zhtVars, copy, dirs, mounted, latest, faults>>

Creat(n) ==
  LET f == call[n].path
  IN /\ At(n, "creat")
     /\ latest' = [latest EXCEPT ![f] = @ + 1]
     /\ copy' = [copy EXCEPT ![n][f] = latest[f] + 1]
     /\ handle' = [handle EXCEPT ![n] = [file |-> f, writes |-> TRUE, linked |-> TRUE]]
     /\ Continue(n)
     /\ UNCHANGED <<zhtVars, dirs, mounted, faults>>

\* fusion_rename, which ZHT does not hear of.
RenameCopy(n) ==
  LET c == call[n]
  IN /\ At(n, "rename")
     /\ copy' = [copy EXCEPT ![n][c.to] = copy[n][c.path], ![n][c.path] = 0]
     /\ Continue(n)
     /\ Fault("rename", {c.path, c.to})
     /\ UNCHANGED <<zhtVars, dirs, handle, mounted, latest>>

\* Slip in fusion_release, for mutation testing: every copy is taken for a remote one.
IsRemote(n, addr) == FALSE

\* strcmp(myip, nodeaddr)
IsLocal(n, addr) == addr = n

\* fusion_release, after the first lookup: the owner is done, and a reader removes its copy.
Settle(n) ==
  LET c == call[n]
  IN /\ At(n, "settle")
     /\ IF ~IsLocal(n, c.addr) /\ c.do = "close" THEN Proceed(n) ELSE Return(n)
     /\ IF ~IsLocal(n, c.addr) /\ c.do = "drop" THEN Loses(n, {c.path}) ELSE UNCHANGED <<copy, handle>>
     /\ UNCHANGED <<zhtVars, dirs, mounted, latest, faults>>

RemoveKey(n) ==
  LET p == call[n].path
  IN /\ At(n, "removeKey")
     /\ IF p \in Files
          THEN where' = [where EXCEPT ![p] = NoNode] /\ UNCHANGED list
          ELSE list' = [list EXCEPT ![p] = NoList] /\ UNCHANGED where
     /\ Continue(n)
     /\ Fault("leftover", {p} \cap UNION {dirs[m] : m \in Nodes})
     /\ UNCHANGED <<localVars, mounted, latest>>

InsertKey(n) ==
  /\ At(n, "insertKey")
  /\ where' = [where EXCEPT ![call[n].path] = n]
  /\ Continue(n)
  /\ UNCHANGED <<list, localVars, mounted, latest, faults>>

\* The old copy is removed, here or by ffsnetd on the node that the last lookup named.
RemoveCopy(n) ==
  LET c == call[n]
      left == {m \in Nodes \ {c.addr} : copy[m][c.path] # 0}
  IN /\ At(n, "removeCopy")
     /\ IF c.addr \in Nodes THEN Loses(c.addr, {c.path}) ELSE UNCHANGED <<copy, handle>>
     /\ Continue(n)
     /\ Fault("leftover", IF c.do = "unlink" /\ left # {} THEN {c.path} ELSE {})
     /\ UNCHANGED <<zhtVars, dirs, mounted, latest>>

-----------------------------------------------------------------------------
(***************************************************************************)
(* Steps on a directory.                                                   *)
(***************************************************************************)

\* fusion_mkdir, up to zht_append.
Mkdir(n) ==
  LET d == call[n].path
  IN /\ At(n, "mkdir")
     /\ dirs' = [dirs EXCEPT ![n] = @ \union {d}]
     /\ list' = [list EXCEPT ![d] = Blank]
     /\ Continue(n)
     /\ Fault("unseen", IF list[d] = NoList THEN {} ELSE {d})
     /\ UNCHANGED <<where, copy, handle, mounted, latest>>

\* Slip in fusion_rmdir, for mutation testing: it is not asked whether there are names.
AnyList(v) == TRUE

\* strcmp(" ", val)
IsBlank(v) == v = Blank

\* fusion_rmdir, up to zht_delete.
Rmdir(n) ==
  LET d == call[n].path
  IN /\ At(n, "rmdir")
     /\ IF IsBlank(list[d])
          THEN /\ Loses(n, Under[d] \cap Files)
               /\ dirs' = [dirs EXCEPT ![n] = @ \ (Under[d] \union {d})]
               /\ Continue(n)
          ELSE Return(n) /\ UNCHANGED localVars
     /\ UNCHANGED <<zhtVars, mounted, latest, faults>>

\* The lookup of zht_append, zht_delete and fusion_readdir.  zht_delete goes wrong when
\* the name is not there: the length it copies is then that of all memory.
Look(n) ==
  LET c == call[n]
      v == Text(list[Directory(c)])
      Becomes(new) == call' = [call EXCEPT ![n] = [Onward(@) EXCEPT !.val = new]]
  IN /\ At(n, "look")
     /\ \/ /\ c.do = "ls"
           /\ Becomes(v)
           /\ UNCHANGED <<handle, mounted, faults>>
        \/ /\ c.do \in {"create", "mkdir"}
           /\ Becomes(With(v, c.path))
           /\ UNCHANGED <<handle, mounted, faults>>
        \/ /\ c.do \in {"unlink", "rmdir"}
           /\ Places(v, c.path) # {}
           /\ Becomes(Without(v, c.path))
           /\ UNCHANGED <<handle, mounted, faults>>
        \/ /\ c.do \in {"unlink", "rmdir"}
           /\ Places(v, c.path) = {}
           /\ Dies(n)
     /\ UNCHANGED <<zhtVars, copy, dirs, latest>>

\* zht_update
RemoveList(n) ==
  /\ At(n, "removeList")
  /\ list' = [list EXCEPT ![Parent[call[n].path]] = NoList]
  /\ Continue(n)
  /\ UNCHANGED <<where, localVars, mounted, latest, faults>>

InsertList(n) ==
  /\ At(n, "insertList")
  /\ list' = [list EXCEPT ![Parent[call[n].path]] = call[n].val]
  /\ Proceed(n)
  /\ UNCHANGED <<where, localVars, mounted, latest, faults>>

\* Slip in fusion_readdir, for mutation testing: a directory is made for every name.
AllMade(names) == names

\* Names that end in a "/": a directory is made for each, if it is not there.
Made(names) == names \cap Dirs

\* fusion_readdir, after the lookup: when there are no names, everything is removed from
\* this node whose path begins with that of the directory; else directories are made.
Show(n) ==
  LET c == call[n]
      names == {c.val.names[i] : i \in DOMAIN c.val.names}
      lost == {f \in Sweeps[c.path] \cap Files :
                 copy[n][f] # 0 /\ (where[f] = n \/ f \in Touched(n))}
  IN /\ At(n, "show")
     /\ IF c.val = Blank
          THEN /\ Loses(n, Sweeps[c.path] \cap Files)
               /\ dirs' = [dirs EXCEPT ![n] = @ \ Sweeps[c.path]]
               /\ Fault("sweep", lost)
          ELSE /\ dirs' = [dirs EXCEPT ![n] = @ \union Made(names)]
               /\ Fault("leftover", {q \in names \cap Dirs : list[q] = NoList})
               /\ UNCHANGED <<copy, handle>>
     /\ Continue(n)
     /\ UNCHANGED <<zhtVars, mounted, latest>>

FileStep(n) ==
  \/ Lookup(n) \/ Fetch(n) \/ Open(n) \/ Creat(n) \/ RenameCopy(n)
  \/ Settle(n) \/ RemoveKey(n) \/ InsertKey(n) \/ RemoveCopy(n)

DirStep(n) ==
  \/ Mkdir(n) \/ Rmdir(n) \/ Look(n) \/ RemoveList(n) \/ InsertList(n) \/ Show(n)

Next == \E n \in Nodes : Mount(n) \/ Crash(n) \/ User(n) \/ FileStep(n) \/ DirStep(n)

Spec == Init /\ [][Next]_vars

-----------------------------------------------------------------------------
(***************************************************************************)
(* Properties.                                                             *)
(***************************************************************************)
Kinds == {"mount", "crash", "overlap", "refetch", "rename", "leftover", "unseen", "sweep"}

Calls == [do : DOMAIN Steps, path : Paths \union {Root}, to : Paths \union {Root},
          at : Nat, addr : Nodes \union {NoNode}, val : Listings]

\* Every variable keeps its type.
TypeOK ==
  /\ where \in [Files -> Nodes \union {NoNode}]
  /\ list \in [AllDirs -> Listings \union {NoList}]
  /\ copy \in [Nodes -> [Files -> Nat]]
  /\ dirs \in [Nodes -> SUBSET Dirs]
  /\ mounted \subseteq Nodes
  /\ call \in [Nodes -> Calls \union {NoCall}]
  /\ handle \in [Nodes -> [file : Files \union {Root}, writes : BOOLEAN, linked : BOOLEAN]]
  /\ latest \in [Files -> Nat]
  /\ faults \subseteq Kinds \X (Paths \union {Root})

\* No call changes p, or a directory that p is in.
Above(p) == {d \in AllDirs : p \in Under[d]}
Quiet(p) == \A n \in Nodes : Alters(call[n]) \cap ({p} \union Above(p)) = {}

\* One of the kinds of faults has been at p or at a directory p is in.
Upset(p, kinds) == faults \cap (kinds \X ({p} \union Above(p))) # {}

Kept(p) == IF p \in Files THEN where[p] # NoNode ELSE list[p] # NoList

\* A directory names a path once if there is a value under that path, and else not.
ListedIffKept ==
  \A p \in Paths : Quiet(p) /\ ~Upset(p, Kinds \ {"refetch"}) =>
    LET names == Text(list[Parent[p]]).names
    IN Cardinality({i \in DOMAIN names : names[i] = p}) = IF Kept(p) THEN 1 ELSE 0

\* The node that ZHT names for a file has it, between the steps of calls too.
OwnerHasCopy ==
  \A f \in Files :
    where[f] # NoNode /\ ~Upset(f, Kinds \ {"refetch"}) => copy[where[f]][f] # 0

\* When nobody has a file open for writing, its owner has what was written last, whichever
\* nodes have written it in turn.
LatestKept ==
  \A f \in Files :
    Quiet(f) /\ where[f] # NoNode /\ ~Upset(f, Kinds)
    /\ (\A n \in Nodes : ~(handle[n].writes /\ handle[n].file = f)) =>
      copy[where[f]][f] = latest[f]

\* "remove the old copy in its previous node from where it's copied from"
\* (fusionfs.c:779): what a release removes is not on the node that ZHT names now.
OldCopyIsOld ==
  [][\A n \in Nodes : RemoveCopy(n) /\ call[n].do = "close" =>
       where[call[n].path] # call[n].addr]_vars
=============================================================================
