--------------------------- MODULE FusionFSProofs ---------------------------
(***************************************************************************)
(* Proofs about FusionFS, for any nodes, files and directories, any depth  *)
(* of directories and any bounds: its variables keep their types.          *)
(*                                                                         *)
(* A call's step is looked up in a table, so that types need more than     *)
(* TypeOK: each call is at one of its steps, and has a path of the kind    *)
(* that the step is for (Typed).  What each step does is then a lemma of   *)
(* its own, which says what it leaves alone too; FusionPathProofs goes on  *)
(* from those.  What zht_append and zht_delete do to the number of times a *)
(* directory's value has a name are lemmas on sequences.                   *)
(***************************************************************************)
EXTENDS FusionFS, FiniteSetTheorems, TLAPS

HandleRecords == [file : Files \union {Root}, writes : BOOLEAN, linked : BOOLEAN]

FileCalls == {"read", "write", "create", "unlink", "rename", "close", "drop"}

\* A call is at one of its steps, and has a path of the kind it is for.
CallRight(c) ==
  /\ c \in Calls
  /\ c.do \in FileCalls => c.path \in Files /\ c.to \in Files
  /\ c.do \in {"mkdir", "rmdir"} => c.path \in Dirs
  /\ c.do = "ls" => c.path \in AllDirs
  /\ c.at \in 1..Len(Steps[c.do])

HandleRight(h) == h \in HandleRecords /\ (h.file \in Files \/ h = Closed)

Typed ==
  /\ TypeOK
  /\ \A n \in Nodes : call[n] = NoCall \/ CallRight(call[n])
  /\ \A n \in Nodes : HandleRight(handle[n])

\* c is a call do, at one of its steps i to j.
Is(c, do, i, j) == c.do = do /\ c.at \in i..j

-----------------------------------------------------------------------------
(***************************************************************************)
(* Which calls are at which steps.                                         *)
(***************************************************************************)
LEMMA Doings ==
  DOMAIN Steps = FileCalls \union {"mkdir", "rmdir", "ls"}
BY DEF Steps, FileCalls

LEMMA Lengths ==
  /\ Len(Steps["read"]) = 3 /\ Len(Steps["write"]) = 3 /\ Len(Steps["create"]) = 7
  /\ Len(Steps["unlink"]) = 8 /\ Len(Steps["rename"]) = 3 /\ Len(Steps["close"]) = 6
  /\ Len(Steps["drop"]) = 2 /\ Len(Steps["mkdir"]) = 4 /\ Len(Steps["rmdir"]) = 5
  /\ Len(Steps["ls"]) = 2
BY DEF Steps

LEMMA NoCallIsNone ==
  ASSUME NEW c, c = NoCall \/ CallRight(c)
  PROVE  /\ c = NoCall <=> c.do = "none"
         /\ c # NoCall => c.do \in DOMAIN Steps /\ CallRight(c) /\ c.at \in Nat
BY Doings DEF NoCall, CallRight, Calls, FileCalls

LEMMA Positive ==
  ASSUME NEW do \in DOMAIN Steps
  PROVE  Len(Steps[do]) \in Nat /\ 1 \in 1..Len(Steps[do])
<1> DEFINE L == Len(Steps[do])
<1>1. /\ do = "read" => L = 3
      /\ do = "write" => L = 3
      /\ do = "rename" => L = 3
      /\ do = "create" => L = 7
      /\ do = "unlink" => L = 8
      /\ do = "close" => L = 6
      /\ do = "drop" => L = 2
      /\ do = "ls" => L = 2
      /\ do = "mkdir" => L = 4
      /\ do = "rmdir" => L = 5
  BY Lengths
<1>2. L \in {2, 3, 4, 5, 6, 7, 8}
  BY <1>1, Doings DEF FileCalls
<1> HIDE DEF L
<1>3. QED
  BY <1>2 DEF L

LEMMA Spans ==
  ASSUME NEW c, CallRight(c)
  PROVE  /\ c.do \in DOMAIN Steps /\ c.at \in Nat /\ c.at >= 1
         /\ c.do \in {"read", "write", "rename"} => c.at \in {1, 2, 3}
         /\ c.do = "create" => c.at \in {1, 2, 3, 4, 5, 6, 7}
         /\ c.do = "unlink" => c.at \in {1, 2, 3, 4, 5, 6, 7, 8}
         /\ c.do = "close" => c.at \in {1, 2, 3, 4, 5, 6}
         /\ c.do \in {"drop", "ls"} => c.at \in {1, 2}
         /\ c.do = "mkdir" => c.at \in {1, 2, 3, 4}
         /\ c.do = "rmdir" => c.at \in {1, 2, 3, 4, 5}
<1> DEFINE L == Len(Steps[c.do])
<1>1. c.do \in DOMAIN Steps /\ c.at \in 1..L
  BY DEF CallRight, Calls
<1>2. /\ c.do = "read" => L = 3
      /\ c.do = "write" => L = 3
      /\ c.do = "rename" => L = 3
      /\ c.do = "create" => L = 7
      /\ c.do = "unlink" => L = 8
      /\ c.do = "close" => L = 6
      /\ c.do = "drop" => L = 2
      /\ c.do = "ls" => L = 2
      /\ c.do = "mkdir" => L = 4
      /\ c.do = "rmdir" => L = 5
  BY Lengths
<1>3. L \in Nat
  BY <1>1, <1>2, Doings DEF FileCalls
<1> HIDE DEF L
<1>4. QED
  BY <1>1, <1>2, <1>3

\* c is at the last of its steps.
AtLast(c) ==
  \/ c.do \in {"drop", "ls"} /\ c.at = 2
  \/ c.do \in {"read", "write", "rename"} /\ c.at = 3
  \/ c.do = "mkdir" /\ c.at = 4
  \/ c.do = "rmdir" /\ c.at = 5
  \/ c.do = "close" /\ c.at = 6
  \/ c.do = "create" /\ c.at = 7
  \/ c.do = "unlink" /\ c.at = 8

LEMMA LastStep ==
  ASSUME NEW c, CallRight(c)
  PROVE  c.at = Len(Steps[c.do]) <=> AtLast(c)
<1> DEFINE L == Len(Steps[c.do])
<1>1. /\ c.do = "read" => L = 3
      /\ c.do = "write" => L = 3
      /\ c.do = "rename" => L = 3
      /\ c.do = "create" => L = 7
      /\ c.do = "unlink" => L = 8
      /\ c.do = "close" => L = 6
      /\ c.do = "drop" => L = 2
      /\ c.do = "ls" => L = 2
      /\ c.do = "mkdir" => L = 4
      /\ c.do = "rmdir" => L = 5
  BY Lengths
<1> HIDE DEF L
<1>2. QED
  BY <1>1, Spans, Doings DEF L, AtLast, FileCalls

LEMMA FileSteps ==
  ASSUME NEW c, CallRight(c)
  PROVE  LET s == Steps[c.do][c.at]
         IN /\ s = "lookup" => \/ c.do \in FileCalls /\ c.at = 1
                               \/ Is(c, "unlink", 6, 6) \/ Is(c, "close", 3, 3)
            /\ s = "fetch" => c.do \in FileCalls \ {"close", "drop"} /\ c.at = 2
            /\ s = "open" => c.do \in {"read", "write"} /\ c.at = 3
            /\ s = "creat" => Is(c, "create", 3, 3)
            /\ s = "rename" => Is(c, "rename", 3, 3)
            /\ s = "settle" => c.do \in {"close", "drop"} /\ c.at = 2
            /\ s = "removeKey" => Is(c, "unlink", 7, 7) \/ Is(c, "close", 4, 4) \/ Is(c, "rmdir", 5, 5)
            /\ s = "insertKey" => Is(c, "create", 7, 7) \/ Is(c, "close", 5, 5)
            /\ s = "removeCopy" => Is(c, "unlink", 8, 8) \/ Is(c, "close", 6, 6)
<1>1. c.do \in FileCalls \union {"mkdir", "rmdir", "ls"}
  BY Spans, Doings
<1>2. CASE c.do = "read"
  BY <1>2, Spans DEF Steps, Is, FileCalls
<1>3. CASE c.do = "write"
  BY <1>3, Spans DEF Steps, Is, FileCalls
<1>4. CASE c.do = "create"
  BY <1>4, Spans DEF Steps, Is, FileCalls
<1>5. CASE c.do = "unlink"
  BY <1>5, Spans DEF Steps, Is, FileCalls
<1>6. CASE c.do = "rename"
  BY <1>6, Spans DEF Steps, Is, FileCalls
<1>7. CASE c.do = "close"
  BY <1>7, Spans DEF Steps, Is, FileCalls
<1>8. CASE c.do = "drop"
  BY <1>8, Spans DEF Steps, Is, FileCalls
<1>9. CASE c.do = "mkdir"
  BY <1>9, Spans DEF Steps, Is, FileCalls
<1>10. CASE c.do = "rmdir"
  BY <1>10, Spans DEF Steps, Is, FileCalls
<1>11. CASE c.do = "ls"
  BY <1>11, Spans DEF Steps, Is, FileCalls
<1>12. QED
  BY <1>1, <1>2, <1>3, <1>4, <1>5, <1>6, <1>7, <1>8, <1>9, <1>10, <1>11 DEF FileCalls

LEMMA DirSteps ==
  ASSUME NEW c, CallRight(c)
  PROVE  LET s == Steps[c.do][c.at]
         IN /\ s = "mkdir" => Is(c, "mkdir", 1, 1)
            /\ s = "rmdir" => Is(c, "rmdir", 1, 1)
            /\ s = "look" => \/ Is(c, "create", 4, 4) \/ Is(c, "unlink", 3, 3)
                             \/ Is(c, "mkdir", 2, 2) \/ Is(c, "rmdir", 2, 2) \/ Is(c, "ls", 1, 1)
            /\ s = "removeList" => \/ Is(c, "create", 5, 5) \/ Is(c, "unlink", 4, 4)
                                   \/ Is(c, "mkdir", 3, 3) \/ Is(c, "rmdir", 3, 3)
            /\ s = "insertList" => \/ Is(c, "create", 6, 6) \/ Is(c, "unlink", 5, 5)
                                   \/ Is(c, "mkdir", 4, 4) \/ Is(c, "rmdir", 4, 4)
            /\ s = "show" => Is(c, "ls", 2, 2)
<1>1. c.do \in FileCalls \union {"mkdir", "rmdir", "ls"}
  BY Spans, Doings
<1>2. CASE c.do = "read"
  BY <1>2, Spans DEF Steps, Is, FileCalls
<1>3. CASE c.do = "write"
  BY <1>3, Spans DEF Steps, Is, FileCalls
<1>4. CASE c.do = "create"
  BY <1>4, Spans DEF Steps, Is, FileCalls
<1>5. CASE c.do = "unlink"
  BY <1>5, Spans DEF Steps, Is, FileCalls
<1>6. CASE c.do = "rename"
  BY <1>6, Spans DEF Steps, Is, FileCalls
<1>7. CASE c.do = "close"
  BY <1>7, Spans DEF Steps, Is, FileCalls
<1>8. CASE c.do = "drop"
  BY <1>8, Spans DEF Steps, Is, FileCalls
<1>9. CASE c.do = "mkdir"
  BY <1>9, Spans DEF Steps, Is, FileCalls
<1>10. CASE c.do = "rmdir"
  BY <1>10, Spans DEF Steps, Is, FileCalls
<1>11. CASE c.do = "ls"
  BY <1>11, Spans DEF Steps, Is, FileCalls
<1>12. QED
  BY <1>1, <1>2, <1>3, <1>4, <1>5, <1>6, <1>7, <1>8, <1>9, <1>10, <1>11 DEF FileCalls

-----------------------------------------------------------------------------
(***************************************************************************)
(* The names in a directory's value.                                       *)
(***************************************************************************)

\* The places of p among the names, and how many there are.
PlacesOf(v, p) == {i \in DOMAIN v.names : v.names[i] = p}
Times(v, p) == Cardinality(PlacesOf(v, p))

LEMMA LeastExists ==
  ASSUME NEW S \in SUBSET Nat, IsFiniteSet(S), S # {}
  PROVE  \E n \in S : \A m \in S : n <= m
<1> DEFINE Below(k) == {m \in S : m < k}
           T == {Below(k) : k \in S}
           R == StrictSubsetOrdering(S)
<1>1. \A k \in S : Below(k) \in SUBSET S /\ IsFiniteSet(Below(k))
  BY FS_Subset
<1>2. T \subseteq FiniteSubsetsOf(S) /\ T # {}
  BY <1>1 DEF FiniteSubsetsOf
<1>3. PICK x \in T : \A y \in T : <<y, x>> \notin R
  <2>1. IsWellFoundedOn(R, FiniteSubsetsOf(S))
    BY FS_StrictSubsetOrderingWellFounded
  <2>2. QED
    BY <1>2, <2>1, WFMin
<1>4. PICK n \in S : x = Below(n)
  BY <1>3
<1>5. Below(n) = {}
  <2>1. SUFFICES ASSUME NEW m \in Below(n)
                 PROVE  FALSE
    OBVIOUS
  <2>2. m \in S /\ Below(m) \subseteq Below(n) /\ m \notin Below(m)
    <3>1. m \in S /\ m < n /\ m \in Nat /\ n \in Nat
      BY <2>1
    <3>2. \A l \in S : l < m => l < n
      BY <3>1
    <3>3. ~(m < m)
      BY <3>1
    <3>4. QED
      BY <3>1, <3>2, <3>3, Zenon
  <2>3. Below(m) \in T /\ Below(m) \in SUBSET S /\ Below(n) \in SUBSET S
    BY <2>2
  <2>4. Below(m) # Below(n)
    BY <2>1, <2>2
  <2>5. <<Below(m), x>> \in R
    BY <1>4, <2>2, <2>3, <2>4 DEF StrictSubsetOrdering
  <2>6. QED
    BY <1>3, <2>3, <2>5
<1>6. QED
  BY <1>4, <1>5

LEMMA TimesIsNumber ==
  ASSUME NEW v \in Listings, NEW p
  PROVE  IsFiniteSet(PlacesOf(v, p)) /\ Times(v, p) \in Nat
<1>1. v.names \in Seq(Paths)
  BY DEF Listings
<1>2. IsFiniteSet(1..Len(v.names)) /\ DOMAIN v.names = 1..Len(v.names)
  BY <1>1, FS_Interval
<1>3. PlacesOf(v, p) \in SUBSET (1..Len(v.names))
  BY <1>2 DEF PlacesOf
<1>4. QED
  BY <1>2, <1>3, FS_Subset, FS_CardinalityType DEF Times

LEMMA NoNamesNoTimes ==
  ASSUME NEW v, v.names = <<>>, NEW p
  PROVE  Times(v, p) = 0
<1>1. PlacesOf(v, p) = {}
  BY DEF PlacesOf
<1>2. QED
  BY <1>1, FS_EmptySet DEF Times

LEMMA TextIsListing ==
  ASSUME NEW v \in Listings \union {NoList}
  PROVE  Text(v) \in Listings
BY DEF Text, Listing, Listings

LEMMA BlankIsListing ==
  /\ Blank \in Listings /\ Text(Blank) = Blank /\ Blank # NoList
  /\ \A p : Times(Blank, p) = 0 /\ Times(Text(NoList), p) = 0
<1>1. Blank \in Listings /\ Blank.names = <<>>
  BY DEF Blank, Listing, Listings
<1>2. Blank # NoList
  BY <1>1, FusionFSAssumption DEF FusionFSAssumption
<1>3. Text(Blank) = Blank
  BY <1>2 DEF Text
<1>4. Text(NoList).names = <<>>
  BY DEF Text, Listing
<1>5. QED
  BY <1>1, <1>2, <1>3, <1>4, NoNamesNoTimes

LEMMA Concatenated ==
  ASSUME NEW S, NEW a \in Seq(S), NEW b \in Seq(S)
  PROVE  /\ a \o b \in Seq(S) /\ Len(a \o b) = Len(a) + Len(b)
         /\ \A j \in 1..(Len(a) + Len(b)) : (a \o b)[j] = IF j <= Len(a) THEN a[j] ELSE b[j - Len(a)]
OBVIOUS

LEMMA CutOut ==
  ASSUME NEW S, NEW u \in Seq(S), NEW k \in 1..Len(u),
         NEW r, r = SubSeq(u, 1, k - 1) \o SubSeq(u, k + 1, Len(u))
  PROVE  /\ r \in Seq(S) /\ DOMAIN r = 1..(Len(u) - 1)
         /\ \A j \in 1..(Len(u) - 1) : r[j] = IF j < k THEN u[j] ELSE u[j + 1]
<1>1. Len(u) \in Nat /\ k \in Nat /\ 1 <= k /\ k <= Len(u)
  OBVIOUS
<1>2. PICK a : a = SubSeq(u, 1, k - 1)
  OBVIOUS
<1>3. PICK b : b = SubSeq(u, k + 1, Len(u))
  OBVIOUS
<1>4. a \in Seq(S) /\ Len(a) = k - 1 /\ \A j \in 1..(k - 1) : a[j] = u[j]
  BY <1>1, <1>2
<1>5. b \in Seq(S) /\ Len(b) = Len(u) - k /\ \A j \in 1..(Len(u) - k) : b[j] = u[k + j]
  BY <1>1, <1>3
<1>6. r = a \o b
  BY <1>2, <1>3
<1>7. /\ r \in Seq(S) /\ Len(r) = Len(a) + Len(b)
      /\ \A j \in 1..(Len(a) + Len(b)) : r[j] = IF j <= Len(a) THEN a[j] ELSE b[j - Len(a)]
  <2>1. a \in Seq(S) /\ b \in Seq(S)
    BY <1>4, <1>5
  <2>2. /\ a \o b \in Seq(S) /\ Len(a \o b) = Len(a) + Len(b)
        /\ \A j \in 1..(Len(a) + Len(b)) : (a \o b)[j] = IF j <= Len(a) THEN a[j] ELSE b[j - Len(a)]
    BY <2>1, Concatenated
  <2>3. QED
    BY <1>6, <2>2
<1>8. Len(a) + Len(b) = Len(u) - 1
  BY <1>1, <1>4, <1>5
<1>9. DOMAIN r = 1..(Len(u) - 1)
  <2>1. Len(r) = Len(u) - 1
    BY <1>7, <1>8
  <2>2. DOMAIN r = 1..Len(r)
    BY <1>7
  <2>3. QED
    BY <2>1, <2>2
<1>10. ASSUME NEW j \in 1..(Len(u) - 1)
       PROVE  r[j] = IF j < k THEN u[j] ELSE u[j + 1]
  <2>1. r[j] = IF j <= Len(a) THEN a[j] ELSE b[j - Len(a)]
    BY <1>7, <1>8
  <2>2. CASE j < k
    <3>1. j <= Len(a) /\ j \in 1..(k - 1)
      BY <1>1, <1>4, <2>2
    <3>2. QED
      BY <1>4, <2>1, <2>2, <3>1
  <2>3. CASE ~(j < k)
    <3>1. ~(j <= Len(a)) /\ j - Len(a) \in 1..(Len(u) - k) /\ k + (j - Len(a)) = j + 1
      <4>1. Len(a) = k - 1
        BY <1>4
      <4>2. QED
        BY <1>1, <2>3, <4>1
    <3>2. b[j - Len(a)] = u[k + (j - Len(a))]
      BY <1>5, <3>1
    <3>3. QED
      BY <2>1, <2>3, <3>1, <3>2
  <2>4. QED
    BY <2>2, <2>3
<1>11. QED
  BY <1>7, <1>9, <1>10

LEMMA WithAdds ==
  ASSUME NEW v \in Listings, NEW q \in Paths, NEW p \in Paths
  PROVE  /\ With(v, q) \in Listings
         /\ Times(With(v, q), p) = Times(v, p) + IF p = q THEN 1 ELSE 0
<1> DEFINE s == v.names
           w == With(v, q)
           t == Append(s, q)
           N == Len(s) + 1
<1>1. v \in Listings /\ s \in Seq(Paths) /\ Len(s) \in Nat
  BY DEF Listings
<1>2. w = [v EXCEPT !.names = t] /\ t \in Seq(Paths)
  BY <1>1 DEF With
<1>3. w \in Listings /\ w.names = t
  BY <1>1, <1>2 DEF Listings
<1>4. /\ DOMAIN t = 1..N /\ DOMAIN s = 1..Len(s) /\ t[N] = q
      /\ \A i \in 1..Len(s) : t[i] = s[i]
  BY <1>1
<1>5. PlacesOf(w, p) = PlacesOf(v, p) \union (IF p = q THEN {N} ELSE {})
  <2> HIDE DEF w, t
  <2>1. \A i : i \in 1..N <=> i \in 1..Len(s) \/ i = N
    BY <1>1
  <2>2. QED
    BY <1>3, <1>4, <2>1 DEF PlacesOf
<1>6. N \notin PlacesOf(v, p)
  BY <1>1, <1>4 DEF PlacesOf
<1>7. IsFiniteSet(PlacesOf(v, p)) /\ Times(v, p) \in Nat
  BY TimesIsNumber
<1>8. CASE p = q
  <2>1. PlacesOf(w, p) = PlacesOf(v, p) \union {N}
    BY <1>5, <1>8
  <2>2. Cardinality(PlacesOf(v, p) \union {N}) = Cardinality(PlacesOf(v, p)) + 1
    BY <1>6, <1>7, FS_AddElement
  <2> HIDE DEF w, N
  <2>3. Times(w, p) = Times(v, p) + 1
    BY <2>1, <2>2 DEF Times
  <2>4. QED
    BY <1>3, <1>8, <2>3 DEF w
<1>9. CASE p # q
  <2>1. PlacesOf(w, p) = PlacesOf(v, p)
    BY <1>5, <1>9
  <2> HIDE DEF w, N
  <2>2. Times(w, p) = Times(v, p)
    BY <2>1 DEF Times
  <2>3. QED
    BY <1>3, <1>7, <1>9, <2>2 DEF w
<1>10. QED
  BY <1>8, <1>9

LEMMA WithoutTakes ==
  ASSUME NEW v \in Listings, NEW q \in Paths, Places(v, q) # {}, NEW p \in Paths
  PROVE  /\ Without(v, q) \in Listings
         /\ Times(v, q) >= 1
         /\ Times(Without(v, q), p) = Times(v, p) - IF p = q THEN 1 ELSE 0
<1> DEFINE w == Without(v, q)
<1>1. PICK s : s = v.names
  OBVIOUS
<1>2. PICK L \in Nat : L = Len(s)
  BY <1>1 DEF Listings
<1>3. v \in Listings /\ s \in Seq(Paths) /\ DOMAIN s = 1..L
  BY <1>1, <1>2 DEF Listings
<1>4. PICK i \in 1..L :
         /\ s[i] = q
         /\ w = [v EXCEPT !.names = SubSeq(s, 1, i - 1) \o SubSeq(s, i + 1, L)]
  <2> DEFINE least == CHOOSE i \in Places(v, q) : \A j \in Places(v, q) : i <= j
  <2>1. Places(v, q) \in SUBSET (1..L)
    BY <1>1, <1>3 DEF Places
  <2>2. IsFiniteSet(Places(v, q)) /\ Places(v, q) \in SUBSET Nat
    <3>1. IsFiniteSet(1..L) /\ 1..L \subseteq Nat
      BY FS_Interval
    <3>2. QED
      BY <2>1, <3>1, FS_Subset
  <2>3. \E k \in Places(v, q) : \A j \in Places(v, q) : k <= j
    BY <2>2, LeastExists
  <2>4. least \in Places(v, q)
    BY <2>3
  <2>5. w = [v EXCEPT !.names = SubSeq(s, 1, least - 1) \o SubSeq(s, least + 1, L)]
    BY <1>1, <1>2 DEF Without
  <2> HIDE DEF least, w
  <2>6. least \in 1..L /\ s[least] = q
    BY <1>1, <2>1, <2>4 DEF Places
  <2>7. QED
    BY <2>5, <2>6
<1>5. PICK t : t = SubSeq(s, 1, i - 1) \o SubSeq(s, i + 1, L)
  OBVIOUS
<1>6. /\ t \in Seq(Paths) /\ DOMAIN t = 1..(L - 1)
      /\ \A j \in 1..(L - 1) : t[j] = IF j < i THEN s[j] ELSE s[j + 1]
  <2>1. i \in 1..Len(s) /\ t = SubSeq(s, 1, i - 1) \o SubSeq(s, i + 1, Len(s))
    BY <1>2, <1>5
  <2>2. QED
    BY <1>2, <1>3, <2>1, CutOut
<1>7. w \in Listings /\ w.names = t
  BY <1>3, <1>4, <1>5, <1>6 DEF Listings
<1> HIDE DEF w
<1>8. \A x : PlacesOf(v, x) = {j \in 1..L : s[j] = x} /\ PlacesOf(w, x) = {j \in 1..(L - 1) : t[j] = x}
  BY <1>1, <1>3, <1>6, <1>7 DEF PlacesOf
<1>9. IsFiniteSet(PlacesOf(w, p)) /\ IsFiniteSet(PlacesOf(v, p)) /\ IsFiniteSet(PlacesOf(v, q))
  BY <1>7, TimesIsNumber
<1>10. Cardinality(PlacesOf(v, p) \ {i}) = Cardinality(PlacesOf(w, p))
  <2> DEFINE S == PlacesOf(w, p)
             T == PlacesOf(v, p) \ {i}
             g == [j \in S |-> IF j < i THEN j ELSE j + 1]
  <2>1. g \in [S -> T]
    <3>1. ASSUME NEW j \in S
          PROVE  g[j] \in T
      <4>1. j \in 1..(L - 1) /\ t[j] = p
        BY <1>8
      <4>2. CASE j < i
        <5>1. j \in 1..L /\ j # i /\ g[j] = j /\ s[j] = p
          BY <1>3, <1>4, <1>6, <4>1, <4>2
        <5>2. QED
          BY <1>8, <5>1
      <4>3. CASE ~(j < i)
        <5>1. j + 1 \in 1..L /\ j + 1 # i /\ g[j] = j + 1 /\ s[j + 1] = p
          BY <1>3, <1>4, <1>6, <4>1, <4>3
        <5>2. QED
          BY <1>8, <5>1
      <4>4. QED
        BY <4>2, <4>3
    <3>2. QED
      BY <3>1
  <2>2. \A j, k \in S : g[j] = g[k] => j = k
    BY <1>3, <1>4, <1>8
  <2>3. \A k \in T : \E j \in S : g[j] = k
    <3>1. SUFFICES ASSUME NEW k \in T
                   PROVE  \E j \in S : g[j] = k
      OBVIOUS
    <3>2. k \in 1..L /\ s[k] = p /\ k # i
      BY <1>8, <3>1
    <3>3. CASE k < i
      <4>1. k \in S
        <5>1. k \in 1..(L - 1)
          BY <3>2, <3>3
        <5>2. t[k] = p
          BY <1>6, <3>2, <3>3, <5>1
        <5>3. QED
          BY <1>8, <5>1, <5>2
      <4>2. g[k] = k
        BY <3>3, <4>1
      <4>3. QED
        BY <4>1, <4>2
    <3>4. CASE k > i
      <4>1. k - 1 \in S
        <5>1. k - 1 \in 1..(L - 1) /\ ~(k - 1 < i) /\ (k - 1) + 1 = k
          BY <1>3, <1>4, <3>2, <3>4
        <5>2. t[k - 1] = p
          BY <1>6, <3>2, <5>1
        <5>3. QED
          BY <1>8, <5>1, <5>2
      <4>2. g[k - 1] = k
        <5>1. ~(k - 1 < i) /\ (k - 1) + 1 = k
          BY <1>3, <1>4, <3>2, <3>4
        <5>2. QED
          BY <4>1, <5>1
      <4>3. QED
        BY <4>1, <4>2
    <3>5. k < i \/ k > i
      BY <3>2
    <3>6. QED
      BY <3>3, <3>4, <3>5
  <2> HIDE DEF g, S, T
  <2>4. g \in Bijection(S, T)
    BY <2>1, <2>2, <2>3 DEF Bijection, Injection, Surjection, IsInjective
  <2>5. ExistsBijection(S, T)
    BY <2>4 DEF ExistsBijection
  <2>6. QED
    BY <1>9, <2>5, FS_Bijection DEF S, T
<1>11. i \in PlacesOf(v, p) <=> p = q
  BY <1>4, <1>8
<1>12. Cardinality(PlacesOf(v, p) \ {i}) =
         IF p = q THEN Cardinality(PlacesOf(v, p)) - 1 ELSE Cardinality(PlacesOf(v, p))
  BY <1>9, <1>11, FS_RemoveElement
<1>13. Times(v, p) \in Nat /\ Times(w, p) = Times(v, p) - IF p = q THEN 1 ELSE 0
  <2>1. Times(v, p) \in Nat
    BY TimesIsNumber
  <2>2. QED
    BY <1>10, <1>12, <2>1 DEF Times
<1>14. Times(v, q) >= 1
  <2>1. i \in PlacesOf(v, q)
    BY <1>4, <1>8
  <2>2. Times(v, q) # 0
    BY <1>9, <2>1, FS_EmptySet DEF Times
  <2>3. QED
    BY <2>2, TimesIsNumber
<1>15. QED
  BY <1>7, <1>13, <1>14 DEF w

-----------------------------------------------------------------------------
(***************************************************************************)
(* The types.                                                              *)
(***************************************************************************)
LEMMA OnwardIs ==
  ASSUME NEW c, CallRight(c), NEW d, d = Onward(c)
  PROVE  \/ c.at = Len(Steps[c.do]) /\ d = NoCall
         \/ /\ c.at # Len(Steps[c.do]) /\ d # NoCall /\ CallRight(d)
            /\ d.do = c.do /\ d.path = c.path /\ d.to = c.to /\ d.at = c.at + 1
            /\ d.addr = c.addr /\ d.val = c.val
<1>1. CASE c.at = Len(Steps[c.do])
  BY <1>1 DEF Onward
<1>2. CASE c.at # Len(Steps[c.do])
  <2>1. c.do \in DOMAIN Steps /\ c.do # "none" /\ c.at \in Nat
    BY Spans, Doings DEF FileCalls
  <2>2. Len(Steps[c.do]) \in Nat
    BY <2>1, Lengths, Doings DEF FileCalls
  <2>3. d = [c EXCEPT !.at = c.at + 1]
    BY <1>2 DEF Onward
  <2>4. /\ d \in Calls
        /\ d.do = c.do /\ d.path = c.path /\ d.to = c.to /\ d.at = c.at + 1
        /\ d.addr = c.addr /\ d.val = c.val
    BY <2>1, <2>3 DEF CallRight, Calls
  <2>5. d.at \in 1..Len(Steps[d.do])
    BY <1>2, <2>1, <2>2, <2>4 DEF CallRight
  <2>6. d # NoCall
    BY <2>1, <2>4 DEF NoCall
  <2>7. QED
    BY <1>2, <2>4, <2>5, <2>6 DEF CallRight
<1>3. QED
  BY <1>1, <1>2

LEMMA ForgetsIs ==
  ASSUME NEW c, CallRight(c), NEW d, d = Forgets(c)
  PROVE  /\ d # NoCall /\ CallRight(d)
         /\ d.do = c.do /\ d.path = c.path /\ d.to = c.to /\ d.at = c.at
         /\ d.addr = NoNode /\ d.val = Blank
<1>1. c # NoCall
  BY NoCallIsNone, Spans, Doings DEF FileCalls
<1>2. d = [c EXCEPT !.addr = NoNode, !.val = Blank]
  BY <1>1 DEF Forgets
<1>3. Blank \in Listings
  BY DEF Blank, Listing, Listings
<1>4. /\ d \in Calls
      /\ d.do = c.do /\ d.path = c.path /\ d.to = c.to /\ d.at = c.at
      /\ d.addr = NoNode /\ d.val = Blank
  BY <1>2, <1>3 DEF CallRight, Calls
<1>5. QED
  BY <1>1, <1>4, NoCallIsNone DEF CallRight

LEMMA CallsType ==
  ASSUME Typed, NEW n \in Nodes, NEW d, d = NoCall \/ CallRight(d), call' = [call EXCEPT ![n] = d]
  PROVE  /\ call' \in [Nodes -> Calls \union {NoCall}]
         /\ \A m \in Nodes : call'[m] = NoCall \/ CallRight(call'[m])
         /\ call'[n] = d /\ \A m \in Nodes \ {n} : call'[m] = call[m]
BY DEF Typed, TypeOK, CallRight

LEMMA CallTyped ==
  ASSUME Typed, NEW n \in Nodes, call[n] # NoCall
  PROVE  CallRight(call[n])
BY DEF Typed

LEMMA AlteredArePaths ==
  ASSUME NEW c, c = NoCall \/ CallRight(c)
  PROVE  Alters(c) \subseteq Paths \union {Root}
<1>1. CASE c = NoCall
  BY <1>1 DEF Alters, NoCall
<1>2. CASE CallRight(c)
  <2>1. /\ c.do \in FileCalls => c.path \in Files /\ c.to \in Files
        /\ c.do \in {"mkdir", "rmdir"} => c.path \in Dirs
    BY <1>2 DEF CallRight
  <2>2. \A p \in Paths : Parent[p] \in AllDirs
    BY FusionFSAssumption DEF FusionFSAssumption
  <2>3. QED
    BY <2>1, <2>2 DEF Alters, FileCalls, AllDirs, Paths
<1>3. QED
  BY <1>1, <1>2

LEMMA TouchedArePaths ==
  ASSUME Typed, NEW n \in Nodes
  PROVE  Touched(n) \subseteq Paths \union {Root}
<1>1. Alters(call[n]) \subseteq Paths \union {Root}
  BY AlteredArePaths DEF Typed
<1>2. handle[n].file \in Files \union {Root}
  BY DEF Typed, HandleRight, HandleRecords
<1>3. QED
  BY <1>1, <1>2 DEF Touched, Paths

LEMMA FaultsType ==
  ASSUME Typed, NEW kind \in Kinds, NEW ps \in SUBSET (Paths \union {Root}), Fault(kind, ps)
  PROVE  faults' \subseteq Kinds \X (Paths \union {Root})
BY DEF Typed, TypeOK, Fault

LEMMA CopyType ==
  ASSUME Typed, NEW n \in Nodes, NEW fs, Loses(n, fs)
  PROVE  /\ copy' \in [Nodes -> [Files -> Nat]]
         /\ handle' \in [Nodes -> HandleRecords]
         /\ \A m \in Nodes : HandleRight(handle'[m])
         /\ \A m \in Nodes \ {n} : copy'[m] = copy[m] /\ handle'[m] = handle[m]
         /\ \A f \in Files : copy'[n][f] = IF f \in fs THEN 0 ELSE copy[n][f]
         /\ handle'[n].file = handle[n].file /\ handle'[n].writes = handle[n].writes
         /\ handle[n].file \notin fs => handle'[n] = handle[n]
         /\ handle[n] = Closed => handle'[n] = Closed
<1>1. /\ copy \in [Nodes -> [Files -> Nat]] /\ handle \in [Nodes -> HandleRecords]
      /\ \A m \in Nodes : HandleRight(handle[m])
  BY DEF Typed, TypeOK, HandleRecords
<1>2. copy' = [copy EXCEPT ![n] = [f \in Files |-> IF f \in fs THEN 0 ELSE copy[n][f]]]
  BY DEF Loses
<1>3. handle' = [handle EXCEPT ![n] =
                   [handle[n] EXCEPT !.linked = handle[n].linked /\ handle[n].file \notin fs]]
  BY <1>1 DEF Loses
<1>4. copy' \in [Nodes -> [Files -> Nat]]
  BY <1>1, <1>2
<1>5. /\ \A m \in Nodes \ {n} : copy'[m] = copy[m]
      /\ \A f \in Files : copy'[n][f] = IF f \in fs THEN 0 ELSE copy[n][f]
  BY <1>1, <1>2
<1> DEFINE h == handle[n]
           b == h.linked /\ h.file \notin fs
           g == [h EXCEPT !.linked = b]
<1>6. h \in HandleRecords /\ b \in BOOLEAN
  BY <1>1 DEF HandleRecords
<1>7. handle' = [handle EXCEPT ![n] = g]
  BY <1>3
<1>8. g \in HandleRecords /\ g.file = h.file /\ g.writes = h.writes /\ g.linked = b
  <2> HIDE DEF b, h
  <2>1. QED
    BY <1>6 DEF HandleRecords
<1>9. (h.file \notin fs => g = h) /\ (h = Closed => g = Closed)
  <2>1. h.linked \in BOOLEAN
    BY <1>6 DEF HandleRecords
  <2>2. h.file \notin fs => b = h.linked
    BY <2>1
  <2>3. h = Closed => b = h.linked
    <3>1. SUFFICES ASSUME h = Closed
                   PROVE  b = h.linked
      OBVIOUS
    <3>2. h.linked = FALSE
      BY <3>1 DEF Closed
    <3>3. QED
      BY <3>2
  <2>4. b = h.linked => g = h
    <3> HIDE DEF b, h
    <3>1. QED
      BY <1>6 DEF HandleRecords
  <2>5. QED
    BY <2>2, <2>3, <2>4
<1>10. HandleRight(g)
  BY <1>1, <1>8, <1>9 DEF HandleRight
<1> HIDE DEF g
<1>11. /\ handle' \in [Nodes -> HandleRecords] /\ handle'[n] = g
       /\ \A m \in Nodes \ {n} : handle'[m] = handle[m]
  BY <1>1, <1>7, <1>8
<1>12. QED
  BY <1>1, <1>4, <1>5, <1>8, <1>9, <1>10, <1>11

\* What a call is, that a user begins.
Begun(n, do, path) ==
  /\ call[n] = NoCall
  /\ call'[n] # NoCall /\ CallRight(call'[n])
  /\ call'[n].do = do /\ call'[n].path = path /\ call'[n].at = 1
  /\ call' \in [Nodes -> Calls \union {NoCall}]
  /\ \A m \in Nodes : call'[m] = NoCall \/ CallRight(call'[m])
  /\ \A m \in Nodes \ {n} : call'[m] = call[m]
  /\ Fault("overlap", Alters(call'[n]) \cap UNION {Touched(m) : m \in Nodes \ {n}})
  /\ faults' \subseteq Kinds \X (Paths \union {Root})
  /\ UNCHANGED <<where, list, copy, dirs, mounted, latest>>

LEMMA BeginIs ==
  ASSUME Typed, NEW n \in Nodes, call[n] = NoCall,
         NEW do, NEW path, NEW to, Begin(n, do, path, to),
         \/ do \in FileCalls /\ path \in Files /\ to \in Files
         \/ do \in {"mkdir", "rmdir"} /\ path \in Dirs /\ to \in Dirs
         \/ do = "ls" /\ path \in AllDirs /\ to \in AllDirs
  PROVE  Begun(n, do, path)
<1> DEFINE c == [do |-> do, path |-> path, to |-> to, at |-> 1, addr |-> NoNode, val |-> Blank]
<1>1. /\ do \in DOMAIN Steps
      /\ path \in Paths \union {Root} /\ to \in Paths \union {Root}
      /\ do \in FileCalls => path \in Files /\ to \in Files
      /\ do \in {"mkdir", "rmdir"} => path \in Dirs
      /\ do = "ls" => path \in AllDirs
  BY Doings DEF Paths, AllDirs, FileCalls
<1>2. Blank \in Listings
  BY DEF Blank, Listing, Listings
<1>3. CallRight(c)
  <2>1. 1 \in 1..Len(Steps[do])
    BY <1>1, Positive
  <2>2. QED
    BY <1>1, <1>2, <2>1 DEF CallRight, Calls
<1>4. c # NoCall
  BY <1>3, Spans, Doings DEF NoCall, FileCalls
<1>5. /\ call' = [call EXCEPT ![n] = c]
      /\ Fault("overlap", Alters(c) \cap UNION {Touched(m) : m \in Nodes \ {n}})
      /\ UNCHANGED <<where, list, copy, dirs, mounted, latest>>
  BY DEF Begin, zhtVars
<1>6. c.do = do /\ c.path = path /\ c.at = 1
  OBVIOUS
<1> HIDE DEF c
<1>7. /\ call' \in [Nodes -> Calls \union {NoCall}] /\ call'[n] = c
      /\ \A m \in Nodes : call'[m] = NoCall \/ CallRight(call'[m])
      /\ \A m \in Nodes \ {n} : call'[m] = call[m]
  BY <1>3, <1>5, CallsType
<1>8. faults' \subseteq Kinds \X (Paths \union {Root})
  <2>1. Alters(c) \cap UNION {Touched(m) : m \in Nodes \ {n}} \subseteq Paths \union {Root}
    BY <1>3, AlteredArePaths
  <2>2. QED
    BY <1>5, <2>1, FaultsType DEF Kinds
<1>9. QED
  BY <1>3, <1>4, <1>5, <1>6, <1>7, <1>8 DEF Begun

LEMMA StartIs ==
  ASSUME Typed, NEW n \in Nodes, Free(n), Starts(n)
  PROVE  \/ /\ \E f \in Files : 
               \/ Begun(n, "read", f)
               \/ Begun(n, "write", f) /\ handle[n] = Closed
               \/ Begun(n, "create", f) /\ handle[n] = Closed /\ Sees(n, Parent[f])
               \/ Begun(n, "unlink", f) /\ handle[n].file # f /\ Sees(n, Parent[f])
               \/ Begun(n, "rename", f)
            /\ UNCHANGED handle
         \/ /\ \E d \in Dirs : \/ Begun(n, "mkdir", d) /\ Sees(n, Parent[d])
                               \/ Begun(n, "rmdir", d) /\ Sees(n, Parent[d])
            /\ UNCHANGED handle
         \/ /\ \E d \in AllDirs : Begun(n, "ls", d)
            /\ UNCHANGED handle
         \/ /\ handle[n].file \in Files
            /\ Begun(n, IF handle[n].writes THEN "close" ELSE "drop", handle[n].file)
            /\ handle' = [handle EXCEPT ![n] = Closed]
<1>1. call[n] = NoCall
  BY DEF Free
<1>2. {"read", "write", "create", "unlink", "rename", "close", "drop"} \subseteq FileCalls
  BY DEF FileCalls
<1>3. CASE \E f \in Files : StartOpen(n, f)
  <2>1. PICK f \in Files, do \in {"read", "write"} :
           /\ Begin(n, do, f, f) /\ UNCHANGED handle
           /\ do = "write" => handle[n] = Closed
    BY <1>3 DEF StartOpen
  <2>2. Begun(n, do, f)
    BY <1>1, <1>2, <2>1, BeginIs
  <2>3. QED
    BY <2>1, <2>2
<1>4. CASE \E f \in Files : StartCreate(n, f)
  <2>1. PICK f \in Files : /\ Begin(n, "create", f, f) /\ UNCHANGED handle
                           /\ handle[n] = Closed /\ Sees(n, Parent[f])
    BY <1>4 DEF StartCreate
  <2>2. Begun(n, "create", f)
    BY <1>1, <1>2, <2>1, BeginIs
  <2>3. QED
    BY <2>1, <2>2
<1>5. CASE \E f \in Files : StartUnlink(n, f)
  <2>1. PICK f \in Files : /\ Begin(n, "unlink", f, f) /\ UNCHANGED handle
                           /\ handle[n].file # f /\ Sees(n, Parent[f])
    BY <1>5 DEF StartUnlink
  <2>2. Begun(n, "unlink", f)
    BY <1>1, <1>2, <2>1, BeginIs
  <2>3. QED
    BY <2>1, <2>2
<1>6. CASE \E f, g \in Files : StartRename(n, f, g)
  <2>1. PICK f \in Files, g \in Files : Begin(n, "rename", f, g) /\ UNCHANGED handle
    BY <1>6 DEF StartRename
  <2>2. Begun(n, "rename", f)
    BY <1>1, <1>2, <2>1, BeginIs
  <2>3. QED
    BY <2>1, <2>2
<1>7. CASE \E d \in Dirs : StartMkdir(n, d)
  <2>1. PICK d \in Dirs : Begin(n, "mkdir", d, d) /\ UNCHANGED handle /\ Sees(n, Parent[d])
    BY <1>7 DEF StartMkdir
  <2>2. Begun(n, "mkdir", d)
    BY <1>1, <1>2, <2>1, BeginIs
  <2>3. QED
    BY <2>1, <2>2
<1>8. CASE \E d \in Dirs : StartRmdir(n, d)
  <2>1. PICK d \in Dirs : Begin(n, "rmdir", d, d) /\ UNCHANGED handle /\ Sees(n, Parent[d])
    BY <1>8 DEF StartRmdir
  <2>2. Begun(n, "rmdir", d)
    BY <1>1, <1>2, <2>1, BeginIs
  <2>3. QED
    BY <2>1, <2>2
<1>9. CASE \E d \in AllDirs : StartLs(n, d)
  <2>1. PICK d \in AllDirs : Begin(n, "ls", d, d) /\ UNCHANGED handle
    BY <1>9 DEF StartLs
  <2>2. Begun(n, "ls", d)
    BY <1>1, <1>2, <2>1, BeginIs
  <2>3. QED
    BY <2>1, <2>2
<1>10. CASE StartClose(n)
  <2> DEFINE do == IF handle[n].writes THEN "close" ELSE "drop"
  <2>1. /\ Begin(n, do, handle[n].file, handle[n].file) /\ handle[n] # Closed
        /\ handle' = [handle EXCEPT ![n] = Closed]
    BY <1>10 DEF StartClose
  <2>2. handle[n].file \in Files
    BY <2>1 DEF Typed, HandleRight
  <2>3. do \in FileCalls
    BY DEF FileCalls
  <2> HIDE DEF do
  <2>4. Begun(n, do, handle[n].file)
    BY <1>1, <2>1, <2>2, <2>3, BeginIs
  <2>5. QED
    BY <2>1, <2>2, <2>4 DEF do
<1>11. QED
  BY <1>3, <1>4, <1>5, <1>6, <1>7, <1>8, <1>9, <1>10 DEF Starts

\* The other calls stay, and n's is over or goes on.
Apart(n) ==
  /\ call' \in [Nodes -> Calls \union {NoCall}]
  /\ \A m \in Nodes : call'[m] = NoCall \/ CallRight(call'[m])
  /\ \A m \in Nodes \ {n} : call'[m] = call[m]

Ends(n) == Apart(n) /\ call'[n] = NoCall

Goes(n) ==
  /\ Apart(n)
  /\ call'[n] # NoCall /\ CallRight(call'[n])
  /\ call'[n].do = call[n].do /\ call'[n].path = call[n].path /\ call'[n].to = call[n].to
  /\ call'[n].at = call[n].at + 1

Keeping(n) == call'[n].addr = call[n].addr /\ call'[n].val = call[n].val

LEMMA CallSet ==
  ASSUME Typed, NEW n \in Nodes, NEW d, d = NoCall \/ CallRight(d), call' = [call EXCEPT ![n] = d]
  PROVE  Apart(n) /\ call'[n] = d
BY CallsType DEF Apart

LEMMA ContinueIs ==
  ASSUME Typed, NEW n \in Nodes, call[n] # NoCall, Continue(n)
  PROVE  IF AtLast(call[n]) THEN Ends(n) ELSE Goes(n) /\ Keeping(n)
<1> DEFINE c == call[n]
           d == Onward(c)
<1>1. CallRight(c) /\ call' = [call EXCEPT ![n] = d]
  BY CallTyped DEF Continue
<1> HIDE DEF c, d
<1>2. \/ AtLast(c) /\ d = NoCall
      \/ /\ ~AtLast(c) /\ d # NoCall /\ CallRight(d)
         /\ d.do = c.do /\ d.path = c.path /\ d.to = c.to /\ d.at = c.at + 1
         /\ d.addr = c.addr /\ d.val = c.val
  BY <1>1, OnwardIs, LastStep DEF d
<1>3. Apart(n) /\ call'[n] = d
  BY <1>1, <1>2, CallSet
<1>4. QED
  BY <1>2, <1>3 DEF c, Ends, Goes, Keeping

LEMMA ProceedIs ==
  ASSUME Typed, NEW n \in Nodes, call[n] # NoCall, Proceed(n)
  PROVE  IF AtLast(call[n]) THEN Ends(n) ELSE Goes(n)
<1> DEFINE c == call[n]
           d == Onward(c)
           e == Forgets(d)
<1>1. CallRight(c) /\ call' = [call EXCEPT ![n] = e]
  BY CallTyped DEF Proceed
<1> HIDE DEF c, d, e
<1>2. \/ AtLast(c) /\ d = NoCall
      \/ /\ ~AtLast(c) /\ d # NoCall /\ CallRight(d)
         /\ d.do = c.do /\ d.path = c.path /\ d.to = c.to /\ d.at = c.at + 1
  BY <1>1, OnwardIs, LastStep DEF d
<1>3. CASE d = NoCall
  <2>1. e = NoCall
    BY <1>3 DEF e, Forgets
  <2>2. QED
    BY <1>1, <1>2, <1>3, <2>1, CallSet DEF c, Ends
<1>4. CASE d # NoCall
  <2>1. /\ e # NoCall /\ CallRight(e)
        /\ e.do = d.do /\ e.path = d.path /\ e.to = d.to /\ e.at = d.at
    BY <1>2, <1>4, ForgetsIs DEF e
  <2>2. Apart(n) /\ call'[n] = e
    BY <1>1, <2>1, CallSet
  <2>3. QED
    BY <1>2, <1>4, <2>1, <2>2 DEF c, Goes
<1>5. QED
  BY <1>3, <1>4

LEMMA ReturnIs ==
  ASSUME Typed, NEW n \in Nodes, Return(n)
  PROVE  Ends(n)
BY CallSet DEF Return, Ends

LEMMA AtIs ==
  ASSUME Typed, NEW n \in Nodes, NEW step, At(n, step)
  PROVE  /\ call[n] # NoCall /\ CallRight(call[n])
         /\ Steps[call[n].do][call[n].at] = step
BY CallTyped DEF At

-----------------------------------------------------------------------------
(***************************************************************************)
(* What each step does.                                                    *)
(***************************************************************************)
LEMMA LookupIs ==
  ASSUME Typed, NEW n \in Nodes, Lookup(n)
  PROVE  /\ call[n].path \in Files
         /\ \/ call[n].do \in FileCalls /\ call[n].at = 1
            \/ Is(call[n], "unlink", 6, 6) \/ Is(call[n], "close", 3, 3)
         /\ Goes(n) /\ call'[n].addr = where[call[n].path]
         /\ UNCHANGED <<where, list, copy, dirs, handle, mounted, latest, faults>>
<1> DEFINE c == call[n]
           d == Onward(c)
           e == [d EXCEPT !.addr = where[c.path]]
<1>1. /\ At(n, "lookup") /\ call' = [call EXCEPT ![n] = e]
      /\ UNCHANGED <<where, list, copy, dirs, handle, mounted, latest, faults>>
  BY DEF Lookup, zhtVars, localVars
<1>2. /\ CallRight(c)
      /\ \/ c.do \in FileCalls /\ c.at = 1
         \/ Is(c, "unlink", 6, 6) \/ Is(c, "close", 3, 3)
  BY <1>1, AtIs, FileSteps
<1>3. c.path \in Files /\ where[c.path] \in Nodes \union {NoNode}
  <2>1. c.do \in FileCalls
    BY <1>2 DEF Is, FileCalls
  <2>2. QED
    BY <1>2, <2>1 DEF CallRight, Typed, TypeOK
<1>4. ~AtLast(c)
  BY <1>2 DEF AtLast, Is, FileCalls
<1> HIDE DEF c, d, e
<1>5. /\ d # NoCall /\ CallRight(d)
      /\ d.do = c.do /\ d.path = c.path /\ d.to = c.to /\ d.at = c.at + 1
  BY <1>2, <1>4, OnwardIs, LastStep DEF d
<1>6. /\ CallRight(e)
      /\ e.do = c.do /\ e.path = c.path /\ e.to = c.to /\ e.at = c.at + 1
      /\ e.addr = where[c.path]
  BY <1>3, <1>5 DEF e, CallRight, Calls
<1>7. e # NoCall
  BY <1>6, Spans, Doings DEF NoCall, FileCalls
<1>8. Apart(n) /\ call'[n] = e
  BY <1>1, <1>6, CallSet
<1>9. QED
  BY <1>1, <1>2, <1>3, <1>6, <1>7, <1>8 DEF c, Goes

LEMMA FetchIs ==
  ASSUME Typed, NEW n \in Nodes, Fetch(n)
  PROVE  LET c == call[n]
             got == NeedsCopy(n, c.path, c.addr) /\ copy[c.addr][c.path] # 0
             mine == IF got THEN copy[c.addr][c.path] ELSE copy[n][c.path]
         IN /\ c.path \in Files /\ c.do \in FileCalls \ {"close", "drop"} /\ c.at = 2
            /\ \/ Ends(n)
               \/ Goes(n) /\ (mine # 0) # (c.do = "create") /\ (c.do = "read" => handle[n] = Closed)
            /\ copy' \in [Nodes -> [Files -> Nat]] /\ copy'[n][c.path] = mine
            /\ \A m \in Nodes, f \in Files : m # n \/ f # c.path => copy'[m][f] = copy[m][f]
            /\ Fault("refetch", IF got /\ handle[n].writes THEN {handle[n].file} \cap {c.path} ELSE {})
            /\ UNCHANGED <<where, list, dirs, handle, mounted, latest>>
<1> DEFINE c == call[n]
           got == NeedsCopy(n, c.path, c.addr) /\ copy[c.addr][c.path] # 0
           mine == IF got THEN copy[c.addr][c.path] ELSE copy[n][c.path]
<1>1. /\ At(n, "fetch") /\ copy' = [copy EXCEPT ![n][c.path] = mine]
      /\ \/ Return(n)
         \/ Proceed(n) /\ (mine # 0) # (c.do = "create") /\ (c.do = "read" => handle[n] = Closed)
      /\ Fault("refetch", IF got /\ handle[n].writes THEN {handle[n].file} \cap {c.path} ELSE {})
      /\ UNCHANGED <<where, list, dirs, handle, mounted, latest>>
  BY DEF Fetch, zhtVars
<1>2. c # NoCall /\ CallRight(c) /\ c.do \in FileCalls \ {"close", "drop"} /\ c.at = 2
  BY <1>1, AtIs, FileSteps
<1>3. c.path \in Files
  BY <1>2 DEF CallRight
<1>4. copy \in [Nodes -> [Files -> Nat]] /\ mine \in Nat
  BY <1>3 DEF Typed, TypeOK, NeedsCopy
<1>5. ~AtLast(c)
  BY <1>2 DEF AtLast, FileCalls
<1> HIDE DEF mine, got
<1>6. \/ Ends(n)
      \/ Goes(n) /\ (mine # 0) # (c.do = "create") /\ (c.do = "read" => handle[n] = Closed)
  BY <1>1, <1>2, <1>5, ReturnIs, ProceedIs
<1>7. /\ copy' \in [Nodes -> [Files -> Nat]] /\ copy'[n][c.path] = mine
      /\ \A m \in Nodes, f \in Files : m # n \/ f # c.path => copy'[m][f] = copy[m][f]
  BY <1>1, <1>3, <1>4
<1>8. QED
  BY <1>1, <1>2, <1>3, <1>6, <1>7 DEF mine, got

LEMMA OpenIs ==
  ASSUME Typed, NEW n \in Nodes, Open(n)
  PROVE  LET c == call[n]
         IN /\ c.path \in Files /\ c.do \in {"read", "write"} /\ c.at = 3
            /\ Ends(n)
            /\ handle' \in [Nodes -> HandleRecords]
            /\ \A m \in Nodes \ {n} : handle'[m] = handle[m]
            /\ \/ copy[n][c.path] = 0 /\ handle' = handle
               \/ /\ copy[n][c.path] # 0
                  /\ handle'[n].file = c.path /\ handle'[n].linked
                  /\ handle'[n].writes <=> c.do = "write"
            /\ UNCHANGED <<where, list, copy, dirs, mounted, latest, faults>>
<1> DEFINE c == call[n]
           w == c.do = "write"
           h == [file |-> c.path, writes |-> w, linked |-> TRUE]
<1>1. /\ At(n, "open") /\ Continue(n)
      /\ handle' = IF copy[n][c.path] = 0 THEN handle ELSE [handle EXCEPT ![n] = h]
      /\ UNCHANGED <<where, list, copy, dirs, mounted, latest, faults>>
  BY DEF Open, zhtVars
<1>2. c # NoCall /\ CallRight(c) /\ c.do \in {"read", "write"} /\ c.at = 3
  BY <1>1, AtIs, FileSteps
<1>3. c.path \in Files
  BY <1>2 DEF CallRight, FileCalls
<1>4. AtLast(c)
  BY <1>2 DEF AtLast
<1>5. Ends(n)
  BY <1>1, <1>2, <1>4, ContinueIs
<1>6. w \in BOOLEAN
  OBVIOUS
<1> HIDE DEF w
<1>7. h \in HandleRecords /\ h.file = c.path /\ h.linked /\ h.writes = w
  BY <1>3, <1>6 DEF HandleRecords
<1>8. handle \in [Nodes -> HandleRecords]
  BY DEF Typed, TypeOK, HandleRecords
<1> HIDE DEF h
<1>9. /\ handle' \in [Nodes -> HandleRecords]
      /\ \A m \in Nodes \ {n} : handle'[m] = handle[m]
      /\ \/ copy[n][c.path] = 0 /\ handle' = handle
         \/ copy[n][c.path] # 0 /\ handle'[n] = h
  BY <1>1, <1>7, <1>8
<1>10. w <=> c.do = "write"
  BY DEF w
<1>11. QED
  BY <1>1, <1>2, <1>3, <1>5, <1>7, <1>9, <1>10

LEMMA CreatIs ==
  ASSUME Typed, NEW n \in Nodes, Creat(n)
  PROVE  LET f == call[n].path
         IN /\ f \in Files /\ Is(call[n], "create", 3, 3)
            /\ Goes(n) /\ Keeping(n)
            /\ latest' \in [Files -> Nat] /\ latest'[f] = latest[f] + 1
            /\ \A g \in Files \ {f} : latest'[g] = latest[g]
            /\ copy' \in [Nodes -> [Files -> Nat]] /\ copy'[n][f] = latest[f] + 1
            /\ \A m \in Nodes, g \in Files : m # n \/ g # f => copy'[m][g] = copy[m][g]
            /\ handle' \in [Nodes -> HandleRecords]
            /\ handle'[n].file = f /\ handle'[n].writes /\ handle'[n].linked
            /\ \A m \in Nodes \ {n} : handle'[m] = handle[m]
            /\ UNCHANGED <<where, list, dirs, mounted, faults>>
<1> DEFINE c == call[n]
           f == c.path
           h == [file |-> f, writes |-> TRUE, linked |-> TRUE]
<1>1. /\ At(n, "creat") /\ Continue(n)
      /\ latest' = [latest EXCEPT ![f] = latest[f] + 1]
      /\ copy' = [copy EXCEPT ![n][f] = latest[f] + 1]
      /\ handle' = [handle EXCEPT ![n] = h]
      /\ UNCHANGED <<where, list, dirs, mounted, faults>>
  BY DEF Creat, zhtVars
<1>2. c # NoCall /\ CallRight(c) /\ Is(c, "create", 3, 3)
  BY <1>1, AtIs, FileSteps
<1>3. f \in Files
  BY <1>2 DEF CallRight, FileCalls, Is
<1>4. ~AtLast(c)
  BY <1>2 DEF AtLast, Is
<1>5. Goes(n) /\ Keeping(n)
  BY <1>1, <1>2, <1>4, ContinueIs
<1>6. /\ copy \in [Nodes -> [Files -> Nat]] /\ latest \in [Files -> Nat]
      /\ handle \in [Nodes -> HandleRecords]
  BY DEF Typed, TypeOK, HandleRecords
<1>7. h \in HandleRecords /\ h.file = f /\ h.writes /\ h.linked
  BY <1>3 DEF HandleRecords
<1> HIDE DEF h, f
<1>8. /\ latest' \in [Files -> Nat] /\ latest'[f] = latest[f] + 1
      /\ \A g \in Files \ {f} : latest'[g] = latest[g]
  BY <1>1, <1>3, <1>6
<1>9. /\ copy' \in [Nodes -> [Files -> Nat]] /\ copy'[n][f] = latest[f] + 1
      /\ \A m \in Nodes, g \in Files : m # n \/ g # f => copy'[m][g] = copy[m][g]
  BY <1>1, <1>3, <1>6
<1>10. /\ handle' \in [Nodes -> HandleRecords] /\ handle'[n] = h
       /\ \A m \in Nodes \ {n} : handle'[m] = handle[m]
  BY <1>1, <1>6, <1>7
<1>11. QED
  BY <1>1, <1>2, <1>3, <1>5, <1>7, <1>8, <1>9, <1>10 DEF f

LEMMA RenameCopyIs ==
  ASSUME Typed, NEW n \in Nodes, RenameCopy(n)
  PROVE  LET c == call[n]
         IN /\ c.path \in Files /\ c.to \in Files /\ Is(c, "rename", 3, 3)
            /\ Ends(n)
            /\ copy' \in [Nodes -> [Files -> Nat]]
            /\ \A m \in Nodes, f \in Files : m # n \/ f \notin {c.path, c.to} => copy'[m][f] = copy[m][f]
            /\ Fault("rename", {c.path, c.to})
            /\ UNCHANGED <<where, list, dirs, handle, mounted, latest>>
<1> DEFINE c == call[n]
<1>1. /\ At(n, "rename") /\ Continue(n)
      /\ copy' = [copy EXCEPT ![n][c.to] = copy[n][c.path], ![n][c.path] = 0]
      /\ Fault("rename", {c.path, c.to})
      /\ UNCHANGED <<where, list, dirs, handle, mounted, latest>>
  BY DEF RenameCopy, zhtVars
<1>2. c # NoCall /\ CallRight(c) /\ Is(c, "rename", 3, 3)
  BY <1>1, AtIs, FileSteps
<1>3. c.path \in Files /\ c.to \in Files
  BY <1>2 DEF CallRight, FileCalls, Is
<1>4. AtLast(c)
  BY <1>2 DEF AtLast, Is
<1>5. Ends(n)
  BY <1>1, <1>2, <1>4, ContinueIs
<1>6. copy \in [Nodes -> [Files -> Nat]]
  BY DEF Typed, TypeOK
<1> HIDE DEF c
<1>7. /\ copy' \in [Nodes -> [Files -> Nat]]
      /\ \A m \in Nodes, f \in Files : m # n \/ f \notin {c.path, c.to} => copy'[m][f] = copy[m][f]
  BY <1>1, <1>3, <1>6
<1>8. QED
  BY <1>1, <1>2, <1>3, <1>5, <1>7 DEF c

LEMMA SettleIs ==
  ASSUME Typed, NEW n \in Nodes, Settle(n)
  PROVE  LET c == call[n]
         IN /\ c.path \in Files /\ c.do \in {"close", "drop"} /\ c.at = 2
            /\ \/ Goes(n) /\ c.do = "close" /\ c.addr # n
               \/ Ends(n) /\ (c.do = "close" => c.addr = n)
            /\ \/ c.do = "drop" /\ c.addr # n /\ Loses(n, {c.path})
               \/ UNCHANGED <<copy, handle>>
            /\ UNCHANGED <<where, list, dirs, mounted, latest, faults>>
<1> DEFINE c == call[n]
<1>1. /\ At(n, "settle")
      /\ IF c.addr # n /\ c.do = "close" THEN Proceed(n) ELSE Return(n)
      /\ IF c.addr # n /\ c.do = "drop" THEN Loses(n, {c.path}) ELSE UNCHANGED <<copy, handle>>
      /\ UNCHANGED <<where, list, dirs, mounted, latest, faults>>
  BY DEF Settle, zhtVars, IsLocal
<1>2. c # NoCall /\ CallRight(c) /\ c.do \in {"close", "drop"} /\ c.at = 2
  BY <1>1, AtIs, FileSteps
<1>3. c.path \in Files
  BY <1>2 DEF CallRight, FileCalls
<1>4. CASE c.addr # n /\ c.do = "close"
  <2>1. ~AtLast(c)
    BY <1>2, <1>4 DEF AtLast
  <2>2. Goes(n)
    BY <1>1, <1>2, <1>4, <2>1, ProceedIs
  <2>3. QED
    BY <1>1, <1>2, <1>3, <1>4, <2>2
<1>5. CASE ~(c.addr # n /\ c.do = "close")
  <2>1. Ends(n)
    BY <1>1, <1>5, ReturnIs
  <2>2. QED
    BY <1>1, <1>2, <1>3, <1>5, <2>1
<1>6. QED
  BY <1>4, <1>5

LEMMA RemoveKeyIs ==
  ASSUME Typed, NEW n \in Nodes, RemoveKey(n)
  PROVE  LET c == call[n]
         IN /\ \/ /\ c.path \in Files /\ (Is(c, "unlink", 7, 7) \/ Is(c, "close", 4, 4))
                  /\ Goes(n) /\ Keeping(n)
                  /\ where' \in [Files -> Nodes \union {NoNode}] /\ where'[c.path] = NoNode
                  /\ \A f \in Files \ {c.path} : where'[f] = where[f]
                  /\ list' = list
               \/ /\ c.path \in Dirs /\ Is(c, "rmdir", 5, 5)
                  /\ Ends(n)
                  /\ list' \in [AllDirs -> Listings \union {NoList}] /\ list'[c.path] = NoList
                  /\ \A d \in AllDirs \ {c.path} : list'[d] = list[d]
                  /\ where' = where
            /\ Fault("leftover", {c.path} \cap UNION {dirs[m] : m \in Nodes})
            /\ UNCHANGED <<copy, dirs, handle, mounted, latest>>
<1> DEFINE c == call[n]
<1>1. /\ At(n, "removeKey") /\ Continue(n)
      /\ IF c.path \in Files
           THEN where' = [where EXCEPT ![c.path] = NoNode] /\ UNCHANGED list
           ELSE list' = [list EXCEPT ![c.path] = NoList] /\ UNCHANGED where
      /\ Fault("leftover", {c.path} \cap UNION {dirs[m] : m \in Nodes})
      /\ UNCHANGED <<copy, dirs, handle, mounted, latest>>
  BY DEF RemoveKey, localVars
<1>2. /\ c # NoCall /\ CallRight(c)
      /\ Is(c, "unlink", 7, 7) \/ Is(c, "close", 4, 4) \/ Is(c, "rmdir", 5, 5)
  BY <1>1, AtIs, FileSteps
<1>3. where \in [Files -> Nodes \union {NoNode}] /\ list \in [AllDirs -> Listings \union {NoList}]
  BY DEF Typed, TypeOK
<1>4. CASE Is(c, "unlink", 7, 7) \/ Is(c, "close", 4, 4)
  <2>1. c.path \in Files
    BY <1>2, <1>4 DEF CallRight, FileCalls, Is
  <2>2. ~AtLast(c)
    BY <1>4 DEF AtLast, Is
  <2>3. Goes(n) /\ Keeping(n)
    BY <1>1, <1>2, <2>2, ContinueIs
  <2>4. /\ where' \in [Files -> Nodes \union {NoNode}] /\ where'[c.path] = NoNode
        /\ \A f \in Files \ {c.path} : where'[f] = where[f]
        /\ list' = list
    BY <1>1, <1>3, <2>1
  <2>5. QED
    BY <1>1, <1>4, <2>1, <2>3, <2>4
<1>5. CASE Is(c, "rmdir", 5, 5)
  <2>1. c.path \in Dirs
    BY <1>2, <1>5 DEF CallRight, Is
  <2>2. AtLast(c)
    BY <1>5 DEF AtLast, Is
  <2>3. Ends(n)
    BY <1>1, <1>2, <2>2, ContinueIs
  <2>4. c.path \notin Files /\ c.path \in AllDirs
    BY <2>1, FusionFSAssumption DEF FusionFSAssumption, AllDirs
  <2>5. /\ list' \in [AllDirs -> Listings \union {NoList}] /\ list'[c.path] = NoList
        /\ \A d \in AllDirs \ {c.path} : list'[d] = list[d]
        /\ where' = where
    BY <1>1, <1>3, <2>4
  <2>6. QED
    BY <1>1, <1>5, <2>1, <2>3, <2>5
<1>6. QED
  BY <1>2, <1>4, <1>5

LEMMA InsertKeyIs ==
  ASSUME Typed, NEW n \in Nodes, InsertKey(n)
  PROVE  LET c == call[n]
         IN /\ c.path \in Files
            /\ \/ Is(c, "create", 7, 7) /\ Ends(n)
               \/ Is(c, "close", 5, 5) /\ Goes(n) /\ Keeping(n)
            /\ where' \in [Files -> Nodes \union {NoNode}] /\ where'[c.path] = n
            /\ \A f \in Files \ {c.path} : where'[f] = where[f]
            /\ UNCHANGED <<list, copy, dirs, handle, mounted, latest, faults>>
<1> DEFINE c == call[n]
<1>1. /\ At(n, "insertKey") /\ Continue(n)
      /\ where' = [where EXCEPT ![c.path] = n]
      /\ UNCHANGED <<list, copy, dirs, handle, mounted, latest, faults>>
  BY DEF InsertKey, localVars
<1>2. c # NoCall /\ CallRight(c) /\ (Is(c, "create", 7, 7) \/ Is(c, "close", 5, 5))
  BY <1>1, AtIs, FileSteps
<1>3. c.path \in Files
  BY <1>2 DEF CallRight, FileCalls, Is
<1>4. (AtLast(c) <=> Is(c, "create", 7, 7)) /\ (~AtLast(c) <=> Is(c, "close", 5, 5))
  BY <1>2 DEF AtLast, Is
<1>5. IF AtLast(c) THEN Ends(n) ELSE Goes(n) /\ Keeping(n)
  BY <1>1, <1>2, ContinueIs
<1>6. where \in [Files -> Nodes \union {NoNode}]
  BY DEF Typed, TypeOK
<1> HIDE DEF c
<1>7. /\ where' \in [Files -> Nodes \union {NoNode}] /\ where'[c.path] = n
      /\ \A f \in Files \ {c.path} : where'[f] = where[f]
  BY <1>1, <1>3, <1>6
<1>8. QED
  BY <1>1, <1>2, <1>3, <1>4, <1>5, <1>7 DEF c

LEMMA RemoveCopyIs ==
  ASSUME Typed, NEW n \in Nodes, RemoveCopy(n)
  PROVE  LET c == call[n]
             left == {m \in Nodes \ {c.addr} : copy[m][c.path] # 0}
         IN /\ c.path \in Files /\ (Is(c, "unlink", 8, 8) \/ Is(c, "close", 6, 6))
            /\ Ends(n)
            /\ \/ c.addr \in Nodes /\ Loses(c.addr, {c.path})
               \/ c.addr \notin Nodes /\ UNCHANGED <<copy, handle>>
            /\ Fault("leftover", IF c.do = "unlink" /\ left # {} THEN {c.path} ELSE {})
            /\ UNCHANGED <<where, list, dirs, mounted, latest>>
<1> DEFINE c == call[n]
           left == {m \in Nodes \ {c.addr} : copy[m][c.path] # 0}
<1>1. /\ At(n, "removeCopy") /\ Continue(n)
      /\ IF c.addr \in Nodes THEN Loses(c.addr, {c.path}) ELSE UNCHANGED <<copy, handle>>
      /\ Fault("leftover", IF c.do = "unlink" /\ left # {} THEN {c.path} ELSE {})
      /\ UNCHANGED <<where, list, dirs, mounted, latest>>
  BY DEF RemoveCopy, zhtVars
<1>2. c # NoCall /\ CallRight(c) /\ (Is(c, "unlink", 8, 8) \/ Is(c, "close", 6, 6))
  BY <1>1, AtIs, FileSteps
<1>3. c.path \in Files
  BY <1>2 DEF CallRight, FileCalls, Is
<1>4. AtLast(c)
  BY <1>2 DEF AtLast, Is
<1>5. Ends(n)
  BY <1>1, <1>2, <1>4, ContinueIs
<1>6. QED
  BY <1>1, <1>2, <1>3, <1>5

LEMMA MkdirIs ==
  ASSUME Typed, NEW n \in Nodes, Mkdir(n)
  PROVE  LET d == call[n].path
         IN /\ d \in Dirs /\ Is(call[n], "mkdir", 1, 1)
            /\ Goes(n) /\ Keeping(n)
            /\ dirs' \in [Nodes -> SUBSET Dirs] /\ dirs'[n] = dirs[n] \union {d}
            /\ \A m \in Nodes \ {n} : dirs'[m] = dirs[m]
            /\ list' \in [AllDirs -> Listings \union {NoList}] /\ list'[d] = Blank
            /\ \A e \in AllDirs \ {d} : list'[e] = list[e]
            /\ Fault("unseen", IF list[d] = NoList THEN {} ELSE {d})
            /\ UNCHANGED <<where, copy, handle, mounted, latest>>
<1> DEFINE c == call[n]
           d == c.path
<1>1. /\ At(n, "mkdir") /\ Continue(n)
      /\ dirs' = [dirs EXCEPT ![n] = @ \union {d}]
      /\ list' = [list EXCEPT ![d] = Blank]
      /\ Fault("unseen", IF list[d] = NoList THEN {} ELSE {d})
      /\ UNCHANGED <<where, copy, handle, mounted, latest>>
  BY DEF Mkdir
<1>2. c # NoCall /\ CallRight(c) /\ Is(c, "mkdir", 1, 1)
  BY <1>1, AtIs, DirSteps
<1>3. d \in Dirs /\ d \in AllDirs
  BY <1>2 DEF CallRight, Is, AllDirs
<1>4. ~AtLast(c)
  BY <1>2 DEF AtLast, Is
<1>5. Goes(n) /\ Keeping(n)
  BY <1>1, <1>2, <1>4, ContinueIs
<1>6. dirs \in [Nodes -> SUBSET Dirs] /\ list \in [AllDirs -> Listings \union {NoList}]
  BY DEF Typed, TypeOK
<1>7. Blank \in Listings
  BY DEF Blank, Listing, Listings
<1> HIDE DEF c, d
<1>8. /\ dirs' \in [Nodes -> SUBSET Dirs] /\ dirs'[n] = dirs[n] \union {d}
      /\ \A m \in Nodes \ {n} : dirs'[m] = dirs[m]
  BY <1>1, <1>3, <1>6
<1>9. /\ list' \in [AllDirs -> Listings \union {NoList}] /\ list'[d] = Blank
      /\ \A e \in AllDirs \ {d} : list'[e] = list[e]
  BY <1>1, <1>3, <1>6, <1>7
<1>10. QED
  BY <1>1, <1>2, <1>3, <1>5, <1>8, <1>9 DEF c, d

LEMMA RmdirIs ==
  ASSUME Typed, NEW n \in Nodes, Rmdir(n)
  PROVE  LET d == call[n].path
         IN /\ d \in Dirs /\ Is(call[n], "rmdir", 1, 1)
            /\ \/ /\ list[d] = Blank
                  /\ Goes(n) /\ Keeping(n)
                  /\ Loses(n, Under[d] \cap Files)
                  /\ dirs' \in [Nodes -> SUBSET Dirs] /\ dirs'[n] \subseteq dirs[n] \ {d}
                  /\ \A m \in Nodes \ {n} : dirs'[m] = dirs[m]
               \/ Ends(n) /\ UNCHANGED <<copy, handle, dirs>>
            /\ UNCHANGED <<where, list, mounted, latest, faults>>
<1> DEFINE c == call[n]
           d == c.path
<1>1. /\ At(n, "rmdir")
      /\ \/ /\ list[d] = Blank
            /\ Loses(n, Under[d] \cap Files)
            /\ dirs' = [dirs EXCEPT ![n] = @ \ (Under[d] \union {d})]
            /\ Continue(n)
         \/ Return(n) /\ UNCHANGED <<copy, handle, dirs>>
      /\ UNCHANGED <<where, list, mounted, latest, faults>>
  BY DEF Rmdir, IsBlank, zhtVars, localVars
<1>2. c # NoCall /\ CallRight(c) /\ Is(c, "rmdir", 1, 1)
  BY <1>1, AtIs, DirSteps
<1>3. d \in Dirs
  BY <1>2 DEF CallRight, Is
<1>4. CASE Return(n) /\ UNCHANGED <<copy, handle, dirs>>
  BY <1>1, <1>2, <1>3, <1>4, ReturnIs
<1>5. CASE /\ list[d] = Blank
           /\ Loses(n, Under[d] \cap Files)
           /\ dirs' = [dirs EXCEPT ![n] = @ \ (Under[d] \union {d})]
           /\ Continue(n)
  <2>1. ~AtLast(c)
    BY <1>2 DEF AtLast, Is
  <2>2. Goes(n) /\ Keeping(n)
    BY <1>2, <1>5, <2>1, ContinueIs
  <2>3. dirs \in [Nodes -> SUBSET Dirs]
    BY DEF Typed, TypeOK
  <2>4. /\ dirs' \in [Nodes -> SUBSET Dirs] /\ dirs'[n] \subseteq dirs[n] \ {d}
        /\ \A m \in Nodes \ {n} : dirs'[m] = dirs[m]
    BY <1>5, <2>3
  <2>5. QED
    BY <1>1, <1>2, <1>3, <1>5, <2>2, <2>4
<1>6. QED
  BY <1>1, <1>4, <1>5

LEMMA RemoveListIs ==
  ASSUME Typed, NEW n \in Nodes, RemoveList(n)
  PROVE  LET c == call[n]
         IN /\ c.path \in Paths /\ Parent[c.path] \in AllDirs
            /\ \/ Is(c, "create", 5, 5) \/ Is(c, "unlink", 4, 4)
               \/ Is(c, "mkdir", 3, 3) \/ Is(c, "rmdir", 3, 3)
            /\ Goes(n) /\ Keeping(n)
            /\ list' \in [AllDirs -> Listings \union {NoList}] /\ list'[Parent[c.path]] = NoList
            /\ \A d \in AllDirs \ {Parent[c.path]} : list'[d] = list[d]
            /\ UNCHANGED <<where, copy, dirs, handle, mounted, latest, faults>>
<1> DEFINE c == call[n]
           e == Parent[c.path]
<1>1. /\ At(n, "removeList") /\ Continue(n)
      /\ list' = [list EXCEPT ![e] = NoList]
      /\ UNCHANGED <<where, copy, dirs, handle, mounted, latest, faults>>
  BY DEF RemoveList, localVars
<1>2. /\ c # NoCall /\ CallRight(c)
      /\ \/ Is(c, "create", 5, 5) \/ Is(c, "unlink", 4, 4)
         \/ Is(c, "mkdir", 3, 3) \/ Is(c, "rmdir", 3, 3)
  BY <1>1, AtIs, DirSteps
<1>3. c.path \in Paths
  BY <1>2 DEF CallRight, FileCalls, Is, Paths
<1>4. e \in AllDirs
  BY <1>3, FusionFSAssumption DEF FusionFSAssumption
<1>5. ~AtLast(c)
  BY <1>2 DEF AtLast, Is
<1>6. Goes(n) /\ Keeping(n)
  BY <1>1, <1>2, <1>5, ContinueIs
<1>7. list \in [AllDirs -> Listings \union {NoList}]
  BY DEF Typed, TypeOK
<1> HIDE DEF e, c
<1>8. /\ list' \in [AllDirs -> Listings \union {NoList}] /\ list'[e] = NoList
      /\ \A d \in AllDirs \ {e} : list'[d] = list[d]
  BY <1>1, <1>4, <1>7
<1>9. QED
  BY <1>1, <1>2, <1>3, <1>4, <1>6, <1>8 DEF e, c

LEMMA InsertListIs ==
  ASSUME Typed, NEW n \in Nodes, InsertList(n)
  PROVE  LET c == call[n]
         IN /\ c.path \in Paths /\ Parent[c.path] \in AllDirs
            /\ \/ (Is(c, "create", 6, 6) \/ Is(c, "unlink", 5, 5) \/ Is(c, "rmdir", 4, 4)) /\ Goes(n)
               \/ Is(c, "mkdir", 4, 4) /\ Ends(n)
            /\ list' \in [AllDirs -> Listings \union {NoList}] /\ list'[Parent[c.path]] = c.val
            /\ c.val \in Listings
            /\ \A d \in AllDirs \ {Parent[c.path]} : list'[d] = list[d]
            /\ UNCHANGED <<where, copy, dirs, handle, mounted, latest, faults>>
<1> DEFINE c == call[n]
           e == Parent[c.path]
<1>1. /\ At(n, "insertList") /\ Proceed(n)
      /\ list' = [list EXCEPT ![e] = c.val]
      /\ UNCHANGED <<where, copy, dirs, handle, mounted, latest, faults>>
  BY DEF InsertList, localVars
<1>2. /\ c # NoCall /\ CallRight(c)
      /\ \/ Is(c, "create", 6, 6) \/ Is(c, "unlink", 5, 5)
         \/ Is(c, "mkdir", 4, 4) \/ Is(c, "rmdir", 4, 4)
  BY <1>1, AtIs, DirSteps
<1>3. c.path \in Paths /\ c.val \in Listings
  BY <1>2 DEF CallRight, Calls, FileCalls, Is, Paths
<1>4. e \in AllDirs
  BY <1>3, FusionFSAssumption DEF FusionFSAssumption
<1>5. AtLast(c) <=> Is(c, "mkdir", 4, 4)
  BY <1>2 DEF AtLast, Is
<1>6. IF AtLast(c) THEN Ends(n) ELSE Goes(n)
  BY <1>1, <1>2, ProceedIs
<1>7. list \in [AllDirs -> Listings \union {NoList}]
  BY DEF Typed, TypeOK
<1> HIDE DEF e, c
<1>8. /\ list' \in [AllDirs -> Listings \union {NoList}] /\ list'[e] = c.val
      /\ \A d \in AllDirs \ {e} : list'[d] = list[d]
  BY <1>1, <1>3, <1>4, <1>7
<1>9. QED
  BY <1>1, <1>2, <1>3, <1>4, <1>5, <1>6, <1>8 DEF e, c

\* The program of n ends in a call that changes something.
Died(n) ==
  /\ Ends(n)
  /\ mounted' \subseteq Nodes
  /\ handle' \in [Nodes -> HandleRecords] /\ handle'[n] = Closed
  /\ \A m \in Nodes \ {n} : handle'[m] = handle[m]
  /\ Fault("crash", Touched(n))
  /\ UNCHANGED <<where, list, copy, dirs, latest>>

LEMMA DiesIs ==
  ASSUME Typed, NEW n \in Nodes, Dies(n), UNCHANGED <<where, list, copy, dirs, latest>>
  PROVE  Died(n)
<1>1. Ends(n)
  BY ReturnIs DEF Dies
<1>2. handle \in [Nodes -> HandleRecords] /\ mounted \subseteq Nodes
  BY DEF Typed, TypeOK, HandleRecords
<1>3. Closed \in HandleRecords
  BY DEF Closed, HandleRecords
<1>4. mounted' \subseteq Nodes /\ Fault("crash", Touched(n)) /\ handle' = [handle EXCEPT ![n] = Closed]
  BY <1>2 DEF Dies
<1>5. /\ handle' \in [Nodes -> HandleRecords] /\ handle'[n] = Closed
      /\ \A m \in Nodes \ {n} : handle'[m] = handle[m]
  BY <1>2, <1>3, <1>4
<1>6. QED
  BY <1>1, <1>4, <1>5 DEF Died

LEMMA LookIs ==
  ASSUME Typed, NEW n \in Nodes, Look(n)
  PROVE  LET c == call[n]
             v == Text(list[Parent[c.path]])
         IN \/ /\ Is(c, "ls", 1, 1) /\ Goes(n)
               /\ UNCHANGED <<where, list, copy, dirs, handle, mounted, latest, faults>>
            \/ /\ c.path \in Paths /\ Parent[c.path] \in AllDirs
               /\ Is(c, "create", 4, 4) \/ Is(c, "mkdir", 2, 2)
               /\ Goes(n) /\ call'[n].val = With(v, c.path)
               /\ UNCHANGED <<where, list, copy, dirs, handle, mounted, latest, faults>>
            \/ /\ c.path \in Paths /\ Parent[c.path] \in AllDirs
               /\ Is(c, "unlink", 3, 3) \/ Is(c, "rmdir", 2, 2)
               /\ Places(v, c.path) # {}
               /\ Goes(n) /\ call'[n].val = Without(v, c.path)
               /\ UNCHANGED <<where, list, copy, dirs, handle, mounted, latest, faults>>
            \/ Died(n)
<1> DEFINE c == call[n]
           v == Text(list[Directory(c)])
           u == Text(list[Parent[c.path]])
           d == Onward(c)
<1>1. At(n, "look")
  BY DEF Look
<1>2. /\ c # NoCall /\ CallRight(c)
      /\ \/ Is(c, "create", 4, 4) \/ Is(c, "unlink", 3, 3)
         \/ Is(c, "mkdir", 2, 2) \/ Is(c, "rmdir", 2, 2) \/ Is(c, "ls", 1, 1)
  BY <1>1, AtIs, DirSteps
<1>3. ~AtLast(c)
  BY <1>2 DEF AtLast, Is
<1> HIDE DEF d
<1>4. /\ d # NoCall /\ CallRight(d)
      /\ d.do = c.do /\ d.path = c.path /\ d.to = c.to /\ d.at = c.at + 1
  BY <1>2, <1>3, OnwardIs, LastStep DEF d
<1>5. ASSUME NEW new \in Listings, call' = [call EXCEPT ![n] = [d EXCEPT !.val = new]]
      PROVE  Goes(n) /\ call'[n].val = new
  <2> DEFINE e == [d EXCEPT !.val = new]
  <2>1. /\ CallRight(e) /\ e.do = c.do /\ e.path = c.path /\ e.to = c.to /\ e.at = c.at + 1
        /\ e.val = new
    BY <1>4 DEF CallRight, Calls
  <2> HIDE DEF e
  <2>2. e # NoCall
    BY <2>1, Spans, Doings DEF NoCall, FileCalls
  <2>3. Apart(n) /\ call'[n] = e
    BY <1>5, <2>1, CallSet DEF e
  <2>4. QED
    BY <2>1, <2>2, <2>3 DEF Goes
<1>6. CASE Is(c, "ls", 1, 1)
  <2>1. c.path \in AllDirs /\ Directory(c) = c.path
    BY <1>2, <1>6 DEF Is, Directory, CallRight
  <2>2. v \in Listings
    BY <2>1, TextIsListing DEF Typed, TypeOK
  <2>3. /\ call' = [call EXCEPT ![n] = [d EXCEPT !.val = v]]
        /\ UNCHANGED <<where, list, copy, dirs, handle, mounted, latest, faults>>
    BY <1>6 DEF Look, Is, zhtVars, d
  <2> HIDE DEF v
  <2>4. Goes(n)
    BY <1>5, <2>2, <2>3
  <2>5. QED
    BY <1>6, <2>3, <2>4
<1>7. CASE Is(c, "create", 4, 4) \/ Is(c, "mkdir", 2, 2) \/ Is(c, "unlink", 3, 3) \/ Is(c, "rmdir", 2, 2)
  <2>1. c.path \in Paths /\ Directory(c) = Parent[c.path] /\ c.do # "ls"
    BY <1>2, <1>7 DEF Is, Directory, CallRight, FileCalls, Paths
  <2>2. Parent[c.path] \in AllDirs /\ u = v
    BY <2>1, FusionFSAssumption DEF FusionFSAssumption
  <2>3. v \in Listings
    <3>1. list[Parent[c.path]] \in Listings \union {NoList}
      BY <2>2 DEF Typed, TypeOK
    <3>2. QED
      BY <2>2, <3>1, TextIsListing
  <2> HIDE DEF u
  <2>4. CASE Is(c, "create", 4, 4) \/ Is(c, "mkdir", 2, 2)
    <3>1. /\ call' = [call EXCEPT ![n] = [d EXCEPT !.val = With(v, c.path)]]
          /\ UNCHANGED <<where, list, copy, dirs, handle, mounted, latest, faults>>
      BY <2>4 DEF Look, Is, zhtVars, d
    <3> HIDE DEF v
    <3>2. With(v, c.path) \in Listings
      BY <2>1, <2>3, WithAdds
    <3>3. Goes(n) /\ call'[n].val = With(v, c.path)
      BY <1>5, <3>1, <3>2
    <3>4. QED
      BY <2>1, <2>2, <2>4, <3>1, <3>3 DEF u
  <2>5. CASE Is(c, "unlink", 3, 3) \/ Is(c, "rmdir", 2, 2)
    <3>1. \/ /\ Places(v, c.path) # {}
             /\ call' = [call EXCEPT ![n] = [d EXCEPT !.val = Without(v, c.path)]]
             /\ UNCHANGED <<where, list, copy, dirs, handle, mounted, latest, faults>>
          \/ Dies(n) /\ UNCHANGED <<where, list, copy, dirs, latest>>
      BY <2>5 DEF Look, Is, zhtVars, d
    <3> HIDE DEF v
    <3>2. CASE /\ Places(v, c.path) # {}
               /\ call' = [call EXCEPT ![n] = [d EXCEPT !.val = Without(v, c.path)]]
               /\ UNCHANGED <<where, list, copy, dirs, handle, mounted, latest, faults>>
      <4>1. Without(v, c.path) \in Listings
        BY <2>1, <2>3, <3>2, WithoutTakes
      <4>2. Goes(n) /\ call'[n].val = Without(v, c.path)
        BY <1>5, <3>2, <4>1
      <4>3. QED
        BY <2>1, <2>2, <2>5, <3>2, <4>2 DEF u
    <3>3. CASE Dies(n) /\ UNCHANGED <<where, list, copy, dirs, latest>>
      BY <3>3, DiesIs
    <3>4. QED
      BY <3>1, <3>2, <3>3
  <2>6. QED
    BY <1>7, <2>4, <2>5
<1>8. QED
  BY <1>2, <1>6, <1>7

LEMMA ShowIs ==
  ASSUME Typed, NEW n \in Nodes, Show(n)
  PROVE  LET c == call[n]
             swept == Sweeps[c.path] \cap Files
             lost == {f \in swept : copy[n][f] # 0 /\ (where[f] = n \/ f \in Touched(n))}
         IN /\ c.path \in AllDirs /\ Is(c, "ls", 2, 2)
            /\ Ends(n)
            /\ dirs' \in [Nodes -> SUBSET Dirs]
            /\ \A m \in Nodes \ {n} : dirs'[m] = dirs[m]
            /\ \/ Loses(n, swept) /\ Fault("sweep", lost) /\ dirs'[n] \subseteq dirs[n]
               \/ /\ UNCHANGED <<copy, handle>>
                  /\ \E ps \in SUBSET Dirs :
                       /\ Fault("leftover", ps)
                       /\ \A d \in dirs'[n] \ dirs[n] : list[d] = NoList => d \in ps
            /\ UNCHANGED <<where, list, mounted, latest>>
<1> DEFINE c == call[n]
           names == {c.val.names[i] : i \in DOMAIN c.val.names}
           swept == Sweeps[c.path] \cap Files
           lost == {f \in swept : copy[n][f] # 0 /\ (where[f] = n \/ f \in Touched(n))}
           ps == {q \in names \cap Dirs : list[q] = NoList}
<1>1. /\ At(n, "show") /\ Continue(n)
      /\ \/ /\ Loses(n, swept) /\ Fault("sweep", lost)
            /\ dirs' = [dirs EXCEPT ![n] = @ \ Sweeps[c.path]]
         \/ /\ Fault("leftover", ps) /\ UNCHANGED <<copy, handle>>
            /\ dirs' = [dirs EXCEPT ![n] = @ \union (names \cap Dirs)]
      /\ UNCHANGED <<where, list, mounted, latest>>
  BY DEF Show, Made, zhtVars
<1>2. c # NoCall /\ CallRight(c) /\ Is(c, "ls", 2, 2)
  BY <1>1, AtIs, DirSteps
<1>3. c.path \in AllDirs
  BY <1>2 DEF CallRight, Is
<1>4. AtLast(c)
  BY <1>2 DEF AtLast, Is
<1>5. Ends(n)
  BY <1>1, <1>2, <1>4, ContinueIs
<1>6. dirs \in [Nodes -> SUBSET Dirs]
  BY DEF Typed, TypeOK
<1>7. ps \in SUBSET Dirs
  OBVIOUS
<1>8. CASE /\ Loses(n, swept) /\ Fault("sweep", lost)
           /\ dirs' = [dirs EXCEPT ![n] = @ \ Sweeps[c.path]]
  <2>1. /\ dirs' \in [Nodes -> SUBSET Dirs] /\ dirs'[n] \subseteq dirs[n]
        /\ \A m \in Nodes \ {n} : dirs'[m] = dirs[m]
    BY <1>6, <1>8
  <2>2. QED
    BY <1>1, <1>2, <1>3, <1>5, <1>8, <2>1
<1>9. CASE /\ Fault("leftover", ps) /\ UNCHANGED <<copy, handle>>
           /\ dirs' = [dirs EXCEPT ![n] = @ \union (names \cap Dirs)]
  <2> HIDE DEF names
  <2>1. /\ dirs' \in [Nodes -> SUBSET Dirs] /\ dirs'[n] = dirs[n] \union (names \cap Dirs)
        /\ \A m \in Nodes \ {n} : dirs'[m] = dirs[m]
    BY <1>6, <1>9
  <2>2. \A d \in dirs'[n] \ dirs[n] : list[d] = NoList => d \in ps
    BY <2>1
  <2> HIDE DEF ps
  <2>3. QED
    BY <1>1, <1>2, <1>3, <1>5, <1>7, <1>9, <2>1, <2>2
<1>10. QED
  BY <1>1, <1>8, <1>9

LEMMA MountIs ==
  ASSUME Typed, NEW n \in Nodes, Mount(n)
  PROVE  /\ mounted' \subseteq Nodes
         /\ list' \in [AllDirs -> Listings \union {NoList}] /\ list'[Root] = Blank
         /\ \A d \in Dirs : list'[d] = list[d]
         /\ \/ list[Root] \in {NoList, Blank} /\ (\A m \in Nodes : Root \notin Touched(m)) /\ faults' = faults
            \/ Fault("mount", {Root})
         /\ UNCHANGED <<where, copy, dirs, handle, call, latest>>
<1>1. Root \in AllDirs /\ Root \notin Dirs /\ Dirs \subseteq AllDirs
  BY FusionFSAssumption DEF FusionFSAssumption, AllDirs, Paths
<1>2. list \in [AllDirs -> Listings \union {NoList}] /\ mounted \subseteq Nodes
  BY DEF Typed, TypeOK
<1>3. list' = [list EXCEPT ![Root] = Blank] /\ mounted' = mounted \union {n}
  BY DEF Mount
<1>4. /\ list' \in [AllDirs -> Listings \union {NoList}] /\ list'[Root] = Blank
      /\ \A d \in Dirs : list'[d] = list[d]
  BY <1>1, <1>2, <1>3, BlankIsListing
<1>5. \/ list[Root] \in {NoList, Blank} /\ (\A m \in Nodes : Root \notin Touched(m)) /\ faults' = faults
      \/ Fault("mount", {Root})
  BY DEF Mount, Fault
<1>6. QED
  BY <1>2, <1>3, <1>4, <1>5 DEF Mount, localVars

LEMMA CrashIs ==
  ASSUME Typed, NEW n \in Nodes, Crash(n)
  PROVE  Died(n)
BY DiesIs DEF Crash, zhtVars

LEMMA WriteIs ==
  ASSUME Typed, NEW n \in Nodes, Write(n)
  PROVE  LET f == handle[n].file
         IN /\ f \in Files /\ handle[n].writes
            /\ latest' \in [Files -> Nat] /\ latest'[f] = latest[f] + 1
            /\ \A g \in Files \ {f} : latest'[g] = latest[g]
            /\ copy' \in [Nodes -> [Files -> Nat]]
            /\ handle[n].linked => copy'[n][f] = latest[f] + 1
            /\ ~handle[n].linked => copy' = copy
            /\ \A m \in Nodes, g \in Files : m # n \/ g # f => copy'[m][g] = copy[m][g]
            /\ UNCHANGED <<where, list, dirs, handle, mounted, call, faults>>
<1> DEFINE f == handle[n].file
<1>1. /\ handle[n].writes
      /\ latest' = [latest EXCEPT ![f] = latest[f] + 1]
      /\ copy' = IF handle[n].linked THEN [copy EXCEPT ![n][f] = latest[f] + 1] ELSE copy
      /\ UNCHANGED <<where, list, dirs, handle, mounted, call, faults>>
  BY DEF Write, zhtVars
<1>2. f \in Files
  BY <1>1 DEF Typed, HandleRight, Closed
<1>3. copy \in [Nodes -> [Files -> Nat]] /\ latest \in [Files -> Nat]
  BY DEF Typed, TypeOK
<1> HIDE DEF f
<1>4. /\ latest' \in [Files -> Nat] /\ latest'[f] = latest[f] + 1
      /\ \A g \in Files \ {f} : latest'[g] = latest[g]
  BY <1>1, <1>2, <1>3
<1>5. /\ copy' \in [Nodes -> [Files -> Nat]]
      /\ handle[n].linked => copy'[n][f] = latest[f] + 1
      /\ ~handle[n].linked => copy' = copy
      /\ \A m \in Nodes, g \in Files : m # n \/ g # f => copy'[m][g] = copy[m][g]
  BY <1>1, <1>2, <1>3
<1>6. QED
  BY <1>1, <1>2, <1>4, <1>5 DEF f

-----------------------------------------------------------------------------
(***************************************************************************)
(* Every step keeps the types.                                             *)
(***************************************************************************)
Values ==
  /\ where \in [Files -> Nodes \union {NoNode}]
  /\ list \in [AllDirs -> Listings \union {NoList}]
  /\ copy \in [Nodes -> [Files -> Nat]]
  /\ dirs \in [Nodes -> SUBSET Dirs]
  /\ latest \in [Files -> Nat]

HandlesTyped ==
  /\ handle \in [Nodes -> HandleRecords]
  /\ \A n \in Nodes : HandleRight(handle[n])

CallsTyped ==
  /\ call \in [Nodes -> Calls \union {NoCall}]
  /\ \A n \in Nodes : call[n] = NoCall \/ CallRight(call[n])

LEMMA TypedIs ==
  Typed <=> /\ Values /\ HandlesTyped /\ CallsTyped
            /\ mounted \subseteq Nodes /\ faults \subseteq Kinds \X (Paths \union {Root})
BY DEF Typed, TypeOK, Values, HandlesTyped, CallsTyped, HandleRecords

LEMMA TypedNext ==
  ASSUME Values', HandlesTyped', CallsTyped',
         mounted' \subseteq Nodes, faults' \subseteq Kinds \X (Paths \union {Root})
  PROVE  Typed'
BY DEF Typed, TypeOK, Values, HandlesTyped, CallsTyped, HandleRecords

LEMMA InitTyped ==
  ASSUME Init
  PROVE  Typed
<1>1. Values
  BY DEF Init, Values
<1>2. HandlesTyped
  BY DEF Init, HandlesTyped, HandleRecords, HandleRight, Closed
<1>3. CallsTyped
  BY DEF Init, CallsTyped
<1>4. mounted \subseteq Nodes /\ faults \subseteq Kinds \X (Paths \union {Root})
  BY DEF Init
<1>5. QED
  BY <1>1, <1>2, <1>3, <1>4, TypedIs

LEMMA ClosedIsRight ==
  Closed \in HandleRecords /\ HandleRight(Closed)
BY DEF Closed, HandleRecords, HandleRight

LEMMA HandleIsRight ==
  ASSUME HandlesTyped, NEW n \in Nodes,
         \A m \in Nodes \ {n} : handle'[m] = handle[m], handle' \in [Nodes -> HandleRecords],
         handle'[n] = Closed \/ handle'[n].file \in Files
  PROVE  HandlesTyped'
BY ClosedIsRight DEF HandlesTyped, HandleRight

LEMMA FileStepTyped ==
  ASSUME Typed, NEW n \in Nodes, FileStep(n)
  PROVE  Typed'
<1>1. /\ Values /\ HandlesTyped /\ CallsTyped
      /\ mounted \subseteq Nodes /\ faults \subseteq Kinds \X (Paths \union {Root})
  BY TypedIs
<1>2. CASE Lookup(n)
  <2>1. Goes(n) /\ UNCHANGED <<where, list, copy, dirs, handle, mounted, latest, faults>>
    BY <1>2, LookupIs
  <2>2. Values' /\ HandlesTyped' /\ CallsTyped'
    BY <1>1, <2>1 DEF Values, HandlesTyped, CallsTyped, Goes, Apart
  <2>3. QED
    BY <1>1, <2>1, <2>2, TypedNext
<1>3. CASE Fetch(n)
  <2>1. /\ Ends(n) \/ Goes(n)
        /\ copy' \in [Nodes -> [Files -> Nat]]
        /\ \E ps \in SUBSET Files : Fault("refetch", ps)
        /\ UNCHANGED <<where, list, dirs, handle, mounted, latest>>
    <3>1. handle[n].writes => handle[n].file \in Files
      BY <1>1 DEF HandlesTyped, HandleRight, Closed
    <3>2. call[n].path \in Files
      BY <1>3, FetchIs
    <3>3. QED
      BY <1>3, <3>2, FetchIs
  <2>2. Values' /\ HandlesTyped' /\ CallsTyped'
    BY <1>1, <2>1 DEF Values, HandlesTyped, CallsTyped, Goes, Ends, Apart
  <2>3. faults' \subseteq Kinds \X (Paths \union {Root})
    BY <2>1, FaultsType DEF Kinds, Paths
  <2>4. QED
    BY <1>1, <2>1, <2>2, <2>3, TypedNext
<1>4. CASE Open(n)
  <2>1. /\ Ends(n)
        /\ \/ handle' = handle
           \/ /\ handle' \in [Nodes -> HandleRecords] /\ handle'[n].file \in Files
              /\ \A m \in Nodes \ {n} : handle'[m] = handle[m]
        /\ UNCHANGED <<where, list, copy, dirs, mounted, latest, faults>>
    BY <1>4, OpenIs
  <2>2. Values' /\ CallsTyped'
    BY <1>1, <2>1 DEF Values, CallsTyped, Ends, Apart
  <2>3. HandlesTyped'
    <3>1. CASE handle' = handle
      BY <1>1, <3>1 DEF HandlesTyped
    <3>2. CASE handle' # handle
      BY <1>1, <2>1, <3>2, HandleIsRight
    <3>3. QED
      BY <3>1, <3>2
  <2>4. QED
    BY <1>1, <2>1, <2>2, <2>3, TypedNext
<1>5. CASE Creat(n)
  <2>1. /\ Goes(n)
        /\ copy' \in [Nodes -> [Files -> Nat]] /\ latest' \in [Files -> Nat]
        /\ handle' \in [Nodes -> HandleRecords] /\ handle'[n].file \in Files
        /\ \A m \in Nodes \ {n} : handle'[m] = handle[m]
        /\ UNCHANGED <<where, list, dirs, mounted, faults>>
    BY <1>5, CreatIs
  <2>2. Values' /\ CallsTyped'
    BY <1>1, <2>1 DEF Values, CallsTyped, Goes, Apart
  <2>3. HandlesTyped'
    BY <1>1, <2>1, HandleIsRight
  <2>4. QED
    BY <1>1, <2>1, <2>2, <2>3, TypedNext
<1>6. CASE RenameCopy(n)
  <2>1. /\ Ends(n)
        /\ copy' \in [Nodes -> [Files -> Nat]]
        /\ \E ps \in SUBSET Files : Fault("rename", ps)
        /\ UNCHANGED <<where, list, dirs, handle, mounted, latest>>
    BY <1>6, RenameCopyIs
  <2>2. Values' /\ HandlesTyped' /\ CallsTyped'
    BY <1>1, <2>1 DEF Values, HandlesTyped, CallsTyped, Ends, Apart
  <2>3. faults' \subseteq Kinds \X (Paths \union {Root})
    BY <2>1, FaultsType DEF Kinds, Paths
  <2>4. QED
    BY <1>1, <2>1, <2>2, <2>3, TypedNext
<1>7. CASE Settle(n)
  <2>1. /\ Ends(n) \/ Goes(n)
        /\ (\E fs : Loses(n, fs)) \/ UNCHANGED <<copy, handle>>
        /\ UNCHANGED <<where, list, dirs, mounted, latest, faults>>
    BY <1>7, SettleIs
  <2>2. copy' \in [Nodes -> [Files -> Nat]] /\ HandlesTyped'
    <3>1. CASE \E fs : Loses(n, fs)
      <4>1. PICK fs : Loses(n, fs)
        BY <3>1
      <4>2. QED
        BY <4>1, CopyType DEF HandlesTyped
    <3>2. CASE UNCHANGED <<copy, handle>>
      BY <1>1, <3>2 DEF Values, HandlesTyped
    <3>3. QED
      BY <2>1, <3>1, <3>2
  <2>3. Values' /\ CallsTyped'
    BY <1>1, <2>1, <2>2 DEF Values, CallsTyped, Goes, Ends, Apart
  <2>4. QED
    BY <1>1, <2>1, <2>2, <2>3, TypedNext
<1>8. CASE RemoveKey(n)
  <2>1. /\ Ends(n) \/ Goes(n)
        /\ where' \in [Files -> Nodes \union {NoNode}]
        /\ list' \in [AllDirs -> Listings \union {NoList}]
        /\ \E ps \in SUBSET Paths : Fault("leftover", ps)
        /\ UNCHANGED <<copy, dirs, handle, mounted, latest>>
    <3>1. call[n].path \in Paths /\ {call[n].path} \cap UNION {dirs[m] : m \in Nodes} \in SUBSET Paths
      BY <1>8, RemoveKeyIs DEF Paths
    <3>2. QED
      BY <1>1, <1>8, <3>1, RemoveKeyIs DEF Values
  <2>2. Values' /\ HandlesTyped' /\ CallsTyped'
    BY <1>1, <2>1 DEF Values, HandlesTyped, CallsTyped, Goes, Ends, Apart
  <2>3. faults' \subseteq Kinds \X (Paths \union {Root})
    BY <2>1, FaultsType DEF Kinds
  <2>4. QED
    BY <1>1, <2>1, <2>2, <2>3, TypedNext
<1>9. CASE InsertKey(n)
  <2>1. /\ Ends(n) \/ Goes(n)
        /\ where' \in [Files -> Nodes \union {NoNode}]
        /\ UNCHANGED <<list, copy, dirs, handle, mounted, latest, faults>>
    BY <1>9, InsertKeyIs
  <2>2. Values' /\ HandlesTyped' /\ CallsTyped'
    BY <1>1, <2>1 DEF Values, HandlesTyped, CallsTyped, Goes, Ends, Apart
  <2>3. QED
    BY <1>1, <2>1, <2>2, TypedNext
<1>10. CASE RemoveCopy(n)
  <2>1. /\ Ends(n)
        /\ (\E m \in Nodes : \E fs : Loses(m, fs)) \/ UNCHANGED <<copy, handle>>
        /\ \E ps \in SUBSET Files : Fault("leftover", ps)
        /\ UNCHANGED <<where, list, dirs, mounted, latest>>
    <3>1. call[n].path \in Files
      BY <1>10, RemoveCopyIs
    <3>2. QED
      BY <1>10, <3>1, RemoveCopyIs
  <2>2. copy' \in [Nodes -> [Files -> Nat]] /\ HandlesTyped'
    <3>1. CASE \E m \in Nodes : \E fs : Loses(m, fs)
      <4>1. PICK m \in Nodes : \E fs : Loses(m, fs)
        BY <3>1
      <4>2. PICK fs : Loses(m, fs)
        BY <4>1
      <4>3. QED
        BY <4>2, CopyType DEF HandlesTyped
    <3>2. CASE UNCHANGED <<copy, handle>>
      BY <1>1, <3>2 DEF Values, HandlesTyped
    <3>3. QED
      BY <2>1, <3>1, <3>2
  <2>3. Values' /\ CallsTyped'
    BY <1>1, <2>1, <2>2 DEF Values, CallsTyped, Ends, Apart
  <2>4. faults' \subseteq Kinds \X (Paths \union {Root})
    BY <2>1, FaultsType DEF Kinds, Paths
  <2>5. QED
    BY <1>1, <2>1, <2>2, <2>3, <2>4, TypedNext
<1>11. QED
  BY <1>2, <1>3, <1>4, <1>5, <1>6, <1>7, <1>8, <1>9, <1>10 DEF FileStep

LEMMA DiedTyped ==
  ASSUME Typed, NEW n \in Nodes, Died(n)
  PROVE  Typed'
<1>1. /\ Values /\ HandlesTyped /\ CallsTyped
      /\ mounted \subseteq Nodes /\ faults \subseteq Kinds \X (Paths \union {Root})
  BY TypedIs
<1>2. Values' /\ CallsTyped' /\ mounted' \subseteq Nodes
  BY <1>1 DEF Died, Values, CallsTyped, Ends, Apart
<1>3. HandlesTyped'
  BY <1>1, HandleIsRight DEF Died
<1>4. faults' \subseteq Kinds \X (Paths \union {Root})
  BY TouchedArePaths, FaultsType DEF Died, Kinds
<1>5. QED
  BY <1>2, <1>3, <1>4, TypedNext

LEMMA DirStepTyped ==
  ASSUME Typed, NEW n \in Nodes, DirStep(n)
  PROVE  Typed'
<1>1. /\ Values /\ HandlesTyped /\ CallsTyped
      /\ mounted \subseteq Nodes /\ faults \subseteq Kinds \X (Paths \union {Root})
  BY TypedIs
<1>2. CASE Mkdir(n)
  <2>1. /\ Goes(n)
        /\ dirs' \in [Nodes -> SUBSET Dirs] /\ list' \in [AllDirs -> Listings \union {NoList}]
        /\ \E ps \in SUBSET Paths : Fault("unseen", ps)
        /\ UNCHANGED <<where, copy, handle, mounted, latest>>
    <3>1. call[n].path \in Paths
      BY <1>2, MkdirIs DEF Paths
    <3>2. QED
      BY <1>2, <3>1, MkdirIs
  <2>2. Values' /\ HandlesTyped' /\ CallsTyped'
    BY <1>1, <2>1 DEF Values, HandlesTyped, CallsTyped, Goes, Apart
  <2>3. faults' \subseteq Kinds \X (Paths \union {Root})
    BY <2>1, FaultsType DEF Kinds
  <2>4. QED
    BY <1>1, <2>1, <2>2, <2>3, TypedNext
<1>3. CASE Rmdir(n)
  <2>1. /\ Ends(n) \/ Goes(n)
        /\ (\E fs : Loses(n, fs)) \/ UNCHANGED <<copy, handle>>
        /\ dirs' \in [Nodes -> SUBSET Dirs] \/ dirs' = dirs
        /\ UNCHANGED <<where, list, mounted, latest, faults>>
    BY <1>3, RmdirIs
  <2>2. copy' \in [Nodes -> [Files -> Nat]] /\ HandlesTyped'
    <3>1. CASE \E fs : Loses(n, fs)
      <4>1. PICK fs : Loses(n, fs)
        BY <3>1
      <4>2. QED
        BY <4>1, CopyType DEF HandlesTyped
    <3>2. CASE UNCHANGED <<copy, handle>>
      BY <1>1, <3>2 DEF Values, HandlesTyped
    <3>3. QED
      BY <2>1, <3>1, <3>2
  <2>3. Values' /\ CallsTyped'
    BY <1>1, <2>1, <2>2 DEF Values, CallsTyped, Goes, Ends, Apart
  <2>4. QED
    BY <1>1, <2>1, <2>2, <2>3, TypedNext
<1>4. CASE Look(n)
  <2>1. CASE Died(n)
    BY <2>1, DiedTyped
  <2>2. CASE ~Died(n)
    <3>1. Goes(n) /\ UNCHANGED <<where, list, copy, dirs, handle, mounted, latest, faults>>
      BY <1>4, <2>2, LookIs
    <3>2. Values' /\ HandlesTyped' /\ CallsTyped'
      BY <1>1, <3>1 DEF Values, HandlesTyped, CallsTyped, Goes, Apart
    <3>3. QED
      BY <1>1, <3>1, <3>2, TypedNext
  <2>3. QED
    BY <2>1, <2>2
<1>5. CASE RemoveList(n) \/ InsertList(n)
  <2>1. /\ Ends(n) \/ Goes(n)
        /\ list' \in [AllDirs -> Listings \union {NoList}]
        /\ UNCHANGED <<where, copy, dirs, handle, mounted, latest, faults>>
    BY <1>5, RemoveListIs, InsertListIs
  <2>2. Values' /\ HandlesTyped' /\ CallsTyped'
    BY <1>1, <2>1 DEF Values, HandlesTyped, CallsTyped, Goes, Ends, Apart
  <2>3. QED
    BY <1>1, <2>1, <2>2, TypedNext
<1>6. CASE Show(n)
  <2>1. /\ Ends(n)
        /\ (\E fs : Loses(n, fs)) \/ UNCHANGED <<copy, handle>>
        /\ dirs' \in [Nodes -> SUBSET Dirs]
        /\ \E kind \in {"sweep", "leftover"}, ps \in SUBSET Paths : Fault(kind, ps)
        /\ UNCHANGED <<where, list, mounted, latest>>
    <3>1. Files \subseteq Paths /\ Dirs \subseteq Paths
      BY DEF Paths
    <3>2. QED
      BY <1>6, <3>1, ShowIs
  <2>2. copy' \in [Nodes -> [Files -> Nat]] /\ HandlesTyped'
    <3>1. CASE \E fs : Loses(n, fs)
      <4>1. PICK fs : Loses(n, fs)
        BY <3>1
      <4>2. QED
        BY <4>1, CopyType DEF HandlesTyped
    <3>2. CASE UNCHANGED <<copy, handle>>
      BY <1>1, <3>2 DEF Values, HandlesTyped
    <3>3. QED
      BY <2>1, <3>1, <3>2
  <2>3. Values' /\ CallsTyped'
    BY <1>1, <2>1, <2>2 DEF Values, CallsTyped, Ends, Apart
  <2>4. faults' \subseteq Kinds \X (Paths \union {Root})
    BY <2>1, FaultsType DEF Kinds
  <2>5. QED
    BY <1>1, <2>1, <2>2, <2>3, <2>4, TypedNext
<1>7. QED
  BY <1>2, <1>3, <1>4, <1>5, <1>6 DEF DirStep

LEMMA UserTyped ==
  ASSUME Typed, NEW n \in Nodes, User(n)
  PROVE  Typed'
<1>1. /\ Values /\ HandlesTyped /\ CallsTyped
      /\ mounted \subseteq Nodes /\ faults \subseteq Kinds \X (Paths \union {Root})
  BY TypedIs
<1>2. CASE Write(n)
  <2>1. /\ copy' \in [Nodes -> [Files -> Nat]] /\ latest' \in [Files -> Nat]
        /\ UNCHANGED <<where, list, dirs, handle, mounted, call, faults>>
    BY <1>2, WriteIs
  <2>2. Values' /\ HandlesTyped' /\ CallsTyped'
    BY <1>1, <2>1 DEF Values, HandlesTyped, CallsTyped
  <2>3. QED
    BY <1>1, <2>1, <2>2, TypedNext
<1>3. CASE Free(n) /\ Starts(n)
  <2>1. /\ \E do, path : Begun(n, do, path)
        /\ handle' = handle \/ handle' = [handle EXCEPT ![n] = Closed]
    BY <1>3, StartIs
  <2>2. HandlesTyped'
    BY <1>1, <2>1, ClosedIsRight DEF HandlesTyped
  <2>3. /\ CallsTyped' /\ faults' \subseteq Kinds \X (Paths \union {Root})
        /\ UNCHANGED <<where, list, copy, dirs, mounted, latest>>
    BY <2>1 DEF Begun, CallsTyped
  <2>4. Values'
    BY <1>1, <2>3 DEF Values
  <2>5. QED
    BY <1>1, <2>2, <2>3, <2>4, TypedNext
<1>4. QED
  BY <1>2, <1>3 DEF User

LEMMA NextTyped ==
  ASSUME Typed, [Next]_vars
  PROVE  Typed'
<1>1. /\ Values /\ HandlesTyped /\ CallsTyped
      /\ mounted \subseteq Nodes /\ faults \subseteq Kinds \X (Paths \union {Root})
  BY TypedIs
<1>2. CASE UNCHANGED vars
  <2>1. UNCHANGED <<where, list, copy, dirs, mounted, call, handle, latest, faults>>
    BY <1>2 DEF vars, zhtVars, localVars
  <2>2. Values' /\ HandlesTyped' /\ CallsTyped'
    BY <1>1, <2>1 DEF Values, HandlesTyped, CallsTyped
  <2>3. QED
    BY <1>1, <2>1, <2>2, TypedNext
<1>3. ASSUME NEW n \in Nodes, Mount(n)
      PROVE  Typed'
  <2>1. /\ mounted' \subseteq Nodes
        /\ list' \in [AllDirs -> Listings \union {NoList}]
        /\ faults' = faults \/ Fault("mount", {Root})
        /\ UNCHANGED <<where, copy, dirs, handle, call, latest>>
    BY <1>3, MountIs
  <2>2. Values' /\ HandlesTyped' /\ CallsTyped'
    BY <1>1, <2>1 DEF Values, HandlesTyped, CallsTyped
  <2>3. faults' \subseteq Kinds \X (Paths \union {Root})
    BY <1>1, <2>1, FaultsType DEF Kinds
  <2>4. QED
    BY <1>1, <2>1, <2>2, <2>3, TypedNext
<1>4. QED
  BY <1>2, <1>3, CrashIs, DiedTyped, UserTyped, FileStepTyped, DirStepTyped DEF Next

LEMMA AlwaysTyped == Spec => []Typed
<1>1. Init => Typed
  BY InitTyped
<1>2. Typed /\ [Next]_vars => Typed'
  BY NextTyped
<1>3. QED
  BY <1>1, <1>2, PTL DEF Spec

\* Every variable of FusionFS keeps its type, whichever calls of the nodes interleave.
THEOREM FusionTypeCorrect == Spec => []TypeOK
<1>1. Typed => TypeOK
  BY DEF Typed
<1>2. QED
  BY <1>1, AlwaysTyped, PTL
=============================================================================
