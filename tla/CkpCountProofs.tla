---------------------------- MODULE CkpCountProofs ----------------------------
(***************************************************************************)
(* The counts that are reported, for any number of workers, clients and    *)
(* tasks: with one thread per worker each job done is in one count, that   *)
(* of its worker, one on its way, or the total of a client.                *)
(*                                                                         *)
(* A sum is the size of a set of pairs, so that it is known how it changes *)
(* when one of its terms does.                                             *)
(***************************************************************************)
EXTENDS CkpJobsProofs

-----------------------------------------------------------------------------
(***************************************************************************)
(* Sums.                                                                   *)
(***************************************************************************)
Pairs(S, f) == UNION {{x} \X (1..f[x]) : x \in S}

\* The pairs of x are as many as its term.
LEMMA TermSize ==
  ASSUME NEW x, NEW n \in Nat
  PROVE  IsFiniteSet({x} \X (1..n)) /\ Cardinality({x} \X (1..n)) = n
<1> DEFINE f == [i \in 1..n |-> <<x, i>>]
<1>1. f \in Bijection(1..n, {x} \X (1..n))
  BY DEF Bijection, Injection, Surjection, IsInjective
<1>2. ExistsBijection(1..n, {x} \X (1..n))
  BY <1>1 DEF ExistsBijection
<1>3. QED
  BY <1>2, FS_CountingElements, FS_NatBijection

LEMMA PairsFinite ==
  ASSUME NEW S, IsFiniteSet(S), NEW f, \A x \in S : f[x] \in Nat
  PROVE  IsFiniteSet(Pairs(S, f)) /\ Total(S, f) \in Nat
<1> DEFINE T == {{x} \X (1..f[x]) : x \in S}
           g == [x \in S |-> {x} \X (1..f[x])]
<1>1. IsFiniteSet(T)
  <2>1. g \in Surjection(S, T)
    BY DEF Surjection
  <2>2. QED
    BY <2>1, FS_Surjection
<1>2. \A U \in T : IsFiniteSet(U)
  <2>1. \A x \in S : IsFiniteSet({x} \X (1..f[x]))
    BY TermSize
  <2>2. QED
    BY <2>1
<1>3. IsFiniteSet(UNION T)
  BY <1>1, <1>2, FS_UNION
<1>4. QED
  BY <1>3, FS_CardinalityType DEF Pairs, Total

\* One term taken out of the sum.
LEMMA TotalSplit ==
  ASSUME NEW S, IsFiniteSet(S), NEW f, \A y \in S : f[y] \in Nat, NEW x \in S
  PROVE  Total(S, f) = Total(S \ {x}, f) + f[x]
<1> DEFINE P == Pairs(S \ {x}, f)
           Q == {x} \X (1..f[x])
<1>1. IsFiniteSet(P) /\ Total(S \ {x}, f) \in Nat
  BY FS_RemoveElement, PairsFinite
<1>2. IsFiniteSet(Q) /\ Cardinality(Q) = f[x]
  BY TermSize
<1>3. P \cap Q = {}
  BY DEF Pairs
<1>4. Pairs(S, f) = P \union Q
  BY DEF Pairs
<1>5. Cardinality(P \union Q) = Cardinality(P) + Cardinality(Q) - Cardinality(P \cap Q)
  BY <1>1, <1>2, FS_Union
<1>6. Cardinality(P \cap Q) = 0
  BY <1>3, FS_EmptySet
<1>7. Total(S, f) = Cardinality(P \union Q) /\ Total(S \ {x}, f) = Cardinality(P)
  BY <1>4 DEF Total, Pairs
<1>8. QED
  BY <1>1, <1>2, <1>5, <1>6, <1>7

LEMMA TotalSame ==
  ASSUME NEW S, NEW f, NEW g, \A x \in S : f[x] = g[x]
  PROVE  Total(S, f) = Total(S, g)
<1>1. Pairs(S, f) = Pairs(S, g)
  BY DEF Pairs
<1>2. QED
  BY <1>1 DEF Total, Pairs

LEMMA TotalZero ==
  ASSUME NEW S, NEW f, \A x \in S : f[x] = 0
  PROVE  Total(S, f) = 0
<1>1. Pairs(S, f) = {}
  <2>1. 1..0 = {}
    OBVIOUS
  <2>2. QED
    BY <2>1 DEF Pairs
<1>2. QED
  BY <1>1, FS_EmptySet DEF Total, Pairs

\* A sum changes as its terms do, when only one does.
LEMMA TotalChanges ==
  ASSUME NEW S, IsFiniteSet(S), NEW x \in S,
         NEW f, \A y \in S : f[y] \in Nat,
         NEW g, \A y \in S : g[y] \in Nat,
         \A y \in S \ {x} : g[y] = f[y]
  PROVE  /\ Total(S, f) \in Nat /\ Total(S, g) \in Nat
         /\ Total(S, g) = Total(S, f) - f[x] + g[x]
<1>1. Total(S, f) = Total(S \ {x}, f) + f[x]
  BY TotalSplit
<1>2. Total(S, g) = Total(S \ {x}, g) + g[x]
  BY TotalSplit
<1>3. Total(S \ {x}, f) = Total(S \ {x}, g)
  BY TotalSame
<1>4. Total(S \ {x}, f) \in Nat /\ Total(S, f) \in Nat /\ Total(S, g) \in Nat
  BY FS_RemoveElement, PairsFinite
<1>5. QED
  BY <1>1, <1>2, <1>3, <1>4

-----------------------------------------------------------------------------
(***************************************************************************)
(* What is on its way to a client.                                         *)
(***************************************************************************)
LEMMA SequenceTotal ==
  ASSUME NEW s \in Seq(Nat)
  PROVE  IsFiniteSet(DOMAIN s) /\ Total(DOMAIN s, s) \in Nat
<1>1. DOMAIN s = 1..Len(s) /\ Len(s) \in Nat /\ \A i \in DOMAIN s : s[i] \in Nat
  OBVIOUS
<1>2. IsFiniteSet(DOMAIN s)
  BY <1>1, FS_Interval
<1>3. QED
  BY <1>1, <1>2, PairsFinite

LEMMA AppendTotal ==
  ASSUME NEW s \in Seq(Nat), NEW n \in Nat
  PROVE  Total(DOMAIN Append(s, n), Append(s, n)) = Total(DOMAIN s, s) + n
<1> DEFINE t == Append(s, n)
           l == Len(s) + 1
<1>1. /\ t \in Seq(Nat) /\ l \in DOMAIN t /\ t[l] = n /\ DOMAIN t \ {l} = DOMAIN s
      /\ \A i \in DOMAIN s : t[i] = s[i]
      /\ \A i \in DOMAIN t : t[i] \in Nat
  <2>1. Len(s) \in Nat /\ DOMAIN s = 1..Len(s) /\ t \in Seq(Nat) /\ Len(t) = l /\ t[l] = n
    OBVIOUS
  <2>2. DOMAIN t = 1..l /\ 1..l = (1..Len(s)) \union {l} /\ l \notin 1..Len(s)
    BY <2>1
  <2>3. \A i \in DOMAIN s : t[i] = s[i]
    BY <2>1
  <2>4. \A i \in DOMAIN t : t[i] \in Nat
    BY <2>1
  <2>5. QED
    BY <2>1, <2>2, <2>3, <2>4
<1> HIDE DEF t, l
<1>2. Total(DOMAIN t, t) = Total(DOMAIN t \ {l}, t) + t[l]
  BY <1>1, SequenceTotal, TotalSplit
<1>3. Total(DOMAIN t \ {l}, t) = Total(DOMAIN s, s)
  BY <1>1, TotalSame
<1>4. QED
  BY <1>1, <1>2, <1>3 DEF t

\* The places of the rest are one less.
LEMMA TailTotal ==
  ASSUME NEW s \in Seq(Nat), s # <<>>
  PROVE  Total(DOMAIN s, s) = Total(DOMAIN Tail(s), Tail(s)) + Head(s)
<1> DEFINE t == Tail(s)
           P == Pairs(DOMAIN t, t)
           Q == Pairs(DOMAIN s \ {1}, s)
           g == [p \in P |-> <<p[1] + 1, p[2]>>]
<1>1. /\ t \in Seq(Nat) /\ 1 \in DOMAIN s /\ Head(s) = s[1]
      /\ \A i \in DOMAIN t : i \in Nat \ {0} /\ i + 1 \in DOMAIN s \ {1} /\ s[i + 1] = t[i]
      /\ \A i \in DOMAIN s \ {1} : i \in Int /\ i - 1 \in DOMAIN t
      /\ \A i \in DOMAIN s : s[i] \in Nat
  OBVIOUS
<1> HIDE DEF t
<1>2. \A p : p \in P <=> \E i \in DOMAIN t : \E j \in 1..t[i] : p = <<i, j>>
  BY DEF Pairs
<1>3. \A p : p \in Q <=> \E i \in DOMAIN s \ {1} : \E j \in 1..s[i] : p = <<i, j>>
  BY DEF Pairs
<1>4. g \in Bijection(P, Q)
  <2>1. g \in [P -> Q]
    <3>1. SUFFICES ASSUME NEW p \in P
                   PROVE  <<p[1] + 1, p[2]>> \in Q
      OBVIOUS
    <3>2. PICK i \in DOMAIN t : \E j \in 1..t[i] : p = <<i, j>>
      BY <1>2
    <3>3. PICK j \in 1..t[i] : p = <<i, j>>
      BY <3>2
    <3>4. i + 1 \in DOMAIN s \ {1} /\ j \in 1..s[i + 1] /\ <<p[1] + 1, p[2]>> = <<i + 1, j>>
      BY <1>1, <3>3
    <3>5. QED
      BY <1>3, <3>4
  <2>2. \A p, q \in P : g[p] = g[q] => p = q
    <3>1. SUFFICES ASSUME NEW p \in P, NEW q \in P, g[p] = g[q]
                   PROVE  p = q
      OBVIOUS
    <3>2. PICK i \in DOMAIN t : \E j \in 1..t[i] : p = <<i, j>>
      BY <1>2
    <3>3. PICK j \in 1..t[i] : p = <<i, j>>
      BY <3>2
    <3>4. PICK k \in DOMAIN t : \E m \in 1..t[k] : q = <<k, m>>
      BY <1>2
    <3>5. PICK m \in 1..t[k] : q = <<k, m>>
      BY <3>4
    <3>6. <<i + 1, j>> = <<k + 1, m>>
      BY <3>1, <3>3, <3>5
    <3>7. i = k /\ j = m
      BY <1>1, <3>6
    <3>8. QED
      BY <3>3, <3>5, <3>7
  <2>3. ASSUME NEW q \in Q
        PROVE  \E p \in P : g[p] = q
    <3>1. PICK i \in DOMAIN s \ {1} : \E j \in 1..s[i] : q = <<i, j>>
      BY <1>3
    <3>2. PICK j \in 1..s[i] : q = <<i, j>>
      BY <3>1
    <3>3. i - 1 \in DOMAIN t /\ (i - 1) + 1 = i
      BY <1>1
    <3>4. t[i - 1] = s[i]
      BY <1>1, <3>3
    <3>5. <<i - 1, j>> \in P
      BY <1>2, <3>2, <3>3, <3>4
    <3>6. g[<<i - 1, j>>] = q
      BY <3>2, <3>3, <3>5
    <3>7. QED
      BY <3>5, <3>6
  <2>4. QED
    BY <2>1, <2>2, <2>3 DEF Bijection, Injection, Surjection, IsInjective
<1>5. IsFiniteSet(P)
  <2>1. \A i \in DOMAIN t : t[i] \in Nat
    BY <1>1
  <2>2. QED
    BY <1>1, <2>1, SequenceTotal, PairsFinite
<1>6. Cardinality(Q) = Cardinality(P)
  <2>1. ExistsBijection(P, Q)
    BY <1>4 DEF ExistsBijection
  <2>2. QED
    BY <1>5, <2>1, FS_Bijection
<1>7. Total(DOMAIN s \ {1}, s) = Total(DOMAIN t, t)
  BY <1>6 DEF Total, Pairs
<1>8. Total(DOMAIN s, s) = Total(DOMAIN s \ {1}, s) + s[1]
  BY <1>1, SequenceTotal, TotalSplit
<1>9. QED
  BY <1>1, <1>7, <1>8 DEF t

-----------------------------------------------------------------------------
(***************************************************************************)
(* What a worker has not yet reported.                                     *)
(***************************************************************************)

\* Threads whose job is done and not yet counted.
Counting(w) == {h \in Threads : thread[w][h].at \in {"loadjob", "storejob"}}

Reporting == {"report", "send", "clear", "reset"}

\* No thread is alive while w reports, so that no count is cleared that was not sent;
\* where nobody is to be reported to, there is nothing to report.
Settled(w) ==
  /\ main[w] \in Reporting => Live(w) = {}
  /\ zhtKey[w] = NoClient => Unreported(w) = 0
  /\ main[w] = "send" => peer[w] \in Clients /\ socket[peer[w]] # "none"

Settling == Calm => \A w \in Workers : Settled(w)

LEMMA CountingFinite ==
  ASSUME NEW w \in Workers
  PROVE  /\ IsFiniteSet(Counting(w)) /\ Cardinality(Counting(w)) \in Nat
         /\ Counting(w) \subseteq Live(w)
<1>1. IsFiniteSet(Counting(w))
  BY ConstantsAssumption, FS_Subset DEF Counting, ConstantsAssumption
<1>2. QED
  BY <1>1, FS_CardinalityType DEF Counting, Live

LEMMA UnreportedType ==
  ASSUME Others, NEW w \in Workers
  PROVE  Unreported(w) \in Nat
<1>1. jobCount[w] \in Nat /\ Cardinality(Counting(w)) \in Nat
  BY CountingFinite DEF Others
<1>2. QED
  BY <1>1 DEF Unreported, Counting

LEMMA UnreportedTypeNext ==
  ASSUME Others', NEW w \in Workers
  PROVE  Unreported(w)' \in Nat
<1>1. IsFiniteSet(Counting(w)')
  BY ConstantsAssumption, FS_Subset DEF Counting, ConstantsAssumption
<1>2. jobCount'[w] \in Nat /\ Cardinality(Counting(w)') \in Nat
  BY <1>1, FS_CardinalityType DEF Others
<1>3. QED
  BY <1>2 DEF Unreported, Counting

LEMMA UnreportedSame ==
  ASSUME NEW w \in Workers, jobCount'[w] = jobCount[w], Counting(w)' = Counting(w),
         main'[w] \in {"clear", "reset"} <=> main[w] \in {"clear", "reset"}
  PROVE  Unreported(w)' = Unreported(w)
BY DEF Unreported, Counting

\* Where no thread is alive, the count is what there is.
LEMMA UnreportedIdle ==
  ASSUME Others, NEW w \in Workers, Live(w) = {}
  PROVE  Unreported(w) = IF main[w] \in {"clear", "reset"} THEN 0 ELSE jobCount[w]
<1>1. Counting(w) = {}
  BY CountingFinite
<1>2. Cardinality(Counting(w)) = 0
  BY <1>1, FS_EmptySet
<1>3. jobCount[w] \in Nat
  BY DEF Others
<1>4. QED
  BY <1>2, <1>3 DEF Unreported, Counting

\* A worker that pops has no thread alive, if it may have one.
LEMMA PopsIdle ==
  ASSUME Shape, NEW w \in Workers, CountRight(w), NumThreads = 1, main[w] = "loop",
         threadCount[w] < NumThreads
  PROVE  Live(w) = {}
<1>1. threadCount[w] = Cardinality(Live(w))
  BY DEF CountRight, Uncounted, Shape
<1>2. Cardinality(Live(w)) = 0
  BY <1>1, LiveFinite
<1>3. QED
  BY <1>2, LiveFinite, FS_EmptySet

\* The others keep what they have to report.
LEMMA OthersSettled ==
  ASSUME Shape, Others, NEW w \in Workers, NEW v \in Workers \ {w},
         Main(w) \/ \E h \in Threads : ExecTask(w, h)
  PROVE  Unreported(v)' = Unreported(v) /\ (Settled(v) => Settled(v)')
<1>1. Same(v)
  BY OthersSame
<1>2. jobCount'[v] = jobCount[v] /\ zhtKey'[v] = zhtKey[v] /\ peer'[v] = peer[v]
      /\ socket' = socket
  <2>1. CASE Main(w)
    BY <2>1 DEF Main, MainStep, StartPush, StartPop, PopTask, PopEmpty, PopNothing,
       CreateThread, CreateFails, LoadUp, StoreUp, Connect, ConnectFails, Send, SendFails,
       ClearKey, Reset, Exit, Others, sharedVars, clientVars
  <2>2. ASSUME NEW h \in Threads, ExecTask(w, h)
        PROVE  jobCount'[v] = jobCount[v] /\ zhtKey'[v] = zhtKey[v] /\ peer'[v] = peer[v]
               /\ socket' = socket
    BY <2>2 DEF ExecTask, ExecStep, Copy, Ran, RunOK, RunFails, PushBack, LoadJob, StoreJob,
       LoadDown, StoreDown, Others, mainVars, sharedVars, clientVars
  <2>3. QED
    BY <2>1, <2>2
<1>3. Counting(v)' = Counting(v) /\ Live(v)' = Live(v)
  BY <1>1 DEF Same, Counting, Live
<1>4. main'[v] = main[v]
  BY <1>1 DEF Same
<1>5. Unreported(v)' = Unreported(v)
  BY <1>2, <1>3, <1>4, UnreportedSame
<1>6. QED
  BY <1>2, <1>3, <1>4, <1>5 DEF Settled

\* A worker that exits has no threads, and keeps its count.
LEMMA ExitSettles ==
  ASSUME Shape, Others, NEW w \in Workers, Exit(w), Settled(w),
         main[w] \notin {"clear", "reset"}
  PROVE  Settled(w)'
<1>1. main'[w] = "dead" /\ Live(w)' = {} /\ Counting(w)' = {}
  BY DEF Exit, Goto, Live, Counting, NoThread, Shape
<1>2. jobCount' = jobCount /\ zhtKey' = zhtKey
  BY DEF Exit, sharedVars
<1>3. Cardinality(Counting(w)') = 0
  BY <1>1, FS_EmptySet
<1>4. jobCount[w] \in Nat /\ Cardinality(Counting(w)) \in Nat
  BY CountingFinite DEF Others
<1>5. Unreported(w) = 0 => jobCount[w] = 0
  BY <1>4 DEF Unreported, Counting
<1>6. Unreported(w)' = jobCount[w]
  BY <1>1, <1>2, <1>3, <1>4 DEF Unreported, Counting
<1>7. QED
  BY <1>1, <1>2, <1>5, <1>6 DEF Settled, Reporting

\* The main thread keeps all it has to report until it sends it.
LEMMA MainReports ==
  ASSUME Shape, Others, NEW w \in Workers, Main(w), CountRight(w), NumThreads = 1, Settled(w)
  PROVE  /\ Settled(w)'
         /\ UNCHANGED <<done, messageCount, socket>>
         /\ main'[w] = "dead" \/ (Unreported(w)' = Unreported(w) /\ inbox' = inbox)
              \/ (Send(w) /\ Unreported(w)' = 0 /\ Unreported(w) = jobCount[w])
<1>1. UNCHANGED <<done, messageCount, socket>>
  BY DEF Main, MainStep, StartPush, StartPop, PopTask, PopEmpty, PopNothing, CreateThread,
     CreateFails, LoadUp, StoreUp, Connect, ConnectFails, Send, SendFails, ClearKey, Reset, Exit,
     clientVars, historyVars
<1>2. CASE StartPush(w) \/ StartPop(w) \/ PopTask(w) \/ PopEmpty(w) \/ LoadUp(w) \/ StoreUp(w)
  <2>1. main[w] \notin Reporting /\ main'[w] \notin Reporting
    BY <1>2 DEF StartPush, StartPop, PopTask, PopEmpty, LoadUp, StoreUp, At, Goto, Shape,
       Reporting
  <2>2. thread' = thread /\ jobCount' = jobCount /\ zhtKey' = zhtKey /\ inbox' = inbox
    BY <1>2 DEF StartPush, StartPop, PopTask, PopEmpty, LoadUp, StoreUp, sharedVars, clientVars
  <2>3. Unreported(w)' = Unreported(w)
    BY <2>1, <2>2, UnreportedSame DEF Counting, Reporting
  <2>4. QED
    BY <1>1, <2>1, <2>2, <2>3 DEF Settled, Reporting
<1>3. CASE PopNothing(w)
  <2>1. /\ main[w] = "loop" /\ threadCount[w] < NumThreads
        /\ main'[w] = IF zhtKey[w] = NoClient THEN "reset" ELSE "report"
    BY <1>3 DEF PopNothing, At, Goto, Shape
  <2>2. thread' = thread /\ jobCount' = jobCount /\ zhtKey' = zhtKey /\ inbox' = inbox
    BY <1>3 DEF PopNothing, sharedVars, clientVars
  <2>3. Live(w) = {} /\ Live(w)' = {} /\ Counting(w)' = {}
    BY <2>1, <2>2, PopsIdle, CountingFinite DEF Live, Counting
  <2>4. Unreported(w) = jobCount[w]
    BY <2>1, <2>3, UnreportedIdle
  <2>5. Cardinality(Counting(w)') = 0 /\ jobCount[w] \in Nat
    BY <2>3, FS_EmptySet DEF Others
  <2>6. Unreported(w)' = IF zhtKey[w] = NoClient THEN 0 ELSE jobCount[w]
    BY <2>1, <2>2, <2>5 DEF Unreported, Counting
  <2>7. Unreported(w)' = Unreported(w)
    BY <2>4, <2>6 DEF Settled
  <2>8. QED
    BY <1>1, <2>1, <2>2, <2>3, <2>7 DEF Settled, Reporting
<1>4. CASE CreateThread(w)
  <2>1. main[w] = "create" /\ main'[w] = "load"
    BY <1>4 DEF CreateThread, At, Goto, Shape
  <2>2. jobCount' = jobCount /\ zhtKey' = zhtKey /\ inbox' = inbox
    BY <1>4 DEF CreateThread, sharedVars, clientVars
  <2>3. Counting(w)' = Counting(w)
    BY <1>4 DEF CreateThread, SetThread, Counting, Shape
  <2>4. Unreported(w)' = Unreported(w)
    BY <2>1, <2>2, <2>3, UnreportedSame
  <2>5. QED
    BY <1>1, <2>1, <2>2, <2>4 DEF Settled, Reporting
<1>5. CASE CreateFails(w) \/ ConnectFails(w) \/ SendFails(w)
  <2>1. Exit(w) /\ main[w] \notin {"clear", "reset"}
    BY <1>5 DEF CreateFails, ConnectFails, SendFails, At
  <2>2. main'[w] = "dead"
    BY <2>1 DEF Exit, Goto, Shape
  <2>3. QED
    BY <1>1, <2>1, <2>2, ExitSettles
<1>6. CASE Connect(w)
  <2>1. main[w] = "report" /\ main'[w] = "send" /\ peer'[w] = zhtKey[w] /\ zhtKey[w] \in Clients
        /\ socket[zhtKey[w]] = "listening"
    BY <1>6 DEF Connect, At, Goto, Shape, Others
  <2>2. thread' = thread /\ jobCount' = jobCount /\ zhtKey' = zhtKey /\ inbox' = inbox
        /\ socket' = socket
    BY <1>6 DEF Connect, sharedVars, clientVars
  <2>3. Unreported(w)' = Unreported(w) /\ Live(w)' = Live(w)
    BY <2>1, <2>2, UnreportedSame DEF Counting, Live
  <2>4. QED
    BY <1>1, <2>1, <2>2, <2>3 DEF Settled, Reporting
<1>7. CASE Send(w) \/ ClearKey(w) \/ Reset(w)
  <2>1. main[w] \in {"send", "clear", "reset"} /\ main'[w] \in {"clear", "reset", "loop"}
        /\ (Send(w) <=> main[w] = "send") /\ (Reset(w) <=> main'[w] = "loop")
        /\ (main[w] = "send" => main'[w] = "clear") /\ (main'[w] = "loop" => main[w] = "reset")
    BY <1>7 DEF Send, ClearKey, Reset, At, Goto, Shape
  <2>2. thread' = thread /\ jobCount'[w] = IF main'[w] = "loop" THEN 0 ELSE jobCount[w]
    BY <1>7, <2>1 DEF Send, ClearKey, Reset, Others, sharedVars
  <2>3. Live(w) = {} /\ Live(w)' = {} /\ Counting(w)' = {}
    BY <2>1, <2>2, CountingFinite DEF Settled, Reporting, Live, Counting
  <2>4. Unreported(w) = IF main[w] = "send" THEN jobCount[w] ELSE 0
    BY <2>1, <2>3, UnreportedIdle
  <2>5. Cardinality(Counting(w)') = 0
    BY <2>3, FS_EmptySet
  <2>6. Unreported(w)' = 0
    BY <2>1, <2>2, <2>5 DEF Unreported, Counting
  <2>7. main[w] # "send" => inbox' = inbox
    BY <1>7, <2>1 DEF ClearKey, Reset, clientVars
  <2>8. QED
    BY <1>1, <2>1, <2>3, <2>4, <2>6, <2>7 DEF Settled, Reporting
<1>8. QED
  BY <1>2, <1>3, <1>4, <1>5, <1>6, <1>7 DEF Main, MainStep

\* What a task names is somebody, if only by a wrong name.
LEMMA KeyIsSomebody ==
  ASSUME NEW t \in Strings
  PROVE  KeyPart(t) # NoClient
<1>1. CASE t \in Tasks
  BY <1>1, ConstantsAssumption DEF KeyPart, ConstantsAssumption
<1>2. CASE t \notin Tasks
  BY <1>2, ConstantsAssumption DEF KeyPart, ConstantsAssumption, Strings, Items
<1>3. QED
  BY <1>1, <1>2

\* A thread of a worker has one job more to report when its job is done, and no less when
\* that is counted.
LEMMA ExecReports ==
  ASSUME Shape, Others, NEW w \in Workers, NEW h \in Threads, ExecTask(w, h), ~raced'[w],
         Settled(w)
  PROVE  /\ Settled(w)'
         /\ UNCHANGED <<main, messageCount, socket, inbox>>
         /\ \/ done' = done /\ Unreported(w)' = Unreported(w)
            \/ /\ done' = [done EXCEPT ![thread[w][h].task] = @ + 1]
               /\ thread[w][h].task \in Strings
               /\ Unreported(w)' = Unreported(w) + 1
<1>1. UNCHANGED <<main, messageCount, socket, inbox>>
  BY DEF ExecTask, ExecStep, Copy, Ran, RunOK, RunFails, PushBack, LoadJob, StoreJob,
     LoadDown, StoreDown, mainVars, clientVars
<1>2. main[w] \notin Reporting
  <2>1. h \in Live(w)
    BY DEF ExecTask, ExecStep, Copy, Ran, RunOK, RunFails, PushBack, LoadJob, StoreJob,
       LoadDown, StoreDown, Live
  <2>2. QED
    BY <2>1 DEF Settled
<1>3. thread[w][h].task \in Strings
  BY DEF Shape, ThreadRecords
<1>4. IsFiniteSet(Counting(w)) /\ Cardinality(Counting(w)) \in Nat /\ jobCount[w] \in Nat
  BY CountingFinite DEF Others
<1>5. Unreported(w) = jobCount[w] + Cardinality(Counting(w))
      /\ Unreported(w)' = jobCount'[w] + Cardinality(Counting(w)')
  BY <1>1, <1>2 DEF Unreported, Counting, Reporting
<1>6. CASE Copy(w, h) \/ PushBack(w, h) \/ LoadJob(w, h) \/ LoadDown(w, h) \/ StoreDown(w, h)
  <2>1. done' = done /\ jobCount' = jobCount /\ zhtKey' = zhtKey
    BY <1>6 DEF Copy, PushBack, LoadJob, LoadDown, StoreDown, sharedVars, historyVars
  <2>2. Counting(w)' = Counting(w)
    <3>1. CASE Copy(w, h) \/ PushBack(w, h) \/ LoadDown(w, h)
      <4>1. thread[w][h].at \notin {"loadjob", "storejob"}
        BY <3>1 DEF Copy, PushBack, LoadDown
      <4>2. PICK at \in {"run", "loaddown", "storedown"} :
              \E task, held : SetThread(w, h, at, task, held)
        BY <3>1 DEF Copy, PushBack, LoadDown
      <4>3. QED
        BY <4>1, <4>2 DEF SetThread, Counting, Shape
    <3>2. CASE LoadJob(w, h)
      BY <3>2 DEF LoadJob, SetThread, Counting, Shape
    <3>3. CASE StoreDown(w, h)
      BY <3>3 DEF StoreDown, NoThread, Counting, Shape
    <3>4. QED
      BY <1>6, <3>1, <3>2, <3>3
  <2>3. Unreported(w)' = Unreported(w)
    BY <1>5, <2>1, <2>2
  <2>4. QED
    BY <1>1, <1>2, <2>1, <2>3 DEF Settled, Reporting
<1>7. CASE RunFails(w, h)
  <2>1. done' = done /\ jobCount' = jobCount /\ zhtKey'[w] = KeyPart(thread[w][h].task)
    BY <1>7 DEF RunFails, Ran, Others
  <2>2. Counting(w)' = Counting(w)
    BY <1>7 DEF RunFails, Ran, SetThread, Counting, Shape
  <2>3. Unreported(w)' = Unreported(w)
    BY <1>5, <2>1, <2>2
  <2>4. QED
    BY <1>1, <1>2, <1>3, <2>1, <2>3, KeyIsSomebody DEF Settled, Reporting
<1>8. CASE RunOK(w, h)
  <2>1. done' = [done EXCEPT ![thread[w][h].task] = @ + 1] /\ jobCount' = jobCount
        /\ zhtKey'[w] = KeyPart(thread[w][h].task)
    BY <1>8 DEF RunOK, Ran, Others
  <2>2. Counting(w)' = Counting(w) \union {h} /\ h \notin Counting(w)
    BY <1>8 DEF RunOK, Ran, SetThread, Counting, Shape
  <2>3. Cardinality(Counting(w)') = Cardinality(Counting(w)) + 1
    BY <1>4, <2>2, FS_AddElement
  <2>4. Unreported(w)' = Unreported(w) + 1
    BY <1>4, <1>5, <2>1, <2>3
  <2>5. QED
    BY <1>1, <1>2, <1>3, <2>1, <2>4, KeyIsSomebody DEF Settled, Reporting
<1>9. CASE StoreJob(w, h)
  <2>1. jobCount[w] = thread[w][h].held
    BY <1>9 DEF StoreJob, Shape
  <2>2. done' = done /\ zhtKey' = zhtKey /\ jobCount'[w] = jobCount[w] + 1
    BY <1>9, <2>1 DEF StoreJob, Others, historyVars
  <2>3. Counting(w)' = Counting(w) \ {h} /\ h \in Counting(w)
    BY <1>9 DEF StoreJob, SetThread, Counting, Shape
  <2>4. Cardinality(Counting(w)') = Cardinality(Counting(w)) - 1
    BY <1>4, <2>3, FS_RemoveElement
  <2>5. Unreported(w)' = Unreported(w)
    BY <1>4, <1>5, <2>2, <2>4
  <2>6. QED
    BY <1>1, <1>2, <2>2, <2>5 DEF Settled, Reporting
<1>10. QED
  BY <1>6, <1>7, <1>8, <1>9 DEF ExecTask, ExecStep

-----------------------------------------------------------------------------
(***************************************************************************)
(* The four sums.                                                          *)
(***************************************************************************)
InClients == Total(Clients, messageCount)
OnTheWay == Total(Clients, [c \in Clients |-> Reported(c)])
InWorkers == Total(Workers, [w \in Workers |-> Unreported(w)])

\* When the property says anything.
Orderly ==
  /\ \A w \in Workers : ~raced[w] /\ main[w] # "dead"
  /\ NumThreads = 1
  /\ \A c \in Clients : socket[c] # "closed"

LEMMA SumTypes ==
  ASSUME Others
  PROVE  /\ Total(Strings, done) \in Nat /\ InClients \in Nat
         /\ OnTheWay \in Nat /\ InWorkers \in Nat
         /\ \A c \in Clients : Reported(c) \in Nat
         /\ \A w \in Workers : Unreported(w) \in Nat
<1>1. IsFiniteSet(Strings)
  BY ConstantsAssumption, FS_AddElement DEF ConstantsAssumption, Strings, Items
<1>2. Total(Strings, done) \in Nat
  BY <1>1, PairsFinite DEF Others
<1>3. InClients \in Nat
  BY ConstantsAssumption, PairsFinite DEF ConstantsAssumption, Others, InClients
<1>4. \A c \in Clients : Reported(c) \in Nat
  BY SequenceTotal DEF Others, Reported
<1>5. OnTheWay \in Nat
  BY <1>4, ConstantsAssumption, PairsFinite DEF ConstantsAssumption, OnTheWay
<1>6. \A w \in Workers : Unreported(w) \in Nat
  BY UnreportedType
<1>7. InWorkers \in Nat
  BY <1>6, ConstantsAssumption, PairsFinite DEF ConstantsAssumption, InWorkers
<1>8. QED
  BY <1>2, <1>3, <1>4, <1>5, <1>6, <1>7

\* The workers' sum changes as the count of the one that takes a step.
LEMMA WorkersSum ==
  ASSUME Others, Others', NEW w \in Workers,
         \A v \in Workers \ {w} : Unreported(v)' = Unreported(v)
  PROVE  InWorkers' = InWorkers - Unreported(w) + Unreported(w)'
<1> DEFINE f == [v \in Workers |-> Unreported(v)]
           g == [v \in Workers |-> Unreported(v)']
<1>1. (\A v \in Workers : f[v] \in Nat) /\ (\A v \in Workers : g[v] \in Nat)
  <2>1. \A v \in Workers : Unreported(v) \in Nat
    BY UnreportedType
  <2>2. \A v \in Workers : Unreported(v)' \in Nat
    BY UnreportedTypeNext
  <2>3. QED
    BY <2>1, <2>2
<1>2. \A v \in Workers \ {w} : g[v] = f[v]
  OBVIOUS
<1>3. f[w] = Unreported(w) /\ g[w] = Unreported(w)'
  OBVIOUS
<1>4. InWorkers = Total(Workers, f) /\ InWorkers' = Total(Workers, g)
  BY DEF InWorkers, Total
<1> HIDE DEF f, g
<1>5. Total(Workers, g) = Total(Workers, f) - f[w] + g[w]
  BY <1>1, <1>2, ConstantsAssumption, TotalChanges DEF ConstantsAssumption
<1>6. QED
  BY <1>3, <1>4, <1>5

\* What is on its way changes as what is on its way to one client.
LEMMA WaySum ==
  ASSUME Others, Others', NEW c \in Clients,
         \A d \in Clients \ {c} : inbox'[d] = inbox[d]
  PROVE  OnTheWay' = OnTheWay - Reported(c) + Reported(c)'
<1> DEFINE f == [d \in Clients |-> Reported(d)]
           g == [d \in Clients |-> Reported(d)']
<1>1. (\A d \in Clients : f[d] \in Nat) /\ (\A d \in Clients : g[d] \in Nat)
  <2>1. \A d \in Clients : Reported(d) \in Nat
    BY SequenceTotal DEF Others, Reported
  <2>2. \A d \in Clients : Reported(d)' \in Nat
    BY SequenceTotal DEF Others, Reported
  <2>3. QED
    BY <2>1, <2>2
<1>2. \A d \in Clients \ {c} : g[d] = f[d]
  BY DEF Reported, Total
<1>3. f[c] = Reported(c) /\ g[c] = Reported(c)'
  OBVIOUS
<1>4. OnTheWay = Total(Clients, f) /\ OnTheWay' = Total(Clients, g)
  BY DEF OnTheWay, Total
<1> HIDE DEF f, g
<1>5. Total(Clients, g) = Total(Clients, f) - f[c] + g[c]
  BY <1>1, <1>2, ConstantsAssumption, TotalChanges DEF ConstantsAssumption
<1>6. QED
  BY <1>3, <1>4, <1>5

LEMMA SameWay ==
  ASSUME inbox' = inbox
  PROVE  OnTheWay' = OnTheWay
BY DEF OnTheWay, Reported, Total

\* A job done is one more.
LEMMA DoneSum ==
  ASSUME Others, Others', NEW t \in Strings, done' = [done EXCEPT ![t] = @ + 1]
  PROVE  Total(Strings, done)' = Total(Strings, done) + 1
<1> DEFINE f == done
           g == done'
<1>1. IsFiniteSet(Strings)
  BY ConstantsAssumption, FS_AddElement DEF ConstantsAssumption, Strings, Items
<1>2. /\ \A s \in Strings : f[s] \in Nat
      /\ \A s \in Strings : g[s] \in Nat
      /\ \A s \in Strings \ {t} : g[s] = f[s]
      /\ g[t] = f[t] + 1
  BY DEF Others
<1>3. Total(Strings, done) = Total(Strings, f) /\ Total(Strings, done)' = Total(Strings, g)
  BY DEF Total
<1> HIDE DEF f, g
<1>4. /\ Total(Strings, f) \in Nat
      /\ Total(Strings, g) = Total(Strings, f) - f[t] + g[t]
  BY <1>1, <1>2, TotalChanges
<1>5. QED
  BY <1>2, <1>3, <1>4

\* What a client adds up.
LEMMA ClientSum ==
  ASSUME Others, Others', NEW c \in Clients, NEW n \in Nat,
         messageCount' = [messageCount EXCEPT ![c] = messageCount[c] + n]
  PROVE  InClients' = InClients + n
<1> DEFINE f == messageCount
           g == messageCount'
<1>1. /\ \A d \in Clients : f[d] \in Nat
      /\ \A d \in Clients : g[d] \in Nat
      /\ \A d \in Clients \ {c} : g[d] = f[d]
      /\ g[c] = f[c] + n
  BY DEF Others
<1>2. InClients = Total(Clients, f) /\ InClients' = Total(Clients, g)
  BY DEF InClients, Total
<1> HIDE DEF f, g
<1>3. /\ Total(Clients, f) \in Nat
      /\ Total(Clients, g) = Total(Clients, f) - f[c] + g[c]
  BY <1>1, ConstantsAssumption, TotalChanges DEF ConstantsAssumption
<1>4. QED
  BY <1>1, <1>2, <1>3

-----------------------------------------------------------------------------
(***************************************************************************)
(* The theorem.                                                            *)
(***************************************************************************)
Conserved == Orderly => Total(Strings, done) = InClients + OnTheWay + InWorkers

\* Once an update is lost, a worker has exited or a client has stopped listening, that is
\* so for ever.
LEMMA OrderlyBefore ==
  ASSUME Shape, Others, [Next]_vars, Orderly'
  PROVE  Orderly
<1>1. Calm
  BY CalmBefore DEF Orderly, Calm
<1>2. ASSUME NEW w \in Workers, main[w] = "dead"
      PROVE  main'[w] = "dead"
  <2>1. CASE UNCHANGED vars
    BY <1>2, <2>1 DEF vars, mainVars
  <2>2. ASSUME NEW v \in Workers, Main(v)
        PROVE  main'[w] = "dead"
    <3>1. CASE v = w
      BY <1>2, <2>2, <3>1 DEF Main, MainStep, StartPush, StartPop, PopTask, PopEmpty,
         PopNothing, CreateThread, CreateFails, LoadUp, StoreUp, Connect, ConnectFails, Send,
         SendFails, ClearKey, Reset, At
    <3>2. CASE v # w
      BY <1>2, <2>2, <3>2, OthersSame DEF Same
    <3>3. QED
      BY <3>1, <3>2
  <2>3. ASSUME NEW v \in Workers, NEW h \in Threads, ExecTask(v, h)
        PROVE  main'[w] = "dead"
    BY <1>2, <2>3 DEF ExecTask, ExecStep, Copy, Ran, RunOK, RunFails, PushBack, LoadJob,
       StoreJob, LoadDown, StoreDown, mainVars
  <2>4. ASSUME NEW c \in Clients, Client(c)
        PROVE  main'[w] = "dead"
    BY <1>2, <2>4 DEF Client, PushTask, Listen, Receive, mainVars
  <2>5. QED
    BY <2>1, <2>2, <2>3, <2>4 DEF Next
<1>3. ASSUME NEW c \in Clients, socket[c] = "closed"
      PROVE  socket'[c] = "closed"
  <2>1. CASE UNCHANGED vars
    BY <1>3, <2>1 DEF vars, clientVars
  <2>2. ASSUME NEW v \in Workers, Main(v)
        PROVE  socket'[c] = "closed"
    BY <1>3, <2>2 DEF Main, MainStep, StartPush, StartPop, PopTask, PopEmpty, PopNothing,
       CreateThread, CreateFails, LoadUp, StoreUp, Connect, ConnectFails, Send, SendFails,
       ClearKey, Reset, Exit, clientVars
  <2>3. ASSUME NEW v \in Workers, NEW h \in Threads, ExecTask(v, h)
        PROVE  socket'[c] = "closed"
    BY <1>3, <2>3 DEF ExecTask, ExecStep, Copy, Ran, RunOK, RunFails, PushBack, LoadJob,
       StoreJob, LoadDown, StoreDown, clientVars
  <2>4. ASSUME NEW d \in Clients, Client(d)
        PROVE  socket'[c] = "closed"
    BY <1>3, <2>4 DEF Client, PushTask, Listen, Receive, clientVars, Others
  <2>5. QED
    BY <2>1, <2>2, <2>3, <2>4 DEF Next
<1>4. QED
  BY <1>1, <1>2, <1>3 DEF Orderly, Calm

\* The total of the jobs done moves with the steps of the worker.
LEMMA WorkerConserves ==
  ASSUME Shape, Others, Others', Counts, Settling, Conserved, Orderly, Orderly',
         NEW w \in Workers, Main(w) \/ \E h \in Threads : ExecTask(w, h)
  PROVE  Conserved'
<1>1. /\ CountRight(w) /\ Settled(w) /\ NumThreads = 1 /\ ~raced'[w] /\ main'[w] # "dead"
      /\ Total(Strings, done) = InClients + OnTheWay + InWorkers
  BY DEF Counts, Settling, Calm, Orderly, Conserved
<1>2. InWorkers' = InWorkers - Unreported(w) + Unreported(w)'
  BY OthersSettled, WorkersSum
<1>3. /\ Total(Strings, done) \in Nat /\ InClients \in Nat /\ OnTheWay \in Nat
      /\ InWorkers \in Nat /\ Unreported(w) \in Nat
  BY SumTypes
<1>4. ASSUME Unreported(w)' = Unreported(w), UNCHANGED <<done, inbox, messageCount>>
      PROVE  Conserved'
  <2>1. OnTheWay' = OnTheWay /\ InClients' = InClients
        /\ Total(Strings, done)' = Total(Strings, done)
    BY <1>4, SameWay DEF InClients, Total
  <2>2. InWorkers' = InWorkers
    BY <1>2, <1>3, <1>4
  <2>3. QED
    BY <1>1, <2>1, <2>2 DEF Conserved
<1>5. CASE Main(w) /\ ~Send(w)
  BY <1>1, <1>4, <1>5, MainReports
<1>6. CASE Send(w)
  <2>1. /\ main[w] = "send" /\ Main(w) /\ UNCHANGED <<done, messageCount>>
    BY <1>6 DEF Send, At, Main, MainStep, Followed, Orderly, historyVars
  <2>2. PICK c \in Clients : c = peer[w] /\ socket[c] = "listening"
    BY <1>1, <2>1 DEF Settled, Orderly, Others
  <2>3. inbox' = [inbox EXCEPT ![c] = Append(@, jobCount[w])]
    BY <1>6, <2>2 DEF Send
  <2>4. inbox[c] \in Seq(Nat) /\ jobCount[w] \in Nat
    BY DEF Others
  <2>5. Unreported(w)' = 0 /\ Unreported(w) = jobCount[w]
    <3>1. Unreported(w) = jobCount[w]
      BY <1>1, <2>1, UnreportedIdle DEF Settled, Reporting
    <3>2. main'[w] = "clear" /\ thread' = thread
      BY <1>6 DEF Send, Goto, Shape
    <3>3. Counting(w)' = {}
      BY <1>1, <2>1, <3>2, CountingFinite DEF Settled, Reporting, Counting
    <3>4. Cardinality(Counting(w)') = 0
      BY <3>3, FS_EmptySet
    <3>5. QED
      BY <3>1, <3>2, <3>4 DEF Unreported, Counting
  <2>6. OnTheWay' = OnTheWay - Reported(c) + Reported(c)'
    <3>1. \A d \in Clients \ {c} : inbox'[d] = inbox[d]
      BY <2>3 DEF Others
    <3>2. QED
      BY <3>1, WaySum
  <2>7. Reported(c)' = Reported(c) + jobCount[w] /\ Reported(c) \in Nat
    <3>1. inbox'[c] = Append(inbox[c], jobCount[w])
      BY <2>3 DEF Others
    <3>2. Reported(c)' = Total(DOMAIN inbox'[c], inbox'[c])
      BY DEF Reported, Total
    <3>3. QED
      BY <2>4, <3>1, <3>2, AppendTotal, SequenceTotal DEF Reported
  <2>8. InClients' = InClients /\ Total(Strings, done)' = Total(Strings, done)
    BY <2>1 DEF InClients, Total
  <2>9. OnTheWay' = OnTheWay + jobCount[w]
    BY <1>3, <2>4, <2>6, <2>7
  <2>10. InWorkers' = InWorkers - jobCount[w]
    BY <1>2, <1>3, <2>4, <2>5
  <2>11. QED
    BY <1>1, <1>3, <2>4, <2>8, <2>9, <2>10 DEF Conserved
<1>7. ASSUME NEW h \in Threads, ExecTask(w, h)
      PROVE  Conserved'
  <2>1. \/ done' = done /\ Unreported(w)' = Unreported(w)
        \/ /\ done' = [done EXCEPT ![thread[w][h].task] = @ + 1]
           /\ thread[w][h].task \in Strings
           /\ Unreported(w)' = Unreported(w) + 1
    BY <1>1, <1>7, ExecReports
  <2>2. UNCHANGED <<messageCount, inbox>>
    BY <1>1, <1>7, ExecReports
  <2>3. CASE done' = done /\ Unreported(w)' = Unreported(w)
    BY <1>4, <2>2, <2>3
  <2>4. CASE /\ done' = [done EXCEPT ![thread[w][h].task] = @ + 1]
             /\ thread[w][h].task \in Strings
             /\ Unreported(w)' = Unreported(w) + 1
    <3>1. Total(Strings, done)' = Total(Strings, done) + 1
      BY <2>4, DoneSum
    <3>2. OnTheWay' = OnTheWay /\ InClients' = InClients
      BY <2>2, SameWay DEF InClients, Total
    <3>3. QED
      BY <1>1, <1>2, <1>3, <2>4, <3>1, <3>2 DEF Conserved
  <2>5. QED
    BY <2>1, <2>3, <2>4
<1>8. QED
  BY <1>5, <1>6, <1>7

\* And what a client receives is no longer on its way.
LEMMA ClientConserves ==
  ASSUME Shape, Others, Others', Conserved, Orderly, NEW c \in Clients, Client(c)
  PROVE  Conserved'
<1>1. Total(Strings, done) = InClients + OnTheWay + InWorkers
  BY DEF Conserved
<1>2. done' = done /\ InWorkers' = InWorkers
  <2>1. UNCHANGED <<done, main, jobCount, thread>>
    BY DEF Client, PushTask, Listen, Receive, mainVars, sharedVars, historyVars
  <2>2. QED
    BY <2>1 DEF InWorkers, Unreported, Total
<1>3. Total(Strings, done)' = Total(Strings, done)
  BY <1>2 DEF Total
<1>4. CASE ~Receive(c)
  <2>1. UNCHANGED <<messageCount, inbox>>
    BY <1>4 DEF Client, PushTask, Listen, clientVars
  <2>2. OnTheWay' = OnTheWay /\ InClients' = InClients
    BY <2>1, SameWay DEF InClients, Total
  <2>3. QED
    BY <1>1, <1>2, <1>3, <2>2 DEF Conserved
<1>5. CASE Receive(c)
  <2>1. /\ inbox[c] \in Seq(Nat) /\ inbox[c] # <<>>
        /\ inbox' = [inbox EXCEPT ![c] = Tail(@)]
        /\ messageCount' = [messageCount EXCEPT ![c] = messageCount[c] + Head(inbox[c])]
    BY <1>5 DEF Receive, Others
  <2>2. Head(inbox[c]) \in Nat
    BY <2>1
  <2>3. InClients' = InClients + Head(inbox[c])
    BY <2>1, <2>2, ClientSum
  <2>4. OnTheWay' = OnTheWay - Reported(c) + Reported(c)'
    <3>1. \A d \in Clients \ {c} : inbox'[d] = inbox[d]
      BY <2>1 DEF Others
    <3>2. QED
      BY <3>1, WaySum
  <2>5. Reported(c) = Reported(c)' + Head(inbox[c]) /\ Reported(c)' \in Nat
    <3>1. inbox'[c] = Tail(inbox[c]) /\ Tail(inbox[c]) \in Seq(Nat)
      BY <2>1 DEF Others
    <3>2. Reported(c)' = Total(DOMAIN inbox'[c], inbox'[c])
      BY DEF Reported, Total
    <3>3. QED
      BY <2>1, <3>1, <3>2, TailTotal, SequenceTotal DEF Reported
  <2>6. /\ InClients \in Nat /\ OnTheWay \in Nat /\ InWorkers \in Nat
        /\ Reported(c) \in Nat
    BY SumTypes
  <2>7. QED
    BY <1>1, <1>2, <1>3, <2>2, <2>3, <2>4, <2>5, <2>6 DEF Conserved
<1>6. QED
  BY <1>4, <1>5

LEMMA ConservedKept ==
  ASSUME Shape, Others, Others', Counts, Settling, Conserved, [Next]_vars
  PROVE  Conserved'
<1>1. SUFFICES ASSUME Orderly'
               PROVE  Conserved'
  BY DEF Conserved
<1>2. Orderly
  BY <1>1, OrderlyBefore
<1>3. CASE UNCHANGED vars
  BY <1>2, <1>3 DEF Conserved, vars, mainVars, sharedVars, clientVars, historyVars, InClients,
     OnTheWay, InWorkers, Reported, Unreported, Total
<1>4. CASE Next
  BY <1>1, <1>2, <1>4, WorkerConserves, ClientConserves DEF Next
<1>5. QED
  BY <1>3, <1>4

LEMMA SettlingKept ==
  ASSUME Shape, Others, Counts, Settling, [Next]_vars
  PROVE  Settling'
<1>1. SUFFICES ASSUME Calm', NEW v \in Workers
               PROVE  Settled(v)'
  BY DEF Settling
<1>2. Calm
  BY <1>1, CalmBefore
<1>3. NumThreads = 1 /\ \A w \in Workers : CountRight(w) /\ Settled(w) /\ ~raced'[w]
  BY <1>1, <1>2 DEF Calm, Counts, Settling
<1>4. CASE UNCHANGED vars
  BY <1>3, <1>4 DEF vars, mainVars, sharedVars, clientVars, Settled, Live, Unreported
<1>5. ASSUME NEW w \in Workers, Main(w) \/ \E h \in Threads : ExecTask(w, h)
      PROVE  Settled(v)'
  <2>1. CASE v = w
    BY <1>3, <1>5, <2>1, MainReports, ExecReports
  <2>2. CASE v # w
    BY <1>3, <1>5, <2>2, OthersSettled
  <2>3. QED
    BY <2>1, <2>2
<1>6. ASSUME NEW c \in Clients, Client(c)
      PROVE  Settled(v)'
  <2>1. UNCHANGED <<main, peer, jobCount, zhtKey, thread>>
    BY <1>6 DEF Client, PushTask, Listen, Receive, mainVars, sharedVars
  <2>2. \A d \in Clients : socket[d] # "none" => socket'[d] # "none"
    BY <1>6 DEF Client, PushTask, Listen, Receive, clientVars, Others
  <2>3. Unreported(v)' = Unreported(v) /\ Live(v)' = Live(v)
    BY <2>1 DEF Unreported, Live
  <2>4. QED
    BY <1>3, <2>1, <2>2, <2>3 DEF Settled
<1>7. QED
  BY <1>4, <1>5, <1>6 DEF Next

LEMMA ConservedInitially ==
  ASSUME Init
  PROVE  Settling /\ Conserved
<1>1. ASSUME NEW w \in Workers
      PROVE  Settled(w) /\ Unreported(w) = 0
  <2>1. Live(w) = {} /\ main[w] = "start" /\ jobCount[w] = 0
    BY DEF Init, Live, NoThread
  <2>2. Counting(w) = {}
    BY <2>1 DEF Live, Counting
  <2>3. Unreported(w) = 0
    <3>1. Cardinality(Counting(w)) = 0
      BY <2>2, FS_EmptySet
    <3>2. QED
      BY <2>1, <3>1 DEF Unreported, Counting
  <2>4. QED
    BY <2>1, <2>3 DEF Settled, Reporting
<1>2. InWorkers = 0
  BY <1>1, TotalZero DEF InWorkers
<1>3. InClients = 0 /\ Total(Strings, done) = 0
  BY TotalZero DEF Init, InClients
<1>4. OnTheWay = 0
  <2>1. \A c \in Clients : Reported(c) = 0
    BY TotalZero DEF Init, Reported
  <2>2. QED
    BY <2>1, TotalZero DEF OnTheWay
<1>5. QED
  BY <1>1, <1>2, <1>3, <1>4 DEF Settling, Conserved

\* With one thread per worker the totals of the clients, the counts on their way and those
\* of the workers make all jobs done, until an update is lost, a worker exits or a client
\* stops listening: for any number of workers, clients and tasks.
THEOREM CountsAddUp == Spec => []CountsConserved
<1> DEFINE Inv == Shape /\ Counts /\ Others /\ Settling /\ Conserved
<1>1. Init => Inv
  <2>1. Init => Others
    BY DEF Init, Others, LoadedCounts, NoThread, Peers
  <2>2. QED
    BY <2>1, Initially, ConservedInitially
<1>2. Inv /\ [Next]_vars => Inv'
  BY StepCounts, OthersKept, SettlingKept, ConservedKept
<1>3. Inv => CountsConserved
  BY DEF Conserved, Orderly, CountsConserved, InClients, OnTheWay, InWorkers
<1>4. QED
  BY <1>1, <1>2, <1>3, PTL DEF Spec
===============================================================================
