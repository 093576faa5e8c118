--------------------------- MODULE ZHTQueueProofs ---------------------------
(***************************************************************************)
(* Proofs about ZHTQueue, for any number of servers, clients and tasks.    *)
(* TypeOK needs only the assumption on the constants.  The other           *)
(* invariants need that no two tasks share a key; they are proved          *)
(* together, because each step of one leans on the others:                 *)
(*   - a key given away by an emptied server (UuidHome) belongs to a task  *)
(*     that is nowhere but delivered (TaskInOnePlace), so what is retired  *)
(*     is done with (RetirementSound);                                     *)
(*   - a retirement then never removes the entry a server with tasks is    *)
(*     found by (NonemptyAnnounced).                                       *)
(***************************************************************************)
EXTENDS ZHTQueue, TLAPS, WellFoundedInduction

Smaller == {p \in Nat \X Nat : p[1] < p[2]}

\* Every queued key is the key of one task pushed to this server, whose value the table
\* still has and which no pop has returned.
QueueHome ==
  \A s \in Servers : \A i \in DOMAIN uuiddata[s] :
    \E t \in pushed \ refused :
      /\ KeyOf[t] = uuiddata[s][i]
      /\ HostOf[KeyOf[t]] = s
      /\ pmap[s][KeyOf[t]] = t
      /\ delivered[t] = 0

\* A server's firstUuid is the key of a task pushed to it.
UuidHome ==
  \A s \in Servers :
    firstUuid[s] # NoUuid =>
      \E t \in pushed \ refused : KeyOf[t] = firstUuid[s] /\ HostOf[KeyOf[t]] = s

IInv ==
  /\ TypeOK
  /\ QueueHome
  /\ UuidHome
  /\ TaskInOnePlace
  /\ RetirementSound
  /\ NonemptyAnnounced

-----------------------------------------------------------------------------
(***************************************************************************)
(* Types.                                                                  *)
(***************************************************************************)

\* A nonempty set of numbers has a smallest one.
LEMMA NatMinimum ==
  ASSUME NEW S \in SUBSET Nat, S # {}
  PROVE  \E m \in S : \A n \in S : m <= n
<1>1. IsWellFoundedOn(Smaller, Nat)
  BY NatLessThanWellFounded DEF OpToRel, Smaller
<1>2. PICK m \in S : \A n \in S : ~(<<n, m>> \in Smaller)
  BY <1>1, WFMin
<1>3. \A n \in S : ~(n < m)
  BY <1>2 DEF Smaller
<1>4. QED
  BY <1>2, <1>3

\* meta->back() of a list with entries is the name of one of them.
LEMMA BackType ==
  ASSUME NEW list \in SUBSET [name : Names, no : Nat], list # {}
  PROVE  Back(list) \in Names
<1> DEFINE numbers == {e.no : e \in list}
<1>1. numbers \in SUBSET Nat /\ numbers # {}
  OBVIOUS
<1>2. PICK m \in numbers : \A n \in numbers : m <= n
  BY <1>1, NatMinimum
<1>3. \E e \in list : \A f \in list : e.no <= f.no
  BY <1>2
<1>4. QED
  BY <1>3 DEF Back

LEMMA PopValueType ==
  ASSUME TypeOK, NEW s \in Servers
  PROVE  PopValue(s) \in Tasks \union {NoTask}
<1>1. CASE up[s] /\ uuiddata[s] # <<>>
  <2>1. uuiddata[s] \in Seq(Keys) /\ Head(uuiddata[s]) \in Keys
    BY <1>1 DEF TypeOK
  <2>2. QED
    BY <1>1, <2>1 DEF TypeOK, PopValue
<1>2. CASE ~(up[s] /\ uuiddata[s] # <<>>)
  BY <1>2 DEF PopValue
<1>3. QED
  BY <1>1, <1>2

\* What a client is given to send next is a phase and a value for it.
LEMMA NextType ==
  ASSUME TypeOK, NEW c \in Clients, NEW next \in Phases, NEW u \in Names \union {NoUuid},
         next = "addnode" => u # NoUuid,
         pc' = [pc EXCEPT ![c] = next], arg' = [arg EXCEPT ![c] = u]
  PROVE  /\ pc' \in [Clients -> Phases]
         /\ arg' \in [Clients -> Names \union {NoUuid}]
         /\ \A d \in Clients : pc'[d] = "addnode" => arg'[d] # NoUuid
BY DEF TypeOK

\* A pop, in any of the places of commonOp that send one, keeps the types.
LEMMA PopAtType ==
  ASSUME ConstantsAssumption, TypeOK,
         NEW c \in Clients, NEW stage, NEW s \in Servers,
         PopAt(c, stage, s)
  PROVE  TypeOK'
<1> DEFINE next == AfterPop(stage, PopStatus(s))
<1>1. uuiddata' \in [Servers -> Seq(Keys)]
  <2>1. uuiddata[s] \in Seq(Keys)
    BY DEF TypeOK
  <2>2. uuiddata[s] # <<>> => Tail(uuiddata[s]) \in Seq(Keys)
    BY <2>1
  <2>3. QED
    BY <2>2 DEF TypeOK, PopAt, PopHandler
<1>2. firstUuid' \in [Servers -> Keys \union {NoUuid}] /\ pmap' = pmap
  BY DEF TypeOK, PopAt, PopHandler
<1>3. next \in Phases /\ "idle" \in Phases
  BY DEF AfterPop, Phases
<1>4. AfterPopArg(next, s) \in Names \union {NoUuid}
  BY DEF AfterPopArg, TypeOK, Names
<1>5. /\ pc' \in [Clients -> Phases]
      /\ arg' \in [Clients -> Names \union {NoUuid}]
      /\ \A d \in Clients : pc'[d] = "addnode" => arg'[d] # NoUuid
  <2>1. next = "addnode" => AfterPopArg(next, s) # NoUuid
    BY DEF AfterPopArg, ConstantsAssumption, Names
  <2>2. \/ pc' = [pc EXCEPT ![c] = next] /\ arg' = [arg EXCEPT ![c] = AfterPopArg(next, s)]
        \/ pc' = [pc EXCEPT ![c] = "idle"] /\ arg' = [arg EXCEPT ![c] = NoUuid]
    BY DEF PopAt, Go
  <2>3. QED
    BY <1>3, <1>4, <2>1, <2>2, NextType
<1>6. dest' \in [Clients -> Servers]
  BY DEF TypeOK, PopAt, ConstantsAssumption
<1>7. delivered' \in [Tasks -> Nat]
  BY PopValueType DEF TypeOK, PopAt
<1>8. UNCHANGED <<metaVars, up, pushed, refused, silent>> /\ faults' \in Nat
  BY DEF TypeOK, PopAt, Fault
<1>9. QED
  BY <1>1, <1>2, <1>5, <1>6, <1>7, <1>8 DEF TypeOK, metaVars

LEMMA PushType ==
  ASSUME ConstantsAssumption, TypeOK,
         NEW c \in Clients, NEW t \in Tasks, Push(c, t)
  PROVE  TypeOK'
<1> DEFINE k == KeyOf[t]
           s == HostOf[k]
<1>1. k \in Keys /\ s \in Servers
  BY DEF ConstantsAssumption, Names
<1>2. uuiddata' \in [Servers -> Seq(Keys)]
  <2>1. uuiddata[s] \in Seq(Keys)
    BY <1>1 DEF TypeOK
  <2>2. Append(uuiddata[s], k) \in Seq(Keys)
    BY <1>1, <2>1
  <2>3. QED
    BY <2>2 DEF TypeOK, Push, PushHandler
<1>3. pmap' \in [Servers -> [Keys -> Tasks \union {NoTask}]]
  BY <1>1 DEF TypeOK, Push, PushHandler
<1>4. firstUuid' \in [Servers -> Keys \union {NoUuid}]
  BY <1>1 DEF TypeOK, Push, PushHandler
<1>5. /\ pc' \in [Clients -> Phases]
      /\ arg' \in [Clients -> Names \union {NoUuid}]
      /\ \A d \in Clients : pc'[d] = "addnode" => arg'[d] # NoUuid
  <2>1. "addnode" \in Phases /\ k \in Names /\ k # NoUuid
    BY <1>1 DEF Phases, Names, ConstantsAssumption
  <2>2. \/ pc' = [pc EXCEPT ![c] = "addnode"] /\ arg' = [arg EXCEPT ![c] = k]
        \/ UNCHANGED <<pc, arg>>
    BY DEF Push
  <2>3. QED
    BY <2>1, <2>2, NextType DEF TypeOK
<1>6. pushed' \subseteq Tasks /\ UNCHANGED <<metaVars, up, dest, refused, delivered>>
  BY DEF TypeOK, Push
<1>7. silent' \subseteq Names /\ faults' \in Nat
  BY <1>1 DEF TypeOK, Push, Fault, faultVars, Names
<1>8. QED
  BY <1>2, <1>3, <1>4, <1>5, <1>6, <1>7 DEF TypeOK, metaVars

LEMMA AddNodeType ==
  ASSUME ConstantsAssumption, TypeOK, NEW c \in Clients, AddNode(c)
  PROVE  TypeOK'
<1>1. /\ pc' \in [Clients -> Phases]
      /\ arg' \in [Clients -> Names \union {NoUuid}]
      /\ \A d \in Clients : pc'[d] = "addnode" => arg'[d] # NoUuid
  BY DEF TypeOK, AddNode, Go, Phases
<1>2. added' \in Nat
  BY DEF TypeOK, AddNode, AddNodeHandler, metaVars
<1>3. meta' \subseteq [name : Names, no : Nat]
  <2>1. arg[c] \in Names
    BY DEF TypeOK, AddNode
  <2>2. QED
    BY <2>1 DEF TypeOK, AddNode, AddNodeHandler, metaVars
<1>4. UNCHANGED <<serverVars, up, dest, historyVars, faultVars>>
  BY DEF AddNode
<1>5. QED
  BY <1>1, <1>2, <1>3, <1>4 DEF TypeOK, serverVars, historyVars, faultVars

\* An ADD_NODE or a pop that is not sent leaves the servers alone.
LEMMA UnsentType ==
  ASSUME ConstantsAssumption, TypeOK, NEW c \in Clients, AddNodeUnsent(c) \/ PopUnsent(c)
  PROVE  TypeOK'
<1>1. /\ pc' \in [Clients -> Phases]
      /\ arg' \in [Clients -> Names \union {NoUuid}]
      /\ \A d \in Clients : pc'[d] = "addnode" => arg'[d] # NoUuid
  BY DEF TypeOK, AddNodeUnsent, PopUnsent, Go, Phases
<1>2. silent' \subseteq Names /\ faults' \in Nat
  BY DEF TypeOK, AddNodeUnsent, PopUnsent, Fault
<1>3. dest' \in [Clients -> Servers]
  BY DEF TypeOK, AddNodeUnsent, PopUnsent, ConstantsAssumption
<1>4. UNCHANGED <<serverVars, metaVars, up, historyVars>>
  BY DEF AddNodeUnsent, PopUnsent
<1>5. QED
  BY <1>1, <1>2, <1>3, <1>4 DEF TypeOK, serverVars, metaVars, historyVars

\* The steps that fetch an entry or retire one.
LEMMA FetchOrRetireType ==
  ASSUME ConstantsAssumption, TypeOK, NEW c \in Clients,
         Fetch(c) \/ FetchKills(c) \/ ShortAnswer(c)
           \/ Retire(c) \/ RetireLast(c) \/ RetireRefused(c)
  PROVE  TypeOK'
<1>1. /\ pc' \in [Clients -> Phases]
      /\ arg' \in [Clients -> Names \union {NoUuid}]
      /\ \A d \in Clients : pc'[d] = "addnode" => arg'[d] # NoUuid
  BY DEF TypeOK, Fetch, FetchKills, ShortAnswer, Retire, RetireLast, RetireRefused, Go, Phases
<1>2. UNCHANGED <<serverVars, added, historyVars, silent>> /\ faults' \in Nat
  BY DEF TypeOK, Fetch, FetchKills, ShortAnswer, Retire, RetireLast, RetireRefused, Fault,
         metaVars, faultVars
<1>3. meta' \subseteq [name : Names, no : Nat]
  BY DEF TypeOK, Fetch, FetchKills, ShortAnswer, Retire, RetireLast, RetireRefused, metaVars,
         Without
<1>4. up' \in [Servers -> BOOLEAN]
  BY ConstantsAssumption DEF TypeOK, Fetch, FetchKills, ShortAnswer, Retire, RetireLast,
         RetireRefused
<1>5. dest' \in [Clients -> Servers]
  <2>1. CASE Retire(c)
    <3>1. meta' \in SUBSET [name : Names, no : Nat] /\ meta' # {}
      BY <1>3, <2>1 DEF Retire
    <3>2. Back(meta') \in Names
      BY <3>1, BackType
    <3>3. HostOf[Back(meta')] \in Servers /\ PrefixHost[Back(meta')] \in Servers
      BY <3>2, ConstantsAssumption DEF ConstantsAssumption
    <3>4. QED
      BY <2>1, <3>3 DEF Retire, TypeOK
  <2>2. CASE ~Retire(c)
    BY <2>2, ConstantsAssumption DEF ConstantsAssumption, TypeOK, Fetch, FetchKills,
       ShortAnswer, RetireLast, RetireRefused
  <2>3. QED
    BY <2>1, <2>2
<1>6. QED
  BY <1>1, <1>2, <1>3, <1>4, <1>5 DEF TypeOK, serverVars, historyVars

LEMMA StepType ==
  ASSUME ConstantsAssumption, TypeOK, [Next]_vars
  PROVE  TypeOK'
<1>1. ASSUME NEW c \in Clients, NEW t \in Tasks, Push(c, t)
      PROVE  TypeOK'
  BY <1>1, PushType
<1>2. ASSUME NEW c \in Clients, NEW t \in Tasks, PushRefused(c, t)
      PROVE  TypeOK'
  BY <1>2 DEF TypeOK, PushRefused, Fault, serverVars, metaVars, clientVars
<1>3. ASSUME NEW c \in Clients, NEW s \in Servers, Pop(c, s)
      PROVE  TypeOK'
  BY <1>3, PopAtType DEF Pop
<1>4. ASSUME NEW c \in Clients, Step(c)
      PROVE  TypeOK'
  <2>1. dest[c] \in Servers /\ FallbackHost \in Servers
    BY ConstantsAssumption DEF TypeOK, ConstantsAssumption
  <2>2. CASE PopFallback(c) \/ PopNext(c)
    BY <2>1, <2>2, PopAtType DEF PopFallback, PopNext
  <2>3. CASE AddNode(c)
    BY <2>3, AddNodeType
  <2>4. CASE AddNodeUnsent(c) \/ PopUnsent(c)
    BY <2>4, UnsentType
  <2>5. CASE ~(PopFallback(c) \/ PopNext(c) \/ AddNode(c) \/ AddNodeUnsent(c) \/ PopUnsent(c))
    BY <1>4, <2>5, FetchOrRetireType DEF Step
  <2>6. QED
    BY <2>2, <2>3, <2>4, <2>5
<1>5. CASE UNCHANGED vars
  BY <1>5 DEF TypeOK, vars, serverVars, metaVars, clientVars, historyVars, faultVars
<1>6. QED
  BY <1>1, <1>2, <1>3, <1>4, <1>5 DEF Next

LEMMA InitType ==
  ASSUME ConstantsAssumption, Init
  PROVE  TypeOK
BY DEF Init, TypeOK, ConstantsAssumption, Phases, Names

\* Every variable keeps its type through every handler and every request of a client.
THEOREM TypeCorrect == Spec => []TypeOK
<1>1. Init => TypeOK
  BY ConstantsAssumption, InitType
<1>2. TypeOK /\ [Next]_vars => TypeOK'
  BY ConstantsAssumption, StepType
<1>3. QED
  BY <1>1, <1>2, PTL DEF Spec

-----------------------------------------------------------------------------
(***************************************************************************)
(* What each step leaves of a queue.                                       *)
(***************************************************************************)

\* Where a task sits is a matter of the server variables alone.
LEMMA QuietStep ==
  ASSUME QueueHome, UuidHome, TaskInOnePlace, UNCHANGED <<serverVars, historyVars>>
  PROVE  QueueHome' /\ UuidHome' /\ TaskInOnePlace'
BY DEF QueueHome, UuidHome, TaskInOnePlace, Queued, QueuedAt, serverVars, historyVars

\* The answer of a pop: nothing where nothing waits, else the task of the front key.
LEMMA PopAnswer ==
  ASSUME ConstantsAssumption, TypeOK, QueueHome, NEW s \in Servers
  PROVE  /\ ~(up[s] /\ uuiddata[s] # <<>>) => PopValue(s) \notin Tasks
         /\ up[s] /\ uuiddata[s] # <<>> =>
              /\ PopValue(s) \in pushed \ refused
              /\ KeyOf[PopValue(s)] = uuiddata[s][1]
              /\ HostOf[KeyOf[PopValue(s)]] = s
              /\ pmap[s][KeyOf[PopValue(s)]] = PopValue(s)
              /\ delivered[PopValue(s)] = 0
<1>1. CASE ~(up[s] /\ uuiddata[s] # <<>>)
  BY <1>1 DEF PopValue, ConstantsAssumption
<1>2. CASE up[s] /\ uuiddata[s] # <<>>
  <2>1. 1 \in DOMAIN uuiddata[s] /\ Head(uuiddata[s]) = uuiddata[s][1]
    BY <1>2 DEF TypeOK
  <2>2. PopValue(s) = pmap[s][uuiddata[s][1]]
    BY <1>2, <2>1 DEF PopValue
  <2>3. PICK t \in pushed \ refused :
          /\ KeyOf[t] = uuiddata[s][1]
          /\ HostOf[KeyOf[t]] = s
          /\ pmap[s][KeyOf[t]] = t
          /\ delivered[t] = 0
    BY <2>1 DEF QueueHome
  <2>4. PopValue(s) = t
    BY <2>2, <2>3
  <2>5. QED
    BY <1>2, <2>3, <2>4
<1>3. QED
  BY <1>1, <1>2

\* A pop that finds tasks shifts the queue of its server by one and touches no other.
LEMMA PopShifts ==
  ASSUME TypeOK, NEW c \in Clients, NEW stage, NEW s \in Servers,
         PopAt(c, stage, s), up[s], uuiddata[s] # <<>>
  PROVE  /\ DOMAIN uuiddata'[s] = {i \in Nat : i + 1 \in DOMAIN uuiddata[s] /\ i # 0}
         /\ \A i \in DOMAIN uuiddata'[s] :
              i \in Nat /\ i + 1 \in DOMAIN uuiddata[s] /\ uuiddata'[s][i] = uuiddata[s][i + 1]
         /\ \A r \in Servers \ {s} : uuiddata'[r] = uuiddata[r]
         /\ UNCHANGED <<firstUuid, pmap>>
<1>1. uuiddata[s] \in Seq(Keys)
  BY DEF TypeOK
<1>2. uuiddata' = [uuiddata EXCEPT ![s] = Tail(@)] /\ UNCHANGED <<firstUuid, pmap>>
  BY DEF PopAt, PopHandler
<1>3. uuiddata'[s] = Tail(uuiddata[s])
  BY <1>2 DEF TypeOK
<1>4. /\ DOMAIN Tail(uuiddata[s]) = {i \in Nat : i + 1 \in DOMAIN uuiddata[s] /\ i # 0}
      /\ \A i \in DOMAIN Tail(uuiddata[s]) :
           i \in Nat /\ i + 1 \in DOMAIN uuiddata[s] /\ Tail(uuiddata[s])[i] = uuiddata[s][i + 1]
  BY <1>1
<1>5. QED
  BY <1>2, <1>3, <1>4 DEF TypeOK

\* A pop that finds nothing leaves every queue, table and history as it was.
LEMMA PopFindsNothing ==
  ASSUME ConstantsAssumption, TypeOK, QueueHome,
         NEW c \in Clients, NEW stage, NEW s \in Servers,
         PopAt(c, stage, s), ~(up[s] /\ uuiddata[s] # <<>>)
  PROVE  UNCHANGED <<uuiddata, pmap, historyVars>>
BY PopAnswer DEF PopAt, PopHandler, historyVars

\* A push appends its key to the queue of one server and touches no other.
LEMMA PushAppends ==
  ASSUME ConstantsAssumption, TypeOK, NEW c \in Clients, NEW t \in Tasks, Push(c, t)
  PROVE  LET k == KeyOf[t]
             s == HostOf[k]
             n == Len(uuiddata[s]) + 1
         IN /\ k \in Keys /\ s \in Servers
            /\ DOMAIN uuiddata'[s] = DOMAIN uuiddata[s] \union {n}
            /\ n \notin DOMAIN uuiddata[s]
            /\ \A i \in DOMAIN uuiddata[s] : uuiddata'[s][i] = uuiddata[s][i]
            /\ uuiddata'[s][n] = k
            /\ \A r \in Servers \ {s} : uuiddata'[r] = uuiddata[r]
            /\ pmap'[s][k] = t
            /\ \A r \in Servers, j \in Keys : r # s \/ j # k => pmap'[r][j] = pmap[r][j]
<1> DEFINE k == KeyOf[t]
           s == HostOf[k]
<1>0. k \in Keys /\ s \in Servers
  BY ConstantsAssumption DEF ConstantsAssumption, Names
<1>1. uuiddata[s] \in Seq(Keys)
  BY <1>0 DEF TypeOK
<1>2. uuiddata' = [uuiddata EXCEPT ![s] = Append(@, k)] /\ pmap' = [pmap EXCEPT ![s][k] = t]
  BY DEF Push, PushHandler
<1>3. uuiddata'[s] = Append(uuiddata[s], k)
  BY <1>0, <1>2 DEF TypeOK
<1>4. /\ DOMAIN Append(uuiddata[s], k) = DOMAIN uuiddata[s] \union {Len(uuiddata[s]) + 1}
      /\ Len(uuiddata[s]) + 1 \notin DOMAIN uuiddata[s]
      /\ \A i \in DOMAIN uuiddata[s] : Append(uuiddata[s], k)[i] = uuiddata[s][i]
      /\ Append(uuiddata[s], k)[Len(uuiddata[s]) + 1] = k
  BY <1>0, <1>1
<1>5. \A r \in Servers \ {s} : uuiddata'[r] = uuiddata[r]
  BY <1>0, <1>2 DEF TypeOK
<1>6. /\ pmap'[s][k] = t
      /\ \A r \in Servers, j \in Keys : r # s \/ j # k => pmap'[r][j] = pmap[r][j]
  BY <1>0, <1>2 DEF TypeOK
<1>7. QED
  BY <1>0, <1>2, <1>3, <1>4, <1>5, <1>6

-----------------------------------------------------------------------------
(***************************************************************************)
(* A pushed task is in one place.                                          *)
(***************************************************************************)

\* The three invariants that say where tasks are.
Places == QueueHome /\ UuidHome /\ TaskInOnePlace

\* No queue holds the key of a task not yet pushed.
LEMMA FreshKey ==
  ASSUME KeysUnique, TypeOK, QueueHome, NEW t \in Tasks \ pushed, NEW s \in Servers
  PROVE  \A i \in DOMAIN uuiddata[s] : uuiddata[s][i] # KeyOf[t]
<1> SUFFICES ASSUME NEW i \in DOMAIN uuiddata[s], uuiddata[s][i] = KeyOf[t]
             PROVE  FALSE
  OBVIOUS
<1>1. PICK u \in pushed : KeyOf[u] = uuiddata[s][i]
  BY DEF QueueHome
<1>2. u \in Tasks /\ u = t
  BY <1>1 DEF TypeOK, KeysUnique
<1>3. QED
  BY <1>1, <1>2

LEMMA PushPlaces ==
  ASSUME ConstantsAssumption, KeysUnique, TypeOK, Places,
         NEW c \in Clients, NEW t \in Tasks, Push(c, t)
  PROVE  Places'
<1> DEFINE k == KeyOf[t]
           s == HostOf[k]
           n == Len(uuiddata[s]) + 1
<1>1. /\ k \in Keys /\ s \in Servers
      /\ DOMAIN uuiddata'[s] = DOMAIN uuiddata[s] \union {n}
      /\ n \notin DOMAIN uuiddata[s]
      /\ \A i \in DOMAIN uuiddata[s] : uuiddata'[s][i] = uuiddata[s][i]
      /\ uuiddata'[s][n] = k
      /\ \A r \in Servers \ {s} : uuiddata'[r] = uuiddata[r]
      /\ pmap'[s][k] = t
      /\ \A r \in Servers, j \in Keys : r # s \/ j # k => pmap'[r][j] = pmap[r][j]
  BY PushAppends
<1>2. /\ t \notin pushed
      /\ pushed' = pushed \union {t}
      /\ UNCHANGED <<refused, delivered>>
  BY DEF Push
<1>3. \A r \in Servers : \A i \in DOMAIN uuiddata[r] : uuiddata[r][i] # k
  BY <1>2, FreshKey DEF Places
<1>4. delivered[t] = 0 /\ t \notin refused
  BY <1>2 DEF Places, TaskInOnePlace
<1>5. \A u \in Tasks : u # t => KeyOf[u] # k /\ KeyOf[u] \in Keys
  BY ConstantsAssumption DEF KeysUnique, ConstantsAssumption
<1>6. QueueHome'
  <2> SUFFICES ASSUME NEW r \in Servers, NEW i \in DOMAIN uuiddata'[r]
               PROVE  \E u \in pushed' \ refused' :
                        /\ KeyOf[u] = uuiddata'[r][i]
                        /\ HostOf[KeyOf[u]] = r
                        /\ pmap'[r][KeyOf[u]] = u
                        /\ delivered'[u] = 0
    BY DEF QueueHome
  <2>1. CASE r = s /\ i = n
    BY <1>1, <1>2, <1>4, <2>1
  <2>2. CASE ~(r = s /\ i = n)
    <3>1. i \in DOMAIN uuiddata[r] /\ uuiddata'[r][i] = uuiddata[r][i]
      BY <1>1, <2>2
    <3>2. PICK u \in pushed \ refused :
            /\ KeyOf[u] = uuiddata[r][i]
            /\ HostOf[KeyOf[u]] = r
            /\ pmap[r][KeyOf[u]] = u
            /\ delivered[u] = 0
      BY <3>1 DEF Places, QueueHome
    <3>3. u \in Tasks /\ u # t
      BY <1>2, <3>2 DEF TypeOK
    <3>4. pmap'[r][KeyOf[u]] = u
      BY <1>1, <1>5, <3>2, <3>3
    <3>5. QED
      BY <1>2, <3>1, <3>2, <3>4
  <2>3. QED
    BY <2>1, <2>2
<1>7. UuidHome'
  <2>1. firstUuid' = firstUuid \/ firstUuid' = [firstUuid EXCEPT ![s] = k]
    BY DEF Push, PushHandler, TypeOK
  <2>2. \A r \in Servers : firstUuid'[r] = firstUuid[r] \/ (r = s /\ firstUuid'[r] = k)
    BY <2>1 DEF TypeOK
  <2>3. QED
    BY <1>2, <1>4, <2>2 DEF Places, UuidHome
<1>8. \A u \in Tasks : u # t => (Queued(u)' <=> Queued(u))
  <2> SUFFICES ASSUME NEW u \in Tasks, u # t
               PROVE  Queued(u)' <=> Queued(u)
    OBVIOUS
  <2>1. HostOf[KeyOf[u]] \in Servers /\ KeyOf[u] \in Keys
    BY <1>5, ConstantsAssumption DEF ConstantsAssumption, Names
  <2>2. pmap'[HostOf[KeyOf[u]]][KeyOf[u]] = pmap[HostOf[KeyOf[u]]][KeyOf[u]]
    BY <1>1, <1>5, <2>1
  <2>3. \A i : i \in DOMAIN uuiddata[HostOf[KeyOf[u]]] =>
                 /\ i \in DOMAIN uuiddata'[HostOf[KeyOf[u]]]
                 /\ uuiddata'[HostOf[KeyOf[u]]][i] = uuiddata[HostOf[KeyOf[u]]][i]
    BY <1>1, <2>1
  <2>4. \A i : /\ i \in DOMAIN uuiddata'[HostOf[KeyOf[u]]]
               /\ uuiddata'[HostOf[KeyOf[u]]][i] = KeyOf[u]
               => i \in DOMAIN uuiddata[HostOf[KeyOf[u]]]
    BY <1>1, <1>5, <2>1
  <2>5. QED
    BY <2>2, <2>3, <2>4 DEF Queued, QueuedAt
<1>9. Queued(t)'
  BY <1>1 DEF Queued, QueuedAt
<1>10. TaskInOnePlace'
  <2>1. ASSUME NEW u \in pushed'
        PROVE  \/ delivered'[u] = 0 /\ u \in refused' /\ ~Queued(u)'
               \/ delivered'[u] = 0 /\ u \notin refused' /\ Queued(u)'
               \/ delivered'[u] = 1 /\ u \notin refused' /\ ~Queued(u)'
    <3>1. CASE u = t
      BY <1>2, <1>4, <1>9, <3>1
    <3>2. CASE u # t
      BY <1>2, <1>8, <2>1, <3>2 DEF Places, TaskInOnePlace, TypeOK
    <3>3. QED
      BY <3>1, <3>2
  <2>2. ASSUME NEW u \in Tasks \ pushed'
        PROVE  delivered'[u] = 0 /\ u \notin refused' /\ ~Queued(u)'
    BY <1>2, <1>8, <2>2 DEF Places, TaskInOnePlace
  <2>3. ASSUME NEW r \in Servers, NEW i \in DOMAIN uuiddata'[r], NEW j \in DOMAIN uuiddata'[r],
               uuiddata'[r][i] = uuiddata'[r][j]
        PROVE  i = j
    BY <1>1, <1>3, <2>3 DEF Places, TaskInOnePlace
  <2>4. QED
    BY <2>1, <2>2, <2>3 DEF TaskInOnePlace
<1>11. QED
  BY <1>6, <1>7, <1>10 DEF Places

LEMMA PushRefusedPlaces ==
  ASSUME ConstantsAssumption, KeysUnique, TypeOK, Places,
         NEW c \in Clients, NEW t \in Tasks, PushRefused(c, t)
  PROVE  Places'
<1>1. /\ t \notin pushed
      /\ pushed' = pushed \union {t}
      /\ refused' = refused \union {t}
      /\ UNCHANGED <<uuiddata, firstUuid, pmap, delivered>>
  BY DEF PushRefused, serverVars
<1>2. QueueHome'
  BY <1>1 DEF Places, QueueHome
<1>3. UuidHome'
  BY <1>1 DEF Places, UuidHome
<1>4. \A u : Queued(u)' <=> Queued(u)
  BY <1>1 DEF Queued, QueuedAt
<1>5. TaskInOnePlace'
  BY <1>1, <1>4 DEF Places, TaskInOnePlace, TypeOK
<1>6. QED
  BY <1>2, <1>3, <1>5 DEF Places

\* A pop that finds nothing gives away at most a firstUuid.
LEMMA PopNothingPlaces ==
  ASSUME ConstantsAssumption, TypeOK, Places,
         NEW c \in Clients, NEW stage, NEW s \in Servers,
         PopAt(c, stage, s), ~(up[s] /\ uuiddata[s] # <<>>)
  PROVE  Places'
<1>1. UNCHANGED <<uuiddata, pmap, historyVars>>
  BY PopFindsNothing DEF Places
<1>2. \A r \in Servers : firstUuid'[r] \in {firstUuid[r], NoUuid}
  BY DEF PopAt, PopHandler, TypeOK
<1>3. QueueHome'
  BY <1>1 DEF Places, QueueHome, historyVars
<1>4. UuidHome'
  BY <1>1, <1>2 DEF Places, UuidHome, historyVars
<1>5. TaskInOnePlace'
  BY <1>1 DEF Places, TaskInOnePlace, Queued, QueuedAt, historyVars
<1>6. QED
  BY <1>3, <1>4, <1>5 DEF Places

\* A pop that finds tasks moves one of them from its queue to the caller.
LEMMA PopTaskPlaces ==
  ASSUME ConstantsAssumption, KeysUnique, TypeOK, Places,
         NEW c \in Clients, NEW stage, NEW s \in Servers,
         PopAt(c, stage, s), up[s], uuiddata[s] # <<>>
  PROVE  Places'
<1>1. PICK t \in Tasks :
        /\ t = PopValue(s)
        /\ t \in pushed \ refused
        /\ KeyOf[t] = uuiddata[s][1]
        /\ HostOf[KeyOf[t]] = s
        /\ pmap[s][KeyOf[t]] = t
        /\ delivered[t] = 0
  BY PopAnswer DEF Places, TypeOK
<1>2. /\ delivered' = [delivered EXCEPT ![t] = @ + 1]
      /\ UNCHANGED <<pushed, refused>>
  BY <1>1 DEF PopAt
<1>3. delivered'[t] = 1 /\ \A u \in Tasks : u # t => delivered'[u] = delivered[u]
  BY <1>1, <1>2 DEF TypeOK
<1>4. /\ DOMAIN uuiddata'[s] = {i \in Nat : i + 1 \in DOMAIN uuiddata[s] /\ i # 0}
      /\ \A i \in DOMAIN uuiddata'[s] :
           i \in Nat /\ i + 1 \in DOMAIN uuiddata[s] /\ uuiddata'[s][i] = uuiddata[s][i + 1]
      /\ \A r \in Servers \ {s} : uuiddata'[r] = uuiddata[r]
      /\ UNCHANGED <<firstUuid, pmap>>
  BY PopShifts
<1>5. \A i, j \in DOMAIN uuiddata[s] : uuiddata[s][i] = uuiddata[s][j] => i = j
  BY DEF Places, TaskInOnePlace
<1>6. 1 \in DOMAIN uuiddata[s] /\ \A i \in DOMAIN uuiddata[s] : i \in Nat /\ i # 0
  BY DEF TypeOK
<1>7. \A i \in DOMAIN uuiddata'[s] : uuiddata'[s][i] # KeyOf[t]
  <2> SUFFICES ASSUME NEW i \in DOMAIN uuiddata'[s]
               PROVE  uuiddata'[s][i] # KeyOf[t]
    OBVIOUS
  <2>1. i \in Nat /\ i # 0 /\ i + 1 \in DOMAIN uuiddata[s]
        /\ uuiddata'[s][i] = uuiddata[s][i + 1]
    BY <1>4
  <2>2. i + 1 # 1
    BY <2>1
  <2>3. QED
    BY <1>1, <1>5, <1>6, <2>1, <2>2
<1>8. QueueHome'
  <2> SUFFICES ASSUME NEW r \in Servers, NEW i \in DOMAIN uuiddata'[r]
               PROVE  \E u \in pushed' \ refused' :
                        /\ KeyOf[u] = uuiddata'[r][i]
                        /\ HostOf[KeyOf[u]] = r
                        /\ pmap'[r][KeyOf[u]] = u
                        /\ delivered'[u] = 0
    BY DEF QueueHome
  <2>1. \E j \in DOMAIN uuiddata[r] : uuiddata[r][j] = uuiddata'[r][i]
    BY <1>4
  <2>2. PICK u \in pushed \ refused :
          /\ KeyOf[u] = uuiddata'[r][i]
          /\ HostOf[KeyOf[u]] = r
          /\ pmap[r][KeyOf[u]] = u
          /\ delivered[u] = 0
    BY <2>1 DEF Places, QueueHome
  <2>3. u # t
    BY <1>1, <1>7, <2>2
  <2>4. QED
    BY <1>2, <1>3, <1>4, <2>2, <2>3 DEF TypeOK
<1>9. UuidHome'
  BY <1>2, <1>4 DEF Places, UuidHome
<1>10. ~Queued(t)'
  BY <1>1, <1>7 DEF Queued, QueuedAt
<1>11. \A u \in Tasks : u # t => (Queued(u)' <=> Queued(u))
  <2> SUFFICES ASSUME NEW u \in Tasks, u # t
               PROVE  Queued(u)' <=> Queued(u)
    OBVIOUS
  <2>1. KeyOf[u] # KeyOf[t] /\ HostOf[KeyOf[u]] \in Servers
    BY <1>1, ConstantsAssumption DEF KeysUnique, ConstantsAssumption, Names
  <2>2. CASE HostOf[KeyOf[u]] # s
    BY <1>4, <2>1, <2>2 DEF Queued, QueuedAt
  <2>3. CASE HostOf[KeyOf[u]] = s
    <3>1. ASSUME NEW i \in DOMAIN uuiddata[s], uuiddata[s][i] = KeyOf[u]
          PROVE  \E j \in DOMAIN uuiddata'[s] : uuiddata'[s][j] = KeyOf[u]
      <4>1. i \in Nat /\ i # 0 /\ i # 1
        BY <1>1, <1>6, <2>1, <3>1
      <4>2. i - 1 \in Nat /\ i - 1 # 0 /\ (i - 1) + 1 = i
        BY <4>1
      <4>3. i - 1 \in DOMAIN uuiddata'[s]
        BY <1>4, <3>1, <4>2
      <4>4. uuiddata'[s][i - 1] = uuiddata[s][i]
        BY <1>4, <4>2, <4>3
      <4>5. QED
        BY <3>1, <4>3, <4>4
    <3>2. ASSUME NEW j \in DOMAIN uuiddata'[s], uuiddata'[s][j] = KeyOf[u]
          PROVE  \E i \in DOMAIN uuiddata[s] : uuiddata[s][i] = KeyOf[u]
      BY <1>4, <3>2
    <3>3. QED
      BY <1>4, <2>3, <3>1, <3>2 DEF Queued, QueuedAt
  <2>4. QED
    BY <2>2, <2>3
<1>12. \A r \in Servers : \A i, j \in DOMAIN uuiddata'[r] :
         uuiddata'[r][i] = uuiddata'[r][j] => i = j
  <2> SUFFICES ASSUME NEW r \in Servers,
                      NEW i \in DOMAIN uuiddata'[r], NEW j \in DOMAIN uuiddata'[r],
                      uuiddata'[r][i] = uuiddata'[r][j]
               PROVE  i = j
    OBVIOUS
  <2>1. CASE r # s
    BY <1>4, <2>1 DEF Places, TaskInOnePlace
  <2>2. CASE r = s
    <3>1. i \in Nat /\ j \in Nat /\ i + 1 = j + 1
      BY <1>4, <1>5, <2>2
    <3>2. QED
      BY <3>1
  <2>3. QED
    BY <2>1, <2>2
<1>13. TaskInOnePlace'
  <2>1. ASSUME NEW u \in pushed'
        PROVE  \/ delivered'[u] = 0 /\ u \in refused' /\ ~Queued(u)'
               \/ delivered'[u] = 0 /\ u \notin refused' /\ Queued(u)'
               \/ delivered'[u] = 1 /\ u \notin refused' /\ ~Queued(u)'
    <3>1. CASE u = t
      BY <1>1, <1>2, <1>3, <1>10, <3>1
    <3>2. CASE u # t
      BY <1>2, <1>3, <1>11, <3>2 DEF Places, TaskInOnePlace, TypeOK
    <3>3. QED
      BY <3>1, <3>2
  <2>2. ASSUME NEW u \in Tasks \ pushed'
        PROVE  delivered'[u] = 0 /\ u \notin refused' /\ ~Queued(u)'
    BY <1>1, <1>2, <1>3, <1>11 DEF Places, TaskInOnePlace
  <2>3. QED
    BY <1>12, <2>1, <2>2 DEF TaskInOnePlace
<1>14. QED
  BY <1>8, <1>9, <1>13 DEF Places

LEMMA PopPlaces ==
  ASSUME ConstantsAssumption, KeysUnique, TypeOK, Places,
         NEW c \in Clients, NEW stage, NEW s \in Servers, PopAt(c, stage, s)
  PROVE  Places'
BY PopNothingPlaces, PopTaskPlaces

\* The requests that go to the metadata queue, and those that go nowhere.
MetaStep(c) ==
  AddNode(c) \/ AddNodeUnsent(c) \/ Fetch(c) \/ FetchKills(c) \/ ShortAnswer(c)
    \/ Retire(c) \/ RetireLast(c) \/ RetireRefused(c) \/ PopUnsent(c)

LEMMA MetaStepPlaces ==
  ASSUME Places, NEW c \in Clients, MetaStep(c)
  PROVE  Places'
<1>1. UNCHANGED <<serverVars, historyVars>>
  BY DEF MetaStep, AddNode, AddNodeUnsent, PopUnsent, Fetch, FetchKills, ShortAnswer, Retire, RetireLast, RetireRefused
<1>2. QED
  BY <1>1, QuietStep DEF Places

LEMMA StepPlaces ==
  ASSUME ConstantsAssumption, KeysUnique, TypeOK, Places, [Next]_vars
  PROVE  Places'
<1>1. ASSUME NEW c \in Clients, NEW t \in Tasks, Push(c, t) \/ PushRefused(c, t)
      PROVE  Places'
  BY <1>1, PushPlaces, PushRefusedPlaces
<1>2. ASSUME NEW c \in Clients, NEW s \in Servers, Pop(c, s)
      PROVE  Places'
  BY <1>2, PopPlaces DEF Pop
<1>3. ASSUME NEW c \in Clients, Step(c)
      PROVE  Places'
  <2>1. dest[c] \in Servers /\ FallbackHost \in Servers
    BY ConstantsAssumption DEF TypeOK, ConstantsAssumption
  <2>2. CASE PopFallback(c) \/ PopNext(c)
    BY <2>1, <2>2, PopPlaces DEF PopFallback, PopNext
  <2>3. CASE MetaStep(c)
    BY <2>3, MetaStepPlaces
  <2>4. QED
    BY <1>3, <2>2, <2>3 DEF Step, MetaStep
<1>4. CASE UNCHANGED vars
  BY <1>4, QuietStep DEF Places, vars
<1>5. QED
  BY <1>1, <1>2, <1>3, <1>4 DEF Next

-----------------------------------------------------------------------------
(***************************************************************************)
(* Only what is done with is retired.                                      *)
(***************************************************************************)

\* A pop leads to a retirement only when an emptied server gave its firstUuid away.
LEMMA RetireComes ==
  ASSUME ConstantsAssumption, TypeOK,
         NEW c \in Clients, NEW stage, NEW s \in Servers,
         PopAt(c, stage, s), pc'[c] = "retire"
  PROVE  /\ up[s] /\ uuiddata[s] = <<>> /\ firstUuid[s] # NoUuid
         /\ arg'[c] = firstUuid[s]
         /\ firstUuid' = [firstUuid EXCEPT ![s] = NoUuid]
<1>1. /\ pc'[c] = AfterPop(stage, PopStatus(s))
      /\ arg'[c] = AfterPopArg("retire", s)
  BY DEF PopAt, Go, TypeOK
<1>2. PopStatus(s) = "uuid"
  BY <1>1 DEF AfterPop
<1>3. up[s] /\ uuiddata[s] = <<>> /\ firstUuid[s] # NoUuid
  BY <1>2 DEF PopStatus
<1>4. arg'[c] = firstUuid[s]
  BY <1>1 DEF AfterPopArg
<1>5. firstUuid' = [firstUuid EXCEPT ![s] = NoUuid]
  BY <1>3 DEF PopAt, PopHandler
<1>6. QED
  BY <1>3, <1>4, <1>5

LEMMA PopRetirement ==
  ASSUME ConstantsAssumption, KeysUnique, TypeOK, Places, RetirementSound,
         NEW c \in Clients, NEW stage, NEW s \in Servers, PopAt(c, stage, s)
  PROVE  RetirementSound'
<1>1. \A d \in Clients \ {c} : pc'[d] = pc[d] /\ arg'[d] = arg[d]
  BY DEF PopAt, Go, TypeOK
<1>2. \A r \in Servers : firstUuid'[r] \in {firstUuid[r], NoUuid}
  BY DEF PopAt, PopHandler, TypeOK
<1>3. \A t \in Tasks : delivered[t] > 0 => delivered'[t] > 0
  BY PopValueType DEF PopAt, TypeOK
<1>4. \A d \in Clients : pc[d] = "retire" =>
        /\ arg[d] # NoUuid
        /\ \E t \in Tasks : KeyOf[t] = arg[d] /\ delivered[t] > 0
        /\ \A r \in Servers : firstUuid[r] # arg[d]
  <2>1. \A t \in Tasks : KeyOf[t] # NoUuid
    BY ConstantsAssumption DEF ConstantsAssumption, Names
  <2>2. QED
    BY <2>1 DEF RetirementSound
<1>5. CASE pc'[c] # "retire"
  <2>1. ASSUME NEW d \in Clients, pc'[d] = "retire"
        PROVE  /\ \E t \in Tasks : KeyOf[t] = arg'[d] /\ delivered'[t] > 0
               /\ \A e \in Clients : pc'[e] = "retire" /\ arg'[e] = arg'[d] => e = d
               /\ \A r \in Servers : firstUuid'[r] # arg'[d]
    <3>1. d # c /\ pc[d] = "retire" /\ arg'[d] = arg[d]
      BY <1>1, <1>5, <2>1
    <3>2. \A e \in Clients : pc'[e] = "retire" /\ arg'[e] = arg'[d] => e = d
      BY <1>1, <1>5, <3>1 DEF RetirementSound
    <3>3. QED
      BY <1>2, <1>3, <1>4, <3>1, <3>2
  <2>2. QED
    BY <2>1 DEF RetirementSound
<1>6. CASE pc'[c] = "retire"
  <2>1. /\ up[s] /\ uuiddata[s] = <<>> /\ firstUuid[s] # NoUuid
        /\ arg'[c] = firstUuid[s]
        /\ firstUuid'[s] = NoUuid
        /\ \A r \in Servers \ {s} : firstUuid'[r] = firstUuid[r]
    BY <1>6, RetireComes DEF TypeOK
  <2>2. PICK t \in pushed \ refused : KeyOf[t] = firstUuid[s] /\ HostOf[KeyOf[t]] = s
    BY <2>1 DEF Places, UuidHome
  <2>3. t \in Tasks
    BY <2>2 DEF TypeOK
  <2>4. ~Queued(t)
    BY <2>1, <2>2 DEF Queued, QueuedAt
  <2>5. delivered[t] > 0
    BY <2>2, <2>4 DEF Places, TaskInOnePlace
  <2>6. \A r \in Servers : firstUuid'[r] # firstUuid[s]
    <3>1. ASSUME NEW r \in Servers \ {s}, firstUuid[r] = firstUuid[s]
          PROVE  FALSE
      <4>1. PICK u \in pushed : KeyOf[u] = firstUuid[r] /\ HostOf[KeyOf[u]] = r
        BY <2>1, <3>1 DEF Places, UuidHome
      <4>2. QED
        BY <2>2, <3>1, <4>1
    <3>2. QED
      BY <2>1, <3>1
  <2>7. \A d \in Clients : pc'[d] = "retire" /\ d # c => arg'[d] # firstUuid[s]
    BY <1>1, <1>4
  <2>8. ASSUME NEW d \in Clients, pc'[d] = "retire"
        PROVE  /\ \E u \in Tasks : KeyOf[u] = arg'[d] /\ delivered'[u] > 0
               /\ \A e \in Clients : pc'[e] = "retire" /\ arg'[e] = arg'[d] => e = d
               /\ \A r \in Servers : firstUuid'[r] # arg'[d]
    <3>1. CASE d = c
      BY <1>3, <2>1, <2>2, <2>3, <2>5, <2>6, <2>7, <3>1
    <3>2. CASE d # c
      <4>1. pc[d] = "retire" /\ arg'[d] = arg[d] /\ arg'[d] # arg'[c]
        BY <1>1, <2>1, <2>7, <2>8, <3>2
      <4>2. \A e \in Clients : pc'[e] = "retire" /\ arg'[e] = arg'[d] => e = d
        BY <1>1, <4>1 DEF RetirementSound
      <4>3. QED
        BY <1>2, <1>3, <1>4, <4>1, <4>2
    <3>3. QED
      BY <3>1, <3>2
  <2>9. QED
    BY <2>8 DEF RetirementSound
<1>7. QED
  BY <1>5, <1>6

LEMMA PushRetirement ==
  ASSUME ConstantsAssumption, KeysUnique, TypeOK, Places, RetirementSound,
         NEW c \in Clients, NEW t \in Tasks, Push(c, t)
  PROVE  RetirementSound'
<1>1. \A d \in Clients : pc'[d] = "retire" => pc[d] = "retire" /\ arg'[d] = arg[d]
  BY DEF Push, TypeOK
<1>2. /\ delivered' = delivered /\ t \notin pushed
      /\ \A r \in Servers : firstUuid'[r] \in {firstUuid[r], KeyOf[t]}
  BY DEF Push, PushHandler, TypeOK
<1>3. delivered[t] = 0
  BY <1>2 DEF Places, TaskInOnePlace
<1>4. \A d \in Clients : pc[d] = "retire" => arg[d] # KeyOf[t]
  BY <1>3 DEF RetirementSound, KeysUnique
<1>5. QED
  BY <1>1, <1>2, <1>4 DEF RetirementSound

\* After any other request the client has nothing to retire.
LEMMA MetaStepRetirement ==
  ASSUME TypeOK, RetirementSound, NEW c \in Clients, MetaStep(c)
  PROVE  RetirementSound'
<1>1. /\ pc'[c] # "retire"
      /\ \A d \in Clients \ {c} : pc'[d] = pc[d] /\ arg'[d] = arg[d]
      /\ UNCHANGED <<firstUuid, delivered>>
  BY DEF MetaStep, AddNode, AddNodeUnsent, PopUnsent, Fetch, FetchKills, ShortAnswer, Retire, RetireLast, RetireRefused,
         Go, TypeOK, serverVars, historyVars
<1>2. QED
  BY <1>1 DEF RetirementSound

LEMMA StepRetirement ==
  ASSUME ConstantsAssumption, KeysUnique, TypeOK, Places, RetirementSound, [Next]_vars
  PROVE  RetirementSound'
<1>1. ASSUME NEW c \in Clients, NEW t \in Tasks, Push(c, t) \/ PushRefused(c, t)
      PROVE  RetirementSound'
  <2>1. CASE Push(c, t)
    BY <2>1, PushRetirement
  <2>2. CASE PushRefused(c, t)
    BY <2>2 DEF PushRefused, RetirementSound, serverVars, clientVars
  <2>3. QED
    BY <1>1, <2>1, <2>2
<1>2. ASSUME NEW c \in Clients, NEW s \in Servers, Pop(c, s)
      PROVE  RetirementSound'
  BY <1>2, PopRetirement DEF Pop
<1>3. ASSUME NEW c \in Clients, Step(c)
      PROVE  RetirementSound'
  <2>1. dest[c] \in Servers /\ FallbackHost \in Servers
    BY ConstantsAssumption DEF TypeOK, ConstantsAssumption
  <2>2. CASE PopFallback(c) \/ PopNext(c)
    BY <2>1, <2>2, PopRetirement DEF PopFallback, PopNext
  <2>3. CASE MetaStep(c)
    BY <2>3, MetaStepRetirement
  <2>4. QED
    BY <1>3, <2>2, <2>3 DEF Step, MetaStep
<1>4. CASE UNCHANGED vars
  BY <1>4 DEF RetirementSound, vars, serverVars, clientVars, historyVars
<1>5. QED
  BY <1>1, <1>2, <1>3, <1>4 DEF Next

-----------------------------------------------------------------------------
(***************************************************************************)
(* A server that holds tasks can be found.                                 *)
(***************************************************************************)

LEMMA PushAnnounced ==
  ASSUME ConstantsAssumption, TypeOK, NonemptyAnnounced,
         NEW c \in Clients, NEW t \in Tasks, Push(c, t)
  PROVE  NonemptyAnnounced'
<1> DEFINE k == KeyOf[t]
           s == HostOf[k]
<1>1. /\ k \in Keys /\ s \in Servers /\ k # NoUuid
      /\ \A r \in Servers \ {s} : uuiddata'[r] = uuiddata[r]
  BY PushAppends, ConstantsAssumption DEF ConstantsAssumption, Names
<1>2. /\ pc[c] = "idle" /\ UNCHANGED <<meta, up>> /\ silent \subseteq silent'
      /\ firstUuid' = [firstUuid EXCEPT ![s] = IF uuiddata[s] = <<>> THEN k ELSE @]
  BY DEF Push, PushHandler, metaVars, faultVars
<1>3. \A d \in Clients : pc[d] = "addnode" => pc'[d] = "addnode" /\ arg'[d] = arg[d]
  BY <1>2 DEF Push, TypeOK
<1>4. \A j : Announced(j) => Announced(j)'
  BY <1>2, <1>3 DEF Announced
<1>5. uuiddata[s] = <<>> /\ k \notin silent' => Announced(k)'
  <2>1. uuiddata[s] = <<>> /\ k \notin silent' => pc'[c] = "addnode" /\ arg'[c] = k
    BY DEF Push, TypeOK
  <2>2. QED
    BY <2>1 DEF Announced
<1>6. ASSUME NEW r \in Servers, uuiddata'[r] # <<>>
      PROVE  /\ firstUuid'[r] # NoUuid
             /\ up'[MetaHost] /\ firstUuid'[r] \notin silent' => Announced(firstUuid[r])'
  <2>1. CASE r = s /\ uuiddata[s] = <<>>
    <3>1. firstUuid'[r] = k
      BY <1>2, <2>1 DEF TypeOK
    <3>2. QED
      BY <1>1, <1>5, <2>1, <3>1 DEF Announced
  <2>2. CASE ~(r = s /\ uuiddata[s] = <<>>)
    <3>1. firstUuid'[r] = firstUuid[r] /\ uuiddata[r] # <<>>
      BY <1>1, <1>2, <1>6, <2>2 DEF TypeOK
    <3>2. /\ firstUuid[r] # NoUuid
          /\ up[MetaHost] /\ firstUuid[r] \notin silent => Announced(firstUuid[r])
      BY <3>1 DEF NonemptyAnnounced
    <3>3. QED
      BY <1>2, <1>3, <3>1, <3>2 DEF Announced
  <2>3. QED
    BY <2>1, <2>2
<1>7. QED
  BY <1>6 DEF NonemptyAnnounced

LEMMA PopAnnounced ==
  ASSUME TypeOK, NonemptyAnnounced, NEW c \in Clients, NEW stage, NEW s \in Servers,
         PopAt(c, stage, s), pc[c] # "addnode"
  PROVE  NonemptyAnnounced'
<1>1. UNCHANGED <<meta, up, silent>>
  BY DEF PopAt, metaVars
<1>2. \A d \in Clients : pc[d] = "addnode" => pc'[d] = "addnode" /\ arg'[d] = arg[d]
  BY DEF PopAt, Go, TypeOK
<1>3. \A r \in Servers :
        uuiddata'[r] # <<>> => uuiddata[r] # <<>> /\ firstUuid'[r] = firstUuid[r]
  <2>1. ASSUME NEW r \in Servers, uuiddata'[r] # <<>>
        PROVE  uuiddata[r] # <<>> /\ firstUuid'[r] = firstUuid[r]
    <3>1. CASE r = s
      <4>1. uuiddata[s] # <<>>
        BY <2>1, <3>1 DEF PopAt, PopHandler, TypeOK
      <4>2. QED
        BY <3>1, <4>1 DEF PopAt, PopHandler
    <3>2. CASE r # s
      BY <2>1, <3>2 DEF PopAt, PopHandler, TypeOK
    <3>3. QED
      BY <3>1, <3>2
  <2>2. QED
    BY <2>1
<1>4. QED
  BY <1>1, <1>2, <1>3 DEF NonemptyAnnounced, Announced

\* An ADD_NODE moves a name from the client to the list; nothing else is added.
LEMMA AddNodeAnnounced ==
  ASSUME TypeOK, NonemptyAnnounced, NEW c \in Clients, AddNode(c)
  PROVE  NonemptyAnnounced'
<1>1. UNCHANGED <<uuiddata, firstUuid, up, silent>>
  BY DEF AddNode, serverVars, faultVars
<1>2. up[MetaHost] => \A j : Announced(j) => Announced(j)'
  <2>1. ASSUME up[MetaHost], NEW j, NEW e \in meta, e.name = j
        PROVE  Announced(j)'
    BY <2>1 DEF AddNode, AddNodeHandler, Announced
  <2>2. ASSUME up[MetaHost], NEW j, NEW d \in Clients, pc[d] = "addnode", arg[d] = j
        PROVE  Announced(j)'
    <3>1. CASE d = c
      <4>1. [name |-> j, no |-> added + 1] \in meta'
        BY <2>2, <3>1 DEF AddNode, AddNodeHandler
      <4>2. QED
        BY <4>1 DEF Announced
    <3>2. CASE d # c
      BY <2>2, <3>2 DEF AddNode, Go, Announced, TypeOK
    <3>3. QED
      BY <3>1, <3>2
  <2>3. QED
    BY <2>1, <2>2 DEF Announced
<1>3. ASSUME NEW r \in Servers, uuiddata'[r] # <<>>
      PROVE  /\ firstUuid'[r] # NoUuid
             /\ up'[MetaHost] /\ firstUuid'[r] \notin silent' => Announced(firstUuid[r])'
  <2>1. /\ firstUuid[r] # NoUuid
        /\ up[MetaHost] /\ firstUuid[r] \notin silent => Announced(firstUuid[r])
    BY <1>1, <1>3 DEF NonemptyAnnounced
  <2>2. firstUuid'[r] = firstUuid[r]
    BY <1>1
  <2>3. up[MetaHost] /\ firstUuid[r] \notin silent => Announced(firstUuid[r])'
    <3>1. ASSUME NEW j, j = firstUuid[r], up[MetaHost], j \notin silent
          PROVE  Announced(j)'
      BY <1>2, <2>1, <3>1
    <3>2. QED
      BY <2>2, <3>1 DEF Announced
  <2>4. QED
    BY <1>1, <2>1, <2>2, <2>3
<1>4. QED
  BY <1>3 DEF NonemptyAnnounced

\* An ADD_NODE that is not sent makes its name a silent one.
LEMMA AddNodeUnsentAnnounced ==
  ASSUME TypeOK, NonemptyAnnounced, NEW c \in Clients, AddNodeUnsent(c)
  PROVE  NonemptyAnnounced'
<1>1. /\ UNCHANGED <<uuiddata, firstUuid, up, meta>>
      /\ silent' = silent \union {arg[c]}
  BY DEF AddNodeUnsent, serverVars, metaVars
<1>2. \A d \in Clients \ {c} : pc'[d] = pc[d] /\ arg'[d] = arg[d]
  BY DEF AddNodeUnsent, Go, TypeOK
<1>3. QED
  BY <1>1, <1>2 DEF NonemptyAnnounced, Announced

\* A retirement takes only entries of its own name, which is no server's firstUuid.
LEMMA FetchOrRetireAnnounced ==
  ASSUME TypeOK, RetirementSound, NonemptyAnnounced, NEW c \in Clients,
         MetaStep(c), ~AddNode(c), ~AddNodeUnsent(c)
  PROVE  NonemptyAnnounced'
<1>1. /\ UNCHANGED <<uuiddata, firstUuid, silent>>
      /\ pc[c] \in {"fetch", "retire", "pop2", "pop3"}
      /\ up'[MetaHost] => up[MetaHost]
  BY DEF MetaStep, Fetch, FetchKills, ShortAnswer, Retire, RetireLast, RetireRefused, PopUnsent,
         serverVars, faultVars, TypeOK
<1>2. \A d \in Clients : pc[d] = "addnode" => pc'[d] = "addnode" /\ arg'[d] = arg[d]
  BY <1>1 DEF MetaStep, Fetch, FetchKills, ShortAnswer, Retire, RetireLast, RetireRefused,
         PopUnsent, Go, TypeOK
<1>3. \A e \in meta : e \in meta' \/ (pc[c] = "retire" /\ e.name = arg[c])
  BY DEF MetaStep, Fetch, FetchKills, ShortAnswer, Retire, RetireLast, RetireRefused,
         PopUnsent, metaVars, Without
<1>4. pc[c] = "retire" => \A r \in Servers : firstUuid[r] # arg[c]
  BY DEF RetirementSound
<1>5. QED
  BY <1>1, <1>2, <1>3, <1>4 DEF NonemptyAnnounced, Announced

LEMMA StepAnnounced ==
  ASSUME ConstantsAssumption, TypeOK, RetirementSound, NonemptyAnnounced, [Next]_vars
  PROVE  NonemptyAnnounced'
<1>1. ASSUME NEW c \in Clients, NEW t \in Tasks, Push(c, t) \/ PushRefused(c, t)
      PROVE  NonemptyAnnounced'
  <2>1. CASE Push(c, t)
    BY <2>1, PushAnnounced
  <2>2. CASE PushRefused(c, t)
    BY <2>2 DEF PushRefused, NonemptyAnnounced, Announced, serverVars, metaVars, clientVars
  <2>3. QED
    BY <1>1, <2>1, <2>2
<1>2. ASSUME NEW c \in Clients, NEW s \in Servers, Pop(c, s)
      PROVE  NonemptyAnnounced'
  BY <1>2, PopAnnounced DEF Pop
<1>3. ASSUME NEW c \in Clients, Step(c)
      PROVE  NonemptyAnnounced'
  <2>1. dest[c] \in Servers /\ FallbackHost \in Servers
    BY ConstantsAssumption DEF TypeOK, ConstantsAssumption
  <2>2. CASE PopFallback(c) \/ PopNext(c)
    BY <2>1, <2>2, PopAnnounced DEF PopFallback, PopNext
  <2>3. CASE AddNode(c)
    BY <2>3, AddNodeAnnounced
  <2>4. CASE AddNodeUnsent(c)
    BY <2>4, AddNodeUnsentAnnounced
  <2>5. CASE MetaStep(c) /\ ~AddNode(c) /\ ~AddNodeUnsent(c)
    BY <2>5, FetchOrRetireAnnounced
  <2>6. QED
    BY <1>3, <2>2, <2>3, <2>4, <2>5 DEF Step, MetaStep
<1>4. CASE UNCHANGED vars
  BY <1>4 DEF NonemptyAnnounced, Announced, vars, serverVars, metaVars, clientVars, faultVars
<1>5. QED
  BY <1>1, <1>2, <1>3, <1>4 DEF Next

-----------------------------------------------------------------------------
(***************************************************************************)
(* The theorems.                                                           *)
(***************************************************************************)

LEMMA InitIInv ==
  ASSUME ConstantsAssumption, Init
  PROVE  IInv
<1>1. TypeOK
  BY InitType
<1>2. QueueHome /\ UuidHome /\ NonemptyAnnounced
  BY DEF Init, QueueHome, UuidHome, NonemptyAnnounced
<1>3. TaskInOnePlace
  <2>1. \A t \in Tasks : ~Queued(t)
    BY ConstantsAssumption DEF Init, Queued, QueuedAt, ConstantsAssumption, Names
  <2>2. QED
    BY <2>1 DEF Init, TaskInOnePlace
<1>4. RetirementSound
  BY DEF Init, RetirementSound
<1>5. QED
  BY <1>1, <1>2, <1>3, <1>4 DEF IInv

LEMMA StepIInv ==
  ASSUME ConstantsAssumption, KeysUnique, IInv, [Next]_vars
  PROVE  IInv'
<1>1. TypeOK'
  BY StepType DEF IInv
<1>2. QueueHome' /\ UuidHome' /\ TaskInOnePlace'
  BY StepPlaces DEF IInv, Places
<1>3. RetirementSound'
  BY StepRetirement DEF IInv, Places
<1>4. NonemptyAnnounced'
  BY StepAnnounced DEF IInv
<1>5. QED
  BY <1>1, <1>2, <1>3, <1>4 DEF IInv

\* IInv holds throughout when no two tasks share a key.
THEOREM Inductive ==
  ASSUME KeysUnique
  PROVE  Spec => []IInv
<1>1. Init => IInv
  BY ConstantsAssumption, InitIInv
<1>2. IInv /\ [Next]_vars => IInv'
  BY ConstantsAssumption, KeysUnique, StepIInv
<1>3. QED
  BY <1>1, <1>2, PTL DEF Spec

\* No interleaving of pushes and multi-request pops loses a task, keeps it in a queue
\* after it was returned, or returns it twice.
THEOREM EachTaskInOnePlace ==
  ASSUME KeysUnique
  PROVE  Spec => []TaskInOnePlace
<1>1. IInv => TaskInOnePlace
  BY DEF IInv
<1>2. QED
  BY KeysUnique, <1>1, Inductive, PTL

\* A server with tasks keeps its entry in the metadata queue, or the ADD_NODE that will
\* make it is on its way.
THEOREM NonemptyServersAnnounced ==
  ASSUME KeysUnique
  PROVE  Spec => []NonemptyAnnounced
<1>1. IInv => NonemptyAnnounced
  BY DEF IInv
<1>2. QED
  BY KeysUnique, <1>1, Inductive, PTL

\* FETCH_NODE removes only keys of drained servers, each on behalf of one client.
THEOREM OnlyDrainedRetired ==
  ASSUME KeysUnique
  PROVE  Spec => []RetirementSound
<1>1. IInv => RetirementSound
  BY DEF IInv
<1>2. QED
  BY KeysUnique, <1>1, Inductive, PTL
=============================================================================
