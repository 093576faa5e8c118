------------------------- MODULE ZHTQueueImplements -------------------------
(***************************************************************************)
(* Proof that ZHTQueue implements TaskPool, for any constants in which no  *)
(* two tasks share a key.  A push that a server handles maps to Submit,    *)
(* one that reaches none to Refuse, a pop that finds a task to Take, the   *)
(* death of the metadata server to Die, and every other request to a       *)
(* stutter, answers that are lost included.                                *)
(***************************************************************************)
EXTENDS ZHTQueueProofs, SequenceTheorems

\* The values of the keys queued at s, in order: the queue TaskPool sees.
Values(s) == [i \in DOMAIN uuiddata[s] |-> pmap[s][uuiddata[s][i]]]

Queues == [s \in Servers |-> Values(s)]

Homes == [t \in Tasks |-> HostOf[KeyOf[t]]]

LEMMA ValuesType ==
  ASSUME TypeOK, QueueHome, NEW s \in Servers
  PROVE  Values(s) \in Seq(Tasks) /\ Len(Values(s)) = Len(uuiddata[s])
<1>1. uuiddata[s] \in Seq(Keys)
  BY DEF TypeOK
<1>2. \A i \in DOMAIN uuiddata[s] : pmap[s][uuiddata[s][i]] \in Tasks
  BY DEF QueueHome, TypeOK
<1>3. Len(uuiddata[s]) \in Nat /\ DOMAIN uuiddata[s] = 1..Len(uuiddata[s])
  BY <1>1
<1>4. Values(s) \in [1..Len(uuiddata[s]) -> Tasks]
  BY <1>2, <1>3 DEF Values
<1>5. QED
  BY <1>3, <1>4

\* A task not yet pushed waits nowhere.
LEMMA FreshTask ==
  ASSUME ConstantsAssumption, IInv, NEW t \in Tasks \ pushed
  PROVE  Pool!Fresh(t)
<1>1. \A s \in Servers : \A i \in DOMAIN uuiddata[s] : Queues[s][i] # t
  BY DEF IInv, QueueHome, Queues, Values
<1>2. \A s \in Servers : DOMAIN Queues[s] = DOMAIN uuiddata[s]
  BY DEF Queues, Values
<1>3. delivered[t] = 0 /\ t \notin refused
  BY DEF IInv, TaskInOnePlace
<1>4. QED
  BY <1>1, <1>2, <1>3 DEF Pool!Fresh, Pool!Waiting, Queues, Values

LEMMA AppendExtends ==
  ASSUME NEW S, NEW q \in Seq(S), NEW e \in S
  PROVE  Append(q, e) = [i \in 1..(Len(q) + 1) |-> IF i = Len(q) + 1 THEN e ELSE q[i]]
<1>1. /\ Append(q, e) \in Seq(S)
      /\ Len(Append(q, e)) = Len(q) + 1
      /\ \A i \in 1..Len(q) : Append(q, e)[i] = q[i]
      /\ Append(q, e)[Len(q) + 1] = e
  BY AppendProperties
<1>2. Append(q, e) \in [1..(Len(q) + 1) -> S] /\ Len(q) \in Nat
  BY <1>1, LenProperties
<1>3. \A i \in 1..(Len(q) + 1) : i = Len(q) + 1 \/ i \in 1..Len(q)
  BY <1>2
<1>4. \A i \in 1..(Len(q) + 1) :
        Append(q, e)[i] = IF i = Len(q) + 1 THEN e ELSE q[i]
  BY <1>1, <1>3
<1>5. QED
  BY <1>2, <1>4

LEMMA PushSubmits ==
  ASSUME ConstantsAssumption, KeysUnique, IInv,
         NEW c \in Clients, NEW t \in Tasks, Push(c, t)
  PROVE  Pool!Submit(t)
<1> DEFINE k == KeyOf[t]
           s == HostOf[k]
           n == Len(uuiddata[s]) + 1
<1>1. /\ k \in Keys /\ s \in Servers
      /\ DOMAIN uuiddata'[s] = DOMAIN uuiddata[s] \union {n}
      /\ n \notin DOMAIN uuiddata[s]
      /\ \A i \in DOMAIN uuiddata[s] : uuiddata'[s][i] = uuiddata[s][i]
      /\ uuiddata'[s][n] = k
      /\ \A r \in Servers \ {s} : uuiddata'[r] = uuiddata[r]
      /\ pmap'[s][k] = t
      /\ \A r \in Servers, j \in Keys : r # s \/ j # k => pmap'[r][j] = pmap[r][j]
  BY PushAppends DEF IInv
<1>2. t \notin pushed /\ up[s] /\ UNCHANGED <<up, refused, delivered>>
  BY DEF Push
<1>3. \A r \in Servers : \A i \in DOMAIN uuiddata[r] : uuiddata[r][i] # k
  BY <1>2, FreshKey DEF IInv
<1>4. \A r \in Servers : \A i \in DOMAIN uuiddata[r] : uuiddata[r][i] \in Keys
  BY DEF IInv, TypeOK
<1>5. Values(s) \in Seq(Tasks) /\ Len(Values(s)) + 1 = n
  BY <1>1, ValuesType DEF IInv
<1>6. Values(s)' = Append(Values(s), t)
  <2>1. Append(Values(s), t) = [i \in DOMAIN uuiddata[s] \union {n} |->
                                  IF i = n THEN t ELSE Values(s)[i]]
    <3>1. DOMAIN Values(s) = DOMAIN uuiddata[s] /\ DOMAIN Values(s) = 1..Len(Values(s))
      <4>1. DOMAIN Values(s) = DOMAIN uuiddata[s]
        BY DEF Values
      <4>2. DOMAIN Values(s) = 1..Len(Values(s))
        BY <1>5, LenProperties
      <4>3. QED
        BY <4>1, <4>2
    <3>2. Append(Values(s), t) = [i \in 1..(Len(Values(s)) + 1) |->
                                    IF i = Len(Values(s)) + 1 THEN t ELSE Values(s)[i]]
      BY <1>5, AppendExtends
    <3>3. DOMAIN uuiddata[s] \union {n} = 1..(Len(Values(s)) + 1)
      BY <1>5, <3>1
    <3>4. QED
      BY <1>5, <3>2, <3>3
  <2>2. Values(s)' = [i \in DOMAIN uuiddata[s] \union {n} |-> pmap'[s][uuiddata'[s][i]]]
    BY <1>1 DEF Values
  <2>3. \A i \in DOMAIN uuiddata[s] : pmap'[s][uuiddata'[s][i]] = Values(s)[i]
    <3>1. SUFFICES ASSUME NEW i \in DOMAIN uuiddata[s]
                   PROVE  pmap'[s][uuiddata'[s][i]] = Values(s)[i]
      OBVIOUS
    <3>2. uuiddata'[s][i] = uuiddata[s][i] /\ uuiddata[s][i] \in Keys /\ uuiddata[s][i] # k
      BY <1>1, <1>3, <1>4
    <3>3. pmap'[s][uuiddata[s][i]] = pmap[s][uuiddata[s][i]]
      BY <1>1, <3>2
    <3>4. Values(s)[i] = pmap[s][uuiddata[s][i]]
      BY DEF Values
    <3>5. QED
      BY <3>2, <3>3, <3>4
  <2>4. \A i \in DOMAIN uuiddata[s] \union {n} :
          pmap'[s][uuiddata'[s][i]] = IF i = n THEN t ELSE Values(s)[i]
    BY <1>1, <2>3
  <2>5. [i \in DOMAIN uuiddata[s] \union {n} |-> pmap'[s][uuiddata'[s][i]]]
          = [i \in DOMAIN uuiddata[s] \union {n} |-> IF i = n THEN t ELSE Values(s)[i]]
    BY <2>4
  <2>6. QED
    BY <2>1, <2>2, <2>5
<1>7. \A r \in Servers \ {s} : Values(r)' = Values(r)
  BY <1>1, <1>4 DEF Values
<1>8. Queues' = [Queues EXCEPT ![Homes[t]] = Append(@, t)]
  BY <1>1, <1>6, <1>7 DEF Queues, Homes
<1>9. Pool!Fresh(t)
  BY <1>2, FreshTask
<1>10. QED
  BY <1>2, <1>8, <1>9 DEF Pool!Submit, Queues, Values, Homes

LEMMA PushRefusedRefuses ==
  ASSUME ConstantsAssumption, KeysUnique, IInv,
         NEW c \in Clients, NEW t \in Tasks, PushRefused(c, t)
  PROVE  Pool!Refuse(t)
<1>1. Pool!Fresh(t)
  BY FreshTask DEF PushRefused
<1>2. UNCHANGED <<uuiddata, pmap, delivered, up>>
  BY DEF PushRefused, serverVars
<1>3. QED
  BY <1>1, <1>2 DEF PushRefused, Pool!Refuse

LEMMA TailIsShift ==
  ASSUME NEW S, NEW q \in Seq(S), q # <<>>
  PROVE  Tail(q) = [i \in 1..(Len(q) - 1) |-> q[i + 1]]
<1>1. Tail(q) \in Seq(S) /\ Len(Tail(q)) = Len(q) - 1
  BY HeadTailProperties
<1>2. Tail(q) \in [1..(Len(q) - 1) -> S]
  BY <1>1, LenProperties
<1>3. \A i \in 1..(Len(q) - 1) : Tail(q)[i] = q[i + 1]
  BY <1>1, HeadTailProperties
<1>4. QED
  BY <1>2, <1>3

\* A pop that finds a task takes the oldest of its server.
LEMMA PopTakes ==
  ASSUME ConstantsAssumption, KeysUnique, IInv,
         NEW c \in Clients, NEW stage, NEW s \in Servers,
         PopAt(c, stage, s), up[s], uuiddata[s] # <<>>
  PROVE  Pool!Take(s)
<1>1. /\ DOMAIN uuiddata'[s] = {i \in Nat : i + 1 \in DOMAIN uuiddata[s] /\ i # 0}
      /\ \A i \in DOMAIN uuiddata'[s] :
           i \in Nat /\ i + 1 \in DOMAIN uuiddata[s] /\ uuiddata'[s][i] = uuiddata[s][i + 1]
      /\ \A r \in Servers \ {s} : uuiddata'[r] = uuiddata[r]
      /\ UNCHANGED pmap
  BY PopShifts DEF IInv
<1>2. PopValue(s) \in Tasks /\ PopValue(s) = Values(s)[1]
  <2>1. PopValue(s) \in Tasks
    BY PopAnswer DEF IInv, TypeOK
  <2>2. 1 \in DOMAIN uuiddata[s] /\ Head(uuiddata[s]) = uuiddata[s][1]
    BY DEF IInv, TypeOK
  <2>3. QED
    BY <2>1, <2>2 DEF PopValue, Values
<1>3. Values(s) \in Seq(Tasks) /\ Len(Values(s)) = Len(uuiddata[s]) /\ Values(s) # <<>>
  <2>1. Len(uuiddata[s]) # 0
    BY DEF IInv, TypeOK
  <2>2. QED
    BY <2>1, ValuesType DEF IInv
<1>4. Head(Values(s)) = PopValue(s)
  BY <1>2, <1>3
<1>5. Values(s)' = Tail(Values(s))
  <2>1. /\ DOMAIN Values(s) = DOMAIN uuiddata[s]
        /\ DOMAIN Values(s) = 1..Len(Values(s))
        /\ Len(Values(s)) \in Nat
    BY <1>3 DEF Values
  <2>2. Tail(Values(s)) = [i \in 1..(Len(Values(s)) - 1) |-> Values(s)[i + 1]]
    BY <1>3, TailIsShift
  <2>3. DOMAIN uuiddata'[s] = 1..(Len(Values(s)) - 1)
    BY <1>1, <2>1
  <2>4. Values(s)' = [i \in 1..(Len(Values(s)) - 1) |-> pmap[s][uuiddata'[s][i]]]
    BY <1>1, <2>3 DEF Values
  <2>5. \A i \in 1..(Len(Values(s)) - 1) : pmap[s][uuiddata'[s][i]] = Values(s)[i + 1]
    BY <1>1, <2>3 DEF Values
  <2>6. QED
    BY <2>2, <2>4, <2>5
<1>6. \A r \in Servers \ {s} : Values(r)' = Values(r)
  BY <1>1 DEF Values
<1>7. Queues' = [Queues EXCEPT ![s] = Tail(@)]
  BY <1>5, <1>6 DEF Queues
<1>8. delivered' = [delivered EXCEPT ![Head(Queues[s])] = @ + 1]
  BY <1>2, <1>4 DEF PopAt, Queues
<1>9. Queues[s] # <<>>
  BY <1>3 DEF Queues
<1>10. UNCHANGED <<refused, up>>
  BY DEF PopAt
<1>11. QED
  BY <1>7, <1>8, <1>9, <1>10 DEF Pool!Take, Queues, Values

\* Any other pop changes nothing TaskPool sees.
LEMMA PopStutters ==
  ASSUME ConstantsAssumption, IInv,
         NEW c \in Clients, NEW stage, NEW s \in Servers,
         PopAt(c, stage, s), ~(up[s] /\ uuiddata[s] # <<>>)
  PROVE  UNCHANGED Pool!vars
<1>1. UNCHANGED <<uuiddata, pmap, historyVars, up>>
  BY PopFindsNothing DEF IInv, PopAt
<1>2. QED
  BY <1>1 DEF Pool!vars, historyVars

\* A request to the metadata queue is a stutter, or the server that keeps it dies.
LEMMA MetaStepDies ==
  ASSUME ConstantsAssumption, NEW c \in Clients, MetaStep(c)
  PROVE  Pool!Die(MetaHost) \/ UNCHANGED Pool!vars
<1>1. UNCHANGED <<uuiddata, pmap, refused, delivered>>
  BY DEF MetaStep, AddNode, AddNodeUnsent, PopUnsent, Fetch, FetchKills, ShortAnswer, Retire,
         RetireLast, RetireRefused, serverVars, historyVars
<1>2. UNCHANGED up \/ up' = [up EXCEPT ![MetaHost] = FALSE]
  BY DEF MetaStep, AddNode, AddNodeUnsent, PopUnsent, Fetch, FetchKills, ShortAnswer, Retire,
         RetireLast, RetireRefused
<1>3. QED
  BY <1>1, <1>2 DEF Pool!Die, Pool!vars

LEMMA StepImplements ==
  ASSUME ConstantsAssumption, KeysUnique, IInv, [Next]_vars
  PROVE  [Pool!Next]_(Pool!vars)
<1>1. ASSUME NEW c \in Clients, NEW t \in Tasks, Push(c, t) \/ PushRefused(c, t)
      PROVE  Pool!Next
  BY <1>1, PushSubmits, PushRefusedRefuses DEF Pool!Next
<1>2. ASSUME NEW c \in Clients, NEW stage, NEW s \in Servers, PopAt(c, stage, s)
      PROVE  [Pool!Next]_(Pool!vars)
  <2>1. CASE up[s] /\ uuiddata[s] # <<>>
    BY <1>2, <2>1, PopTakes DEF Pool!Next
  <2>2. CASE ~(up[s] /\ uuiddata[s] # <<>>)
    BY <1>2, <2>2, PopStutters
  <2>3. QED
    BY <2>1, <2>2
<1>3. ASSUME NEW c \in Clients, MetaStep(c)
      PROVE  [Pool!Next]_(Pool!vars)
  <2>1. MetaHost \in Servers
    BY ConstantsAssumption DEF ConstantsAssumption
  <2>2. QED
    BY <1>3, <2>1, MetaStepDies DEF Pool!Next
<1>4. ASSUME NEW c \in Clients, Step(c)
      PROVE  [Pool!Next]_(Pool!vars)
  <2>1. dest[c] \in Servers /\ FallbackHost \in Servers
    BY ConstantsAssumption DEF IInv, TypeOK, ConstantsAssumption
  <2>2. QED
    BY <1>2, <1>3, <1>4, <2>1 DEF Step, MetaStep, PopFallback, PopNext
<1>5. CASE UNCHANGED vars
  BY <1>5 DEF vars, serverVars, historyVars, Pool!vars
<1>6. QED
  BY <1>1, <1>2, <1>4, <1>5 DEF Next, Pop

LEMMA InitImplements ==
  ASSUME ConstantsAssumption, Init
  PROVE  Pool!Init
BY DEF Init, Pool!Init

\* Whatever second and third requests the clients' calls make, pushes and pops act as on
\* one first-in first-out queue per server that hands each task out once.
THEOREM QueueImplementsTaskPool ==
  ASSUME KeysUnique
  PROVE  Spec => ImplementsTaskPool
<1>1. Init => Pool!Init
  BY ConstantsAssumption, InitImplements
<1>2. IInv /\ [Next]_vars => [Pool!Next]_(Pool!vars)
  BY ConstantsAssumption, KeysUnique, StepImplements
<1>3. Spec => []IInv
  BY KeysUnique, Inductive
<1>4. QED
  BY <1>1, <1>2, <1>3, PTL DEF Spec, ImplementsTaskPool, Pool!Spec
=============================================================================
