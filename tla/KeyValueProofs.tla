--------------------------- MODULE KeyValueProofs ---------------------------
(***************************************************************************)
(* Proofs about the key-value calls, for any number of clients and keys,   *)
(* any values and leases: every variable keeps its type, a state-change    *)
(* callback is in line once until it is answered, and one that succeeds    *)
(* does so because the expected value has been there, although it is read  *)
(* with no lock.  The inductive invariant of the last says which values    *)
(* the history of matches has seen: those in the table, and the one the    *)
(* polling thread has a pointer to.  No callback waits longer than one     *)
(* turn of each client, since who has waited for turns is that many places *)
(* nearer to its own; and a swap of the value that was looked up succeeds, *)
(* since what a client was told is what the table still says.              *)
(***************************************************************************)
EXTENDS ZHTKeyValue, FiniteSetTheorems, TLAPS

PollerRecords ==
  [phase : {"none", "failed", "idle", "get", "read", "sleep"},
   client : Clients \union {Nobody}, held : Seq(Packs), lapsed : Nat,
   status : {"none", "-91", "-92"}]

AnswerRecords ==
  [to : Clients \union {Nobody}, status : {"none", "000", "-04", "-91", "-92"}]

ToldRecords == [key : Keys, val : Strings \union {Caret, Question}] \union {NoCall}

-----------------------------------------------------------------------------
(***************************************************************************)
(* Packages, requests and answers.                                         *)
(***************************************************************************)
LEMMA RequestFields ==
  ASSUME NEW c \in Clients, call[c] \in Requests \union {NoCall}, call[c] # NoCall
  PROVE  /\ call[c].op \in Ops /\ call[c].key \in Keys
         /\ call[c].val \in Strings /\ call[c].new \in Strings
         /\ call[c].lease \in Leases \union {1}
BY DEF Requests

\* "none" is the operation of no request.
LEMMA AskedIsRequest ==
  ASSUME NEW c \in Clients, call[c] \in Requests \union {NoCall}, call[c].op \in Ops
  PROVE  call[c] # NoCall
BY DEF Ops, NoCall

\* What the client sends is a package, and what the server parses is one.
LEMMA SentIsPack ==
  ASSUME NEW v \in Strings
  PROVE  /\ Sent(v) \in Packs
         /\ NewSent(v) \in Strings \union {Caret, Question}
BY DEF Sent, NewSent, Packs

LEMMA ParsedArePacks ==
  ASSUME NEW ps \in Seq(Packs)
  PROVE  Parsed(ps) \subseteq Packs
<1>1. CASE ps = <<>>
  BY <1>1, ZHTKeyValueAssumption DEF Parsed, Packs, ZHTKeyValueAssumption
<1>2. CASE ps # <<>>
  <2>1. \A i \in DOMAIN ps : ps[i] \in Packs
    OBVIOUS
  <2>2. \A i, j \in DOMAIN ps : [val |-> ps[i].val, null |-> ps[j].null] \in Packs
    BY <2>1 DEF Packs
  <2>3. QED
    BY <1>2, <2>2 DEF Parsed
<1>3. QED
  BY <1>1, <1>2

LEMMA TextIsText ==
  ASSUME NEW p \in Packs
  PROVE  Text(p) \in Strings \union {Caret, Question}
BY ZHTKeyValueAssumption DEF Text, Packs, ZHTKeyValueAssumption

\* No value a client expects is that of a package that did not parse.
LEMMA NothingExpected ==
  ASSUME NEW v \in Strings, NEW p \in Parsed(<<>>)
  PROVE  p.val # Sent(v).val
BY ZHTKeyValueAssumption DEF Sent, Parsed, ZHTKeyValueAssumption

-----------------------------------------------------------------------------
(***************************************************************************)
(* The types.                                                              *)
(***************************************************************************)
LEMMA ServesType ==
  ASSUME TypeOK, NEW c \in Clients, NEW status \in {"000", "-04", "-91", "-92"},
         Serves(c, status)
  PROVE  /\ call' \in [Clients -> Requests \union {NoCall}]
         /\ answer' \in AnswerRecords
         /\ queue' \in Seq(Clients)
         /\ poller' \in PollerRecords
         /\ wild' \in BOOLEAN
         /\ matched' \subseteq Clients
         /\ waited' \in [Clients -> Nat]
<1>1. InLine \subseteq Clients
  BY DEF TypeOK, InLine
<1>2. matched' \subseteq Clients
  BY <1>1 DEF Serves, TypeOK
<1>3. QED
  BY <1>2 DEF Serves, Answers, TypeOK, AnswerRecords, PollerRecords

LEMMA TellsType ==
  ASSUME TypeOK, NEW c \in Clients, NEW k \in Keys, NEW ps \in Seq(Packs), Tells(c, k, ps)
  PROVE  told' \in [Clients -> ToldRecords]
<1>1. ASSUME Len(ps) = 1
      PROVE  [key |-> k, val |-> Text(ps[1])] \in ToldRecords
  <2>1. ps[1] \in Packs
    BY <1>1
  <2>2. QED
    BY <2>1, TextIsText DEF ToldRecords
<1>2. NoCall \in ToldRecords /\ \A d \in Clients : told[d] \in ToldRecords
  BY DEF TypeOK, ToldRecords
<1>3. QED
  BY <1>1, <1>2 DEF Tells

LEMMA TellsNothingType ==
  ASSUME TypeOK, NEW k \in Keys, TellsNothing(k)
  PROVE  told' \in [Clients -> ToldRecords]
<1>1. NoCall \in ToldRecords /\ \A d \in Clients : told[d] \in ToldRecords
  BY DEF TypeOK, ToldRecords
<1>2. QED
  BY <1>1 DEF TellsNothing

\* Each request of the server thread's own keeps the table's type.
LEMMA PairsType ==
  ASSUME TypeOK, NEW k \in Keys, NEW p \in Packs,
         Store!Put(k, p) \/ Store!Extend(k, p) \/ Store!Drop(k)
  PROVE  pairs' \in [Keys -> Seq(Packs)]
<1>1. <<p>> \in Seq(Packs) /\ Append(pairs[k], p) \in Seq(Packs) /\ <<>> \in Seq(Packs)
  BY DEF TypeOK
<1>2. QED
  BY <1>1 DEF Store!Put, Store!Extend, Store!Drop, TypeOK

\* The server thread keeps the types.
LEMMA ServerType ==
  ASSUME TypeOK, NEW c \in Clients, Server(c)
  PROVE  TypeOK'
<1>1. call[c].op \in Ops
  BY DEF Server, Lookup, Insert, AppendTo, Remove, CompareSwap, StateChangeCallback, Asks, Ops
<1>2. call[c] # NoCall /\ call[c] \in Requests
  BY <1>1, AskedIsRequest DEF TypeOK
<1>3. call[c].key \in Keys /\ call[c].val \in Strings /\ call[c].new \in Strings
  BY <1>2, RequestFields
<1>4. /\ pairs[call[c].key] \in Seq(Packs)
      /\ Sent(call[c].val) \in Packs
      /\ NewSent(call[c].new) \in Strings \union {Caret, Question}
  BY <1>3, SentIsPack DEF TypeOK
<1>5. CASE Lookup(c)
  <2>1. \E status \in {"000", "-92"} : Serves(c, status)
    BY <1>5 DEF Lookup
  <2>2. told' \in [Clients -> ToldRecords] /\ pairs' \in [Keys -> Seq(Packs)]
    BY <1>3, <1>4, <1>5, TellsType DEF Lookup, TypeOK
  <2>3. QED
    BY <2>1, <2>2, ServesType DEF TypeOK, ToldRecords, AnswerRecords, PollerRecords
<1>6. CASE Insert(c)
  <2>1. told' \in [Clients -> ToldRecords] /\ pairs' \in [Keys -> Seq(Packs)]
    BY <1>3, <1>4, <1>6, TellsNothingType, PairsType DEF Insert
  <2>2. QED
    BY <1>6, <2>1, ServesType DEF Insert, TypeOK, ToldRecords, AnswerRecords, PollerRecords
<1>7. CASE AppendTo(c)
  <2>1. told' \in [Clients -> ToldRecords] /\ pairs' \in [Keys -> Seq(Packs)]
    BY <1>3, <1>4, <1>7, TellsNothingType, PairsType DEF AppendTo
  <2>2. QED
    BY <1>7, <2>1, ServesType DEF AppendTo, TypeOK, ToldRecords, AnswerRecords, PollerRecords
<1>8. CASE Remove(c)
  <2>1. \E status \in {"000", "-92"} : Serves(c, status)
    BY <1>8 DEF Remove
  <2>2. told' \in [Clients -> ToldRecords] /\ pairs' \in [Keys -> Seq(Packs)]
    BY <1>3, <1>4, <1>8, TellsNothingType, PairsType DEF Remove
  <2>3. QED
    BY <2>1, <2>2, ServesType DEF TypeOK, ToldRecords, AnswerRecords, PollerRecords
<1>9. CASE CompareSwap(c)
  <2>1. PICK p \in Parsed(pairs[call[c].key]) :
          \/ /\ Store!Put(call[c].key, [p EXCEPT !.val = NewSent(call[c].new)])
             /\ Serves(c, "000")
          \/ UNCHANGED pairs /\ Serves(c, "-04")
    BY <1>9 DEF CompareSwap, Swap
  <2>2. [p EXCEPT !.val = NewSent(call[c].new)] \in Packs
    BY <1>4, <2>1, ParsedArePacks DEF Packs
  <2>3. pairs' \in [Keys -> Seq(Packs)]
    BY <1>3, <2>1, <2>2, PairsType DEF TypeOK
  <2>4. told' \in [Clients -> ToldRecords]
    BY <1>3, <1>9, <2>3, TellsType DEF CompareSwap
  <2>5. \E status \in {"000", "-04"} : Serves(c, status)
    BY <2>1
  <2>6. QED
    BY <2>3, <2>4, <2>5, ServesType DEF TypeOK, ToldRecords, AnswerRecords, PollerRecords
<1>10. CASE StateChangeCallback(c)
  <2>1. queue' \in Seq(Clients)
    BY <1>10 DEF StateChangeCallback, TypeOK
  <2>2. poller' \in PollerRecords
    BY <1>10 DEF StateChangeCallback, TypeOK, PollerRecords
  <2>3. matched' \subseteq Clients
    BY <1>10 DEF StateChangeCallback, TypeOK
  <2>4. answer' \in AnswerRecords
    BY <1>10 DEF StateChangeCallback, NoAnswer, AnswerRecords
  <2>5. pairs' = pairs /\ call' = call /\ wild' = wild /\ told' = told /\ waited' = waited
    BY <1>10 DEF StateChangeCallback
  <2>6. QED
    BY <2>1, <2>2, <2>3, <2>4, <2>5 DEF TypeOK, AnswerRecords, PollerRecords
<1>11. QED
  BY <1>5, <1>6, <1>7, <1>8, <1>9, <1>10 DEF Server

-----------------------------------------------------------------------------
(***************************************************************************)
(* The line of callbacks.                                                  *)
(***************************************************************************)
LEMMA NobodyAsksNothing ==
  ASSUME TypeOK, poller.client # Nobody
  PROVE  poller.client \in Clients
BY DEF TypeOK

\* Who is in line is in the queue or polled for.
LEMMA InLineMembers ==
  ASSUME TypeOK
  PROVE  /\ InLine \subseteq Clients
         /\ \A c \in Clients :
              c \in InLine <=> c = poller.client \/ \E i \in DOMAIN queue : queue[i] = c
BY ZHTKeyValueAssumption DEF InLine, TypeOK, ZHTKeyValueAssumption

\* A step that leaves the queue and the poller alone, and answers at most one client that
\* asked for something else, keeps the line.
LEMMA ServesLine ==
  ASSUME TypeOK, InLineOnce, NEW c \in Clients, NEW status,
         call[c].op # "state_change_callback", Serves(c, status)
  PROVE  InLineOnce' /\ InLine' = InLine /\ c \notin InLine
<1>1. InLine' = InLine
  BY DEF Serves, InLine
<1>2. c \notin InLine
  BY DEF InLineOnce
<1>3. \A d \in InLine : call'[d] = call[d]
  BY <1>2, InLineMembers DEF Serves, Answers, TypeOK
<1>4. QED
  BY <1>1, <1>2, <1>3 DEF Serves, InLineOnce

LEMMA ServerLine ==
  ASSUME TypeOK, InLineOnce, NEW c \in Clients, Server(c)
  PROVE  InLineOnce'
<1>1. CASE StateChangeCallback(c)
  <2>1. call' = call /\ queue' = Append(queue, c) /\ queue \in Seq(Clients) /\ c \notin InLine
    BY <1>1 DEF StateChangeCallback, TypeOK
  <2>2. /\ poller'.client = poller.client
        /\ \/ poller'.phase = poller.phase
           \/ poller.phase = "none" /\ poller'.phase \in {"idle", "failed"}
    BY <1>1 DEF StateChangeCallback, TypeOK
  <2>3. /\ DOMAIN queue' = DOMAIN queue \union {Len(queue) + 1}
        /\ \A i \in DOMAIN queue : queue'[i] = queue[i] /\ i # Len(queue) + 1
        /\ queue'[Len(queue) + 1] = c
    BY <2>1
  <2>4. c # poller.client /\ \A i \in DOMAIN queue : queue[i] # c
    BY <2>1, InLineMembers
  <2>5. InLine' = InLine \union {c}
    BY <2>2, <2>3 DEF InLine
  <2>6. call[c] # NoCall /\ call[c].op = "state_change_callback"
    BY <1>1, AskedIsRequest DEF StateChangeCallback, Asks, TypeOK, Ops
  <2>7. \A d \in InLine' : call'[d] # NoCall /\ call'[d].op = "state_change_callback"
    BY <2>1, <2>5, <2>6 DEF InLineOnce
  <2>8. \A i, j \in DOMAIN queue' : queue'[i] = queue'[j] => i = j
    BY <2>3, <2>4 DEF InLineOnce
  <2>9. \A i \in DOMAIN queue' : queue'[i] # poller'.client
    BY <2>2, <2>3, <2>4 DEF InLineOnce
  <2>10. QED
    BY <2>2, <2>7, <2>8, <2>9 DEF InLineOnce
<1>2. CASE ~StateChangeCallback(c)
  <2>1. \E status : call[c].op # "state_change_callback" /\ Serves(c, status)
    BY <1>2 DEF Server, Lookup, Insert, AppendTo, Remove, CompareSwap, Swap, Asks
  <2>2. QED
    BY <2>1, ServesLine
<1>3. QED
  BY <1>1, <1>2

\* The polling thread's client waits, and its request has a key.
LEMMA PolledFor ==
  ASSUME TypeOK, InLineOnce, poller.phase \in {"get", "read", "sleep"}
  PROVE  /\ poller.client \in Clients /\ poller.client \in InLine
         /\ call[poller.client].key \in Keys /\ call[poller.client].val \in Strings
         /\ pairs[call[poller.client].key] \in Seq(Packs)
<1>1. poller.client \in Clients
  BY NobodyAsksNothing DEF InLineOnce
<1>2. poller.client \in InLine
  BY <1>1, InLineMembers
<1>3. call[poller.client] \in Requests \union {NoCall} /\ call[poller.client] # NoCall
  BY <1>1, <1>2 DEF InLineOnce, TypeOK
<1>4. QED
  BY <1>1, <1>2, <1>3, RequestFields DEF TypeOK

LEMMA TakeLine ==
  ASSUME TypeOK, InLineOnce, Take
  PROVE  TypeOK' /\ InLineOnce' /\ InLine' = InLine
<1>1. /\ queue \in Seq(Clients) /\ queue # <<>> /\ queue' = Tail(queue)
      /\ poller' = [phase |-> "get", client |-> Head(queue), held |-> <<>>, lapsed |-> 0,
                    status |-> "none"]
      /\ UNCHANGED <<pairs, call, wild, history>> /\ answer' = NoAnswer
  BY DEF Take, TakeFirst, Idle, TypeOK
<1>2. /\ Head(queue) \in Clients /\ Head(queue) = queue[1] /\ 1 \in DOMAIN queue
      /\ queue' \in Seq(Clients)
      /\ \A i \in DOMAIN queue' : i + 1 \in DOMAIN queue /\ queue'[i] = queue[i + 1] /\ i \in Nat \ {0}
      /\ \A i \in DOMAIN queue : i = 1 \/ (i - 1 \in DOMAIN queue' /\ queue'[i - 1] = queue[i])
  BY <1>1
<1>3. poller.client = Nobody
  BY DEF Take, InLineOnce
<1>4. Head(queue) # Nobody
  BY <1>2, ZHTKeyValueAssumption DEF ZHTKeyValueAssumption
<1>5. InLine' = InLine
  <2>1. /\ InLine = {queue[i] : i \in DOMAIN queue}
        /\ InLine' = {queue'[i] : i \in DOMAIN queue'} \union {Head(queue)}
    BY <1>1, <1>3, <1>4 DEF InLine
  <2>2. \A x : x \in InLine' => x \in InLine
    BY <1>2, <2>1
  <2>3. \A x : x \in InLine => x \in InLine'
    BY <1>2, <2>1
  <2>4. QED
    BY <2>2, <2>3
<1>6. poller' \in PollerRecords
  BY <1>1, <1>2 DEF PollerRecords
<1>7. TypeOK'
  BY <1>1, <1>2, <1>6 DEF TypeOK, PollerRecords, NoAnswer, history
<1>8. \A i, j \in DOMAIN queue' : queue'[i] = queue'[j] => i = j
  <2>1. SUFFICES ASSUME NEW i \in DOMAIN queue', NEW j \in DOMAIN queue', queue'[i] = queue'[j]
                 PROVE  i = j
    OBVIOUS
  <2>2. i + 1 = j + 1
    BY <1>2, <2>1 DEF InLineOnce
  <2>3. QED
    BY <1>2, <2>2
<1>9. \A i \in DOMAIN queue' : queue'[i] # Head(queue)
  <2>1. SUFFICES ASSUME NEW i \in DOMAIN queue', queue'[i] = Head(queue)
                 PROVE  FALSE
    OBVIOUS
  <2>2. i + 1 = 1
    BY <1>2, <2>1 DEF InLineOnce
  <2>3. QED
    BY <1>2, <2>2
<1>10. \A d \in InLine' : call'[d] # NoCall /\ call'[d].op = "state_change_callback"
  BY <1>1, <1>5 DEF InLineOnce
<1>11. QED
  BY <1>1, <1>4, <1>5, <1>7, <1>8, <1>9, <1>10 DEF InLineOnce

LEMMA GetLine ==
  ASSUME TypeOK, InLineOnce, Get
  PROVE  TypeOK' /\ InLineOnce' /\ InLine' = InLine
<1>1. pairs[call[poller.client].key] \in Seq(Packs)
  BY PolledFor DEF Get
<1>2. /\ poller' \in PollerRecords
      /\ poller'.client = poller.client
      /\ poller'.phase \in {"read", "sleep"}
  BY <1>1 DEF Get, TypeOK, PollerRecords
<1>3. UNCHANGED <<pairs, queue, call, wild, told, matched, waited>> /\ answer' = NoAnswer
  BY DEF Get, serverVars, history
<1>4. TypeOK'
  BY <1>2, <1>3 DEF TypeOK, PollerRecords, NoAnswer
<1>5. InLine' = InLine
  BY <1>2, <1>3 DEF InLine
<1>6. QED
  BY <1>2, <1>3, <1>4, <1>5 DEF InLineOnce, Get

\* A client that is answered leaves the line, and the rest stays.
LEMMA LeavesLine ==
  ASSUME TypeOK, InLineOnce, NEW status \in {"000", "-91", "-92"},
         NEW waits \in [Clients -> Nat], poller.client \in Clients,
         Leaves(poller.client, status, waits), UNCHANGED <<serverVars, told>>, wild' \in BOOLEAN
  PROVE  TypeOK' /\ InLineOnce' /\ InLine' = InLine \ {poller.client}
<1>1. poller' = Idle /\ queue' = queue /\ pairs' = pairs /\ told' = told
  BY DEF Leaves, serverVars
<1>2. /\ call' \in [Clients -> Requests \union {NoCall}]
      /\ \A d \in Clients \ {poller.client} : call'[d] = call[d]
      /\ answer' \in AnswerRecords
      /\ matched' \subseteq Clients
      /\ waited' \in [Clients -> Nat]
  BY DEF Leaves, Answers, TypeOK, AnswerRecords
<1>3. poller' \in PollerRecords
  BY <1>1 DEF Idle, PollerRecords
<1>4. TypeOK'
  BY <1>1, <1>2, <1>3 DEF TypeOK, PollerRecords, AnswerRecords
<1>5. InLine' = InLine \ {poller.client}
  BY <1>1 DEF InLine, Idle, InLineOnce
<1>6. \A i \in DOMAIN queue : queue[i] \in Clients
  BY DEF TypeOK
<1>7. QED
  BY <1>1, <1>2, <1>4, <1>5, <1>6, InLineMembers, ZHTKeyValueAssumption
  DEF InLineOnce, Idle, ZHTKeyValueAssumption

LEMMA ReadLine ==
  ASSUME TypeOK, InLineOnce, Read
  PROVE  TypeOK' /\ InLineOnce' /\ InLine' \subseteq InLine
<1>1. poller.client \in Clients /\ wild' \in BOOLEAN /\ UNCHANGED <<serverVars, told>>
  BY PolledFor DEF Read
<1>2. CASE Leaves(poller.client, "000", waited)
  BY <1>1, <1>2, LeavesLine DEF TypeOK
<1>3. CASE /\ poller' = [poller EXCEPT !.phase = "sleep", !.held = <<>>, !.status = "-91"]
           /\ answer' = NoAnswer
           /\ UNCHANGED <<call, matched, waited>>
  <2>1. /\ poller \in PollerRecords
        /\ <<>> \in Seq(Packs)
        /\ poller' = [poller EXCEPT !.phase = "sleep", !.held = <<>>, !.status = "-91"]
    BY <1>3 DEF TypeOK, PollerRecords
  <2>2. poller' \in PollerRecords /\ poller'.client = poller.client /\ poller'.phase = "sleep"
    BY <2>1 DEF PollerRecords
  <2>3. TypeOK'
    BY <1>1, <1>3, <2>2 DEF TypeOK, PollerRecords, NoAnswer, serverVars
  <2>4. InLine' = InLine
    BY <1>1, <2>2 DEF InLine, serverVars
  <2>5. QED
    BY <1>1, <1>3, <2>2, <2>3, <2>4 DEF InLineOnce, Read, serverVars
<1>4. QED
  BY <1>2, <1>3 DEF Read

LEMMA SleepLine ==
  ASSUME TypeOK, InLineOnce, Sleep, poller.status \in {"-91", "-92"}
  PROVE  TypeOK' /\ InLineOnce' /\ InLine' \subseteq InLine
<1>1. /\ poller.client \in Clients /\ wild' \in BOOLEAN /\ UNCHANGED <<serverVars, told>>
      /\ wild' = wild
  BY PolledFor DEF Sleep, TypeOK
<1>2. Later \in [Clients -> Nat]
  BY DEF Later, TypeOK
<1>3. CASE Leaves(poller.client, poller.status, Later)
  BY <1>1, <1>2, <1>3, LeavesLine
<1>4. CASE /\ poller' = [poller EXCEPT !.phase = "get", !.lapsed = Lapsed]
           /\ waited' = Later
           /\ answer' = NoAnswer
           /\ UNCHANGED <<call, matched>>
  <2>1. /\ poller \in PollerRecords
        /\ Lapsed \in Nat
        /\ poller' = [poller EXCEPT !.phase = "get", !.lapsed = Lapsed]
    BY <1>4 DEF TypeOK, PollerRecords, Lapsed
  <2>2. poller' \in PollerRecords /\ poller'.client = poller.client /\ poller'.phase = "get"
    BY <2>1 DEF PollerRecords
  <2>3. TypeOK'
    BY <1>1, <1>2, <1>4, <2>2 DEF TypeOK, PollerRecords, NoAnswer, serverVars
  <2>4. InLine' = InLine
    BY <1>1, <2>2 DEF InLine, serverVars
  <2>5. QED
    BY <1>1, <1>4, <2>2, <2>3, <2>4 DEF InLineOnce, Sleep, serverVars
<1>5. QED
  BY <1>3, <1>4 DEF Sleep

-----------------------------------------------------------------------------
(***************************************************************************)
(* The types and the line are invariant.                                   *)
(***************************************************************************)

\* Before it sleeps, the polling thread has a status.
SleepHasStatus == poller.phase = "sleep" => poller.status \in {"-91", "-92"}

Line == TypeOK /\ InLineOnce /\ SleepHasStatus

LEMMA InitLine == Init => Line
<1>1. SUFFICES ASSUME Init
               PROVE  Line
  OBVIOUS
<1>2. /\ pairs \in [Keys -> Seq(Packs)] /\ queue = <<>> /\ <<>> \in Seq(Clients)
      /\ poller = [phase |-> "none", client |-> Nobody, held |-> <<>>, lapsed |-> 0,
                   status |-> "none"]
  BY <1>1 DEF Init, Store!Init, Idle
<1>3. poller \in PollerRecords
  BY <1>2 DEF PollerRecords
<1>4. TypeOK
  BY <1>1, <1>2, <1>3 DEF Init, TypeOK, PollerRecords, NoAnswer
<1>5. InLine = {}
  BY <1>2 DEF InLine
<1>6. QED
  BY <1>2, <1>4, <1>5 DEF Line, InLineOnce, SleepHasStatus

LEMMA CallLine ==
  ASSUME Line, NEW c \in Clients, Call(c)
  PROVE  Line' /\ InLine' = InLine /\ c \notin InLine
<1>1. c \notin InLine
  BY DEF Line, InLineOnce, Call
<1>2. InLine' = InLine
  BY DEF Call, InLine, serverVars
<1>3. TypeOK'
  BY DEF Line, Call, TypeOK, NoAnswer, serverVars, history
<1>4. \A d \in InLine : call'[d] = call[d]
  BY <1>1, InLineMembers DEF Line, Call, TypeOK
<1>5. QED
  BY <1>1, <1>2, <1>3, <1>4 DEF Line, InLineOnce, SleepHasStatus, Call, serverVars

LEMMA ServerKeepsPoller ==
  ASSUME Line, NEW c \in Clients, Server(c)
  PROVE  Line'
<1>1. poller' = poller \/ poller'.phase \in {"idle", "failed"}
  BY DEF Server, Lookup, Insert, AppendTo, Remove, CompareSwap, Swap, StateChangeCallback, Serves,
     Line, TypeOK
<1>2. QED
  BY <1>1, ServerType, ServerLine DEF Line, SleepHasStatus

LEMMA PollerKeepsLine ==
  ASSUME Line, Poller
  PROVE  Line' /\ InLine' \subseteq InLine
<1>1. CASE Take
  BY <1>1, TakeLine DEF Line, SleepHasStatus, Take, TakeFirst, Idle
<1>2. CASE Get
  <2>1. SleepHasStatus'
    BY <1>2 DEF Line, Get, TypeOK, SleepHasStatus
  <2>2. QED
    BY <1>2, <2>1, GetLine DEF Line
<1>3. CASE Read
  <2>1. poller' = Idle \/ poller' = [poller EXCEPT !.phase = "sleep", !.held = <<>>, !.status = "-91"]
    BY <1>3 DEF Read, Leaves
  <2>2. poller \in PollerRecords
    BY DEF Line, TypeOK, PollerRecords
  <2>3. SleepHasStatus'
    <3>1. CASE poller' = Idle
      BY <3>1 DEF SleepHasStatus, Idle
    <3>2. CASE poller' = [poller EXCEPT !.phase = "sleep", !.held = <<>>, !.status = "-91"]
      <4>1. poller'.phase = "sleep" /\ poller'.status = "-91"
        BY <2>2, <3>2 DEF PollerRecords
      <4>2. QED
        BY <4>1 DEF SleepHasStatus
    <3>3. QED
      BY <2>1, <3>1, <3>2
  <2>4. QED
    BY <1>3, <2>3, ReadLine DEF Line
<1>4. CASE Sleep
  <2>1. poller' = Idle \/ poller' = [poller EXCEPT !.phase = "get", !.lapsed = Lapsed]
    BY <1>4 DEF Sleep, Leaves
  <2>2. poller \in PollerRecords
    BY DEF Line, TypeOK, PollerRecords
  <2>3. SleepHasStatus'
    <3>1. CASE poller' = Idle
      BY <3>1 DEF SleepHasStatus, Idle
    <3>2. CASE poller' = [poller EXCEPT !.phase = "get", !.lapsed = Lapsed]
      <4>1. poller'.phase = "get"
        BY <2>2, <3>2 DEF PollerRecords
      <4>2. QED
        BY <4>1 DEF SleepHasStatus
    <3>3. QED
      BY <2>1, <3>1, <3>2
  <2>4. QED
    BY <1>4, <2>3, SleepLine DEF Line, SleepHasStatus, Sleep
<1>5. QED
  BY <1>1, <1>2, <1>3, <1>4 DEF Poller

LEMMA LineInductive ==
  ASSUME Line, [Next]_vars
  PROVE  Line'
<1>1. CASE UNCHANGED vars
  BY <1>1 DEF Line, TypeOK, InLineOnce, InLine, SleepHasStatus, vars, serverVars, history
<1>2. CASE Next
  BY <1>2, CallLine, ServerKeepsPoller, PollerKeepsLine DEF Next
<1>3. QED
  BY <1>1, <1>2

\* Every variable keeps its type, for any clients, keys, values and leases.
THEOREM TypesKept == Spec => []TypeOK
<1>1. Line => TypeOK
  BY DEF Line
<1>2. QED
  BY <1>1, InitLine, LineInductive, PTL DEF Spec

\* A callback is in the queue or polled for, once, until its client is answered.
THEOREM CallbackInLineOnce == Spec => []InLineOnce
<1>1. Line => InLineOnce
  BY DEF Line
<1>2. QED
  BY <1>1, InitLine, LineInductive, PTL DEF Spec

-----------------------------------------------------------------------------
(***************************************************************************)
(* The values that callbacks wait for.                                     *)
(***************************************************************************)

\* Whose value is in the table, or where the polling thread's pointer leads, has matched.
Seen ==
  /\ \A d \in InLine : Matches(d, pairs[call[d].key]) => d \in matched
  /\ poller.phase = "read" =>
       (Matches(poller.client, poller.held) => poller.client \in matched)

\* What the step answers with "000" to a client in line has matched.
Truthful == \A c \in InLine : answer' = [to |-> c, status |-> "000"] => c \in matched

LEMMA CallSeen ==
  ASSUME Line, Seen, NEW c \in Clients, Call(c)
  PROVE  Seen' /\ Truthful
<1>1. InLine' = InLine /\ c \notin InLine
  BY CallLine
<1>2. pairs' = pairs /\ matched' = matched /\ poller' = poller /\ answer' = NoAnswer
  BY DEF Call, serverVars, history
<1>3. \A d \in InLine : call'[d] = call[d]
  BY <1>1, InLineMembers DEF Line, TypeOK, Call
<1>4. poller.phase = "read" => poller.client \in InLine
  BY PolledFor DEF Line
<1>5. QED
  BY <1>1, <1>2, <1>3, <1>4 DEF Seen, Matches, Truthful, NoAnswer

LEMMA ServesSeen ==
  ASSUME Line, Seen, NEW c \in Clients, NEW status,
         call[c].op # "state_change_callback", Serves(c, status)
  PROVE  Seen' /\ Truthful
<1>1. InLine' = InLine /\ c \notin InLine
  BY ServesLine DEF Line
<1>2. /\ poller' = poller /\ answer'.to = c
      /\ matched' = matched \union {d \in InLine : Matches(d, pairs'[call[d].key])}
  BY DEF Serves, Answers
<1>3. \A d \in InLine : call'[d] = call[d]
  BY <1>1, InLineMembers DEF Line, TypeOK, Serves, Answers
<1>4. poller.phase = "read" => poller.client \in InLine
  BY PolledFor DEF Line
<1>5. QED
  BY <1>1, <1>2, <1>3, <1>4 DEF Seen, Matches, Truthful

LEMMA ServerSeen ==
  ASSUME Line, Seen, NEW c \in Clients, Server(c)
  PROVE  Seen' /\ Truthful
<1>1. CASE StateChangeCallback(c)
  <2>1. call' = call /\ pairs' = pairs /\ answer' = NoAnswer
    BY <1>1 DEF StateChangeCallback
  <2>2. InLine' \subseteq InLine \union {c}
    <3>1. queue' = Append(queue, c) /\ queue \in Seq(Clients) /\ poller'.client = poller.client
      BY <1>1 DEF StateChangeCallback, Line, TypeOK
    <3>2. \A i \in DOMAIN queue' : queue'[i] = c \/ (i \in DOMAIN queue /\ queue'[i] = queue[i])
      BY <3>1
    <3>3. QED
      BY <3>1, <3>2 DEF InLine
  <2>3. matched \subseteq matched' /\ (Matches(c, pairs[call[c].key]) => c \in matched')
    BY <1>1 DEF StateChangeCallback
  <2>4. /\ poller'.client = poller.client
        /\ poller'.held = poller.held
        /\ poller'.phase = "read" => poller.phase = "read"
    BY <1>1 DEF StateChangeCallback, Line, TypeOK
  <2>5. QED
    BY <2>1, <2>2, <2>3, <2>4 DEF Seen, Matches, Truthful, NoAnswer
<1>2. CASE ~StateChangeCallback(c)
  <2>1. \E status : call[c].op # "state_change_callback" /\ Serves(c, status)
    BY <1>2 DEF Server, Lookup, Insert, AppendTo, Remove, CompareSwap, Swap, Asks
  <2>2. QED
    BY <2>1, ServesSeen
<1>3. QED
  BY <1>1, <1>2

\* The value that is found is one the table has had since the client was in line.
LEMMA ReadIsTrue ==
  ASSUME Line, Seen, Read, NEW p \in Reached(pairs[call[poller.client].key]),
         Compared(p) = "000"
  PROVE  poller.client \in matched
<1>1. /\ poller.client \in InLine
      /\ call[poller.client].val \in Strings
      /\ poller.phase = "read"
  BY PolledFor DEF Line, Read
<1>2. p.val = Sent(call[poller.client].val).val
  BY DEF Compared
<1>3. p \notin Parsed(<<>>)
  BY <1>1, <1>2, NothingExpected
<1>4. p \in Parsed(poller.held) \/ p \in Parsed(pairs[call[poller.client].key])
  BY <1>3 DEF Reached
<1>5. QED
  BY <1>1, <1>2, <1>4 DEF Seen, Matches

\* A client leaves the line, and with it the record of its match.
LEMMA LeavesSeen ==
  ASSUME Line, Seen, NEW status, NEW waits, Leaves(poller.client, status, waits),
         InLine' = InLine \ {poller.client}, pairs' = pairs
  PROVE  Seen'
<1>1. \A d \in InLine \ {poller.client} : call'[d] = call[d]
  BY InLineMembers DEF Leaves, Answers, Line, TypeOK
<1>2. matched' = matched \ {poller.client} /\ poller'.phase # "read"
  BY DEF Leaves, Idle
<1>3. QED
  BY <1>1, <1>2 DEF Seen, Matches

LEMMA PollerSeen ==
  ASSUME Line, Seen, Poller
  PROVE  Seen' /\ Truthful
<1>1. CASE Take
  <2>1. InLine' = InLine /\ poller'.phase = "get"
    BY <1>1, TakeLine DEF Line, Take, TakeFirst, Idle
  <2>2. QED
    BY <1>1, <2>1 DEF Take, Seen, Matches, Truthful, NoAnswer, history
<1>2. CASE Get
  <2>1. InLine' = InLine /\ poller.client \in InLine
    BY <1>2, GetLine, PolledFor DEF Line, Get
  <2>2. /\ UNCHANGED <<pairs, call, matched>> /\ answer' = NoAnswer
        /\ poller'.client = poller.client
        /\ poller'.phase = "read" => poller'.held = pairs[call[poller.client].key]
    BY <1>2 DEF Get, serverVars, history, Line, TypeOK
  <2>3. QED
    BY <2>1, <2>2 DEF Seen, Matches, Truthful, NoAnswer
<1>3. CASE Read
  <2>1. PICK p \in Reached(pairs[call[poller.client].key]) :
          IF Compared(p) = "000"
            THEN Leaves(poller.client, "000", waited)
            ELSE /\ poller' = [poller EXCEPT !.phase = "sleep", !.held = <<>>, !.status = "-91"]
                 /\ answer' = NoAnswer
                 /\ UNCHANGED <<call, matched, waited>>
    BY <1>3 DEF Read
  <2>2. UNCHANGED <<pairs, queue>> /\ poller.client \in Clients
    BY <1>3, PolledFor DEF Read, Line, serverVars
  <2>3. CASE Compared(p) = "000"
    <3>1. Leaves(poller.client, "000", waited) /\ InLine' = InLine \ {poller.client}
      BY <1>3, <2>1, <2>2, <2>3, LeavesLine DEF Line, TypeOK, Read
    <3>2. poller.client \in matched
      BY <1>3, <2>3, ReadIsTrue
    <3>3. QED
      BY <2>2, <3>1, <3>2, LeavesSeen DEF Truthful, Leaves, Answers
  <2>4. CASE Compared(p) # "000"
    <3>1. poller'.client = poller.client /\ poller'.phase = "sleep"
      BY <2>1, <2>4 DEF Line, TypeOK
    <3>2. InLine' = InLine
      BY <2>2, <3>1 DEF InLine
    <3>3. QED
      BY <2>1, <2>2, <2>4, <3>1, <3>2 DEF Seen, Matches, Truthful, NoAnswer
  <2>5. QED
    BY <2>3, <2>4
<1>4. CASE Sleep
  <2>1. /\ UNCHANGED <<pairs, queue, wild, told>> /\ poller.client \in Clients
        /\ poller.status \in {"-91", "-92"} /\ Later \in [Clients -> Nat]
    BY <1>4, PolledFor DEF Sleep, Line, SleepHasStatus, serverVars, Later, TypeOK
  <2>2. CASE LeaseOver
    <3>1. Leaves(poller.client, poller.status, Later)
      BY <1>4, <2>2 DEF Sleep
    <3>2. InLine' = InLine \ {poller.client}
      BY <2>1, <3>1, LeavesLine DEF Line, TypeOK, serverVars
    <3>3. answer'.status # "000"
      BY <2>1, <3>1 DEF Leaves, Answers
    <3>4. QED
      BY <2>1, <3>1, <3>2, <3>3, LeavesSeen DEF Truthful
  <2>3. CASE ~LeaseOver
    <3>1. /\ poller' = [poller EXCEPT !.phase = "get", !.lapsed = Lapsed]
          /\ answer' = NoAnswer
          /\ UNCHANGED <<call, matched>>
      BY <1>4, <2>3 DEF Sleep
    <3>2. poller'.client = poller.client /\ poller'.phase = "get"
      BY <3>1 DEF Line, TypeOK
    <3>3. InLine' = InLine
      BY <2>1, <3>2 DEF InLine
    <3>4. QED
      BY <2>1, <3>1, <3>2, <3>3 DEF Seen, Matches, Truthful, NoAnswer
  <2>4. QED
    BY <2>2, <2>3
<1>5. QED
  BY <1>1, <1>2, <1>3, <1>4 DEF Poller

\* A callback that succeeds does so because the expected value has been there since it was
\* queued, for any clients, keys, values and leases, and however the poll is interleaved.
THEOREM CallbackSuccessIsTrue == Spec => SuccessWasTrue
<1>1. Init => Line /\ Seen
  <2>1. Init => Seen
    BY DEF Init, Seen, InLine, Idle
  <2>2. QED
    BY <2>1, InitLine
<1>2. Line /\ Seen /\ [Next]_vars => (Line /\ Seen)'
  <2>1. SUFFICES ASSUME Line, Seen, [Next]_vars
                 PROVE  Line' /\ Seen'
    OBVIOUS
  <2>2. CASE UNCHANGED vars
    BY <2>1, <2>2, LineInductive DEF Seen, InLine, Matches, vars, serverVars, history
  <2>3. CASE Next
    BY <2>1, <2>3, LineInductive, CallSeen, ServerSeen, PollerSeen DEF Next
  <2>4. QED
    BY <2>1, <2>2, <2>3
<1>3. Line /\ Seen /\ [Next]_vars => [Truthful]_vars
  BY CallSeen, ServerSeen, PollerSeen DEF Next
<1>4. [Truthful]_vars =>
        [\A c \in InLine : answer' = [to |-> c, status |-> "000"] => c \in matched]_vars
  BY DEF Truthful
<1>5. QED
  BY <1>1, <1>2, <1>3, <1>4, PTL DEF Spec, SuccessWasTrue

-----------------------------------------------------------------------------
(***************************************************************************)
(* How long a callback waits.                                              *)
(***************************************************************************)

\* The longest that a request is polled for.
Longest == CHOOSE n \in Leases \union {1} : \A m \in Leases \union {1} : m <= n

\* The polls that all other clients' calls take.
Allowance == (Cardinality(Clients) - 1) * Longest

\* How many requests are served before the i-th of the queue.
Before(i) == IF poller.client = Nobody THEN i - 1 ELSE i

\* Who has waited long is near to being served.
Waits ==
  /\ \A c \in Clients \ InLine : waited[c] = 0
  /\ IF poller.client = Nobody
       THEN poller.lapsed = 0
       ELSE /\ poller.lapsed < Longest
            /\ waited[poller.client] <= Allowance + poller.lapsed
  /\ \A i \in DOMAIN queue :
       waited[queue[i]] + Before(i) * Longest <= Allowance + poller.lapsed

\* Among finitely many numbers one is the largest.
LEMMA LargestExists ==
  ASSUME NEW S \in SUBSET Nat, IsFiniteSet(S), S # {}
  PROVE  \E n \in S : \A m \in S : m <= n
<1> DEFINE Above(k) == {m \in S : m > k}
           T == {Above(k) : k \in S}
           R == StrictSubsetOrdering(S)
<1>1. \A k \in S : Above(k) \in SUBSET S /\ IsFiniteSet(Above(k))
  BY FS_Subset
<1>2. T \subseteq FiniteSubsetsOf(S) /\ T # {}
  BY <1>1 DEF FiniteSubsetsOf
<1>3. PICK x \in T : \A y \in T : <<y, x>> \notin R
  <2>1. IsWellFoundedOn(R, FiniteSubsetsOf(S))
    BY FS_StrictSubsetOrderingWellFounded
  <2>2. QED
    BY <1>2, <2>1, WFMin
<1>4. PICK n \in S : x = Above(n)
  BY <1>3
<1>5. Above(n) = {}
  <2>1. SUFFICES ASSUME NEW m \in Above(n)
                 PROVE  FALSE
    OBVIOUS
  <2>2. m \in S /\ Above(m) \subseteq Above(n) /\ m \notin Above(m)
    <3>1. m \in S /\ m > n /\ m \in Nat /\ n \in Nat
      BY <2>1
    <3>2. \A l \in S : l \in Nat /\ (l > m => l > n)
      BY <3>1
    <3>3. ~(m > m)
      BY <3>1
    <3>4. m \notin Above(m)
      BY <3>3
    <3>5. Above(m) \subseteq Above(n)
      BY <3>2
    <3>6. QED
      BY <3>1, <3>4, <3>5
  <2>3. <<Above(m), Above(n)>> \in R
    BY <1>1, <2>1, <2>2 DEF StrictSubsetOrdering
  <2>4. QED
    BY <1>3, <1>4, <2>2, <2>3
<1>6. QED
  BY <1>5

LEMMA LongestIsLongest ==
  /\ Longest \in Nat \ {0}
  /\ \A n \in Leases \union {1} : n <= Longest
<1> DEFINE S == Leases \union {1}
<1>1. S \in SUBSET Nat /\ IsFiniteSet(S)
  BY ZHTKeyValueAssumption, FS_AddElement DEF ZHTKeyValueAssumption
<1>2. \E n \in S : \A m \in S : m <= n
  BY <1>1, LargestExists
<1>3. Longest \in S /\ \A m \in S : m <= Longest
  BY <1>2 DEF Longest
<1>4. QED
  BY <1>1, <1>3

LEMMA AllowanceIsNumber ==
  /\ Cardinality(Clients) \in Nat
  /\ Allowance \in Int
  /\ Allowance + Longest = Cardinality(Clients) * Longest
<1>1. Cardinality(Clients) \in Nat
  BY ZHTKeyValueAssumption, FS_CardinalityType DEF ZHTKeyValueAssumption
<1>2. Longest \in Nat
  BY LongestIsLongest
<1>3. \A n \in Nat, m \in Nat : (n - 1) * m \in Int /\ (n - 1) * m + m = n * m
  OBVIOUS
<1>4. QED
  BY <1>1, <1>2, <1>3 DEF Allowance

\* One more place, one more turn of the longest.
LEMMA OneMoreTurn ==
  ASSUME NEW i \in Int
  PROVE  /\ i * Longest \in Int
         /\ (i + 1) * Longest = i * Longest + Longest
<1>1. Longest \in Nat
  BY LongestIsLongest
<1>2. \A n \in Nat : i * n \in Int /\ (i + 1) * n = i * n + n
  OBVIOUS
<1>3. QED
  BY <1>1, <1>2

LEMMA FewerTurns ==
  ASSUME NEW i \in Int, NEW j \in Int, i <= j
  PROVE  i * Longest <= j * Longest
<1>1. Longest \in Nat
  BY LongestIsLongest
<1>2. \A n \in Nat : i * n <= j * n
  OBVIOUS
<1>3. QED
  BY <1>1, <1>2

\* A client that is not in line has room behind those that are: each other client is
\* there once at most.
LEMMA RoomInLine ==
  ASSUME TypeOK, InLineOnce, NEW c \in Clients \ InLine
  PROVE  Before(Len(queue) + 1) <= Cardinality(Clients) - 1
<1> DEFINE Q == {queue[i] : i \in DOMAIN queue}
<1>1. queue \in Seq(Clients) /\ Len(queue) \in Nat /\ DOMAIN queue = 1..Len(queue)
  BY DEF TypeOK
<1>2. IsFiniteSet(Clients)
  BY ZHTKeyValueAssumption DEF ZHTKeyValueAssumption
<1>3. IsFiniteSet(Q) /\ Cardinality(Q) = Len(queue)
  <2>1. queue \in Bijection(1..Len(queue), Q)
    <3>1. \A i, j \in 1..Len(queue) : queue[i] = queue[j] => i = j
      BY <1>1 DEF InLineOnce
    <3>2. queue \in [1..Len(queue) -> Q]
      BY <1>1
    <3>3. \A x \in Q : \E i \in 1..Len(queue) : queue[i] = x
      BY <1>1
    <3>4. QED
      BY <3>1, <3>2, <3>3 DEF Bijection, Injection, Surjection, IsInjective
  <2>2. ExistsBijection(1..Len(queue), Q)
    BY <2>1 DEF ExistsBijection
  <2>3. QED
    BY <1>1, <2>2, FS_CountingElements, FS_NatBijection
<1>4. IsFiniteSet(InLine) /\ Cardinality(InLine) = Before(Len(queue) + 1)
  <2>1. CASE poller.client = Nobody
    <3>1. InLine = Q
      BY <2>1 DEF InLine
    <3>2. Before(Len(queue) + 1) = Len(queue)
      BY <1>1, <2>1 DEF Before
    <3>3. QED
      BY <1>3, <3>1, <3>2
  <2>2. CASE poller.client # Nobody
    <3>1. InLine = Q \union {poller.client}
      BY <2>2 DEF InLine
    <3>2. poller.client \notin Q
      BY DEF InLineOnce
    <3>3. Before(Len(queue) + 1) = Len(queue) + 1
      BY <2>2 DEF Before
    <3>4. QED
      BY <1>3, <3>1, <3>2, <3>3, FS_AddElement
  <2>3. QED
    BY <2>1, <2>2
<1>5. InLine \union {c} \in SUBSET Clients
  BY InLineMembers
<1>6. Cardinality(InLine \union {c}) <= Cardinality(Clients)
  BY <1>2, <1>5, FS_Subset
<1>7. Cardinality(InLine \union {c}) = Cardinality(InLine) + 1
  BY <1>4, FS_AddElement
<1>8. Cardinality(InLine) \in Nat /\ Cardinality(Clients) \in Nat
  BY <1>2, <1>4, FS_CardinalityType
<1>9. QED
  BY <1>4, <1>6, <1>7, <1>8

\* A step that neither moves the line nor lets time pass changes nothing of this.
LEMMA SameWaits ==
  ASSUME Waits, InLine' = InLine, queue' = queue, waited' = waited,
         poller'.client = poller.client, poller'.lapsed = poller.lapsed
  PROVE  Waits'
BY DEF Waits, Before

LEMMA ServerWaits ==
  ASSUME Line, Waits, NEW c \in Clients, Server(c)
  PROVE  Waits'
<1>1. CASE StateChangeCallback(c)
  <2>1. /\ queue' = Append(queue, c) /\ queue \in Seq(Clients) /\ c \notin InLine
        /\ waited' = waited /\ waited \in [Clients -> Nat] /\ waited[c] = 0
    BY <1>1 DEF StateChangeCallback, Line, TypeOK, Waits
  <2>2. poller'.client = poller.client /\ poller'.lapsed = poller.lapsed /\ poller.lapsed \in Nat
    BY <1>1 DEF StateChangeCallback, Line, TypeOK
  <2>3. /\ DOMAIN queue' = DOMAIN queue \union {Len(queue) + 1}
        /\ \A i \in DOMAIN queue : queue'[i] = queue[i]
        /\ queue'[Len(queue) + 1] = c
    BY <2>1
  <2>4. InLine' = InLine \union {c}
    BY <2>2, <2>3 DEF InLine
  <2>5. \A i \in DOMAIN queue' : Before(i)' = Before(i)
    BY <2>2 DEF Before
  <2>6. Before(Len(queue) + 1) * Longest <= Allowance
    <3>1. Before(Len(queue) + 1) <= Cardinality(Clients) - 1
      BY <2>1, RoomInLine DEF Line
    <3>2. Before(Len(queue) + 1) \in Int /\ Cardinality(Clients) - 1 \in Int
      BY <2>1, AllowanceIsNumber DEF Before
    <3>3. QED
      BY <3>1, <3>2, FewerTurns DEF Allowance
  <2>7. waited[c] + Before(Len(queue) + 1) * Longest <= Allowance + poller.lapsed
    <3>1. Before(Len(queue) + 1) * Longest \in Int
      BY <2>1, OneMoreTurn DEF Before
    <3>2. QED
      BY <2>1, <2>2, <2>6, <3>1, AllowanceIsNumber
  <2>8. \A i \in DOMAIN queue' :
          waited'[queue'[i]] + Before(i)' * Longest <= Allowance + poller'.lapsed
    BY <2>1, <2>2, <2>3, <2>5, <2>7 DEF Waits
  <2>9. \A d \in Clients \ InLine' : waited'[d] = 0
    BY <2>1, <2>4 DEF Waits
  <2>10. QED
    BY <2>1, <2>2, <2>8, <2>9 DEF Waits
<1>2. CASE ~StateChangeCallback(c)
  <2>1. \E status : call[c].op # "state_change_callback" /\ Serves(c, status)
    BY <1>2 DEF Server, Lookup, Insert, AppendTo, Remove, CompareSwap, Swap, Asks
  <2>2. InLine' = InLine
    BY <2>1, ServesLine DEF Line
  <2>3. queue' = queue /\ waited' = waited /\ poller' = poller
    BY <2>1 DEF Serves
  <2>4. QED
    BY <2>2, <2>3, SameWaits
<1>3. QED
  BY <1>1, <1>2

\* The first of the queue has waited for the others' turns, and its own begins.
LEMMA TakeWaits ==
  ASSUME Line, Waits, Take
  PROVE  Waits'
<1>1. /\ queue \in Seq(Clients) /\ queue # <<>> /\ queue' = Tail(queue)
      /\ poller'.client = Head(queue) /\ poller'.lapsed = 0 /\ waited' = waited
      /\ waited \in [Clients -> Nat]
  BY DEF Take, TakeFirst, Idle, Line, TypeOK, history
<1>2. InLine' = InLine
  BY TakeLine DEF Line
<1>3. poller.client = Nobody /\ poller.lapsed = 0
  BY DEF Take, Line, InLineOnce, Waits
<1>4. /\ Head(queue) = queue[1] /\ 1 \in DOMAIN queue /\ Head(queue) \in Clients
      /\ \A i \in DOMAIN queue' : i + 1 \in DOMAIN queue /\ queue'[i] = queue[i + 1] /\ i \in Nat
  BY <1>1
<1>5. poller'.client # Nobody
  BY <1>1, <1>4, ZHTKeyValueAssumption DEF ZHTKeyValueAssumption
<1>6. waited'[poller'.client] <= Allowance + poller'.lapsed
  <2>1. Before(1) = 0 /\ 0 * Longest = 0
    BY <1>3, LongestIsLongest DEF Before
  <2>2. waited[queue[1]] + 0 <= Allowance + 0
    BY <1>3, <1>4, <2>1 DEF Waits
  <2>3. QED
    BY <1>1, <1>4, <2>2, AllowanceIsNumber
<1>7. \A i \in DOMAIN queue' :
        waited'[queue'[i]] + Before(i)' * Longest <= Allowance + poller'.lapsed
  <2>1. \A i \in DOMAIN queue' : Before(i)' = Before(i + 1)
    BY <1>3, <1>4, <1>5 DEF Before
  <2>2. QED
    BY <1>1, <1>3, <1>4, <2>1 DEF Waits
<1>8. poller'.lapsed < Longest
  BY <1>1, LongestIsLongest
<1>9. \A d \in Clients \ InLine' : waited'[d] = 0
  BY <1>1, <1>2 DEF Waits
<1>10. QED
  BY <1>5, <1>6, <1>7, <1>8, <1>9 DEF Waits

LEMMA TurnOver ==
  ASSUME NEW w \in Nat, NEW v \in Nat, NEW t \in Int, NEW u \in Int, NEW a \in Int,
         NEW n \in Nat, NEW p \in Nat, w + t <= a + p, t = u + n, v <= w + (n - p)
  PROVE  v + u <= a + 0
OBVIOUS

LEMMA PollOver ==
  ASSUME NEW w \in Nat, NEW t \in Int, NEW a \in Int, NEW p \in Nat, w + t <= a + p
  PROVE  (w + 1) + t <= a + (p + 1)
OBVIOUS

LEMMA InFront ==
  ASSUME NEW w \in Nat, NEW t \in Nat, NEW a \in Int, NEW p \in Nat, w + t <= a + p
  PROVE  w <= a + p
OBVIOUS

\* When a client is answered, those behind it are one turn nearer.
LEMMA LeavesWaits ==
  ASSUME Line, Waits, poller.client \in Clients, NEW waits \in [Clients -> Nat],
         \A d \in Clients \ InLine : waits[d] = 0,
         \A d \in InLine : waits[d] <= waited[d] + (Longest - poller.lapsed),
         poller' = Idle, queue' = queue, waited' = [waits EXCEPT ![poller.client] = 0],
         InLine' = InLine \ {poller.client}
  PROVE  Waits'
<1>1. poller'.client = Nobody /\ poller'.lapsed = 0
  BY DEF Idle
<1>2. poller.client # Nobody /\ poller.lapsed \in Nat /\ waited \in [Clients -> Nat]
      /\ queue \in Seq(Clients)
  BY ZHTKeyValueAssumption DEF ZHTKeyValueAssumption, Line, TypeOK
<1>3. \A d \in Clients \ InLine' : waited'[d] = 0
  OBVIOUS
<1>4. ASSUME NEW i \in DOMAIN queue
      PROVE  waited'[queue[i]] + Before(i)' * Longest <= Allowance + poller'.lapsed
  <2>1. queue[i] # poller.client /\ queue[i] \in Clients /\ queue[i] \in InLine /\ i \in Int
    BY <1>2 DEF Line, InLineOnce, InLine
  <2>2. Before(i) = i /\ Before(i)' = i - 1
    BY <1>1, <1>2 DEF Before
  <2>3. waited[queue[i]] + i * Longest <= Allowance + poller.lapsed
    BY <2>2 DEF Waits
  <2>4. /\ (i - 1) * Longest \in Int /\ i * Longest \in Int
        /\ i * Longest = (i - 1) * Longest + Longest
    <3>1. i - 1 \in Int /\ (i - 1) + 1 = i
      BY <2>1
    <3>2. QED
      BY <2>1, <3>1, OneMoreTurn
  <2>5. waited'[queue[i]] <= waited[queue[i]] + (Longest - poller.lapsed)
    BY <2>1
  <2>6. /\ waited'[queue[i]] \in Nat /\ waited[queue[i]] \in Nat /\ Longest \in Nat
        /\ Allowance \in Int
    BY <1>2, <2>1, LongestIsLongest, AllowanceIsNumber
  <2>7. waited'[queue[i]] + (i - 1) * Longest <= Allowance + 0
    <3>1. PICK t \in Int, u \in Int : t = i * Longest /\ u = (i - 1) * Longest
      BY <2>4
    <3>2. t = u + Longest /\ waited[queue[i]] + t <= Allowance + poller.lapsed
      BY <2>3, <2>4, <3>1
    <3>3. waited'[queue[i]] + u <= Allowance + 0
      BY <1>2, <2>5, <2>6, <3>2, TurnOver
    <3>4. QED
      BY <3>1, <3>3
  <2>8. QED
    BY <1>1, <2>2, <2>7
<1>5. QED
  BY <1>1, <1>3, <1>4 DEF Waits

LEMMA ReadWaits ==
  ASSUME Line, Waits, Read
  PROVE  Waits'
<1>1. /\ poller.client \in Clients /\ poller.client # Nobody /\ queue' = queue /\ pairs' = pairs
      /\ told' = told /\ wild' \in BOOLEAN /\ waited \in [Clients -> Nat]
      /\ poller.lapsed \in Nat
  BY PolledFor, ZHTKeyValueAssumption
  DEF Read, Line, TypeOK, serverVars, ZHTKeyValueAssumption
<1>2. CASE Leaves(poller.client, "000", waited)
  <2>1. InLine' = InLine \ {poller.client}
    BY <1>1, <1>2, LeavesLine DEF Line, serverVars
  <2>2. poller' = Idle /\ waited' = [waited EXCEPT ![poller.client] = 0]
    BY <1>2 DEF Leaves
  <2>3. \A d \in InLine : waited[d] <= waited[d] + (Longest - poller.lapsed)
    <3>1. poller.lapsed < Longest /\ Longest \in Nat
      BY <1>1, LongestIsLongest DEF Waits
    <3>2. \A d \in InLine : waited[d] \in Nat
      BY <1>1, InLineMembers DEF Line
    <3>3. QED
      BY <1>1, <3>1, <3>2
  <2>4. \A d \in Clients \ InLine : waited[d] = 0
    BY DEF Waits
  <2>5. QED
    BY <1>1, <2>1, <2>2, <2>3, <2>4, LeavesWaits
<1>3. CASE /\ poller' = [poller EXCEPT !.phase = "sleep", !.held = <<>>, !.status = "-91"]
           /\ waited' = waited
  <2>1. poller'.client = poller.client /\ poller'.lapsed = poller.lapsed
    BY <1>3 DEF Line, TypeOK
  <2>2. InLine' = InLine
    BY <1>1, <2>1 DEF InLine
  <2>3. QED
    BY <1>1, <1>3, <2>1, <2>2, SameWaits
<1>4. QED
  BY <1>2, <1>3 DEF Read

\* A poll goes by for all in line, and for the one that is polled for.
LEMMA SleepWaits ==
  ASSUME Line, Waits, Sleep
  PROVE  Waits'
<1>1. /\ poller.client \in Clients /\ poller.client # Nobody /\ queue' = queue /\ pairs' = pairs
      /\ told' = told /\ wild' \in BOOLEAN /\ waited \in [Clients -> Nat]
      /\ poller.lapsed \in Nat /\ poller.lapsed < Longest /\ Longest \in Nat
      /\ poller.status \in {"-91", "-92"} /\ queue \in Seq(Clients)
  BY PolledFor, ZHTKeyValueAssumption, LongestIsLongest
  DEF Sleep, Line, TypeOK, SleepHasStatus, Waits, serverVars, ZHTKeyValueAssumption
<1>2. /\ Later \in [Clients -> Nat]
      /\ \A d \in Clients : Later[d] = IF d \in InLine THEN waited[d] + 1 ELSE 0
      /\ InLine \subseteq Clients
  BY <1>1, InLineMembers DEF Later, Line
<1>3. CASE LeaseOver
  <2>1. Leaves(poller.client, poller.status, Later)
    BY <1>3 DEF Sleep
  <2>2. InLine' = InLine \ {poller.client}
    BY <1>1, <1>2, <2>1, LeavesLine DEF Line, serverVars
  <2>3. poller' = Idle /\ waited' = [Later EXCEPT ![poller.client] = 0]
    BY <2>1 DEF Leaves
  <2>4. \A d \in InLine : Later[d] <= waited[d] + (Longest - poller.lapsed)
    BY <1>1, <1>2
  <2>5. \A d \in Clients \ InLine : Later[d] = 0
    BY <1>2
  <2>6. QED
    BY <1>1, <1>2, <2>2, <2>3, <2>4, <2>5, LeavesWaits
<1>4. CASE ~LeaseOver
  <2>1. poller' = [poller EXCEPT !.phase = "get", !.lapsed = Lapsed] /\ waited' = Later
    BY <1>4 DEF Sleep
  <2>2. poller'.client = poller.client /\ poller'.lapsed = poller.lapsed + 1
    BY <2>1 DEF Line, TypeOK, Lapsed
  <2>3. InLine' = InLine
    BY <1>1, <2>2 DEF InLine
  <2>4. poller'.lapsed < Longest
    <3>1. call[poller.client].lease \in Leases \union {1}
      <4>1. /\ call[poller.client] \in Requests \union {NoCall} /\ call[poller.client] # NoCall
        BY <1>1, PolledFor DEF Line, TypeOK, InLineOnce, Sleep
      <4>2. QED
        BY <1>1, <4>1, RequestFields
    <3>2. call[poller.client].lease <= Longest /\ call[poller.client].lease \in Nat
      <4>1. \A n \in Leases \union {1} : n \in Nat
        BY ZHTKeyValueAssumption DEF ZHTKeyValueAssumption
      <4>2. QED
        BY <3>1, <4>1, LongestIsLongest
    <3>3. poller.lapsed + 1 < call[poller.client].lease
      BY <1>1, <1>4, <3>2 DEF LeaseOver, Lapsed
    <3>4. QED
      BY <1>1, <2>2, <3>2, <3>3
  <2>5. waited'[poller'.client] <= Allowance + poller'.lapsed
    <3>1. waited[poller.client] <= Allowance + poller.lapsed
      BY <1>1 DEF Waits
    <3>2. waited'[poller.client] = waited[poller.client] + 1
      BY <1>1, <1>2, <2>1, <1>4, PolledFor DEF Sleep, Line
    <3>3. QED
      BY <1>1, <2>2, <3>1, <3>2, AllowanceIsNumber
  <2>6. ASSUME NEW i \in DOMAIN queue'
        PROVE  waited'[queue'[i]] + Before(i)' * Longest <= Allowance + poller'.lapsed
    <3>1. queue[i] \in InLine /\ queue[i] \in Clients /\ i \in DOMAIN queue /\ i \in Int
      BY <1>1 DEF InLine
    <3>2. waited'[queue[i]] = waited[queue[i]] + 1
      BY <1>2, <2>1, <3>1
    <3>3. Before(i)' = Before(i) /\ Before(i) = i
      BY <1>1, <2>2 DEF Before
    <3>4. waited[queue[i]] + i * Longest <= Allowance + poller.lapsed
      BY <3>1, <3>3 DEF Waits
    <3>5. i * Longest \in Int
      BY <3>1, OneMoreTurn
    <3>6. waited[queue[i]] \in Nat
      BY <1>1, <3>1
    <3>7. (waited[queue[i]] + 1) + i * Longest <= Allowance + (poller.lapsed + 1)
      BY <1>1, <3>4, <3>5, <3>6, AllowanceIsNumber, PollOver
    <3>8. QED
      BY <1>1, <2>2, <3>2, <3>3, <3>7
  <2>7. \A d \in Clients \ InLine' : waited'[d] = 0
    BY <1>2, <2>1, <2>3
  <2>8. QED
    BY <1>1, <2>2, <2>4, <2>5, <2>6, <2>7 DEF Waits
<1>5. QED
  BY <1>3, <1>4

LEMMA WaitsInductive ==
  ASSUME Line, Waits, [Next]_vars
  PROVE  Waits'
<1>1. CASE UNCHANGED vars
  BY <1>1, SameWaits DEF vars, serverVars, history, InLine
<1>2. ASSUME NEW c \in Clients, Call(c)
      PROVE  Waits'
  BY <1>2, CallLine, SameWaits DEF Call, serverVars, history
<1>3. CASE Get
  <2>1. poller'.client = poller.client /\ poller'.lapsed = poller.lapsed
    BY <1>3 DEF Get, Line, TypeOK
  <2>2. queue' = queue /\ waited' = waited /\ InLine' = InLine
    BY <1>3, GetLine DEF Get, serverVars, history, Line
  <2>3. QED
    BY <2>1, <2>2, SameWaits
<1>4. QED
  BY <1>1, <1>2, <1>3, ServerWaits, TakeWaits, ReadWaits, SleepWaits DEF Next, Poller

\* A callback waits for its own lease and one call of each other client, for any finite
\* number of clients and any leases, zero among them: PQUEUE serves the first that came.
THEOREM CallbackWaitBounded == Spec => []WaitBounded
<1>1. Init => Waits
  BY DEF Init, Waits, Idle
<1>2. Line /\ Waits => WaitBounded
  <2>1. SUFFICES ASSUME Line, Waits, NEW c \in InLine
                 PROVE  waited[c] < Cardinality(Clients) * Longest
    BY DEF WaitBounded, Longest
  <2>2. /\ c \in Clients /\ waited \in [Clients -> Nat] /\ queue \in Seq(Clients)
        /\ poller.lapsed \in Nat /\ poller.lapsed < Longest /\ Longest \in Nat
    <3>1. c \in Clients /\ poller.lapsed \in Nat /\ queue \in Seq(Clients)
      BY <2>1, InLineMembers DEF Line, TypeOK
    <3>2. poller.lapsed < Longest
      BY <2>1, LongestIsLongest DEF Waits
    <3>3. QED
      BY <2>1, <3>1, <3>2, LongestIsLongest DEF Line, TypeOK
  <2>3. waited[c] <= Allowance + poller.lapsed
    <3>1. CASE c = poller.client
      BY <2>1, <2>2, <3>1, ZHTKeyValueAssumption DEF Waits, ZHTKeyValueAssumption
    <3>2. CASE c # poller.client
      <4>1. PICK i \in DOMAIN queue : queue[i] = c
        BY <2>1, <2>2, <3>2, InLineMembers DEF Line
      <4>2. i \in Nat \ {0} /\ Before(i) \in Nat
        BY <2>2, <4>1 DEF Before
      <4>3. waited[c] + Before(i) * Longest <= Allowance + poller.lapsed
        BY <2>1, <4>1 DEF Waits
      <4>4. Before(i) * Longest \in Nat
        <5>1. \A m \in Nat, n \in Nat : m * n \in Nat
          OBVIOUS
        <5>2. QED
          BY <2>2, <4>2, <5>1
      <4>5. QED
        BY <2>2, <4>3, <4>4, AllowanceIsNumber, InFront
    <3>3. QED
      BY <3>1, <3>2
  <2>4. Cardinality(Clients) * Longest \in Int
    BY <2>2, AllowanceIsNumber
  <2>5. QED
    BY <2>2, <2>3, <2>4, AllowanceIsNumber
<1>3. QED
  BY <1>1, <1>2, InitLine, LineInductive, WaitsInductive, PTL DEF Spec

-----------------------------------------------------------------------------
(***************************************************************************)
(* Swaps of the value that was looked up.                                  *)
(***************************************************************************)

\* No package is stored whose val is empty, and what a client was told of a key is what a
\* lookup would read there now.
ToldRight ==
  /\ \A k \in Keys : \A i \in DOMAIN pairs[k] : pairs[k][i].val # Empty
  /\ \A c \in Clients :
       told[c] # NoCall => /\ Len(pairs[told[c].key]) = 1
                           /\ Text(pairs[told[c].key][1]) = told[c].val

\* What the property says of a step.
SwapsTold ==
  \A c \in Clients :
    /\ call[c] # NoCall /\ call[c].op = "compare_swap" /\ call'[c] = NoCall
    /\ told[c] = [key |-> call[c].key, val |-> call[c].val]
    /\ Plain(pairs[call[c].key])
    => answer'.status = "000"

\* What is sent is never empty.
LEMMA SentIsNotEmpty ==
  ASSUME NEW v \in Strings
  PROVE  Sent(v).val # Empty /\ NewSent(v) # Empty
BY ZHTKeyValueAssumption DEF Sent, NewSent, ZHTKeyValueAssumption

\* A value that reads as it is compared is taken for what the lookup told.
LEMMA PlainIsTaken ==
  ASSUME NEW ps \in Seq(Packs), Plain(ps), ps[1].val # Empty,
         NEW v \in Strings, Text(ps[1]) = v, NEW p \in Parsed(ps)
  PROVE  p.val = Sent(v).val
<1>1. Len(ps) = 1 /\ DOMAIN ps = {1} /\ ps # <<>>
  BY DEF Plain
<1>2. p.val = ps[1].val
  BY <1>1 DEF Parsed
<1>3. CASE ps[1].null
  BY <1>2, <1>3 DEF Plain, Text, Sent
<1>4. CASE ~ps[1].null
  BY <1>2, <1>4 DEF Plain, Text, Sent
<1>5. QED
  BY <1>3, <1>4

LEMMA OnePiece ==
  ASSUME NEW q \in Packs, q.val # Empty
  PROVE  <<q>> \in Seq(Packs) /\ \A i \in DOMAIN <<q>> : <<q>>[i].val # Empty
OBVIOUS

\* A step that changes one pair only outdates what was told of that pair.
LEMMA OutdatedOnly ==
  ASSUME TypeOK, ToldRight, NEW k \in Keys, NEW ps \in Seq(Packs),
         pairs' = [pairs EXCEPT ![k] = ps],
         NEW d \in Clients, told[d] # NoCall, ~Outdated(d, k)
  PROVE  Len(pairs'[told[d].key]) = 1 /\ Text(pairs'[told[d].key][1]) = told[d].val
<1>1. told[d].key \in Keys
  BY DEF TypeOK
<1>2. pairs'[told[d].key] = pairs[told[d].key]
  BY <1>1 DEF Outdated, TypeOK
<1>3. QED
  BY <1>2 DEF ToldRight

\* So the answer to a request keeps what was told right.
LEMMA TellsRight ==
  ASSUME TypeOK, ToldRight, NEW k \in Keys, NEW ps \in Seq(Packs),
         \A i \in DOMAIN ps : ps[i].val # Empty,
         pairs' = [pairs EXCEPT ![k] = ps],
         TellsNothing(k) \/ \E c \in Clients : Tells(c, k, pairs'[k])
  PROVE  ToldRight'
<1>1. pairs'[k] = ps /\ \A j \in Keys \ {k} : pairs'[j] = pairs[j]
  BY DEF TypeOK
<1>2. \A j \in Keys : \A i \in DOMAIN pairs'[j] : pairs'[j][i].val # Empty
  BY <1>1 DEF ToldRight
<1>3. ASSUME NEW d \in Clients, told'[d] # NoCall
      PROVE  Len(pairs'[told'[d].key]) = 1 /\ Text(pairs'[told'[d].key][1]) = told'[d].val
  <2>1. CASE told'[d] = told[d] /\ ~Outdated(d, k)
    BY <1>3, <2>1, OutdatedOnly
  <2>2. CASE Len(ps) = 1 /\ told'[d] = [key |-> k, val |-> Text(ps[1])]
    BY <1>1, <2>2
  <2>3. QED
    <3>1. CASE TellsNothing(k)
      BY <1>3, <2>1, <3>1 DEF TellsNothing
    <3>2. ASSUME NEW c \in Clients, Tells(c, k, pairs'[k])
          PROVE  Len(pairs'[told'[d].key]) = 1 /\ Text(pairs'[told'[d].key][1]) = told'[d].val
      BY <1>1, <1>3, <2>1, <2>2, <3>2 DEF Tells
    <3>3. QED
      BY <3>1, <3>2
<1>4. QED
  BY <1>2, <1>3 DEF ToldRight

\* Other steps leave the pairs and what was told of them.
LEMMA UntoldRight ==
  ASSUME ToldRight, pairs' = pairs, told' = told
  PROVE  ToldRight'
BY DEF ToldRight

LEMMA ServerTold ==
  ASSUME Line, ToldRight, NEW c \in Clients, Server(c)
  PROVE  ToldRight' /\ SwapsTold
<1> DEFINE k == call[c].key
<1>1. call[c] # NoCall /\ call[c] \in Requests
  <2>1. call[c].op \in Ops
    BY DEF Server, Lookup, Insert, AppendTo, Remove, CompareSwap, StateChangeCallback, Asks, Ops
  <2>2. QED
    BY <2>1, AskedIsRequest DEF Line, TypeOK
<1>2. /\ k \in Keys /\ call[c].val \in Strings /\ call[c].new \in Strings
      /\ pairs[k] \in Seq(Packs)
  BY <1>1, RequestFields DEF Line, TypeOK
<1>3. /\ Sent(call[c].val) \in Packs /\ Sent(call[c].val).val # Empty
      /\ NewSent(call[c].new) # Empty /\ NewSent(call[c].new) \in Strings \union {Caret, Question}
  BY <1>2, SentIsPack, SentIsNotEmpty
<1>4. \A i \in DOMAIN pairs[k] : pairs[k][i].val # Empty
  BY <1>2 DEF ToldRight
<1>5. TypeOK /\ pairs \in [Keys -> Seq(Packs)]
  BY DEF Line, TypeOK
<1>6. ASSUME call[c].op # "compare_swap"
      PROVE  SwapsTold
  <2>1. \A d \in Clients : d # c => call'[d] = call[d]
    BY <1>5 DEF Server, Lookup, Insert, AppendTo, Remove, CompareSwap, Swap,
       StateChangeCallback, Serves, Answers, TypeOK
  <2>2. QED
    BY <1>6, <2>1 DEF SwapsTold
<1>7. CASE Lookup(c)
  <2>1. pairs' = [pairs EXCEPT ![k] = pairs[k]] /\ Tells(c, k, pairs'[k])
    BY <1>2, <1>5, <1>7 DEF Lookup
  <2>2. ToldRight'
    BY <1>2, <1>4, <1>5, <2>1, TellsRight
  <2>3. QED
    BY <1>6, <1>7, <2>2 DEF Lookup, Asks
<1>8. CASE Insert(c)
  <2>1. pairs' = [pairs EXCEPT ![k] = <<Sent(call[c].val)>>] /\ TellsNothing(k)
    BY <1>8 DEF Insert, Store!Put
  <2>2. /\ <<Sent(call[c].val)>> \in Seq(Packs)
        /\ \A i \in DOMAIN <<Sent(call[c].val)>> : <<Sent(call[c].val)>>[i].val # Empty
    BY <1>3, OnePiece
  <2>3. ToldRight'
    BY <1>2, <1>5, <2>1, <2>2, TellsRight
  <2>4. QED
    BY <1>6, <1>8, <2>3 DEF Insert, Asks
<1>9. CASE AppendTo(c)
  <2>1. pairs' = [pairs EXCEPT ![k] = Append(pairs[k], Sent(call[c].val))] /\ TellsNothing(k)
    BY <1>9 DEF AppendTo, Store!Extend
  <2>2. /\ Append(pairs[k], Sent(call[c].val)) \in Seq(Packs)
        /\ \A i \in DOMAIN Append(pairs[k], Sent(call[c].val)) :
             Append(pairs[k], Sent(call[c].val))[i].val # Empty
    BY <1>2, <1>3, <1>4
  <2>3. ToldRight'
    BY <1>2, <1>5, <2>1, <2>2, TellsRight
  <2>4. QED
    BY <1>6, <1>9, <2>3 DEF AppendTo, Asks
<1>10. CASE Remove(c)
  <2>1. pairs' = [pairs EXCEPT ![k] = <<>>] /\ TellsNothing(k)
    BY <1>10 DEF Remove, Store!Drop
  <2>2. <<>> \in Seq(Packs) /\ \A i \in DOMAIN <<>> : <<>>[i].val # Empty
    OBVIOUS
  <2>3. ToldRight'
    BY <1>2, <1>5, <2>1, <2>2, TellsRight
  <2>4. QED
    BY <1>6, <1>10, <2>3 DEF Remove, Asks
<1>11. CASE CompareSwap(c)
  <2>1. PICK p \in Parsed(pairs[k]) :
          IF p.val = Sent(call[c].val).val
            THEN /\ Store!Put(k, [p EXCEPT !.val = NewSent(call[c].new)])
                 /\ Serves(c, "000")
            ELSE /\ UNCHANGED pairs
                 /\ Serves(c, "-04")
    BY <1>11 DEF CompareSwap, Swap
  <2>2. Tells(c, k, pairs'[k])
    BY <1>11 DEF CompareSwap
  <2>3. \E ps \in Seq(Packs) : /\ \A i \in DOMAIN ps : ps[i].val # Empty
                               /\ pairs' = [pairs EXCEPT ![k] = ps]
    <3>1. CASE p.val = Sent(call[c].val).val
      <4> DEFINE q == [p EXCEPT !.val = NewSent(call[c].new)]
      <4>1. p \in Packs
        BY <1>2, ParsedArePacks
      <4>2. q \in Packs /\ q.val # Empty
        BY <1>3, <4>1 DEF Packs
      <4>3. <<q>> \in Seq(Packs) /\ \A i \in DOMAIN <<q>> : <<q>>[i].val # Empty
        <5> HIDE DEF q
        <5>1. QED
          BY <4>2, OnePiece
      <4>4. pairs' = [pairs EXCEPT ![k] = <<q>>]
        BY <2>1, <3>1 DEF Store!Put
      <4>5. QED
        BY <4>3, <4>4
    <3>2. CASE p.val # Sent(call[c].val).val
      <4>1. pairs' = [pairs EXCEPT ![k] = pairs[k]]
        BY <1>2, <1>5, <2>1, <3>2
      <4>2. QED
        BY <1>2, <1>4, <4>1
    <3>3. QED
      BY <3>1, <3>2
  <2>4. ToldRight'
    BY <1>2, <1>5, <2>2, <2>3, TellsRight
  <2>5. SwapsTold
    <3>1. SUFFICES ASSUME NEW d \in Clients, call[d] # NoCall, call'[d] = NoCall,
                          told[d] = [key |-> call[d].key, val |-> call[d].val],
                          Plain(pairs[call[d].key])
                   PROVE  answer'.status = "000"
      BY DEF SwapsTold
    <3>2. d = c
      BY <1>5, <2>1, <3>1 DEF Serves, Answers, TypeOK
    <3>3. told[c] # NoCall /\ told[c].key = k /\ told[c].val = call[c].val
      <4>1. told[c].val = call[c].val /\ told[c].key = k
        BY <3>1, <3>2
      <4>2. DOMAIN told[c] = {"key", "val"} /\ DOMAIN NoCall = {"op"}
        BY <3>1, <3>2 DEF NoCall
      <4>3. "key" \in DOMAIN told[c] /\ "key" \notin DOMAIN NoCall
        BY <4>2
      <4>4. QED
        BY <4>1, <4>3
    <3>4. Text(pairs[k][1]) = call[c].val /\ Len(pairs[k]) = 1
      BY <3>3 DEF ToldRight
    <3>5. pairs[k][1].val # Empty
      BY <1>2, <1>4, <3>4
    <3>6. p.val = Sent(call[c].val).val
      BY <1>2, <3>1, <3>2, <3>4, <3>5, PlainIsTaken
    <3>7. Serves(c, "000")
      BY <2>1, <3>6
    <3>8. QED
      BY <3>7 DEF Serves, Answers
  <2>6. QED
    BY <2>4, <2>5
<1>12. CASE StateChangeCallback(c)
  BY <1>6, <1>12, UntoldRight DEF StateChangeCallback, Asks
<1>13. QED
  BY <1>7, <1>8, <1>9, <1>10, <1>11, <1>12 DEF Server

\* The polling thread neither changes a pair nor answers a swap.
LEMMA PollerTold ==
  ASSUME Line, ToldRight, Poller
  PROVE  ToldRight' /\ SwapsTold
<1>1. pairs' = pairs /\ told' = told
  BY DEF Poller, Take, Get, Read, Sleep, serverVars, history
<1>2. ASSUME call' # call
      PROVE  /\ poller.client \in InLine /\ poller.client \in Clients
             /\ call' = [call EXCEPT ![poller.client] = NoCall]
  <2>1. Read \/ Sleep
    BY <1>2 DEF Poller, Take, Get
  <2>2. poller.client \in InLine /\ poller.client \in Clients
    BY <2>1, PolledFor DEF Read, Sleep, Line
  <2>3. call' = [call EXCEPT ![poller.client] = NoCall]
    BY <1>2, <2>1 DEF Read, Sleep, Leaves, Answers
  <2>4. QED
    BY <2>2, <2>3
<1>3. SwapsTold
  <2>1. CASE call' = call
    BY <2>1 DEF SwapsTold
  <2>2. CASE call' # call
    <3>1. call[poller.client].op = "state_change_callback"
      BY <1>2, <2>2 DEF Line, InLineOnce
    <3>2. \A d \in Clients : d # poller.client => call'[d] = call[d]
      BY <1>2, <2>2 DEF Line, TypeOK
    <3>3. QED
      BY <3>1, <3>2 DEF SwapsTold
  <2>3. QED
    BY <2>1, <2>2
<1>4. QED
  BY <1>1, <1>3, UntoldRight

LEMMA CallTold ==
  ASSUME Line, ToldRight, NEW c \in Clients, Call(c)
  PROVE  ToldRight' /\ SwapsTold
<1>1. pairs' = pairs /\ told' = told
  BY DEF Call, serverVars, history
<1>2. call[c] = NoCall /\ \A d \in Clients : d # c => call'[d] = call[d]
  BY DEF Call, Line, TypeOK
<1>3. QED
  BY <1>1, <1>2, UntoldRight DEF SwapsTold

\* A client that swaps the value it was told, if that is in one piece and reads as it is
\* compared, fails only when the pair was changed in between: for any clients, keys and
\* values, and whatever the polling thread does.
THEOREM SwapOfToldSucceeds == Spec => SwapFailsForCause
<1>1. Init => ToldRight
  BY DEF Init, Store!Init, ToldRight
<1>2. Line /\ ToldRight /\ [Next]_vars => ToldRight'
  <2>1. SUFFICES ASSUME Line, ToldRight, [Next]_vars
                 PROVE  ToldRight'
    OBVIOUS
  <2>2. CASE UNCHANGED vars
    BY <2>1, <2>2, UntoldRight DEF vars, serverVars, history
  <2>3. CASE Next
    BY <2>1, <2>3, CallTold, ServerTold, PollerTold DEF Next
  <2>4. QED
    BY <2>1, <2>2, <2>3
<1>3. Line /\ ToldRight /\ [Next]_vars => [SwapsTold]_vars
  BY CallTold, ServerTold, PollerTold DEF Next
<1>4. [SwapsTold]_vars =>
        [\A c \in Clients :
           /\ call[c] # NoCall /\ call[c].op = "compare_swap" /\ call'[c] = NoCall
           /\ told[c] = [key |-> call[c].key, val |-> call[c].val]
           /\ Plain(pairs[call[c].key])
           => answer'.status = "000"]_vars
  BY DEF SwapsTold
<1>5. QED
  BY <1>1, <1>2, <1>3, <1>4, InitLine, LineInductive, PTL DEF Spec, SwapFailsForCause
=============================================================================
