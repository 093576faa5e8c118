---------------------------- MODULE ZHTKeyValue ----------------------------
(***************************************************************************)
(* The key-value calls of ZHT: insert, append, lookup, remove,             *)
(* compare_swap and state_change_callback (zht/HTWorker.cpp), as clients   *)
(* use them (zht/cpp_zhtclient.cpp).  The table is a PairStore, which      *)
(* NoVoHT implements.                                                      *)
(*                                                                         *)
(* One thread of the server does the requests, each in one step, and       *)
(* answers them itself, but for state_change_callback: that goes into a    *)
(* queue (PQUEUE), which a second thread serves, one request after the     *)
(* other, each until the value is the expected one or its lease is over.   *)
(* This thread asks the table for a pointer and reads the value through it *)
(* with no lock, while the first one goes on.                              *)
(*                                                                         *)
(* A value is stored as the package it came in.  The client sends an empty *)
(* value as "^" and sets valnull, and an empty new value as "?" and sets   *)
(* newvalnull, which the server does not look at.  Time is counted in      *)
(* polls, of SCCB_POLL_INTERVAL each.                                      *)
(***************************************************************************)
EXTENDS Integers, Sequences, FiniteSets

CONSTANTS
  Clients,    \* client threads, each with one call at a time
  Keys,       \* keys
  Strings,    \* what clients put, append, expect and see: not "^" or "?"
  Empty,      \* the empty one of them
  Caret,      \* "^"
  Question,   \* "?"
  Leases,     \* leases, in polls
  MaxPieces,  \* bound: pieces of a value
  Nobody      \* no client

ASSUME ZHTKeyValueAssumption ==
  /\ Empty \in Strings
  /\ {Caret, Question} \cap Strings = {}
  /\ Caret # Question
  /\ Leases \subseteq Nat
  /\ IsFiniteSet(Leases)
  /\ IsFiniteSet(Clients)
  /\ MaxPieces \in Nat
  /\ Nobody \notin Clients

VARIABLES
  pairs,    \* pairs[k]: the packages of k's value
  call,     \* call[c]: the request c waits for an answer to
  answer,   \* the answer sent in the last step: to whom, and its status
  queue,    \* PQUEUE: whose callbacks wait
  poller,   \* the thread that serves it
  wild,     \* that thread has used memory the server had freed or was changing
  told,     \* history: told[c]: a value in one piece that c was told of a key, and that
            \*          has not been changed since
  matched,  \* history: clients in line whose expected value has been there
  waited    \* history: waited[c]: polls since its callback was queued

serverVars == <<pairs, queue>>
history == <<told, matched, waited>>
vars == <<serverVars, call, answer, poller, wild, history>>

Packs == [val : Strings \union {Caret, Question}, null : BOOLEAN]

Store == INSTANCE PairStore WITH Vals <- Packs

Ops == {"lookup", "remove", "insert", "append", "compare_swap", "state_change_callback"}

\* What commonOp is given: values and a lease where the call has them.
Requests ==
  {r \in [op : Ops, key : Keys, val : Strings, new : Strings, lease : Leases \union {1}] :
     /\ r.op \in {"lookup", "remove"} => r.val = Empty
     /\ r.op # "compare_swap" => r.new = Empty
     /\ IF r.op = "state_change_callback" THEN r.lease \in Leases ELSE r.lease = 1}

NoCall == [op |-> "none"]
NoAnswer == [to |-> Nobody, status |-> "none"]

-----------------------------------------------------------------------------
(***************************************************************************)
(* Packages.                                                               *)
(***************************************************************************)

\* The val and valnull that commonOpInternal sends.
Sent(v) == [val |-> IF v = Empty THEN Caret ELSE v, null |-> v = Empty]

\* Its newval.
NewSent(v) == IF v = Empty THEN Question ELSE v

\* extract_value: what a lookup's caller reads of a piece.
Text(p) == IF p.null THEN Empty ELSE p.val

\* Slip in compare_swap, for mutation testing: the status is not taken off what
\* lookup_shared returns, which then does not parse.
ParsedWithStatus(ps) == {[val |-> Empty, null |-> FALSE]}

\* What the server may get when it parses a stored value: nothing of "Empty", which
\* stands for no value, and a mixture of several pieces.
Parsed(ps) ==
  IF ps = <<>> THEN {[val |-> Empty, null |-> FALSE]}
  ELSE {[val |-> ps[i].val, null |-> ps[j].null] : i, j \in DOMAIN ps}

\* A value in one piece that reads as it is compared.
Plain(ps) == Len(ps) = 1 /\ (ps[1].null <=> ps[1].val = Caret) /\ ps[1].val # Question

\* The value may be taken for the one c expects.
Matches(c, ps) == \E p \in Parsed(ps) : p.val = Sent(call[c].val).val

-----------------------------------------------------------------------------
(***************************************************************************)
(* The server thread.                                                      *)
(***************************************************************************)
Idle == [phase |-> "idle", client |-> Nobody, held |-> <<>>, lapsed |-> 0, status |-> "none"]

Init ==
  /\ Store!Init
  /\ call = [c \in Clients |-> NoCall]
  /\ answer = NoAnswer
  /\ queue = <<>>
  /\ poller = [Idle EXCEPT !.phase = "none"]
  /\ wild = FALSE
  /\ told = [c \in Clients |-> NoCall]
  /\ matched = {}
  /\ waited = [c \in Clients |-> 0]

\* Clients whose callback is queued or polled for.
InLine == {queue[i] : i \in DOMAIN queue} \union ({poller.client} \ {Nobody})

\* The pieces k's value may come to have.
PiecesDue(k) ==
  Len(pairs[k]) + Cardinality({d \in Clients : call[d] # NoCall /\ call[d].op = "append"
                                                /\ call[d].key = k})

\* commonOp sends a request.
Call(c) ==
  /\ call[c] = NoCall
  /\ ~wild
  /\ \E r \in Requests :
       /\ r.op = "append" => PiecesDue(r.key) < MaxPieces
       /\ call' = [call EXCEPT ![c] = r]
  /\ answer' = NoAnswer
  /\ UNCHANGED <<serverVars, poller, wild, history>>

Answers(c, status) ==
  /\ answer' = [to |-> c, status |-> status]
  /\ call' = [call EXCEPT ![c] = NoCall]

\* c's request is what the server thread does next.
Asks(c, op) == call[c].op = op /\ ~wild

\* It answers c.
Serves(c, status) ==
  /\ Answers(c, status)
  /\ matched' = matched \union {d \in InLine : Matches(d, pairs'[call[d].key])}
  /\ UNCHANGED <<queue, poller, wild, waited>>

\* What d was told of k is no longer so.
Outdated(d, k) == pairs' # pairs /\ told[d] # NoCall /\ told[d].key = k

\* The answer to c carries the value ps of k, or says nothing of it.
Tells(c, k, ps) ==
  told' = [d \in Clients |-> IF d = c /\ Len(ps) = 1 THEN [key |-> k, val |-> Text(ps[1])]
                             ELSE IF d = c \/ Outdated(d, k) THEN NoCall ELSE told[d]]

TellsNothing(k) ==
  told' = [d \in Clients |-> IF Outdated(d, k) THEN NoCall ELSE told[d]]

Lookup(c) ==
  LET k == call[c].key
  IN /\ Asks(c, "lookup")
     /\ UNCHANGED pairs
     /\ Serves(c, IF pairs[k] = <<>> THEN "-92" ELSE "000")
     /\ Tells(c, k, pairs[k])

Insert(c) ==
  /\ Asks(c, "insert")
  /\ Store!Put(call[c].key, Sent(call[c].val))
  /\ Serves(c, "000")
  /\ TellsNothing(call[c].key)

AppendTo(c) ==
  LET k == call[c].key
  IN /\ Asks(c, "append")
     /\ Store!Extend(k, Sent(call[c].val))
     /\ Serves(c, "000")
     /\ TellsNothing(k)

Remove(c) ==
  LET k == call[c].key
  IN /\ Asks(c, "remove")
     /\ Store!Drop(k)
     /\ Serves(c, IF pairs[k] = <<>> THEN "-92" ELSE "000")
     /\ TellsNothing(k)

\* compare_swap_internal: the package that was stored is put again with another val, and
\* whatever valnull it had.
Swap(c) ==
  LET k == call[c].key
  IN \E p \in Parsed(pairs[k]) :
       IF p.val = Sent(call[c].val).val
         THEN /\ Store!Put(k, [p EXCEPT !.val = NewSent(call[c].new)])
              /\ Serves(c, "000")
         ELSE /\ UNCHANGED pairs
              /\ Serves(c, "-04")

\* compare_swap looks the value up again after the swap, done or not.
CompareSwap(c) ==
  /\ Asks(c, "compare_swap")
  /\ Swap(c)
  /\ Tells(c, call[c].key, pairs'[call[c].key])

\* state_change_callback: the first one starts the polling thread, or fails to, which
\* nobody looks at.
StateChangeCallback(c) ==
  /\ Asks(c, "state_change_callback")
  /\ c \notin InLine
  /\ queue' = Append(queue, c)
  /\ IF poller.phase = "none"
       THEN \E phase \in {"idle", "failed"} : poller' = [poller EXCEPT !.phase = phase]
       ELSE UNCHANGED poller
  /\ matched' = IF Matches(c, pairs[call[c].key]) THEN matched \union {c} ELSE matched
  /\ answer' = NoAnswer
  /\ UNCHANGED <<pairs, call, wild, told, waited>>

Server(c) ==
  \/ Lookup(c) \/ Insert(c) \/ AppendTo(c) \/ Remove(c)
  \/ CompareSwap(c) \/ StateChangeCallback(c)

-----------------------------------------------------------------------------
(***************************************************************************)
(* The polling thread: threaded_state_change_callback.                     *)
(***************************************************************************)

\* Slip in TSafeQueue, for mutation testing: the last request is taken.
TakeLast ==
  /\ poller' = [Idle EXCEPT !.phase = "get", !.client = queue[Len(queue)]]
  /\ queue' = SubSeq(queue, 1, Len(queue) - 1)

\* Slip: it stays in the queue.
PeekFirst ==
  /\ poller' = [Idle EXCEPT !.phase = "get", !.client = Head(queue)]
  /\ UNCHANGED queue

TakeFirst ==
  /\ poller' = [Idle EXCEPT !.phase = "get", !.client = Head(queue)]
  /\ queue' = Tail(queue)

\* PQUEUE->pop
Take ==
  /\ poller.phase = "idle"
  /\ queue # <<>>
  /\ ~wild
  /\ TakeFirst
  /\ answer' = NoAnswer
  /\ UNCHANGED <<pairs, call, wild, history>>

\* PMAP->get: a pointer, or nothing, which may also come of a resize in between.
Get ==
  LET ps == pairs[call[poller.client].key]
  IN /\ poller.phase = "get"
     /\ ~wild
     /\ \/ /\ ps # <<>>
           /\ poller' = [poller EXCEPT !.phase = "read", !.held = ps]
        \/ poller' = [poller EXCEPT !.phase = "sleep", !.status = "-92"]
     /\ answer' = NoAnswer
     /\ UNCHANGED <<serverVars, call, wild, history>>

\* Slip in state_change_callback_internal, for mutation testing: newval is compared.
ComparedNew(p) == IF p.val = Sent(call[poller.client].new).val THEN "000" ELSE "-91"

\* The status for the package that has been parsed.
Compared(p) == IF p.val = Sent(call[poller.client].val).val THEN "000" ELSE "-91"

\* Slip in the polling loop, for mutation testing: the request goes without an answer.
LeavesSilently(c, status, waits) ==
  /\ poller' = Idle
  /\ matched' = matched \ {c}
  /\ waited' = [waits EXCEPT ![c] = 0]
  /\ answer' = NoAnswer
  /\ UNCHANGED call

\* sendBack and delete pwta: c is answered and no longer in line.
Leaves(c, status, waits) ==
  /\ Answers(c, status)
  /\ poller' = Idle
  /\ matched' = matched \ {c}
  /\ waited' = [waits EXCEPT ![c] = 0]

\* What the pointer leads to.  When the server has changed or freed that in the meantime,
\* it is the old value, the new one, or something else.
Reached(ps) ==
  Parsed(poller.held) \union IF ps = poller.held THEN {} ELSE Parsed(ps) \union Parsed(<<>>)

\* The value is parsed and compared, if the server survives that.
Read ==
  LET c == poller.client
      ps == pairs[call[c].key]
  IN /\ poller.phase = "read"
     /\ ~wild
     /\ wild' \in IF ps = poller.held THEN {FALSE} ELSE BOOLEAN
     /\ \E p \in Reached(ps) :
          IF Compared(p) = "000"
            THEN Leaves(c, "000", waited)
            ELSE /\ poller' = [poller EXCEPT !.phase = "sleep", !.held = <<>>, !.status = "-91"]
                 /\ answer' = NoAnswer
                 /\ UNCHANGED <<call, matched, waited>>
     /\ UNCHANGED <<serverVars, told>>

\* Slip in the polling loop, for mutation testing: mslapsed counts down.
LapsedLess == poller.lapsed - 1

\* mslapsed += SCCB_POLL_INTERVAL
Lapsed == poller.lapsed + 1

\* mslapsed >= lease
LeaseOver == Lapsed >= call[poller.client].lease

Later == [d \in Clients |-> IF d \in InLine THEN waited[d] + 1 ELSE 0]

\* usleep, and then another poll or the answer that the last one has made.
Sleep ==
  /\ poller.phase = "sleep"
  /\ ~wild
  /\ IF LeaseOver
       THEN Leaves(poller.client, poller.status, Later)
       ELSE /\ poller' = [poller EXCEPT !.phase = "get", !.lapsed = Lapsed]
            /\ waited' = Later
            /\ answer' = NoAnswer
            /\ UNCHANGED <<call, matched>>
  /\ UNCHANGED <<serverVars, wild, told>>

Poller == Take \/ Get \/ Read \/ Sleep

Next == (\E c \in Clients : Call(c) \/ Server(c)) \/ Poller

\* The server's loop comes to each request, and the polling thread is scheduled.
Fairness == WF_vars(Poller) /\ \A c \in Clients : WF_vars(Server(c))

Spec == Init /\ [][Next]_vars /\ Fairness

-----------------------------------------------------------------------------
(***************************************************************************)
(* Properties.                                                             *)
(***************************************************************************)

\* Every variable keeps its type.
TypeOK ==
  /\ pairs \in [Keys -> Seq(Packs)]
  /\ call \in [Clients -> Requests \union {NoCall}]
  /\ answer \in [to : Clients \union {Nobody}, status : {"none", "000", "-04", "-91", "-92"}]
  /\ queue \in Seq(Clients)
  /\ poller \in [phase : {"none", "failed", "idle", "get", "read", "sleep"},
                 client : Clients \union {Nobody}, held : Seq(Packs), lapsed : Nat,
                 status : {"none", "-91", "-92"}]
  /\ wild \in BOOLEAN
  /\ told \in [Clients -> [key : Keys, val : Strings \union {Caret, Question}] \union {NoCall}]
  /\ matched \subseteq Clients
  /\ waited \in [Clients -> Nat]

\* A callback is queued once or polled for, never both, until its client is answered: no
\* request is dropped by a lease that runs out, and none is answered twice.
InLineOnce ==
  /\ \A i, j \in DOMAIN queue : queue[i] = queue[j] => i = j
  /\ \A i \in DOMAIN queue : queue[i] # poller.client
  /\ \A c \in InLine : call[c] # NoCall /\ call[c].op = "state_change_callback"
  /\ (poller.client = Nobody) <=> (poller.phase \in {"none", "failed", "idle"})

\* A client that swaps what it was told fails only if the pair was changed since, or the
\* value was appended to or has been empty.
SwapFailsForCause ==
  [][\A c \in Clients :
       /\ call[c] # NoCall /\ call[c].op = "compare_swap" /\ call'[c] = NoCall
       /\ told[c] = [key |-> call[c].key, val |-> call[c].val]
       /\ Plain(pairs[call[c].key])
       => answer'.status = "000"]_vars

\* A callback that succeeds does so because the expected value has been there since it
\* was queued, even if it was read while the server changed it.
SuccessWasTrue ==
  [][\A c \in InLine : answer' = [to |-> c, status |-> "000"] => c \in matched]_vars

\* A callback waits for its own lease and for one call of each other client: never for
\* one that came later, nor twice for the same client.
WaitBounded ==
  LET longest == CHOOSE n \in Leases \union {1} : \A m \in Leases \union {1} : m <= n
  IN \A c \in InLine : waited[c] < Cardinality(Clients) * longest

\* Time and again each client is at no call: all its calls are answered, if the polling
\* thread could be created.
CallsAnswered ==
  \A c \in Clients :
    []<>(call[c] = NoCall \/ wild \/ poller.phase = "failed")
=============================================================================
