------------------------------ MODULE ZHTQueue ------------------------------
(***************************************************************************)
(* The task queue of CloudKonPlus: the PUSH, POP, ADD_NODE and FETCH_NODE  *)
(* handlers of the ZHT server (zht/HTWorker.cpp) and the client's          *)
(* commonOp (zht/cpp_zhtclient.cpp), which turns one push or pop into up   *)
(* to four requests to different servers.                                  *)
(*                                                                         *)
(* A server is single threaded and a client waits for the reply of each    *)
(* request, so a request, its handler and its reply are one step; the      *)
(* steps of different clients interleave between requests.  A request may  *)
(* also fail to be sent, or its answer to come back: the client cannot     *)
(* tell which, reads "-04" and goes on as if the server had said so.       *)
(*                                                                         *)
(* Replies are told apart as the client does: by the first three           *)
(* characters, or by all of them when the reply is 36 characters long.     *)
(* A uuid goes over the wire bare, so KeyStatus gives the status the       *)
(* client reads into each key it may be answered with.  No task of the     *)
(* repository's clients makes a reply of 36 characters (the shortest are   *)
(* 33 for the start-up task and over 45 for real ones), so a task always   *)
(* reads as "000".                                                         *)
(***************************************************************************)
EXTENDS Naturals, Sequences, FiniteSets

CONSTANTS
  Servers,       \* ZHT servers of neighbor.conf
  Clients,       \* threads that call ZHTClient::push and ZHTClient::pop
  Tasks,         \* task values; each is pushed at most once
  Keys,          \* the keys (uuids) tasks are pushed under
  KeyOf,         \* KeyOf[t]: the key task t is pushed under
  PopKey,        \* the key a pop is called with; it only selects a server
  HostOf,        \* HostOf[k]: the server a name hashes to
  PrefixHost,    \* PrefixHost[k]: the server the first 3 characters of k hash to
  KeyStatus,     \* KeyStatus[k]: what the client reads into a bare reply k
  MetaHost,      \* the server "q1" hashes to: it keeps the metadata queue
  FallbackHost,  \* the server "-92" hashes to
  ErrorHost,     \* the server "-04" hashes to
  MaxFaults,     \* bound on the requests that get no answer from a live server
  NoUuid,        \* the empty string in firstUuid
  NoTask         \* no value stored

Names == Keys \union {PopKey}

ASSUME ConstantsAssumption ==
  /\ KeyOf \in [Tasks -> Keys]
  /\ PopKey \notin Keys
  /\ HostOf \in [Names -> Servers]
  /\ PrefixHost \in [Names -> Servers]
  /\ KeyStatus \in [Keys -> {"uuid", "100", "200", "code"}]
  /\ {MetaHost, FallbackHost, ErrorHost} \subseteq Servers
  /\ MaxFaults \in Nat
  /\ NoUuid \notin Names
  /\ NoTask \notin Tasks

VARIABLES
  uuiddata,   \* uuiddata[s]: queue of keys, in the memory of server s
  firstUuid,  \* firstUuid[s]: key whose push last found uuiddata[s] empty
  pmap,       \* pmap[s]: the NoVoHT table of s
  meta,       \* list meta of MetaHost: entries numbered in order of push_front
  added,      \* number of push_fronts on meta
  up,         \* up[s]: the server process lives
  pc,         \* pc[c]: the next request of client c's current call
  arg,        \* arg[c]: the value that request carries
  dest,       \* dest[c]: where a third pop will go
  pushed,     \* tasks whose push has been called
  refused,    \* tasks whose push did not reach a live server
  delivered,  \* delivered[t]: how many answers of pops carried t
  silent,     \* names whose ADD_NODE was never sent
  faults      \* number of requests that a live server did not answer

serverVars == <<uuiddata, firstUuid, pmap>>
metaVars == <<meta, added>>
clientVars == <<pc, arg, dest>>
historyVars == <<pushed, refused, delivered>>
faultVars == <<silent, faults>>
vars == <<serverVars, metaVars, up, clientVars, historyVars, faultVars>>

Phases == {"idle", "addnode", "fetch", "pop2", "retire", "pop3"}

(***************************************************************************)
(* Server side.                                                            *)
(***************************************************************************)

\* Slips in push_shared, for mutation testing of the properties: the key is stored in
\* place of the value; emptiness is tested after the key went in; the key is put in
\* front of the queue; only a key that finds the queue empty is enqueued.
PushStoresKey(s, k, t) ==
  /\ uuiddata' = [uuiddata EXCEPT ![s] = Append(@, k)]
  /\ pmap' = [pmap EXCEPT ![s][k] = k]
  /\ firstUuid' = [firstUuid EXCEPT ![s] = IF uuiddata[s] = <<>> THEN k ELSE @]

PushTestsLate(s, k, t) ==
  /\ uuiddata' = [uuiddata EXCEPT ![s] = Append(@, k)]
  /\ pmap' = [pmap EXCEPT ![s][k] = t]
  /\ firstUuid' = [firstUuid EXCEPT ![s] = IF uuiddata'[s] = <<>> THEN k ELSE @]

PushAtFront(s, k, t) ==
  /\ uuiddata' = [uuiddata EXCEPT ![s] = <<k>> \o @]
  /\ pmap' = [pmap EXCEPT ![s][k] = t]
  /\ firstUuid' = [firstUuid EXCEPT ![s] = IF uuiddata[s] = <<>> THEN k ELSE @]

PushOnlyFirst(s, k, t) ==
  /\ uuiddata' = [uuiddata EXCEPT ![s] = IF @ = <<>> THEN <<k>> ELSE @]
  /\ pmap' = [pmap EXCEPT ![s][k] = t]
  /\ firstUuid' = [firstUuid EXCEPT ![s] = IF uuiddata[s] = <<>> THEN k ELSE @]

\* push_shared: enqueue the key, then insert_shared stores the value; a push that
\* finds the queue empty becomes firstUuid and answers "100", whatever the insert did.
PushHandler(s, k, t) ==
  /\ uuiddata' = [uuiddata EXCEPT ![s] = Append(@, k)]
  /\ pmap' = [pmap EXCEPT ![s][k] = t]
  /\ firstUuid' = [firstUuid EXCEPT ![s] = IF uuiddata[s] = <<>> THEN k ELSE @]

\* Status of the answer of pop_shared, as commonOpInternal reads it.
PopStatus(s) ==
  IF ~up[s] THEN "-04"
  ELSE IF uuiddata[s] # <<>>
         THEN IF pmap[s][Head(uuiddata[s])] = NoTask THEN "-92" ELSE "000"
  ELSE IF firstUuid[s] = NoUuid THEN "200"
  ELSE KeyStatus[firstUuid[s]]

\* The task in the answer of pop_shared: looked up in the table under the key in front.
PopValue(s) ==
  IF up[s] /\ uuiddata[s] # <<>> THEN pmap[s][Head(uuiddata[s])] ELSE NoTask

\* Slips in pop_shared: the front is read and stays; firstUuid is given away and kept.
PopOnlyReads(s) ==
  /\ firstUuid' = [firstUuid EXCEPT ![s] = IF up[s] /\ uuiddata[s] = <<>> THEN NoUuid ELSE @]
  /\ UNCHANGED <<uuiddata, pmap>>

PopKeepsUuid(s) ==
  /\ uuiddata' = [uuiddata EXCEPT ![s] = IF up[s] /\ @ # <<>> THEN Tail(@) ELSE @]
  /\ UNCHANGED <<firstUuid, pmap>>

\* pop_shared's effect: the front key is dequeued (its table entry stays); an empty
\* server gives its firstUuid away.
PopHandler(s) ==
  /\ IF up[s] /\ uuiddata[s] # <<>>
       THEN uuiddata' = [uuiddata EXCEPT ![s] = Tail(@)]
       ELSE UNCHANGED uuiddata
  /\ IF up[s] /\ uuiddata[s] = <<>>
       THEN firstUuid' = [firstUuid EXCEPT ![s] = NoUuid]
       ELSE UNCHANGED firstUuid
  /\ UNCHANGED pmap

\* add_node_shared: meta->push_front(val).
AddNodeHandler(u) ==
  IF up[MetaHost]
    THEN /\ added' = added + 1
         /\ meta' = meta \union {[name |-> u, no |-> added + 1]}
    ELSE UNCHANGED metaVars

\* meta->remove(val): every entry equal to val goes.
Without(u) == {e \in meta : e.name # u}

\* meta->back(): the oldest entry.
Back(list) == (CHOOSE e \in list : \A f \in list : e.no <= f.no).name

(***************************************************************************)
(* Client side: one call of commonOp.                                      *)
(***************************************************************************)

\* The request commonOp sends after a pop answered status, in the first, second or
\* third pop of the call.  A 100 adds an entry, a 200 fetches one, a status longer
\* than three characters retires it; the three tests follow each other in this order.
AfterPop(stage, status) ==
  IF stage = "pop1" /\ status = "100" THEN "addnode"
  ELSE IF stage = "pop1" /\ status = "200" THEN "fetch"
  ELSE IF stage # "pop3" /\ status = "uuid" THEN "retire"
  ELSE "idle"

\* The value the request after a pop at s carries.
AfterPopArg(next, s) ==
  IF next = "retire" THEN firstUuid[s]
  ELSE IF next = "addnode" THEN PopKey
  ELSE NoUuid

\* A request fails, or its answer, without a dead server: commonOpInternal could not
\* open the socket (each request opens one and none is closed), or not read from it.
\* The client reads an empty answer as "-04" in either case.
Fault ==
  /\ faults < MaxFaults
  /\ faults' = faults + 1

\* The request to add, fetch or retire an entry is over.
Go(c, next) ==
  /\ pc' = [pc EXCEPT ![c] = next]
  /\ arg' = [arg EXCEPT ![c] = NoUuid]

\* One pop request to s, in any of the three places of commonOp that send one.  When
\* its answer does not come back, the server has dequeued all the same.
PopAt(c, stage, s) ==
  LET next == AfterPop(stage, PopStatus(s))
      t == PopValue(s)
  IN /\ PopHandler(s)
     /\ \/ /\ pc' = [pc EXCEPT ![c] = next]
           /\ arg' = [arg EXCEPT ![c] = AfterPopArg(next, s)]
           /\ UNCHANGED faults
        \/ up[s] /\ Fault /\ Go(c, "idle")
     /\ dest' = [dest EXCEPT ![c] = MetaHost]
     /\ delivered' = IF t \in Tasks THEN [delivered EXCEPT ![t] = @ + 1] ELSE delivered
     /\ UNCHANGED <<metaVars, up, pushed, refused, silent>>

Init ==
  /\ uuiddata = [s \in Servers |-> <<>>]
  /\ firstUuid = [s \in Servers |-> NoUuid]
  /\ pmap = [s \in Servers |-> [k \in Keys |-> NoTask]]
  /\ meta = {}
  /\ added = 0
  /\ up = [s \in Servers |-> TRUE]
  /\ pc = [c \in Clients |-> "idle"]
  /\ arg = [c \in Clients |-> NoUuid]
  /\ dest = [c \in Clients |-> MetaHost]
  /\ pushed = {}
  /\ refused = {}
  /\ delivered = [t \in Tasks |-> 0]
  /\ silent = {}
  /\ faults = 0

\* ZHTClient::push: a "100" leaves an ADD_NODE of the task's key to be sent.  If the
\* "100" does not come back, nobody ever sends that; any other answer may be lost, since
\* no caller looks at it.
Push(c, t) ==
  LET k == KeyOf[t]
      s == HostOf[k]
  IN /\ pc[c] = "idle"
     /\ t \notin pushed
     /\ up[s]
     /\ PushHandler(s, k, t)
     /\ \/ /\ uuiddata[s] = <<>>
           /\ pc' = [pc EXCEPT ![c] = "addnode"]
           /\ arg' = [arg EXCEPT ![c] = k]
           /\ UNCHANGED faultVars
        \/ /\ uuiddata[s] # <<>>
           /\ UNCHANGED <<pc, arg, faultVars>>
        \/ /\ uuiddata[s] = <<>>
           /\ Fault
           /\ silent' = silent \union {k}
           /\ UNCHANGED <<pc, arg>>
     /\ pushed' = pushed \union {t}
     /\ UNCHANGED <<metaVars, up, dest, refused, delivered>>

\* A push that does not reach a live server: status "-04", and no caller retries.
PushRefused(c, t) ==
  /\ pc[c] = "idle"
  /\ t \notin pushed
  /\ IF up[HostOf[KeyOf[t]]] THEN Fault ELSE UNCHANGED faults
  /\ pushed' = pushed \union {t}
  /\ refused' = refused \union {t}
  /\ UNCHANGED <<serverVars, metaVars, up, clientVars, delivered, silent>>

\* The second request of a call answered "100".  Whether its answer comes back makes
\* no difference.
AddNode(c) ==
  /\ pc[c] = "addnode"
  /\ AddNodeHandler(arg[c])
  /\ Go(c, "idle")
  /\ UNCHANGED <<serverVars, up, dest, historyVars, faultVars>>

AddNodeUnsent(c) ==
  /\ pc[c] = "addnode"
  /\ up[MetaHost]
  /\ Fault
  /\ silent' = silent \union {arg[c]}
  /\ Go(c, "idle")
  /\ UNCHANGED <<serverVars, metaVars, up, dest, historyVars>>

\* ZHTClient::pop: the caller's key may hash to any server.  A first pop that is not
\* sent changes nothing.
Pop(c, s) == pc[c] = "idle" /\ PopAt(c, "pop1", s)

\* FETCH_NODE with no value (sent as "^", which names no entry): the answer goes to a
\* variable that is not read again, so that it may as well be lost.  back() of an empty
\* list has no defined behaviour: the server answers garbage here, or dies (FetchKills).
Fetch(c) ==
  /\ pc[c] = "fetch"
  /\ Go(c, "pop2")
  /\ UNCHANGED <<serverVars, metaVars, up, dest, historyVars, faultVars>>

FetchKills(c) ==
  /\ pc[c] = "fetch"
  /\ up[MetaHost]
  /\ meta = {}
  /\ up' = [up EXCEPT ![MetaHost] = FALSE]
  /\ Go(c, "pop2")
  /\ UNCHANGED <<serverVars, metaVars, dest, historyVars, faultVars>>

\* The pop after the fetch: its key is the status "-92", not the uuid fetched.
PopFallback(c) == pc[c] = "pop2" /\ PopAt(c, "pop2", FallbackHost)

\* FETCH_NODE of the uuid an emptied server gave away: its entries are removed and
\* the oldest one left is the key of the next pop (its first three characters when
\* it is not 36 long), or "-04" when the answer does not come back.
Retire(c) ==
  /\ pc[c] = "retire"
  /\ up[MetaHost]
  /\ Without(arg[c]) # {}
  /\ meta' = Without(arg[c])
  /\ \/ /\ LET k == Back(meta')
               long == k \in Keys /\ KeyStatus[k] = "uuid"
           IN dest' = [dest EXCEPT ![c] = IF long THEN HostOf[k] ELSE PrefixHost[k]]
        /\ UNCHANGED faults
     \/ /\ Fault
        /\ dest' = [dest EXCEPT ![c] = ErrorHost]
  /\ Go(c, "pop3")
  /\ UNCHANGED <<serverVars, added, up, historyVars, silent>>

\* The same when no entry is left: back() of an empty list answers garbage, which
\* hashes anywhere, or kills the server and with it the reply.
RetireLast(c) ==
  /\ pc[c] = "retire"
  /\ up[MetaHost]
  /\ Without(arg[c]) = {}
  /\ meta' = {}
  /\ \/ /\ \E s \in Servers : dest' = [dest EXCEPT ![c] = s]
        /\ UNCHANGED up
     \/ /\ up' = [up EXCEPT ![MetaHost] = FALSE]
        /\ dest' = [dest EXCEPT ![c] = ErrorHost]
  /\ Go(c, "pop3")
  /\ UNCHANGED <<serverVars, added, historyVars, faultVars>>

\* FETCH_NODE that does not reach a live server: the entries stay.
RetireRefused(c) ==
  /\ pc[c] = "retire"
  /\ IF up[MetaHost] THEN Fault ELSE UNCHANGED faults
  /\ dest' = [dest EXCEPT ![c] = ErrorHost]
  /\ Go(c, "pop3")
  /\ UNCHANGED <<serverVars, metaVars, up, historyVars, silent>>

\* Or the garbage has fewer than three characters: substr(3) of it throws in
\* commonOpInternal and the call is over.
ShortAnswer(c) ==
  /\ up[MetaHost]
  /\ \/ pc[c] = "fetch" /\ meta = {}
     \/ pc[c] = "retire" /\ Without(arg[c]) = {}
  /\ meta' = {}
  /\ Go(c, "idle")
  /\ UNCHANGED <<serverVars, added, up, dest, historyVars, faultVars>>

\* The pop after a retirement; commonOp returns 0 whatever it answers.
PopNext(c) == pc[c] = "pop3" /\ PopAt(c, "pop3", dest[c])

\* A second or third pop that is not sent ends the call.
PopUnsent(c) ==
  /\ pc[c] \in {"pop2", "pop3"}
  /\ Fault
  /\ Go(c, "idle")
  /\ dest' = [dest EXCEPT ![c] = MetaHost]
  /\ UNCHANGED <<serverVars, metaVars, up, historyVars, silent>>

Step(c) ==
  \/ AddNode(c)
  \/ AddNodeUnsent(c)
  \/ Fetch(c)
  \/ FetchKills(c)
  \/ PopFallback(c)
  \/ Retire(c)
  \/ RetireLast(c)
  \/ RetireRefused(c)
  \/ ShortAnswer(c)
  \/ PopNext(c)
  \/ PopUnsent(c)

Next ==
  \E c \in Clients :
    \/ \E t \in Tasks : Push(c, t) \/ PushRefused(c, t)
    \/ \E s \in Servers : Pop(c, s)
    \/ Step(c)

Spec == Init /\ [][Next]_vars

-----------------------------------------------------------------------------
(***************************************************************************)
(* Fairness.  Some client runs on: calls do not wait for one another, so   *)
(* while not all clients have stopped, one of those within a call sends    *)
(* its next request.  Workers pop again and again under ever new keys      *)
(* (startWorker increments id after each round), which hash to every       *)
(* server over and over.  Nobody is obliged to push, and any one client    *)
(* may stop for good, within a call too, while the others go on.           *)
(***************************************************************************)
Fairness ==
  /\ WF_vars(\E c \in Clients : Step(c))
  /\ \A s \in Servers : SF_vars(\E c \in Clients : Pop(c, s))

FairSpec == Spec /\ Fairness

-----------------------------------------------------------------------------
(***************************************************************************)
(* Properties.                                                             *)
(***************************************************************************)

\* No two tasks share a key: ckp_client numbers its tasks (push, ckp_client.cpp:52).
KeysUnique == \A t1, t2 \in Tasks : KeyOf[t1] = KeyOf[t2] => t1 = t2

\* Every variable keeps its type, and an ADD_NODE request has a name to add.
TypeOK ==
  /\ uuiddata \in [Servers -> Seq(Keys)]
  /\ firstUuid \in [Servers -> Keys \union {NoUuid}]
  /\ pmap \in [Servers -> [Keys -> Tasks \union {NoTask}]]
  /\ meta \subseteq [name : Names, no : Nat]
  /\ added \in Nat
  /\ up \in [Servers -> BOOLEAN]
  /\ pc \in [Clients -> Phases]
  /\ arg \in [Clients -> Names \union {NoUuid}]
  /\ \A c \in Clients : pc[c] = "addnode" => arg[c] # NoUuid
  /\ dest \in [Clients -> Servers]
  /\ pushed \subseteq Tasks
  /\ refused \subseteq Tasks
  /\ delivered \in [Tasks -> Nat]
  /\ silent \subseteq Names
  /\ faults \in Nat

\* Task t is at position i of its server's queue and the table still holds it.
QueuedAt(t, i) ==
  LET k == KeyOf[t]
      s == HostOf[k]
  IN /\ i \in DOMAIN uuiddata[s]
     /\ uuiddata[s][i] = k
     /\ pmap[s][k] = t

Queued(t) == \E i \in DOMAIN uuiddata[HostOf[KeyOf[t]]] : QueuedAt(t, i)

\* Through every interleaving of pushes and multi-request pops, a pushed task is in
\* exactly one place: queued once with its own value in the table, in the answer of
\* exactly one pop, or refused.
TaskInOnePlace ==
  /\ \A t \in pushed :
       \/ delivered[t] = 0 /\ t \in refused /\ ~Queued(t)
       \/ delivered[t] = 0 /\ t \notin refused /\ Queued(t)
       \/ delivered[t] = 1 /\ t \notin refused /\ ~Queued(t)
  /\ \A t \in Tasks \ pushed : delivered[t] = 0 /\ t \notin refused /\ ~Queued(t)
  /\ \A s \in Servers : \A i, j \in DOMAIN uuiddata[s] :
       uuiddata[s][i] = uuiddata[s][j] => i = j

\* Key k has an entry in the metadata queue, or its pusher is about to add one.
Announced(k) ==
  \/ \E e \in meta : e.name = k
  \/ \E c \in Clients : pc[c] = "addnode" /\ arg[c] = k

\* A server that holds tasks can be found: the key that found it empty is still its
\* firstUuid, and it is in the metadata queue or on its way there, unless the request
\* or the answer that should have brought it there was lost.  No retirement of an
\* earlier key, and no order of adds and removals, takes it away.
NonemptyAnnounced ==
  \A s \in Servers :
    uuiddata[s] # <<>> =>
      /\ firstUuid[s] # NoUuid
      /\ up[MetaHost] /\ firstUuid[s] \notin silent => Announced(firstUuid[s])

\* A key on its way to be retired was given away by a server that had drained: its
\* task has been delivered, no other client retires it too, and it is no server's
\* current firstUuid.
RetirementSound ==
  \A c \in Clients : pc[c] = "retire" =>
    /\ \E t \in Tasks : KeyOf[t] = arg[c] /\ delivered[t] > 0
    /\ \A d \in Clients : pc[d] = "retire" /\ arg[d] = arg[c] => d = c
    /\ \A s \in Servers : firstUuid[s] # arg[c]

\* The servers and clients together behave as one first-in first-out queue of tasks
\* per server, whatever second and third requests their calls make.
Pool == INSTANCE TaskPool WITH
  Home <- [t \in Tasks |-> HostOf[KeyOf[t]]],
  queue <- [s \in Servers |-> [i \in DOMAIN uuiddata[s] |-> pmap[s][uuiddata[s][i]]]],
  taken <- delivered,
  serving <- up

ImplementsTaskPool == Pool!Spec

\* While some worker keeps popping, every pushed task is eventually in the answer of a
\* pop, unless it was refused or its server is dead: a server that was never announced
\* is still found by the pops whose key hashes to it.  Tasks are finitely many and stay
\* pushed and returned, so it is enough to say that there is always a later moment
\* without a task outstanding.
EveryTaskTaken ==
  []<>(\A t \in pushed : delivered[t] = 1 \/ t \in refused \/ ~up[HostOf[KeyOf[t]]])

-----------------------------------------------------------------------------
(***************************************************************************)
(* What comments of the client say, which the code does not do.            *)
(***************************************************************************)

\* "call pop using the new uuid that you got" (cpp_zhtclient.cpp:206): the second
\* pop of a call goes to the server of the uuid that FETCH_NODE answers.
FallbackFollowsUuid ==
  [][\A c \in Clients :
       /\ pc[c] = "fetch"
       /\ pc'[c] = "pop2"
       /\ up[MetaHost]
       /\ meta # {}
       => FallbackHost = HostOf[Back(meta)]]_vars

\* "call metadata queue and get a new uuid from it" (cpp_zhtclient.cpp:205): once
\* tasks have been pushed, a client that fetches a uuid finds one.
FetchFindsUuid ==
  [][\A c \in Clients :
       /\ pc[c] = "fetch"
       /\ pc'[c] = "pop2"
       /\ up[MetaHost]
       /\ pushed # {}
       => meta # {}]_vars
=============================================================================
