------------------------------ MODULE TaskPool ------------------------------
(***************************************************************************)
(* What the distributed task queue promises to those who push and pop:     *)
(* every ZHT server is a first-in first-out queue of tasks, a pushed task  *)
(* joins the queue of the server its key hashes to, and a task leaves the  *)
(* queue by being handed to exactly one caller of pop.  A server that has  *)
(* died serves nobody and keeps what it holds.  A push may fail, and its   *)
(* task is then in no queue.  Nothing here knows of uuids, metadata queues *)
(* or second hops.                                                         *)
(***************************************************************************)
EXTENDS Naturals, Sequences

CONSTANTS
  Servers,  \* the ZHT servers
  Tasks,    \* the tasks pushed
  Home      \* Home[t]: the server the key of t hashes to

VARIABLES
  queue,    \* queue[s]: the tasks waiting at s, oldest first
  taken,    \* taken[t]: how many callers of pop were handed t
  refused,  \* tasks whose push failed
  serving   \* serving[s]: s is alive

vars == <<queue, taken, refused, serving>>

Waiting(t) == \E s \in Servers : \E i \in DOMAIN queue[s] : queue[s][i] = t

Fresh(t) == taken[t] = 0 /\ t \notin refused /\ ~Waiting(t)

Init ==
  /\ queue = [s \in Servers |-> <<>>]
  /\ taken = [t \in Tasks |-> 0]
  /\ refused = {}
  /\ serving = [s \in Servers |-> TRUE]

Submit(t) ==
  /\ Fresh(t)
  /\ serving[Home[t]]
  /\ queue' = [queue EXCEPT ![Home[t]] = Append(@, t)]
  /\ UNCHANGED <<taken, refused, serving>>

Refuse(t) ==
  /\ Fresh(t)
  /\ refused' = refused \union {t}
  /\ UNCHANGED <<queue, taken, serving>>

Take(s) ==
  /\ serving[s]
  /\ queue[s] # <<>>
  /\ taken' = [taken EXCEPT ![Head(queue[s])] = @ + 1]
  /\ queue' = [queue EXCEPT ![s] = Tail(@)]
  /\ UNCHANGED <<refused, serving>>

Die(s) ==
  /\ serving' = [serving EXCEPT ![s] = FALSE]
  /\ UNCHANGED <<queue, taken, refused>>

Next ==
  \/ \E t \in Tasks : Submit(t) \/ Refuse(t)
  \/ \E s \in Servers : Take(s) \/ Die(s)

Spec == Init /\ [][Next]_vars
=============================================================================
