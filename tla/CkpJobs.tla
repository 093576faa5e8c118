------------------------------- MODULE CkpJobs -------------------------------
(***************************************************************************)
(* How jobs are run and counted: the threads of ckp_worker                 *)
(* (cloudkonplus/ckp_worker.cpp), the client that submits the jobs and     *)
(* waits until the counts reported to it add up (ckp_client.cpp), and the  *)
(* task queue between them, of which only what ZHTQueue shows it to be is  *)
(* kept here: a pop returns a waiting task, or nothing though there may be *)
(* one at another server.                                                  *)
(*                                                                         *)
(* The main thread of a worker and the threads it creates share            *)
(* threadCount, job_count and zht_key, and the mutex around the updates is *)
(* commented out.  The program is compiled without optimisation, so        *)
(* x = x + 1 is a load and, later, a store: two steps here.  A store that  *)
(* overwrites one made since its load is recorded in raced.                *)
(***************************************************************************)
EXTENDS Integers, Sequences, FiniteSets

CONSTANTS
  Workers,    \* ckp_worker processes
  Clients,    \* ckp_client processes
  Tasks,      \* the lines of all clients' job files
  Owner,      \* Owner[t]: the client that submits t, whose address t starts with
  Probe,      \* the task "test" that a worker pushes when it starts
  NumThreads, \* option -t of the worker
  Backlog,    \* connections a listening client leaves waiting
  Threads,    \* room for the threads alive at once in a worker
  MinCount,   \* bound: threadCount is followed down to this value
  PastRaces,  \* bound: a worker is followed past the first lost update of a counter
  NoTask,     \* an empty or garbled string
  NoClient    \* "xxx" in zht_key

Items == Tasks \union {Probe}
Strings == Items \union {NoTask}
Peers == Clients \union {Probe, NoTask, NoClient}

ASSUME ConstantsAssumption ==
  /\ IsFiniteSet(Workers) /\ IsFiniteSet(Clients) /\ IsFiniteSet(Tasks)
  /\ Owner \in [Tasks -> Clients]
  /\ NumThreads \in Nat \ {0} /\ Backlog \in Nat \ {0}
  /\ IsFiniteSet(Threads)
  /\ MinCount \in Int /\ PastRaces \in BOOLEAN
  /\ Probe \notin Tasks /\ NoTask \notin Items
  /\ Clients \intersect {Probe, NoTask, NoClient} = {} /\ NoClient \notin {Probe, NoTask}

VARIABLES
  waiting,      \* waiting[t]: copies of t in the task queue
  unsent,       \* tasks their client has yet to push
  main,         \* main[w]: what the main thread of w does next
  result,       \* result[w]: the string the last pop of w filled in
  loaded,       \* loaded[w]: threadCount as the main thread loaded it
  peer,         \* peer[w]: client that w is connected to
  threadCount,
  jobCount,     \* job_count - 1000
  zhtKey,       \* where the next report goes
  raced,        \* raced[w]: an update of threadCount or job_count was overwritten
  thread,       \* thread[w][h]: thread h of w
  socket,       \* socket[c]: "none", "listening" or "closed"
  inbox,        \* inbox[c]: counts written to connections c has yet to accept
  messageCount,
  done,         \* done[t]: how often t ran with exit status 0
  lost          \* lost[t]: copies of task t that nobody will run

poolVars == <<waiting, unsent>>
mainVars == <<main, result, loaded, peer>>
sharedVars == <<threadCount, jobCount, zhtKey, raced>>
clientVars == <<socket, inbox, messageCount>>
historyVars == <<done, lost>>
vars == <<poolVars, mainVars, sharedVars, thread, clientVars, historyVars>>

NoThread == [at |-> "free", task |-> NoTask, held |-> 0]

\* Thread h of w goes on at a place, with a task and a value loaded from a counter.
SetThread(w, h, at, task, held) ==
  thread' = [thread EXCEPT ![w][h] = [at |-> at, task |-> task, held |-> held]]

TaskCount(c) == Cardinality({t \in Tasks : Owner[t] = c})

Init ==
  /\ waiting = [t \in Items |-> 0]
  /\ unsent = Tasks
  /\ main = [w \in Workers |-> "start"]
  /\ result = [w \in Workers |-> NoTask]
  /\ loaded = [w \in Workers |-> 0]
  /\ peer = [w \in Workers |-> NoClient]
  /\ threadCount = [w \in Workers |-> 0]
  /\ jobCount = [w \in Workers |-> 0]
  /\ zhtKey = [w \in Workers |-> NoClient]
  /\ raced = [w \in Workers |-> FALSE]
  /\ thread = [w \in Workers |-> [h \in Threads |-> NoThread]]
  /\ socket = [c \in Clients |-> "none"]
  /\ inbox = [c \in Clients |-> <<>>]
  /\ messageCount = [c \in Clients |-> 0]
  /\ done = [t \in Strings |-> 0]
  /\ lost = [t \in Tasks |-> 0]

(***************************************************************************)
(* The task queue, as a client of ZHT sees it.                             *)
(***************************************************************************)

Lose(t) == lost' = IF t \in Tasks THEN [lost EXCEPT ![t] = @ + 1] ELSE lost

\* A push reaches the queue, or fails; the callers only print that it failed.
PushItem(t) ==
  \/ waiting' = [waiting EXCEPT ![t] = @ + 1] /\ UNCHANGED lost
  \/ Lose(t) /\ UNCHANGED waiting

TakeItem(t) ==
  /\ waiting[t] > 0
  /\ waiting' = [waiting EXCEPT ![t] = @ - 1]

(***************************************************************************)
(* The main thread of a worker.                                            *)
(***************************************************************************)
At(w, pc) == main[w] = pc
Goto(w, pc) == main' = [main EXCEPT ![w] = pc]

\* Threads of w that have yet to finish t.
Running(w, t) ==
  {h \in Threads : thread[w][h].at \in {"start", "run", "failed"} /\ thread[w][h].task = t}

\* Copies of t that w holds: those, and one just popped.
Held(w, t) ==
  Cardinality(Running(w, t)) + (IF At(w, "create") /\ result[w] = t THEN 1 ELSE 0)

\* exit(): the process ends, and all its threads with it.
Exit(w) ==
  /\ Goto(w, "dead")
  /\ thread' = [thread EXCEPT ![w] = [h \in Threads |-> NoThread]]
  /\ lost' = [t \in Tasks |-> lost[t] + Held(w, t)]
  /\ UNCHANGED <<poolVars, result, loaded, peer, sharedVars, clientVars, done>>

\* main: push of "test".
StartPush(w) ==
  /\ At(w, "start")
  /\ PushItem(Probe)
  /\ Goto(w, "discard")
  /\ UNCHANGED <<unsent, result, loaded, peer, sharedVars, thread, clientVars, done>>

\* main: a pop whose answer, "test" or any other task, is thrown away.
StartPop(w) ==
  /\ At(w, "discard")
  /\ \/ \E t \in Items : TakeItem(t) /\ Lose(t)
     \/ UNCHANGED <<waiting, lost>>
  /\ Goto(w, "loop")
  /\ UNCHANGED <<unsent, result, loaded, peer, sharedVars, thread, clientVars, done>>

\* Slip for mutation testing: one thread too many.
PopTaskOneMore(w) ==
  /\ At(w, "loop")
  /\ threadCount[w] <= NumThreads
  /\ \E t \in Items : TakeItem(t) /\ result' = [result EXCEPT ![w] = t]
  /\ Goto(w, "create")
  /\ UNCHANGED <<unsent, loaded, peer, sharedVars, thread, clientVars, historyVars>>

\* startWorker: a pop that returns a task.
PopTask(w) ==
  /\ At(w, "loop")
  /\ threadCount[w] < NumThreads
  /\ \E t \in Items : TakeItem(t) /\ result' = [result EXCEPT ![w] = t]
  /\ Goto(w, "create")
  /\ UNCHANGED <<unsent, loaded, peer, sharedVars, thread, clientVars, historyVars>>

\* A pop that returns 0 and no value, or throws: the next round.
PopEmpty(w) ==
  /\ At(w, "loop")
  /\ threadCount[w] < NumThreads
  /\ result' = [result EXCEPT ![w] = NoTask]
  /\ UNCHANGED <<poolVars, main, loaded, peer, sharedVars, thread, clientVars, historyVars>>

\* A pop that fails: report what has been counted, if there is anybody to report to.
PopNothing(w) ==
  /\ At(w, "loop")
  /\ threadCount[w] < NumThreads
  /\ result' = [result EXCEPT ![w] = NoTask]
  /\ Goto(w, IF zhtKey[w] = NoClient THEN "reset" ELSE "report")
  /\ UNCHANGED <<poolVars, loaded, peer, sharedVars, thread, clientVars, historyVars>>

CreateThread(w) ==
  /\ At(w, "create")
  /\ \E h \in Threads :
       /\ thread[w][h].at = "free"
       /\ SetThread(w, h, "start", result[w], 0)
  /\ Goto(w, "load")
  /\ UNCHANGED <<poolVars, result, loaded, peer, sharedVars, clientVars, historyVars>>

\* pthread_create fails.
CreateFails(w) == At(w, "create") /\ Exit(w)

LoadUp(w) ==
  /\ At(w, "load")
  /\ loaded' = [loaded EXCEPT ![w] = threadCount[w]]
  /\ Goto(w, "store")
  /\ UNCHANGED <<poolVars, result, peer, sharedVars, thread, clientVars, historyVars>>

StoreUp(w) ==
  /\ At(w, "store")
  /\ threadCount' = [threadCount EXCEPT ![w] = loaded[w] + 1]
  /\ raced' = [raced EXCEPT ![w] = @ \/ threadCount[w] # loaded[w]]
  /\ loaded' = [loaded EXCEPT ![w] = 0]
  /\ Goto(w, "loop")
  /\ UNCHANGED <<poolVars, result, peer, jobCount, zhtKey, thread, clientVars, historyVars>>

\* Connections made to c and not yet accepted and read.
Pending(c) == Len(inbox[c]) + Cardinality({w \in Workers : peer[w] = c})

\* sendResult: look up the host in zht_key and connect; a full backlog makes that wait.
Connect(w) ==
  /\ At(w, "report")
  /\ zhtKey[w] \in Clients /\ socket[zhtKey[w]] = "listening"
  /\ Pending(zhtKey[w]) < Backlog
  /\ peer' = [peer EXCEPT ![w] = zhtKey[w]]
  /\ Goto(w, "send")
  /\ UNCHANGED <<poolVars, result, loaded, sharedVars, thread, clientVars, historyVars>>

\* No such host, or nobody listens there: the worker exits.
ConnectFails(w) ==
  /\ At(w, "report")
  /\ zhtKey[w] \in Clients => socket[zhtKey[w]] # "listening"
  /\ Exit(w)

\* sendResult: write the count.  A client that has stopped listening drops it.
Send(w) ==
  /\ At(w, "send")
  /\ inbox' = IF socket[peer[w]] = "listening"
                THEN [inbox EXCEPT ![peer[w]] = Append(@, jobCount[w])] ELSE inbox
  /\ peer' = [peer EXCEPT ![w] = NoClient]
  /\ Goto(w, "clear")
  /\ UNCHANGED <<poolVars, result, loaded, sharedVars, thread, socket, messageCount, historyVars>>

\* Or the connection has been reset and the write fails.
SendFails(w) ==
  /\ At(w, "send")
  /\ socket[peer[w]] = "closed"
  /\ Exit(w)

\* Slip: the count is not set back after a report.
ClearKeyOnly(w) ==
  /\ At(w, "clear")
  /\ zhtKey' = [zhtKey EXCEPT ![w] = NoClient]
  /\ Goto(w, "loop")
  /\ UNCHANGED <<poolVars, result, loaded, peer, threadCount, jobCount, raced, thread, clientVars,
                 historyVars>>

ClearKey(w) ==
  /\ At(w, "clear")
  /\ zhtKey' = [zhtKey EXCEPT ![w] = NoClient]
  /\ Goto(w, "reset")
  /\ UNCHANGED <<poolVars, result, loaded, peer, threadCount, jobCount, raced, thread, clientVars,
                 historyVars>>

Reset(w) ==
  /\ At(w, "reset")
  /\ jobCount' = [jobCount EXCEPT ![w] = 0]
  /\ Goto(w, "loop")
  /\ UNCHANGED <<poolVars, result, loaded, peer, threadCount, zhtKey, raced, thread, clientVars,
                 historyVars>>

Followed(w) == PastRaces \/ ~raced[w]

MainStep(w) ==
  \/ StartPush(w)
  \/ StartPop(w)
  \/ PopTask(w)
  \/ PopEmpty(w)
  \/ PopNothing(w)
  \/ CreateThread(w)
  \/ CreateFails(w)
  \/ LoadUp(w)
  \/ StoreUp(w)
  \/ Connect(w)
  \/ ConnectFails(w)
  \/ Send(w)
  \/ SendFails(w)
  \/ ClearKey(w)
  \/ Reset(w)

Main(w) == Followed(w) /\ MainStep(w)

(***************************************************************************)
(* A thread of a worker: execTask.                                         *)
(***************************************************************************)

\* Slip: the address is not cut off the task.
KeyPartWhole(t) == t

\* The first field of the task: the address of the client, or the whole of "test".
KeyPart(t) == IF t \in Tasks THEN Owner[t] ELSE t

\* The argument points into the main thread's result: if that has been assigned to
\* since, the copy is the old string, the new one or what freed memory holds.
Copy(w, h) ==
  LET own == thread[w][h].task
  IN /\ thread[w][h].at = "start"
     /\ \E t \in IF result[w] = own THEN {own} ELSE {own, result[w], NoTask} :
          SetThread(w, h, "run", t, 0)
     /\ UNCHANGED <<poolVars, mainVars, sharedVars, clientVars, historyVars>>

\* system() returned some status and zht_key is set.
Ran(w, h, next) ==
  /\ thread[w][h].at = "run"
  /\ SetThread(w, h, next, thread[w][h].task, 0)
  /\ zhtKey' = [zhtKey EXCEPT ![w] = KeyPart(thread[w][h].task)]
  /\ UNCHANGED <<poolVars, mainVars, threadCount, jobCount, raced, clientVars, lost>>

\* Slips: a job that succeeded is pushed back; zht_key is not set.
RunOKRetried(w, h) ==
  /\ Ran(w, h, "failed")
  /\ done' = [done EXCEPT ![thread[w][h].task] = @ + 1]

RunOKNoKey(w, h) ==
  /\ thread[w][h].at = "run"
  /\ SetThread(w, h, "loadjob", thread[w][h].task, 0)
  /\ done' = [done EXCEPT ![thread[w][h].task] = @ + 1]
  /\ UNCHANGED <<poolVars, mainVars, sharedVars, clientVars, lost>>

\* Exit status 0; that is also what an empty command returns.
RunOK(w, h) ==
  /\ Ran(w, h, "loadjob")
  /\ done' = [done EXCEPT ![thread[w][h].task] = @ + 1]

RunFails(w, h) ==
  /\ thread[w][h].task \in Tasks
  /\ Ran(w, h, "failed")
  /\ UNCHANGED done

\* "Pushing the failed job back to queue", under a new key.
PushBack(w, h) ==
  /\ thread[w][h].at = "failed"
  /\ PushItem(thread[w][h].task)
  /\ SetThread(w, h, "loaddown", NoTask, 0)
  /\ UNCHANGED <<unsent, mainVars, sharedVars, clientVars, done>>

\* job_count and threadCount are each loaded into held and stored one more or less.
LoadJob(w, h) ==
  /\ thread[w][h].at = "loadjob"
  /\ SetThread(w, h, "storejob", NoTask, jobCount[w])
  /\ UNCHANGED <<poolVars, mainVars, sharedVars, clientVars, historyVars>>

StoreJob(w, h) ==
  /\ thread[w][h].at = "storejob"
  /\ jobCount' = [jobCount EXCEPT ![w] = thread[w][h].held + 1]
  /\ raced' = [raced EXCEPT ![w] = @ \/ jobCount[w] # thread[w][h].held]
  /\ SetThread(w, h, "loaddown", NoTask, 0)
  /\ UNCHANGED <<poolVars, mainVars, threadCount, zhtKey, clientVars, historyVars>>

LoadDown(w, h) ==
  /\ thread[w][h].at = "loaddown"
  /\ SetThread(w, h, "storedown", NoTask, threadCount[w])
  /\ UNCHANGED <<poolVars, mainVars, sharedVars, clientVars, historyVars>>

StoreDown(w, h) ==
  /\ thread[w][h].at = "storedown"
  /\ thread[w][h].held > MinCount
  /\ threadCount' = [threadCount EXCEPT ![w] = thread[w][h].held - 1]
  /\ raced' = [raced EXCEPT ![w] = @ \/ threadCount[w] # thread[w][h].held]
  /\ thread' = [thread EXCEPT ![w][h] = NoThread]
  /\ UNCHANGED <<poolVars, mainVars, jobCount, zhtKey, clientVars, historyVars>>

ExecStep(w, h) ==
  \/ Copy(w, h)
  \/ RunOK(w, h)
  \/ RunFails(w, h)
  \/ PushBack(w, h)
  \/ LoadJob(w, h)
  \/ StoreJob(w, h)
  \/ LoadDown(w, h)
  \/ StoreDown(w, h)

ExecTask(w, h) == Followed(w) /\ ExecStep(w, h)

(***************************************************************************)
(* A client: pushTask and getResult.                                       *)
(***************************************************************************)
PushTask(t) ==
  /\ t \in unsent
  /\ unsent' = unsent \ {t}
  /\ PushItem(t)
  /\ UNCHANGED <<mainVars, sharedVars, thread, clientVars, done>>

\* The loop of getResult tests its condition before it listens.
Listen(c) ==
  /\ socket[c] = "none"
  /\ socket' = [socket EXCEPT ![c] = IF TaskCount(c) = 0 THEN "closed" ELSE "listening"]
  /\ UNCHANGED <<poolVars, mainVars, sharedVars, thread, inbox, messageCount, historyVars>>

\* One connection is accepted and read; the socket is closed when the total is right.
Receive(c) ==
  LET total == messageCount[c] + Head(inbox[c])
  IN /\ socket[c] = "listening"
     /\ inbox[c] # <<>>
     /\ messageCount' = [messageCount EXCEPT ![c] = total]
     /\ inbox' = [inbox EXCEPT ![c] = Tail(@)]
     /\ socket' = [socket EXCEPT ![c] = IF total = TaskCount(c) THEN "closed" ELSE @]
     /\ UNCHANGED <<poolVars, mainVars, sharedVars, thread, historyVars>>

Client(c) ==
  \/ \E t \in Tasks : Owner[t] = c /\ PushTask(t)
  \/ Listen(c)
  \/ Receive(c)

Next ==
  \/ \E w \in Workers : Main(w) \/ \E h \in Threads : ExecTask(w, h)
  \/ \E c \in Clients : Client(c)

Spec == Init /\ [][Next]_vars

-----------------------------------------------------------------------------
(***************************************************************************)
(* Fairness: threads and clients run on; a worker that pops again and      *)
(* again finds a task that waits, and when nothing is left gets told so; a *)
(* job that is run again and again succeeds in the end.                    *)
(***************************************************************************)
Fairness ==
  /\ \A c \in Clients : WF_vars(Client(c))
  /\ \A w \in Workers :
       /\ WF_vars(Main(w))
       /\ SF_vars(Followed(w) /\ PopTask(w))
       /\ SF_vars(Followed(w) /\ PopNothing(w))
       /\ \A h \in Threads : WF_vars(ExecTask(w, h)) /\ SF_vars(Followed(w) /\ RunOK(w, h))

FairSpec == Spec /\ Fairness

-----------------------------------------------------------------------------
(***************************************************************************)
(* Properties.                                                             *)
(***************************************************************************)

\* Every variable keeps its type.
TypeOK ==
  /\ waiting \in [Items -> Nat]
  /\ unsent \subseteq Tasks
  /\ main \in [Workers -> {"start", "discard", "loop", "create", "load", "store", "report",
                           "send", "clear", "reset", "dead"}]
  /\ result \in [Workers -> Strings]
  /\ loaded \in [Workers -> Int]
  /\ peer \in [Workers -> Clients \union {NoClient}]
  /\ threadCount \in [Workers -> Int]
  /\ jobCount \in [Workers -> Nat]
  /\ zhtKey \in [Workers -> Peers]
  /\ raced \in [Workers -> BOOLEAN]
  /\ thread \in [Workers -> [Threads ->
       [at : {"free", "start", "run", "failed", "loadjob", "storejob", "loaddown", "storedown"},
        task : Strings, held : Int]]]
  /\ socket \in [Clients -> {"none", "listening", "closed"}]
  /\ inbox \in [Clients -> Seq(Nat)]
  /\ messageCount \in [Clients -> Nat]
  /\ done \in [Strings -> Nat]
  /\ lost \in [Tasks -> Nat]

Live(w) == {h \in Threads : thread[w][h].at # "free"}

\* The sum of f over S, as so many pairs for each x.
Total(S, f) == Cardinality(UNION {{x} \X (1..f[x]) : x \in S})

\* A worker runs no more threads than its option -t allows, however creations and ends
\* of threads interleave with the count of them, as long as no update of it is lost.
ThreadLimit == \A w \in Workers : ~raced[w] => Cardinality(Live(w)) <= NumThreads

\* Copies of t that no worker holds.
AtRest(t) == (IF t \in unsent THEN 1 ELSE 0) + waiting[t] + done[t] + lost[t]

\* t is at rest once, or one worker holds one copy of it.
InOnePlace(t) ==
  \/ AtRest(t) = 1 /\ \A w \in Workers : Held(w, t) = 0
  \/ AtRest(t) = 0 /\ \E w \in Workers :
       Held(w, t) = 1 /\ \A v \in Workers \ {w} : Held(v, t) = 0

\* With one thread per worker a task is in one place: with its client, in the queue,
\* with one worker, done, or lost.  No task is overwritten before its thread copied it
\* and none is run twice, through failures and retries, as long as no update is lost.
EachTaskOnce ==
  (\A w \in Workers : ~raced[w]) /\ NumThreads = 1 => \A t \in Tasks : InOnePlace(t)

\* Jobs done by w that it has not yet reported: counted, or about to be.
Unreported(w) ==
  (IF main[w] \in {"clear", "reset"} THEN 0 ELSE jobCount[w])
    + Cardinality({h \in Threads : thread[w][h].at \in {"loadjob", "storejob"}})

\* What is on its way to c.
Reported(c) == Total(DOMAIN inbox[c], inbox[c])

\* With one thread per worker every job done is reported once: what the clients have
\* added up, what is on its way and what the workers still count makes all jobs done,
\* as long as no update is lost, no worker exits and no client has stopped listening.
CountsConserved ==
  (\A w \in Workers : ~raced[w] /\ main[w] # "dead") /\ NumThreads = 1
    /\ (\A c \in Clients : socket[c] # "closed") =>
    Total(Strings, done) =
      Total(Clients, messageCount)
        + Total(Clients, [c \in Clients |-> Reported(c)])
        + Total(Workers, [w \in Workers |-> Unreported(w)])

\* What keeps a client from ever getting its total: a lost update, a worker that exits,
\* a task that was lost, a task "test" that was run and counted.
Disturbed ==
  \/ \E w \in Workers : raced[w] \/ main[w] = "dead"
  \/ \E t \in Tasks : lost[t] > 0
  \/ done[Probe] > 0

\* The only client's total becomes right and it stops, unless one of these happens.
AllCounted == <>(Disturbed \/ \A c \in Clients : socket[c] = "closed")

-----------------------------------------------------------------------------
\* "-t #threads" (printUsage, ckp_worker.cpp:266): a worker runs that many threads.
UsageThreadLimit == \A w \in Workers : Cardinality(Live(w)) <= NumThreads
=============================================================================
