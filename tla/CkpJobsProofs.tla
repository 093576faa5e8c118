---------------------------- MODULE CkpJobsProofs ----------------------------
(***************************************************************************)
(* Proofs about the jobs, for any number of workers, threads, clients and  *)
(* tasks.                                                                  *)
(*                                                                         *)
(* ThreadLimitHolds: a worker never has more threads alive than its option *)
(* -t allows while no update of its counters is lost.  The inductive       *)
(* invariant says what threadCount is worth at every moment: the threads   *)
(* alive, less the one just created that the main thread has yet to count. *)
(* TypesKept: every variable keeps its type.  TasksInOnePlace: with one    *)
(* thread per worker no task is dropped, overwritten or run twice.         *)
(***************************************************************************)
EXTENDS CkpJobs, FiniteSetTheorems, TLAPS

ThreadRecords ==
  [at : {"free", "start", "run", "failed", "loadjob", "storejob", "loaddown", "storedown"},
   task : Strings, held : Int]

\* The types of the variables that count threads.
Shape ==
  /\ main \in [Workers -> {"start", "discard", "loop", "create", "load", "store", "report",
                           "send", "clear", "reset", "dead"}]
  /\ result \in [Workers -> Strings]
  /\ loaded \in [Workers -> Int]
  /\ threadCount \in [Workers -> Int]
  /\ jobCount \in [Workers -> Int]
  /\ raced \in [Workers -> BOOLEAN]
  /\ thread \in [Workers -> [Threads -> ThreadRecords]]

\* A thread created and not yet counted.
Uncounted(w) == IF main[w] \in {"load", "store"} THEN 1 ELSE 0

\* What threadCount is worth in worker w.
CountRight(w) ==
  /\ main[w] # "dead" => threadCount[w] + Uncounted(w) = Cardinality(Live(w))
  /\ main[w] \in {"create", "load", "store"} => threadCount[w] < NumThreads
  /\ Cardinality(Live(w)) <= NumThreads

Counts == \A w \in Workers : ~raced[w] => CountRight(w)

-----------------------------------------------------------------------------
\* Nothing about w that its thread count depends on changes.
Same(w) ==
  /\ thread'[w] = thread[w]
  /\ threadCount'[w] = threadCount[w]
  /\ main'[w] = main[w]
  /\ raced'[w] = raced[w]

LEMMA SameCounts ==
  ASSUME NEW w \in Workers, Same(w), ~raced[w] => CountRight(w)
  PROVE  ~raced'[w] => CountRight(w)'
BY DEF Same, CountRight, Live, Uncounted

LEMMA LiveFinite ==
  ASSUME NEW w \in Workers
  PROVE  IsFiniteSet(Live(w)) /\ Cardinality(Live(w)) \in Nat
<1>1. IsFiniteSet(Live(w))
  BY ConstantsAssumption, FS_Subset DEF Live, ConstantsAssumption
<1>2. QED
  BY <1>1, FS_CardinalityType

\* A step of one worker leaves the others alone, and a step of a client all of them.
LEMMA OthersSame ==
  ASSUME Shape, NEW w \in Workers, NEW v \in Workers \ {w},
         Main(w) \/ \E h \in Threads : ExecTask(w, h)
  PROVE  Same(v)
<1>1. CASE Main(w)
  <2>1. main'[v] = main[v] /\ threadCount'[v] = threadCount[v]
    BY <1>1 DEF Main, MainStep, StartPush, StartPop, PopTask, PopEmpty, PopNothing, CreateThread,
       CreateFails, LoadUp, StoreUp, Connect, ConnectFails, Send, SendFails, ClearKey, Reset,
       Exit, Goto, Shape, sharedVars
  <2>2. thread'[v] = thread[v]
    BY <1>1 DEF Main, MainStep, StartPush, StartPop, PopTask, PopEmpty, PopNothing, CreateThread,
       CreateFails, LoadUp, StoreUp, Connect, ConnectFails, Send, SendFails, ClearKey, Reset,
       Exit, SetThread, Shape
  <2>3. raced'[v] = raced[v]
    BY <1>1 DEF Main, MainStep, StartPush, StartPop, PopTask, PopEmpty, PopNothing, CreateThread,
       CreateFails, LoadUp, StoreUp, Connect, ConnectFails, Send, SendFails, ClearKey, Reset,
       Exit, Shape, sharedVars
  <2>4. QED
    BY <2>1, <2>2, <2>3 DEF Same
<1>2. ASSUME NEW h \in Threads, ExecTask(w, h)
      PROVE  Same(v)
  BY <1>2 DEF ExecTask, ExecStep, Copy, Ran, RunOK, RunFails, PushBack, LoadJob, StoreJob,
     LoadDown, StoreDown, SetThread, Same, Shape, sharedVars, mainVars
<1>3. QED
  BY <1>1, <1>2

LEMMA ClientSame ==
  ASSUME NEW c \in Clients, Client(c), NEW v \in Workers
  PROVE  Same(v)
BY DEF Client, PushTask, Listen, Receive, Same, sharedVars, mainVars

-----------------------------------------------------------------------------
(***************************************************************************)
(* The types of the counters.                                              *)
(***************************************************************************)
\* What raced is set to is a truth value again.
LEMMA RacedType ==
  ASSUME raced \in [Workers -> BOOLEAN], NEW w \in Workers, NEW p
  PROVE  [raced EXCEPT ![w] = raced[w] \/ p] \in [Workers -> BOOLEAN]
<1>1. (raced[w] \/ p) \in BOOLEAN
  OBVIOUS
<1>2. QED
  BY <1>1

LEMMA MainShape ==
  ASSUME ConstantsAssumption, Shape, NEW w \in Workers, Main(w)
  PROVE  Shape'
<1>1. main' \in [Workers -> {"start", "discard", "loop", "create", "load", "store", "report",
                             "send", "clear", "reset", "dead"}]
  BY DEF Main, MainStep, StartPush, StartPop, PopTask, PopEmpty, PopNothing, CreateThread,
     CreateFails, LoadUp, StoreUp, Connect, ConnectFails, Send, SendFails, ClearKey, Reset, Exit,
     Goto, Shape
<1>2. result' \in [Workers -> Strings]
  BY DEF Main, MainStep, StartPush, StartPop, PopTask, PopEmpty, PopNothing, CreateThread,
     CreateFails, LoadUp, StoreUp, Connect, ConnectFails, Send, SendFails, ClearKey, Reset, Exit,
     Shape, Strings
<1>3. /\ loaded' \in [Workers -> Int]
      /\ threadCount' \in [Workers -> Int]
      /\ jobCount' \in [Workers -> Int]
      /\ raced' \in [Workers -> BOOLEAN]
  <2>1. CASE LoadUp(w)
    BY <2>1 DEF LoadUp, Shape, sharedVars
  <2>2. CASE StoreUp(w)
    <3>1. /\ loaded' \in [Workers -> Int]
          /\ threadCount' \in [Workers -> Int]
          /\ jobCount' \in [Workers -> Int]
      BY <2>2 DEF StoreUp, Shape
    <3>2. raced' \in [Workers -> BOOLEAN]
      BY <2>2, RacedType DEF StoreUp, Shape
    <3>3. QED
      BY <3>1, <3>2
  <2>3. CASE Reset(w)
    BY <2>3 DEF Reset, Shape
  <2>4. CASE ~LoadUp(w) /\ ~StoreUp(w) /\ ~Reset(w)
    BY <2>4 DEF Main, MainStep, StartPush, StartPop, PopTask, PopEmpty, PopNothing, CreateThread,
       CreateFails, Connect, ConnectFails, Send, SendFails, ClearKey, Exit, Shape, sharedVars
  <2>5. QED
    BY <2>1, <2>2, <2>3, <2>4
<1>4. thread' \in [Workers -> [Threads -> ThreadRecords]]
  <2>1. NoThread \in ThreadRecords
    BY DEF NoThread, ThreadRecords, Strings
  <2>2. CASE CreateThread(w)
    <3>1. [at |-> "start", task |-> result[w], held |-> 0] \in ThreadRecords
      BY DEF ThreadRecords, Shape
    <3>2. QED
      BY <2>2, <3>1 DEF CreateThread, SetThread, Shape
  <2>3. CASE Exit(w)
    BY <2>1, <2>3 DEF Exit, Shape
  <2>4. CASE ~CreateThread(w) /\ ~Exit(w)
    BY <2>4 DEF Main, MainStep, StartPush, StartPop, PopTask, PopEmpty, PopNothing, CreateFails,
       LoadUp, StoreUp, Connect, ConnectFails, Send, SendFails, ClearKey, Reset, Shape
  <2>5. QED
    BY <2>2, <2>3, <2>4
<1>5. QED
  BY <1>1, <1>2, <1>3, <1>4 DEF Shape

LEMMA ExecShape ==
  ASSUME ConstantsAssumption, Shape, NEW w \in Workers, NEW h \in Threads, ExecTask(w, h)
  PROVE  Shape'
<1>1. UNCHANGED mainVars
  BY DEF ExecTask, ExecStep, Copy, Ran, RunOK, RunFails, PushBack, LoadJob, StoreJob,
     LoadDown, StoreDown
<1>2. thread[w][h] \in ThreadRecords
  BY DEF Shape
<1>3. /\ threadCount' \in [Workers -> Int]
      /\ jobCount' \in [Workers -> Int]
      /\ raced' \in [Workers -> BOOLEAN]
  <2>1. CASE StoreJob(w, h)
    <3>1. threadCount' \in [Workers -> Int] /\ jobCount' \in [Workers -> Int]
      BY <1>2, <2>1 DEF StoreJob, Shape, ThreadRecords
    <3>2. raced' \in [Workers -> BOOLEAN]
      BY <2>1, RacedType DEF StoreJob, Shape
    <3>3. QED
      BY <3>1, <3>2
  <2>2. CASE StoreDown(w, h)
    <3>1. threadCount' \in [Workers -> Int] /\ jobCount' \in [Workers -> Int]
      BY <1>2, <2>2 DEF StoreDown, Shape, ThreadRecords
    <3>2. raced' \in [Workers -> BOOLEAN]
      BY <2>2, RacedType DEF StoreDown, Shape
    <3>3. QED
      BY <3>1, <3>2
  <2>3. CASE ~StoreJob(w, h) /\ ~StoreDown(w, h)
    BY <2>3 DEF ExecTask, ExecStep, Copy, Ran, RunOK, RunFails, PushBack, LoadJob, LoadDown,
       Shape, sharedVars
  <2>4. QED
    BY <2>1, <2>2, <2>3
<1>4. thread' \in [Workers -> [Threads -> ThreadRecords]]
  <2>1. \E r \in ThreadRecords : thread' = [thread EXCEPT ![w][h] = r]
    <3>1. CASE Copy(w, h)
      <4>1. PICK t \in Strings : SetThread(w, h, "run", t, 0)
        BY <1>2, <3>1 DEF Copy, Shape, ThreadRecords, Strings
      <4>2. [at |-> "run", task |-> t, held |-> 0] \in ThreadRecords
        BY DEF ThreadRecords
      <4>3. QED
        BY <4>1, <4>2 DEF SetThread
    <3>2. CASE RunOK(w, h) \/ RunFails(w, h)
      <4>1. PICK next \in {"loadjob", "failed"} : SetThread(w, h, next, thread[w][h].task, 0)
        BY <3>2 DEF RunOK, RunFails, Ran
      <4>2. [at |-> next, task |-> thread[w][h].task, held |-> 0] \in ThreadRecords
        BY <1>2 DEF ThreadRecords
      <4>3. QED
        BY <4>1, <4>2 DEF SetThread
    <3>3. CASE LoadJob(w, h)
      <4>1. [at |-> "storejob", task |-> NoTask, held |-> jobCount[w]] \in ThreadRecords
        BY DEF ThreadRecords, Shape, Strings
      <4>2. QED
        BY <3>3, <4>1 DEF LoadJob, SetThread
    <3>4. CASE LoadDown(w, h)
      <4>1. [at |-> "storedown", task |-> NoTask, held |-> threadCount[w]] \in ThreadRecords
        BY DEF ThreadRecords, Shape, Strings
      <4>2. QED
        BY <3>4, <4>1 DEF LoadDown, SetThread
    <3>5. CASE StoreJob(w, h) \/ PushBack(w, h)
      <4>1. [at |-> "loaddown", task |-> NoTask, held |-> 0] \in ThreadRecords
        BY DEF ThreadRecords, Strings
      <4>2. QED
        BY <3>5, <4>1 DEF StoreJob, PushBack, SetThread
    <3>6. CASE StoreDown(w, h)
      <4>1. NoThread \in ThreadRecords
        BY DEF NoThread, ThreadRecords, Strings
      <4>2. QED
        BY <3>6, <4>1 DEF StoreDown
    <3>7. QED
      BY <3>1, <3>2, <3>3, <3>4, <3>5, <3>6 DEF ExecTask, ExecStep
  <2>2. QED
    BY <2>1 DEF Shape
<1>5. QED
  BY <1>1, <1>3, <1>4 DEF Shape, mainVars

-----------------------------------------------------------------------------
(***************************************************************************)
(* The count of threads.                                                   *)
(***************************************************************************)

\* Between two rounds, and while it reports, the main thread touches no count.
Elsewhere == {"start", "discard", "loop", "report", "send", "clear", "reset"}

LEMMA QuietCounts ==
  ASSUME NEW w \in Workers, ~raced[w] => CountRight(w),
         main[w] \in Elsewhere, main'[w] \in Elsewhere,
         thread'[w] = thread[w], threadCount'[w] = threadCount[w], raced'[w] = raced[w]
  PROVE  ~raced'[w] => CountRight(w)'
BY DEF CountRight, Live, Uncounted, Elsewhere

LEMMA ExitCounts ==
  ASSUME ConstantsAssumption, Shape, NEW w \in Workers, Exit(w)
  PROVE  CountRight(w)'
<1>1. Live(w)' = {}
  BY DEF Exit, Live, NoThread, Shape
<1>2. Cardinality(Live(w)') = 0
  BY <1>1, FS_EmptySet
<1>3. main'[w] = "dead"
  BY DEF Exit, Goto, Shape
<1>4. QED
  BY <1>2, <1>3 DEF CountRight, ConstantsAssumption

LEMMA CreateCounts ==
  ASSUME ConstantsAssumption, Shape, NEW w \in Workers, CreateThread(w), ~raced[w],
         CountRight(w)
  PROVE  CountRight(w)'
<1>1. PICK h \in Threads : thread[w][h].at = "free" /\ SetThread(w, h, "start", result[w], 0)
  BY DEF CreateThread
<1>2. Live(w)' = Live(w) \union {h}
  BY <1>1 DEF SetThread, Live, Shape
<1>3. h \notin Live(w)
  BY <1>1 DEF Live
<1>4. Cardinality(Live(w)') = Cardinality(Live(w)) + 1
  BY <1>2, <1>3, LiveFinite, FS_AddElement
<1>5. main[w] = "create" /\ main'[w] = "load" /\ threadCount'[w] = threadCount[w]
  BY DEF CreateThread, At, Goto, Shape, sharedVars
<1>6. threadCount[w] = Cardinality(Live(w)) /\ threadCount[w] < NumThreads
  BY <1>5 DEF CountRight, Uncounted, Shape
<1>7. threadCount[w] \in Int /\ NumThreads \in Int
  BY DEF Shape, ConstantsAssumption
<1>8. QED
  BY <1>4, <1>5, <1>6, <1>7 DEF CountRight, Uncounted

LEMMA StoreUpCounts ==
  ASSUME ConstantsAssumption, Shape, NEW w \in Workers, StoreUp(w), ~raced'[w],
         ~raced[w] => CountRight(w)
  PROVE  CountRight(w)'
<1>1. ~raced[w] /\ threadCount[w] = loaded[w]
  BY DEF StoreUp, Shape
<1>2. threadCount'[w] = threadCount[w] + 1 /\ main[w] = "store" /\ main'[w] = "loop"
  BY <1>1 DEF StoreUp, At, Goto, Shape
<1>3. Live(w)' = Live(w)
  BY DEF StoreUp, Live
<1>4. QED
  BY <1>1, <1>2, <1>3, LiveFinite DEF CountRight, Uncounted, Shape

LEMMA MainCounts ==
  ASSUME ConstantsAssumption, Shape, NEW w \in Workers, Main(w),
         ~raced[w] => CountRight(w), ~raced'[w]
  PROVE  CountRight(w)'
<1>1. CASE StartPush(w) \/ StartPop(w) \/ PopEmpty(w) \/ PopNothing(w) \/ Connect(w) \/ Send(w)
           \/ ClearKey(w) \/ Reset(w)
  <2>1. main[w] \in Elsewhere /\ main'[w] \in Elsewhere
    BY <1>1 DEF StartPush, StartPop, PopEmpty, PopNothing, Connect, Send, ClearKey, Reset,
       Elsewhere, At, Goto, Shape
  <2>2. thread' = thread /\ threadCount' = threadCount /\ raced' = raced
    BY <1>1 DEF StartPush, StartPop, PopEmpty, PopNothing, Connect, Send, ClearKey, Reset,
       sharedVars
  <2>3. QED
    BY <2>1, <2>2, QuietCounts
<1>2. CASE PopTask(w)
  <2>1. main[w] = "loop" /\ main'[w] = "create" /\ threadCount[w] < NumThreads
    BY <1>2 DEF PopTask, At, Goto, Shape
  <2>2. thread' = thread /\ threadCount' = threadCount /\ raced' = raced
    BY <1>2 DEF PopTask, sharedVars
  <2>3. QED
    BY <2>1, <2>2 DEF CountRight, Live, Uncounted
<1>3. CASE CreateThread(w)
  <2>1. raced' = raced
    BY <1>3 DEF CreateThread, sharedVars
  <2>2. QED
    BY <1>3, <2>1, CreateCounts
<1>4. CASE CreateFails(w) \/ ConnectFails(w) \/ SendFails(w)
  BY <1>4, ExitCounts DEF CreateFails, ConnectFails, SendFails
<1>5. CASE LoadUp(w)
  <2>1. main[w] = "load" /\ main'[w] = "store"
    BY <1>5 DEF LoadUp, At, Goto, Shape
  <2>2. thread' = thread /\ threadCount' = threadCount /\ raced' = raced
    BY <1>5 DEF LoadUp, sharedVars
  <2>3. QED
    BY <2>1, <2>2 DEF CountRight, Live, Uncounted
<1>6. CASE StoreUp(w)
  BY <1>6, StoreUpCounts
<1>7. QED
  BY <1>1, <1>2, <1>3, <1>4, <1>5, <1>6 DEF Main, MainStep

LEMMA StoreDownCounts ==
  ASSUME Shape, NEW w \in Workers, NEW h \in Threads, StoreDown(w, h), ~raced'[w],
         ~raced[w] => CountRight(w), ConstantsAssumption
  PROVE  CountRight(w)'
<1>1. ~raced[w] /\ threadCount[w] = thread[w][h].held
  BY DEF StoreDown, Shape
<1>2. threadCount'[w] = threadCount[w] - 1 /\ main' = main
  BY <1>1 DEF StoreDown, Shape, mainVars
<1>3. Live(w)' = Live(w) \ {h}
  BY DEF StoreDown, Live, NoThread, Shape
<1>4. h \in Live(w)
  BY DEF StoreDown, Live
<1>5. Cardinality(Live(w)') = Cardinality(Live(w)) - 1
  BY <1>3, <1>4, LiveFinite, FS_RemoveElement
<1>6. threadCount[w] \in Int /\ Cardinality(Live(w)) \in Int /\ NumThreads \in Int
  BY LiveFinite DEF Shape, ConstantsAssumption
<1>7. QED
  BY <1>1, <1>2, <1>5, <1>6 DEF CountRight, Uncounted

LEMMA ExecCounts ==
  ASSUME ConstantsAssumption, Shape, NEW w \in Workers, NEW h \in Threads, ExecTask(w, h),
         ~raced[w] => CountRight(w), ~raced'[w]
  PROVE  CountRight(w)'
<1>1. CASE StoreDown(w, h)
  BY <1>1, StoreDownCounts
<1>2. CASE ~StoreDown(w, h)
  <2>1. main' = main /\ threadCount' = threadCount
    BY <1>2 DEF ExecTask, ExecStep, Copy, Ran, RunOK, RunFails, PushBack, LoadJob, StoreJob,
       LoadDown, mainVars, sharedVars
  <2>2. ~raced[w]
    BY <1>2 DEF ExecTask, ExecStep, Copy, Ran, RunOK, RunFails, PushBack, LoadJob, StoreJob,
       LoadDown, sharedVars, Shape
  <2>3. PICK at \in {"run", "loadjob", "failed", "storejob", "loaddown", "storedown"} :
          \E task, held : SetThread(w, h, at, task, held)
    BY <1>2 DEF ExecTask, ExecStep, Copy, Ran, RunOK, RunFails, PushBack, LoadJob, StoreJob,
       LoadDown
  <2>4. thread[w][h].at # "free"
    BY <1>2 DEF ExecTask, ExecStep, Copy, Ran, RunOK, RunFails, PushBack, LoadJob, StoreJob,
       LoadDown
  <2>5. Live(w)' = Live(w)
    BY <2>3, <2>4 DEF SetThread, Live, Shape
  <2>6. QED
    BY <2>1, <2>2, <2>5 DEF CountRight, Uncounted
<1>3. QED
  BY <1>1, <1>2

-----------------------------------------------------------------------------
(***************************************************************************)
(* The theorem.                                                            *)
(***************************************************************************)
LEMMA Initially ==
  ASSUME Init
  PROVE  Shape /\ Counts
<1>1. NoThread \in ThreadRecords
  BY DEF NoThread, ThreadRecords, Strings
<1>2. Shape
  BY <1>1 DEF Init, Shape, Strings
<1>3. ASSUME NEW w \in Workers
      PROVE  CountRight(w)
  <2>1. Live(w) = {}
    BY DEF Init, Live, NoThread
  <2>2. Cardinality(Live(w)) = 0
    BY <2>1, FS_EmptySet
  <2>3. main[w] = "start" /\ threadCount[w] = 0
    BY DEF Init
  <2>4. QED
    BY <2>2, <2>3, ConstantsAssumption DEF CountRight, Uncounted, ConstantsAssumption
<1>4. QED
  BY <1>2, <1>3 DEF Counts

LEMMA StepCounts ==
  ASSUME Shape, Counts, [Next]_vars
  PROVE  Shape' /\ Counts'
<1>1. CASE UNCHANGED vars
  BY <1>1 DEF Shape, Counts, CountRight, Live, Uncounted, vars, mainVars, sharedVars
<1>2. ASSUME NEW w \in Workers, Main(w)
      PROVE  Shape' /\ Counts'
  <2>1. \A v \in Workers \ {w} : ~raced'[v] => CountRight(v)'
    BY <1>2, OthersSame, SameCounts DEF Counts
  <2>2. ~raced'[w] => CountRight(w)'
    BY <1>2, MainCounts, ConstantsAssumption DEF Counts
  <2>3. QED
    BY <1>2, <2>1, <2>2, MainShape, ConstantsAssumption DEF Counts
<1>3. ASSUME NEW w \in Workers, NEW h \in Threads, ExecTask(w, h)
      PROVE  Shape' /\ Counts'
  <2>1. \A v \in Workers \ {w} : ~raced'[v] => CountRight(v)'
    BY <1>3, OthersSame, SameCounts DEF Counts
  <2>2. ~raced'[w] => CountRight(w)'
    BY <1>3, ExecCounts, ConstantsAssumption DEF Counts
  <2>3. QED
    BY <1>3, <2>1, <2>2, ExecShape, ConstantsAssumption DEF Counts
<1>4. ASSUME NEW c \in Clients, Client(c)
      PROVE  Shape' /\ Counts'
  <2>1. \A v \in Workers : ~raced'[v] => CountRight(v)'
    BY <1>4, ClientSame, SameCounts DEF Counts
  <2>2. Shape'
    BY <1>4 DEF Client, PushTask, Listen, Receive, Shape, mainVars, sharedVars
  <2>3. QED
    BY <2>1, <2>2 DEF Counts
<1>5. QED
  BY <1>1, <1>2, <1>3, <1>4 DEF Next

\* A worker runs no more threads than -t allows while no update of its counters is
\* lost, for any number of workers, threads, clients and tasks.
THEOREM ThreadLimitHolds == Spec => []ThreadLimit
<1>1. Init => Shape /\ Counts
  BY Initially
<1>2. (Shape /\ Counts) /\ [Next]_vars => (Shape /\ Counts)'
  BY StepCounts
<1>3. Shape /\ Counts => ThreadLimit
  BY DEF Counts, CountRight, ThreadLimit
<1>4. QED
  BY <1>1, <1>2, <1>3, PTL DEF Spec
-----------------------------------------------------------------------------
(***************************************************************************)
(* Types of all variables.  A count that a thread has loaded to store it   *)
(* one more is not negative: the counts that are sent are not.             *)
(***************************************************************************)
LoadedCounts ==
  \A w \in Workers, h \in Threads : thread[w][h].at = "storejob" => thread[w][h].held \in Nat

Others ==
  /\ waiting \in [Items -> Nat]
  /\ unsent \subseteq Tasks
  /\ peer \in [Workers -> Clients \union {NoClient}]
  /\ jobCount \in [Workers -> Nat]
  /\ zhtKey \in [Workers -> Peers]
  /\ socket \in [Clients -> {"none", "listening", "closed"}]
  /\ inbox \in [Clients -> Seq(Nat)]
  /\ messageCount \in [Clients -> Nat]
  /\ done \in [Strings -> Nat]
  /\ lost \in [Tasks -> Nat]
  /\ LoadedCounts

LEMMA TypesAreTypeOK ==
  ASSUME Shape, Others
  PROVE  TypeOK
BY DEF Shape, Others, TypeOK, ThreadRecords

\* What a push and the end of a task do to the queue and to what is lost.
LEMMA PushTypes ==
  ASSUME waiting \in [Items -> Nat], lost \in [Tasks -> Nat], NEW t, PushItem(t)
  PROVE  waiting' \in [Items -> Nat] /\ lost' \in [Tasks -> Nat]
BY DEF PushItem, Lose

LEMMA TakeTypes ==
  ASSUME waiting \in [Items -> Nat], NEW t \in Items, TakeItem(t)
  PROVE  waiting' \in [Items -> Nat]
BY DEF TakeItem

LEMMA HeldType ==
  ASSUME NEW w \in Workers, NEW t
  PROVE  /\ IsFiniteSet(Running(w, t))
         /\ Cardinality(Running(w, t)) \in Nat
         /\ Held(w, t) \in Nat
<1>1. IsFiniteSet(Running(w, t))
  BY ConstantsAssumption, FS_Subset DEF Running, ConstantsAssumption
<1>2. Cardinality(Running(w, t)) \in Nat
  BY <1>1, FS_CardinalityType
<1>3. QED
  BY <1>1, <1>2 DEF Held

\* A thread that goes on at another place than "storejob" has no count.
LEMMA CountsStay ==
  ASSUME Shape, LoadedCounts, NEW w \in Workers, NEW h \in Threads,
         \E at \in {"start", "run", "failed", "loadjob", "loaddown", "storedown"} :
           \E task, held : SetThread(w, h, at, task, held)
  PROVE  LoadedCounts'
BY DEF LoadedCounts, SetThread, Shape

LEMMA MainOthers ==
  ASSUME ConstantsAssumption, Shape, Others, NEW w \in Workers, Main(w)
  PROVE  Others'
<1>1. CASE StartPush(w)
  <2>1. waiting' \in [Items -> Nat] /\ lost' \in [Tasks -> Nat]
    BY <1>1, PushTypes DEF StartPush, Others
  <2>2. QED
    BY <1>1, <2>1 DEF StartPush, Others, LoadedCounts, sharedVars, clientVars
<1>2. CASE StartPop(w)
  <2>1. waiting' \in [Items -> Nat] /\ lost' \in [Tasks -> Nat]
    BY <1>2, TakeTypes DEF StartPop, Lose, Others
  <2>2. QED
    BY <1>2, <2>1 DEF StartPop, Others, LoadedCounts, sharedVars, clientVars
<1>3. CASE PopTask(w)
  <2>1. waiting' \in [Items -> Nat]
    BY <1>3, TakeTypes DEF PopTask, Others
  <2>2. QED
    BY <1>3, <2>1 DEF PopTask, Others, LoadedCounts, sharedVars, clientVars, historyVars
<1>4. CASE CreateThread(w)
  <2>1. LoadedCounts'
    BY <1>4, CountsStay DEF CreateThread, Others
  <2>2. QED
    BY <1>4, <2>1 DEF CreateThread, Others, poolVars, sharedVars, clientVars, historyVars
<1>5. CASE Exit(w)
  <2>1. lost' \in [Tasks -> Nat]
    BY <1>5, HeldType DEF Exit, Others
  <2>2. LoadedCounts'
    BY <1>5 DEF Exit, Others, LoadedCounts, NoThread, Shape
  <2>3. QED
    BY <1>5, <2>1, <2>2 DEF Exit, Others, poolVars, sharedVars, clientVars
<1>6. CASE Connect(w)
  BY <1>6 DEF Connect, Others, LoadedCounts, poolVars, sharedVars, clientVars, historyVars
<1>7. CASE Send(w)
  <2>1. inbox' \in [Clients -> Seq(Nat)]
    <3>1. CASE inbox' = inbox
      BY <3>1 DEF Others
    <3>2. CASE inbox' = [inbox EXCEPT ![peer[w]] = Append(@, jobCount[w])]
      <4>1. \A c \in Clients : Append(inbox[c], jobCount[w]) \in Seq(Nat)
        BY DEF Others
      <4>2. QED
        BY <3>2, <4>1 DEF Others
    <3>3. QED
      BY <1>7, <3>1, <3>2 DEF Send
  <2>2. peer' \in [Workers -> Clients \union {NoClient}]
    BY <1>7 DEF Send, Others
  <2>3. QED
    BY <1>7, <2>1, <2>2 DEF Send, Others, LoadedCounts, poolVars, sharedVars, historyVars
<1>8. CASE ClearKey(w)
  BY <1>8 DEF ClearKey, Others, Peers, LoadedCounts, poolVars, clientVars, historyVars
<1>9. CASE Reset(w)
  BY <1>9 DEF Reset, Others, LoadedCounts, poolVars, clientVars, historyVars
<1>10. CASE PopEmpty(w) \/ PopNothing(w) \/ LoadUp(w) \/ StoreUp(w)
  BY <1>10 DEF PopEmpty, PopNothing, LoadUp, StoreUp, Others, LoadedCounts, poolVars,
     sharedVars, clientVars, historyVars
<1>11. QED
  BY <1>1, <1>2, <1>3, <1>4, <1>5, <1>6, <1>7, <1>8, <1>9, <1>10
     DEF Main, MainStep, CreateFails, ConnectFails, SendFails

LEMMA ExecOthers ==
  ASSUME ConstantsAssumption, Shape, Others, NEW w \in Workers, NEW h \in Threads,
         ExecTask(w, h)
  PROVE  Others'
<1>1. thread[w][h] \in ThreadRecords
  BY DEF Shape
<1>2. CASE Copy(w, h)
  <2>1. LoadedCounts'
    BY <1>2, CountsStay DEF Copy, Others
  <2>2. QED
    BY <1>2, <2>1 DEF Copy, Others, poolVars, mainVars, sharedVars, clientVars, historyVars
<1>3. CASE RunOK(w, h) \/ RunFails(w, h)
  <2>1. LoadedCounts'
    BY <1>3, CountsStay DEF RunOK, RunFails, Ran, Others
  <2>2. KeyPart(thread[w][h].task) \in Peers
    BY <1>1 DEF KeyPart, ThreadRecords, Strings, Items, Peers, ConstantsAssumption
  <2>3. done' \in [Strings -> Nat]
    BY <1>1, <1>3 DEF RunOK, RunFails, Others
  <2>4. PICK next : Ran(w, h, next)
    BY <1>3 DEF RunOK, RunFails
  <2>5. zhtKey' \in [Workers -> Peers]
    BY <2>2, <2>4 DEF Ran, Others
  <2>6. UNCHANGED <<waiting, unsent, peer, jobCount, socket, inbox, messageCount, lost>>
    BY <2>4 DEF Ran, poolVars, mainVars, clientVars
  <2>7. QED
    BY <2>1, <2>3, <2>5, <2>6 DEF Others
<1>4. CASE PushBack(w, h)
  <2>1. LoadedCounts'
    BY <1>4, CountsStay DEF PushBack, Others
  <2>2. waiting' \in [Items -> Nat] /\ lost' \in [Tasks -> Nat]
    BY <1>4, PushTypes DEF PushBack, Others
  <2>3. QED
    BY <1>4, <2>1, <2>2 DEF PushBack, Others, mainVars, sharedVars, clientVars
<1>5. CASE LoadJob(w, h)
  <2>1. LoadedCounts'
    BY <1>5 DEF LoadJob, LoadedCounts, SetThread, Shape, Others
  <2>2. QED
    BY <1>5, <2>1 DEF LoadJob, Others, poolVars, mainVars, sharedVars, clientVars, historyVars
<1>6. CASE StoreJob(w, h)
  <2>1. LoadedCounts'
    BY <1>6, CountsStay DEF StoreJob, Others
  <2>2. jobCount' \in [Workers -> Nat]
    BY <1>6 DEF StoreJob, Others, LoadedCounts
  <2>3. QED
    BY <1>6, <2>1, <2>2 DEF StoreJob, Others, poolVars, mainVars, clientVars, historyVars
<1>7. CASE LoadDown(w, h)
  <2>1. LoadedCounts'
    BY <1>7, CountsStay DEF LoadDown, Others
  <2>2. QED
    BY <1>7, <2>1 DEF LoadDown, Others, poolVars, mainVars, sharedVars, clientVars, historyVars
<1>8. CASE StoreDown(w, h)
  <2>1. LoadedCounts'
    BY <1>8 DEF StoreDown, LoadedCounts, NoThread, Shape, Others
  <2>2. QED
    BY <1>8, <2>1 DEF StoreDown, Others, poolVars, mainVars, clientVars, historyVars
<1>9. QED
  BY <1>2, <1>3, <1>4, <1>5, <1>6, <1>7, <1>8 DEF ExecTask, ExecStep

LEMMA ClientOthers ==
  ASSUME Others, NEW c \in Clients, Client(c)
  PROVE  Others'
<1>1. ASSUME NEW t \in Tasks, PushTask(t)
      PROVE  Others'
  <2>1. waiting' \in [Items -> Nat] /\ lost' \in [Tasks -> Nat]
    BY <1>1, PushTypes DEF PushTask, Others
  <2>2. QED
    BY <1>1, <2>1 DEF PushTask, Others, LoadedCounts, mainVars, sharedVars, clientVars
<1>2. CASE Listen(c)
  BY <1>2 DEF Listen, Others, LoadedCounts, poolVars, mainVars, sharedVars, historyVars
<1>3. CASE Receive(c)
  <2>1. inbox[c] \in Seq(Nat) /\ inbox[c] # <<>>
    BY <1>3 DEF Receive, Others
  <2>2. Head(inbox[c]) \in Nat /\ Tail(inbox[c]) \in Seq(Nat)
    BY <2>1
  <2>3. inbox' \in [Clients -> Seq(Nat)]
    BY <1>3, <2>2 DEF Receive, Others
  <2>4. messageCount' \in [Clients -> Nat]
    BY <1>3, <2>2 DEF Receive, Others
  <2>5. socket' \in [Clients -> {"none", "listening", "closed"}]
    BY <1>3 DEF Receive, Others
  <2>6. QED
    BY <1>3, <2>3, <2>4, <2>5 DEF Receive, Others, LoadedCounts, poolVars, mainVars, sharedVars,
       historyVars
<1>4. QED
  BY <1>1, <1>2, <1>3 DEF Client

LEMMA OthersKept ==
  ASSUME Shape, Others, [Next]_vars
  PROVE  Others'
<1>1. CASE UNCHANGED vars
  BY <1>1 DEF Others, LoadedCounts, vars, poolVars, mainVars, sharedVars, clientVars, historyVars
<1>2. CASE Next
  BY <1>2, MainOthers, ExecOthers, ClientOthers, ConstantsAssumption DEF Next
<1>3. QED
  BY <1>1, <1>2

\* Every variable keeps its type; in particular the counts that workers send and clients
\* add up are never negative.
THEOREM TypesKept == Spec => []TypeOK
<1>1. Init => Shape /\ Counts /\ Others
  <2>1. Init => Others
    BY DEF Init, Others, LoadedCounts, NoThread, Peers
  <2>2. QED
    BY <2>1, Initially
<1>2. (Shape /\ Counts /\ Others) /\ [Next]_vars => (Shape /\ Counts /\ Others)'
  BY StepCounts, OthersKept
<1>3. Shape /\ Counts /\ Others => TypeOK
  BY TypesAreTypeOK
<1>4. QED
  BY <1>1, <1>2, <1>3, PTL DEF Spec


-----------------------------------------------------------------------------
(***************************************************************************)
(* A task is in one place.  When a worker has one thread, it pops only     *)
(* when no thread is alive: the string that a new thread is about to copy  *)
(* is still there.  Each step then moves a task, or none, between the      *)
(* places where it rests and the worker whose step it is.                  *)
(***************************************************************************)
Calm == (\A w \in Workers : ~raced[w]) /\ NumThreads = 1

Uncopied(w) == \A h \in Threads : thread[w][h].at = "start" => thread[w][h].task = result[w]

Once == Calm => \A t \in Tasks : InOnePlace(t) /\ \A w \in Workers : Uncopied(w)

LEMMA AtRestType ==
  ASSUME ConstantsAssumption, Others, NEW t \in Tasks
  PROVE  AtRest(t) \in Nat
BY DEF Others, AtRest, Items, Strings

\* What leaves its places of rest comes to the one worker, and the other way round.
LEMMA StaysInOnePlace ==
  ASSUME ConstantsAssumption, Others, Others', NEW t \in Tasks, NEW w \in Workers,
         InOnePlace(t),
         \A v \in Workers \ {w} : Held(v, t)' = Held(v, t),
         AtRest(t)' + Held(w, t)' = AtRest(t) + Held(w, t)
  PROVE  InOnePlace(t)'
<1>1. AtRest(t) \in Nat /\ Held(w, t) \in Nat
  BY AtRestType, HeldType
<1>2. AtRest(t)' \in Nat
  <2>1. {waiting[t], done[t], lost[t]}' \subseteq Nat
    BY DEF Others, Items, Strings
  <2>2. QED
    BY <2>1 DEF AtRest
<1>3. Held(w, t)' \in Nat
  <2>1. IsFiniteSet(Running(w, t)')
    BY ConstantsAssumption, FS_Subset DEF Running, ConstantsAssumption
  <2>2. QED
    BY <2>1, FS_CardinalityType DEF Held
<1>4. CASE AtRest(t) = 1 /\ \A v \in Workers : Held(v, t) = 0
  <2>1. \/ (AtRest(t)' = 1 /\ Held(w, t)' = 0)
        \/ (AtRest(t)' = 0 /\ Held(w, t)' = 1)
    BY <1>1, <1>2, <1>3, <1>4
  <2>2. \A v \in Workers \ {w} : Held(v, t)' = 0
    BY <1>4
  <2>3. QED
    BY <2>1, <2>2 DEF InOnePlace
<1>5. ASSUME AtRest(t) = 0, NEW u \in Workers, Held(u, t) = 1,
             \A v \in Workers \ {u} : Held(v, t) = 0
      PROVE  InOnePlace(t)'
  <2>1. CASE u = w
    <3>1. \/ (AtRest(t)' = 1 /\ Held(w, t)' = 0)
          \/ (AtRest(t)' = 0 /\ Held(w, t)' = 1)
      BY <1>1, <1>2, <1>3, <1>5, <2>1
    <3>2. \A v \in Workers \ {w} : Held(v, t)' = 0
      BY <1>5, <2>1
    <3>3. QED
      BY <3>1, <3>2 DEF InOnePlace
  <2>2. CASE u # w
    <3>1. AtRest(t)' = 0 /\ Held(w, t)' = 0
      BY <1>1, <1>2, <1>3, <1>5, <2>2
    <3>2. Held(u, t)' = 1 /\ \A v \in Workers \ {u} : Held(v, t)' = 0
      BY <1>5, <2>2, <3>1
    <3>3. QED
      BY <3>1, <3>2 DEF InOnePlace
  <2>3. QED
    BY <2>1, <2>2
<1>6. QED
  BY <1>4, <1>5 DEF InOnePlace

\* Nothing changes what w holds.
LEMMA HeldSame ==
  ASSUME NEW w \in Workers, NEW t, thread'[w] = thread[w],
         main'[w] = "create" <=> main[w] = "create",
         main[w] = "create" => result'[w] = result[w]
  PROVE  Held(w, t)' = Held(w, t)
BY DEF Held, Running, At

\* A step of one worker leaves the strings of the others alone.
LEMMA OthersResult ==
  ASSUME NEW w \in Workers, NEW v \in Workers \ {w}, Shape,
         Main(w) \/ \E h \in Threads : ExecTask(w, h)
  PROVE  result'[v] = result[v]
<1>1. CASE Main(w)
  BY <1>1 DEF Main, MainStep, StartPush, StartPop, PopTask, PopEmpty, PopNothing, CreateThread,
     CreateFails, LoadUp, StoreUp, Connect, ConnectFails, Send, SendFails, ClearKey, Reset, Exit,
     Shape
<1>2. ASSUME NEW h \in Threads, ExecTask(w, h)
      PROVE  result'[v] = result[v]
  BY <1>2 DEF ExecTask, ExecStep, Copy, Ran, RunOK, RunFails, PushBack, LoadJob, StoreJob,
     LoadDown, StoreDown, mainVars
<1>3. QED
  BY <1>1, <1>2

LEMMA OthersHold ==
  ASSUME NEW w \in Workers, NEW v \in Workers \ {w}, Shape,
         Main(w) \/ \E h \in Threads : ExecTask(w, h), NEW t
  PROVE  /\ Held(v, t)' = Held(v, t)
         /\ Uncopied(v) => Uncopied(v)'
<1>1. Same(v) /\ result'[v] = result[v]
  BY OthersSame, OthersResult
<1>2. Held(v, t)' = Held(v, t)
  BY <1>1, HeldSame DEF Same
<1>3. Uncopied(v) => Uncopied(v)'
  BY <1>1 DEF Same, Uncopied
<1>4. QED
  BY <1>2, <1>3

\* The main thread creates a thread, and pops, only when none is alive.
LEMMA NoneAlive ==
  ASSUME ConstantsAssumption, Shape, NEW w \in Workers, CountRight(w), NumThreads = 1,
         main[w] = "create" \/ (main[w] = "loop" /\ threadCount[w] < NumThreads)
  PROVE  Live(w) = {}
<1>1. threadCount[w] = Cardinality(Live(w)) /\ threadCount[w] < 1
  BY DEF CountRight, Uncounted, Shape
<1>2. Cardinality(Live(w)) = 0
  BY <1>1, LiveFinite
<1>3. QED
  BY <1>2, LiveFinite, FS_EmptySet

\* A push of t: it is in the queue once more, or lost.
LEMMA PushRests ==
  ASSUME ConstantsAssumption, Others, NEW t \in Tasks, NEW u, PushItem(u),
         unsent' = unsent, done' = done
  PROVE  AtRest(t)' = AtRest(t) + (IF t = u THEN 1 ELSE 0)
<1> DEFINE One == IF t = u THEN 1 ELSE 0
<1>1. \/ waiting'[t] = waiting[t] + One /\ lost'[t] = lost[t]
      \/ lost'[t] = lost[t] + One /\ waiting'[t] = waiting[t]
  <2>1. CASE t = u
    BY <2>1 DEF PushItem, Lose, Others, Items
  <2>2. CASE t # u
    <3>1. waiting'[t] = waiting[t] /\ lost'[t] = lost[t]
      BY <2>2 DEF PushItem, Lose, Others, Items
    <3>2. waiting[t] \in Nat
      BY DEF Others, Items
    <3>3. QED
      BY <2>2, <3>1, <3>2
  <2>3. QED
    BY <2>1, <2>2
<1>2. {waiting[t], lost[t], done[t]} \subseteq Nat
  BY DEF Others, Items, Strings
<1>3. QED
  BY <1>1, <1>2 DEF AtRest

LEMMA MainMoves ==
  ASSUME ConstantsAssumption, Shape, Others, NEW w \in Workers, Main(w),
         CountRight(w), NumThreads = 1, Uncopied(w), NEW t \in Tasks
  PROVE  /\ AtRest(t)' + Held(w, t)' = AtRest(t) + Held(w, t)
         /\ Uncopied(w)'
<1>1. /\ AtRest(t) \in Nat /\ Held(w, t) \in Nat
      /\ Cardinality(Running(w, t)) \in Nat /\ IsFiniteSet(Running(w, t))
  BY AtRestType, HeldType
<1>2. CASE StartPush(w)
  <2>1. AtRest(t)' = AtRest(t)
    BY <1>1, <1>2, PushRests DEF StartPush, ConstantsAssumption
  <2>2. Held(w, t)' = Held(w, t)
    BY <1>2, HeldSame DEF StartPush, At, Goto, Shape
  <2>3. Uncopied(w)'
    BY <1>2 DEF StartPush, Uncopied
  <2>4. QED
    BY <2>1, <2>2, <2>3
<1>3. CASE StartPop(w)
  <2>1. AtRest(t)' = AtRest(t)
    <3>1. CASE UNCHANGED <<waiting, lost>>
      BY <1>3, <3>1 DEF StartPop, AtRest
    <3>2. ASSUME NEW u \in Items, TakeItem(u), Lose(u)
          PROVE  AtRest(t)' = AtRest(t)
      <4>1. waiting'[t] + lost'[t] = waiting[t] + lost[t]
        BY <3>2 DEF TakeItem, Lose, Others, Items
      <4>2. {waiting[t], lost[t], done[t], waiting'[t], lost'[t]} \subseteq Int
        <5>1. waiting[t] \in Int /\ lost[t] \in Int /\ done[t] \in Int
          BY DEF Others, Items, Strings
        <5>2. waiting'[t] \in Int
          BY <3>2 DEF TakeItem, Others, Items
        <5>3. lost'[t] \in Int
          BY <3>2 DEF Lose, Others
        <5>4. QED
          BY <5>1, <5>2, <5>3
      <4>3. unsent' = unsent /\ done' = done
        BY <1>3 DEF StartPop
      <4>4. QED
        BY <4>1, <4>2, <4>3 DEF AtRest
    <3>3. QED
      BY <1>3, <3>1, <3>2 DEF StartPop
  <2>2. Held(w, t)' = Held(w, t)
    BY <1>3, HeldSame DEF StartPop, At, Goto, Shape
  <2>3. Uncopied(w)'
    BY <1>3 DEF StartPop, Uncopied
  <2>4. QED
    BY <2>1, <2>2, <2>3
<1>4. CASE PopTask(w)
  <2>1. PICK u \in Items : TakeItem(u) /\ result' = [result EXCEPT ![w] = u]
    BY <1>4 DEF PopTask
  <2>2. main[w] = "loop" /\ main'[w] = "create" /\ result'[w] = u
    BY <1>4, <2>1 DEF PopTask, At, Goto, Shape
  <2>3. thread' = thread /\ UNCHANGED <<unsent, done, lost>>
    BY <1>4 DEF PopTask, historyVars
  <2>4. Live(w) = {}
    BY <1>4, <2>2, NoneAlive DEF PopTask
  <2>5. Uncopied(w)'
    BY <2>3, <2>4 DEF Uncopied, Live
  <2>6. Held(w, t)' = Held(w, t) + (IF t = u THEN 1 ELSE 0)
    <3>1. Running(w, t)' = Running(w, t)
      BY <2>3 DEF Running
    <3>2. QED
      BY <1>1, <2>2, <3>1 DEF Held, At
  <2>7. waiting'[t] = waiting[t] - (IF t = u THEN 1 ELSE 0)
    BY <2>1 DEF TakeItem, Others, Items
  <2>8. {waiting[t], lost[t], done[t]} \subseteq Int
    BY DEF Others, Items, Strings
  <2>9. AtRest(t)' = AtRest(t) - (IF t = u THEN 1 ELSE 0)
    BY <2>3, <2>7, <2>8 DEF AtRest
  <2>10. QED
    BY <1>1, <2>5, <2>6, <2>9
<1>5. CASE CreateThread(w)
  <2>1. PICK h \in Threads : thread[w][h].at = "free" /\ SetThread(w, h, "start", result[w], 0)
    BY <1>5 DEF CreateThread
  <2>2. main[w] = "create" /\ main'[w] = "load" /\ result' = result
    BY <1>5 DEF CreateThread, At, Goto, Shape
  <2>3. AtRest(t)' = AtRest(t)
    BY <1>5 DEF CreateThread, AtRest, poolVars, historyVars
  <2>4. Uncopied(w)'
    BY <2>1, <2>2 DEF Uncopied, SetThread, Shape
  <2>5. Held(w, t)' = Held(w, t)
    <3>1. CASE result[w] = t
      <4>1. Running(w, t)' = Running(w, t) \union {h} /\ h \notin Running(w, t)
        BY <2>1, <3>1 DEF Running, SetThread, Shape
      <4>2. Cardinality(Running(w, t)') = Cardinality(Running(w, t)) + 1
        BY <1>1, <4>1, FS_AddElement
      <4>3. QED
        BY <1>1, <2>2, <3>1, <4>2 DEF Held, At
    <3>2. CASE result[w] # t
      <4>1. Running(w, t)' = Running(w, t)
        BY <2>1, <3>2 DEF Running, SetThread, Shape
      <4>2. QED
        BY <2>2, <3>2, <4>1 DEF Held, At
    <3>3. QED
      BY <3>1, <3>2
  <2>6. QED
    BY <2>3, <2>4, <2>5
<1>6. CASE Exit(w)
  <2>1. Running(w, t)' = {}
    BY <1>6 DEF Exit, Running, NoThread, Shape
  <2>2. Held(w, t)' = 0
    <3>1. main'[w] = "dead"
      BY <1>6 DEF Exit, Goto, Shape
    <3>2. Cardinality(Running(w, t)') = 0
      BY <2>1, FS_EmptySet
    <3>3. QED
      BY <3>1, <3>2 DEF Held, At
  <2>3. lost'[t] = lost[t] + Held(w, t) /\ UNCHANGED <<waiting, unsent, done>>
    BY <1>6 DEF Exit, poolVars
  <2>4. {waiting[t], lost[t], done[t]} \subseteq Nat
    BY DEF Others, Items, Strings
  <2>5. AtRest(t)' = AtRest(t) + Held(w, t)
    BY <1>1, <2>3, <2>4 DEF AtRest
  <2>6. Uncopied(w)'
    BY <1>6 DEF Exit, Uncopied, NoThread, Shape
  <2>7. QED
    BY <1>1, <2>2, <2>5, <2>6
<1>7. CASE PopEmpty(w) \/ PopNothing(w)
  <2>1. main[w] = "loop" /\ main'[w] # "create" /\ thread' = thread
    BY <1>7 DEF PopEmpty, PopNothing, At, Goto, Shape
  <2>2. Live(w) = {}
    BY <1>7, <2>1, NoneAlive DEF PopEmpty, PopNothing
  <2>3. Uncopied(w)'
    BY <2>1, <2>2 DEF Uncopied, Live
  <2>4. Held(w, t)' = Held(w, t)
    BY <2>1, HeldSame
  <2>5. AtRest(t)' = AtRest(t)
    BY <1>7 DEF PopEmpty, PopNothing, AtRest, poolVars, historyVars
  <2>6. QED
    BY <2>3, <2>4, <2>5
<1>8. CASE LoadUp(w) \/ StoreUp(w) \/ Connect(w) \/ Send(w) \/ ClearKey(w) \/ Reset(w)
  <2>1. main[w] # "create" /\ main'[w] # "create" /\ UNCHANGED <<thread, result>>
    BY <1>8 DEF LoadUp, StoreUp, Connect, Send, ClearKey, Reset, At, Goto, Shape
  <2>2. Held(w, t)' = Held(w, t)
    BY <2>1, HeldSame
  <2>3. Uncopied(w)'
    BY <2>1 DEF Uncopied
  <2>4. AtRest(t)' = AtRest(t)
    BY <1>8 DEF LoadUp, StoreUp, Connect, Send, ClearKey, Reset, AtRest, poolVars, historyVars
  <2>5. QED
    BY <2>2, <2>3, <2>4
<1>9. QED
  BY <1>2, <1>3, <1>4, <1>5, <1>6, <1>7, <1>8
     DEF Main, MainStep, CreateFails, ConnectFails, SendFails

\* Thread h of w goes on and starts nothing.
LEMMA StillUncopied ==
  ASSUME Shape, NEW w \in Workers, NEW h \in Threads, Uncopied(w), UNCHANGED result,
         NEW at, NEW task, NEW held, at # "start", SetThread(w, h, at, task, held)
  PROVE  Uncopied(w)'
BY DEF Uncopied, Shape, SetThread

\* Thread h of w goes on with its task, or without having one.
LEMMA HoldsOn ==
  ASSUME Shape, NEW w \in Workers, NEW h \in Threads, NEW t, UNCHANGED <<main, result>>,
         NEW at, NEW task, NEW held, SetThread(w, h, at, task, held),
         h \in Running(w, t) <=> (at \in {"start", "run", "failed"} /\ task = t)
  PROVE  Held(w, t)' = Held(w, t)
<1>1. Running(w, t)' = Running(w, t)
  BY DEF Running, Shape, SetThread
<1>2. QED
  BY <1>1 DEF Held, At

\* Thread h of w has done with its task.
LEMMA HoldsLess ==
  ASSUME Shape, NEW w \in Workers, NEW h \in Threads, NEW t, UNCHANGED <<main, result>>,
         NEW at, NEW task, NEW held, SetThread(w, h, at, task, held),
         thread[w][h].at \in {"run", "failed"}, at \notin {"start", "run", "failed"}
  PROVE  Held(w, t)' = Held(w, t) - (IF t = thread[w][h].task THEN 1 ELSE 0)
<1>1. CASE t = thread[w][h].task
  <2>1. Running(w, t)' = Running(w, t) \ {h} /\ h \in Running(w, t)
    BY <1>1 DEF Running, Shape, SetThread
  <2>2. Cardinality(Running(w, t)') = Cardinality(Running(w, t)) - 1
    BY <2>1, HeldType, FS_RemoveElement
  <2>3. Cardinality(Running(w, t)) \in Nat
    BY HeldType
  <2>4. QED
    BY <1>1, <2>2, <2>3 DEF Held, At
<1>2. CASE t # thread[w][h].task
  <2>1. h \notin Running(w, t)
    BY <1>2 DEF Running
  <2>2. Held(w, t)' = Held(w, t)
    BY <2>1, HoldsOn
  <2>3. QED
    BY <1>2, <2>2, HeldType
<1>3. QED
  BY <1>1, <1>2

LEMMA ExecMoves ==
  ASSUME ConstantsAssumption, Shape, Others, NEW w \in Workers, NEW h \in Threads,
         ExecTask(w, h), Uncopied(w), NEW t \in Tasks
  PROVE  /\ AtRest(t)' + Held(w, t)' = AtRest(t) + Held(w, t)
         /\ Uncopied(w)'
<1> DEFINE own == thread[w][h].task
           One == IF t = own THEN 1 ELSE 0
<1>1. AtRest(t) \in Nat /\ Held(w, t) \in Nat
  BY AtRestType, HeldType
<1>2. UNCHANGED <<main, result>>
  BY DEF ExecTask, ExecStep, Copy, Ran, RunOK, RunFails, PushBack, LoadJob, StoreJob, LoadDown,
     StoreDown, mainVars
<1>3. CASE Copy(w, h)
  <2>1. thread[w][h].at = "start" /\ result[w] = own
    BY <1>3 DEF Copy, Uncopied
  <2>2. SetThread(w, h, "run", own, 0)
    BY <1>3, <2>1 DEF Copy
  <2>3. Uncopied(w)'
    BY <1>2, <2>2, StillUncopied
  <2>4. Held(w, t)' = Held(w, t)
    BY <1>2, <2>1, <2>2, HoldsOn DEF Running
  <2>5. AtRest(t)' = AtRest(t)
    BY <1>3 DEF Copy, AtRest, poolVars, historyVars
  <2>6. QED
    BY <2>3, <2>4, <2>5
<1>4. CASE RunOK(w, h)
  <2>1. thread[w][h].at = "run" /\ SetThread(w, h, "loadjob", own, 0)
    BY <1>4 DEF RunOK, Ran
  <2>2. Uncopied(w)'
    BY <1>2, <2>1, StillUncopied
  <2>3. Held(w, t)' = Held(w, t) - One
    BY <1>2, <2>1, HoldsLess
  <2>4. {waiting[t], lost[t], done[t]} \subseteq Nat
    BY DEF Others, Items, Strings
  <2>5. done'[t] = done[t] + One
    BY <1>4, <2>4 DEF RunOK, Others, Items, Strings
  <2>6. UNCHANGED <<waiting, unsent, lost>>
    BY <1>4 DEF RunOK, Ran, poolVars
  <2>7. AtRest(t)' = AtRest(t) + One
    BY <2>4, <2>5, <2>6 DEF AtRest
  <2>8. QED
    BY <1>1, <2>2, <2>3, <2>7
<1>5. CASE RunFails(w, h)
  <2>1. thread[w][h].at = "run" /\ SetThread(w, h, "failed", own, 0)
    BY <1>5 DEF RunFails, Ran
  <2>2. Uncopied(w)'
    BY <1>2, <2>1, StillUncopied
  <2>3. Held(w, t)' = Held(w, t)
    BY <1>2, <2>1, HoldsOn DEF Running
  <2>4. AtRest(t)' = AtRest(t)
    BY <1>5 DEF RunFails, Ran, AtRest, poolVars
  <2>5. QED
    BY <2>2, <2>3, <2>4
<1>6. CASE PushBack(w, h)
  <2>1. thread[w][h].at = "failed" /\ SetThread(w, h, "loaddown", NoTask, 0)
    BY <1>6 DEF PushBack
  <2>2. Uncopied(w)'
    BY <1>2, <2>1, StillUncopied
  <2>3. Held(w, t)' = Held(w, t) - One
    BY <1>2, <2>1, HoldsLess
  <2>4. AtRest(t)' = AtRest(t) + One
    BY <1>6, PushRests DEF PushBack
  <2>5. QED
    BY <1>1, <2>2, <2>3, <2>4
<1>7. CASE LoadJob(w, h) \/ StoreJob(w, h) \/ LoadDown(w, h) \/ StoreDown(w, h)
  <2>1. thread[w][h].at \notin {"start", "run", "failed"}
    BY <1>7 DEF LoadJob, StoreJob, LoadDown, StoreDown
  <2>2. PICK at \in {"free", "storejob", "loaddown", "storedown"} :
          \E held : SetThread(w, h, at, NoTask, held)
    BY <1>7 DEF LoadJob, StoreJob, LoadDown, StoreDown, SetThread, NoThread
  <2>3. Uncopied(w)'
    BY <1>2, <2>2, StillUncopied
  <2>4. Held(w, t)' = Held(w, t)
    BY <1>2, <2>1, <2>2, HoldsOn DEF Running
  <2>5. AtRest(t)' = AtRest(t)
    BY <1>7 DEF LoadJob, StoreJob, LoadDown, StoreDown, AtRest, poolVars, historyVars
  <2>6. QED
    BY <2>3, <2>4, <2>5
<1>8. QED
  BY <1>3, <1>4, <1>5, <1>6, <1>7 DEF ExecTask, ExecStep

\* A client moves its tasks to the queue, and nothing else moves them.
LEMMA ClientMoves ==
  ASSUME ConstantsAssumption, Others, Others', NEW c \in Clients, Client(c),
         NEW t \in Tasks, InOnePlace(t)
  PROVE  InOnePlace(t)'
<1>1. UNCHANGED <<main, result, thread>>
  BY DEF Client, PushTask, Listen, Receive, mainVars
<1>2. \A w \in Workers : Held(w, t)' = Held(w, t)
  BY <1>1 DEF Held, Running, At
<1>3. AtRest(t)' = AtRest(t)
  <2>1. ASSUME NEW u \in Tasks, PushTask(u)
        PROVE  AtRest(t)' = AtRest(t)
    <3>1. {waiting[t], lost[t], done[t], waiting'[t], lost'[t]} \subseteq Nat
      BY DEF Others, Items, Strings
    <3>2. u \in unsent /\ unsent' = unsent \ {u} /\ done' = done /\ PushItem(u)
      BY <2>1 DEF PushTask
    <3>3. CASE t = u
      <4>1. \/ waiting'[t] = waiting[t] + 1 /\ lost'[t] = lost[t]
            \/ lost'[t] = lost[t] + 1 /\ waiting'[t] = waiting[t]
        BY <3>2, <3>3 DEF PushItem, Lose, Others, Items
      <4>2. QED
        BY <3>1, <3>2, <3>3, <4>1 DEF AtRest
    <3>4. CASE t # u
      <4>1. waiting'[t] = waiting[t] /\ lost'[t] = lost[t]
        BY <3>2, <3>4 DEF PushItem, Lose, Others, Items
      <4>2. QED
        BY <3>2, <3>4, <4>1 DEF AtRest
    <3>5. QED
      BY <3>3, <3>4
  <2>2. CASE Listen(c) \/ Receive(c)
    BY <2>2 DEF Listen, Receive, AtRest, poolVars, historyVars
  <2>3. QED
    BY <2>1, <2>2 DEF Client
<1>4. QED
  BY <1>2, <1>3 DEF InOnePlace

\* A lost update stays recorded.
LEMMA CalmBefore ==
  ASSUME Shape, [Next]_vars, Calm'
  PROVE  Calm
<1>1. ASSUME NEW w \in Workers, raced[w]
      PROVE  raced'[w]
  <2>1. CASE UNCHANGED vars
    BY <1>1, <2>1 DEF vars, sharedVars
  <2>2. ASSUME NEW v \in Workers, Main(v)
        PROVE  raced'[w]
    BY <1>1, <2>2 DEF Main, MainStep, StartPush, StartPop, PopTask, PopEmpty, PopNothing,
       CreateThread, CreateFails, LoadUp, StoreUp, Connect, ConnectFails, Send, SendFails,
       ClearKey, Reset, Exit, Shape, sharedVars
  <2>3. ASSUME NEW v \in Workers, NEW h \in Threads, ExecTask(v, h)
        PROVE  raced'[w]
    BY <1>1, <2>3 DEF ExecTask, ExecStep, Copy, Ran, RunOK, RunFails, PushBack, LoadJob,
       StoreJob, LoadDown, StoreDown, Shape, sharedVars
  <2>4. ASSUME NEW c \in Clients, Client(c)
        PROVE  raced'[w]
    BY <1>1, <2>4 DEF Client, PushTask, Listen, Receive, sharedVars
  <2>5. QED
    BY <2>1, <2>2, <2>3, <2>4 DEF Next
<1>2. QED
  BY <1>1 DEF Calm

LEMMA OnceKept ==
  ASSUME Shape, Counts, Others, Others', Once, [Next]_vars
  PROVE  Once'
<1> SUFFICES ASSUME Calm', NEW t \in Tasks
             PROVE  InOnePlace(t)' /\ \A w \in Workers : Uncopied(w)'
  BY DEF Once
<1>1. Calm
  BY CalmBefore
<1>2. /\ NumThreads = 1
      /\ \A w \in Workers : CountRight(w) /\ Uncopied(w)
      /\ InOnePlace(t)
  BY <1>1 DEF Calm, Counts, Once
<1>3. ASSUME NEW w \in Workers, Main(w) \/ \E h \in Threads : ExecTask(w, h)
      PROVE  InOnePlace(t)' /\ \A v \in Workers : Uncopied(v)'
  <2>1. \A v \in Workers \ {w} : Held(v, t)' = Held(v, t) /\ Uncopied(v)'
    BY <1>2, <1>3, OthersHold
  <2>2. AtRest(t)' + Held(w, t)' = AtRest(t) + Held(w, t) /\ Uncopied(w)'
    BY <1>2, <1>3, MainMoves, ExecMoves, ConstantsAssumption
  <2>3. InOnePlace(t)'
    BY <1>2, <2>1, <2>2, StaysInOnePlace, ConstantsAssumption
  <2>4. QED
    BY <2>1, <2>2, <2>3
<1>4. ASSUME NEW c \in Clients, Client(c)
      PROVE  InOnePlace(t)' /\ \A v \in Workers : Uncopied(v)'
  <2>1. InOnePlace(t)'
    BY <1>2, <1>4, ClientMoves, ConstantsAssumption
  <2>2. \A v \in Workers : Uncopied(v)'
    BY <1>2, <1>4 DEF Client, PushTask, Listen, Receive, mainVars, Uncopied
  <2>3. QED
    BY <2>1, <2>2
<1>5. CASE UNCHANGED vars
  BY <1>2, <1>5 DEF vars, poolVars, mainVars, historyVars, Uncopied, InOnePlace, AtRest, Held,
     Running, At
<1>6. QED
  BY <1>3, <1>4, <1>5 DEF Next

LEMMA OnceInitially ==
  ASSUME Init
  PROVE  Once
<1>1. \A w \in Workers : Uncopied(w)
  BY DEF Init, Uncopied, NoThread
<1>2. ASSUME NEW t \in Tasks
      PROVE  InOnePlace(t)
  <2>1. AtRest(t) = 1
    BY DEF Init, AtRest, Items, Strings
  <2>2. ASSUME NEW w \in Workers
        PROVE  Held(w, t) = 0
    <3>1. Running(w, t) = {}
      BY DEF Init, Running, NoThread
    <3>2. Cardinality(Running(w, t)) = 0
      BY <3>1, FS_EmptySet
    <3>3. QED
      BY <3>2 DEF Init, Held, At
  <2>3. QED
    BY <2>1, <2>2 DEF InOnePlace
<1>3. QED
  BY <1>1, <1>2 DEF Once

\* With one thread per worker a task is with its client, in the queue, with one worker,
\* done or lost, and in one of these places only, while no update of a counter is lost:
\* for any number of workers, clients and tasks.
THEOREM TasksInOnePlace == Spec => []EachTaskOnce
<1> DEFINE Inv == Shape /\ Counts /\ Others /\ Once
<1>1. Init => Inv
  <2>1. Init => Others
    BY DEF Init, Others, LoadedCounts, NoThread, Peers
  <2>2. QED
    BY <2>1, Initially, OnceInitially
<1>2. Inv /\ [Next]_vars => Inv'
  BY StepCounts, OthersKept, OnceKept
<1>3. Inv => EachTaskOnce
  BY DEF Once, Calm, EachTaskOnce
<1>4. QED
  BY <1>1, <1>2, <1>3, PTL DEF Spec
===============================================================================
