----------------------------- MODULE MCCkpJobs -----------------------------
(***************************************************************************)
(* Instances of CkpJobs for TLC.  With one client all workers, tasks and   *)
(* threads are interchangeable; with one task per client, clients are told *)
(* apart by their tasks and only threads are.  The symmetry is used for    *)
(* the invariants only.                                                    *)
(***************************************************************************)
EXTENDS CkpJobs, TLC

MCMinCount == -2

MCOwner == [t \in Tasks |-> CHOOSE c \in Clients : TRUE]

MCOwnerEach == CHOOSE f \in [Tasks -> Clients] : \A c \in Clients : \E t \in Tasks : f[t] = c

ThreadSymmetry == Permutations(Threads)
Symmetry == Permutations(Workers) \union Permutations(Tasks) \union Permutations(Threads)
=============================================================================
