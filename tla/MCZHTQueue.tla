----------------------------- MODULE MCZHTQueue -----------------------------
(***************************************************************************)
(* Instances of ZHTQueue for TLC.  Two servers, so that a call can cross   *)
(* from one to the other: s1 keeps the metadata queue, s2 is where the     *)
(* fallback pop goes.                                                      *)
(***************************************************************************)
EXTENDS ZHTQueue, TLC

CONSTANTS s1, s2, k1, k2, k3, k4, t1, t2, t3, t4

\* Each task under a key of its own; k1 and k4 hash to s1, k2 and k3 to s2.
MCKeyOf == [t \in Tasks |-> (t1 :> k1 @@ t2 :> k2 @@ t3 :> k3 @@ t4 :> k4)[t]]
MCHostOf == k1 :> s1 @@ k2 :> s2 @@ k3 :> s2 @@ k4 :> s1 @@ PopKey :> s1
MCPrefixHost == k1 :> s2 @@ k2 :> s1 @@ k3 :> s1 @@ k4 :> s2 @@ PopKey :> s2

\* Two uuids of 36 characters, as the test programs make them, and two keys that start
\* with the address of a host 100.x and of a host 200.x, as ckp_client makes them.
MCKeyStatus == k1 :> "uuid" @@ k2 :> "uuid" @@ k3 :> "100" @@ k4 :> "200"
=============================================================================
