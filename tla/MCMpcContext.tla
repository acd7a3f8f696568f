---- MODULE MCMpcContext ----
(***************************************************************************)
(* Instances of MpcContext: the first steps of the context of a leader and *)
(* of a peer, in a group with the given Peers, the leader among them.      *)
(***************************************************************************)
EXTENDS MpcContext, TLC

CONSTANT Leader

N == Cardinality(Peers)

\* genCreateGPKMpc: request or acknowledge, ready, then a step that collects
\* from all; ackMpc broadcasts to everybody, ready comes from the leader.
GpkWait == IF Self = Leader THEN (0 :> N - 1) @@ (1 :> 0) @@ (2 :> N)
                            ELSE (0 :> 0) @@ (1 :> 1) @@ (2 :> N)
GpkSenders == (0 :> Peers \ {Leader}) @@ (1 :> {Leader}) @@ (2 :> Peers)
====
