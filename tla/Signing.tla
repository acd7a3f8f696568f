------------------------------ MODULE Signing ------------------------------
(***************************************************************************)
(* What a run of signing promises, without steps, messages and timers: a   *)
(* node puts its share of the group key to one R at most, and reports a    *)
(* signature once, for an R to which a quorum of nodes have put theirs.  A *)
(* node that fails reports nothing.                                        *)
(***************************************************************************)
CONSTANTS
  Nodes,   \* the members of the group
  Quorums  \* the sets of nodes whose shares of the key make a signature

VARIABLES
  put,      \* the R to which a node has put its share: none or one
  reported  \* the R of the signature a node has reported: none or one
vars == <<put, reported>>

Init ==
  /\ put = [n \in Nodes |-> {}]
  /\ reported = [n \in Nodes |-> {}]

\* The node makes s of its nonce, its share of the key and the hash of some R.
PutShare(n) ==
  /\ put[n] = {}
  /\ \E r \in put'[n] : put' = [put EXCEPT ![n] = {r}]
  /\ UNCHANGED reported

Report(n) ==
  /\ reported[n] = {}
  /\ \E r \in reported'[n] :
       /\ reported' = [reported EXCEPT ![n] = {r}]
       /\ \E E \in Quorums : \A m \in E : put[m] = {r}
  /\ UNCHANGED put

Next == \E n \in Nodes : PutShare(n) \/ Report(n)

Spec == Init /\ [][Next]_vars
=============================================================================
