---------------------------- MODULE KeyCreation ----------------------------
(***************************************************************************)
(* What the creation of a group public key promises, whatever happens to   *)
(* messages and nodes: keystores are for one key only, and a node reports  *)
(* success only when every node of the group has its keystore.             *)
(***************************************************************************)
CONSTANTS Nodes, Keys, NoKey

VARIABLES
  store,    \* the keystore of each node, or NoKey
  result    \* what the node reported: "none" yet, "ok" or "err"

vars == <<store, result>>

Init ==
  /\ store = [n \in Nodes |-> NoKey]
  /\ result = [n \in Nodes |-> "none"]

\* A node writes its keystore, for the same key as everybody before it.
Write(n) ==
  /\ store[n] = NoKey /\ store'[n] \in Keys
  /\ \A m \in Nodes : store[m] \in {NoKey, store'[n]}
  /\ store' = [store EXCEPT ![n] = store'[n]]
  /\ UNCHANGED result

Succeed(n) ==
  /\ result[n] = "none"
  /\ \A m \in Nodes : store[m] # NoKey
  /\ result' = [result EXCEPT ![n] = "ok"]
  /\ UNCHANGED store

Fail(n) ==
  /\ result[n] = "none"
  /\ result' = [result EXCEPT ![n] = "err"]
  /\ UNCHANGED store

Next == \E n \in Nodes : Write(n) \/ Succeed(n) \/ Fail(n)

Spec == Init /\ [][Next]_vars
=============================================================================
