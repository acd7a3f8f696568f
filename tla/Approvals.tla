----------------------------- MODULE Approvals -----------------------------
(***************************************************************************)
(* What the approval database promises to those who sign, without lists,   *)
(* copies and half-done calls: each key has at most one approved entry,    *)
(* which is data somebody approved and is never taken away, and a request  *)
(* passes in one moment, in which the entry of its key is its data.        *)
(***************************************************************************)
CONSTANTS
  Callers,  \* who uses the database
  Keys,     \* the keys of data
  None      \* no entry

VARIABLES
  granted,  \* the data somebody has asked to approve
  entry,    \* the approved data of each key, or None
  passed    \* the data with which the last call of a caller passed: none or one
vars == <<granted, entry, passed>>

Init ==
  /\ granted = {}
  /\ entry = [k \in Keys |-> None]
  /\ passed = [c \in Callers |-> {}]

\* A call begins; an approval is granted as it is asked for.
Ask(c) ==
  /\ passed' = [passed EXCEPT ![c] = {}]
  /\ granted' = granted \/ \E x \in granted' : granted' = granted \cup {x}
  /\ UNCHANGED entry

\* Granted data becomes the entry of its key, perhaps in place of other such data.
Enter(k) ==
  /\ entry'[k] \in granted /\ entry'[k].key = k
  /\ entry' = [entry EXCEPT ![k] = entry'[k]]
  /\ UNCHANGED <<granted, passed>>

Pass(c) ==
  /\ passed[c] = {}
  /\ \E x \in passed'[c] : passed' = [passed EXCEPT ![c] = {x}] /\ entry[x.key] = x
  /\ UNCHANGED <<granted, entry>>

\* The node restarts; those who called are gone.
Restart ==
  /\ passed' = [c \in Callers |-> {}]
  /\ UNCHANGED <<granted, entry>>

Next == (\E c \in Callers : Ask(c) \/ Pass(c)) \/ (\E k \in Keys : Enter(k)) \/ Restart

Spec == Init /\ [][Next]_vars
=============================================================================
