----------------------------- MODULE DialState -----------------------------
(***************************************************************************)
(* The dialer of the p2p server (dial.go): which nodes are dialled next.   *)
(* Its state is a record d, which only the run loop of the server changes: *)
(*   static, storeman  the nodes to keep connected                         *)
(*   dialing           the flag of the dial task of a node, or "no"        *)
(*   lookupRunning     whether a discovery lookup is a task                *)
(*   hist              nodes dialled lately, the next to expire first      *)
(* The nodes discovery has found (randomNodes, lookupBuf) are any nodes.   *)
(***************************************************************************)
EXTENDS Integers, Sequences, FiniteSets

CONSTANTS
  Nodes,          \* node ids
  Self,           \* the id of this node
  StoremanNodes,  \* the configured group
  Leader,         \* StoremanNodes[0], which newDialState dials from the start
  MaxDialed       \* maxDialedConns, for dynamic dials

\* Tasks other than dials; a dial task is the node it dials.
Lookup     == "lookup"
WaitExpire == "wait"
Tasks      == Nodes \cup {Lookup, WaitExpire}

ASSUME DialAssumption ==
  /\ IsFiniteSet(Nodes)
  /\ Self \in Nodes /\ StoremanNodes \subseteq Nodes /\ Leader \in StoremanNodes
  /\ MaxDialed \in Nat
  /\ Lookup \notin Nodes /\ WaitExpire \notin Nodes

newDialState ==
  [static |-> {}, storeman |-> {Leader}, dialing |-> [n \in Nodes |-> "no"],
   lookupRunning |-> FALSE, hist |-> <<>>]

\* dialHistory.remove, and dialHistory.expire as it will find the oldest entry: nobody
\* looks at an entry between its expiry and the next newTasks.
histRemove(d, n) ==
  IF \E i \in 1..Len(d.hist) : d.hist[i] = n
  THEN LET i == CHOOSE i \in 1..Len(d.hist) : d.hist[i] = n
       IN  [d EXCEPT !.hist = SubSeq(@, 1, i - 1) \o SubSeq(@, i + 1, Len(@))]
  ELSE d
expire(d) == [d EXCEPT !.hist = Tail(@)]

addStatic(d, n)      == [d EXCEPT !.static = @ \cup {n}]
removeStatic(d, n)   == [histRemove(d, n) EXCEPT !.static = @ \ {n}]
removeStoreman(d, n) == [histRemove(d, n) EXCEPT !.storeman = @ \ {n}]

\* addStoreman takes a node with another address off the list.
addStoreman(d, n, sameAddress) ==
  IF n \in d.storeman /\ ~sameAddress THEN removeStoreman(d, n)
  ELSE [d EXCEPT !.storeman = @ \cup {n}]

\* dialHistory.contains.
contains(d, n) == \E i \in DOMAIN d.hist : d.hist[i] = n

\* checkDial, with discovery (ntab) and without netrestrict.
checkDial(d, n, connected) ==
  IF d.dialing[n] # "no" THEN "errAlreadyDialing"
  ELSE IF n \in connected THEN "errAlreadyConnected"
  ELSE IF n = Self THEN "errSelf"
  ELSE IF contains(d, n) THEN "errRecentlyDialed" ELSE "nil"

Dialable(d, S, connected) == {n \in S : checkDial(d, n, connected) = "nil"}
Refused(d, S, connected)  == {n \in S : checkDial(d, n, connected) = "errSelf"}

Dial(d, S, flag) ==
  [d EXCEPT !.dialing = [n \in Nodes |-> IF n \in S THEN flag ELSE @[n]]]

\* The static nodes, and the storemen, that can be dialled are; a node that is this
\* one leaves its list.
DialStatic(d, connected) ==
  [Dial(d, Dialable(d, d.static, connected), "static")
     EXCEPT !.static = @ \ Refused(d, @, connected)]
DialStoremen(d, connected) ==
  [Dial(d, Dialable(d, d.storeman, connected), "storeman")
     EXCEPT !.storeman = @ \ Refused(d, @, connected)]

\* The orders in which a Go map may list the nodes S.
Listings(S) == {f \in [1..Cardinality(S) -> S] : \A i, j \in DOMAIN f : f[i] = f[j] => i = j}

\* Form of needsWait that never waits.
needsWaitNever(d, nRunning, tasks) == FALSE

\* Nothing is to be done before an entry of the history expires.
needsWait(d, nRunning, tasks) == nRunning = 0 /\ tasks = <<>> /\ d.hist # <<>>

\* The dynamic dials that are needed.
DynNeeded(d, nDyn) ==
  MaxDialed - nDyn - Cardinality({n \in Nodes : d.dialing[n] = "dyn"})

\* newTasks of d once the dials are listed as dials and marked in d3: a lookup when
\* more are needed, or a task that waits when there is nothing else to do.
WithLookup(d, d3, nRunning, more, dials) ==
  LET look == more /\ ~d.lookupRunning
      ts   == dials \o (IF look THEN <<Lookup>> ELSE <<>>)
  IN  [d     |-> [d3 EXCEPT !.lookupRunning = @ \/ look],
       tasks |-> IF needsWait(d, nRunning, ts) THEN <<WaitExpire>> ELSE ts]

\* newTasks: static nodes first, then storemen, then as many dynamic dials as are
\* needed and discovery has nodes for.  The result is the set of what the orders of
\* Go maps and discovery may lead to.
newTasks(d, nRunning, connected, nDyn) ==
  LET d1   == DialStatic(d, connected)
      d2   == DialStoremen(d1, connected)
      need == DynNeeded(d, nDyn)
      dyns == {x \in SUBSET Dialable(d2, Nodes, connected) : x = {} \/ Cardinality(x) <= need}
  IN  UNION {{WithLookup(d, Dial(d2, dyn, "dyn"), nRunning, Cardinality(dyn) < need, a \o b \o c) :
                a \in Listings(Dialable(d, d.static, connected)),
                b \in Listings(Dialable(d1, d1.storeman, connected)), c \in Listings(dyn)} :
             dyn \in dyns}

\* taskDone.
taskDone(d, t) ==
  CASE t \in Nodes -> [d EXCEPT !.hist = Append(@, t), !.dialing[t] = "no"]
    [] t = Lookup  -> [d EXCEPT !.lookupRunning = FALSE]
    [] OTHER       -> d
=============================================================================
